CONSTANTS
  Sessions = {s1, s2}
  s1 = s1
  initial = s1
  NoSession = NoSession
  MaxRuns = 1
  MaxInputs = 2
SPECIFICATION Spec
INVARIANTS TranscriptIsOfTheSession
CHECK_DEADLOCK FALSE
