CONSTANTS
  Retained = 2
  MaxRows = 3
  MaxRuns = 2
  MaxLines = 2
  MaxSignals = 1
SPECIFICATION Spec
INVARIANTS PromptsEndWithTheirRun
CHECK_DEADLOCK FALSE
