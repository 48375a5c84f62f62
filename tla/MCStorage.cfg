CONSTANTS
  Sessions = {s1, s2}
  Keys = {k1, k2, k3}
  RunIds = {r1, r2, r3}
  Texts = {c1}
  Calls = {t1}
  Evidence = {e1}
  NoSession = NoSession
  NoCall = NoCall
  NoEvidence = NoEvidence
  MaxTurns = 3
  MaxRows = 4
  MaxEpochs = 2
SPECIFICATION Spec
SYMMETRY Symmetry
INVARIANTS TypeOK OneActiveRun TurnsMatchRuns RowsBelongToTheirRun TurnsEnterOnceInOrder
  ToolResultsAnswerOnce ActiveRunsAreOfThisProcess
PROPERTIES TerminalRunsStayClosed DeliversTurns
CHECK_DEADLOCK FALSE
