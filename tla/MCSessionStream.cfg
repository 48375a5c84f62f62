CONSTANTS
  Command = Command
  Retry = Retry
  Nobody = Nobody
  Capacity = 2
  MaxRuns = 2
  MaxRows = 4
  MaxJoin = 2
  MaxConnections = 2
  MaxReplays = 1
  MaxFaults = 1
SPECIFICATION Spec
INVARIANTS NoRowIsLost ReplyPrecedesFrames
CONSTRAINT OneOfEach
CHECK_DEADLOCK FALSE
