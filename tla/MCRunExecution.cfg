CONSTANTS
  MaxAttempts = 2
  MaxCalls = 2
  MaxToolRounds = 1
  MaxRows = 3
  MaxTurns = 1
  MaxFaults = 1
SPECIFICATION FairSpec
INVARIANTS TypeOK RequestsCarryJoinedRows CompletionLeavesOnlyLateTurns
  StopReachesStream
PROPERTIES RetryDiscardsNothing KeepsTranscript RunEnds
CHECK_DEADLOCK FALSE
