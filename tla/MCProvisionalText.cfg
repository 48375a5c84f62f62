CONSTANTS
  Window = 2
  MaxSteps = 2
  MaxChunks = 3
  MaxSubscriptions = 1
SPECIFICATION Spec
INVARIANTS BuffersHoldOneStep
PROPERTIES TextIsInTime
CHECK_DEADLOCK FALSE
