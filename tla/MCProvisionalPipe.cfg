CONSTANTS
  Window = 1
  MaxSteps = 1
  MaxChunks = 3
  MaxSubscriptions = 0
SPECIFICATION Spec
PROPERTIES PipeOutputIsTheAnswer
CHECK_DEADLOCK FALSE
