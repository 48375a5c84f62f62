CONSTANTS
  Connections = {c1, c2}
  Nobody = Nobody
  c1 = c1
  c2 = c2
  MaxRuns = 2
  MaxTurns = 2
  MaxReplays = 1
  MaxStops = 0
  MaxFaults = 1
SPECIFICATION Spec
INVARIANTS GateNeverWaitsForItself
CHECK_DEADLOCK FALSE
