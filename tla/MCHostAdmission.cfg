CONSTANTS
  Connections = {c1, c2}
  Nobody = Nobody
  c1 = c1
  c2 = c2
  MaxRuns = 2
  MaxTurns = 2
  MaxReplays = 1
  MaxStops = 1
  MaxFaults = 1
SPECIFICATION Spec
INVARIANTS TypeOK StartingRunAttended
PROPERTIES OneExecutorPerRun
CHECK_DEADLOCK FALSE
