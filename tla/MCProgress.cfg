CONSTANTS
  c1 = c1
  c2 = c2
  Parts = {"bootstrap", "stream", "host", "terminal", "headless", "execution",
    "context"}
  Unused = Unused
  Clients = {c1, c2}
  Daemons = {d1, d2}
  Inodes = {1}
  Nobody = Nobody
  MaxTries = 1
  Command = Command
  Repeat = Repeat
  Capacity = 1
  StreamRuns = 1
  MaxRows = 2
  MaxJoin = 2
  MaxConnections = 1
  MaxReplays = 1
  Refusals = 1
  Peers = {c1}
  HostRuns = 2
  MaxTurns = 2
  MaxStops = 1
  MaxFaults = 1
  Sessions = {s1, s2}
  NoSession = NoSession
  FirstSession = s1
  MaxRuns = 1
  MaxInputs = 1
  Retained = 1
  MaxLines = 1
  MaxSignals = 1
  MaxOutput = 1
  MaxWritten = 1
  Tokens = 8
  Compressed = 2
  Overhead = 2
  MaxContext = 5
  Attempts = 2
SPECIFICATION FairSpec
PROPERTIES
  ClientWaitsEnd
  DaemonWaitsEnd
CHECK_DEADLOCK FALSE
