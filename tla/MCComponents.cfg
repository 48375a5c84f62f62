CONSTANTS
  Parts = {"bootstrap", "framing", "connection", "paste", "execution",
    "cancel", "catalog", "tools", "context", "replay", "provider", "terminal",
    "headless", "input", "transcript", "pickers"}
  Unused = Unused
  Clients = {c1, c2}
  Daemons = {d1, d2}
  Inodes = {1, 2}
  Nobody = Nobody
  MaxTries = 1
  MaxMessageBytes = 4
  ChunkBytes = 3
  MaxMessages = 3
  Links = {k1, k2}
  Sessions = {s1, s2}
  NoSession = NoSession
  Capacity = 1
  MaxRequests = 2
  MaxFrames = 1
  Inline = 2
  MaxPresses = 5
  MaxOutput = 1
  MaxWritten = 2
  Futures = {f1, f2}
  Wakers = {w1, w2}
  NoWaker = NoWaker
  MaxPolls = 2
  Documents <- MCDocuments
  Budget = 6
  RowSizes = {1, 4}
  MaxRows = 3
  MaxStarts = 2
  s1 = s1
  s2 = s2
  FileLines = 2
  ReadCap = 1
  EditCap = 1
  MatchWindow = 1
  MaxChanges = 1
  Tokens = 8
  Compressed = 2
  Overhead = 2
  MaxContext = 7
  Attempts = 2
  MaxHistory = 6
  CallIds = {"i", "j"}
  Absent = "absent"
  MaxItems = 3
  MaxRuns = 1
  MaxInputs = 2
  Retained = 2
  MaxLines = 1
  MaxSignals = 1
  MaxLine = 6
  MaxPastes = 2
  MaxEdits = 4
  MaxEpoch = 2
  NoTheme = "none"
  MaxFilter = 1
  FirstSession = s1
  Commands <- MCCommands
  Themed <- MCThemed
  Values <- MCValues
  AllThemes <- MCThemes
  Title <- MCTitle
  Here <- MCHere
SPECIFICATION SystemSpec
INVARIANTS
  TypeOK
  OneDaemonServes
  LinesArriveWhole
  ConnectionsAnswer
  PressesArriveOnceInOrder
  CommandsEndWhole
  CancelWakesEverySleeper
  CatalogIsKept
  ExchangedAndShownTypeOK
  ToolsAnswerHonestly
  ModelExchangesAreWhole
  FollowersKeepTheirStream
  PositionsKeepTheirRows
  MenusShowWhatTheyOffer
PROPERTIES
  EditsAndFramesAreWhole
CHECK_DEADLOCK FALSE
