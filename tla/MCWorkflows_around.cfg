SPECIFICATION Spec
CONSTANTS
  StateKeys = {k}
  StateValues = {w}
  NoValue = NoValue
  NoEntry = NoEntry
  NoFile = NoFile
  Torn = Torn
  Interval = 2
  MaxCheckpoints = 2
  MaxId = 5
  MaxStep = 3
  MaxCrashes = 1
  EventCapacity = 2
  OutputCapacity = 2
  ResultCapacity = 1
  MaxNodes = 3
  MaxOutputs = 3
  MayHalt = TRUE
  Chats = {"r1", "r2"}
  Participants = 2
  MaxRounds = 2
  Order <- FixedOrder
  MaxPicks = 3
  NodeRuns = {"r1", "r2"}
  MaxCron = 2
  MaxTraffic = 1
  MaxAsks = 2
  Deadline = 2
  PoolSize = 2
  MaxEntries = 2
  MaxSagaSteps = 3
  MaxClock = 5
  MaxOps = 3
INVARIANT LatestLoads
INVARIANT NothingLost
INVARIANT GraphsAsBuilt
INVARIANT ChatKeepsRules
INVARIANT NodesWait
INVARIANT ServicesKeepRules
PROPERTY RunEnds
CHECK_DEADLOCK FALSE
