SPECIFICATION Spec
CONSTANTS
  Parts = {"turns", "mcp", "store", "tools", "web", "fetch", "brain", "index", "spaces", "facts",
           "pages", "links", "types", "lint", "search", "args", "answer", "know", "budget"}
  Prompts = {p1, p2}
  NoToken = NoToken
  MaxRuns = 2
  MaxBusy = 1
  MaxObjects = 2
  Callers = {c1, c2}
  MaxIds = 4
  IdleSecs = 1
  LifeSecs = 2
  MaxTime = 3
  MaxTurns = 1
  SpaceNames = {"a", "b"}
  SpacePaths = {"p", "q"}
  SpaceClients = {"c1", "c2"}
  SettingSections = {"defaults"}
  SettingKeys = {"x", "y"}
  MaxSpaceOps = 2
  MaxSets = 1
  PageIds = {"p"}
  PageKinds = {"page", "concept"}
  MaxEdits = 2
  MaxRebuilds = 1
  MaxQueue = 1
  MaxCrashes = 1
  BrainSessions = {"s1", "s2"}
  MemoryFiles = {"USER"}
  UpdateTurns = 2
  MaxBrainTurns = 5
  MaxStarts = 2
  Instances = {"s1"}
  Searchers = {sa, sb}
  Interval = 3
  Jitter = 1
  Ttl = 3
  ProbeTime = 1
  MaxResults = 2
  WebTime = 4
  MaxSwitches = 1
  MaxSearches = 3
SYMMETRY Interchangeable
INVARIANT TokenOwned
INVARIANT Conversation
PROPERTY TurnsStay
INVARIANT McpKeepsRules
INVARIANT SessionsKept
INVARIANT ToolsKept
INVARIANT MessagesKept
INVARIANT WikiKeepsRules
INVARIANT SharedStateKept
CHECK_DEADLOCK FALSE
