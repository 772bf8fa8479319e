SPECIFICATION Spec
CONSTANTS
  Start = "a"
  Ghost = "ghost"
  MaxRetries <- DiamondRetries
  OnExhausted <- DiamondExhausted
  LoopMax <- NoLimit
  MaxParallel = 1
  GlobalTimeout = TRUE
  Resumable = FALSE
  PatientClient = FALSE
  StoreMayFail = TRUE
  Emits <- TwoFromA
  MayFail = {"a","b","c","d"}
  MayHalt = {}
  MayArm = {}
  MaxArmed = 0
  MaxCommands = 0
  Node <- DiamondNodes
  Edges <- DiamondEdges
INVARIANT TypeOK
INVARIANT TasksAccounted
INVARIANT LockStep
INVARIANT RetriesStartOver
INVARIANT EarlierStepsUndone
PROPERTY ImplementsSupersteps
