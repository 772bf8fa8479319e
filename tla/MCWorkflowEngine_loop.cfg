SPECIFICATION FairSpec
CONSTANTS
  Start = "a"
  Ghost = "ghost"
  MaxRetries <- NoRetries
  OnExhausted <- AlwaysFail
  LoopMax <- LoopLimit
  MaxParallel = 1
  GlobalTimeout = FALSE
  Resumable = FALSE
  PatientClient = FALSE
  StoreMayFail = FALSE
  Emits <- OneMessage
  MayFail = {"b"}
  MayHalt = {}
  MayArm = {"a","b"}
  MaxArmed = 1
  MaxCommands = 0
  Node <- LoopNodes
  Edges <- LoopEdges
INVARIANT LoopBounded
PROPERTY Terminates
