SPECIFICATION Spec
CONSTANTS
  Start = "a"
  Ghost = "ghost"
  MaxRetries <- NoRetries
  OnExhausted <- FallbackExhausted
  LoopMax <- NoLimit
  MaxParallel = 0
  GlobalTimeout = FALSE
  Resumable = FALSE
  PatientClient = FALSE
  StoreMayFail = FALSE
  Emits <- OneMessage
  MayFail = {"b"}
  MayHalt = {}
  MayArm = {}
  MaxArmed = 0
  MaxCommands = 0
  Node <- LineNodes
  Edges <- FallbackEdges
INVARIANT FallbackRuns
