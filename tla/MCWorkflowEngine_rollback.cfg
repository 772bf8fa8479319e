SPECIFICATION Spec
CONSTANTS
  Start = "a"
  Ghost = "ghost"
  MaxRetries <- NoRetries
  OnExhausted <- AlwaysFail
  LoopMax <- NoLimit
  MaxParallel = 1
  GlobalTimeout = FALSE
  Resumable = FALSE
  PatientClient = FALSE
  StoreMayFail = FALSE
  Emits <- OneMessage
  MayFail = {"b"}
  MayHalt = {}
  MayArm = {}
  MaxArmed = 0
  MaxCommands = 0
  Node <- DiamondNodes
  Edges <- BarrierEdges
INVARIANT RollbackComplete
