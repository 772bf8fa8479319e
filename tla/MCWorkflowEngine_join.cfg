SPECIFICATION Spec
CONSTANTS
  Start = "a"
  Ghost = "ghost"
  MaxRetries <- NoRetries
  OnExhausted <- AlwaysFail
  LoopMax <- NoLimit
  MaxParallel = 0
  GlobalTimeout = FALSE
  Resumable = FALSE
  PatientClient = FALSE
  StoreMayFail = FALSE
  Emits <- OneMessage
  MayFail = {}
  MayHalt = {}
  MayArm = {}
  MaxArmed = 0
  MaxCommands = 0
  Node <- DiamondNodes
  Edges <- BarrierEdges
INVARIANT JoinFires
