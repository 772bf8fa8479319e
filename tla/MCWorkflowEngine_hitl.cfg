SPECIFICATION FairSpec
CONSTANTS
  Start = "a"
  Ghost = "ghost"
  MaxRetries <- NoRetries
  OnExhausted <- AlwaysFail
  LoopMax <- NoLimit
  MaxParallel = 0
  GlobalTimeout = FALSE
  Resumable = TRUE
  PatientClient = TRUE
  StoreMayFail = FALSE
  Emits <- OneMessage
  MayFail = {}
  MayHalt = {"h","c"}
  MayArm = {}
  MaxArmed = 0
  MaxCommands = 2
  Node <- HitlNodes
  Edges <- HitlEdges
INVARIANT HaltIsSaved
INVARIANT OneAnswerPerHalt
PROPERTY HaltNoticed
