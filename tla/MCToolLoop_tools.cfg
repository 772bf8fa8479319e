SPECIFICATION FairSpec
CONSTANTS
  Ids = {"c1", "c2", "c3"}
  NoId = "none"
  ToolOf <- Tools
  Static <- StaticTools
  Provided <- ProvidedTools
  Gated <- GatedTools
  MaxRounds = 2
  Capacity = 1
  Styles = {"lifecycle", "delta", "both"}
  TextBlocks = 0
  Pending <- Resumable
  MayFail = TRUE
  MayPanic = TRUE
  MayCancel = TRUE
  MayDrop = TRUE
INVARIANT TypeOK
INVARIANT GateHolds
INVARIANT AtMostOnce
INVARIANT NoCallLost
INVARIANT EndsWithVerdict
INVARIANT ApprovedRun
PROPERTY ImplementsTurns
PROPERTY Terminates
