SPECIFICATION Spec
CONSTANTS
  Key = {k}
  Val = {v1, v2}
  Absent = Absent
  Missing = Missing
  NoFile = NoFile
  Torn = Torn
  Interval = 2
  MaxCheckpoints = 2
  Concurrent = FALSE
  MayClear = TRUE
  MayFail = FALSE
  MaxId = 4
  MaxStep = 3
  MaxRuns = 1
  MaxCrashes = 1
SYMMETRY Symmetry
INVARIANT RecoversNewest
CHECK_DEADLOCK FALSE
