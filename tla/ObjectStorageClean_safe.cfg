CONSTANTS
  o1 = o1
  o2 = o2
  o3 = o3
  o4 = o4
  Hosts = {h1, h2}
  Objects = {o1, o2}
  Size <- SameSize
  Misplaced = {}
  Guard = 2
  UploadWindow = 1
  BatchSize = 1
  MaxBytes = 0
  MaxPercent = 100
  ErrorPercent = 100
  Options <- WithOrWithoutBackups
  RefsMove = FALSE
  NoList = NoList
  MaxTime = 2
  MaxRuns = 1
  MaxCrashes = 1
  MaxBackups = 2
SPECIFICATION Spec
INVARIANTS TypeOK ReferencedAreStored
SYMMETRY Symmetry
CHECK_DEADLOCK FALSE
