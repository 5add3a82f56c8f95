CONSTANTS
  o1 = o1
  o2 = o2
  o3 = o3
  o4 = o4
  Hosts = {h1}
  Objects = {o1, o2, o3, o4}
  Size <- Sizes
  Misplaced = {o2}
  Guard = 1
  UploadWindow = 0
  BatchSize = 2
  MaxBytes = 4
  MaxPercent = 90
  ErrorPercent = 85
  Options <- KeepThenReuse
  RefsMove = FALSE
  NoList = NoList
  MaxTime = 2
  MaxRuns = 2
  MaxCrashes = 1
  MaxBackups = 1
SPECIFICATION SpecInUse
INVARIANTS ReferencedAreStored YoungAreKept SizeLimitIsKept OnlyTheLimitSpares SanityIsKept
CHECK_DEADLOCK FALSE
