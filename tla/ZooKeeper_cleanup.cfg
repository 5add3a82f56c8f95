CONSTANTS
  Names <- NamesDef
  LowExtends <- LowExtendsDef
  StartsWith <- StartsWithDef
  ReplicaHost <- ReplicaHostDef
  BatchSize = 2
  Commands <- CommandsDef
  InitTree <- InitTreeDef
  Databases <- DatabasesDef
  Excluded <- ExcludedDef
  TableUuid <- TableUuidDef
  DdlPath <- DdlPathDef
  DdlHosts <- DdlHostsDef
  ZeroCopy <- ZeroCopyDef
  ActiveHosts = {"h10"}
  MaxActive = 2
  MaxPolls = 1
  DdlChunk = 1
  LockBatch = 2
  ServerLocks <- ServerLocksDef
  ServerDrops <- ServerDropsDef
  MaxServer = 1
  MaxRuns = 2
  Parts <- PartsDef
  SharedId <- SharedIdDef
  SystemReplicas <- SystemReplicasDef
  Macro = "h1"
  LockOptions <- LockOptionsDef
  NewRoot <- NewRootDef
  OldRoot <- OldRootDef
  MaxWorkers = 3
  MaxAttempts = 3
SPECIFICATION FairLocksSpec
INVARIANTS TypeOK SurvivorsAreKept EndedIsClean AttemptsSuffice
PROPERTIES CreatedLocksHaveParts CommandEnds
CHECK_DEADLOCK FALSE
