CONSTANTS
  Replicas = {r1, r2}
  Tables = {t1, v1}
  NoTable = NoTable
  Views = {v1}
  Pinned = {}
  Schemas = {s1}
  NoLock = NoLock
  Common = Common
  ZkFaults = FALSE
  HasRestore = TRUE
  Commands = {"to_replicated"}
  Forces = {FALSE}
  InitEngines = {"Atomic"}
  MaxCommands = 3
  MaxCrashes = 1
  MaxDdl = 1
SPECIFICATION FairSpec
INVARIANTS TypeOK OneFirst JoinersSeeRoot RegisteredAgree
PROPERTIES MigratedCompletely LockIsReleasedByOwner LockIsReleased
CHECK_DEADLOCK FALSE
