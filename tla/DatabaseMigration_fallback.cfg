CONSTANTS
  Replicas = {r1, r2}
  Tables = {t1, t2}
  NoTable = NoTable
  Views = {}
  Pinned = {}
  Schemas = {s1}
  NoLock = NoLock
  Common = Common
  ZkFaults = FALSE
  HasRestore = FALSE
  Commands = {"restore_replica", "to_atomic"}
  Forces = {FALSE}
  InitEngines = {"Replicated"}
  MaxCommands = 4
  MaxCrashes = 1
  MaxDdl = 1
SPECIFICATION Spec
INVARIANTS PublisherMakesTheLog
PROPERTIES PublishedOnce
SYMMETRY Symmetry
CHECK_DEADLOCK FALSE
