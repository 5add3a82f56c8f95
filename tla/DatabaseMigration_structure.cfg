CONSTANTS
  Replicas = {r1, r2}
  Tables = {t1}
  NoTable = NoTable
  Views = {}
  Pinned = {}
  Schemas = {s1}
  NoLock = NoLock
  Common = Common
  ZkFaults = TRUE
  HasRestore = TRUE
  Commands = {"to_replicated", "to_atomic", "to_atomic_clean", "restore_replica"}
  Forces = {TRUE, FALSE}
  InitEngines = {"Atomic", "Replicated"}
  MaxCommands = 3
  MaxCrashes = 1
  MaxDdl = 1
SPECIFICATION Spec
PROPERTIES AttachIsTried StructureSpec
SYMMETRY Symmetry
CHECK_DEADLOCK FALSE
