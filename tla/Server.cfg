CONSTANTS
  Tables = {"t1", "t2", "t3", "v"}
  Partitions = {1, 2}
  Disks = {"local", "object"}
  Rows = {1, 2, 3, 4, 5}
  Items <- ItemsDef
  Commands <- CommandsDef
  InitParts <- InitPartsDef
  MaxFaults = 2
  MaxKills = 1
  MaxServer = 2
  Uuids = {"u1", "u2", "u3", "u4"}
  NoUuid = "none"
  Tasks = {"q1", "q2"}
  Engine <- EngineDef
  SharedId <- SharedIdDef
  UuidInPath = {"t3"}
  InitTables <- InitTablesDef
  InitNodes <- InitNodesDef
  MaxRestarts = 1
  BrokenRows = {2, 4}
  Prefix <- PrefixDef
  HasColumn = {"o2", "o3"}
  Configs = {"c1", "c2", "c3"}
  DictionariesOf <- DictionariesOfDef
  Definition <- DefinitionDef
  OrphanDirs = {"o1", "o2", "o3"}
  OrphanLinks = {"t3", "l1"}
SPECIFICATION MCSpec
INVARIANTS ServerTypeOK MetadataIsRemovedLast OneTableAtATime RowsAreKept LeftDetachedIsReported RestoredHaveTheirParts DumpHasWhatIsDetached RemovedIsNotNeeded
PROPERTIES ImplementsBulk
CHECK_DEADLOCK FALSE
