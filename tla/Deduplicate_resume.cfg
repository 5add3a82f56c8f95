CONSTANTS
  Tables = {t1, t2}
  Partitions = {1, 2}
  Options <- Mixed
  MaxWorkers = 2
  Faults = TRUE
  MaxRuns = 2
  MaxKills = 1
SPECIFICATION FairSpec
INVARIANTS TypeOK DoneIsDeduplicated SavedSkipsOnlyDeduplicated OnePartitionPerFailure DoneHasNoSettings
PROPERTIES CompletedIsDeduplicated CommandEnds
CHECK_DEADLOCK FALSE
