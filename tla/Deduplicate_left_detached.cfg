CONSTANTS
  Tables = {t1}
  Partitions = {1, 2}
  Options <- JustAll
  MaxWorkers = 1
  Faults = TRUE
  MaxRuns = 2
  MaxKills = 0
SPECIFICATION Spec
PROPERTIES NothingIsLeftDetached
CHECK_DEADLOCK FALSE
