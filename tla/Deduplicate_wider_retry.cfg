CONSTANTS
  Tables = {t1}
  Partitions = {1, 2}
  Options <- Restricted
  MaxWorkers = 1
  Faults = TRUE
  MaxRuns = 2
  MaxKills = 0
SPECIFICATION Spec
PROPERTIES RunDoesWhatItIsAsked
CHECK_DEADLOCK FALSE
