SPECIFICATION Spec
CONSTANTS
  MaxRuns = 1
  MaxRecords = 3
  Earlier = {0, 3}
  MaxDisturbances = 1
  PageSize = 2
  QueueCapacity = 3
INVARIANTS
  SyncTypeOK
  StateConverges
  
  ResyncedHasHistory
  StatusTruthful

  
CHECK_DEADLOCK FALSE
