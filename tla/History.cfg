CONSTANTS
  Backends = {"memory", "bbolt", "badger", "gorm"}
  StateNames = {"A"}
  MaxRecords = 2
  QueueBatch = 2
  GcSize = 1
  SavePool = 2
  MaxSeq <- MCMaxSeq
  MaxCrashes = 1
  Cfg <- MCCfg
SPECIFICATION FairSpec
INVARIANTS Accounted  ResumesAfter 
PROPERTIES GcKeepsLatest 
CHECK_DEADLOCK FALSE
