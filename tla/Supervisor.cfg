SPECIFICATION FairSpec
CONSTANTS
  MaxWorkers = 2
  MinWorkers = 2
  Warm = 0
  WorkerErrKill = 0
  Rounds = 1
  Topology <- MCTopology
  MaxQueued = 2
  MaxForks = 2
  MaxFaults = 1
INVARIANTS GoroutinesOwned ForkedKnown
PROPERTIES GoroutinesEnd  PoolGivenUp
CHECK_DEADLOCK FALSE
