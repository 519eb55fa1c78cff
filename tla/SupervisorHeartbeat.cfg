SPECIFICATION FairSpec
CONSTANTS
  MaxWorkers = 2
  MinWorkers = 1
  Warm = 0
  WorkerErrKill = 1
  Rounds = 1
  Topology <- MCTopology
  MaxQueued = 1
  MaxForks = 2
  MaxFaults = 1
PROPERTY Renormalizes
CHECK_DEADLOCK FALSE
