SPECIFICATION FairSpec
CONSTANTS
  ConnRetries = 1
  CallRetries = 1
  Topology <- MCTopology
  MaxQueued = 2
  MaxConns = 2
  MaxFaults = 2
  MaxUses = 2
INVARIANTS NeverStranded
PROPERTIES LossNoticed  CallsReturn
CHECK_DEADLOCK FALSE
