SPECIFICATION FairSpec
CONSTANTS
  States = {"A"}
  Sum <- MCSum
  CheckMod = 4
  QueueMod = 8
  TickMod = 8
  MaxTick = 1
  MaxTx = 2
  MaxConns = 2
  MaxCalls = 1
PROPERTIES ReadYourWrites CallsReturn ShowsPast
CHECK_DEADLOCK FALSE
