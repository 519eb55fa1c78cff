SPECIFICATION FairSpec
CONSTANTS
  t1 = t1  t2 = t2  t3 = t3
  Threads <- TwoThreads
  States = {"A", "B"}
  Calls <- AddOnly
  QueueLimit = 3
  Outcomes = {"accept"}
  MayDispose = FALSE
  MaxMuts = 2
PROPERTIES QueuedGetsProcessed
CHECK_DEADLOCK FALSE
