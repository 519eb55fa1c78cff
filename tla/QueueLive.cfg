SPECIFICATION FairSpec
CONSTANTS
  t1 = t1  t2 = t2  t3 = t3
  Threads <- TwoThreads
  States = {"A", "B"}
  Calls <- StateCalls
  QueueLimit = 2
  Outcomes = {"accept", "cancel", "panic", "deadline"}
  MayDispose = FALSE
  MaxMuts = 3
PROPERTIES  AcceptedWakes
CHECK_DEADLOCK FALSE
