SPECIFICATION Spec
CONSTANTS
  t1 = t1  t2 = t2  t3 = t3
  Threads <- TwoThreads
  States = {"A", "B"}
  Calls <- MixedCalls
  QueueLimit = 1
  Outcomes = {"accept", "auto", "cancel", "panic", "deadline"}
  MayDispose = TRUE
  MaxMuts = 3
SYMMETRY Symmetry
INVARIANTS TickLedger ProcessorLock PoppedTick MutexKept Conservation
CHECK_DEADLOCK FALSE
