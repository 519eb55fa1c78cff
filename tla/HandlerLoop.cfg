SPECIFICATION FairSpec
CONSTANT MaxCalls = 4
INVARIANTS LoopInService
PROPERTIES OwnAnswer ServedCallsEnd
CHECK_DEADLOCK FALSE
