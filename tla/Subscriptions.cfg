SPECIFICATION Spec
CONSTANTS
  States = {"A", "B"}
  Multi = {"B"}
  Ctxs = {"c"}
  Requests <- AllRequests
  MaxTick = 3
  MaxOpen = 2
INVARIANTS  CountsExact  StateCtxCurrent
PROPERTIES ClosedWhenMet
CHECK_DEADLOCK FALSE
