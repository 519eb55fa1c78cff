SPECIFICATION Spec
CONSTANTS
  Index <- MCIndex
  Schemas <- MCSchemas
  Lists <- ShortLists
  Types <- AllTypes
  MayFail <- MCMayFail
  MaxTick <- MCMaxTick
INVARIANTS RemoveExclusive RequireGreatest RequiredFirst ClockParity RequireClosed
PROPERTIES ResultHonest FailedDropped
CHECK_DEADLOCK FALSE
