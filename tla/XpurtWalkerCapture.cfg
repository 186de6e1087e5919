CONSTANTS
  Tables <- PeriodicTables
  Kinds = {"p", "e"}
  Nets = {"a", "b", "c"}
  OpCount <- MCOpCount
  MaxWorkers = 3
  MaxHarts = 3
  MaxWidth = 2
  MaxPools = 2
  SemLimit = 2
  OsMayFail = FALSE
  Horizon = 1
SPECIFICATION Spec
CHECK_DEADLOCK FALSE
INVARIANT
  CaptureOnlyInstance0
