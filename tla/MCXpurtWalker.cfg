CONSTANTS
  Tables <- MCTables
  Kinds = {"p", "e"}
  Nets = {"a", "b", "c"}
  OpCount <- MCOpCount
  MaxWorkers = 3
  MaxHarts = 3
  MaxWidth = 2
  MaxPools = 2
  SemLimit = 2
  OsMayFail = TRUE
  Horizon = 1
SPECIFICATION FairSpec
CHECK_DEADLOCK FALSE
INVARIANTS
  TokensBalance
  NeverStuck
  CaptureAfterInstance0
PROPERTIES
  ImplementsDag
  Terminates
