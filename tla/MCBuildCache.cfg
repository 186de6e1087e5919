CONSTANTS
  p1 = p1  p2 = p2  good = good  bad = bad
  Workers <- MCWorkers
  Versions <- MCVersions
  Bad <- MCBad
  LockWait = 0
  NegTtl = 1
  Refresh = 0
  MinAge = 2
  Cap = 1
  Keep = 0
  EvictEvery = 1
  EditAnyTime = FALSE
  Failures = TRUE
  Horizon = 2
  MaxRequests = 3
SPECIFICATION FairSpec
CHECK_DEADLOCK FALSE
INVARIANTS
  BuildOnce
  HitIsCurrent
PROPERTIES
  YoungSurvives
  EveryRequestReturns
