CONSTANTS
  Schedules <- Fixture
  JobName <- MCJobName
  IR <- MCIR
  Cores <- MCCores
  Impls = {"", "scalar"}
  ScalarCore = "CPU_E#0"
  Rank <- MCRank
SPECIFICATION Spec
CHECK_DEADLOCK FALSE
INVARIANTS
  DroppedTimeDepsHarmless
