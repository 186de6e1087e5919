CONSTANTS
  Schedules <- MCSchedules
  JobName <- MCJobName
  IR <- MCIR
  Cores <- MCCores
  Impls = {"", "scalar"}
  ScalarCore = "CPU_E#0"
  Rank <- MCRank
SPECIFICATION Spec
CHECK_DEADLOCK FALSE
INVARIANTS
  EmittedTableWellFormed
  EveryDispatchOnce
  DataDepsAlwaysSort
  SynthesizedOpsChained
  AdmittedTimeDepsHold
