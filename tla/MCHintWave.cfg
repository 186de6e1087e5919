CONSTANTS
    Ways <- MCWays
    N = 2
    Pools <- MCPools
    KbRuns = 1
    MayTimeOut = TRUE
    None = None
    KB = KB
SPECIFICATION Spec
INVARIANTS OneTimedRunPerGpu PairUndisturbed VerdictRestsOnKernels LostOnlyAfterOnceMore NothingLeftBehind
PROPERTY WaveEnds
CHECK_DEADLOCK FALSE
