CONSTANTS
    Ways <- MCWays
    N = 2
    Pools <- MCPools
    KbRuns = 0
    MayTimeOut = FALSE
    None = None
    KB = KB
SPECIFICATION Spec
INVARIANT LostResultIsNoVerdict
CHECK_DEADLOCK FALSE
