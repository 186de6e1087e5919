SPECIFICATION Spec
CONSTANTS
    Builds <- MCBuilds
    MaxIters = 2
    Dispatches <- MCDispatches
    TraceMax = 5
    MaxTicks = 2
    MayFail = TRUE
    None = None
INVARIANTS InitsSerialized TraceWhole
PROPERTY AllReturn
CHECK_DEADLOCK FALSE
