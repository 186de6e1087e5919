SPECIFICATION Spec
CONSTANTS
    h1 = h1
    h2 = h2
    None = None
    h3 = h3
    i1 = i1
    Hints = {h1, h2, h3}
    Rank <- MCRank
    Conflicts <- MCConflicts
    Width = 2
    MaxVariants = 3
    Items = {i1}
    Rounds = 1
    InfraRetry = 1
    RetryMax = 1
    Modes = {"plain"}
    MaxCrashes = 1
    MaxDrops = 0
    MaxPackages = 0
    TornWrites = FALSE
INVARIANTS NeverRecordedTwice
CHECK_DEADLOCK FALSE
