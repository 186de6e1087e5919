SPECIFICATION Spec
CONSTANTS
    h1 = h1
    h2 = h2
    None = None
    h3 = h3
    i1 = i1
    Hints = {h1, h2, h3}
    Rank <- MCRank
    Conflicts <- MCConflicts
    Width = 2
    MaxVariants = 2
    Items = {i1}
    Rounds = 2
    InfraRetry = 1
    RetryMax = 1
    Modes = {"halfway", "park"}
    MaxCrashes = 1
    MaxDrops = 1
    MaxPackages = 1
    TornWrites = FALSE
INVARIANTS DecidedIsRecorded AcceptedIsCached SentIsIngested JournalMatchesExport DecidedInRankOrder NoPackageLost
PROPERTIES CharacterizedOnce FlowReturns
CHECK_DEADLOCK FALSE
