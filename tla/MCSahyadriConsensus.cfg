CONSTANTS
    MaxHash = 5
    Works = {1, 2}
    GenesisWork = 1
    K = 2
    MaxBlockParents = 3
    MergesetSizeLimit = 4
    MergeDepth = 1
    FinalityDepth = 2
    PruningDepth = 2
SPECIFICATION DagSpec
INVARIANTS ColouringIsGreedy DepthPointsExact
CHECK_DEADLOCK FALSE
