CONSTANTS
    MaxHash = 4
    Works = {1}
    GenesisWork = 1
    K = 1
    MaxBlockParents = 2
    MergesetSizeLimit = 2
    MergeDepth = 1
    FinalityDepth = 1
    PruningDepth = 2
    MaxCrashes = 1
SPECIFICATION FairSpec
INVARIANTS SearchSucceeds ValidChains ChainStoreMatchesSink TemplateIsValid HeaviestValidSink
PROPERTIES SinkAdvances VirtualCatchesUp
CHECK_DEADLOCK FALSE
