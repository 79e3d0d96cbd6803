CONSTANTS
    Block <- Blocks
    Parents <- ParentsOf
    SelectedParent <- SelectedParentOf
    BlueScore <- Scores
    Timestamp <- Times
    FinalityDepth = 2
    PruningDepth = 4
    RetentionPeriod = 4
    Window <- WindowOf
    Upper <- UpperOf
    MaxCrashes = 1
SPECIFICATION Spec
INVARIANTS CheckpointMeansPruned RetainedBlocksKept LookupsSucceed
PROPERTIES PointsAdvance PruningCompletes
