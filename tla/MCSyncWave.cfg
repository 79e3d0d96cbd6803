CONSTANTS
    Key <- Keys
    Value = {"u", "w"}
    DidState = {"w"}
    TreeDepth = 3
    MaxUpdates = 4
    MaxTrees = 2
    Checkpoint <- Checkpoints
    ChunkSize = 2
    MaxCrashes = 1
SPECIFICATION WaveSpec
INVARIANTS RootIsCanonical TreesAreReadable ProofsDecide PagesAreExact BootstrapIsComplete
CHECK_DEADLOCK FALSE
