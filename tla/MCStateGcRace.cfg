CONSTANTS
    Block <- Blocks
    Genesis = "0"
    Parent <- Parents
    Leaves <- Trees
    MaxCrashes = 0
    ForcedGc = FALSE
SPECIFICATION Spec
INVARIANT LiveStatesKept
CHECK_DEADLOCK FALSE
