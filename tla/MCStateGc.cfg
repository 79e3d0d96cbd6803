CONSTANTS
    Block <- Blocks
    Genesis = "0"
    Parent <- Parents
    Leaves <- Trees
    MaxCrashes = 1
    ForcedGc = TRUE
SPECIFICATION Spec
INVARIANTS SettledStatesKept HonestBlocksValid StatesAreSwept
CHECK_DEADLOCK FALSE
