CONSTANTS
    Account <- Accounts
    Treasury = "treasury"
    Miner = "miner"
    Initial <- Balances
    Block <- Blocks
    SelectedParent <- Parents
    Bodies <- FlashBodies
    Subsidy <- OutsideFork
    DaaScore <- Scores
    MergesetSizeLimit = 3
    FlashPruneBuffer = 1
    EnableFlashTx = TRUE
SPECIFICATION Spec
INVARIANTS BalancesAddUp FlashOnce StoreMatchesCommitment
CHECK_DEADLOCK FALSE
