CONSTANTS
    Account <- Accounts
    Treasury = "treasury"
    Miner = "miner"
    Initial <- Balances
    Block <- Blocks
    SelectedParent <- Parents
    Bodies <- PaymentBodies
    Subsidy <- NoSubsidy
    DaaScore <- Scores
    MergesetSizeLimit = 1
    FlashPruneBuffer = 2
    EnableFlashTx = FALSE
SPECIFICATION Spec
INVARIANT BalancesAddUp
CHECK_DEADLOCK FALSE
