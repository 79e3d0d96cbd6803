CONSTANTS
    Tx <- Txs
    Untracked = {4, 5}
    Feeless = {5}
    MaxDebit = 4
    FlashId <- FlashIdOf
    Sender <- SenderOf
    Debit <- DebitOf
    Fee <- FeeOf
    Mass <- MassOf
    Bytes <- BytesUsed
    Caller = {c1, c2}
    MaximumTransactionCount = 2
    MempoolSizeLimit = 3
    ExpireInterval = 0
    AcceptedExpireInterval = 0
    MaxScore = 1
    MaxAccepted = 1
    None = None
SYMMETRY Callers
SPECIFICATION Spec
INVARIANTS IndexesAgree AcceptedIsNotPending TotalsAreExact
CHECK_DEADLOCK FALSE
