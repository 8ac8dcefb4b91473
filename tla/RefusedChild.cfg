\* One position, one worker of each kind.
SPECIFICATION FairBatchSpec
CONSTANTS
    CashOut = {a}
    Position = {p}
    Wallet = {wl}
    WalletOf <- MCWalletOf
    Worker = {x, y}
    BatchWorker = {y}
    WalletOrder <- MCWalletOrder
    PositionOrder <- MCPositionOrder
    NoClaim = NoClaim
    NoItem = NoItem
    MaxVersion = 1
    MaxCrash = 0
PROPERTIES
    RefusedChildTerminates
\* The batch may have ended.
CHECK_DEADLOCK FALSE
