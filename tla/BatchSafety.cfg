\* Two positions, one batch worker, one Cash Out worker.
SPECIFICATION BatchSpec
CONSTANTS
    CashOut = {a, b}
    Position = {p, q}
    Wallet = {wl}
    WalletOf <- MCWalletOf
    Worker = {x, y}
    BatchWorker = {y}
    WalletOrder <- MCWalletOrder
    PositionOrder <- MCPositionOrder
    NoClaim = NoClaim
    NoItem = NoItem
    MaxVersion = 1
    MaxCrash = 1
CONSTRAINT OneTrouble
INVARIANTS
    BatchTypeOK
    OneAtATime
    FreedWalletsAreQuiet
    ItemsTellTheTruth
    BaselineIsDispatch
\* The batch may have ended.
CHECK_DEADLOCK FALSE
