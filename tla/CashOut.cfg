\* One Cash Out under two overlapping worker processes.
SPECIFICATION Spec
\* Everything may have ended.
CHECK_DEADLOCK FALSE
CONSTANTS
    CashOut = {a}
    Position = {p}
    Wallet = {w}
    WalletOf <- MCWalletOf
    Worker = {x, y}
    NoClaim = NoClaim
    NoItem = NoItem
    MaxVersion = 2
    MaxCrash = 1
SYMMETRY WorkerSymmetry
INVARIANTS
    CloseSentAtMostOnce
    FailureIsEvidenced
    LateCloseIsCovered
    CompletedIsClosed
PROPERTIES
    EndedIsFinal
