\* Two Wallets on one market under two overlapping worker processes.
SPECIFICATION SystemSpec
\* A Run that ended has no further step to take.
CHECK_DEADLOCK FALSE
CONSTANTS
    NumSteps = 2
    WalletOf <- MCWalletOf
    MarketOf <- MCMarketOf
    Workers = {p, q}
SYMMETRY WorkerSymmetry
INVARIANTS
    SystemTypeOK
    SentAtMostOnce
    LateOpenIsCovered
    UnexecutedSentNothing
    DecisionsAreAccepted
