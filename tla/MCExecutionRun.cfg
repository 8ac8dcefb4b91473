\* Two Steps of one Wallet, two worker identities.
SPECIFICATION Spec
\* A Run that ended has no further step to take.
CHECK_DEADLOCK FALSE
CONSTANTS
    NumSteps = 2
    WalletOf <- MCWalletOf
    MarketOf <- MCMarketOf
    Workers = {p, q}
SYMMETRY WorkerSymmetry
INVARIANTS
    TypeOK
    UnknownIsIsolated
    EndedRunIsClosed
    EvidenceMatchesState
PROPERTIES
    DefiniteResultsAreFinal
    KeepsSchedule
