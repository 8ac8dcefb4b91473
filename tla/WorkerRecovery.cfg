\* One Step, two workers, fair scans and leases: every worker step is a step of
\* the store, and an abandoned Step is taken up again.
SPECIFICATION FairSystemSpec
\* A Run that ended has no further step to take.
CHECK_DEADLOCK FALSE
CONSTANTS
    NumSteps = 1
    WalletOf <- MCWalletOf
    MarketOf <- MCMarketOf
    Workers = {p, q}
PROPERTIES
    Spec
    AbandonedStepIsRecovered
