SPECIFICATION Spec
CONSTANTS
    Wallets = {w1, w2}
    MaxAttempts = 1
    Maximum = 1
    Requests = {r1, r2}
    KeysDie = TRUE
INVARIANTS
    ManagedWithinLimit
    CleanupSparesWork
