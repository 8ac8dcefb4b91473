SPECIFICATION Spec
CONSTANTS
    Wallets = {w1}
    MaxAttempts = 3
    Maximum = 1
    Requests = {r1}
    KeysDie = TRUE
INVARIANTS
    KeysAreAccounted
    ConnectionTellsCredentials
    WarningIsAggregate
PROPERTIES
    UnknownLockHolds
    DowngradeIsDeserved
