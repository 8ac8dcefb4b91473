SPECIFICATION FairSpec
CONSTANTS
    Wallets = {w1}
    MaxAttempts = 2
    Maximum = 1
    Requests = {r1}
    KeysDie = FALSE
PROPERTIES
    ReplacedKeysAreRevoked
    RetirementEnds
