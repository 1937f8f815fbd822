SPECIFICATION Spec
CONSTANTS
    Classes = {c1, c2}
    Legacy = {c2}
    Contracts = {1, 2}
    Keys = {k1, k2}
    Sender = 1
    MAX_KEYS_PER_REQUEST = 2
    MaxReorgs = 2
INVARIANTS
    RequestsWithinLimit
    MergedIsWhole
    HonestRunAccepted
    OnlyLegalProved
    ReadsAskedOnce
    MixedNeverProved
CHECK_DEADLOCK FALSE
