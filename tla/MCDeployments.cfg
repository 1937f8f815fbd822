SPECIFICATION FairSpec
CONSTANTS
    Requests = {r1, r2, r3}
    None = none
    MaxCrashes = 1
    MaxStalls = 1
    DiskFails = TRUE
CHECK_DEADLOCK FALSE
INVARIANTS
    TypeOK
    StoredOnChain
    LockDiscipline
    SequentialSavesPersist
PROPERTY Answered
