SPECIFICATION Spec
CONSTANTS
    Sessions = {s1, s2}
    r1 = r1
    r2 = r2
    r3 = r3
    Requests <- MCRequests
    NoRequest = NoRequest
    WithProofFile = {s1}
    Amounts = {3}
    Calls = {2}
    U64 = 4
    MaxAttempts = 2
    MaxBlock = 4
SYMMETRY RequestSymmetry
INVARIANTS
    TypeOK
    SessionContractExists
    IncrementOnce
    ProvedAccountState
    NoLeftoverProof
    CompleteCounted
    ReferenceIsOwn
CHECK_DEADLOCK FALSE
