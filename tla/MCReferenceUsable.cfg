SPECIFICATION Spec
CONSTANTS
    Sessions = {s1}
    r1 = r1
    r2 = r2
    r3 = r3
    Requests <- MCRequests
    NoRequest = NoRequest
    WithProofFile = {}
    Amounts = {3}
    Calls = {1}
    U64 = 4
    MaxAttempts = 2
    MaxBlock = 4
INVARIANT
    ReferenceUsable
CHECK_DEADLOCK FALSE
