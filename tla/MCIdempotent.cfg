SPECIFICATION Spec
CONSTANTS
    Requests = {r1, r2}
    None = none
    MaxCrashes = 0
    MaxStalls = 0
    DiskFails = FALSE
CHECK_DEADLOCK FALSE
SYMMETRY Symmetry
INVARIANTS
    Idempotent
