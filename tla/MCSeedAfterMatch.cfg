SPECIFICATION Spec
CONSTANTS
    owner = owner
    Players = {p1}
    Owner = owner
    Bank = bank
    NoPlayer = zero
    NumSessions = 1
    Seeds = {0, 1, 2, 3, 4, 5}
    Bets = {1}
    MaxU256 = 7
    Amounts = {1}
    Pedersen <- MCPedersen
    InitialBalance <- MCInitialBalance
    Requests = {r1, r2, r3}
    NoCommitment = none
    DeployBlock = 1
    MaxBlock = 4
    MaxAttempts = 1
    MaxCrashes = 0
    MaxStalls = 0
    Estimates = TRUE
CHECK_DEADLOCK FALSE
SYMMETRY Symmetry
INVARIANTS
    SeedAfterMatch
