SPECIFICATION Spec
CONSTANTS
    p1 = p1
    owner = owner
    Players = {p1}
    Owner = owner
    Bank = bank
    NoPlayer = zero
    NumSessions = 2
    Seeds = {0, 1}
    Bets = {0, 2}
    MaxU256 = 7
    Amounts = {0, 1, 3}
    Pedersen <- MCPedersen
    InitialBalance <- MCInitialBalance
INVARIANTS
    TypeOK
    Solvency
    SettleNeverReverts
PROPERTIES
    GameTermsFixed
    ImplementsEscrow
