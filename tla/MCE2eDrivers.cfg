SPECIFICATION Spec
CONSTANTS
    Rounds = 2
    MaxAttempts = 2
    MaxPolls = 1
    MaxOthers = 1
INVARIANTS
    TypeOK
    GreenMeansDone
    OncePerRound
CHECK_DEADLOCK FALSE
