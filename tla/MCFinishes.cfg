SPECIFICATION FairSpec
CONSTANTS
    Rounds = 2
    MaxAttempts = 2
    MaxPolls = 1
    MaxOthers = 0
PROPERTY
    Finishes
CHECK_DEADLOCK FALSE
