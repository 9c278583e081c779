SPECIFICATION Spec
CONSTANTS
    Limit = 2
    Window = 3
    Lag = 1
    MaxTime = 9
    MaxGrants = 7
    MayFail = TRUE
CHECK_DEADLOCK FALSE
INVARIANTS TypeOK LimitHolds DenialJustified
