SPECIFICATION Spec
CONSTANTS
    k1 = k1
    k2 = k2
    Calls = {k1, k2}
    AccessTTL = 1
    RefreshTTL = 2
    MaxTime = 4
    MaxTokens = 4
    MayFail = TRUE
CHECK_DEADLOCK FALSE
INVARIANTS TypeOK RevokedStaysOut RevokedNeverAccepted
SYMMETRY CallSymmetry
