SPECIFICATION Spec
CONSTANTS
    c1 = c1
    c2 = c2
    u1 = u1
    u2 = u2
    Callers = {c1, c2}
    Users = {u1, u2}
    Owner = u1
    Ops <- AllOps
    MayFail = TRUE
INVARIANTS TypeOK CountExact CacheFresh NoDeadlock
PROPERTY BannedStaysOut
SYMMETRY CallersAlike
