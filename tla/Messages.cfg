SPECIFICATION Spec
CONSTANTS
    a1 = a1
    a2 = a2
    b1 = b1
    u1 = u1
    u2 = u2
    k1 = k1
    Callers = {a1, a2, b1}
    Users = {u1, u2}
    UserOf <- Owner
    Moderators = {u2}
    Keys = {k1}
    NoKey = NoKey
    Ops <- AllOps
    MaxMessages = 2
    MaxRequests = 4
    MayFail = TRUE
CHECK_DEADLOCK FALSE
INVARIANTS TypeOK DedupUnlessExcused ReactionsKept StoredMeansAnnounced
PROPERTY DeletionIsFinal
SYMMETRY SameUser
