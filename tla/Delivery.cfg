SPECIFICATION FairSpec
CONSTANTS
    p1 = p1
    c1 = c1
    m1 = m1
    u1 = u1
    Pods = {p1}
    Conns = {c1}
    PodOf <- OnPod1
    Messages = {m1}
    Presences = {u1}
    NoObject = NoObject
    BroadcastCap = 1
    MaxBackoff = 2
    MaxPending = 2
    MaxWrites = 2
    MaxFaults = 2
INVARIANTS TypeOK Converges
PROPERTIES ImplementsBroadcast SubscriptionReturns EventuallyDelivered
CHECK_DEADLOCK FALSE
