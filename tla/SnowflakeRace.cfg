SPECIFICATION Spec
CONSTANTS
    t1 = t1
    t2 = t2
    t3 = t3
    p1 = p1
    p2 = p2
    Threads = {t1, t2}
    Pods = {p1}
    PodOf <- SharedPod
    NodeOf <- Nodes
    SequenceMask = 1
    MaxNodeID = 1
    MaxTime = 3
    MaxIds = 4
CHECK_DEADLOCK FALSE
INVARIANT UniqueIds
