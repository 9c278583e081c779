SPECIFICATION Spec
CONSTANTS
    c1 = c1
    c2 = c2
    u1 = u1
    r1 = r1
    ip1 = ip1
    Conns = {c1, c2}
    Users = {u1}
    IPs = {ip1}
    Rooms = {r1}
    UserOf <- OneUser
    IpOf <- OneIp
    MaxPerIP = 1
    RegisterCap = 1
    UnregisterCap = 1
    BroadcastCap = 2
    SendCap = 2
    Requests <- AllRequests
    MaxEvents = 2
    MaxPresence = 0
    MayShutdown = FALSE
INVARIANTS TypeOK IpLimit OrderedDelivery
SYMMETRY ConnSymmetry
