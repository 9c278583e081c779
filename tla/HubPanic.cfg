SPECIFICATION Spec
CONSTANTS
    c1 = c1
    c2 = c2
    u1 = u1
    r1 = r1
    ip1 = ip1
    Conns = {c1}
    Users = {u1}
    IPs = {ip1}
    Rooms = {r1}
    UserOf <- OneUser
    IpOf <- OneIp
    MaxPerIP = 1
    RegisterCap = 1
    UnregisterCap = 1
    BroadcastCap = 1
    SendCap = 1
    Requests <- AllRequests
    MaxEvents = 1
    MaxPresence = 0
    MayShutdown = FALSE
INVARIANT NoSendOnClosed
