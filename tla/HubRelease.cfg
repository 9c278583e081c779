SPECIFICATION FairSpec
CONSTANTS
    c1 = c1
    c2 = c2
    u1 = u1
    r1 = r1
    ip1 = ip1
    Conns = {c1}
    Users = {u1}
    IPs = {ip1}
    Rooms = {r1}
    UserOf <- OneUser
    IpOf <- OneIp
    MaxPerIP = 1
    RegisterCap = 1
    UnregisterCap = 1
    BroadcastCap = 1
    SendCap = 1
    Requests <- SubscribeOnly
    MaxEvents = 1
    MaxPresence = 1
    MayShutdown = TRUE
PROPERTIES EventuallyReleased EventsFanOut
