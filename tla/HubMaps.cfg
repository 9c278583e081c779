SPECIFICATION Spec
CONSTANTS
    c1 = c1
    c2 = c2
    u1 = u1
    r1 = r1
    ip1 = ip1
    Conns = {c1, c2}
    Users = {u1}
    IPs = {ip1}
    Rooms = {r1}
    UserOf <- OneUser
    IpOf <- OneIp
    MaxPerIP = 2
    RegisterCap = 1
    UnregisterCap = 1
    BroadcastCap = 1
    SendCap = 1
    Requests <- RoomRequests
    MaxEvents = 1
    MaxPresence = 0
    MayShutdown = FALSE
INVARIANTS IndexesAgree ClosedMeansGone GaugesTrackMaps LeaksOnlyOvertaken
SYMMETRY ConnSymmetry
