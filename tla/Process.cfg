SPECIFICATION FairSpec
CONSTANTS
    c1 = c1
    c2 = c2
    a1 = a1
    Conns = {c1, c2}
    Calls = {a1}
    RegisterCap = 1
INVARIANTS TypeOK StoresOutliveUsers
PROPERTIES EventuallyExits RegistrationCompletes
