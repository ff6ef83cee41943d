SPECIFICATION Spec
CONSTANTS
    None = None
    c1 = c1
    c2 = c2
    c3 = c3
    s1 = s1
    s2 = s2
    k1 = k1
    k2 = k2
    k3 = k3
    k4 = k4
    Calls = {c1, c2, c3}
    Stores = {s1, s2}
    Conns = {k1, k2, k3, k4}
    StoreOf <- MCStoreOf
    Home <- MCHome
    Awaiting = {s1, s2}
    MaxSteps = 1
    MaxDrops = 1

    
PROPERTIES
    OneInside
    EveryCallEnds
CHECK_DEADLOCK FALSE
