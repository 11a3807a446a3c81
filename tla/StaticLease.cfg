CONSTANTS
    c1 = c1
    c2 = c2
    a1 = a1
    c3 = c3
    Client <- MCClient
    Other <- MCOther
    Pool <- MCOne
    Static <- MCStatic
    Lease = 3
    Infinite = 100
    NoAddress = NoAddress
    Rtrs = 1
    Collect = 1
    NextOffer = 2
    Renew = 1
    Rebind = 2
    MaxTime = 7
    MaxLost = 0
    MaxStops = 0
    MaxOther = 0
SPECIFICATION Spec
CHECK_DEADLOCK FALSE
INVARIANTS
    StaticReserved
