CONSTANTS
    c1 = c1
    c2 = c2
    a1 = a1
    c3 = c3
    Client <- MCClient
    Other <- MCOther
    Pool <- MCOne
    Static <- MCNoStatic
    Lease = 5
    Infinite = 100
    NoAddress = NoAddress
    Rtrs = 1
    Collect = 2
    NextOffer = 1
    Renew = 1
    Rebind = 2
    MaxTime = 7
    MaxLost = 1
    MaxStops = 1
    MaxOther = 2
SYMMETRY ClientSymmetry
SPECIFICATION Spec
CHECK_DEADLOCK FALSE
INVARIANTS
    TypeOK
    OneHolder
    PoolConserved
    KeepsAddress
