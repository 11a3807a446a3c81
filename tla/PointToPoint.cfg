CONSTANTS
    MaxPackets = 5
    MaxDirect = 1
    Bands = 2
    SizeOf <- MCSizeOf
    Mtu = 2
    PppHeader = 1
    MaxSize = 1
    Unit = "packets"
    DiscLimit = 2
    Quota = 1
    Gap = 0
    Delay = 1
SPECIFICATION Spec
CHECK_DEADLOCK FALSE
INVARIANTS
    TypeOK
    TransmitterExact
    NeverDiscards
    NeverStalls
PROPERTIES
    FifoPerBand
    EventuallySettled
