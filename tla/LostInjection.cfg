CONSTANTS
    n1 = n1
    NoContext = NoContext
    MaxEvents = 2
    Delays <- MCDelays
    Nodes <- MCNodes
    UidSpace = 16
SPECIFICATION Spec
CHECK_DEADLOCK FALSE
PROPERTIES
    RunDrainsQueue
