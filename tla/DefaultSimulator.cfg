CONSTANTS
    n1 = n1
    NoContext = NoContext
    MaxEvents = 3
    Delays <- MCDelays
    Nodes <- MCNodes
    UidSpace = 16
SPECIFICATION Spec
CHECK_DEADLOCK FALSE
INVARIANTS
    TypeOK
    Conserved
    CountsEvents
    ExpiredIsSettled
    RevokedNeverRuns
    ExecutionOrder
    RunsAsRequested
    DestroyEventsRun
    DisposesAll
PROPERTIES
    StopHonoured
    RunsUntilStopped
    UsesScheduler
    PendingTaken
    InjectedTaken
