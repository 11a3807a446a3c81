CONSTANTS
    Kinds <- AllKinds
    HeapRemoves = FALSE
    Delays <- FewDelays
    MaxInserts = 6
SPECIFICATION Spec
INVARIANTS
    TypeOK
    HoldsPending
    CalendarConsistent
    Ordered
PROPERTIES
    ImplementsScheduler
