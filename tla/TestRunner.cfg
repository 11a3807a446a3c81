CONSTANTS
    NJobs = 3
    Worker = {w1, w2}
    Skipped <- MCSkipped
    Examples <- MCExamples
SPECIFICATION Spec
CHECK_DEADLOCK FALSE
INVARIANTS
    TypeOK
    JobsConserved
    SuccessMeansPassed
    StopsStarting
    OneEntryEach
PROPERTIES
    Terminates
