CONSTANTS
    MaxTime = 4
    Periods <- MCPeriods
    MaxClicks = 2
    MaxPauses = 1
    MaxStops = 1
SPECIFICATION Spec
CHECK_DEADLOCK FALSE
INVARIANTS
    TypeOK
    PausesKept
    StaysWithView
PROPERTIES
    QuitEnds
    PlayAdvances
