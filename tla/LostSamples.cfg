CONSTANTS
    MaxTime = 3
    Periods <- MCPeriods
    MaxClicks = 1
    MaxPauses = 1
    MaxStops = 1
SPECIFICATION Spec
CHECK_DEADLOCK FALSE
INVARIANTS
    EveryPeriodSampled
