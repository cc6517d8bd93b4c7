SPECIFICATION TimedSpec
CONSTANTS
    Interval = 3
    Offset = 1
    TicksPerSecond = 2
    Delays = {0, 3}
    MaxTime = 22
INVARIANTS
    NeverBeforeItsTime
    Enclosed
PROPERTIES
    OneCallPerInterval
