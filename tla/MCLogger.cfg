SPECIFICATION FairSpec
CONSTANTS
    Clients = {c1, c2}
    Maint = maint
    None = none
    Record = {r1, r2}
    TargetsLog = FALSE
    MaxCalls = 3
    MaxRotations = 0
    MaxRecords = 3
INVARIANTS
    FifoHandOver
    StopFlushes
    OneWriter
    ReconfigureQuiescent
PROPERTIES
    ImplementsChannel
    CallReturns
    Delivery
