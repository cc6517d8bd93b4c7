SPECIFICATION FairSpec
CONSTANTS
    Clients = {c1, c2}
    Maint = maint
    None = none
    Record = {r1, r2}
    TargetsLog = TRUE
    MaxCalls = 2
    MaxRotations = 1
    MaxRecords = 2
PROPERTIES
    ReconfigureRestarts
CHECK_DEADLOCK FALSE
