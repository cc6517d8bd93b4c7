SPECIFICATION Spec
CONSTANTS
    Clients = {c1, c2}
    Maint = maint
    None = none
    Record = {r1, r2}
    TargetsLog = TRUE
    MaxCalls = 3
    MaxRotations = 1
    MaxRecords = 4
INVARIANTS
    FifoHandOver
SYMMETRY Symmetry
CHECK_DEADLOCK FALSE
