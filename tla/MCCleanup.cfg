SPECIFICATION FairSpec
CONSTANTS
    Owner = owner
    Worker = worker
    Free = free
    Logs = {1, 2}
    NoFile = nofile
    Duration = 1
    MaxFilesize = TRUE
    RemoveFails = TRUE
    OpensFail = TRUE
    DirsFail = TRUE
    MaxTime = 4
INVARIANTS
    PurgesExclude
    PurgeIsComplete
    
PROPERTIES
    RemovesOnlyOld
    CallsReturn
CHECK_DEADLOCK FALSE
