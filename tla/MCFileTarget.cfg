SPECIFICATION Spec
CONSTANTS
    Writer = writer
    Starter = starter
    Maint = maint
    NoName = noname
    Names = {1, 2}
    LogFrequency = TRUE
    MaxFilesize = TRUE
    StorageDuration = TRUE
    OpensFail = TRUE
    DirsFail = TRUE
    WritesFail = FALSE
    FilesVanish = TRUE
    MaxRecords = 2
    MaxSetups = 2
    MaxRotations = 1
INVARIANTS
    ReportedUnlessDisturbed
    FailedIsNotWritten
    WrittenOnce
    StreamOnCurrent
PROPERTIES
    MaintenanceEnds
