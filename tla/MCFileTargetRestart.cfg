SPECIFICATION Spec
CONSTANTS
    Writer = writer
    Starter = starter
    Maint = maint
    NoName = noname
    Names = {1, 2}
    LogFrequency = FALSE
    MaxFilesize = FALSE
    StorageDuration = TRUE
    OpensFail = FALSE
    DirsFail = FALSE
    WritesFail = FALSE
    FilesVanish = FALSE
    MaxRecords = 2
    MaxSetups = 2
    MaxRotations = 0
INVARIANTS
    ReportedIsWritten
