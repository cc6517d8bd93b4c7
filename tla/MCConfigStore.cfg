SPECIFICATION Spec
CONSTANTS
    Global = global
    Loggers = {global, own}
    None = none
    Documents <- MCDocuments
    AppConfigs <- MCAppConfigs
    NotUtf8 = {"latin1"}
    OpensFail = TRUE
    WritesFail = TRUE
    MaxOps = 4
INVARIANTS
    TypeOK
    RejectedIsKept
    NoConfigurationLost
    SaveIsFaithful
PROPERTIES
    BackupsKept
