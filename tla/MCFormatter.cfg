SPECIFICATION Spec
CONSTANTS
    Formats <- MCFormats
    Records <- MCRecords
    Configs <- MCConfigs
    Process <- MCProcess
    Times <- MCTimes
    Characters <- MCCharacters
    MaxLen = 40
INVARIANTS
    MessageAsFormatted
    OwnFilesMatch
    OnlyOwnFilesMatch
    NamesAdvance
