SPECIFICATION Spec
CONSTANTS
    A = A
    B = B
    C = C
    D = D
    k1 = k1
    k2 = k2
    Levels = {0, 1}
    Kinds = {k1, k2}
    Configs <- MCConfigs
    AddedTargets <- MCAdded
    MaxOps = 4
INVARIANTS
    TypeOK
    RoutedAsConfigured
    KeysDistinct
    SavedRoutesAlike
    FailedFallsBack
