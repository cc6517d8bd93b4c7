SPECIFICATION FairSpec
CONSTANT MaxOps = 5
INVARIANTS
    FuncExclusive
    StoppedMeansGone
PROPERTIES
    TimelyRequestHonoured
    NoFurtherCall
    StopReturns
