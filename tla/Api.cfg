CONSTANTS
    t1 = t1
    t2 = t2
    Threads <- TwoThreads
    Window = 2
SPECIFICATION ApiFairSpec
INVARIANTS
    ApiTypeOK
    IndicatorsAgree
    PendingIsWatched
PROPERTY VerificationEnds
