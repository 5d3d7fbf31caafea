CONSTANTS
    good = good
    bad = bad
    Tags <- MCTags
    Allowed <- MCAllowed
    MaxWindow = 2
    Debounce = 0
    ResetAfter = 1
    SilenceAfter = 2
    StartOpen <- StartsClosed
    Synchronous = FALSE
    SensorMayFail = TRUE
    QueueBound = 3
    MaxMoves = 3
    MaxTags = 2
    MaxPresses = 0
    MaxCommands = 0
SPECIFICATION FairSpec
INVARIANTS
    SystemTypeOK
    DeadlineIffPending
    AlarmOwned
    OpenCacheIsTrue
    IntrusionNoticed
PROPERTIES
    RingsOncePerBreach
    PendingResolves
    AuthorizationEnds
    AlarmFallsSilent
