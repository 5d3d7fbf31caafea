CONSTANTS
    good = good
    bad = bad
    Tags <- MCTags
    Allowed <- MCAllowed
    MaxWindow = 3
    Debounce = 1
    ResetAfter = 2
    SilenceAfter = 3
    StartOpen <- StartsClosed
    Synchronous = TRUE
    SensorMayFail = FALSE
    QueueBound = 3
    MaxMoves = 3
    MaxTags = 2
    MaxPresses = 3
    MaxCommands = 1
SPECIFICATION FairSpec
INVARIANT
    DutiesAreDone
PROPERTIES
    RingsFullTime
    ForcedOpenAlarms
