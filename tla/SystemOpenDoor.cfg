CONSTANTS
    good = good
    bad = bad
    Tags <- MCTags
    Allowed <- MCAllowed
    MaxWindow = 2
    Debounce = 0
    ResetAfter = 1
    SilenceAfter = 2
    StartOpen <- StartsClosed
    Synchronous = TRUE
    SensorMayFail = FALSE
    QueueBound = 3
    MaxMoves = 1
    MaxTags = 2
    MaxPresses = 0
    MaxCommands = 0
SPECIFICATION Spec
PROPERTY AdmitsOnlyWhenShut
