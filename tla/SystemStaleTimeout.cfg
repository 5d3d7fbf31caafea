CONSTANTS
    good = good
    bad = bad
    Tags <- MCTags
    Allowed <- MCAllowed
    MaxWindow = 2
    Debounce = 0
    ResetAfter = 1
    SilenceAfter = 2
    StartOpen <- StartsClosed
    Synchronous = FALSE
    SensorMayFail = FALSE
    QueueBound = 1
    MaxMoves = 3
    MaxTags = 0
    MaxPresses = 0
    MaxCommands = 0
SPECIFICATION Spec
PROPERTY NoEarlyAlarm
