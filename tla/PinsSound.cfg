CONSTANTS
    good = good
    bad = bad
    p1 = p1
    p2 = p2
    Tags <- MCTags
    Allowed <- MCAllowed
    PulseIds <- OnePulse
    MaxWindow = 0
    Debounce = 0
    ResetAfter = 0
    SilenceAfter = 0
    StartOpen <- StartsClosed
    Synchronous = FALSE
    SensorMayFail = FALSE
    QueueBound = 2
    MaxMoves = 1
    MaxTags = 0
    MaxPresses = 0
    MaxCommands = 0
    MaxSignals = 0
SPECIFICATION PinsSpec
INVARIANT AlarmSounds
