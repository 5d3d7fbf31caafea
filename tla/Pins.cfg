CONSTANTS
    good = good
    bad = bad
    p1 = p1
    p2 = p2
    Tags <- MCTags
    Allowed <- MCAllowed
    PulseIds <- MCPulseIds
    MaxWindow = 0
    Debounce = 0
    ResetAfter = 0
    SilenceAfter = 0
    StartOpen <- StartsClosed
    Synchronous = FALSE
    SensorMayFail = FALSE
    QueueBound = 1
    MaxMoves = 2
    MaxTags = 1
    MaxPresses = 0
    MaxCommands = 0
    MaxSignals = 1
SYMMETRY Symmetry
VIEW View
SPECIFICATION PinsSpec
INVARIANTS
    BuzzerHasOwner
    RedMeansOpen
    GreenHasReason
