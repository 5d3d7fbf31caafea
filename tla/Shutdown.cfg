CONSTANTS
    Pins = {"reed"}
    Takers = {"main", "control"}
    MaxSignals = 2
    MaxEvents = 1
    MaxLogs = 1
SPECIFICATION FairSpec
CHECK_DEADLOCK FALSE
INVARIANTS
    ShutdownTypeOK
    AlarmStaysOff
    LoggedIsWritten
PROPERTY TeardownEnds
