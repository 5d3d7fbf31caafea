CONSTANTS
    Producers = {p1, p2}
    Consumers = {c1, c2}
    None = None
    maxSize = 1
    MaxLen = 1
SPECIFICATION QueueFairSpec
INVARIANTS
    QueueTypeOK
    NoLostWakeup
PROPERTIES
    ImplementsFifo
    ShutdownReleases
    ItemsAreTaken
