CONSTANTS
    kUnlockDuration = 0
    kCooldown = 1
    Late = 0
    MaxReds = 1
    Places <- MCPlaces
    Frames <- MCFrames
    Names <- MCNames
    kMatchThreshold = 2
    kDetectEvery = 2
    maxSize = 1
    MaxEntries = 1
VIEW LiveState
SPECIFICATION CamSpec
INVARIANTS
    CamTypeOK
    EventsFit
    
PROPERTIES
    LockSpec
