CONSTANTS
    kUnlockDuration = 6
    kCooldown = 10
    Late = 1
    MaxReds = 2
SPECIFICATION LockFairSpec
INVARIANTS
    LockTypeOK
    WillRelock
    DestroyedLocked
    StateMatchesPins
PROPERTIES
    UnlockLasts
    Relocks
    DestructorReturns
