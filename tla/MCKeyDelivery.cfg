SPECIFICATION DeliverySpec
CONSTANTS
    Caller = {c1, c2}
    Id = {i1, i2}
    RotFreq = 2
    KeyTTL = 7
    MapTTL = 1
    CallDelay = 1
    MaxTime = 8
    MaxTTL = 2
    BufferDivisor = 10
    None = None
CHECK_DEADLOCK FALSE
SYMMETRY Symmetry
INVARIANTS
    TypeOK
    SameKeyWhilePinned
    PinnedKeyAlive
    AlwaysAKey
    CachedKeyAlive
PROPERTIES
    LiveMappingKept
