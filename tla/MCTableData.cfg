CONSTANTS
    f0 = f0
    f1 = f1
    r1 = r1
    r2 = r2
    Filters = {f0, f1}
    NoFilter = f0
    Sizes = {1}
    InitSize = 1
    MaxRows = 2
    Slots = {r1, r2}
    MaxRequests = 3
    MaxOrphans = 1
    CacheOn = TRUE
    MaxCacheSize = 1
    NoSlot = NoSlot
    NoData = NoData
SYMMETRY Symmetry
SPECIFICATION Spec
INVARIANTS
    OnlyNewestIsLive
    CacheAnswersItsKey
    ReloadIsFresh
    PageGuardIsHeld
