\* Safety of the cache, with and without a poisoned map.
CONSTANTS
    a = a
    b = b
    Tasks = {t1, t2, t3}
    Item <- MCItem
    Bytes <- MCBytes
    Word <- MCWord
    MaxUsize = 100
    Arrays <- MCArrays
    Names <- MCNames
    IdSpace = 4
    MaxStores = 4
    Faults = TRUE
SYMMETRY TaskSymmetry
SPECIFICATION CacheSpec
INVARIANTS
    TypeOK
    HandlesUnique
    NothingLost
    ReleaseAudit
PROPERTY
    HandleLifecycle
