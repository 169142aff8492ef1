\* Clients that read to the end, from an empty first page on: safety.
CONSTANTS
    a = a
    b = b
    big = big
    Tasks = {t1, t2}
    Item <- MCItem
    Bytes <- MCBytes
    Word <- MCWord
    MaxUsize = 100
    Arrays <- MCArrays
    Names <- MCNames
    IdSpace = 3
    MaxStores = 3
    Faults = TRUE
    Requests <- MCRequests
    threshold_bytes = 6
    page_size = 0
    ClientLimits <- FewLimits
    MaxRereads = 1
SPECIFICATION ClientSpec
SYMMETRY TaskSymmetry
INVARIANTS
    ReadsEverythingOnce
    OwnHandleOnly
PROPERTY
    PagesAdvance
