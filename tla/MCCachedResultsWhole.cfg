\* An oversized array of no more than page_size items.
CONSTANTS
    a = a
    b = b
    big = big
    Tasks = {t1, t2}
    Item <- MCItem
    Bytes <- MCBytes
    Word <- MCWord
    MaxUsize = 100
    Arrays <- MCArrays
    Names <- MCNames
    IdSpace = 2
    MaxStores = 2
    Faults = TRUE
    Requests <- MCRequests
    threshold_bytes = 6
    page_size = 1
SYMMETRY TaskSymmetry
SPECIFICATION Spec
INVARIANT
    OversizedNeverWhole
