\* Clients over a remote transport: safety.
CONSTANTS
    a = a
    b = b
    Tasks = {t1, t2}
    Item <- MCItem
    Bytes <- MCBytes
    Word <- MCWord
    MaxUsize = 100
    Arrays <- MCArrays
    Names <- MCNames
    IdSpace = 3
    MaxStores = 3
    Faults = TRUE
    Requests <- MCRequests
    threshold_bytes = 4
    page_size = 2
    ClientLimits <- MCLimits
    MaxRereads = 1
    Asks = {"long", "other", "bad"}
    Result <- MCResult
    MaxCalls = 3
SPECIFICATION CallsSpec
SYMMETRY TaskSymmetry
INVARIANTS
    OwnResult
    OneEntryPerCall
PROPERTY
    ImplementsRemoteCalls
