\* Clients that pass no limit: the default page is not page_size.
CONSTANTS
    a = a
    b = b
    big = big
    Tasks = {t1, t2}
    Item <- MCItem
    Bytes <- MCBytes
    Word <- MCWord
    MaxUsize = 100
    Arrays <- MCArrays
    Names <- MCNames
    IdSpace = 2
    MaxStores = 2
    Faults = TRUE
    Requests <- MCRequests
    threshold_bytes = 6
    page_size = 1
    ClientLimits <- NoLimit
    MaxRereads = 0
SPECIFICATION ClientSpec
INVARIANT
    PageSizeHonoured
