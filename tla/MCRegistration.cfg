SPECIFICATION Spec
CONSTANTS
    Hosts = {h1, h2}
    Callers = {k}
    c1 = c1
    c2 = c2
    cache = cache
    Conns = {c1, c2, cache}
    Loopbacks = {cache}
    Cache = cache
    Names = {"cache.page", "cache.release", "mul"}
    Scopes <- MCScopes
    Order <- MCOrder
    Listing <- MCListing
    MaxPasses = 2
SYMMETRY SameHosts
INVARIANTS
    RegistrationTypeOK
    RegistrationTakesHold
