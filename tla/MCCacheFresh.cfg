CONSTANTS
    n1 = n1
    n2 = n2
    r1 = r1
    r2 = r2
    r3 = r3
    k1 = k1
    k2 = k2
    Nodes = {n1, n2}
    Readers = {r1, r2}
    Writers = {k1}
    Home <- TwoHomes
    Pattern = {}
    Lagging = TRUE
    Reliable = FALSE
    L1TTL = 1
    TTL = 2
    EmptyTTL = 1
    LockTTL = 2
    Deadline = 1
    MaxVersion = 1
    MaxAge = 5
    None = None
SPECIFICATION FairSpec
INVARIANTS SingleFlight
PROPERTIES EventuallyFresh LockIsFreed
