CONSTANTS
    n1 = n1
    n2 = n2
    r1 = r1
    r2 = r2
    r3 = r3
    k1 = k1
    k2 = k2
    Nodes = {n1, n2}
    Readers = {r1, r2}
    Writers = {k1, k2}
    Home <- TwoHomes
    Pattern = {k2}
    Lagging = TRUE
    Reliable = FALSE
    L1TTL = 2
    TTL = 2
    EmptyTTL = 2
    LockTTL = 3
    Deadline = 2
    MaxVersion = 1
    MaxAge = 5
    None = None
SPECIFICATION Spec
INVARIANTS TypeOK BoundedStaleness
