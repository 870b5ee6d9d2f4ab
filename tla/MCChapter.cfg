CONSTANTS
    r1 = r1
    r2 = r2
    g1 = g1
    Requests = {r1, r2}
    Purgers = {g1}
    Vip = FALSE
    Lag = 1
    CacheBound = 1
    RequestTime = 1
    EdgeTTL = 2
    None = None
SPECIFICATION Spec
INVARIANTS TypeOK EdgeIsBounded
PROPERTIES NotRefilled ForgottenAtLast
