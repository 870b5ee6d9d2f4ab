CONSTANTS
    r1 = r1
    r2 = r2
    a1 = a1
    a2 = a2
    http = http
    grpc = grpc
    Requests = {r1, r2}
    Addresses = {a1, a2}
    Servers = {http, grpc}
    Grpc = {grpc}
    Limit = 1
    Window = 3
    Cap = 1
    Delay = 1
    MaxTime = 4
    None = None
SPECIFICATION Spec
INVARIANTS TypeOK WindowHolds MapIsBounded DrainedBeforeExit
PROPERTIES Stops
CHECK_DEADLOCK FALSE
