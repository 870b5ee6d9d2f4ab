CONSTANTS
    u1 = u1
    u2 = u2
    l1 = l1
    l2 = l2
    l3 = l3
    a1 = a1
    a2 = a2
    cm1 = cm1
    Users = {u1, u2}
    Comments = {cm1}
    Likers = {l1, l2, l3}
    Admins = {a1, a2}
    Lagging = TRUE
    MaxReports = 2
    None = None
SPECIFICATION Spec
SYMMETRY Everybody
INVARIANTS TypeOK LikesCounted
PROPERTIES DownStaysDown BoardSpec
