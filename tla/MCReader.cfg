CONSTANTS
    c1 = c1
    c2 = c2
    k1 = k1
    k2 = k2
    k3 = k3
    Chapters = {c1, c2}
    Vip = {c2}
    LastPage = 1
    Calls = {k1, k2, k3}
    None = None
SPECIFICATION Spec
INVARIANT Resumes
