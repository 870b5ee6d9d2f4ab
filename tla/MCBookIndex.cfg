CONSTANTS
    b1 = b1
    t1 = t1
    t2 = t2
    e1 = e1
    e2 = e2
    e3 = e3
    Books = {b1}
    Texts = {t1, t2}
    Editors = {e1, e2, e3}
    Lagging = TRUE
    None = None
SPECIFICATION Spec
INVARIANTS TypeOK InSync
PROPERTIES FreshRepairs DownDisappears
