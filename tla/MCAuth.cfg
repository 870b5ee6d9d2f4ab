CONSTANTS
    ann = ann
    eve = eve
    reader = reader
    admin = admin
    t1 = t1
    q1 = q1
    q2 = q2
    browser = browser
    Users = {ann}
    Elsewhere = {eve}
    Roles = {reader, admin}
    Admin = admin
    Tabs = {t1}
    Storage <- OneBrowser
    Requests = {q1, q2}
    Tab <- OneTab
    AccessTTL = 1
    RefreshTTL = 2
    Deadline = 1
    Account0 <- AllAdmins
    MaxTokens = 3
    MaxAge = 2
    None = None
SPECIFICATION Spec
SYMMETRY Peers
INVARIANTS TypeOK RevocationIsBounded OneHeir NeverTwice NobodyIsForgotten
