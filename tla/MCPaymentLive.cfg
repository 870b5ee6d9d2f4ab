CONSTANTS
    u1 = u1
    u2 = u2
    c1 = c1
    c2 = c2
    d1 = d1
    d2 = d2
    w1 = w1
    w2 = w2
    monthly = monthly
    Users = {u1}
    Plans = {monthly}
    Channels = {c1}
    GlobalSecret = {}
    Tables <- NoRows
    DefaultPlans <- Defaults
    Devices = {d1}
    Owner <- OwnDevice
    Workers = {w1, w2}
    Admins = {a1}
    LegacyOrders <- NoLegacy
    Slips <- Rounded
    CloseAfter = 0
    MaxCharges = 2
    MaxOrders = 1
    MaxNow = 1
    MaxFaults = 1
    MaxRows = 1
    None = None
SPECIFICATION FairSpec
PROPERTIES ChargedIsActivated
CHECK_DEADLOCK FALSE
