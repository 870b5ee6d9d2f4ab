CONSTANTS
    u1 = u1
    u2 = u2
    c1 = c1
    c2 = c2
    d1 = d1
    d2 = d2
    w1 = w1
    w2 = w2
    monthly = monthly
    Users = {u1}
    Plans = {monthly, yearly}
    Channels = {c1}
    GlobalSecret = {c1}
    Tables <- TwoPlanTables
    DefaultPlans <- Defaults
    Devices = {d1}
    Owner <- OwnDevice
    Workers = {w1}
    Admins = {}
    LegacyOrders <- OneLegacy
    Slips <- Rounded
    CloseAfter = 0
    MaxCharges = 2
    MaxOrders = 2
    MaxNow = 1
    MaxFaults = 1
    MaxRows = 0
    None = None
SPECIFICATION Spec
INVARIANTS LegacyGrantIsPriced SoldFromOneList
PROPERTIES StackingLedger
CHECK_DEADLOCK FALSE
