SPECIFICATION Spec
CONSTANTS
    p1 = p1
    p2 = p2
    pdl = pdl
    rte = rte
    Clients = {p1, p2}
    Buckets = {pdl}
    Budget = 2
    PreferCache = TRUE
    DayTicks = 2
    MaxTime = 1
    MaxUntil = 1
PROPERTIES
    SpentDayHonoured
CHECK_DEADLOCK FALSE
