SPECIFICATION FairSpec
CONSTANTS
    p1 = p1
    p2 = p2
    pdl = pdl
    rte = rte
    Clients = {p1, p2}
    Buckets = {pdl}
    Budget = 2
    PreferCache = TRUE
    DayTicks = 1
    MaxTime = 1
    MaxUntil = 2
INVARIANTS
    TypeOK
    BudgetPerDay
    EveryCallCounted
    SentPerDay
PROPERTIES
    RefusalHonoured
    CountedOneByOne
    RequestsEnd
CHECK_DEADLOCK FALSE
