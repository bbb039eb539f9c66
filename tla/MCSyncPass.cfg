SPECIFICATION FairSpec
CONSTANTS
    pdl = pdl
    curve = curve
    UsagePoints = {pdl}
    Datasets = {curve}
    Curves = {curve}
    WindowDays <- MCWindowDays
    HistoryDays <- MCHistoryDays
    SettleDays = 3
    StartDay = 5
    LastDay = 6
INVARIANTS
    TypeOK
    PlanIsRight
    RidesAlong
    FreshAnswers
PROPERTIES
    GivenUpWhenSettled
    HistoryCompletes
CHECK_DEADLOCK FALSE
