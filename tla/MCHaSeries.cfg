SPECIFICATION Spec
CONSTANTS
    up1 = up1
    up2 = up2
    s1 = s1
    s2 = s2
    None = None
    Partial = Partial
    UsagePoints = {up1}
    SeriesOf <- OneSeries
    Configs <- One
    Earlier <- MCEarlier
    LastDay = 3
    DayHours = 2
    Totals = {1}
    Grids <- MCGrids
    Pins <- NoPins
    RowsPerImport = 2
    MaxRun = 3
INVARIANTS
    TypeOK
    Continues
PROPERTIES
    NeverBefore
CHECK_DEADLOCK FALSE
