SPECIFICATION Spec
CONSTANTS
    up1 = up1
    up2 = up2
    s1 = s1
    s2 = s2
    None = None
    Partial = Partial
    UsagePoints = {up1, up2}
    SeriesOf <- SharedSeries
    Configs <- Replaced
    Earlier <- MCNothingEarlier
    LastDay = 1
    DayHours = 2
    Totals = {1}
    Grids <- MCGrids
    Pins <- MCPins
    RowsPerImport = 2
    MaxRun = 3
PROPERTIES
    PinnedOnce
CHECK_DEADLOCK FALSE
