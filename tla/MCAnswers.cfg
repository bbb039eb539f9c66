SPECIFICATION Spec
CONSTANTS
    None = None
    HourTicks = 3
    Hours = 3
    SwitchHour = 1
    Tariffs <- MCTariffs
    MaxRepeats = 1
INVARIANTS
    TypeOK
    InstantsRecovered
    GridStepIsRight
    EnergyKept
    LevelsInPlace
CHECK_DEADLOCK FALSE
