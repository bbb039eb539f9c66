SPECIFICATION FairSpec
CONSTANTS
    contract = contract
    identity = identity
    blue = blue
    red = red
    DayTicks = 2
    Interval = 1
    MaxPass = 2
    Resources = {contract, identity}
    PerMeter = {contract}
    Refresh = 2
    Retry = 3
    MaxLate = 2
    TempoAhead = 1
    EcowattAhead = 1
    Prices = {blue, red}
    Window = 2
    Configurations <- MCEach
INVARIANTS
    TypeOK
    ExtrasOfTheDay
    NeverMisleading
    ShownAsConfigured
    NoFalseAlarm
    HeldBack
PROPERTIES
    OnlyWithConsent
    Recovers
