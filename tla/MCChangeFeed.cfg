SPECIFICATION Spec
CONSTANTS
    p1 = p1
    p2 = p2
    influx = influx
    victoria = victoria
    row = row
    a = a
    b = b
    Absent = Absent
    Procs = {p1, p2}
    Sinks = {influx, victoria}
    Refusing = {victoria}
    Rows = {row}
    Values = {a, b}
    Watts = {a}
    DayLength = 2
    HourTicks = 2
    MaxRun = 3
SYMMETRY Symmetry
INVARIANTS
    TypeOK
    Mirror
PROPERTIES
    OnlyGetsBetter
CHECK_DEADLOCK FALSE
