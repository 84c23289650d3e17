SPECIFICATION CascadeSpec
CONSTANTS
    a = a
    b = b
    c = c
    Ids = {a, b, c}
    Seeded = {a, b}
    Callers = {h1}
    Writable <- FanAndBack
    NoId = NoId
    MaxUpdates = 1
    MaxFaults = 1
    MaxEvents = 1
INVARIANTS
    TypeOK
    RebuildRepairs
    NoneMissed
    EdgesSettled
PROPERTIES
    WorkedOff
CHECK_DEADLOCK FALSE
