SPECIFICATION Spec
CONSTANTS
    a = a
    b = b
    c = c
    Ids = {a, b, c}
    Seeded = {a, b}
    Callers = {h1}
    Writable <- Layered
    NoId = NoId
    MaxUpdates = 0
    MaxFaults = 0
INVARIANT AllRulesResolve
CHECK_DEADLOCK FALSE
