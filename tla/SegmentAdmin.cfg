SPECIFICATION Spec
CONSTANTS
    a = a
    b = b
    c = c
    Ids = {a, b, c}
    Seeded = {a, b}
    Callers = {h1, h2}
    Writable <- Layered
    NoId = NoId
    MaxUpdates = 1
    MaxFaults = 0
INVARIANT RulesResolve
CHECK_DEADLOCK FALSE
