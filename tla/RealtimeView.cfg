SPECIFICATION Spec
CONSTANTS
    s1 = s1
    s2 = s2
    Segments = {s1, s2}
    NoValue = NoValue
    PageSize = 1
    StartSizes <- TwoPages
    MaxSize = 2
    MaxGets = 4
    MaxEvents = 3
SYMMETRY Symmetry
INVARIANTS
    TypeOK
    ViewFresh
    UnblurredCounts
CHECK_DEADLOCK FALSE
