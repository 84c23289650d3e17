SPECIFICATION Spec
CONSTANTS
    active = active
    both = both
    low = low
    high = high
    NoSegment = NoSegment
    Segments <- PairSegments
    Customers = {c1}
    Metrics <- MCMetrics
    Parents <- PairParents
    Satisfying <- PairSatisfying
    Handlers = {h1}
    MaxChanges = 1
    MaxFaults = 1
    MaxBacklog = 0
INVARIANTS TypeOK StaleIsOwed SettledInSync EdgesComplete IndInv
CHECK_DEADLOCK FALSE
