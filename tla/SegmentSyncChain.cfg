SPECIFICATION Spec
CONSTANTS
    active = active
    both = both
    mid = mid
    low = low
    high = high
    NoSegment = NoSegment
    Segments <- ChainSegments
    Customers = {c1}
    Metrics <- MCMetrics
    Parents <- ChainParents
    Satisfying <- ChainSatisfying
    Handlers = {h1}
    MaxChanges = 1
    MaxFaults = 0
    MaxBacklog = 0
INVARIANTS
    SettledInSync
CHECK_DEADLOCK FALSE
