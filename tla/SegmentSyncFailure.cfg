SPECIFICATION FailureSpec
CONSTANTS
    active = active
    both = both
    low = low
    high = high
    NoSegment = NoSegment
    Segments <- PairSegments
    Customers = {c1}
    Metrics <- MCMetrics
    Parents <- PairParents
    Satisfying <- PairSatisfying
    Handlers = {h1}
    MaxChanges = 1
    MaxFaults = 1
    MaxBacklog = 0
INVARIANT SettledInSync
CHECK_DEADLOCK FALSE
