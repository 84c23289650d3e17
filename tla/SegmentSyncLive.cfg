SPECIFICATION FairSpec
CONSTANTS
    active = active
    both = both
    low = low
    high = high
    NoSegment = NoSegment
    Segments <- PairSegments
    Customers = {c1}
    Metrics <- MCMetrics
    Parents <- PairParents
    Satisfying <- PairSatisfying
    Handlers = {h1}
    MaxChanges = 1
    MaxFaults = 0
    MaxBacklog = 0
PROPERTY Settles
CHECK_DEADLOCK FALSE
