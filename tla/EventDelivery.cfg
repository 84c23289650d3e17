SPECIFICATION Spec
CONSTANTS
    cascade = cascade
    campaign = campaign
    MaxEvents = 3
    Queues = {cascade, campaign}
    Prefetch <- MCPrefetch
    BatchSize = 2
    MaxFaults = 1
INVARIANTS TypeOK PublishedIsKept NoSpontaneousDuplicate
PROPERTIES AtLeastOnce Drains
CHECK_DEADLOCK FALSE
