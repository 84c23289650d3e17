SPECIFICATION OutageSpec
CONSTANTS
    cascade = cascade
    campaign = campaign
    MaxEvents = 2
    Queues = {cascade, campaign}
    Prefetch <- MCPrefetch
    BatchSize = 2
    MaxFaults = 1
INVARIANT PublishedArrives
CHECK_DEADLOCK FALSE
