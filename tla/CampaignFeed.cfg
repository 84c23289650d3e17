SPECIFICATION FeedSpec
CONSTANTS
    swap = swap
    leave = leave
    NoEvent = NoEvent
    Events <- MCEvents
    Joined <- MCJoined
    Left <- MCLeft
    Slots = {s1, s2}
    MaxCopies = 2
    MaxFaults = 2
    MaxEntries = 2
    MaxVisits = 1
INVARIANTS
    TypeOK
    AtMostOnce
    Exclusive
    ExactlyOnce
    EachLineOnce
    Shown
PROPERTIES
    Handled
CHECK_DEADLOCK FALSE
