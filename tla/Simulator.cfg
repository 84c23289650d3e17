SPECIFICATION SimulatorSpec
CONSTANTS
    c1 = c1
    c2 = c2
    Customers = {c1, c2}
    NoNumber = NoNumber
    MaxDepth = 2
    Amounts <- Payments
    Ages = {0, 2}
    Window30 = 1
    Window60 = 2
    Age90 = 3
    Infinity = 9
    VipSum = 1
    UserRules <- Own
    ChunkSize = 2
    Counts = {0, 3}
    MaxCount = 3
    Days = {0, 2}
    MaxDays = 3
    Keys = {"tier", "country"}
    k1 = k1
    k2 = k2
    Calls = {k1, k2}
    MaxCalls = 2
    MaxRows = 3
SYMMETRY Symmetry
INVARIANTS
    TypeOK
    RuleMeaning
    DriftOnlyByTime
    DriftOneWay
    PatchKept
    BulkExact
    OneCallPerPanel
PROPERTY EachWriteSignalled
CHECK_DEADLOCK FALSE
