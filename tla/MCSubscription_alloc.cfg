\* Allocation and deletion across the wrap of the ids.
CONSTANTS
    s1 = s1
    s2 = s2
    Services = {"CreateSubscription", "DeleteSubscriptions", "CreateMonitoredItems", "DeleteMonitoredItems"}
    Sessions = {s1, s2}
    Origins = {1}
    NSubs = 2
    NItems = 2
    NRequests = 1
    MaxLinks = 1
    EventDepth = 1
    IdMax = 3
    SeqMax = 3
    QueueSizes = {1}
    Intervals = {1}
    Period = 1
    KeepAlives = {1}
    KeepAliveMax = 1
    NotificationCaps = {0}
    Enabled = {TRUE}
    Modes = {"disabled"}
    Attributes = {"event"}
    Links = {"none", "open"}
    FitLimit = 2
    RetainLimit = 1
    MaxElapsed = 1
SPECIFICATION Spec
SYMMETRY SessionSymmetry
INVARIANTS
    TypeOK
    IdsUnique
    NoOrphanItems
    ActiveCountExact
