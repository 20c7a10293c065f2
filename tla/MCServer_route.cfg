\* Two connections, two sessions, one subscription with one parked request.
CONSTANTS
    s1 = s1
    s2 = s2
    NConns = 2
    NSessions = 2
    Lifetime = 2
    ConnectTimeout = 2
    Policies = {"secure"}
    Services = {"CreateSubscription", "Publish"}
    Sessions = {s1, s2}
    NSubs = 1
    NItems = 0
    NRequests = 1
    MaxLinks = 1
    EventDepth = 1
    IdMax = 2
    SeqMax = 2
    QueueSizes = {1}
    Intervals = {1}
    Period = 1
    KeepAlives = {1}
    KeepAliveMax = 1
    NotificationCaps = {0}
    Enabled = {TRUE}
    Modes = {"reporting"}
    Attributes = {"value"}
    FitLimit = 2
    RetainLimit = 1
    MaxElapsed = 1
SPECIFICATION Spec
SYMMETRY SessionSymmetry
INVARIANTS
    TypeOK
PROPERTIES
    EmitsOnOpenChannel
