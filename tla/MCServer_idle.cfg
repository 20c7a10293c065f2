\* Idle connections, with a subscription that has no request to answer.
CONSTANTS
    s1 = s1
    NConns = 2
    NSessions = 2
    Lifetime = 2
    ConnectTimeout = 1
    Policies = {"none"}
    Services = {"CreateSubscription", "SetPublishingMode", "TriggerEvent"}
    Sessions = {s1}
    NSubs = 1
    NItems = 0
    NRequests = 1
    MaxLinks = 1
    EventDepth = 1
    IdMax = 2
    SeqMax = 2
    QueueSizes = {1}
    Intervals = {1}
    Period = 1
    KeepAlives = {1}
    KeepAliveMax = 1
    NotificationCaps = {0}
    Enabled = {TRUE, FALSE}
    Modes = {"reporting"}
    Attributes = {"value"}
    FitLimit = 2
    RetainLimit = 1
    MaxElapsed = 2
SPECIFICATION FairSpec
PROPERTIES
    IdleConnectionDropped
