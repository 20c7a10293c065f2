\* Sessions without a connection.
CONSTANTS
    s1 = s1
    NConns = 2
    NSessions = 1
    Lifetime = 1
    ConnectTimeout = 1
    Policies = {"none"}
    Services = {}
    Sessions = {s1}
    NSubs = 1
    NItems = 0
    NRequests = 1
    MaxLinks = 1
    EventDepth = 1
    IdMax = 2
    SeqMax = 2
    QueueSizes = {1}
    Intervals = {1}
    Period = 1
    KeepAlives = {1}
    KeepAliveMax = 1
    NotificationCaps = {0}
    Enabled = {TRUE}
    Modes = {"reporting"}
    Attributes = {"value"}
    FitLimit = 2
    RetainLimit = 1
    MaxElapsed = 1
SPECIFICATION FairSpec
PROPERTIES
    SessionsTimeOut
