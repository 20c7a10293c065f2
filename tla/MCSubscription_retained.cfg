\* A message with more notifications than the retransmission slot holds.
CONSTANTS
    s1 = s1
    Services = {"CreateSubscription", "CreateMonitoredItems", "Publish"}
    Sessions = {s1}
    Origins = {1}
    NSubs = 1
    NItems = 1
    NRequests = 1
    MaxLinks = 1
    EventDepth = 1
    IdMax = 2
    SeqMax = 2
    QueueSizes = {2}
    Intervals = {1}
    Period = 1
    KeepAlives = {1}
    KeepAliveMax = 1
    NotificationCaps = {0}
    Enabled = {TRUE}
    Modes = {"reporting"}
    Attributes = {"value"}
    Links = {"none", "open"}
    FitLimit = 2
    RetainLimit = 1
    MaxElapsed = 1
SPECIFICATION Spec
PROPERTIES
    LastMessageRetained
