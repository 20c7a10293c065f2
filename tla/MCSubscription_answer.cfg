\* Every parked Publish request is answered: two subscriptions share two request slots.
\* A message whose event no item reports fits and is retained; others are too large.
CONSTANTS
    s1 = s1
    Services = {"CreateSubscription", "CreateMonitoredItems", "Publish", "TriggerEvent"}
    Sessions = {s1}
    Origins = {1}
    NSubs = 2
    NItems = 1
    NRequests = 2
    MaxLinks = 1
    EventDepth = 1
    IdMax = 3
    SeqMax = 2
    QueueSizes = {1}
    Intervals = {1}
    Period = 1
    KeepAlives = {2}
    KeepAliveMax = 2
    NotificationCaps = {0}
    Enabled = {TRUE, FALSE}
    Modes = {"reporting"}
    Attributes = {"event"}
    Links = {"none", "open", "mute"}
    FitLimit = 0
    RetainLimit = 0
    MaxElapsed = 1
SPECIFICATION FairSpec
PROPERTIES
    RetainedUntilAcknowledged
    RequestAnswered
