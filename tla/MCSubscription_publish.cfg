\* Publishing cycles of one subscription: caps, triggers, modes, resend.
CONSTANTS
    s1 = s1
    Services = {"CreateSubscription", "CreateMonitoredItems", "SetMonitoringMode", "SetTriggering", "Publish", "ModifySubscription", "ResendData"}
    Sessions = {s1}
    Origins = {1}
    NSubs = 1
    NItems = 2
    NRequests = 1
    MaxLinks = 1
    EventDepth = 1
    IdMax = 3
    SeqMax = 2
    QueueSizes = {2}
    Intervals = {1}
    Period = 1
    KeepAlives = {1}
    KeepAliveMax = 1
    NotificationCaps = {0, 1, 3}
    Enabled = {TRUE}
    Modes = {"sampling", "reporting"}
    Attributes = {"value"}
    Links = {"none", "open"}
    FitLimit = 3
    RetainLimit = 1
    MaxElapsed = 1
SPECIFICATION Spec
INVARIANTS
    RetainedIsPrevious
PROPERTIES
    DeliveredOnce
    MoreNotificationsHonest
