\* Three slots, sizes below, at and above the depth, both discard policies; a deadband
\* against drifting values, with changing sampling intervals.
CONSTANTS
    Depth = 3
    RequestedSizes = {0, 2, 4}
    MaxValue = 2
    Deadbands = {0, 2}
    Intervals = {1, 2}
    Period = 2
    MaxElapsed = 2
    MaxReports = 5
SPECIFICATION Spec
INVARIANTS
    TypeOK
    RingConsistent
    PendingHasReport
    GapsAreMarked
PROPERTIES
    RefinesReportQueue
    FilterHonest
    OnlyNewsReported
