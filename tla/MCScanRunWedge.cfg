CONSTANTS
    a = a
    b = b
    c = c
    NoPath = NoPath
    Paths = {a, b, c}
    MaxJobs = 1
    QueueItems = 1
    BatchMaxItems = 2
    MaxErrorRows = 1
    FirstKinds = {"file", "broken"}
    MaxEdits = 0
    MaxFaults = 0
    Faults = {"db", "crash"}
SPECIFICATION FairSpec
CHECK_DEADLOCK FALSE
PROPERTIES
    CancelledScanEnds
