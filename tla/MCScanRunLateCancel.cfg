CONSTANTS
    a = a
    b = b
    c = c
    NoPath = NoPath
    Paths = {a}
    MaxJobs = 2
    QueueItems = 1
    BatchMaxItems = 2
    MaxErrorRows = 1
    FirstKinds = {"file", "broken"}
    MaxEdits = 1
    MaxFaults = 0
    Faults = {"db", "crash"}
SPECIFICATION Spec
CHECK_DEADLOCK FALSE
PROPERTIES
    CancelledMarksNothing
