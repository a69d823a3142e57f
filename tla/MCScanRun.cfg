CONSTANTS
    a = a
    b = b
    c = c
    NoPath = NoPath
    Paths = {a, b}
    MaxJobs = 2
    QueueItems = 1
    BatchMaxItems = 2
    MaxErrorRows = 1
    FirstKinds = {"file", "broken"}
    MaxEdits = 1
    MaxFaults = 1
    Faults = {"db", "crash"}
SPECIFICATION Spec
SYMMETRY Alike
CHECK_DEADLOCK FALSE
INVARIANTS
    TypeOK
    CompletedMirrorsDisk
    UnchangedIsFresh
    EveryFileAccounted
PROPERTIES
    OnlyMissingGoUnavailable
    ImplementsLifecycle
