CONSTANTS
    r1 = r1
    r2 = r2
    r3 = r3
    k1 = k1
    k2 = k2
    k3 = k3
    p1 = p1
    p2 = p2
    c1 = c1
    None = None
    Requests = {r1, r2, r3}
    Keys = {k1, k2, k3}
    Payloads = {p1, p2}
    Bodies <- MCBodies
    Cancels = {c1}
    DedupLimit = 2
    Expiring = {k1}
    MaxExpiries = 1
    MaxFaults = 2
    Faults = {"drop", "busy", "db", "crash"}
SPECIFICATION Spec
SYMMETRY Alike
CHECK_DEADLOCK FALSE
INVARIANTS
    TypeOK
    AtMostOneScan
    SlotIsTheTasks
    CancelReachesItsJob
    Idempotent
    SlotLossExplained
PROPERTIES
    ImplementsLifecycle
