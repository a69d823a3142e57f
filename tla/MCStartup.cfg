CONSTANTS
    s1 = s1
    s2 = s2
    a1 = a1
    a2 = a2
    Nobody = Nobody
    Servers = {s1, s2}
    Admins = {a1, a2}
    Supported = 2
    Repeatable = {2}
    Configs <- MCConfigs
    Paths = {"x", "y"}
    UserNames = {"u"}
    FirstRows <- MCFirstRows
    MaxVersion = 3
    MaxStarts = 3
    MaxEvents = 2
SPECIFICATION Spec
CHECK_DEADLOCK FALSE
INVARIANTS
    SchemaIsItsVersion
    RootsAreRegistered
    CreatedOnce
