CONSTANTS
    f = f
    g = g
    h = h
    NoFile = NoFile
    Files = {f, g, h}
    LongNamed = {h}
    Metas <- MCMetas
    MaxField = 4
    MaxMeta = 7
    MaxLine = 14
    MaxAsks = 3
    MaxCrashes = 1
SPECIFICATION FairSpec
CHECK_DEADLOCK FALSE
PROPERTY
    NoOrphans
