CONSTANTS
    g1 = g1
    g2 = g2
    g3 = g3
    s1 = s1
    s2 = s2
    Gets = {g1, g2, g3}
    Session <- MCSession
    GlobalLimit = 2
    SessionLimit = 1
    FileLen = 2
    ChunkBytes = 2
    Headers <- MCHeaders
SPECIFICATION Spec
CHECK_DEADLOCK FALSE
INVARIANTS
    UnsatisfiableIs416
    MalformedIs416
