CONSTANTS
    w1 = w1
    w2 = w2
    w3 = w3
    q1 = q1
    q2 = q2
    q3 = q3
    None = None
    Writes = {w1, w2, w3}
    Reads = {q1}
    Size <- MCSize
    WriteCapacity = 1
    PayloadLimit = 4
    ReadThreads = 1
    ReadCapacity = 1
SPECIFICATION FairSpec
CHECK_DEADLOCK FALSE
INVARIANTS
    PayloadExact
    OutcomeTruthful
PROPERTIES
    AcceptedAnswered
