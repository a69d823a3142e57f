CONSTANTS
    w1 = w1
    w2 = w2
    w3 = w3
    q1 = q1
    q2 = q2
    q3 = q3
    None = None
    Writes = {}
    Reads = {q1, q2, q3}
    Size <- MCSize
    WriteCapacity = 1
    PayloadLimit = 4
    ReadThreads = 2
    ReadCapacity = 1
SPECIFICATION Spec
CHECK_DEADLOCK FALSE
PROPERTIES
    ReadsFindRoom
