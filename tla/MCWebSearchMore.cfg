CONSTANTS
    p = p
    q = q
    Blank = Blank
    TooLong = TooLong
    Queries = {p, q}
    PagesOf <- MCPagesOf
    MaxInputs = 8
SPECIFICATION Spec
CHECK_DEADLOCK FALSE
INVARIANT
    MoreIsUnderWay
