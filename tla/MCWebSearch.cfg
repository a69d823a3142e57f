CONSTANTS
    p = p
    q = q
    Blank = Blank
    TooLong = TooLong
    Queries = {p, q}
    PagesOf <- MCPagesOf
    MaxInputs = 8
SPECIFICATION FairSpec
CHECK_DEADLOCK FALSE
INVARIANTS
    ListIsOfItsQuery
PROPERTIES
    LastTextAnswered
    QuietWhileComposing
