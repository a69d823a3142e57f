CONSTANTS
    l1 = l1
    l2 = l2
    l3 = l3
    a = a
    b = b
    c = c
    u = u
    v = v
    Logins = {l1, l2, l3}
    Logouts = {o1}
    Sources = {a, b, c}
    Usernames = {u, v}
    Keys <- MCKeys
    IpMax = 1
    IpWindow = 1
    UsernameMax = 2
    UsernameWindow = 2
    MaxKeys = 2
    VerifyInflight = 2
    MaxActiveSessions = 2
    Lifetime = 2
    MaxTime = 2
    None = None
SPECIFICATION AuthFairSpec
CHECK_DEADLOCK FALSE
INVARIANTS
    WithinLimits
PROPERTIES
    RefusedForCause
    SessionEndsForCause
    LoginsAnswered
