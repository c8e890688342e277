SPECIFICATION LimiterSpec
CONSTANTS
    p1 = p1
    u1 = u1
    u2 = u2
    u3 = u3
    Ips = {p1}
    Ids = {u1, u2, u3}
    Window = 3
    Second = 2
    MaxIp = 5
    MaxId = 2
    MaxTracked = 2
    MaxTime = 9
SYMMETRY Interchangeable
CHECK_DEADLOCK FALSE
INVARIANTS
    BudgetIsExact
    RetryAfterIsHonest
