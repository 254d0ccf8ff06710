SPECIFICATION LimiterSpec
CONSTANTS
    c1 = c1
    c2 = c2
    s1 = s1
    Callers = {c1, c2}
    Sessions = {s1}
    SessionOf <- MCSessionOf
    Global = Global
    GlobalMax = 2
    SessionMax = 1
    Unit = 2
    TTL = 3
    MaxDelay = 1
    Interval <- MCInterval
    NoThrottle = NoThrottle
    MaxClock = 3
INVARIANTS
    LimiterTypeOK
    RateBounded
PROPERTY
    Paced
CHECK_DEADLOCK FALSE
