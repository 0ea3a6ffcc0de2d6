CONSTANTS
    Conns = {c1, c2}
    MaxConns = 1
    Ttl = 3
    Interval = 1
    MaxDelay = 1
    MaxClock = 6
    MaxFaults = 0
SPECIFICATION Spec
INVARIANT RejectedOnlyAtLimit
CHECK_DEADLOCK FALSE
