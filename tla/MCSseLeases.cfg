CONSTANTS
    Conns = {c1, c2, c3}
    MaxConns = 1
    Ttl = 3
    Interval = 1
    MaxDelay = 1
    MaxClock = 4
    MaxFaults = 1
SPECIFICATION Spec
SYMMETRY Symmetry
INVARIANT TypeOK
INVARIANT LeasesWithinQuota
INVARIANT LiveStreamsWithinLimit
INVARIANT ActiveCountsHolders
PROPERTY NoRevival
CHECK_DEADLOCK FALSE
