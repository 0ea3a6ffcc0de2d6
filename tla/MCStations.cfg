SPECIFICATION StationsSpec
CONSTANTS
    Workers = {w1, w2}
    Systems = {s1, s2}
    Markets = {k1, k2}
    Services = {a, b}
    Undefined = Undefined
    Feed <- MCFeed
    Ids = {1, 2, 3}
    MaxJobs = 2
SYMMETRY Symmetry
INVARIANT StationsTypeOK
INVARIANT UnracedJobsStore
INVARIANT CarriersInStrongholds
CHECK_DEADLOCK FALSE
