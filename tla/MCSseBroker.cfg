CONSTANTS
    c1 = c1
    c2 = c2
    k1 = k1
    k2 = k2
    Conns = {c1, c2}
    Keys = {k1, k2}
    Routes <- MCRoutes
    MaxMessages = 2
    MaxBytes = 3
    EventSizes = {2}
    MaxEvents = 2
SPECIFICATION FairSpec
INVARIANT TypeOK
INVARIANT IndexIsExact
INVARIANT DemandReleasedOnce
INVARIANT EventsInOrder
INVARIANT QueueIsServed
PROPERTY GoneIsForgotten
CHECK_DEADLOCK FALSE
