SPECIFICATION Spec
CONSTANTS
    Slots = {s1, s2}
    Attempts = 3
    MaxStalls = 1
    MaxMessages = 2
    MaxFaults = 1
INVARIANT TypeOK
PROPERTY OlderOverwritesOnlyIfReordered
PROPERTY EveryMessageEnds
CHECK_DEADLOCK FALSE
