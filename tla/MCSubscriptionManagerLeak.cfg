CONSTANTS
    Keys = {k1}
    MaxHolders = 2
    MaxOps = 2
    MaxCloses = 1
    MaxRejects = 0
SPECIFICATION Spec
INVARIANT NoLeakedSubscription
