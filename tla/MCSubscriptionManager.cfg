CONSTANTS
    Keys = {k1, k2}
    MaxHolders = 2
    MaxOps = 2
    MaxCloses = 2
    MaxRejects = 1
SPECIFICATION FairSpec
INVARIANT TypeOK
INVARIANT DemandCountsHolders
INVARIANT SubscribedIsReal
INVARIANT DemandedIsSubscribed
INVARIANT UnsubscribedOnLastDemand
PROPERTY DemandIsServed
