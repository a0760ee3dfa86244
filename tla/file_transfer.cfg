\* Drops, requests, portions and reconnects in every order.
SPECIFICATION FairSpec
CONSTANTS
    f1 = f1
    f2 = f2
    f3 = f3
    f4 = f4
    f5 = f5
    Files <- SmallFiles
    Oversize = {f5}
    Drops <- SmallDrops
    MaxChannels = 3
    MaxPlans <- FewPlans
    MaxDrops = 2
    MaxRequests = 2
    MaxTransfers = 2
    MaxThreads = 1
    MaxReturns = 1
\* the bounds end every behaviour
CHECK_DEADLOCK FALSE
INVARIANTS
    PlansKept
PROPERTIES
    WaitersEnd
