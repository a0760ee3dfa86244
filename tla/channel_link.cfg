\* One creator, every route, closes from the ends and by the bus, failures and
\* the reuse of an id.
SPECIFICATION FairSpec
CONSTANTS
    Creators = {l1}
    MaxId = 1
    Routes <- AllRoutes
    MaxJobs = 2
    MaxFrames = 1
    MaxFaults = 1
    Admin = TRUE
\* the number of requests is bounded: after the last the link may idle
CHECK_DEADLOCK FALSE

    
    
PROPERTIES
    ChannelsSettle
