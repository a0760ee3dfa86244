\* How the client, the login screen and the display session start,
\* run and end.
SPECIFICATION McSpec
CONSTANTS
    ClConfigs <- McConfigs
    ClArgs <- McArgs
    ClEnv = ""
    ClFiles <- McFiles
    ClSecret = "p"
    ClApps = 2
    ClFails = 1
    HpTokens <- McTokens
    HpSlots = {1, 2}
    HpCerts = {"a"}
    HpExpired = {}
    HpAttempts = 2
    HpSeconds = 1
    HpComplete = {TRUE}
    HpEvents = 2
    DsCommands = {"c1", "c2"}
    DsOldFile = {TRUE, FALSE}
    DsFailures = 1
\* every program ends
CHECK_DEADLOCK FALSE
INVARIANTS
    ClOptions
    HpStreamShared
    HpShown
    DsLeavesClean
PROPERTIES
    
    HpEnds
    DsStopEnds
