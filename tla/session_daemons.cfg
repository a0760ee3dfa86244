\* The daemons of the channels, each with its programs and its client.
SPECIFICATION McSpec
CONSTANTS
    a = a
    b = b
    PcscClients = {a, b}
    PcscOps <- McOps
    PcscNames <- McNames
    PcscSlots = 1
    PcscMaxCancels = 1
    PcscNoOne = none
    FuseReqs = {q1, q2}
    FuseFds = {3, 4}
    FuseItems <- McItems
    FuseOffsets = {0, 9}
    FuseIntMax = 5
    FuseLocalUid = 1001
    FuseRemoteUid = 1000
    k1 = k1
    k2 = k2
    AudioConns = {k1, k2}
    AudioPath <- McPaths
    AudioMaxJobs <- McJobs
    AudioFrames = {0, 2}
    AudioWireCap = 3
    AudioPlayAfter = 2
    AudioNone = none
\* a daemon may wait for more
CHECK_DEADLOCK FALSE
INVARIANTS
    PcscAnswersMatch
    PcscHoldsAccounted
    FuseStreamSound
    FuseNamesResolve
    
