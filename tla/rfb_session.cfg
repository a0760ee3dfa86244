\* Handshake, screen, input and clipboard of one RFB connection.
SPECIFICATION McSpec
CONSTANTS
    HsPasswords = {"p", "q"}
    HsPassFile = {"p"}
    RsSizes = {1, 2}
    RsPrimary = 2
    RsDraws = 1
    RsResizes = 1
    RsIncr = 1
    InLtsm = {TRUE, FALSE}
    InKeymap <- McKeymap
    InKeys <- McKeys
    InCursors = {1, 2}
    InEvents = 4
    CbExtended = {TRUE, FALSE}
    CbPeers = {"ltsm", "viewer"}
    CbSizes = {1, 2}
    CbAtoms = 2
    CbCopies = 2
    CbPastes = 2
\* a handshake ends, and people draw, type and copy a bounded number of times
CHECK_DEADLOCK FALSE
INVARIANTS
    HsSound
    RsUpdateKept
    RsShowsScreen
    InReplayed
    
    CbOwnText
    CbDelivered
