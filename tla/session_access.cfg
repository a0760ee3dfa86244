\* Two login screens of one user, two attempts and the listeners that follow.
SPECIFICATION McSpec
CONSTANTS
    SaScreens = {1, 2}
    SaAttempts = {1, 2}
    SaNewPolicies = {"authlock"}
    SaUser = u
    SaUidNames = {u, w}
    SaListNames = {u}
    SaFailures = 1
    SaRequests <- McRequests
    SaDisabled = {"pcsc"}
\* the attempts are bounded
CHECK_DEADLOCK FALSE
INVARIANTS
    SaLoginGuarded
    
