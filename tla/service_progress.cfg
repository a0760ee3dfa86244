\* Shutdown requests and users logging out, under fairness.
SPECIFICATION FairSpec
CONSTANTS
    Users = {u1}
    LoginUser = login
    Connectors = {c1}
    Workers = {w1}
    Stopper = stopper
    NoOne = none
    PoolBase = 1
    LimitSessions = 2
    LimitReloaded = 2
    UsersLimit = 0
    Events = {"admin", "exit"}
    MaxDisplay = 2
    MaxPending = 1
\* connectors are not restarted and display numbers run out
CHECK_DEADLOCK FALSE
PROPERTIES
    SessionsEnd
