\* One connector, two pool threads: every source of shutdown at once.
SPECIFICATION Spec
CONSTANTS
    Users = {u1}
    LoginUser = login
    Connectors = {c1}
    Workers = {w1, w2}
    Stopper = stopper
    NoOne = none
    PoolBase = 1
    LimitSessions = 2
    LimitReloaded = 2
    UsersLimit = 0
    Events = {"admin", "limit", "crash", "exit"}
    MaxDisplay = 2
    MaxPending = 1
SYMMETRY Symmetry
\* connectors are not restarted and display numbers run out
CHECK_DEADLOCK FALSE
INVARIANTS
    TypeOK
    RemovedIsOutOfPool
    ProcessesAccounted
