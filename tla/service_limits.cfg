\* Two users with two connectors, limit:users = 2 with login screens counted,
\* a pool that grows from two slots to four.
SPECIFICATION Spec
CONSTANTS
    Users = {u1, u2}
    LoginUser = login
    Connectors = {c1, c2}
    Workers = {w1}
    Stopper = stopper
    NoOne = none
    PoolBase = 1
    LimitSessions = 2
    LimitReloaded = 4
    UsersLimit = 2
    Events = {"reload"}
    MaxDisplay = 4
    MaxPending = 0
SYMMETRY Symmetry
\* connectors are not restarted and display numbers run out
CHECK_DEADLOCK FALSE
INVARIANTS
    StartingHasSlot
    LimitsHold
PROPERTIES
    ImplementsLifecycle
