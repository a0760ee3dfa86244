---------------------------- MODULE LtsmService -----------------------------
(***************************************************************************)
(* The session manager of the service (class DBusAdaptor): display        *)
(* sessions are started for connectors, go online and offline, and are    *)
(* shut down.  These threads interleave:                                   *)
(*                                                                         *)
(*   dbus     the sdbus event loop; runs one bus method at a time          *)
(*   Workers  the asio pool; run posted displayShutdown tasks              *)
(*   strand   childs_guard_; registers child pids and reaps them           *)
(*   alive    the handler of timer_alive_, re-armed when it returns        *)
(*   Stopper  the pool thread that runs stop()                             *)
(*                                                                         *)
(* Between two steps of one thread any other may run: a step ends where a  *)
(* thread takes a lock, blocks, or reads or writes a session field that    *)
(* another thread also uses.                                               *)
(***************************************************************************)
EXTENDS XvfbSessions

CONSTANTS
    Users,       \* system users that may log in
    LoginUser,   \* ltsm_user_conn: the account of the login screens
    Connectors,  \* connector processes (getpid() of each)
    Workers,     \* threads of the asio pool
    Stopper,     \* the thread that runs stop()
    NoOne,       \* connectorId = 0
    PoolBase,    \* slots of the pool as constructed (300 in the code)
    LimitSessions, \* limit:sessions at start
    LimitReloaded, \* limit:sessions after a config reload
    UsersLimit,  \* limit:users, 0 for none
    Events,      \* which outside events a scenario includes
    MaxDisplay,  \* bound: display numbers handed out
    MaxPending   \* bound: shutdown tasks queued by outside requests

ASSUME ServiceAssumption ==
    /\ PoolBase \in Nat /\ LimitSessions \in Nat /\ LimitReloaded \in Nat
    /\ UsersLimit \in Nat /\ MaxDisplay \in Nat /\ MaxPending \in Nat
    /\ LoginUser \notin Users
    /\ NoOne \notin Connectors
    /\ Stopper \notin Workers
    /\ Events \subseteq {"admin", "limit", "ping", "crash", "reload", "stop", "exit"}

VARIABLES
    sessions,    \* the slots of the pool
    sess,        \* the XvfbSession objects, by display
    freeDisplay, \* free_display_: the next display number
    proc,        \* the child process of each display, as the kernel sees it
    childs,      \* childs_: pids the strand polls
    registers,   \* posted strand tasks that add a pid to childs_
    shutdowns,   \* posted displayShutdown tasks, how many of each
    frame,       \* displayShutdown in progress on each thread
    dbus,        \* the bus method in progress
    ended,       \* pid reaped by the strand, its session not yet looked up
    alive,       \* timer_alive_: online sessions still to check
    stop,        \* stop()
    conn,        \* what each connector has been told
    signals      \* DisplayRemoved / ShutdownConnector signals sent

vars == <<sessions, sess, freeDisplay, proc, childs, registers, shutdowns,
          frame, dbus, ended, alive, stop, conn, signals>>

-----------------------------------------------------------------------------
Displays == 1..MaxDisplay
Threads == Workers \union {Stopper}
Modes == {"Started", "Connected", "Disconnected", "Login", "Shutdown"}

MaxConnectorFailures == 3

\* the pool starts with PoolBase slots and is then resized to the limit
InitialPool == SessionsResize([i \in 1..PoolBase |-> Empty], LimitSessions)

\* how many slots the pool can come to have
PoolMax == Len(SessionsResize(InitialPool, LimitReloaded))

Session ==
    [live : BOOLEAN, user : Users \union {LoginUser}, mode : Modes,
     connectorId : Connectors \union {NoOne},
     pid1 : BOOLEAN,              \* pid1 > 0
     check : BOOLEAN,             \* Flags::SessionStatus::CheckConnection
     failures : 0..(MaxConnectorFailures + 1)]

\* running -> terminating (SIGTERM sent) -> zombie -> reaped by waitpid
ProcStates == {"none", "running", "terminating", "zombie", "reaped"}

IdleFrame == [pc |-> "idle", d |-> Empty, emit |-> FALSE]
Frame == {IdleFrame} \union
         [pc : {"mark", "remove", "announce"}, d : Displays, emit : BOOLEAN]

IdleDbus == [pc |-> "idle", d |-> Empty, c |-> NoOne]
DbusFrame == {IdleDbus} \union
    [pc : {"start", "waitpid", "publish", "online"}, d : Displays, c : Connectors] \union
    [pc : {"offline"}, d : Displays, c : {NoOne}]

IdleAlive == [pc |-> "idle", d |-> Empty, todo |-> {}]
AliveFrame == [pc : {"idle", "loop", "offline"},
               d : Displays \union {Empty}, todo : SUBSET Displays]

StopFrame == [pc : {"off", "loop", "wait", "reap", "done"},
              seen : SUBSET Displays, todo : SUBSET Displays]

Conn == [pc : {"new", "login", "granted", "switched", "user", "gone"},
         login : Displays \union {Empty}, display : Displays \union {Empty}]

Pooled(d) == d \in ValidSessions(sessions)
PoolUsers == {sess[d].user : d \in ValidSessions(sessions)}
ModeIn(d, S) == sess[d].mode \in S

\* who holds a shared_ptr to the session
Held(d) ==
    \/ Pooled(d)
    \/ \E e \in BOOLEAN : shutdowns[d][e] > 0
    \/ \E t \in Threads : frame[t].d = d
    \/ dbus.d = d
    \/ alive.d = d \/ d \in alive.todo
    \/ stop.pc = "loop" /\ d \in stop.seen

\* fault: kill() is never called
TerminateOmitted(p) == p

\* SIGTERM to a pid: nothing happens unless it still runs
Terminate(p) == IF p = "running" THEN "terminating" ELSE p

DbusReady == dbus.pc = "idle" /\ stop.pc \notin {"reap", "done"}
TimersOn == stop.pc \notin {"reap", "done"}

\* a connector that has ended keeps nothing
Gone == [pc |-> "gone", login |-> Empty, display |-> Empty]

PostShutdown(d, e) == shutdowns' = [shutdowns EXCEPT ![d][e] = @ + 1]

TypeOK ==
    /\ sessions \in Seq(Displays \union {Empty})
    /\ sess \in [Displays -> Session]
    /\ freeDisplay \in 1..(MaxDisplay + 1)
    /\ proc \in [Displays -> ProcStates]
    /\ childs \in SUBSET Displays
    /\ registers \in SUBSET Displays
    /\ shutdowns \in [Displays -> [BOOLEAN -> Nat]]
    /\ frame \in [Threads -> Frame]
    /\ dbus \in DbusFrame
    /\ ended \in Displays \union {Empty}
    /\ alive \in AliveFrame
    /\ stop \in StopFrame
    /\ conn \in [Connectors -> Conn]
    /\ signals \in SUBSET ({"DisplayRemoved", "ShutdownConnector"} \X Displays)

Init ==
    /\ sessions = InitialPool
    /\ sess = [d \in Displays |->
                 [live |-> FALSE, user |-> LoginUser, mode |-> "Started",
                  connectorId |-> NoOne, pid1 |-> FALSE, check |-> FALSE,
                  failures |-> 0]]
    /\ freeDisplay = 1
    /\ proc = [d \in Displays |-> "none"]
    /\ childs = {} /\ registers = {}
    /\ shutdowns = [d \in Displays |-> [e \in BOOLEAN |-> 0]]
    /\ frame = [t \in Threads |-> IdleFrame]
    /\ dbus = IdleDbus
    /\ ended = Empty
    /\ alive = IdleAlive
    /\ stop = [pc |-> "off", seen |-> {}, todo |-> {}]
    /\ conn = [c \in Connectors |->
                 [pc |-> "new", login |-> Empty, display |-> Empty]]
    /\ signals = {}

-----------------------------------------------------------------------------
(***************************************************************************)
(* Starting a session: runNewDisplaySession runs inside the bus method of  *)
(* a connector and keeps the dbus thread busy until it returns.            *)
(***************************************************************************)
\* fault: limit:sessions is not tested
LimitsAllowOverfull ==
    UsersLimit > 0 => Cardinality(PoolUsers) < UsersLimit

\* fault: limit:users is tested one too late
LimitsAllowOneMore ==
    /\ ~IsSessionsFull(sessions)
    /\ UsersLimit > 0 => Cardinality(PoolUsers) <= UsersLimit

LimitsAllow ==
    /\ ~IsSessionsFull(sessions)
    /\ UsersLimit > 0 => Cardinality(PoolUsers) < UsersLimit

\* fault: the display number is handed out again
NextDisplayStuck == freeDisplay

\* free_display_++
NextDisplay == freeDisplay + 1

\* the child is forked; the session is known to the dbus thread only
RunNewDisplaySession(c, u) ==
    /\ LimitsAllow
    /\ freeDisplay <= MaxDisplay
    /\ freeDisplay' = NextDisplay
    /\ sess' = [sess EXCEPT ![freeDisplay] =
                  [live |-> TRUE, user |-> u,
                   mode |-> IF u = LoginUser THEN "Login" ELSE "Started",
                   connectorId |-> NoOne, pid1 |-> TRUE, check |-> FALSE,
                   failures |-> 0]]
    /\ proc' = [proc EXCEPT ![freeDisplay] = "running"]
    /\ dbus' = [pc |-> "start", d |-> freeDisplay, c |-> c]
    /\ UNCHANGED conn

\* a bus method that answers -1: a connector without a login screen gives up
CallFailed(c) ==
    conn' = [conn EXCEPT ![c] = IF @.pc = "new" THEN Gone ELSE @]

\* a limit is hit, or the xauth file or the fork fails after the display
\* number was taken
NoNewDisplay(c) ==
    /\ \/ ~LimitsAllow /\ UNCHANGED freeDisplay
       \/ LimitsAllow /\ freeDisplay <= MaxDisplay /\ freeDisplay' = NextDisplay
    /\ CallFailed(c)
    /\ UNCHANGED <<sess, proc, dbus>>

BusStartLoginSession(c) ==
    /\ DbusReady
    /\ conn[c].pc = "new"
    /\ RunNewDisplaySession(c, LoginUser) \/ NoNewDisplay(c)
    /\ UNCHANGED <<sessions, childs, registers, shutdowns, frame, ended, alive,
                   stop, signals>>

\* fault: the user name is not compared
UserSessionsOfAnyone(u) ==
    {d \in ValidSessions(sessions) : sess[d].mode # "Shutdown"}

\* findUserSessions
UserSessions(u) ==
    {d \in ValidSessions(sessions) : sess[d].mode # "Shutdown" /\ sess[d].user = u}

\* busStartUserSession when the user has no session yet
StartUserSession(c, u) ==
    /\ DbusReady
    /\ conn[c].pc = "login"
    /\ Pooled(conn[c].login)
    /\ UserSessions(u) = {}
    /\ RunNewDisplaySession(c, u) \/ NoNewDisplay(c)
    /\ UNCHANGED <<sessions, childs, registers, shutdowns, frame, ended, alive,
                   stop, signals>>

\* busStartUserSession when the user has a session: its connectorId is
\* overwritten whatever its mode, provided its X server answers
ReconnectUserSession(c, u) ==
    /\ DbusReady
    /\ conn[c].pc = "login"
    /\ Pooled(conn[c].login)
    /\ UserSessions(u) # {}
    /\ LET d == LastMatch(sessions, UserSessions(u)) IN
         /\ proc[d] \in {"running", "terminating"}
         /\ sess' = [sess EXCEPT ![d].connectorId = c]
         /\ conn' = [conn EXCEPT ![c].pc = "granted", ![c].display = d]
    /\ UNCHANGED <<sessions, freeDisplay, proc, childs, registers, shutdowns,
                   frame, dbus, ended, alive, stop, signals>>

\* checkDisplaySessionStarted answered within session:start:timeout
DisplayStarted ==
    /\ dbus.pc = "start"
    /\ proc[dbus.d] = "running"
    /\ IF IsSessionsFull(sessions)
       THEN /\ CallFailed(dbus.c)
            /\ dbus' = IdleDbus
            /\ UNCHANGED sessions
       ELSE /\ sessions' = AppendNewSession(sessions, dbus.d)
            /\ dbus' = [dbus EXCEPT !.pc = "publish"]
            /\ UNCHANGED conn
    /\ UNCHANGED <<sess, freeDisplay, proc, childs, registers, shutdowns, frame,
                   ended, alive, stop, signals>>

\* the timeout passed, or the X socket could not be given to the user
DisplayNotStarted ==
    /\ dbus.pc = "start"
    /\ dbus' = [dbus EXCEPT !.pc = "waitpid"]
    /\ UNCHANGED <<sessions, sess, freeDisplay, proc, childs, registers,
                   shutdowns, frame, ended, alive, stop, conn, signals>>

\* ForkMode::waitPid: the dbus thread blocks until the child ends by itself
ReapFailedStart ==
    /\ dbus.pc = "waitpid"
    /\ proc[dbus.d] = "zombie"
    /\ proc' = [proc EXCEPT ![dbus.d] = "reaped"]
    /\ CallFailed(dbus.c)
    /\ dbus' = IdleDbus
    /\ UNCHANGED <<sessions, sess, freeDisplay, childs, registers, shutdowns,
                   frame, ended, alive, stop, signals>>

\* the rest of busStartLoginSession / busStartUserSession, after the session
\* has become visible in the pool
PublishSession ==
    /\ dbus.pc = "publish"
    /\ LET d == dbus.d
           c == dbus.c
           login == sess[d].user = LoginUser IN
         /\ registers' = registers \union {d}
         /\ sess' = [sess EXCEPT ![d].connectorId = c,
                                 ![d].mode = IF login THEN @ ELSE "Started"]
         /\ conn' = IF conn[c].pc = "gone" THEN conn
                    ELSE IF login
                    THEN [conn EXCEPT ![c].pc = "login", ![c].login = d]
                    ELSE [conn EXCEPT ![c].pc = "granted", ![c].display = d]
    /\ dbus' = IdleDbus
    /\ UNCHANGED <<sessions, freeDisplay, proc, childs, shutdowns, frame, ended,
                   alive, stop, signals>>

-----------------------------------------------------------------------------
(***************************************************************************)
(* Bus methods about a running session.  The callers are connectors and    *)
(* the administrator's tool.                                               *)
(***************************************************************************)
BusShutdownDisplay(d) ==
    /\ "admin" \in Events
    /\ DbusReady
    /\ Pooled(d)
    /\ shutdowns[d][TRUE] < MaxPending
    /\ PostShutdown(d, TRUE)
    /\ UNCHANGED <<sessions, sess, freeDisplay, proc, childs, registers, frame,
                   dbus, ended, alive, stop, conn, signals>>

\* the signal is sent for any display number, in the pool or not
BusShutdownConnector(d) ==
    /\ "admin" \in Events
    /\ DbusReady
    /\ signals' = signals \union {<<"ShutdownConnector", d>>}
    /\ UNCHANGED <<sessions, sess, freeDisplay, proc, childs, registers,
                   shutdowns, frame, dbus, ended, alive, stop, conn>>

\* onLoginSuccess: the connector has switched to the user's display and asks
\* for the login display to be shut down
ConnectorSwitch(c) ==
    /\ DbusReady
    /\ conn[c].pc = "granted"
    /\ conn' = [conn EXCEPT ![c].pc = "switched"]
    /\ IF Pooled(conn[c].login)
       THEN PostShutdown(conn[c].login, TRUE)
       ELSE UNCHANGED shutdowns
    /\ UNCHANGED <<sessions, sess, freeDisplay, proc, childs, registers, frame,
                   dbus, ended, alive, stop, signals>>

\* busConnectorConnected finds the session and takes its connectorId ...
BusConnectorConnected(c) ==
    /\ DbusReady
    /\ conn[c].pc = "switched"
    /\ conn' = [conn EXCEPT ![c].pc = "user"]
    /\ LET d == conn[c].display IN
         IF Pooled(d)
         THEN /\ sess' = [sess EXCEPT ![d].connectorId = c]
              /\ dbus' = [pc |-> "online", d |-> d, c |-> c]
         ELSE UNCHANGED <<sess, dbus>>
    /\ UNCHANGED <<sessions, freeDisplay, proc, childs, registers, shutdowns,
                   frame, ended, alive, stop, signals>>

\* ... and then sets the mode, whatever it has become meanwhile
SetOnline ==
    /\ dbus.pc = "online"
    /\ sess' = [sess EXCEPT ![dbus.d].mode = "Connected"]
    /\ dbus' = IdleDbus
    /\ UNCHANGED <<sessions, freeDisplay, proc, childs, registers, shutdowns,
                   frame, ended, alive, stop, conn, signals>>

BusConnectorAlive(c) ==
    /\ DbusReady
    /\ conn[c].pc = "user"
    /\ Pooled(conn[c].display)
    /\ sess' = [sess EXCEPT ![conn[c].display].check = FALSE,
                            ![conn[c].display].failures = 0]
    /\ UNCHANGED <<sessions, freeDisplay, proc, childs, registers, shutdowns,
                   frame, dbus, ended, alive, stop, conn, signals>>

\* busConnectorTerminated, the part common to its two callers: a login
\* screen is shut down, an online session goes on to ClearConnection, and the
\* other modes are ignored.  Which connector calls is not looked at.
GoesOffline(d) == Pooled(d) /\ ModeIn(d, {"Connected"})

\* fault: any session of a connector that ended is shut down silently
LoginScreenEndsAnyMode(d) ==
    IF Pooled(d) THEN PostShutdown(d, FALSE) ELSE UNCHANGED shutdowns

LoginScreenEnds(d) ==
    IF Pooled(d) /\ ModeIn(d, {"Login"})
    THEN PostShutdown(d, FALSE) ELSE UNCHANGED shutdowns

ClearConnection(d) ==
    sess' = [sess EXCEPT ![d].check = FALSE, ![d].connectorId = NoOne,
                         ![d].mode = "Disconnected"]

DisplayNum(c) ==
    IF conn[c].pc \in {"login", "granted"} THEN conn[c].login ELSE conn[c].display

\* ~ConnectorLtsm: the connector reports its own end
BusConnectorTerminated(c) ==
    /\ DbusReady
    /\ conn[c].pc \notin {"new", "gone"}
    /\ conn' = [conn EXCEPT ![c] = Gone]
    /\ LoginScreenEnds(DisplayNum(c))
    /\ dbus' = IF GoesOffline(DisplayNum(c))
               THEN [pc |-> "offline", d |-> DisplayNum(c), c |-> NoOne]
               ELSE dbus
    /\ UNCHANGED <<sessions, sess, freeDisplay, proc, childs, registers, frame,
                   ended, alive, stop, signals>>

SetOffline ==
    /\ dbus.pc = "offline"
    /\ ClearConnection(dbus.d)
    /\ dbus' = IdleDbus
    /\ UNCHANGED <<sessions, freeDisplay, proc, childs, registers, shutdowns,
                   frame, ended, alive, stop, conn, signals>>

\* the connector is killed or crashes, also while a call of it is served
ConnectorCrash(c) ==
    /\ "crash" \in Events
    /\ conn[c].pc # "gone"
    /\ conn' = [conn EXCEPT ![c] = Gone]
    /\ UNCHANGED <<sessions, sess, freeDisplay, proc, childs, registers,
                   shutdowns, frame, dbus, ended, alive, stop, signals>>

-----------------------------------------------------------------------------
(***************************************************************************)
(* displayShutdown on thread t: the mode test and the mode assignment are  *)
(* two steps, and the session scripts run between marking and removing.    *)
(***************************************************************************)
\* fault: a session that is offline is not shut down
BeginShutdownUnlessOffline(t, d, e) ==
    IF ModeIn(d, {"Shutdown", "Disconnected"})
    THEN UNCHANGED <<sess, frame>>
    ELSE /\ frame' = [frame EXCEPT ![t] = [pc |-> "mark", d |-> d, emit |-> e]]
         /\ UNCHANGED sess

\* fault: a session without a process is taken for one already shut down
BeginShutdownUnlessEnded(t, d, e) ==
    IF ModeIn(d, {"Shutdown"}) \/ ~sess[d].pid1
    THEN UNCHANGED <<sess, frame>>
    ELSE /\ frame' = [frame EXCEPT ![t] = [pc |-> "mark", d |-> d, emit |-> e]]
         /\ UNCHANGED sess

BeginShutdown(t, d, e) ==
    IF ModeIn(d, {"Shutdown"})
    THEN UNCHANGED <<sess, frame>>
    ELSE /\ frame' = [frame EXCEPT ![t] = [pc |-> "mark", d |-> d, emit |-> e]]
         /\ sess' = IF ModeIn(d, {"Login"}) THEN sess
                    ELSE [sess EXCEPT ![d].connectorId = NoOne]

\* fault: a task is run that nobody posted
TakeShutdownUnposted(w, d, e) ==
    /\ frame[w].pc = "idle"
    /\ Pooled(d)
    /\ shutdowns' = [shutdowns EXCEPT ![d][e] = @ - 1]
    /\ BeginShutdown(w, d, e)
    /\ UNCHANGED <<sessions, freeDisplay, proc, childs, registers, dbus, ended,
                   alive, stop, conn, signals>>

TakeShutdown(w, d, e) ==
    /\ frame[w].pc = "idle"
    /\ shutdowns[d][e] > 0
    /\ shutdowns' = [shutdowns EXCEPT ![d][e] = @ - 1]
    /\ BeginShutdown(w, d, e)
    /\ UNCHANGED <<sessions, freeDisplay, proc, childs, registers, dbus, ended,
                   alive, stop, conn, signals>>

MarkShutdown(t) ==
    /\ frame[t].pc = "mark"
    /\ sess' = [sess EXCEPT ![frame[t].d].mode = "Shutdown"]
    /\ signals' = IF frame[t].emit
                  THEN signals \union {<<"ShutdownConnector", frame[t].d>>}
                  ELSE signals
    /\ frame' = [frame EXCEPT ![t].pc = "remove"]
    /\ UNCHANGED <<sessions, freeDisplay, proc, childs, registers, shutdowns,
                   dbus, ended, alive, stop, conn>>

RemoveSession(t) ==
    /\ frame[t].pc = "remove"
    /\ sessions' = RemoveDisplaySession(sessions, frame[t].d)
    /\ frame' = [frame EXCEPT ![t].pc = "announce"]
    /\ UNCHANGED <<sess, freeDisplay, proc, childs, registers, shutdowns, dbus,
                   ended, alive, stop, conn, signals>>

\* fault: the removal is announced before it happens
AnnounceEarly(t) ==
    /\ frame[t].pc = "remove"
    /\ signals' = signals \union {<<"DisplayRemoved", frame[t].d>>}
    /\ UNCHANGED <<sessions, sess, freeDisplay, proc, childs, registers,
                   shutdowns, frame, dbus, ended, alive, stop, conn>>

AnnounceRemoved(t) ==
    /\ frame[t].pc = "announce"
    /\ signals' = signals \union {<<"DisplayRemoved", frame[t].d>>}
    /\ frame' = [frame EXCEPT ![t] = IdleFrame]
    /\ UNCHANGED <<sessions, sess, freeDisplay, proc, childs, registers,
                   shutdowns, dbus, ended, alive, stop, conn>>

\* ~XvfbSession, on the thread that drops the last reference
DestroySession(d) ==
    /\ sess[d].live
    /\ ~Held(d)
    /\ sess' = [sess EXCEPT ![d] =
                  [live |-> FALSE, user |-> @.user, mode |-> "Shutdown",
                   connectorId |-> NoOne, pid1 |-> FALSE, check |-> FALSE,
                   failures |-> 0]]
    /\ proc' = IF sess[d].pid1 THEN [proc EXCEPT ![d] = Terminate(@)] ELSE proc
    /\ UNCHANGED <<sessions, freeDisplay, childs, registers, shutdowns, frame,
                   dbus, ended, alive, stop, conn, signals>>

-----------------------------------------------------------------------------
(***************************************************************************)
(* The timers and the strand.                                              *)
(***************************************************************************)
\* timerSessionsTimeLimitAction: a lifetime or an offline limit has passed
TimeLimitPassed(d) ==
    /\ "limit" \in Events
    /\ TimersOn
    /\ Pooled(d)
    /\ shutdowns[d][TRUE] < MaxPending
    /\ PostShutdown(d, TRUE)
    /\ UNCHANGED <<sessions, sess, freeDisplay, proc, childs, registers, frame,
                   dbus, ended, alive, stop, conn, signals>>

\* timerSessionsTimeLimitAction: an online limit has passed; only the
\* connector is told to quit
OnlineLimitPassed(d) ==
    /\ "limit" \in Events
    /\ TimersOn
    /\ Pooled(d)
    /\ ModeIn(d, {"Connected"})
    /\ signals' = signals \union {<<"ShutdownConnector", d>>}
    /\ UNCHANGED <<sessions, sess, freeDisplay, proc, childs, registers,
                   shutdowns, frame, dbus, ended, alive, stop, conn>>

\* fault: the pid is lost on its way to childs_
RegisterChildLost(d) ==
    /\ ended = Empty
    /\ d \in registers
    /\ registers' = registers \ {d}
    /\ UNCHANGED <<sessions, sess, freeDisplay, proc, childs, shutdowns, frame,
                   dbus, ended, alive, stop, conn, signals>>

RegisterChild(d) ==
    /\ ended = Empty
    /\ d \in registers
    /\ registers' = registers \ {d}
    /\ childs' = childs \union {d}
    /\ UNCHANGED <<sessions, sess, freeDisplay, proc, shutdowns, frame, dbus,
                   ended, alive, stop, conn, signals>>

\* timerSessionsEndedAction: waitpid(pid, WNOHANG) returns the pid ...
ReapChild(d) ==
    /\ TimersOn
    /\ ended = Empty
    /\ d \in childs
    /\ proc[d] = "zombie"
    /\ proc' = [proc EXCEPT ![d] = "reaped"]
    /\ ended' = d
    /\ UNCHANGED <<sessions, sess, freeDisplay, childs, registers, shutdowns,
                   frame, dbus, alive, stop, conn, signals>>

\* ... and the session with this pid, if it is still in the pool, is shut down
SessionEnded ==
    /\ ended # Empty
    /\ childs' = childs \ {ended}
    /\ IF Pooled(ended) /\ sess[ended].pid1
       THEN /\ sess' = [sess EXCEPT ![ended].pid1 = FALSE]
            /\ PostShutdown(ended, TRUE)
       ELSE UNCHANGED <<sess, shutdowns>>
    /\ ended' = Empty
    /\ UNCHANGED <<sessions, freeDisplay, proc, registers, frame, dbus, alive,
                   stop, conn, signals>>

\* timerSessionsCheckConnectedAction: the sessions online now ...
AliveBegin ==
    /\ "ping" \in Events
    /\ TimersOn
    /\ alive.pc = "idle"
    /\ LET online == {d \in ValidSessions(sessions) : ModeIn(d, {"Connected"})} IN
         /\ online # {}
         /\ alive' = [pc |-> "loop", d |-> Empty, todo |-> online]
    /\ UNCHANGED <<sessions, sess, freeDisplay, proc, childs, registers,
                   shutdowns, frame, dbus, ended, stop, conn, signals>>

AliveRest(d) ==
    IF alive.todo = {d} THEN IdleAlive
    ELSE [pc |-> "loop", d |-> Empty, todo |-> alive.todo \ {d}]

\* fault: an unanswered ping is not counted
OneMoreForgotten(n) == n

\* the failure counter only matters up to the limit
OneMore(n) == IF n > MaxConnectorFailures THEN n ELSE n + 1

\* ... are pinged, unless the last ping is still unanswered
AlivePing(d) ==
    /\ alive.pc = "loop"
    /\ d \in alive.todo
    /\ ~sess[d].check
    /\ sess' = [sess EXCEPT ![d].check = TRUE]
    /\ alive' = AliveRest(d)
    /\ UNCHANGED <<sessions, freeDisplay, proc, childs, registers, shutdowns,
                   frame, dbus, ended, stop, conn, signals>>

AliveMissed(d) ==
    /\ alive.pc = "loop"
    /\ d \in alive.todo
    /\ sess[d].check
    /\ LET n == OneMore(sess[d].failures)
           over == n > MaxConnectorFailures IN
         /\ sess' = [sess EXCEPT ![d].failures = n, ![d].check = over]
         /\ IF over THEN LoginScreenEnds(d) ELSE UNCHANGED shutdowns
         /\ alive' = IF over /\ GoesOffline(d)
                     THEN [alive EXCEPT !.pc = "offline", !.d = d]
                     ELSE AliveRest(d)
    /\ UNCHANGED <<sessions, freeDisplay, proc, childs, registers, frame, dbus,
                   ended, stop, conn, signals>>

AliveOffline ==
    /\ alive.pc = "offline"
    /\ ClearConnection(alive.d)
    /\ alive' = AliveRest(alive.d)
    /\ UNCHANGED <<sessions, freeDisplay, proc, childs, registers, shutdowns,
                   frame, dbus, ended, stop, conn, signals>>

\* configReloadedEvent with a larger limit:sessions
ConfigReloaded ==
    /\ "reload" \in Events
    /\ Len(sessions) < LimitReloaded
    /\ sessions' = SessionsResize(sessions, LimitReloaded)
    /\ UNCHANGED <<sess, freeDisplay, proc, childs, registers, shutdowns, frame,
                   dbus, ended, alive, stop, conn, signals>>

\* the session process ends: because of SIGTERM, or by itself when the user
\* logs out or it crashes (and when a display never comes up)
ProcEnds(d) ==
    /\ proc' = [proc EXCEPT ![d] = "zombie"]
    /\ UNCHANGED <<sessions, sess, freeDisplay, childs, registers, shutdowns,
                   frame, dbus, ended, alive, stop, conn, signals>>

ProcTerminated(d) == proc[d] = "terminating" /\ ProcEnds(d)

ProcExits(d) ==
    /\ proc[d] = "running"
    /\ "exit" \in Events \/ (dbus.pc = "waitpid" /\ dbus.d = d)
    /\ ProcEnds(d)

-----------------------------------------------------------------------------
(***************************************************************************)
(* stop(): shut down the sessions found now, wait until the pool is empty, *)
(* leave the event loop, then kill and reap what is left in childs_.       *)
(***************************************************************************)
StopBegin ==
    /\ "stop" \in Events
    /\ stop.pc = "off"
    /\ stop' = [pc |-> "loop", seen |-> ValidSessions(sessions),
                todo |-> ValidSessions(sessions)]
    /\ UNCHANGED <<sessions, sess, freeDisplay, proc, childs, registers,
                   shutdowns, frame, dbus, ended, alive, conn, signals>>

StopSession(d) ==
    /\ stop.pc = "loop"
    /\ frame[Stopper].pc = "idle"
    /\ d \in stop.todo
    /\ stop' = [stop EXCEPT !.todo = @ \ {d}]
    /\ BeginShutdown(Stopper, d, TRUE)
    /\ UNCHANGED <<sessions, freeDisplay, proc, childs, registers, shutdowns,
                   dbus, ended, alive, conn, signals>>

StopLoopDone ==
    /\ stop.pc = "loop"
    /\ stop.todo = {}
    /\ frame[Stopper].pc = "idle"
    /\ stop' = [stop EXCEPT !.pc = "wait"]
    /\ UNCHANGED <<sessions, sess, freeDisplay, proc, childs, registers,
                   shutdowns, frame, dbus, ended, alive, conn, signals>>

StopKill ==
    /\ stop.pc = "wait"
    /\ ValidSessions(sessions) = {}
    /\ stop' = [stop EXCEPT !.pc = "reap"]
    /\ proc' = [d \in Displays |-> IF d \in childs THEN Terminate(proc[d]) ELSE proc[d]]
    /\ UNCHANGED <<sessions, sess, freeDisplay, childs, registers, shutdowns,
                   frame, dbus, ended, alive, conn, signals>>

StopReap ==
    /\ stop.pc = "reap"
    /\ \A d \in childs : proc[d] \in {"zombie", "reaped"}
    /\ stop' = [stop EXCEPT !.pc = "done"]
    /\ proc' = [d \in Displays |-> IF d \in childs THEN "reaped" ELSE proc[d]]
    /\ childs' = {}
    /\ UNCHANGED <<sessions, sess, freeDisplay, registers, shutdowns, frame,
                   dbus, ended, alive, conn, signals>>

-----------------------------------------------------------------------------
ConnectorStep(c) ==
    \/ BusStartLoginSession(c)
    \/ \E u \in Users : StartUserSession(c, u) \/ ReconnectUserSession(c, u)
    \/ ConnectorSwitch(c)
    \/ BusConnectorConnected(c)
    \/ BusConnectorAlive(c)
    \/ BusConnectorTerminated(c)
    \/ ConnectorCrash(c)

\* what the dbus thread does once it has accepted a call
DbusStep ==
    \/ DisplayStarted \/ DisplayNotStarted \/ ReapFailedStart
    \/ PublishSession \/ SetOnline \/ SetOffline

ShutdownStep(t) == MarkShutdown(t) \/ RemoveSession(t) \/ AnnounceRemoved(t)

WorkerStep(w) ==
    \/ \E d \in Displays, e \in BOOLEAN : TakeShutdown(w, d, e)
    \/ ShutdownStep(w)

StrandStep ==
    \/ \E d \in Displays : RegisterChild(d) \/ ReapChild(d)
    \/ SessionEnded

AliveStep ==
    \/ AliveBegin \/ AliveOffline
    \/ \E d \in Displays : AlivePing(d) \/ AliveMissed(d)

StopStep ==
    \/ ShutdownStep(Stopper)
    \/ \E d \in Displays : StopSession(d)
    \/ StopLoopDone \/ StopKill \/ StopReap

Environment ==
    \/ \E d \in Displays : BusShutdownDisplay(d) \/ BusShutdownConnector(d)
    \/ \E d \in Displays : TimeLimitPassed(d) \/ OnlineLimitPassed(d)
    \/ \E d \in Displays : ProcTerminated(d) \/ ProcExits(d)
    \/ ConfigReloaded
    \/ StopBegin

Next ==
    \/ \E c \in Connectors : ConnectorStep(c)
    \/ DbusStep
    \/ \E w \in Workers : WorkerStep(w)
    \/ StrandStep
    \/ AliveStep
    \/ StopStep
    \/ \E d \in Displays : DestroySession(d)
    \/ Environment

Spec == Init /\ [][Next]_vars

\* every thread that can go on does so, timers fire again and again, and a
\* process that was sent SIGTERM ends; connectors, the administrator, users
\* logging out and display start-up promise nothing
Fairness ==
    /\ WF_vars(DbusStep)
    /\ \A w \in Workers : WF_vars(WorkerStep(w))
    /\ WF_vars(StrandStep) /\ WF_vars(AliveStep) /\ WF_vars(StopStep)
    /\ \A d \in Displays : WF_vars(DestroySession(d)) /\ WF_vars(ProcTerminated(d))

FairSpec == Spec /\ Fairness

-----------------------------------------------------------------------------
(***************************************************************************)
(* Correctness.                                                            *)
(***************************************************************************)
\* appendNewSession never finds the pool full: the slot that isSessionsFull
\* saw is still free when the display has started seconds later, although
\* workers, timers and a config reload changed the pool in between
StartingHasSlot == dbus.pc = "start" => ~IsSessionsFull(sessions)

\* limit:sessions bounds the sessions in the pool, as the configuration says.
\* It does not: the pool is constructed with PoolBase slots and sessionsResize
\* never shrinks it, so a smaller limit has no effect.
SessionsWithinLimit == Cardinality(ValidSessions(sessions)) <= LimitSessions

\* limit:users holds at every moment, not only when it is tested: the number
\* of different users with a session in the pool stays within the limit
UsersWithinLimit == UsersLimit > 0 => Cardinality(PoolUsers) <= UsersLimit

\* displayShutdown sends DisplayRemoved after the display has left the pool,
\* also when two threads shut the same session down at once
RemovedIsOutOfPool ==
    \A d \in Displays : <<"DisplayRemoved", d>> \in signals => ~Pooled(d)

\* a user's connector is told to quit before the display is reported removed;
\* only login screens are shut down silently (emitSignal = false)
UserRemovalWasSignalled ==
    \A d \in Displays :
        /\ <<"DisplayRemoved", d>> \in signals
        /\ sess[d].user # LoginUser
        => <<"ShutdownConnector", d>> \in signals

\* the process of a session is never forgotten: when the session object is
\* gone its process has been sent SIGTERM or has ended
NoRunawayProcess ==
    \A d \in Displays : proc[d] = "running" => sess[d].live /\ sess[d].pid1

\* no zombie is left behind: until stop() reaps, the pid of every session
\* that reached the pool is polled, about to be polled, or already reaped
Reapable(d) ==
    \/ proc[d] \in {"none", "reaped"}
    \/ d \in childs \union registers
    \/ dbus.d = d

ChildrenAccountedFor ==
    stop.pc \notin {"reap", "done"} => \A d \in Displays : Reapable(d)

\* users and processes leave by the way of displayShutdown only, and all that
\* the session started goes with them
ProcessesAccounted ==
    UserRemovalWasSignalled /\ NoRunawayProcess /\ ChildrenAccountedFor

\* a login screen is never online or offline: busConnectorConnected is only
\* called for displays that findUserSessions returned
LoginScreenModes ==
    \A d \in Displays : sess[d].live =>
        IF sess[d].user = LoginUser
        THEN ModeIn(d, {"Login", "Shutdown"})
        ELSE ~ModeIn(d, {"Login"})

\* what the user limit and busStartUserSession promise of the sessions in the
\* pool, whoever asks for one meanwhile
LimitsHold == UsersWithinLimit /\ LoginScreenModes

\* a shutdown that was requested or begun takes the session out of the pool,
\* whatever the bus methods and the other threads do to its mode meanwhile
ShutdownRequested(d) ==
    \/ \E e \in BOOLEAN : shutdowns[d][e] > 0
    \/ \E t \in Threads : frame[t].d = d

ShutdownCompletes == \A d \in Displays : ShutdownRequested(d) ~> ~Pooled(d)

\* a session whose process has ended leaves the pool (timerSessionsEndedAction
\* finds it by pid and shuts it down), unless stop() is already reaping
EndedSessionRemoved ==
    \A d \in Displays :
        (proc[d] = "zombie" /\ Pooled(d)) ~> (~Pooled(d) \/ ~TimersOn)

\* every way to the end of a session ends it: a request to shut down, and the
\* end of the user's session process
SessionsEnd == ShutdownCompletes /\ EndedSessionRemoved

\* a session does not stay online without a connector: when every connector
\* it was given to has died without a word, unanswered pings end it
Attached(c, d) ==
    conn[c].pc \in {"granted", "switched", "user"} /\ conn[c].display = d

Abandoned(d) ==
    Pooled(d) /\ ModeIn(d, {"Connected"}) /\ \A c \in Connectors : ~Attached(c, d)

AbandonedGoesOffline == \A d \in Displays : Abandoned(d) ~> ~Abandoned(d)

\* while a connector is served by a session, connectorId holds a connector's
\* pid.  It does not: busConnectorTerminated never looks at the id it is given,
\* so when two connectors share a session, or the new one has overtaken the
\* old one, the first to leave clears it and puts the session offline for both.
ConnectorIdIsPid ==
    \A c \in Connectors :
        LET d == conn[c].display IN
          conn[c].pc = "user" /\ dbus.pc = "idle" /\ Pooled(d) /\ ~ShutdownRequested(d)
          => sess[d].connectorId # NoOne

\* stop() ends, unless a session came into the pool after stop() had taken
\* its list (that session is nobody's to shut down)
StopEnds ==
    (stop.pc # "off") ~>
        (stop.pc = "done" \/ ValidSessions(sessions) \ stop.seen # {})

(***************************************************************************)
(* The inductive invariant behind RemovedIsOutOfPool, StartingHasSlot and  *)
(* the refinement: only displays that have been through appendNewSession   *)
(* are known to the threads that remove, announce or look up sessions, so  *)
(* none of them can meet the display that is being started.                *)
(***************************************************************************)
SlotsDistinct == OneSlotEach(sessions)

Starting(d) == dbus.pc \in {"start", "waitpid"} /\ dbus.d = d
Known(d) == d < freeDisplay /\ ~Starting(d)

KnownOnly ==
    /\ \A d \in Displays : Pooled(d) => Known(d)
    /\ \A d \in Displays, e \in BOOLEAN : shutdowns[d][e] > 0 => Known(d)
    /\ \A t \in Threads : frame[t].pc # "idle" =>
          frame[t].d \in Displays /\ Known(frame[t].d)
    /\ \A d \in stop.todo : Known(d)
    /\ \A d \in Displays : <<"DisplayRemoved", d>> \in signals => Known(d)
    /\ dbus.pc # "idle" => dbus.d \in Displays /\ dbus.d < freeDisplay

AnnouncedOutOfPool ==
    /\ \A t \in Threads : frame[t].pc = "announce" => ~Pooled(frame[t].d)
    /\ RemovedIsOutOfPool

PoolInv == SlotsDistinct /\ KnownOnly /\ AnnouncedOutOfPool /\ StartingHasSlot

\* the service implements SessionLifecycle
StageOf(d) ==
    IF Pooled(d) THEN "pooled"
    ELSE IF dbus.pc \in {"start", "waitpid"} /\ dbus.d = d THEN "starting"
    ELSE IF d < freeDisplay THEN "over" ELSE "unused"

Lifecycle == INSTANCE SessionLifecycle WITH
    stage <- [d \in Displays |-> StageOf(d)],
    announced <- {d \in Displays : <<"DisplayRemoved", d>> \in signals}

\* every step of the threads is a step, or no step, of SessionLifecycle
ImplementsLifecycle == Lifecycle!LifecycleSpec
=============================================================================
