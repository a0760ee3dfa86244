-------------------------- MODULE LtsmServiceProofs --------------------------
(***************************************************************************)
(* Theorems about LtsmService, for any number of users, connectors, pool   *)
(* threads, slots and displays.                                            *)
(***************************************************************************)
EXTENDS LtsmService, SequenceTheorems, WellFoundedInduction, TLAPS

(***************************************************************************)
(* The pool operators.                                                     *)
(***************************************************************************)
\* writing one slot leaves a pool of the same length
LEMMA ExceptIsPool ==
    ASSUME NEW S, NEW pool \in Seq(S), NEW k, NEW v \in S
    PROVE  /\ [pool EXCEPT ![k] = v] \in Seq(S)
           /\ DOMAIN [pool EXCEPT ![k] = v] = DOMAIN pool
<1>1. CASE k \in 1..Len(pool)
  BY <1>1, ExceptSeq
<1>2. CASE k \notin 1..Len(pool)
  <2>1. [pool EXCEPT ![k] = v] = pool
    BY <1>2, LenProperties
  <2> QED BY <2>1
<1> QED BY <1>1, <1>2

\* a display that has a slot has a first slot
LEMMA FirstSlotExists ==
    ASSUME NEW pool \in Seq(Displays \union {Empty}), NEW d, Holds(pool, d)
    PROVE  /\ FirstSlot(pool, d) \in DOMAIN pool
           /\ pool[FirstSlot(pool, d)] = d
<1>1. SlotsOf(pool, d) \subseteq Nat /\ SlotsOf(pool, d) # {}
  BY LenProperties DEF SlotsOf, Holds
<1>2. PICK i \in SlotsOf(pool, d) :
         \A j \in SlotsOf(pool, d) : ~ (<<j, i>> \in OpToRel(<, Nat))
  BY <1>1, NatLessThanWellFounded, WFMin
<1>3. \A j \in SlotsOf(pool, d) : ~ (j < i)
  <2>1. SUFFICES ASSUME NEW j \in SlotsOf(pool, d), j < i PROVE FALSE
    OBVIOUS
  <2>2. <<j, i>> \in Nat \X Nat /\ <<j, i>>[1] < <<j, i>>[2]
    BY <1>1, <2>1
  <2>3. <<j, i>> \in OpToRel(<, Nat)
    BY <2>2, Zenon DEF OpToRel
  <2> QED BY <1>2, <2>3, Zenon
<1>4. FirstSlot(pool, d) \in SlotsOf(pool, d)
  BY <1>1, <1>3 DEF FirstSlot
<1> QED BY <1>4 DEF SlotsOf

\* a set of slots has a last one
LEMMA LastMatchExists ==
    ASSUME NEW pool \in Seq(Displays \union {Empty}), NEW S,
           S \subseteq ValidSessions(pool), S # {}
    PROVE  LastMatch(pool, S) \in S
<1> DEFINE M == {i \in DOMAIN pool : pool[i] \in S}
           T == {Len(pool) - i : i \in M}
<1>0. Len(pool) \in Nat /\ DOMAIN pool = 1..Len(pool)
  BY LenProperties
<1>1. T \subseteq Nat /\ T # {}
  <2>1. M # {}
    BY DEF ValidSessions
  <2>2. \A i \in M : Len(pool) - i \in Nat
    BY <1>0
  <2> QED BY <2>1, <2>2
<1>2. PICK x \in T : \A y \in T : ~ (<<y, x>> \in OpToRel(<, Nat))
  <2> HIDE DEF T
  <2> QED BY <1>1, NatLessThanWellFounded, WFMin
<1>3. \A y \in T : ~ (y < x)
  <2>1. SUFFICES ASSUME NEW y \in T, y < x PROVE FALSE
    OBVIOUS
  <2>2. <<y, x>> \in Nat \X Nat /\ <<y, x>>[1] < <<y, x>>[2]
    BY <1>1, <2>1
  <2>3. <<y, x>> \in OpToRel(<, Nat)
    BY <2>2, Zenon DEF OpToRel
  <2> QED BY <1>2, <2>3, Zenon
<1>4. PICK i \in M : x = Len(pool) - i
  OBVIOUS
<1>5. \A j \in M : j <= i
  <2>1. SUFFICES ASSUME NEW j \in M PROVE j <= i
    OBVIOUS
  <2>2. ~ (Len(pool) - j < Len(pool) - i)
    BY <1>3, <1>4
  <2> QED BY <1>0, <2>2
<1> QED BY <1>0, <1>5 DEF LastMatch


\* the pool operators keep a pool a pool
LEMMA WritesArePools ==
    ASSUME NEW pool \in Seq(Displays \union {Empty}), NEW d \in Displays
    PROVE  /\ AppendNewSession(pool, d) \in Seq(Displays \union {Empty})
           /\ RemoveDisplaySession(pool, d) \in Seq(Displays \union {Empty})
<1>1. \A k, v : v \in Displays \union {Empty} =>
        [pool EXCEPT ![k] = v] \in Seq(Displays \union {Empty})
  BY ExceptIsPool
<1> QED BY <1>1 DEF AppendNewSession, RemoveDisplaySession

\* a resized pool is a pool of at least the old length, the old slots kept
LEMMA ResizeIsPool ==
    ASSUME NEW pool \in Seq(Displays \union {Empty}), NEW n \in Nat
    PROVE  /\ SessionsResize(pool, n) \in Seq(Displays \union {Empty})
           /\ Len(SessionsResize(pool, n)) >= Len(pool)
           /\ \A i \in 1..Len(SessionsResize(pool, n)) :
                SessionsResize(pool, n)[i] = IF i <= Len(pool) THEN pool[i] ELSE Empty
<1> DEFINE grown == [i \in 1..n |-> IF i <= Len(pool) THEN pool[i] ELSE Empty]
<1>1. \A i \in 1..n :
        (IF i <= Len(pool) THEN pool[i] ELSE Empty) \in Displays \union {Empty}
  BY LenProperties, ElementOfSeq
<1>2. grown \in Seq(Displays \union {Empty})
  BY <1>1, IsASeq
<1>3. Len(grown) = n
  BY <1>2, LenProperties
<1>4. Len(pool) \in Nat
  BY LenProperties
<1>5. CASE n > Len(pool)
  <2>1. SessionsResize(pool, n) = grown
    BY <1>5 DEF SessionsResize
  <2> QED BY <1>2, <1>3, <1>4, <1>5, <2>1
<1>6. CASE ~ (n > Len(pool))
  <2>1. SessionsResize(pool, n) = pool
    BY <1>6 DEF SessionsResize
  <2> QED BY <1>4, <2>1
<1> QED BY <1>5, <1>6

\* the sessions found in a pool are displays
LEMMA ValidAreDisplays ==
    ASSUME NEW pool \in Seq(Displays \union {Empty})
    PROVE  ValidSessions(pool) \subseteq Displays
  BY ElementOfSeq, LenProperties DEF ValidSessions, Empty

-----------------------------------------------------------------------------
(***************************************************************************)
(* Type correctness.                                                       *)
(***************************************************************************)
\* the pool is a pool before the first session
LEMMA InitialPoolType == InitialPool \in Seq(Displays \union {Empty})
<1>1. [i \in 1..PoolBase |-> Empty] \in Seq(Displays \union {Empty})
  BY ServiceAssumption, IsASeq
<1> QED BY <1>1, ResizeIsPool, ServiceAssumption DEF InitialPool

\* every initial state has the right types
LEMMA InitType == Init => TypeOK
<1> USE DEF Session, Frame, IdleFrame, DbusFrame, IdleDbus, AliveFrame, IdleAlive,
            StopFrame, Conn, ProcStates, Modes, Threads, MaxConnectorFailures
<1> QED BY InitialPoolType, ServiceAssumption DEF Init, TypeOK, Displays

\* the fields of the records may be updated one by one
LEMMA SessionFields ==
    ASSUME NEW s \in Session
    PROVE  /\ \A m \in Modes : [s EXCEPT !.mode = m] \in Session
           /\ \A c \in Connectors \union {NoOne} :
                [s EXCEPT !.connectorId = c] \in Session
           /\ \A b \in BOOLEAN : [s EXCEPT !.pid1 = b] \in Session
           /\ \A b \in BOOLEAN : [s EXCEPT !.check = b] \in Session
           /\ \A n \in 0..(MaxConnectorFailures + 1) :
                [s EXCEPT !.failures = n] \in Session
           /\ [s EXCEPT !.failures = OneMore(s.failures)] \in Session
           /\ [s EXCEPT !.failures = 0] \in Session
           /\ s.user \in Users \union {LoginUser}
  BY DEF Session, OneMore, MaxConnectorFailures

\* what a destroyed session leaves behind
LEMMA DestroyedSession ==
    ASSUME NEW s \in Session
    PROVE  [live |-> FALSE, user |-> s.user, mode |-> "Shutdown",
            connectorId |-> NoOne, pid1 |-> FALSE, check |-> FALSE,
            failures |-> 0] \in Session
  BY DEF Session, Modes, MaxConnectorFailures

LEMMA ConnFields ==
    ASSUME NEW k \in Conn
    PROVE  /\ \A p \in {"new", "login", "granted", "switched", "user", "gone"} :
                [k EXCEPT !.pc = p] \in Conn
           /\ \A d \in Displays : [k EXCEPT !.login = d] \in Conn
           /\ \A d \in Displays : [k EXCEPT !.display = d] \in Conn
           /\ Gone \in Conn
  BY DEF Conn, Gone

LEMMA FrameFields ==
    /\ IdleFrame \in Frame
    /\ \A p \in {"mark", "remove", "announce"}, d \in Displays, e \in BOOLEAN :
         [pc |-> p, d |-> d, emit |-> e] \in Frame
    /\ \A f \in Frame, p \in {"mark", "remove", "announce"} :
         f.pc # "idle" => [f EXCEPT !.pc = p] \in Frame
  BY DEF Frame, IdleFrame

LEMMA DbusFields ==
    /\ IdleDbus \in DbusFrame
    /\ \A p \in {"start", "waitpid", "publish", "online"}, d \in Displays,
          c \in Connectors : [pc |-> p, d |-> d, c |-> c] \in DbusFrame
    /\ \A d \in Displays : [pc |-> "offline", d |-> d, c |-> NoOne] \in DbusFrame
    /\ \A f \in DbusFrame, p \in {"start", "waitpid", "publish", "online"} :
         f.pc \notin {"idle", "offline"} => [f EXCEPT !.pc = p] \in DbusFrame
  BY DEF DbusFrame, IdleDbus
\* posting a shutdown keeps the counters
LEMMA PostType ==
    ASSUME shutdowns \in [Displays -> [BOOLEAN -> Nat]], NEW d, NEW e \in BOOLEAN,
           \/ PostShutdown(d, e)
           \/ LoginScreenEnds(d)
           \/ UNCHANGED shutdowns
    PROVE  shutdowns' \in [Displays -> [BOOLEAN -> Nat]]
<1> DEFINE more(b) == [shutdowns[d] EXCEPT ![b] = shutdowns[d][b] + 1]
<1>1. \A b \in BOOLEAN : d \in Displays => more(b) \in [BOOLEAN -> Nat]
  OBVIOUS
<1>2. \A b \in BOOLEAN :
        [shutdowns EXCEPT ![d] = more(b)] \in [Displays -> [BOOLEAN -> Nat]]
  <2> HIDE DEF more
  <2> QED BY <1>1
<1>3. \A b \in BOOLEAN : PostShutdown(d, b) =>
        shutdowns' \in [Displays -> [BOOLEAN -> Nat]]
  BY <1>2 DEF PostShutdown
<1> QED BY <1>3 DEF LoginScreenEnds

\* entering displayShutdown keeps the types
LEMMA BeginType ==
    ASSUME TypeOK, NEW t \in Threads, NEW d \in Displays, NEW e \in BOOLEAN,
           BeginShutdown(t, d, e)
    PROVE  sess' \in [Displays -> Session] /\ frame' \in [Threads -> Frame]
<1>1. sess \in [Displays -> Session] /\ frame \in [Threads -> Frame]
  BY DEF TypeOK
<1>2. [sess EXCEPT ![d].connectorId = NoOne] \in [Displays -> Session]
  BY <1>1, SessionFields
<1>3. [frame EXCEPT ![t] = [pc |-> "mark", d |-> d, emit |-> e]]
        \in [Threads -> Frame]
  BY <1>1, FrameFields
<1> QED BY <1>1, <1>2, <1>3 DEF BeginShutdown

\* starting a session keeps the types
LEMMA RunNewType ==
    ASSUME TypeOK, NEW c \in Connectors, NEW u \in Users \union {LoginUser},
           RunNewDisplaySession(c, u) \/ NoNewDisplay(c)
    PROVE  /\ sess' \in [Displays -> Session]
           /\ freeDisplay' \in 1..(MaxDisplay + 1)
           /\ proc' \in [Displays -> ProcStates]
           /\ dbus' \in DbusFrame
           /\ conn' \in [Connectors -> Conn]
<1> USE ServiceAssumption
<1> USE DEF TypeOK, Displays, NextDisplay
<1>1. CASE RunNewDisplaySession(c, u)
  <2>1. freeDisplay \in Displays /\ freeDisplay' \in 1..(MaxDisplay + 1)
    BY <1>1 DEF RunNewDisplaySession
  <2>2. sess' \in [Displays -> Session]
    BY <1>1, <2>1 DEF RunNewDisplaySession, Session, Modes, MaxConnectorFailures
  <2>3. dbus' \in DbusFrame
    BY <1>1, <2>1 DEF RunNewDisplaySession, DbusFrame
  <2>4. proc' \in [Displays -> ProcStates] /\ conn' \in [Connectors -> Conn]
    BY <1>1, <2>1 DEF RunNewDisplaySession, ProcStates
  <2> QED BY <2>1, <2>2, <2>3, <2>4
<1>2. CASE NoNewDisplay(c)
  <2>1. conn' \in [Connectors -> Conn]
    BY <1>2 DEF NoNewDisplay, CallFailed, Gone, Conn
  <2> QED BY <1>2, <2>1 DEF NoNewDisplay
<1> QED BY <1>1, <1>2

\* a frame in progress is about a display
LEMMA FrameHasDisplay ==
    ASSUME TypeOK, NEW t \in Threads, frame[t].pc # "idle"
    PROVE  frame[t].d \in Displays
  BY DEF TypeOK, Frame, IdleFrame

\* a bus method in progress is about a display
LEMMA DbusHasDisplay ==
    ASSUME TypeOK, dbus.pc # "idle"
    PROVE  /\ dbus.d \in Displays
           /\ dbus.pc # "offline" => dbus.c \in Connectors
  BY DEF TypeOK, DbusFrame, IdleDbus

\* every action keeps the types
LEMMA NextType == TypeOK /\ [Next]_vars => TypeOK'
<1> SUFFICES ASSUME TypeOK, [Next]_vars PROVE TypeOK'
  OBVIOUS
<1>sessions. sessions \in Seq(Displays \union {Empty})
  BY DEF TypeOK
<1>sess. sess \in [Displays -> Session]
  BY DEF TypeOK
<1>proc. proc \in [Displays -> ProcStates]
  BY DEF TypeOK
<1>childs. childs \in SUBSET Displays
  BY DEF TypeOK
<1>registers. registers \in SUBSET Displays
  BY DEF TypeOK
<1>shutdowns. shutdowns \in [Displays -> [BOOLEAN -> Nat]]
  BY DEF TypeOK
<1>frame. frame \in [Threads -> Frame]
  BY DEF TypeOK
<1>dbus. dbus \in DbusFrame
  BY DEF TypeOK
<1>ended. ended \in Displays \union {Empty}
  BY DEF TypeOK
<1>alive. alive \in AliveFrame
  BY DEF TypeOK
<1>stop. stop \in StopFrame
  BY DEF TypeOK
<1>conn. conn \in [Connectors -> Conn]
  BY DEF TypeOK
<1>signals. signals \in SUBSET ({"DisplayRemoved", "ShutdownConnector"} \X
   Displays)
  BY DEF TypeOK
<1>1. ASSUME NEW c \in Connectors, BusStartLoginSession(c) PROVE TypeOK'
  BY <1>1, RunNewType DEF BusStartLoginSession, TypeOK
<1>2. ASSUME NEW c \in Connectors, NEW u \in Users, StartUserSession(c, u) PROVE
   TypeOK'
  BY <1>2, RunNewType DEF StartUserSession, TypeOK
<1>3. ASSUME NEW c \in Connectors, NEW u \in Users, ReconnectUserSession(c, u)
   PROVE TypeOK'
  <2>1. sess' \in [Displays -> Session]
    BY <1>3, <1>sess, SessionFields DEF ReconnectUserSession, Modes
  <2>2. LastMatch(sessions, UserSessions(u)) \in Displays
    BY <1>3, <1>sessions, LastMatchExists, ValidAreDisplays DEF
       ReconnectUserSession, UserSessions
  <2>3. conn' \in [Connectors -> Conn]
    BY <1>3, <1>conn, ConnFields, <2>2 DEF ReconnectUserSession
  <2> QED BY <1>3, <2>1, <2>3 DEF ReconnectUserSession, TypeOK
<1>4. ASSUME DisplayStarted PROVE TypeOK'
  <2>1. sessions' \in Seq(Displays \union {Empty})
    BY <1>4, <1>sessions, DbusHasDisplay, WritesArePools DEF DisplayStarted
  <2>2. dbus' \in DbusFrame
    BY <1>4, <1>dbus, DbusFields DEF DisplayStarted
  <2>3. conn' \in [Connectors -> Conn]
    BY <1>4, <1>conn, ConnFields, DbusHasDisplay DEF DisplayStarted, CallFailed,
       Gone
  <2> QED BY <1>4, <2>1, <2>2, <2>3 DEF DisplayStarted, TypeOK
<1>5. ASSUME DisplayNotStarted PROVE TypeOK'
  <2>1. dbus' \in DbusFrame
    BY <1>5, <1>dbus, DbusFields DEF DisplayNotStarted
  <2> QED BY <1>5, <2>1 DEF DisplayNotStarted, TypeOK
<1>6. ASSUME ReapFailedStart PROVE TypeOK'
  <2>1. proc' \in [Displays -> ProcStates]
    BY <1>6, <1>proc DEF ReapFailedStart, ProcStates
  <2>2. dbus' \in DbusFrame
    BY <1>6, <1>dbus, DbusFields DEF ReapFailedStart
  <2>3. conn' \in [Connectors -> Conn]
    BY <1>6, <1>conn, ConnFields DEF ReapFailedStart, CallFailed, Gone
  <2> QED BY <1>6, <2>1, <2>2, <2>3 DEF ReapFailedStart, TypeOK
<1>7. ASSUME PublishSession PROVE TypeOK'
  <2>1. registers' \in SUBSET Displays
    BY <1>7, <1>registers, DbusHasDisplay DEF PublishSession
  <2>2. sess' \in [Displays -> Session]
    <3> DEFINE m == IF sess[dbus.d].user = LoginUser
                    THEN sess[dbus.d].mode ELSE "Started"
               s1 == [sess[dbus.d] EXCEPT !.connectorId = dbus.c]
    <3>1. dbus.d \in Displays /\ dbus.c \in Connectors
      BY <1>7, DbusHasDisplay DEF PublishSession
    <3>2. s1 \in Session
      BY <1>sess, <3>1, SessionFields
    <3>3. m \in Modes
      BY <1>sess, <3>1 DEF Session, Modes
    <3>4. [s1 EXCEPT !.mode = m] \in Session
      <4> HIDE DEF s1, m
      <4> QED BY <3>2, <3>3, SessionFields
    <3>5. sess' = [sess EXCEPT ![dbus.d] = [s1 EXCEPT !.mode = m]]
      BY <1>7, <1>sess, <3>1 DEF PublishSession, Session
    <3> HIDE DEF s1, m
    <3> QED BY <1>sess, <3>4, <3>5
  <2>3. conn' \in [Connectors -> Conn]
    BY <1>7, <1>conn, ConnFields, DbusHasDisplay DEF PublishSession
  <2>4. dbus' \in DbusFrame
    BY <1>7, <1>dbus, DbusFields DEF PublishSession
  <2> QED BY <1>7, <2>1, <2>2, <2>3, <2>4 DEF PublishSession, TypeOK
<1>8. ASSUME NEW d \in Displays, BusShutdownDisplay(d) PROVE TypeOK'
  <2>1. shutdowns' \in [Displays -> [BOOLEAN -> Nat]]
    BY <1>8, <1>shutdowns, PostType DEF BusShutdownDisplay
  <2> QED BY <1>8, <2>1 DEF BusShutdownDisplay, TypeOK, PostShutdown
<1>9. ASSUME NEW c \in Connectors, ConnectorSwitch(c) PROVE TypeOK'
  <2>1. shutdowns' \in [Displays -> [BOOLEAN -> Nat]]
    BY <1>9, <1>shutdowns, PostType DEF ConnectorSwitch
  <2>2. conn' \in [Connectors -> Conn]
    BY <1>9, <1>conn, ConnFields DEF ConnectorSwitch
  <2> QED BY <1>9, <2>1, <2>2 DEF ConnectorSwitch, TypeOK
<1>10. ASSUME NEW c \in Connectors, BusConnectorConnected(c) PROVE TypeOK'
  <2>1. sess' \in [Displays -> Session]
    <3>1. [sess EXCEPT ![conn[c].display].connectorId = c] \in [Displays ->
       Session]
      BY <1>sess, SessionFields
    <3> QED BY <1>10, <1>sess, <3>1 DEF BusConnectorConnected
  <2>2. conn' \in [Connectors -> Conn]
    BY <1>10, <1>conn, ConnFields DEF BusConnectorConnected
  <2>3. dbus' \in DbusFrame
    BY <1>10, <1>dbus, DbusFields, ValidAreDisplays, <1>sessions DEF
       BusConnectorConnected, Pooled
  <2> QED BY <1>10, <2>1, <2>2, <2>3 DEF BusConnectorConnected, TypeOK
<1>11. ASSUME SetOnline PROVE TypeOK'
  <2>1. sess' \in [Displays -> Session]
    BY <1>11, <1>sess, SessionFields DEF SetOnline, Modes
  <2>2. dbus' \in DbusFrame
    BY <1>11, <1>dbus, DbusFields DEF SetOnline
  <2> QED BY <1>11, <2>1, <2>2 DEF SetOnline, TypeOK
<1>12. ASSUME NEW c \in Connectors, BusConnectorAlive(c) PROVE TypeOK'
  <2>1. sess' \in [Displays -> Session]
    BY <1>12, <1>sess, SessionFields DEF BusConnectorAlive
  <2> QED BY <1>12, <2>1 DEF BusConnectorAlive, TypeOK
<1>13. ASSUME NEW c \in Connectors, BusConnectorTerminated(c) PROVE TypeOK'
  <2>1. shutdowns' \in [Displays -> [BOOLEAN -> Nat]]
    BY <1>13, <1>shutdowns, PostType DEF BusConnectorTerminated
  <2>2. dbus' \in DbusFrame
    BY <1>13, <1>dbus, DbusFields, ValidAreDisplays, <1>sessions DEF
       BusConnectorTerminated, GoesOffline, Pooled
  <2>3. conn' \in [Connectors -> Conn]
    BY <1>13, <1>conn, ConnFields DEF BusConnectorTerminated, Gone
  <2> QED BY <1>13, <2>1, <2>2, <2>3 DEF BusConnectorTerminated, TypeOK
<1>14. ASSUME SetOffline PROVE TypeOK'
  <2>1. sess' \in [Displays -> Session]
    BY <1>14, <1>sess, SessionFields DEF SetOffline, ClearConnection, Modes
  <2>2. dbus' \in DbusFrame
    BY <1>14, <1>dbus, DbusFields DEF SetOffline
  <2> QED BY <1>14, <2>1, <2>2 DEF SetOffline, TypeOK, ClearConnection
<1>15. ASSUME NEW c \in Connectors, ConnectorCrash(c) PROVE TypeOK'
  <2>1. conn' \in [Connectors -> Conn]
    BY <1>15, <1>conn, ConnFields DEF ConnectorCrash, Gone
  <2> QED BY <1>15, <2>1 DEF ConnectorCrash, TypeOK
<1>16. ASSUME NEW w \in Threads, NEW d \in Displays, NEW e \in BOOLEAN,
   TakeShutdown(w, d, e) PROVE TypeOK'
  <2>1. shutdowns' \in [Displays -> [BOOLEAN -> Nat]]
    BY <1>16, <1>shutdowns DEF TakeShutdown
  <2>2. sess' \in [Displays -> Session]
    BY <1>16, BeginType DEF TakeShutdown
  <2>3. frame' \in [Threads -> Frame]
    BY <1>16, BeginType DEF TakeShutdown
  <2> QED BY <1>16, <2>1, <2>2, <2>3 DEF TakeShutdown, TypeOK
<1>17. ASSUME NEW t \in Threads, MarkShutdown(t) PROVE TypeOK'
  <2>1. frame[t].d \in Displays
    BY <1>17, FrameHasDisplay DEF MarkShutdown
  <2>2. sess' \in [Displays -> Session]
    BY <1>17, <1>sess, SessionFields DEF MarkShutdown, Modes
  <2>3. frame' \in [Threads -> Frame]
    BY <1>17, <1>frame, FrameFields, <2>1 DEF MarkShutdown
  <2>4. signals' \in SUBSET ({"DisplayRemoved", "ShutdownConnector"} \X Displays)
    BY <1>17, <1>signals, <2>1 DEF MarkShutdown
  <2> QED BY <1>17, <2>2, <2>3, <2>4 DEF MarkShutdown, TypeOK
<1>18. ASSUME NEW t \in Threads, RemoveSession(t) PROVE TypeOK'
  <2>1. frame[t].d \in Displays
    BY <1>18, FrameHasDisplay DEF RemoveSession
  <2>2. sessions' \in Seq(Displays \union {Empty})
    BY <1>18, <1>sessions, <2>1, WritesArePools DEF RemoveSession
  <2>3. frame' \in [Threads -> Frame]
    BY <1>18, <1>frame, FrameFields, <2>1 DEF RemoveSession
  <2> QED BY <1>18, <2>2, <2>3 DEF RemoveSession, TypeOK
<1>19. ASSUME NEW t \in Threads, AnnounceRemoved(t) PROVE TypeOK'
  <2>1. frame[t].d \in Displays
    BY <1>19, FrameHasDisplay DEF AnnounceRemoved
  <2>2. signals' \in SUBSET ({"DisplayRemoved", "ShutdownConnector"} \X Displays)
    BY <1>19, <1>signals, <2>1 DEF AnnounceRemoved
  <2>3. frame' \in [Threads -> Frame]
    BY <1>19, <1>frame, FrameFields, <2>1 DEF AnnounceRemoved
  <2> QED BY <1>19, <2>2, <2>3 DEF AnnounceRemoved, TypeOK
<1>20. ASSUME NEW d \in Displays, DestroySession(d) PROVE TypeOK'
  <2>1. sess' \in [Displays -> Session]
    BY <1>20, <1>sess, DestroyedSession DEF DestroySession
  <2>2. proc' \in [Displays -> ProcStates]
    BY <1>20, <1>proc DEF DestroySession, ProcStates, Terminate
  <2> QED BY <1>20, <2>1, <2>2 DEF DestroySession, TypeOK
<1>21. ASSUME NEW d \in Displays, TimeLimitPassed(d) PROVE TypeOK'
  <2>1. shutdowns' \in [Displays -> [BOOLEAN -> Nat]]
    BY <1>21, <1>shutdowns, PostType DEF TimeLimitPassed
  <2> QED BY <1>21, <2>1 DEF TimeLimitPassed, TypeOK, PostShutdown
<1>22. ASSUME NEW d \in Displays, RegisterChild(d) PROVE TypeOK'
  <2>1. registers' \in SUBSET Displays
    BY <1>22, <1>registers DEF RegisterChild
  <2>2. childs' \in SUBSET Displays
    BY <1>22, <1>childs DEF RegisterChild
  <2> QED BY <1>22, <2>1, <2>2 DEF RegisterChild, TypeOK
<1>23. ASSUME NEW d \in Displays, ReapChild(d) PROVE TypeOK'
  <2>1. proc' \in [Displays -> ProcStates]
    BY <1>23, <1>proc DEF ReapChild, ProcStates
  <2>2. ended' \in Displays \union {Empty}
    BY <1>23, <1>ended DEF ReapChild
  <2> QED BY <1>23, <2>1, <2>2 DEF ReapChild, TypeOK
<1>24. ASSUME SessionEnded PROVE TypeOK'
  <2>1. childs' \in SUBSET Displays
    BY <1>24, <1>childs, <1>ended DEF SessionEnded
  <2>2. sess' \in [Displays -> Session]
    <3>1. [sess EXCEPT ![ended].pid1 = FALSE] \in [Displays -> Session]
      BY <1>sess, SessionFields
    <3> QED BY <1>24, <1>sess, <3>1 DEF SessionEnded
  <2>3. shutdowns' \in [Displays -> [BOOLEAN -> Nat]]
    BY <1>24, <1>shutdowns, PostType DEF SessionEnded
  <2>4. ended' \in Displays \union {Empty}
    BY <1>24, <1>ended DEF SessionEnded
  <2> QED BY <1>24, <2>1, <2>2, <2>3, <2>4 DEF SessionEnded, TypeOK
<1>25. ASSUME AliveBegin PROVE TypeOK'
  <2>1. alive' \in AliveFrame
    BY <1>25, <1>alive, ValidAreDisplays, <1>sessions DEF AliveBegin, AliveFrame
  <2> QED BY <1>25, <2>1 DEF AliveBegin, TypeOK
<1>26. ASSUME NEW d \in Displays, AlivePing(d) PROVE TypeOK'
  <2>1. sess' \in [Displays -> Session]
    BY <1>26, <1>sess, SessionFields DEF AlivePing, Modes
  <2>2. alive' \in AliveFrame
    BY <1>26, <1>alive DEF AlivePing, AliveFrame, AliveRest, IdleAlive
  <2> QED BY <1>26, <2>1, <2>2 DEF AlivePing, TypeOK
<1>27. ASSUME NEW d \in Displays, AliveMissed(d) PROVE TypeOK'
  <2>1. sess' \in [Displays -> Session]
    <3> DEFINE n == OneMore(sess[d].failures)
               over == n > MaxConnectorFailures
    <3>1. [sess[d] EXCEPT !.failures = n] \in Session
      BY <1>sess, SessionFields
    <3>2. over \in BOOLEAN
      OBVIOUS
    <3>3. [[sess[d] EXCEPT !.failures = n] EXCEPT !.check = over] \in Session
      <4> HIDE DEF over, n
      <4> QED BY <3>1, <3>2, SessionFields
    <3>4. sess' = [sess EXCEPT ![d] =
                    [[sess[d] EXCEPT !.failures = n] EXCEPT !.check = over]]
      BY <1>27, <1>sess DEF AliveMissed
    <3> HIDE DEF over, n
    <3> QED BY <1>sess, <3>3, <3>4
  <2>2. shutdowns' \in [Displays -> [BOOLEAN -> Nat]]
    BY <1>27, <1>shutdowns, PostType DEF AliveMissed
  <2>3. alive' \in AliveFrame
    BY <1>27, <1>alive DEF AliveMissed, AliveFrame, AliveRest, IdleAlive
  <2> QED BY <1>27, <2>1, <2>2, <2>3 DEF AliveMissed, TypeOK
<1>28. ASSUME AliveOffline PROVE TypeOK'
  <2>1. sess' \in [Displays -> Session]
    BY <1>28, <1>sess, SessionFields DEF AliveOffline, ClearConnection, Modes
  <2>2. alive' \in AliveFrame
    BY <1>28, <1>alive DEF AliveOffline, AliveFrame, AliveRest, IdleAlive
  <2> QED BY <1>28, <2>1, <2>2 DEF AliveOffline, TypeOK, ClearConnection
<1>29. ASSUME ConfigReloaded PROVE TypeOK'
  <2>1. sessions' \in Seq(Displays \union {Empty})
    BY <1>29, <1>sessions, ResizeIsPool, ServiceAssumption DEF ConfigReloaded
  <2> QED BY <1>29, <2>1 DEF ConfigReloaded, TypeOK
<1>30. ASSUME NEW d \in Displays, ProcTerminated(d) PROVE TypeOK'
  <2>1. proc' \in [Displays -> ProcStates]
    BY <1>30, <1>proc DEF ProcTerminated, ProcStates, ProcEnds
  <2> QED BY <1>30, <2>1 DEF ProcTerminated, TypeOK, ProcEnds
<1>31. ASSUME NEW d \in Displays, ProcExits(d) PROVE TypeOK'
  <2>1. proc' \in [Displays -> ProcStates]
    BY <1>31, <1>proc DEF ProcExits, ProcStates, ProcEnds
  <2> QED BY <1>31, <2>1 DEF ProcExits, TypeOK, ProcEnds
<1>32. ASSUME NEW d \in Displays, BusShutdownConnector(d) PROVE TypeOK'
  <2>1. signals' \in SUBSET ({"DisplayRemoved", "ShutdownConnector"} \X Displays)
    BY <1>32, <1>signals DEF BusShutdownConnector
  <2> QED BY <1>32, <2>1 DEF BusShutdownConnector, TypeOK
<1>33. ASSUME NEW d \in Displays, OnlineLimitPassed(d) PROVE TypeOK'
  <2>1. signals' \in SUBSET ({"DisplayRemoved", "ShutdownConnector"} \X Displays)
    BY <1>33, <1>signals DEF OnlineLimitPassed
  <2> QED BY <1>33, <2>1 DEF OnlineLimitPassed, TypeOK
<1>34. ASSUME StopBegin PROVE TypeOK'
  <2>1. stop' \in StopFrame
    BY <1>34, <1>stop, ValidAreDisplays, <1>sessions DEF StopBegin, StopFrame
  <2> QED BY <1>34, <2>1 DEF StopBegin, TypeOK
<1>35. ASSUME NEW d \in Displays, StopSession(d) PROVE TypeOK'
  <2>1. stop' \in StopFrame
    BY <1>35, <1>stop DEF StopSession, StopFrame
  <2>2. sess' \in [Displays -> Session]
    BY <1>35, BeginType DEF StopSession, Threads
  <2>3. frame' \in [Threads -> Frame]
    BY <1>35, BeginType DEF StopSession, Threads
  <2> QED BY <1>35, <2>1, <2>2, <2>3 DEF StopSession, TypeOK
<1>36. ASSUME StopLoopDone PROVE TypeOK'
  <2>1. stop' \in StopFrame
    BY <1>36, <1>stop DEF StopLoopDone, StopFrame
  <2> QED BY <1>36, <2>1 DEF StopLoopDone, TypeOK
<1>37. ASSUME StopKill PROVE TypeOK'
  <2>1. stop' \in StopFrame
    BY <1>37, <1>stop DEF StopKill, StopFrame
  <2>2. proc' \in [Displays -> ProcStates]
    BY <1>37, <1>proc DEF StopKill, ProcStates, Terminate
  <2> QED BY <1>37, <2>1, <2>2 DEF StopKill, TypeOK
<1>38. ASSUME StopReap PROVE TypeOK'
  <2>1. stop' \in StopFrame
    BY <1>38, <1>stop DEF StopReap, StopFrame
  <2>2. proc' \in [Displays -> ProcStates]
    BY <1>38, <1>proc DEF StopReap, ProcStates
  <2>3. childs' \in SUBSET Displays
    BY <1>38, <1>childs DEF StopReap
  <2> QED BY <1>38, <2>1, <2>2, <2>3 DEF StopReap, TypeOK
<1>39. ASSUME UNCHANGED vars PROVE TypeOK'
  BY <1>39 DEF vars, TypeOK
<1>40. CASE \E c \in Connectors : ConnectorStep(c)
  BY <1>40, <1>1, <1>2, <1>3, <1>9, <1>10, <1>12, <1>13, <1>15 DEF ConnectorStep
<1>41. CASE DbusStep
  BY <1>41, <1>4, <1>5, <1>6, <1>7, <1>11, <1>14 DEF DbusStep
<1>42. CASE \E w \in Workers : WorkerStep(w)
  BY <1>42, <1>16, <1>17, <1>18, <1>19 DEF WorkerStep, ShutdownStep, Threads
<1>43. CASE StrandStep
  BY <1>43, <1>22, <1>23, <1>24 DEF StrandStep
<1>44. CASE AliveStep
  BY <1>44, <1>25, <1>28, <1>26, <1>27 DEF AliveStep
<1>45. CASE StopStep
  BY <1>45, <1>17, <1>18, <1>19, <1>35, <1>36, <1>37, <1>38 DEF StopStep,
     ShutdownStep, Threads
<1>46. CASE Environment
  BY <1>46, <1>8, <1>32, <1>21, <1>33, <1>30, <1>31, <1>29, <1>34 DEF Environment
<1> QED BY <1>20, <1>39, <1>40, <1>41, <1>42, <1>43, <1>44, <1>45, <1>46 DEF Next

\* every variable of the service keeps its type: counters never go below
\* zero, and every frame in progress is about a display that was handed out
THEOREM TypeCorrect == Spec => []TypeOK
<1>1. Init => TypeOK
  BY InitType
<1>2. TypeOK /\ [Next]_vars => TypeOK'
  BY NextType
<1> QED BY <1>1, <1>2, PTL DEF Spec

(***************************************************************************)
(* The pool invariant: a session being started is known to the dbus thread *)
(* only, so no other thread can remove, announce or list it, and the free  *)
(* slot that isSessionsFull saw is still free when appendNewSession needs  *)
(* it.                                                                     *)
(***************************************************************************)
(***************************************************************************)
(* What the pool operators do to the set of sessions.                      *)
(***************************************************************************)
\* appendNewSession adds the session and nothing else
LEMMA AppendAdds ==
    ASSUME NEW pool \in Seq(Displays \union {Empty}), NEW d \in Displays,
           ~IsSessionsFull(pool), OneSlotEach(pool), d \notin ValidSessions(pool)
    PROVE  /\ ValidSessions(AppendNewSession(pool, d)) = ValidSessions(pool) \union {d}
           /\ OneSlotEach(AppendNewSession(pool, d))
<1> DEFINE k == FirstSlot(pool, Empty)
           q == AppendNewSession(pool, d)
<1>1. k \in DOMAIN pool /\ pool[k] = Empty
  BY FirstSlotExists DEF IsSessionsFull, Holds, SlotsOf
<1>2. d # Empty
  BY DEF Displays, Empty
<1>3. DOMAIN q = DOMAIN pool /\ \A i \in DOMAIN q : q[i] = IF i = k THEN d ELSE pool[i]
  BY <1>1, ExceptIsPool DEF AppendNewSession
<1> HIDE DEF q, k
<1>4. ValidSessions(q) = ValidSessions(pool) \union {d}
  BY <1>1, <1>2, <1>3 DEF ValidSessions
<1>5. OneSlotEach(q)
  BY <1>1, <1>2, <1>3 DEF OneSlotEach, ValidSessions
<1> QED BY <1>4, <1>5 DEF q

\* removeDisplaySession takes out the session and nothing else
LEMMA RemoveTakesOut ==
    ASSUME NEW pool \in Seq(Displays \union {Empty}), NEW d \in Displays,
           OneSlotEach(pool)
    PROVE  /\ ValidSessions(RemoveDisplaySession(pool, d)) = ValidSessions(pool) \ {d}
           /\ OneSlotEach(RemoveDisplaySession(pool, d))
           /\ ~IsSessionsFull(pool) => ~IsSessionsFull(RemoveDisplaySession(pool, d))
<1> DEFINE k == FirstSlot(pool, d)
           q == RemoveDisplaySession(pool, d)
<1>1. CASE ~Holds(pool, d)
  <2>1. q = pool /\ d \notin ValidSessions(pool)
    BY <1>1 DEF RemoveDisplaySession, Holds, SlotsOf, ValidSessions
  <2> QED BY <2>1
<1>2. CASE Holds(pool, d)
  <2>1. k \in DOMAIN pool /\ pool[k] = d
    BY <1>2, FirstSlotExists
  <2>2. d # Empty
    BY DEF Displays, Empty
  <2>3. DOMAIN q = DOMAIN pool /\ \A i \in DOMAIN q : q[i] = IF i = k THEN Empty ELSE pool[i]
    BY <1>2, <2>1, ExceptIsPool DEF RemoveDisplaySession
  <2> HIDE DEF q, k
  <2>4. \A i \in DOMAIN pool : pool[i] = d => i = k
    BY <2>1, <2>2 DEF OneSlotEach
  <2>5. ValidSessions(q) = ValidSessions(pool) \ {d}
    BY <2>1, <2>2, <2>3, <2>4 DEF ValidSessions
  <2>6. OneSlotEach(q)
    BY <2>1, <2>3 DEF OneSlotEach
  <2>7. ~IsSessionsFull(q)
    BY <2>1, <2>3 DEF IsSessionsFull
  <2> QED BY <2>5, <2>6, <2>7 DEF q
<1> QED BY <1>1, <1>2

\* sessionsResize keeps the sessions and never fills the pool
LEMMA ResizeKeeps ==
    ASSUME NEW pool \in Seq(Displays \union {Empty}), NEW n \in Nat,
           OneSlotEach(pool)
    PROVE  /\ ValidSessions(SessionsResize(pool, n)) = ValidSessions(pool)
           /\ OneSlotEach(SessionsResize(pool, n))
           /\ ~IsSessionsFull(pool) => ~IsSessionsFull(SessionsResize(pool, n))
<1> DEFINE q == SessionsResize(pool, n)
<1>1. /\ DOMAIN q = 1..Len(q) /\ Len(q) \in Nat
      /\ DOMAIN pool = 1..Len(pool) /\ Len(pool) \in Nat
      /\ Len(q) >= Len(pool)
  BY ResizeIsPool, LenProperties
<1>2. \A i \in DOMAIN q : q[i] = IF i \in DOMAIN pool THEN pool[i] ELSE Empty
  BY <1>1, ResizeIsPool
<1>3. DOMAIN pool \subseteq DOMAIN q
  BY <1>1
<1> HIDE DEF q
<1>4. ValidSessions(q) = ValidSessions(pool)
  BY <1>2, <1>3 DEF ValidSessions
<1>5. OneSlotEach(q)
  BY <1>2, <1>3 DEF OneSlotEach
<1>6. ~IsSessionsFull(pool) => ~IsSessionsFull(q)
  BY <1>2, <1>3 DEF IsSessionsFull
<1> QED BY <1>4, <1>5, <1>6 DEF q
-----------------------------------------------------------------------------
(***************************************************************************)
(* The invariant.                                                          *)
(***************************************************************************)
\* the state PoolInv is about
PoolVars == <<sessions, freeDisplay, shutdowns, frame, dbus, stop.todo, signals>>

\* PoolInv only looks at PoolVars
LEMMA PoolInvFrame == PoolInv /\ UNCHANGED PoolVars => PoolInv'
<1> SUFFICES ASSUME PoolInv, UNCHANGED PoolVars PROVE PoolInv'
  OBVIOUS
<1> USE DEF PoolVars, Pooled
<1>1. \A d : Known(d) <=> Known(d)'
  BY DEF Known, Starting
<1>2. SlotsDistinct' /\ StartingHasSlot'
  BY DEF PoolInv, SlotsDistinct, StartingHasSlot
<1>3. KnownOnly'
  BY <1>1 DEF PoolInv, KnownOnly
<1>4. AnnouncedOutOfPool'
  BY DEF PoolInv, AnnouncedOutOfPool, RemovedIsOutOfPool
<1> QED BY <1>2, <1>3, <1>4 DEF PoolInv

\* the invariant holds before the first session
LEMMA InitPool == Init => PoolInv
<1> SUFFICES ASSUME Init PROVE PoolInv
  OBVIOUS
<1>1. InitialPool \in Seq(Displays \union {Empty}) /\ sessions = InitialPool
  BY InitialPoolType DEF Init
<1>2. \A i \in DOMAIN InitialPool : InitialPool[i] = Empty
  <2> DEFINE base == [i \in 1..PoolBase |-> Empty]
  <2>1. base \in Seq(Displays \union {Empty})
    BY ServiceAssumption, IsASeq
  <2>2. Len(base) = PoolBase /\ PoolBase \in Nat /\ LimitSessions \in Nat
    BY <2>1, LenProperties, ServiceAssumption
  <2>3. InitialPool = SessionsResize(base, LimitSessions)
    BY DEF InitialPool
  <2>4. \A i \in 1..Len(InitialPool) :
          InitialPool[i] = IF i <= Len(base) THEN base[i] ELSE Empty
    BY <2>1, <2>2, <2>3, ResizeIsPool
  <2>5. DOMAIN InitialPool = 1..Len(InitialPool) /\ Len(InitialPool) \in Nat
    BY <1>1, LenProperties
  <2> QED BY <2>2, <2>4, <2>5
<1>3. ValidSessions(sessions) = {} /\ SlotsDistinct
  BY <1>1, <1>2 DEF ValidSessions, SlotsDistinct, OneSlotEach
<1>4. KnownOnly
  BY <1>3 DEF KnownOnly, Pooled, Init, IdleFrame, IdleDbus
<1>5. AnnouncedOutOfPool /\ StartingHasSlot
  BY <1>3 DEF AnnouncedOutOfPool, RemovedIsOutOfPool, StartingHasSlot, Pooled,
     Init, IdleFrame, IdleDbus
<1> QED BY <1>3, <1>4, <1>5 DEF PoolInv

\* a display stays known while the dbus thread starts none or the next one
LEMMA KnownKept ==
    ASSUME TypeOK, freeDisplay' \in Nat, freeDisplay' >= freeDisplay,
           \A d \in Displays : Starting(d)' => Starting(d) \/ d = freeDisplay
    PROVE  \A d \in Displays : Known(d) => Known(d)'
<1>1. freeDisplay \in Nat /\ Displays \subseteq Nat
  BY ServiceAssumption DEF TypeOK, Displays
<1> QED BY <1>1 DEF Known

\* a bus method that does not touch the pool: the display numbers only grow
\* and at most the next one is being started, in a pool that has a free slot
LEMMA DbusMoves ==
    ASSUME TypeOK, PoolInv, dbus' \in DbusFrame,
           UNCHANGED <<sessions, frame, stop, signals>>,
           freeDisplay' \in {freeDisplay, freeDisplay + 1},
           \A d \in Displays : Starting(d)' => Starting(d) \/ d = freeDisplay,
           dbus'.pc # "idle" => dbus'.d \in Displays /\ dbus'.d < freeDisplay',
           dbus'.pc = "start" => ~IsSessionsFull(sessions),
           \A d \in Displays, e \in BOOLEAN :
              shutdowns'[d][e] > 0 => shutdowns[d][e] > 0 \/ Pooled(d)
    PROVE  PoolInv'
<1> USE DEF Pooled
<1>1. freeDisplay \in Nat /\ freeDisplay' \in Nat /\ freeDisplay' >= freeDisplay
  BY ServiceAssumption DEF TypeOK, Displays
<1>2. \A d \in Displays : Known(d) => Known(d)'
  BY <1>1, KnownKept
<1>3. SlotsDistinct' /\ StartingHasSlot'
  BY DEF PoolInv, SlotsDistinct, StartingHasSlot
<1>4. AnnouncedOutOfPool'
  BY DEF PoolInv, AnnouncedOutOfPool, RemovedIsOutOfPool
<1>5. KnownOnly'
  <2>1. \A d \in Displays : Pooled(d)' => Known(d)'
    BY <1>2 DEF PoolInv, KnownOnly
  <2>2. \A d \in Displays, e \in BOOLEAN : shutdowns'[d][e] > 0 => Known(d)'
    BY <1>2 DEF PoolInv, KnownOnly
  <2>3. \A t \in Threads : frame'[t].pc # "idle" =>
          frame'[t].d \in Displays /\ Known(frame[t].d)'
    BY <1>2 DEF PoolInv, KnownOnly
  <2>4. \A d \in stop'.todo : Known(d)'
    BY <1>2 DEF PoolInv, KnownOnly, TypeOK, StopFrame
  <2>5. \A d \in Displays : <<"DisplayRemoved", d>> \in signals' => Known(d)'
    BY <1>2 DEF PoolInv, KnownOnly
  <2> QED BY <2>1, <2>2, <2>3, <2>4, <2>5 DEF KnownOnly
<1> QED BY <1>3, <1>4, <1>5 DEF PoolInv

\* posting a shutdown of a session in the pool
LEMMA PostPooled ==
    ASSUME TypeOK, NEW x, NEW e \in BOOLEAN,
           \/ Pooled(x) /\ PostShutdown(x, e)
           \/ LoginScreenEnds(x)
           \/ UNCHANGED shutdowns
    PROVE  \A d \in Displays, b \in BOOLEAN :
              shutdowns'[d][b] > 0 => shutdowns[d][b] > 0 \/ Pooled(d)
<1>1. shutdowns \in [Displays -> [BOOLEAN -> Nat]]
  BY DEF TypeOK
<1>2. \A b \in BOOLEAN : Pooled(x) /\ PostShutdown(x, b) =>
        \A d \in Displays : d # x => shutdowns'[d] = shutdowns[d]
  BY <1>1 DEF PostShutdown
<1>3. \A b \in BOOLEAN : Pooled(x) /\ PostShutdown(x, b) =>
        \A d \in Displays, c \in BOOLEAN :
              shutdowns'[d][c] > 0 => shutdowns[d][c] > 0 \/ Pooled(d)
  BY <1>2
<1> QED BY <1>3 DEF LoginScreenEnds

\* displayShutdown is entered for a known display
LEMMA BeginPool ==
    ASSUME TypeOK, PoolInv, NEW t \in Threads, NEW x \in Displays,
           NEW e \in BOOLEAN, Known(x), BeginShutdown(t, x, e),
           UNCHANGED <<sessions, freeDisplay, dbus, signals>>,
           stop'.todo \subseteq stop.todo,
           \A d \in Displays, b \in BOOLEAN :
              shutdowns'[d][b] > 0 => shutdowns[d][b] > 0
    PROVE  PoolInv'
<1> USE DEF Pooled
<1>1. \A d : Known(d) <=> Known(d)'
  BY DEF Known, Starting
<1>2. frame \in [Threads -> Frame]
  BY DEF TypeOK
<1>3. \A r \in Threads : frame'[r] = frame[r] \/
        (frame'[r].pc = "mark" /\ frame'[r].d = x)
  BY <1>2 DEF BeginShutdown
<1>4. SlotsDistinct' /\ StartingHasSlot'
  BY DEF PoolInv, SlotsDistinct, StartingHasSlot
<1>5. AnnouncedOutOfPool'
  BY <1>3 DEF PoolInv, AnnouncedOutOfPool, RemovedIsOutOfPool
<1>6. KnownOnly'
  BY <1>1, <1>3 DEF PoolInv, KnownOnly
<1> QED BY <1>4, <1>5, <1>6 DEF PoolInv

\* a bus method that may start a session
LEMMA StartPool ==
    ASSUME TypeOK, PoolInv, NEW c \in Connectors, NEW u \in Users \union
       {LoginUser},
           DbusReady, RunNewDisplaySession(c, u) \/ NoNewDisplay(c),
           UNCHANGED <<sessions, shutdowns, frame, stop, signals>>
    PROVE  PoolInv'
<1>1. freeDisplay \in Nat /\ MaxDisplay \in Nat
  BY ServiceAssumption DEF TypeOK
<1>2. dbus' \in DbusFrame
  BY RunNewType
<1>3. \A d \in Displays, e \in BOOLEAN : shutdowns'[d][e] > 0 => shutdowns[d][e] > 0
  OBVIOUS
<1>4. CASE RunNewDisplaySession(c, u)
  <2>1. /\ ~IsSessionsFull(sessions)
        /\ freeDisplay \in Displays /\ freeDisplay' = freeDisplay + 1
        /\ dbus'.pc = "start" /\ dbus'.d = freeDisplay
    BY <1>1, <1>4 DEF RunNewDisplaySession, LimitsAllow, NextDisplay, TypeOK,
       Displays
  <2>2. \A d \in Displays : Starting(d)' => d = freeDisplay
    BY <2>1 DEF Starting
  <2> QED BY <1>1, <1>2, <1>3, <2>1, <2>2, DbusMoves
<1>5. CASE NoNewDisplay(c)
  <2>1. freeDisplay' \in {freeDisplay, freeDisplay + 1} /\ dbus' = dbus /\ dbus.pc =
     "idle"
    BY <1>5 DEF NoNewDisplay, NextDisplay, DbusReady
  <2>2. \A d \in Displays : ~Starting(d)'
    BY <2>1 DEF Starting
  <2> QED BY <1>2, <1>3, <2>1, <2>2, DbusMoves
<1> QED BY <1>4, <1>5

\* a step that only posts shutdowns of sessions in the pool
LEMMA OnlyPosts ==
    ASSUME TypeOK, PoolInv,
           UNCHANGED <<sessions, freeDisplay, frame, dbus, stop, signals>>,
           \A d \in Displays, e \in BOOLEAN :
              shutdowns'[d][e] > 0 => shutdowns[d][e] > 0 \/ Pooled(d)
    PROVE  PoolInv'
<1> USE DEF Pooled
<1>1. \A d : Known(d) <=> Known(d)'
  BY DEF Known, Starting
<1>2. SlotsDistinct' /\ StartingHasSlot'
  BY DEF PoolInv, SlotsDistinct, StartingHasSlot
<1>3. AnnouncedOutOfPool'
  BY DEF PoolInv, AnnouncedOutOfPool, RemovedIsOutOfPool
<1>4. KnownOnly'
  BY <1>1 DEF PoolInv, KnownOnly
<1> QED BY <1>2, <1>3, <1>4 DEF PoolInv

\* a step that only sends a signal other than DisplayRemoved
LEMMA OnlySignals ==
    ASSUME PoolInv, UNCHANGED <<sessions, freeDisplay, shutdowns, frame, dbus,
       stop>>,
           \A d : <<"DisplayRemoved", d>> \in signals' => <<"DisplayRemoved", d>>
              \in signals
    PROVE  PoolInv'
<1> USE DEF Pooled
<1>1. \A d : Known(d) <=> Known(d)'
  BY DEF Known, Starting
<1>2. SlotsDistinct' /\ StartingHasSlot'
  BY DEF PoolInv, SlotsDistinct, StartingHasSlot
<1>3. AnnouncedOutOfPool'
  BY DEF PoolInv, AnnouncedOutOfPool, RemovedIsOutOfPool
<1>4. KnownOnly'
  BY <1>1 DEF PoolInv, KnownOnly
<1> QED BY <1>2, <1>3, <1>4 DEF PoolInv

\* every action keeps the invariant
LEMMA NextPool == TypeOK /\ PoolInv /\ [Next]_vars => PoolInv'
<1> SUFFICES ASSUME TypeOK, PoolInv, [Next]_vars PROVE PoolInv'
  OBVIOUS
<1>next. TypeOK'
  BY NextType
<1>sessions. sessions \in Seq(Displays \union {Empty})
  BY DEF TypeOK
<1>shutdowns. shutdowns \in [Displays -> [BOOLEAN -> Nat]]
  BY DEF TypeOK
<1>frame. frame \in [Threads -> Frame]
  BY DEF TypeOK
<1>dbus. dbus \in DbusFrame
  BY DEF TypeOK
<1>stop. stop \in StopFrame
  BY DEF TypeOK
<1>todo. stop.todo \subseteq Displays
  BY <1>stop DEF StopFrame
<1>pooled. \A d : Pooled(d) => d \in Displays /\ d < freeDisplay /\ Known(d)
  BY <1>sessions, ValidAreDisplays DEF PoolInv, KnownOnly, Known, Pooled
<1>1. ASSUME NEW c \in Connectors, BusStartLoginSession(c) PROVE PoolInv'
  BY <1>1, StartPool DEF BusStartLoginSession
<1>2. ASSUME NEW c \in Connectors, NEW u \in Users, StartUserSession(c, u) PROVE
   PoolInv'
  BY <1>2, StartPool DEF StartUserSession
<1>3. ASSUME NEW c \in Connectors, NEW u \in Users, ReconnectUserSession(c, u) PROVE
   PoolInv'
  BY <1>3, PoolInvFrame DEF ReconnectUserSession, PoolVars
<1>4. ASSUME NEW c \in Connectors, BusConnectorAlive(c) PROVE PoolInv'
  BY <1>4, PoolInvFrame DEF BusConnectorAlive, PoolVars
<1>5. ASSUME NEW c \in Connectors, ConnectorCrash(c) PROVE PoolInv'
  BY <1>5, PoolInvFrame DEF ConnectorCrash, PoolVars
<1>6. ASSUME NEW d \in Displays, DestroySession(d) PROVE PoolInv'
  BY <1>6, PoolInvFrame DEF DestroySession, PoolVars
<1>7. ASSUME NEW d \in Displays, RegisterChild(d) PROVE PoolInv'
  BY <1>7, PoolInvFrame DEF RegisterChild, PoolVars
<1>8. ASSUME NEW d \in Displays, ReapChild(d) PROVE PoolInv'
  BY <1>8, PoolInvFrame DEF ReapChild, PoolVars
<1>9. ASSUME AliveBegin PROVE PoolInv'
  BY <1>9, PoolInvFrame DEF AliveBegin, PoolVars
<1>10. ASSUME NEW d \in Displays, AlivePing(d) PROVE PoolInv'
  BY <1>10, PoolInvFrame DEF AlivePing, PoolVars
<1>11. ASSUME AliveOffline PROVE PoolInv'
  BY <1>11, PoolInvFrame DEF AliveOffline, PoolVars, ClearConnection
<1>12. ASSUME NEW d \in Displays, ProcTerminated(d) PROVE PoolInv'
  BY <1>12, PoolInvFrame DEF ProcTerminated, PoolVars, ProcEnds
<1>13. ASSUME NEW d \in Displays, ProcExits(d) PROVE PoolInv'
  BY <1>13, PoolInvFrame DEF ProcExits, PoolVars, ProcEnds
<1>14. ASSUME StopLoopDone PROVE PoolInv'
  <2>1. stop'.todo = stop.todo
    BY <1>14, <1>stop DEF StopLoopDone, StopFrame
  <2> QED BY <1>14, <2>1, PoolInvFrame DEF StopLoopDone, PoolVars
<1>15. ASSUME StopKill PROVE PoolInv'
  <2>1. stop'.todo = stop.todo
    BY <1>15, <1>stop DEF StopKill, StopFrame
  <2> QED BY <1>15, <2>1, PoolInvFrame DEF StopKill, PoolVars
<1>16. ASSUME StopReap PROVE PoolInv'
  <2>1. stop'.todo = stop.todo
    BY <1>16, <1>stop DEF StopReap, StopFrame
  <2> QED BY <1>16, <2>1, PoolInvFrame DEF StopReap, PoolVars
<1>17. ASSUME NEW d \in Displays, BusShutdownDisplay(d) PROVE PoolInv'
  <2>1. \A x \in Displays, b \in BOOLEAN :
          shutdowns'[x][b] > 0 => shutdowns[x][b] > 0 \/ Pooled(x)
    BY <1>17, PostPooled DEF BusShutdownDisplay
  <2>2. UNCHANGED <<sessions, freeDisplay, frame, dbus, stop, signals>>
    BY <1>17 DEF BusShutdownDisplay
  <2> QED BY <2>1, <2>2, OnlyPosts
<1>18. ASSUME NEW c \in Connectors, ConnectorSwitch(c) PROVE PoolInv'
  <2>1. \A x \in Displays, b \in BOOLEAN :
          shutdowns'[x][b] > 0 => shutdowns[x][b] > 0 \/ Pooled(x)
    BY <1>18, PostPooled DEF ConnectorSwitch
  <2>2. UNCHANGED <<sessions, freeDisplay, frame, dbus, stop, signals>>
    BY <1>18 DEF ConnectorSwitch
  <2> QED BY <2>1, <2>2, OnlyPosts
<1>19. ASSUME NEW d \in Displays, TimeLimitPassed(d) PROVE PoolInv'
  <2>1. \A x \in Displays, b \in BOOLEAN :
          shutdowns'[x][b] > 0 => shutdowns[x][b] > 0 \/ Pooled(x)
    BY <1>19, PostPooled DEF TimeLimitPassed
  <2>2. UNCHANGED <<sessions, freeDisplay, frame, dbus, stop, signals>>
    BY <1>19 DEF TimeLimitPassed
  <2> QED BY <2>1, <2>2, OnlyPosts
<1>20. ASSUME SessionEnded PROVE PoolInv'
  <2>1. \A x \in Displays, b \in BOOLEAN :
          shutdowns'[x][b] > 0 => shutdowns[x][b] > 0 \/ Pooled(x)
    BY <1>20, PostPooled DEF SessionEnded
  <2>2. UNCHANGED <<sessions, freeDisplay, frame, dbus, stop, signals>>
    BY <1>20 DEF SessionEnded
  <2> QED BY <2>1, <2>2, OnlyPosts
<1>21. ASSUME NEW d \in Displays, AliveMissed(d) PROVE PoolInv'
  <2>1. \A x \in Displays, b \in BOOLEAN :
          shutdowns'[x][b] > 0 => shutdowns[x][b] > 0 \/ Pooled(x)
    BY <1>21, PostPooled DEF AliveMissed
  <2>2. UNCHANGED <<sessions, freeDisplay, frame, dbus, stop, signals>>
    BY <1>21 DEF AliveMissed
  <2> QED BY <2>1, <2>2, OnlyPosts
<1>22. ASSUME NEW c \in Connectors, BusConnectorTerminated(c) PROVE PoolInv'
  <2>1. \A x \in Displays, b \in BOOLEAN :
          shutdowns'[x][b] > 0 => shutdowns[x][b] > 0 \/ Pooled(x)
    BY <1>22, PostPooled DEF BusConnectorTerminated
  <2>2. /\ dbus' \in DbusFrame
        /\ UNCHANGED <<sessions, freeDisplay, frame, stop, signals>>
    BY <1>22, <1>next DEF BusConnectorTerminated, TypeOK
  <2>3. dbus'.pc \in {"idle", "offline"} /\ (dbus'.pc # "idle" => Pooled(dbus'.d))
    BY <1>22 DEF BusConnectorTerminated, DbusReady, GoesOffline
  <2>4. \A d \in Displays : ~Starting(d)'
    BY <2>3 DEF Starting
  <2>5. dbus'.pc # "idle" => dbus'.d \in Displays /\ dbus'.d < freeDisplay'
    BY <2>2, <2>3, <1>pooled
  <2> QED BY <2>1, <2>2, <2>3, <2>4, <2>5, DbusMoves
<1>23. ASSUME NEW c \in Connectors, BusConnectorConnected(c) PROVE PoolInv'
  <2>2. /\ dbus' \in DbusFrame
        /\ UNCHANGED <<sessions, freeDisplay, shutdowns, frame, stop, signals>>
    BY <1>23, <1>next DEF BusConnectorConnected, TypeOK
  <2>3. dbus'.pc \in {"idle", "online"} /\ (dbus'.pc # "idle" => Pooled(dbus'.d))
    BY <1>23 DEF BusConnectorConnected, DbusReady
  <2>4. \A d \in Displays : ~Starting(d)'
    BY <2>3 DEF Starting
  <2>5. dbus'.pc # "idle" => dbus'.d \in Displays /\ dbus'.d < freeDisplay'
    BY <2>2, <2>3, <1>pooled
  <2> QED BY <2>2, <2>3, <2>4, <2>5, DbusMoves
<1>24. ASSUME DisplayNotStarted PROVE PoolInv'
  <2>1. dbus'.pc = "waitpid" /\ dbus'.d = dbus.d /\ dbus.pc = "start"
    BY <1>24, <1>dbus DEF DisplayNotStarted, DbusFrame, IdleDbus
  <2>2. dbus' \in DbusFrame /\ \A d \in Displays : Starting(d)' => Starting(d)
    BY <2>1, <1>next DEF Starting, TypeOK
  <2>3. dbus.d \in Displays /\ dbus.d < freeDisplay
    BY <2>1 DEF PoolInv, KnownOnly
  <2>4. UNCHANGED <<sessions, freeDisplay, shutdowns, frame, stop, signals>>
    BY <1>24 DEF DisplayNotStarted
  <2> QED BY <2>1, <2>2, <2>3, <2>4, DbusMoves
<1>25. ASSUME ReapFailedStart PROVE PoolInv'
  <2>1. dbus' = IdleDbus /\ dbus' \in DbusFrame /\ dbus'.pc = "idle"
    BY <1>25, <1>next DEF ReapFailedStart, TypeOK, IdleDbus
  <2>2. \A d \in Displays : ~Starting(d)'
    BY <2>1 DEF Starting
  <2>3. UNCHANGED <<sessions, freeDisplay, shutdowns, frame, stop, signals>>
    BY <1>25 DEF ReapFailedStart
  <2> QED BY <2>1, <2>2, <2>3, DbusMoves
<1>26. ASSUME PublishSession PROVE PoolInv'
  <2>1. dbus' = IdleDbus /\ dbus' \in DbusFrame /\ dbus'.pc = "idle"
    BY <1>26, <1>next DEF PublishSession, TypeOK, IdleDbus
  <2>2. \A d \in Displays : ~Starting(d)'
    BY <2>1 DEF Starting
  <2>3. UNCHANGED <<sessions, freeDisplay, shutdowns, frame, stop, signals>>
    BY <1>26 DEF PublishSession
  <2> QED BY <2>1, <2>2, <2>3, DbusMoves
<1>27. ASSUME SetOnline PROVE PoolInv'
  <2>1. dbus' = IdleDbus /\ dbus' \in DbusFrame /\ dbus'.pc = "idle"
    BY <1>27, <1>next DEF SetOnline, TypeOK, IdleDbus
  <2>2. \A d \in Displays : ~Starting(d)'
    BY <2>1 DEF Starting
  <2>3. UNCHANGED <<sessions, freeDisplay, shutdowns, frame, stop, signals>>
    BY <1>27 DEF SetOnline
  <2> QED BY <2>1, <2>2, <2>3, DbusMoves
<1>28. ASSUME SetOffline PROVE PoolInv'
  <2>1. dbus' = IdleDbus /\ dbus' \in DbusFrame /\ dbus'.pc = "idle"
    BY <1>28, <1>next DEF SetOffline, TypeOK, IdleDbus
  <2>2. \A d \in Displays : ~Starting(d)'
    BY <2>1 DEF Starting
  <2>3. UNCHANGED <<sessions, freeDisplay, shutdowns, frame, stop, signals>>
    BY <1>28 DEF SetOffline
  <2> QED BY <2>1, <2>2, <2>3, DbusMoves
<1>29. ASSUME DisplayStarted PROVE PoolInv'
  <2> DEFINE x == dbus.d
  <2>1. x \in Displays /\ x < freeDisplay /\ Starting(x) /\
     ~IsSessionsFull(sessions)
    BY <1>29 DEF DisplayStarted, PoolInv, KnownOnly, StartingHasSlot, Starting
  <2>2. x \notin ValidSessions(sessions) /\ ~Known(x)
    BY <2>1 DEF PoolInv, KnownOnly, Known, Pooled
  <2>3. /\ sessions' = AppendNewSession(sessions, x)
        /\ dbus'.pc = "publish" /\ dbus'.d = x
        /\ UNCHANGED <<freeDisplay, shutdowns, frame, stop, signals>>
    BY <1>29, <2>1, <1>dbus DEF DisplayStarted, DbusFrame, IdleDbus
  <2>4. ValidSessions(sessions') = ValidSessions(sessions) \union {x} /\
     SlotsDistinct'
    BY <2>1, <2>2, <2>3, <1>sessions, AppendAdds DEF PoolInv, SlotsDistinct
  <2>5. \A d \in Displays : Known(d) \/ d = x => Known(d)'
    BY <2>1, <2>3 DEF Known, Starting
  <2>6. KnownOnly'
    BY <2>1, <2>3, <2>4, <2>5, <1>todo DEF PoolInv, KnownOnly, Pooled
  <2>7. AnnouncedOutOfPool'
    BY <2>2, <2>3, <2>4 DEF PoolInv, AnnouncedOutOfPool, RemovedIsOutOfPool,
       KnownOnly, Pooled
  <2>8. StartingHasSlot'
    BY <2>3 DEF StartingHasSlot
  <2> QED BY <2>4, <2>6, <2>7, <2>8 DEF PoolInv
<1>30. ASSUME NEW w \in Threads, NEW d \in Displays, NEW e \in BOOLEAN,
   TakeShutdown(w, d, e) PROVE PoolInv'
  <2>1. Known(d) /\ BeginShutdown(w, d, e)
    BY <1>30 DEF TakeShutdown, PoolInv, KnownOnly
  <2>2. \A x \in Displays, b \in BOOLEAN : shutdowns'[x][b] > 0 => shutdowns[x][b] >
     0
    BY <1>30, <1>shutdowns DEF TakeShutdown
  <2> QED BY <1>30, <2>1, <2>2, BeginPool DEF TakeShutdown
<1>31. ASSUME NEW d \in Displays, StopSession(d) PROVE PoolInv'
  <2>1. Known(d) /\ Stopper \in Threads /\ BeginShutdown(Stopper, d, TRUE)
    BY <1>31 DEF StopSession, PoolInv, KnownOnly, Threads
  <2>2. stop'.todo \subseteq stop.todo
    BY <1>31, <1>stop DEF StopSession, StopFrame
  <2> QED BY <1>31, <2>1, <2>2, BeginPool DEF StopSession
<1>32. ASSUME NEW t \in Threads, MarkShutdown(t) PROVE PoolInv'
  <2>1. \A r \in Threads : frame'[r].d = frame[r].d /\
          ((frame'[r].pc = "idle" <=> frame[r].pc = "idle") /\
           (frame'[r].pc = "announce" => frame[r].pc = "announce"))
    BY <1>32, <1>frame DEF MarkShutdown, Frame, IdleFrame
  <2>2. \A d : <<"DisplayRemoved", d>> \in signals' => <<"DisplayRemoved", d>> \in
     signals
    BY <1>32 DEF MarkShutdown
  <2>3. UNCHANGED <<sessions, freeDisplay, shutdowns, dbus, stop>>
    BY <1>32 DEF MarkShutdown
  <2>4. \A d : Known(d) <=> Known(d)'
    BY <2>3 DEF Known, Starting
  <2>5. KnownOnly'
    BY <2>1, <2>2, <2>3, <2>4 DEF PoolInv, KnownOnly, Pooled
  <2>6. AnnouncedOutOfPool'
    BY <2>1, <2>2, <2>3 DEF PoolInv, AnnouncedOutOfPool, RemovedIsOutOfPool, Pooled
  <2>7. SlotsDistinct' /\ StartingHasSlot'
    BY <2>3 DEF PoolInv, SlotsDistinct, StartingHasSlot
  <2> QED BY <2>5, <2>6, <2>7 DEF PoolInv
<1>33. ASSUME NEW d \in Displays, BusShutdownConnector(d) PROVE PoolInv'
  <2>1. \A x : <<"DisplayRemoved", x>> \in signals' => <<"DisplayRemoved", x>> \in
     signals
    BY <1>33 DEF BusShutdownConnector
  <2>2. UNCHANGED <<sessions, freeDisplay, shutdowns, frame, dbus, stop>>
    BY <1>33 DEF BusShutdownConnector
  <2> QED BY <2>1, <2>2, OnlySignals
<1>34. ASSUME NEW d \in Displays, OnlineLimitPassed(d) PROVE PoolInv'
  <2>1. \A x : <<"DisplayRemoved", x>> \in signals' => <<"DisplayRemoved", x>> \in
     signals
    BY <1>34 DEF OnlineLimitPassed
  <2>2. UNCHANGED <<sessions, freeDisplay, shutdowns, frame, dbus, stop>>
    BY <1>34 DEF OnlineLimitPassed
  <2> QED BY <2>1, <2>2, OnlySignals
<1>35. ASSUME NEW t \in Threads, RemoveSession(t) PROVE PoolInv'
  <2> DEFINE x == frame[t].d
  <2>1. x \in Displays /\ Known(x)
    BY <1>35 DEF RemoveSession, PoolInv, KnownOnly
  <2>2. \A r \in Threads : frame'[r].d = frame[r].d /\
          ((frame'[r].pc = "idle" <=> frame[r].pc = "idle") /\
           (frame'[r].pc = "announce" => frame[r].pc = "announce" \/ r = t))
    BY <1>35, <1>frame DEF RemoveSession, Frame, IdleFrame
  <2>3. /\ sessions' = RemoveDisplaySession(sessions, x)
        /\ UNCHANGED <<freeDisplay, shutdowns, dbus, stop, signals>>
    BY <1>35 DEF RemoveSession
  <2>4. /\ ValidSessions(sessions') = ValidSessions(sessions) \ {x}
        /\ SlotsDistinct'
        /\ ~IsSessionsFull(sessions) => ~IsSessionsFull(sessions')
    BY <2>1, <2>3, <1>sessions, RemoveTakesOut DEF PoolInv, SlotsDistinct
  <2>5. \A d : Known(d) <=> Known(d)'
    BY <2>3 DEF Known, Starting
  <2>6. KnownOnly'
    BY <2>2, <2>3, <2>4, <2>5 DEF PoolInv, KnownOnly, Pooled
  <2>7. AnnouncedOutOfPool'
    BY <2>2, <2>3, <2>4 DEF PoolInv, AnnouncedOutOfPool, RemovedIsOutOfPool, Pooled
  <2>8. StartingHasSlot'
    BY <2>3, <2>4 DEF PoolInv, StartingHasSlot
  <2> QED BY <2>4, <2>6, <2>7, <2>8 DEF PoolInv
<1>36. ASSUME NEW t \in Threads, AnnounceRemoved(t) PROVE PoolInv'
  <2> DEFINE x == frame[t].d
  <2>1. x \in Displays /\ Known(x) /\ ~Pooled(x)
    BY <1>36 DEF AnnounceRemoved, PoolInv, KnownOnly, AnnouncedOutOfPool
  <2>2. \A r \in Threads : frame'[r] = frame[r] \/ frame'[r] = IdleFrame
    BY <1>36, <1>frame DEF AnnounceRemoved
  <2>3. \A d : <<"DisplayRemoved", d>> \in signals' =>
               <<"DisplayRemoved", d>> \in signals \/ d = x
    BY <1>36 DEF AnnounceRemoved
  <2>4. UNCHANGED <<sessions, freeDisplay, shutdowns, dbus, stop>>
    BY <1>36 DEF AnnounceRemoved
  <2>5. \A d : Known(d) <=> Known(d)'
    BY <2>4 DEF Known, Starting
  <2>6. KnownOnly'
    BY <2>1, <2>2, <2>3, <2>4, <2>5 DEF PoolInv, KnownOnly, Pooled, IdleFrame
  <2>7. AnnouncedOutOfPool'
    BY <2>1, <2>2, <2>3, <2>4 DEF PoolInv, AnnouncedOutOfPool, RemovedIsOutOfPool,
       Pooled, IdleFrame
  <2>8. SlotsDistinct' /\ StartingHasSlot'
    BY <2>4 DEF PoolInv, SlotsDistinct, StartingHasSlot
  <2> QED BY <2>6, <2>7, <2>8 DEF PoolInv
<1>37. ASSUME ConfigReloaded PROVE PoolInv'
  <2>1. /\ sessions' = SessionsResize(sessions, LimitReloaded)
        /\ UNCHANGED <<freeDisplay, shutdowns, frame, dbus, stop, signals>>
    BY <1>37 DEF ConfigReloaded
  <2>2. /\ ValidSessions(sessions') = ValidSessions(sessions)
        /\ SlotsDistinct'
        /\ ~IsSessionsFull(sessions) => ~IsSessionsFull(sessions')
    BY <2>1, <1>sessions, ResizeKeeps, ServiceAssumption DEF PoolInv, SlotsDistinct
  <2>3. \A d : Known(d) <=> Known(d)'
    BY <2>1 DEF Known, Starting
  <2>4. KnownOnly'
    BY <2>1, <2>2, <2>3 DEF PoolInv, KnownOnly, Pooled
  <2>5. AnnouncedOutOfPool' /\ StartingHasSlot'
    BY <2>1, <2>2 DEF PoolInv, AnnouncedOutOfPool, RemovedIsOutOfPool, Pooled,
       StartingHasSlot
  <2> QED BY <2>2, <2>4, <2>5 DEF PoolInv
<1>38. ASSUME StopBegin PROVE PoolInv'
  <2>1. /\ stop'.todo = ValidSessions(sessions)
        /\ UNCHANGED <<sessions, freeDisplay, shutdowns, frame, dbus, signals>>
    BY <1>38 DEF StopBegin
  <2>2. \A d : Known(d) <=> Known(d)'
    BY <2>1 DEF Known, Starting
  <2>3. KnownOnly'
    BY <2>1, <2>2, <1>pooled DEF PoolInv, KnownOnly, Pooled
  <2>4. SlotsDistinct' /\ AnnouncedOutOfPool' /\ StartingHasSlot'
    BY <2>1 DEF PoolInv, AnnouncedOutOfPool, RemovedIsOutOfPool, Pooled,
       SlotsDistinct, StartingHasSlot
  <2> QED BY <2>3, <2>4 DEF PoolInv
<1>39. ASSUME UNCHANGED vars PROVE PoolInv'
  BY <1>39, PoolInvFrame DEF vars, PoolVars
<1>40. CASE \E c \in Connectors : ConnectorStep(c)
  BY <1>40, <1>1, <1>2, <1>3, <1>18, <1>23, <1>4, <1>22, <1>5 DEF ConnectorStep
<1>41. CASE DbusStep
  BY <1>41, <1>29, <1>24, <1>25, <1>26, <1>27, <1>28 DEF DbusStep
<1>42. CASE \E w \in Workers : WorkerStep(w)
  BY <1>42, <1>30, <1>32, <1>35, <1>36 DEF WorkerStep, ShutdownStep, Threads
<1>43. CASE StrandStep
  BY <1>43, <1>7, <1>8, <1>20 DEF StrandStep
<1>44. CASE AliveStep
  BY <1>44, <1>9, <1>11, <1>10, <1>21 DEF AliveStep
<1>45. CASE StopStep
  BY <1>45, <1>32, <1>35, <1>36, <1>31, <1>14, <1>15, <1>16 DEF StopStep,
     ShutdownStep, Threads
<1>46. CASE Environment
  BY <1>46, <1>17, <1>33, <1>19, <1>34, <1>12, <1>13, <1>37, <1>38 DEF Environment
<1> QED BY <1>6, <1>39, <1>40, <1>41, <1>42, <1>43, <1>44, <1>45, <1>46 DEF Next

\* the pool invariant holds in every state
THEOREM PoolSafe == Spec => []PoolInv
<1>1. Init => TypeOK /\ PoolInv
  BY InitType, InitPool
<1>2. (TypeOK /\ PoolInv) /\ [Next]_vars => (TypeOK /\ PoolInv)'
  BY NextType, NextPool
<1> QED BY <1>1, <1>2, PTL DEF Spec

\* displayShutdown announces a display only after it has left the pool, and no
\* such display is ever in the pool again, however many threads shut it down
THEOREM RemovedStaysOut == Spec => []RemovedIsOutOfPool
<1>1. PoolInv => RemovedIsOutOfPool
  BY DEF PoolInv, AnnouncedOutOfPool
<1> QED BY <1>1, PoolSafe, PTL

\* appendNewSession always finds the free slot that isSessionsFull saw
THEOREM SlotIsKept == Spec => []StartingHasSlot
<1>1. PoolInv => StartingHasSlot
  BY DEF PoolInv
<1> QED BY <1>1, PoolSafe, PTL
=============================================================================
