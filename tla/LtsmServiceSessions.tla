------------------------- MODULE LtsmServiceSessions -------------------------
(***************************************************************************)
(* What LtsmService promises of its sessions, for any number of users,     *)
(* connectors, pool threads, slots and displays: the service implements    *)
(* SessionLifecycle, limit:users and the modes of the login screens hold,  *)
(* and no process of a session is forgotten.                               *)
(***************************************************************************)
EXTENDS LtsmServiceProofs, FiniteSetTheorems

(***************************************************************************)
(* The capacity of the pool.                                               *)
(***************************************************************************)
\* the sessions of a pool are finitely many, and with a free slot fewer than
\* the slots
LEMMA ValidFitSlots ==
    ASSUME NEW pool \in Seq(Displays \union {Empty})
    PROVE  /\ IsFiniteSet(ValidSessions(pool))
           /\ Cardinality(ValidSessions(pool)) \in Nat
           /\ ~IsSessionsFull(pool) => Cardinality(ValidSessions(pool)) < Len(pool)
<1> DEFINE V == ValidSessions(pool)
           R == {pool[i] : i \in DOMAIN pool}
<1>1. DOMAIN pool = 1..Len(pool) /\ Len(pool) \in Nat
  BY LenProperties
<1>2. IsFiniteSet(DOMAIN pool) /\ Cardinality(DOMAIN pool) = Len(pool)
  BY <1>1, FS_Interval
<1>3. pool \in Surjection(DOMAIN pool, R)
  BY <1>1 DEF Surjection
<1>4. IsFiniteSet(R) /\ Cardinality(R) <= Len(pool)
  <2> HIDE DEF R
  <2> QED BY <1>2, <1>3, FS_Surjection
<1>5. V = R \ {Empty}
  BY DEF ValidSessions
<1>6. Cardinality(R) \in Nat
  <2> HIDE DEF R
  <2> QED BY <1>4, FS_CardinalityType
<1>7. IsFiniteSet(V) /\ Cardinality(V) = IF Empty \in R THEN Cardinality(R) - 1 ELSE Cardinality(R)
  <2> HIDE DEF R, V
  <2> QED BY <1>4, <1>5, FS_RemoveElement
<1>8. Cardinality(V) \in Nat
  <2> HIDE DEF V
  <2> QED BY <1>7, FS_CardinalityType
<1>9. ~IsSessionsFull(pool) => Empty \in R
  BY DEF IsSessionsFull
<1> HIDE DEF V, R
<1>10. ~IsSessionsFull(pool) => Cardinality(V) < Len(pool)
  BY <1>1, <1>4, <1>6, <1>7, <1>9
<1> QED BY <1>7, <1>8, <1>10 DEF V

\* a session that enters or leaves the pool does not change its length
LEMMA WritesKeepLength ==
    ASSUME NEW pool \in Seq(Displays \union {Empty}), NEW d \in Displays
    PROVE  /\ Len(AppendNewSession(pool, d)) = Len(pool)
           /\ Len(RemoveDisplaySession(pool, d)) = Len(pool)
<1>1. \A q \in Seq(Displays \union {Empty}) :
        DOMAIN q = DOMAIN pool => Len(q) = Len(pool)
  BY LenProperties
<1>2. \A k, v : v \in Displays \union {Empty} =>
        [pool EXCEPT ![k] = v] \in Seq(Displays \union {Empty})
        /\ DOMAIN [pool EXCEPT ![k] = v] = DOMAIN pool
  BY ExceptIsPool
<1>3. Len(AppendNewSession(pool, d)) = Len(pool)
  BY <1>1, <1>2 DEF AppendNewSession
<1>4. Len(RemoveDisplaySession(pool, d)) = Len(pool)
  BY <1>1, <1>2 DEF RemoveDisplaySession
<1> QED BY <1>3, <1>4

\* sessionsResize gives the larger of the two lengths
LEMMA ResizeLength ==
    ASSUME NEW pool \in Seq(Displays \union {Empty}), NEW n \in Nat
    PROVE  Len(SessionsResize(pool, n)) = IF n > Len(pool) THEN n ELSE Len(pool)
<1> DEFINE grown == [i \in 1..n |-> IF i <= Len(pool) THEN pool[i] ELSE Empty]
<1>1. \A i \in 1..n :
        (IF i <= Len(pool) THEN pool[i] ELSE Empty) \in Displays \union {Empty}
  BY LenProperties, ElementOfSeq
<1>2. grown \in Seq(Displays \union {Empty})
  BY <1>1, IsASeq
<1>3. Len(grown) = n
  BY <1>2, LenProperties
<1> QED BY <1>3 DEF SessionsResize

\* the three steps that write the pool
LEMMA PoolWriters ==
    ASSUME [Next]_vars
    PROVE  \/ UNCHANGED sessions
           \/ DisplayStarted
           \/ \E t \in Threads : RemoveSession(t)
           \/ ConfigReloaded
<1>1. CASE \E c \in Connectors : ConnectorStep(c)
  BY <1>1 DEF ConnectorStep, BusStartLoginSession, StartUserSession,
     ReconnectUserSession, ConnectorSwitch, BusConnectorConnected,
     BusConnectorAlive, BusConnectorTerminated, ConnectorCrash
<1>2. CASE DbusStep
  BY <1>2 DEF DbusStep, DisplayNotStarted, ReapFailedStart, PublishSession,
     SetOnline, SetOffline
<1>3. CASE \E w \in Workers : WorkerStep(w)
  BY <1>3 DEF WorkerStep, TakeShutdown, ShutdownStep, MarkShutdown,
     AnnounceRemoved, Threads
<1>4. CASE StrandStep \/ AliveStep
  BY <1>4 DEF StrandStep, AliveStep, RegisterChild, ReapChild, SessionEnded,
     AliveBegin, AliveOffline, AlivePing, AliveMissed
<1>5. CASE StopStep
  BY <1>5 DEF StopStep, ShutdownStep, MarkShutdown, AnnounceRemoved, StopSession,
     StopLoopDone, StopKill, StopReap, Threads
<1>6. CASE Environment
  BY <1>6 DEF Environment, BusShutdownDisplay, BusShutdownConnector,
     TimeLimitPassed, OnlineLimitPassed, ProcTerminated, ProcExits, ProcEnds,
     StopBegin
<1>7. CASE \E d \in Displays : DestroySession(d)
  BY <1>7 DEF DestroySession
<1> QED BY <1>1, <1>2, <1>3, <1>4, <1>5, <1>6, <1>7 DEF Next, vars

\* the pool never has more slots than the larger of its two limits asks for
PoolInCapacity == Len(sessions) <= PoolMax

\* the pool is constructed with PoolBase slots
LEMMA InitCapacity == Init => PoolInCapacity
<1>1. Len(InitialPool) <= PoolMax /\ Len(InitialPool) \in Nat
  BY InitialPoolType, ResizeIsPool, LenProperties, ServiceAssumption DEF PoolMax
<1> QED BY <1>1 DEF Init, PoolInCapacity

\* only the reload of the configuration resizes the pool, and never above the
\* larger of the two limits
LEMMA NextCapacity == TypeOK /\ PoolInCapacity /\ [Next]_vars => PoolInCapacity'
<1> SUFFICES ASSUME TypeOK, PoolInCapacity, [Next]_vars PROVE PoolInCapacity'
  OBVIOUS
<1>1. sessions \in Seq(Displays \union {Empty}) /\ Len(sessions) \in Nat
  BY LenProperties DEF TypeOK
<1>2. PoolMax = IF LimitReloaded > Len(InitialPool) THEN LimitReloaded ELSE Len(InitialPool)
  BY InitialPoolType, ResizeLength, ServiceAssumption DEF PoolMax
<1>3. CASE UNCHANGED sessions
  BY <1>3 DEF PoolInCapacity
<1>4. CASE DisplayStarted
  <2>1. dbus.d \in Displays
    BY <1>4, DbusHasDisplay DEF DisplayStarted
  <2> QED BY <1>1, <1>4, <2>1, WritesKeepLength DEF DisplayStarted, PoolInCapacity
<1>5. ASSUME NEW t \in Threads, RemoveSession(t) PROVE PoolInCapacity'
  <2>1. frame[t].d \in Displays
    BY <1>5, FrameHasDisplay DEF RemoveSession
  <2> QED BY <1>1, <1>5, <2>1, WritesKeepLength DEF RemoveSession, PoolInCapacity
<1>6. CASE ConfigReloaded
  <2>1. Len(InitialPool) \in Nat /\ LimitReloaded \in Nat
    BY InitialPoolType, LenProperties, ServiceAssumption
  <2> QED BY <1>1, <1>2, <1>6, <2>1, ResizeLength DEF ConfigReloaded, PoolInCapacity
<1> QED BY <1>3, <1>4, <1>5, <1>6, PoolWriters

-----------------------------------------------------------------------------
(***************************************************************************)
(* The refinement: every step of the threads is a step, or no step, of     *)
(* SessionLifecycle.                                                       *)
(***************************************************************************)
Stage == [d \in Displays |-> StageOf(d)]
Announced == {d \in Displays : <<"DisplayRemoved", d>> \in signals}

\* a step that keeps the pool's sessions, the display being started, the next
\* number and the removals announced is no step of the abstract service
LEMMA LifecycleStutters ==
    ASSUME ValidSessions(sessions') = ValidSessions(sessions),
           \A d : Starting(d)' <=> Starting(d),
           UNCHANGED freeDisplay,
           \A d : <<"DisplayRemoved", d>> \in signals' <=> <<"DisplayRemoved", d>> \in signals
    PROVE  UNCHANGED Lifecycle!lifecycleVars
<1>1. \A d : StageOf(d)' = StageOf(d)
  BY DEF StageOf, Pooled, Starting
<1>2. UNCHANGED Stage /\ UNCHANGED Announced
  BY <1>1 DEF Stage, Announced
<1> QED BY <1>2 DEF Lifecycle!lifecycleVars, Stage, Announced

\* the stages as PoolInv has them
LEMMA StageFacts ==
    ASSUME TypeOK, PoolInv, NEW d \in Displays
    PROVE  /\ StageOf(d) = "pooled" <=> Pooled(d)
           /\ StageOf(d) = "starting" <=> Starting(d)
           /\ StageOf(d) = "over" <=> Known(d) /\ ~Pooled(d)
           /\ StageOf(d) = "unused" <=> d >= freeDisplay
<1>1. freeDisplay \in Nat /\ d \in Nat
  BY ServiceAssumption DEF TypeOK, Displays
<1>2. Pooled(d) => Known(d)
  BY DEF PoolInv, KnownOnly
<1>3. Starting(d) => d < freeDisplay
  BY DEF PoolInv, KnownOnly, Starting
<1> QED BY <1>1, <1>2, <1>3 DEF StageOf, Known, Starting

\* taking the next number: the session is started, or the number is lost
LEMMA LifecycleBegins ==
    ASSUME TypeOK, PoolInv, dbus.pc = "idle",
           NEW n \in Displays, n = freeDisplay, freeDisplay' = freeDisplay + 1,
           UNCHANGED <<sessions, signals>>,
           \A d : Starting(d)' => d = n
    PROVE  Lifecycle!Begin(n)
<1> DEFINE s == IF Starting(n)' THEN "starting" ELSE "over"
<1>1. freeDisplay \in Nat /\ Displays \subseteq Nat
  BY ServiceAssumption DEF TypeOK, Displays
<1>2. \A d \in Displays : ~Starting(d)
  BY DEF Starting
<1>3. StageOf(n) = "unused" /\ \A d \in Displays : d < n => StageOf(d) # "unused"
  BY <1>1, StageFacts
<1>4. \A d \in Displays : StageOf(d) # "starting"
  BY <1>2, StageFacts
<1>5. \A d \in Displays : d # n => StageOf(d)' = StageOf(d)
  <2>1. SUFFICES ASSUME NEW d \in Displays, d # n PROVE StageOf(d)' = StageOf(d)
    OBVIOUS
  <2>2. ~Starting(d) /\ ~Starting(d)' /\ (d < freeDisplay <=> d < freeDisplay')
    BY <1>1, <1>2, <2>1
  <2>3. Pooled(d)' <=> Pooled(d)
    BY DEF Pooled
  <2> QED BY <2>2, <2>3 DEF StageOf, Starting
<1>6. StageOf(n)' = s
  <2>1. ~Pooled(n)
    BY <1>3, StageFacts
  <2>2. ~Pooled(n)'
    BY <2>1 DEF Pooled
  <2>3. n < freeDisplay'
    BY <1>1
  <2> QED BY <2>2, <2>3 DEF StageOf, Starting
<1>7. Stage' = [Stage EXCEPT ![n] = s]
  BY <1>5, <1>6 DEF Stage
<1>8. UNCHANGED Announced
  BY DEF Announced
<1>9. Stage[n] = "unused" /\ \A d \in Displays : d < n => Stage[d] # "unused"
  BY <1>3 DEF Stage
<1>10. {d \in Displays : Stage[d] = "starting"} = {}
  BY <1>4 DEF Stage
<1>11. s \in {"starting", "over"}
  OBVIOUS
<1> HIDE DEF s
<1>12. Stage' \in {[Stage EXCEPT ![n] = x] : x \in {"starting", "over"}}
  BY <1>7, <1>11
<1> QED BY <1>8, <1>9, <1>10, <1>12 DEF Lifecycle!Begin, Lifecycle!InStage,
        Lifecycle!Numbers, Displays, Stage, Announced

\* one display changes its stage, no removal is announced
LEMMA OneStageMoves ==
    ASSUME NEW n \in Displays, NEW s,
           StageOf(n)' = s,
           \A d \in Displays : d # n => StageOf(d)' = StageOf(d),
           UNCHANGED signals
    PROVE  Stage' = [Stage EXCEPT ![n] = s] /\ UNCHANGED Announced
  BY DEF Stage, Announced

\* a bus method that may take a number
LEMMA StartRefines ==
    ASSUME TypeOK, PoolInv, NEW c \in Connectors, NEW u,
           DbusReady, RunNewDisplaySession(c, u) \/ NoNewDisplay(c),
           UNCHANGED <<sessions, signals>>
    PROVE  [Lifecycle!LifecycleNext]_(Lifecycle!lifecycleVars)
<1>1. freeDisplay \in Nat /\ dbus.pc = "idle"
  BY DEF TypeOK, DbusReady
<1>2. CASE UNCHANGED freeDisplay /\ NoNewDisplay(c)
  <2>1. UNCHANGED dbus
    BY <1>2 DEF NoNewDisplay
  <2>2. \A d : Starting(d)' <=> Starting(d)
    BY <2>1 DEF Starting
  <2>3. UNCHANGED Lifecycle!lifecycleVars
    BY <1>2, <2>2, LifecycleStutters
  <2> QED BY <2>3
<1>3. CASE ~UNCHANGED freeDisplay \/ ~NoNewDisplay(c)
  <2>1. PICK n \in Displays : n = freeDisplay /\ freeDisplay' = freeDisplay + 1
    BY <1>1, <1>3, ServiceAssumption DEF NoNewDisplay, RunNewDisplaySession,
       NextDisplay, Displays, TypeOK
  <2>2. \A d : Starting(d)' => d = n
    BY <1>1, <2>1 DEF RunNewDisplaySession, NoNewDisplay, Starting
  <2>3. Lifecycle!Begin(n)
    BY <1>1, <2>1, <2>2, LifecycleBegins
  <2> QED BY <2>3 DEF Lifecycle!LifecycleNext, Lifecycle!Numbers, Displays
<1> QED BY <1>2, <1>3

\* appendNewSession: a pool with a free slot holds fewer sessions than PoolMax
LEMMA StartedRefines ==
    ASSUME TypeOK, PoolInv, PoolInCapacity, DisplayStarted
    PROVE  Lifecycle!LifecycleNext
<1>1. PICK n \in Displays : n = dbus.d
  BY DbusHasDisplay DEF DisplayStarted
<1>2. n < freeDisplay /\ Starting(n) /\ ~IsSessionsFull(sessions)
  BY <1>1 DEF DisplayStarted, PoolInv, KnownOnly, StartingHasSlot, Starting
<1>3. sessions \in Seq(Displays \union {Empty}) /\ dbus \in DbusFrame
  BY DEF TypeOK
<1>4. n \notin ValidSessions(sessions)
  BY <1>2 DEF PoolInv, KnownOnly, Known, Pooled
<1>5. /\ sessions' = AppendNewSession(sessions, n)
      /\ dbus'.pc = "publish"
      /\ UNCHANGED <<freeDisplay, signals>>
  BY <1>1, <1>2, <1>3 DEF DisplayStarted, DbusFrame, IdleDbus
<1>6. ValidSessions(sessions') = ValidSessions(sessions) \union {n}
  BY <1>2, <1>3, <1>4, <1>5, AppendAdds DEF PoolInv, SlotsDistinct
<1>7. StageOf(n)' = "pooled"
  BY <1>6 DEF StageOf, Pooled
<1>8. \A d \in Displays : d # n => StageOf(d)' = StageOf(d)
  BY <1>1, <1>5, <1>6 DEF StageOf, Pooled
<1>9. Stage' = [Stage EXCEPT ![n] = "pooled"] /\ UNCHANGED Announced
  BY <1>5, <1>7, <1>8, OneStageMoves
<1>10. Stage[n] = "starting"
  BY <1>2, StageFacts DEF Stage
<1>11. {d \in Displays : Stage[d] = "pooled"} = ValidSessions(sessions)
  BY <1>3, StageFacts, ValidAreDisplays DEF Stage, Pooled
<1>12. Cardinality(ValidSessions(sessions)) < PoolMax
  <2>1. PoolMax \in Nat /\ Len(sessions) \in Nat
    BY InitialPoolType, ResizeIsPool, LenProperties, ServiceAssumption, <1>3 DEF PoolMax
  <2> QED BY <1>2, <1>3, <2>1, ValidFitSlots DEF PoolInCapacity
<1>13. Lifecycle!InStage("pooled") = ValidSessions(sessions)
  BY <1>11 DEF Lifecycle!InStage, Lifecycle!Numbers, Displays, Stage
<1>14. Lifecycle!Cardinality(ValidSessions(sessions)) = Cardinality(ValidSessions(sessions))
  BY Zenon DEF Lifecycle!Cardinality, Cardinality
<1>15. Lifecycle!Admit(n)
  BY <1>9, <1>10, <1>12, <1>13, <1>14 DEF Lifecycle!Admit, Stage, Announced
<1> QED BY <1>15 DEF Lifecycle!LifecycleNext, Lifecycle!Numbers, Displays

\* the process of a failed start is reaped: the session is over
LEMMA FailedRefines ==
    ASSUME TypeOK, PoolInv, ReapFailedStart
    PROVE  Lifecycle!LifecycleNext
<1>1. PICK n \in Displays : n = dbus.d
  BY DbusHasDisplay DEF ReapFailedStart
<1>2. n < freeDisplay /\ Starting(n)
  BY <1>1 DEF ReapFailedStart, PoolInv, KnownOnly, Starting
<1>3. ~Pooled(n) /\ dbus'.pc = "idle" /\ UNCHANGED <<sessions, freeDisplay, signals>>
  BY <1>2 DEF ReapFailedStart, PoolInv, KnownOnly, Known, IdleDbus
<1>4. StageOf(n)' = "over"
  BY <1>2, <1>3 DEF StageOf, Pooled
<1>5. \A d \in Displays : d # n => StageOf(d)' = StageOf(d)
  BY <1>1, <1>3 DEF StageOf, Pooled
<1>6. Stage' = [Stage EXCEPT ![n] = "over"] /\ UNCHANGED Announced
  BY <1>3, <1>4, <1>5, OneStageMoves
<1>7. Stage[n] = "starting"
  BY <1>2, StageFacts DEF Stage
<1>8. Lifecycle!Leave(n)
  BY <1>6, <1>7 DEF Lifecycle!Leave, Displays, Stage, Announced
<1> QED BY <1>8 DEF Lifecycle!LifecycleNext, Lifecycle!Numbers, Displays

\* removeDisplaySession: the first of the threads takes the session out, for
\* the others nothing is left to do
LEMMA RemoveRefines ==
    ASSUME TypeOK, PoolInv, NEW t \in Threads, RemoveSession(t)
    PROVE  [Lifecycle!LifecycleNext]_(Lifecycle!lifecycleVars)
<1>1. PICK n \in Displays : n = frame[t].d
  BY FrameHasDisplay DEF RemoveSession
<1>2. /\ sessions' = RemoveDisplaySession(sessions, n)
      /\ UNCHANGED <<freeDisplay, dbus, signals>>
  BY <1>1 DEF RemoveSession
<1>3. ValidSessions(sessions') = ValidSessions(sessions) \ {n}
  BY <1>2, RemoveTakesOut DEF PoolInv, SlotsDistinct, TypeOK
<1>4. \A d : Starting(d)' <=> Starting(d)
  BY <1>2 DEF Starting
<1>5. CASE Pooled(n)
  <2>1. n < freeDisplay /\ ~Starting(n)
    BY <1>5 DEF PoolInv, KnownOnly, Known
  <2>2. StageOf(n)' = "over"
    BY <1>2, <1>3, <2>1 DEF StageOf, Pooled, Starting
  <2>3. \A d \in Displays : d # n => StageOf(d)' = StageOf(d)
    BY <1>2, <1>3 DEF StageOf, Pooled
  <2>4. Stage' = [Stage EXCEPT ![n] = "over"] /\ UNCHANGED Announced
    BY <1>2, <2>2, <2>3, OneStageMoves
  <2>5. Stage[n] = "pooled"
    BY <1>5, StageFacts DEF Stage
  <2>6. Lifecycle!Leave(n)
    BY <2>4, <2>5 DEF Lifecycle!Leave, Displays, Stage, Announced
  <2> QED BY <2>6 DEF Lifecycle!LifecycleNext, Lifecycle!Numbers, Displays
<1>6. CASE ~Pooled(n)
  <2>1. ValidSessions(sessions') = ValidSessions(sessions)
    BY <1>3, <1>6 DEF Pooled
  <2>2. UNCHANGED Lifecycle!lifecycleVars
    BY <1>2, <1>4, <2>1, LifecycleStutters
  <2> QED BY <2>2
<1> QED BY <1>5, <1>6

\* DisplayRemoved is sent for a display that is over
LEMMA AnnounceRefines ==
    ASSUME TypeOK, PoolInv, NEW t \in Threads, AnnounceRemoved(t)
    PROVE  Lifecycle!LifecycleNext
<1>1. PICK n \in Displays : n = frame[t].d
  BY FrameHasDisplay DEF AnnounceRemoved
<1>2. Known(n) /\ ~Pooled(n)
  BY <1>1 DEF AnnounceRemoved, PoolInv, KnownOnly, AnnouncedOutOfPool
<1>3. /\ signals' = signals \union {<<"DisplayRemoved", n>>}
      /\ UNCHANGED <<sessions, freeDisplay, dbus>>
  BY <1>1 DEF AnnounceRemoved
<1>4. Stage[n] = "over"
  BY <1>2, StageFacts DEF Stage
<1>5. \A d : StageOf(d)' = StageOf(d)
  BY <1>3 DEF StageOf, Pooled
<1>6. UNCHANGED Stage
  BY <1>5 DEF Stage
<1>7. Announced' = Announced \union {n}
  BY <1>3 DEF Announced
<1>8. Lifecycle!Announce(n)
  BY <1>4, <1>6, <1>7 DEF Lifecycle!Announce, Displays, Stage, Announced
<1> QED BY <1>8 DEF Lifecycle!LifecycleNext, Lifecycle!Numbers, Displays

\* every other step leaves the stages and the announcements alone
LEMMA OthersStutter ==
    ASSUME TypeOK, PoolInv, [Next]_vars
    PROVE  \/ UNCHANGED Lifecycle!lifecycleVars
           \/ \E c \in Connectors : BusStartLoginSession(c)
           \/ \E c \in Connectors, u \in Users : StartUserSession(c, u)
           \/ DisplayStarted \/ ReapFailedStart
           \/ \E t \in Threads : RemoveSession(t) \/ AnnounceRemoved(t)
<1> DEFINE Kept == UNCHANGED Lifecycle!lifecycleVars
           Removals == \A d : <<"DisplayRemoved", d>> \in signals'
                          <=> <<"DisplayRemoved", d>> \in signals
<1>1. ASSUME UNCHANGED <<sessions, freeDisplay>>, Removals,
             \A d : Starting(d)' <=> Starting(d)
      PROVE  Kept
  BY <1>1, LifecycleStutters
<1>2. ASSUME UNCHANGED <<sessions, freeDisplay, dbus>>, Removals PROVE Kept
  BY <1>1, <1>2 DEF Starting
<1>3. ASSUME UNCHANGED <<sessions, freeDisplay, dbus, signals>> PROVE Kept
  BY <1>2, <1>3
<1>4. ASSUME UNCHANGED <<sessions, freeDisplay, signals>>,
             dbus.pc \notin {"start", "waitpid"}, dbus'.pc \notin {"start", "waitpid"}
      PROVE  Kept
  BY <1>1, <1>4 DEF Starting
<1> HIDE DEF Kept
<1>5. ASSUME NEW c \in Connectors, ConnectorStep(c)
      PROVE  Kept \/ BusStartLoginSession(c) \/ \E u \in Users : StartUserSession(c, u)
  <2>1. CASE (\E u \in Users : ReconnectUserSession(c, u)) \/ ConnectorSwitch(c)
             \/ BusConnectorAlive(c) \/ ConnectorCrash(c)
    BY <2>1, <1>3 DEF ReconnectUserSession, ConnectorSwitch, BusConnectorAlive,
       ConnectorCrash
  <2>2. CASE BusConnectorConnected(c) \/ BusConnectorTerminated(c)
    BY <2>2, <1>4 DEF BusConnectorConnected, BusConnectorTerminated, DbusReady
  <2> QED BY <1>5, <2>1, <2>2 DEF ConnectorStep
<1>6. ASSUME DbusStep PROVE Kept \/ DisplayStarted \/ ReapFailedStart
  <2>1. CASE DisplayNotStarted
    <3>1. \A d : Starting(d)' <=> Starting(d)
      BY <2>1 DEF DisplayNotStarted, Starting, TypeOK, DbusFrame, IdleDbus
    <3> QED BY <2>1, <3>1, <1>1 DEF DisplayNotStarted
  <2>2. CASE PublishSession \/ SetOnline \/ SetOffline
    BY <2>2, <1>4 DEF PublishSession, SetOnline, SetOffline, IdleDbus
  <2> QED BY <1>6, <2>1, <2>2 DEF DbusStep
<1>7. ASSUME NEW t \in Threads, ShutdownStep(t)
      PROVE  Kept \/ RemoveSession(t) \/ AnnounceRemoved(t)
  BY <1>2, <1>7 DEF ShutdownStep, MarkShutdown
<1>8. ASSUME NEW w \in Workers, WorkerStep(w)
      PROVE  Kept \/ RemoveSession(w) \/ AnnounceRemoved(w)
  BY <1>3, <1>7, <1>8 DEF WorkerStep, TakeShutdown, Threads
<1>9. ASSUME StrandStep \/ AliveStep PROVE Kept
  BY <1>3, <1>9 DEF StrandStep, AliveStep, RegisterChild, ReapChild, SessionEnded,
     AliveBegin, AliveOffline, AlivePing, AliveMissed
<1>10. ASSUME StopStep PROVE Kept \/ RemoveSession(Stopper) \/ AnnounceRemoved(Stopper)
  BY <1>3, <1>7, <1>10 DEF StopStep, StopSession, StopLoopDone, StopKill, StopReap,
     Threads
<1>11. ASSUME Environment PROVE Kept
  <2>1. CASE \E d \in Displays : BusShutdownConnector(d) \/ OnlineLimitPassed(d)
    BY <2>1, <1>2 DEF BusShutdownConnector, OnlineLimitPassed
  <2>2. CASE ConfigReloaded
    <3>1. ValidSessions(sessions') = ValidSessions(sessions)
      BY <2>2, ResizeKeeps, ServiceAssumption DEF ConfigReloaded, TypeOK, PoolInv,
         SlotsDistinct
    <3> QED BY <2>2, <3>1, LifecycleStutters DEF ConfigReloaded, Starting, Kept
  <2> QED BY <1>3, <1>11, <2>1, <2>2 DEF Environment, BusShutdownDisplay,
       TimeLimitPassed, ProcTerminated, ProcExits, ProcEnds, StopBegin
<1>12. ASSUME NEW d \in Displays, DestroySession(d) PROVE Kept
  BY <1>3, <1>12 DEF DestroySession
<1>13. ASSUME UNCHANGED vars PROVE Kept
  BY <1>3, <1>13 DEF vars
<1> QED BY <1>5, <1>6, <1>8, <1>9, <1>10, <1>11, <1>12, <1>13 DEF Next, Kept, Threads

\* the initial states map to the initial state
LEMMA InitRefines == Init => Lifecycle!LifecycleInit
<1> SUFFICES ASSUME Init PROVE Lifecycle!LifecycleInit
  OBVIOUS
<1>1. TypeOK /\ PoolInv /\ freeDisplay = 1 /\ signals = {}
  BY InitType, InitPool DEF Init
<1>2. \A d \in Displays : d >= freeDisplay
  BY <1>1, ServiceAssumption DEF Displays
<1>3. \A d \in Displays : StageOf(d) = "unused"
  BY <1>1, <1>2, StageFacts
<1>4. Stage = [d \in Displays |-> "unused"] /\ Announced = {}
  BY <1>1, <1>3 DEF Stage, Announced
<1> QED BY <1>4 DEF Lifecycle!LifecycleInit, Lifecycle!Numbers, Displays, Stage, Announced

\* every step maps to a step or to none
LEMMA NextRefines ==
    TypeOK /\ PoolInv /\ PoolInCapacity /\ [Next]_vars
        => [Lifecycle!LifecycleNext]_(Lifecycle!lifecycleVars)
<1> SUFFICES ASSUME TypeOK, PoolInv, PoolInCapacity, [Next]_vars
             PROVE  [Lifecycle!LifecycleNext]_(Lifecycle!lifecycleVars)
  OBVIOUS
<1>1. ASSUME NEW c \in Connectors, BusStartLoginSession(c)
      PROVE  [Lifecycle!LifecycleNext]_(Lifecycle!lifecycleVars)
  BY <1>1, StartRefines DEF BusStartLoginSession
<1>2. ASSUME NEW c \in Connectors, NEW u \in Users, StartUserSession(c, u)
      PROVE  [Lifecycle!LifecycleNext]_(Lifecycle!lifecycleVars)
  BY <1>2, StartRefines DEF StartUserSession
<1> QED BY <1>1, <1>2, OthersStutter, StartedRefines, FailedRefines, RemoveRefines,
        AnnounceRefines

\* the service implements SessionLifecycle: whatever the threads do, each
\* display number is used once and in order, one session starts at a time, the
\* pool keeps to its capacity, and DisplayRemoved is only sent for a session
\* that has left the pool for good
THEOREM LifecycleImplemented == Spec => ImplementsLifecycle
<1>1. Init => TypeOK /\ PoolInv /\ PoolInCapacity
  BY InitType, InitPool, InitCapacity
<1>2. (TypeOK /\ PoolInv /\ PoolInCapacity) /\ [Next]_vars
         => (TypeOK /\ PoolInv /\ PoolInCapacity)'
  BY NextType, NextPool, NextCapacity
<1> QED BY <1>1, <1>2, InitRefines, NextRefines, PTL
        DEF Spec, ImplementsLifecycle, Lifecycle!LifecycleSpec

-----------------------------------------------------------------------------
(***************************************************************************)
(* limit:users.                                                            *)
(***************************************************************************)
\* the user of the display being started counts already
StartingUser == IF dbus.pc = "start" THEN {sess[dbus.d].user} ELSE {}
UsersReserved == UsersLimit > 0 => Cardinality(PoolUsers \union StartingUser) <= UsersLimit

(***************************************************************************)
(* The sessions, their users and their processes.                          *)
(***************************************************************************)
IsLogin(d) == sess[d].user = LoginUser

\* a number not handed out has no session and no process
FreshUnused ==
    \A d \in Displays : d >= freeDisplay =>
        ~sess[d].live /\ proc[d] = "none" /\ d \notin childs \union registers

\* a session somebody refers to has not been destroyed
HeldIsLive ==
    /\ \A d \in Displays : Held(d) => sess[d].live
    /\ stop.todo \subseteq stop.seen
    /\ stop.todo # {} => stop.pc = "loop"

\* whoever puts a session online or offline does it to a user's session
OnlineIsUsers ==
    /\ \A c \in Connectors : conn[c].display # Empty =>
          conn[c].display < freeDisplay /\ ~IsLogin(conn[c].display)
    /\ dbus.pc \in {"online", "offline"} => ~IsLogin(dbus.d)
    /\ alive.pc = "offline" => alive.d \in Displays /\ ~IsLogin(alive.d)

\* only login screens are shut down without a word to their connectors
SilentIsLogin ==
    /\ \A d \in Displays : shutdowns[d][FALSE] > 0 => IsLogin(d)
    /\ \A t \in Threads : frame[t].pc # "idle" /\ ~frame[t].emit => IsLogin(frame[t].d)

RemovalSignalled ==
    /\ \A t \in Threads : frame[t].pc \in {"remove", "announce"} =>
          IsLogin(frame[t].d) \/ <<"ShutdownConnector", frame[t].d>> \in signals
    /\ UserRemovalWasSignalled

EndedIsReaped == ended # Empty => proc[ended] = "reaped"

\* a child nobody polls yet is the child of the session being started
Tracked(d) ==
    \/ proc[d] \in {"none", "reaped"}
    \/ d \in childs \union registers
    \/ dbus.d = d /\ dbus.pc \in {"start", "waitpid", "publish"}

ChildrenTracked == stop.pc \notin {"reap", "done"} => \A d \in Displays : Tracked(d)

SessionsInv ==
    /\ FreshUnused /\ HeldIsLive /\ LoginScreenModes /\ OnlineIsUsers /\ SilentIsLogin
    /\ RemovalSignalled /\ EndedIsReaped /\ NoRunawayProcess /\ ChildrenTracked

-----------------------------------------------------------------------------
(***************************************************************************)
(* What a step may do to the sessions and to the processes.                *)
(***************************************************************************)
\* runNewDisplaySession was successful
NewSession(c, u) ==
    /\ DbusReady /\ freeDisplay \in Displays
    /\ RunNewDisplaySession(c, u)
    /\ UNCHANGED <<sessions, childs, registers, shutdowns, frame, ended, alive,
                   stop, conn, signals>>

StartsSession == \E c \in Connectors, u \in Users \union {LoginUser} : NewSession(c, u)

\* a bus method that may start a session starts it or refuses
LEMMA StartOrRefuse ==
    ASSUME TypeOK, NEW c \in Connectors, NEW u \in Users \union {LoginUser},
           \/ BusStartLoginSession(c)
           \/ u \in Users /\ StartUserSession(c, u)
    PROVE  StartsSession \/ UNCHANGED <<sess, proc, dbus>>
<1>1. freeDisplay <= MaxDisplay => freeDisplay \in Displays
  BY ServiceAssumption DEF TypeOK, Displays
<1>2. ASSUME NEW v \in Users \union {LoginUser}, DbusReady, RunNewDisplaySession(c, v),
             UNCHANGED <<sessions, childs, registers, shutdowns, frame, ended,
                         alive, stop, signals>>
      PROVE  StartsSession
  BY <1>1, <1>2 DEF StartsSession, NewSession, RunNewDisplaySession
<1>3. NoNewDisplay(c) => UNCHANGED <<sess, proc, dbus>>
  BY DEF NoNewDisplay
<1> QED BY <1>2, <1>3 DEF BusStartLoginSession, StartUserSession

\* the session objects keep their user, and only two steps end one or drop
\* its process
SessKept ==
    \A d \in Displays :
        /\ sess'[d].live = sess[d].live
        /\ sess'[d].user = sess[d].user
        /\ sess'[d].pid1 = sess[d].pid1 \/ (d = ended /\ SessionEnded)

\* every step starts a session, destroys one, or keeps the session objects
LEMMA SessEffects ==
    ASSUME TypeOK, [Next]_vars
    PROVE  StartsSession \/ (\E d \in Displays : DestroySession(d)) \/ SessKept
<1>1. sess \in [Displays -> Session]
  BY DEF TypeOK
<1>2. \A d \in Displays : sess[d] \in Session
  BY <1>1
<1>3. ASSUME UNCHANGED sess PROVE SessKept
  BY <1>3 DEF SessKept
<1>4. ASSUME NEW c \in Connectors, ConnectorStep(c) PROVE StartsSession \/ SessKept
  <2>2. CASE BusStartLoginSession(c)
    BY <2>2, <1>3, StartOrRefuse
  <2>3. ASSUME NEW u \in Users, StartUserSession(c, u) PROVE StartsSession \/ SessKept
    BY <2>3, <1>3, StartOrRefuse
  <2>4. ASSUME NEW u \in Users, ReconnectUserSession(c, u) PROVE SessKept
    BY <2>4, <1>1, <1>2 DEF ReconnectUserSession, SessKept, Session
  <2>5. CASE BusConnectorConnected(c)
    BY <2>5, <1>1, <1>2 DEF BusConnectorConnected, SessKept, Session
  <2>6. CASE BusConnectorAlive(c)
    BY <2>6, <1>1, <1>2 DEF BusConnectorAlive, SessKept, Session
  <2>7. CASE ConnectorSwitch(c) \/ BusConnectorTerminated(c) \/ ConnectorCrash(c)
    BY <2>7, <1>3 DEF ConnectorSwitch, BusConnectorTerminated, ConnectorCrash
  <2> QED BY <1>4, <2>2, <2>3, <2>4, <2>5, <2>6, <2>7 DEF ConnectorStep
<1>5. ASSUME DbusStep PROVE SessKept
  <2>1. CASE PublishSession
    BY <2>1, <1>1, <1>2 DEF PublishSession, SessKept, Session
  <2>2. CASE SetOnline
    BY <2>2, <1>1, <1>2 DEF SetOnline, SessKept, Session
  <2>3. CASE SetOffline
    BY <2>3, <1>1, <1>2 DEF SetOffline, ClearConnection, SessKept, Session
  <2> QED BY <1>3, <1>5, <2>1, <2>2, <2>3 DEF DbusStep, DisplayStarted,
       DisplayNotStarted, ReapFailedStart
<1>6. ASSUME NEW t \in Threads, NEW d \in Displays, NEW e \in BOOLEAN,
             BeginShutdown(t, d, e)
      PROVE  SessKept
  BY <1>6, <1>1, <1>2 DEF BeginShutdown, SessKept, Session
<1>7. ASSUME NEW t \in Threads, ShutdownStep(t) PROVE SessKept
  <2>1. CASE MarkShutdown(t)
    BY <2>1, <1>1, <1>2 DEF MarkShutdown, SessKept, Session
  <2> QED BY <1>3, <1>7, <2>1 DEF ShutdownStep, RemoveSession, AnnounceRemoved
<1>8. ASSUME NEW w \in Workers, WorkerStep(w) PROVE SessKept
  BY <1>6, <1>7, <1>8 DEF WorkerStep, TakeShutdown, Threads
<1>9. ASSUME StrandStep PROVE SessKept
  <2>1. CASE SessionEnded
    <3>1. sess' = [sess EXCEPT ![ended].pid1 = FALSE] \/ UNCHANGED sess
      BY <2>1 DEF SessionEnded
    <3> QED BY <2>1, <3>1, <1>1, <1>2 DEF SessKept, Session
  <2> QED BY <1>3, <1>9, <2>1 DEF StrandStep, RegisterChild, ReapChild
<1>10. ASSUME AliveStep PROVE SessKept
  <2>1. ASSUME NEW d \in Displays, AlivePing(d) PROVE SessKept
    BY <2>1, <1>1, <1>2 DEF AlivePing, SessKept, Session
  <2>2. ASSUME NEW d \in Displays, AliveMissed(d) PROVE SessKept
    BY <2>2, <1>1, <1>2 DEF AliveMissed, SessKept, Session
  <2>3. CASE AliveOffline
    BY <2>3, <1>1, <1>2 DEF AliveOffline, ClearConnection, SessKept, Session
  <2> QED BY <1>3, <1>10, <2>1, <2>2, <2>3 DEF AliveStep, AliveBegin
<1>11. ASSUME StopStep PROVE SessKept
  BY <1>3, <1>6, <1>7, <1>11 DEF StopStep, StopSession, StopLoopDone, StopKill,
     StopReap, Threads
<1>12. ASSUME Environment PROVE SessKept
  BY <1>3, <1>12 DEF Environment, BusShutdownDisplay, BusShutdownConnector,
     TimeLimitPassed, OnlineLimitPassed, ProcTerminated, ProcExits, ProcEnds,
     ConfigReloaded, StopBegin
<1> QED BY <1>3, <1>4, <1>5, <1>8, <1>9, <1>10, <1>11, <1>12 DEF Next, vars

\* only runNewDisplaySession makes a process; one that was reaped stays reaped
ProcKept ==
    \A d \in Displays :
        /\ proc[d] = "reaped" => proc'[d] = "reaped"
        /\ proc[d] = "none" => proc'[d] = "none" \/ (d \in childs /\ StopReap)
        /\ proc'[d] = "running" => proc[d] = "running"

\* a display process comes up only where a session is started, leaves the
\* running state only for good, and is reaped in two places
LEMMA ProcEffects ==
    ASSUME TypeOK, [Next]_vars
    PROVE  StartsSession \/ ProcKept
<1>1. proc \in [Displays -> ProcStates]
  BY DEF TypeOK
<1>2. ASSUME UNCHANGED proc PROVE ProcKept
  BY <1>2 DEF ProcKept
<1>3. ASSUME NEW c \in Connectors, ConnectorStep(c) PROVE StartsSession \/ ProcKept
  <2>2. CASE BusStartLoginSession(c)
    BY <2>2, <1>2, StartOrRefuse
  <2>3. ASSUME NEW u \in Users, StartUserSession(c, u) PROVE StartsSession \/ ProcKept
    BY <2>3, <1>2, StartOrRefuse
  <2> QED BY <1>2, <1>3, <2>2, <2>3 DEF ConnectorStep, ReconnectUserSession,
       BusConnectorConnected, BusConnectorAlive, ConnectorSwitch,
       BusConnectorTerminated, ConnectorCrash
<1>4. ASSUME DbusStep PROVE ProcKept
  <2>1. CASE ReapFailedStart
    BY <2>1, <1>1 DEF ReapFailedStart, ProcKept
  <2> QED BY <1>2, <1>4, <2>1 DEF DbusStep, DisplayStarted, DisplayNotStarted,
       PublishSession, SetOnline, SetOffline, ClearConnection
<1>5. ASSUME NEW t \in Threads, ShutdownStep(t) PROVE ProcKept
  BY <1>2, <1>5 DEF ShutdownStep, MarkShutdown, RemoveSession, AnnounceRemoved
<1>6. ASSUME NEW w \in Workers, WorkerStep(w) PROVE ProcKept
  BY <1>2, <1>5, <1>6 DEF WorkerStep, TakeShutdown, Threads
<1>7. ASSUME StrandStep PROVE ProcKept
  <2>1. ASSUME NEW d \in Displays, ReapChild(d) PROVE ProcKept
    BY <2>1, <1>1 DEF ReapChild, ProcKept
  <2> QED BY <1>2, <1>7, <2>1 DEF StrandStep, RegisterChild, SessionEnded
<1>8. ASSUME AliveStep PROVE ProcKept
  BY <1>2, <1>8 DEF AliveStep, AliveBegin, AlivePing, AliveMissed, AliveOffline
<1>9. ASSUME StopStep PROVE ProcKept
  <2>1. CASE StopKill
    BY <2>1, <1>1 DEF StopKill, Terminate, ProcKept
  <2>2. CASE StopReap
    BY <2>2, <1>1 DEF StopReap, ProcKept
  <2> QED BY <1>2, <1>5, <1>9, <2>1, <2>2 DEF StopStep, StopSession, StopLoopDone, Threads
<1>10. ASSUME Environment PROVE ProcKept
  <2>1. ASSUME NEW d \in Displays, ProcTerminated(d) \/ ProcExits(d) PROVE ProcKept
    BY <2>1, <1>1 DEF ProcTerminated, ProcExits, ProcEnds, ProcKept
  <2> QED BY <1>2, <1>10, <2>1 DEF Environment, BusShutdownDisplay,
       BusShutdownConnector, TimeLimitPassed, OnlineLimitPassed, ConfigReloaded,
       StopBegin
<1>11. ASSUME NEW d \in Displays, DestroySession(d) PROVE ProcKept
  BY <1>1, <1>11 DEF DestroySession, Terminate, ProcKept
<1> QED BY <1>2, <1>3, <1>4, <1>6, <1>7, <1>8, <1>9, <1>10, <1>11 DEF Next, vars

-----------------------------------------------------------------------------
(***************************************************************************)
(* The inductive step, one lemma per part.                                 *)
(***************************************************************************)
\* who refers to a session got it from the pool or from another reference,
\* unless it has just been started
LEMMA HeldFrom ==
    ASSUME TypeOK, PoolInv, HeldIsLive, [Next]_vars, ~StartsSession,
           NEW d \in Displays, Held(d)'
    PROVE  Held(d)
<1>0. d # Empty
  BY DEF Displays, Empty
<1>1. sessions \in Seq(Displays \union {Empty}) /\ dbus \in DbusFrame
      /\ alive \in AliveFrame /\ stop \in StopFrame /\ frame \in [Threads -> Frame]
      /\ shutdowns \in [Displays -> [BOOLEAN -> Nat]]
  BY DEF TypeOK
<1>2. ASSUME UNCHANGED <<sessions, frame, dbus, alive, stop>>,
             \A x \in Displays, b \in BOOLEAN :
                shutdowns'[x][b] > 0 => shutdowns[x][b] > 0 \/ Pooled(x)
      PROVE  Held(d)
  BY <1>2 DEF Held, Pooled
<1>3. ASSUME UNCHANGED <<sessions, shutdowns, frame, dbus, alive, stop>> PROVE Held(d)
  BY <1>3 DEF Held, Pooled
<1>4. ASSUME NEW c \in Connectors, ConnectorStep(c) PROVE Held(d)
  <2>1. ASSUME NEW u \in Users \union {LoginUser},
               BusStartLoginSession(c) \/ (u \in Users /\ StartUserSession(c, u))
        PROVE  Held(d)
    <3>1. UNCHANGED dbus
      BY <2>1, StartOrRefuse
    <3> QED BY <2>1, <3>1, <1>3 DEF BusStartLoginSession, StartUserSession
  <2>2. CASE ConnectorSwitch(c)
    <3>1. \A x \in Displays, b \in BOOLEAN :
                shutdowns'[x][b] > 0 => shutdowns[x][b] > 0 \/ Pooled(x)
      BY <2>2, PostPooled DEF ConnectorSwitch
    <3> QED BY <2>2, <3>1, <1>2 DEF ConnectorSwitch
  <2>3. CASE BusConnectorConnected(c)
    BY <2>3, <1>0 DEF BusConnectorConnected, Held, Pooled
  <2>4. CASE BusConnectorTerminated(c)
    <3>1. \A x \in Displays, b \in BOOLEAN :
                shutdowns'[x][b] > 0 => shutdowns[x][b] > 0 \/ Pooled(x)
      BY <2>4, PostPooled DEF BusConnectorTerminated
    <3> QED BY <2>4, <3>1, <1>0 DEF BusConnectorTerminated, GoesOffline, Held, Pooled
  <2>5. CASE BusConnectorAlive(c) \/ ConnectorCrash(c)
             \/ \E u \in Users : ReconnectUserSession(c, u)
    BY <2>5, <1>3 DEF BusConnectorAlive, ConnectorCrash, ReconnectUserSession
  <2> QED BY <1>4, <2>1, <2>2, <2>3, <2>4, <2>5 DEF ConnectorStep
<1>5. ASSUME DbusStep PROVE Held(d)
  <2>1. CASE DisplayStarted
    <3>1. dbus.d \in Displays /\ ~Known(dbus.d) /\ ~IsSessionsFull(sessions)
      BY <2>1 DEF DisplayStarted, PoolInv, KnownOnly, StartingHasSlot, Known, Starting
    <3>2. dbus.d \notin ValidSessions(sessions)
      BY <3>1 DEF PoolInv, KnownOnly, Pooled
    <3>3. ValidSessions(sessions') = ValidSessions(sessions) \union {dbus.d}
      BY <2>1, <3>1, <3>2, <1>1, AppendAdds DEF DisplayStarted, PoolInv, SlotsDistinct
    <3>4. dbus'.d = dbus.d
      BY <2>1, <3>1, <1>1 DEF DisplayStarted, DbusFrame, IdleDbus
    <3>5. UNCHANGED <<shutdowns, frame, alive, stop>>
      BY <2>1 DEF DisplayStarted
    <3> QED BY <3>3, <3>4, <3>5 DEF Held, Pooled
  <2>2. CASE DisplayNotStarted
    <3>1. dbus'.d = dbus.d
      BY <2>2, <1>1 DEF DisplayNotStarted, DbusFrame, IdleDbus
    <3> QED BY <2>2, <3>1 DEF DisplayNotStarted, Held, Pooled
  <2>3. CASE ReapFailedStart \/ PublishSession \/ SetOnline \/ SetOffline
    <3>1. dbus'.d # d
      BY <2>3, <1>0 DEF ReapFailedStart, PublishSession, SetOnline, SetOffline, IdleDbus
    <3>2. UNCHANGED <<sessions, shutdowns, frame, alive, stop>>
      BY <2>3 DEF ReapFailedStart, PublishSession, SetOnline, SetOffline
    <3> QED BY <3>1, <3>2 DEF Held, Pooled
  <2> QED BY <1>5, <2>1, <2>2, <2>3 DEF DbusStep
<1>6. ASSUME NEW t \in Threads, NEW x \in Displays, NEW e \in BOOLEAN,
             BeginShutdown(t, x, e), Held(x),
             UNCHANGED <<sessions, dbus, alive>>,
             stop'.seen = stop.seen, stop'.pc = stop.pc,
             \A y \in Displays, b \in BOOLEAN : shutdowns'[y][b] > 0 => shutdowns[y][b] > 0
      PROVE  Held(d)
  <2>1. frame' = frame \/ frame' = [frame EXCEPT ![t] = [pc |-> "mark", d |-> x, emit |-> e]]
    BY <1>6 DEF BeginShutdown
  <2>2. frame \in [Threads -> Frame]
    BY <1>1
  <2>3. \A r \in Threads : frame'[r].d = frame[r].d \/ frame'[r].d = x
    BY <2>1, <2>2
  <2> QED BY <1>6, <2>3 DEF Held, Pooled
<1>7. ASSUME NEW t \in Threads, ShutdownStep(t) PROVE Held(d)
  <2>1. \A r \in Threads : frame'[r].d = frame[r].d \/ frame'[r].d = Empty
    <3>1. frame \in [Threads -> Frame]
      BY <1>1
    <3>2. CASE MarkShutdown(t) \/ RemoveSession(t)
      BY <3>1, <3>2 DEF MarkShutdown, RemoveSession, Frame, IdleFrame
    <3>3. CASE AnnounceRemoved(t)
      BY <3>1, <3>3 DEF AnnounceRemoved, IdleFrame
    <3> QED BY <1>7, <3>2, <3>3 DEF ShutdownStep
  <2>2. UNCHANGED <<shutdowns, dbus, alive, stop>>
    BY <1>7 DEF ShutdownStep, MarkShutdown, RemoveSession, AnnounceRemoved
  <2>3. ValidSessions(sessions') \subseteq ValidSessions(sessions)
    <3>1. CASE RemoveSession(t)
      <4>1. frame[t].d \in Displays
        BY <3>1, FrameHasDisplay DEF RemoveSession
      <4> QED BY <3>1, <4>1, <1>1, RemoveTakesOut DEF RemoveSession, PoolInv, SlotsDistinct
    <3> QED BY <1>7, <3>1 DEF ShutdownStep, MarkShutdown, AnnounceRemoved
  <2> QED BY <2>1, <2>2, <2>3, <1>0 DEF Held, Pooled
<1>8. ASSUME NEW w \in Workers, WorkerStep(w) PROVE Held(d)
  <2>1. ASSUME NEW x \in Displays, NEW e \in BOOLEAN, TakeShutdown(w, x, e) PROVE Held(d)
    <3>1. \A y \in Displays, b \in BOOLEAN : shutdowns'[y][b] > 0 => shutdowns[y][b] > 0
      BY <2>1, <1>1 DEF TakeShutdown
    <3>2. Held(x)
      BY <2>1 DEF TakeShutdown, Held
    <3> QED BY <2>1, <3>1, <3>2, <1>6 DEF TakeShutdown, Threads
  <2> QED BY <1>7, <1>8, <2>1 DEF WorkerStep, Threads
<1>9. ASSUME StrandStep PROVE Held(d)
  <2>1. CASE SessionEnded
    <3>1. \A x \in Displays, b \in BOOLEAN :
                shutdowns'[x][b] > 0 => shutdowns[x][b] > 0 \/ Pooled(x)
      BY <2>1, PostPooled DEF SessionEnded
    <3> QED BY <2>1, <3>1, <1>2 DEF SessionEnded
  <2> QED BY <1>3, <1>9, <2>1 DEF StrandStep, RegisterChild, ReapChild
<1>10. ASSUME AliveStep PROVE Held(d)
  <2>1. CASE AliveBegin
    <3>1. alive'.d # d /\ (d \in alive'.todo => d \in ValidSessions(sessions))
      BY <2>1, <1>0 DEF AliveBegin
    <3>2. UNCHANGED <<sessions, shutdowns, frame, dbus, stop>>
      BY <2>1 DEF AliveBegin
    <3> QED BY <3>1, <3>2 DEF Held, Pooled
  <2>2. ASSUME NEW x \in Displays, AlivePing(x) PROVE Held(d)
    <3>1. alive'.d # d /\ alive'.todo \subseteq alive.todo
      BY <2>2, <1>0 DEF AlivePing, AliveRest, IdleAlive
    <3>2. UNCHANGED <<sessions, shutdowns, frame, dbus, stop>>
      BY <2>2 DEF AlivePing
    <3> QED BY <3>1, <3>2 DEF Held, Pooled
  <2>3. ASSUME NEW x \in Displays, AliveMissed(x) PROVE Held(d)
    <3>1. \A y \in Displays, b \in BOOLEAN :
                shutdowns'[y][b] > 0 => shutdowns[y][b] > 0 \/ Pooled(y)
      BY <2>3, PostPooled DEF AliveMissed
    <3>2. UNCHANGED <<sessions, frame, dbus, stop>>
      BY <2>3 DEF AliveMissed
    <3>3. (alive'.d = d => d \in alive.todo) /\ alive'.todo \subseteq alive.todo
      BY <2>3, <1>0, <1>1 DEF AliveMissed, AliveRest, IdleAlive, AliveFrame
    <3> QED BY <3>1, <3>2, <3>3 DEF Held, Pooled
  <2>4. CASE AliveOffline
    BY <2>4, <1>0 DEF AliveOffline, AliveRest, IdleAlive, Held, Pooled
  <2> QED BY <1>10, <2>1, <2>2, <2>3, <2>4 DEF AliveStep
<1>11. ASSUME StopStep PROVE Held(d)
  <2>1. ASSUME NEW x \in Displays, StopSession(x) PROVE Held(d)
    <3>1. Held(x)
      BY <2>1 DEF StopSession, Held, HeldIsLive
    <3>2. stop'.seen = stop.seen /\ stop'.pc = stop.pc
      BY <2>1, <1>1 DEF StopSession, StopFrame
    <3> QED BY <2>1, <3>1, <3>2, <1>6 DEF StopSession, Threads
  <2>2. CASE StopLoopDone \/ StopKill \/ StopReap
    <3>1. stop'.pc # "loop"
      BY <2>2, <1>1 DEF StopLoopDone, StopKill, StopReap, StopFrame
    <3> QED BY <2>2, <3>1 DEF StopLoopDone, StopKill, StopReap, Held, Pooled
  <2> QED BY <1>7, <1>11, <2>1, <2>2 DEF StopStep, Threads
<1>12. ASSUME Environment PROVE Held(d)
  <2>1. ASSUME NEW x \in Displays, BusShutdownDisplay(x) \/ TimeLimitPassed(x) PROVE Held(d)
    <3>1. \A y \in Displays, b \in BOOLEAN :
                shutdowns'[y][b] > 0 => shutdowns[y][b] > 0 \/ Pooled(y)
      BY <2>1, PostPooled DEF BusShutdownDisplay, TimeLimitPassed
    <3> QED BY <2>1, <3>1, <1>2 DEF BusShutdownDisplay, TimeLimitPassed
  <2>2. CASE StopBegin
    BY <2>2 DEF StopBegin, Held, Pooled
  <2>3. CASE ConfigReloaded
    <3>1. ValidSessions(sessions') = ValidSessions(sessions)
      BY <2>3, <1>1, ResizeKeeps, ServiceAssumption DEF ConfigReloaded, PoolInv, SlotsDistinct
    <3> QED BY <2>3, <3>1 DEF ConfigReloaded, Held, Pooled
  <2> QED BY <1>3, <1>12, <2>1, <2>2, <2>3 DEF Environment, BusShutdownConnector,
       OnlineLimitPassed, ProcTerminated, ProcExits, ProcEnds
<1>13. ASSUME NEW x \in Displays, DestroySession(x) PROVE Held(d)
  BY <1>3, <1>13 DEF DestroySession
<1>14. ASSUME UNCHANGED vars PROVE Held(d)
  BY <1>3, <1>14 DEF vars
<1> QED BY <1>4, <1>5, <1>8, <1>9, <1>10, <1>11, <1>12, <1>13, <1>14 DEF Next

\* the steps of stop() are the only ones that write its state
LEMMA StopWriters ==
    ASSUME [Next]_vars
    PROVE  \/ UNCHANGED stop
           \/ StopBegin \/ StopLoopDone \/ StopKill \/ StopReap
           \/ \E d \in Displays : StopSession(d)
<1>1. CASE \E c \in Connectors : ConnectorStep(c)
  BY <1>1 DEF ConnectorStep, BusStartLoginSession, StartUserSession,
     ReconnectUserSession, ConnectorSwitch, BusConnectorConnected,
     BusConnectorAlive, BusConnectorTerminated, ConnectorCrash
<1>2. CASE DbusStep
  BY <1>2 DEF DbusStep, DisplayStarted, DisplayNotStarted, ReapFailedStart,
     PublishSession, SetOnline, SetOffline
<1>3. CASE \E w \in Workers : WorkerStep(w)
  BY <1>3 DEF WorkerStep, TakeShutdown, ShutdownStep, MarkShutdown, RemoveSession,
     AnnounceRemoved
<1>4. CASE StrandStep \/ AliveStep
  BY <1>4 DEF StrandStep, AliveStep, RegisterChild, ReapChild, SessionEnded,
     AliveBegin, AliveOffline, AlivePing, AliveMissed
<1>5. CASE StopStep
  BY <1>5 DEF StopStep, ShutdownStep, MarkShutdown, RemoveSession, AnnounceRemoved
<1>6. CASE Environment \/ \E d \in Displays : DestroySession(d)
  BY <1>6 DEF Environment, BusShutdownDisplay, BusShutdownConnector,
     TimeLimitPassed, OnlineLimitPassed, ProcTerminated, ProcExits, ProcEnds,
     ConfigReloaded, DestroySession
<1> QED BY <1>1, <1>2, <1>3, <1>4, <1>5, <1>6 DEF Next, vars

\* display numbers are handed out one by one, and a pid is polled once the
\* session is published
LEMMA NumbersAndPids ==
    ASSUME TypeOK, [Next]_vars
    PROVE  /\ freeDisplay' \in {freeDisplay, freeDisplay + 1}
           /\ \/ childs' \union registers' \subseteq childs \union registers
              \/ PublishSession
<1>1. CASE \E c \in Connectors : ConnectorStep(c)
  BY <1>1 DEF ConnectorStep, BusStartLoginSession, StartUserSession, NextDisplay,
     RunNewDisplaySession, NoNewDisplay, ReconnectUserSession, ConnectorSwitch,
     BusConnectorConnected, BusConnectorAlive, BusConnectorTerminated, ConnectorCrash
<1>2. CASE DbusStep
  BY <1>2 DEF DbusStep, DisplayStarted, DisplayNotStarted, ReapFailedStart,
     PublishSession, SetOnline, SetOffline
<1>3. CASE \E w \in Workers : WorkerStep(w)
  BY <1>3 DEF WorkerStep, TakeShutdown, ShutdownStep, MarkShutdown, RemoveSession,
     AnnounceRemoved
<1>4. CASE StrandStep \/ AliveStep
  BY <1>4 DEF StrandStep, AliveStep, RegisterChild, ReapChild, SessionEnded,
     AliveBegin, AliveOffline, AlivePing, AliveMissed
<1>5. CASE StopStep
  BY <1>5 DEF StopStep, ShutdownStep, MarkShutdown, RemoveSession, AnnounceRemoved,
     StopSession, StopLoopDone, StopKill, StopReap
<1>6. CASE Environment \/ \E d \in Displays : DestroySession(d)
  BY <1>6 DEF Environment, BusShutdownDisplay, BusShutdownConnector,
     TimeLimitPassed, OnlineLimitPassed, ProcTerminated, ProcExits, ProcEnds,
     ConfigReloaded, StopBegin, DestroySession
<1> QED BY <1>1, <1>2, <1>3, <1>4, <1>5, <1>6 DEF Next, vars

\* appendNewSession takes the first free display number, so the numbers above
\* it are unused after every step
LEMMA NextFresh ==
    ASSUME TypeOK, PoolInv, FreshUnused, [Next]_vars
    PROVE  FreshUnused'
<1>1. freeDisplay \in Nat /\ Displays \subseteq Nat /\ sess \in [Displays -> Session]
      /\ proc \in [Displays -> ProcStates]
  BY ServiceAssumption DEF TypeOK, Displays
<1> SUFFICES ASSUME NEW d \in Displays, d >= freeDisplay'
             PROVE  ~sess'[d].live /\ proc'[d] = "none" /\ d \notin childs' \union registers'
  BY DEF FreshUnused
<1>2. d >= freeDisplay /\ (freeDisplay' # freeDisplay => d # freeDisplay)
  BY <1>1, NumbersAndPids
<1>3. ~sess[d].live /\ proc[d] = "none" /\ d \notin childs \union registers
  BY <1>2 DEF FreshUnused
<1>4. d \notin childs' \union registers'
  <2>1. CASE PublishSession
    BY <1>2, <1>1, <1>3, <2>1 DEF PublishSession, PoolInv, KnownOnly
  <2> QED BY <1>3, <2>1, NumbersAndPids
<1>5. CASE StartsSession
  <2>1. d # freeDisplay
    BY <1>1, <1>2, <1>5 DEF StartsSession, NewSession, RunNewDisplaySession, NextDisplay
  <2> QED BY <1>1, <1>3, <1>4, <1>5, <2>1 DEF StartsSession, NewSession, RunNewDisplaySession
<1>6. CASE ~StartsSession
  <2>1. proc'[d] = "none"
    BY <1>3, <1>6, ProcEffects DEF ProcKept
  <2>2. ~sess'[d].live
    <3>1. ASSUME NEW x \in Displays, DestroySession(x) PROVE ~sess'[d].live
      BY <1>1, <1>3, <3>1 DEF DestroySession
    <3> QED BY <1>3, <1>6, <3>1, SessEffects DEF SessKept
  <2> QED BY <1>4, <2>1, <2>2
<1> QED BY <1>5, <1>6

\* ~XvfbSession runs only for a session nobody refers to, and nobody gets a
\* reference to a destroyed one
LEMMA NextHeld ==
    ASSUME TypeOK, PoolInv, FreshUnused, HeldIsLive, [Next]_vars
    PROVE  HeldIsLive'
<1>1. sess \in [Displays -> Session] /\ stop \in StopFrame /\ dbus \in DbusFrame
  BY DEF TypeOK
<1>2. \A d \in Displays : Held(d)' => sess'[d].live
  <2> SUFFICES ASSUME NEW d \in Displays, Held(d)' PROVE sess'[d].live
    OBVIOUS
  <2>1. CASE StartsSession
    <3>1. Held(d) \/ d = freeDisplay
      BY <2>1 DEF StartsSession, NewSession, RunNewDisplaySession, Held, Pooled
    <3> QED BY <1>1, <2>1, <3>1 DEF StartsSession, NewSession, RunNewDisplaySession,
         HeldIsLive
  <2>2. ASSUME ~StartsSession, NEW x \in Displays, DestroySession(x) PROVE sess'[d].live
    <3>1. Held(d)
      BY <2>2, HeldFrom
    <3>2. d # x
      BY <2>2, <3>1 DEF DestroySession
    <3> QED BY <1>1, <2>2, <3>1, <3>2 DEF DestroySession, HeldIsLive
  <2>3. CASE ~StartsSession /\ SessKept
    BY <2>3, HeldFrom DEF SessKept, HeldIsLive
  <2> QED BY <2>1, <2>2, <2>3, SessEffects
<1>3. stop'.todo \subseteq stop'.seen /\ (stop'.todo # {} => stop'.pc = "loop")
  <2>1. CASE UNCHANGED stop
    BY <2>1 DEF HeldIsLive
  <2>2. CASE StopBegin
    BY <2>2 DEF StopBegin
  <2>3. ASSUME NEW d \in Displays, StopSession(d)
        PROVE  stop'.todo \subseteq stop'.seen /\ (stop'.todo # {} => stop'.pc = "loop")
    BY <2>3, <1>1 DEF StopSession, StopFrame, HeldIsLive
  <2>4. CASE StopLoopDone \/ StopKill \/ StopReap
    BY <2>4, <1>1 DEF StopLoopDone, StopKill, StopReap, StopFrame, HeldIsLive
  <2> QED BY <2>1, <2>2, <2>3, <2>4, StopWriters
<1> QED BY <1>2, <1>3 DEF HeldIsLive

\* a session belongs to the user it was started for, even when it is destroyed
LEMMA UserStays ==
    ASSUME TypeOK, [Next]_vars, NEW d \in Displays, d < freeDisplay
    PROVE  sess'[d].user = sess[d].user
<1>1. sess \in [Displays -> Session] /\ freeDisplay \in Nat /\ d \in Nat
  BY ServiceAssumption DEF TypeOK, Displays
<1>2. CASE StartsSession
  BY <1>1, <1>2 DEF StartsSession, NewSession, RunNewDisplaySession
<1>3. ASSUME NEW x \in Displays, DestroySession(x) PROVE sess'[d].user = sess[d].user
  BY <1>1, <1>3 DEF DestroySession
<1> QED BY <1>2, <1>3, SessEffects DEF SessKept

\* a session somebody refers to has a number that was handed out
LEMMA HeldHandedOut ==
    ASSUME TypeOK, FreshUnused, HeldIsLive, NEW d \in Displays, Held(d)
    PROVE  d < freeDisplay /\ sess[d].live
  BY ServiceAssumption DEF TypeOK, Displays, FreshUnused, HeldIsLive

\* the mode of a session is set to Shutdown by any thread, to another mode
\* only if the session is a user's, and never to Login
ModeKept ==
    \A d \in Displays :
        \/ sess'[d].mode \in {sess[d].mode, "Shutdown"}
        \/ ~IsLogin(d) /\ sess'[d].mode \in {"Started", "Connected", "Disconnected"}

\* the mode of a session moves only as the handlers that write it say
LEMMA ModeEffects ==
    ASSUME TypeOK, PoolInv, OnlineIsUsers, [Next]_vars
    PROVE  StartsSession \/ ModeKept
<1>1. sess \in [Displays -> Session]
  BY DEF TypeOK
<1>2. \A d \in Displays : sess[d] \in Session
  BY <1>1
<1>3. ASSUME UNCHANGED sess PROVE ModeKept
  BY <1>3 DEF ModeKept
<1>4. ASSUME NEW c \in Connectors, ConnectorStep(c) PROVE StartsSession \/ ModeKept
  <2>1. CASE BusStartLoginSession(c)
    BY <2>1, <1>3, StartOrRefuse
  <2>2. ASSUME NEW u \in Users, StartUserSession(c, u) PROVE StartsSession \/ ModeKept
    BY <2>2, <1>3, StartOrRefuse
  <2>3. ASSUME NEW u \in Users, ReconnectUserSession(c, u) PROVE ModeKept
    BY <2>3, <1>1, <1>2 DEF ReconnectUserSession, ModeKept, Session
  <2>4. CASE BusConnectorConnected(c)
    BY <2>4, <1>1, <1>2 DEF BusConnectorConnected, ModeKept, Session
  <2>5. CASE BusConnectorAlive(c)
    BY <2>5, <1>1, <1>2 DEF BusConnectorAlive, ModeKept, Session
  <2> QED BY <1>3, <1>4, <2>1, <2>2, <2>3, <2>4, <2>5 DEF ConnectorStep,
       ConnectorSwitch, BusConnectorTerminated, ConnectorCrash
<1>5. ASSUME DbusStep PROVE ModeKept
  <2>1. CASE PublishSession
    BY <2>1, <1>1, <1>2 DEF PublishSession, ModeKept, Session, IsLogin
  <2>2. CASE SetOnline
    BY <2>2, <1>1, <1>2 DEF SetOnline, ModeKept, Session, OnlineIsUsers
  <2>3. CASE SetOffline
    BY <2>3, <1>1, <1>2 DEF SetOffline, ClearConnection, ModeKept, Session, OnlineIsUsers
  <2> QED BY <1>3, <1>5, <2>1, <2>2, <2>3 DEF DbusStep, DisplayStarted,
       DisplayNotStarted, ReapFailedStart
<1>6. ASSUME NEW t \in Threads, NEW d \in Displays, NEW e \in BOOLEAN,
             BeginShutdown(t, d, e)
      PROVE  ModeKept
  BY <1>6, <1>1, <1>2 DEF BeginShutdown, ModeKept, Session
<1>7. ASSUME NEW t \in Threads, ShutdownStep(t) PROVE ModeKept
  <2>1. CASE MarkShutdown(t)
    BY <2>1, <1>1, <1>2 DEF MarkShutdown, ModeKept, Session
  <2> QED BY <1>3, <1>7, <2>1 DEF ShutdownStep, RemoveSession, AnnounceRemoved
<1>8. ASSUME NEW w \in Workers, WorkerStep(w) PROVE ModeKept
  BY <1>6, <1>7, <1>8 DEF WorkerStep, TakeShutdown, Threads
<1>9. ASSUME StrandStep PROVE ModeKept
  <2>1. CASE SessionEnded
    <3>1. sess' = [sess EXCEPT ![ended].pid1 = FALSE] \/ UNCHANGED sess
      BY <2>1 DEF SessionEnded
    <3> QED BY <2>1, <3>1, <1>1, <1>2 DEF ModeKept, Session
  <2> QED BY <1>3, <1>9, <2>1 DEF StrandStep, RegisterChild, ReapChild
<1>10. ASSUME AliveStep PROVE ModeKept
  <2>1. ASSUME NEW d \in Displays, AlivePing(d) PROVE ModeKept
    BY <2>1, <1>1, <1>2 DEF AlivePing, ModeKept, Session
  <2>2. ASSUME NEW d \in Displays, AliveMissed(d) PROVE ModeKept
    BY <2>2, <1>1, <1>2 DEF AliveMissed, ModeKept, Session
  <2>3. CASE AliveOffline
    BY <2>3, <1>1, <1>2 DEF AliveOffline, ClearConnection, ModeKept, Session, OnlineIsUsers
  <2> QED BY <1>3, <1>10, <2>1, <2>2, <2>3 DEF AliveStep, AliveBegin
<1>11. ASSUME StopStep PROVE ModeKept
  BY <1>3, <1>6, <1>7, <1>11 DEF StopStep, StopSession, StopLoopDone, StopKill,
     StopReap, Threads
<1>12. ASSUME Environment PROVE ModeKept
  BY <1>3, <1>12 DEF Environment, BusShutdownDisplay, BusShutdownConnector,
     TimeLimitPassed, OnlineLimitPassed, ProcTerminated, ProcExits, ProcEnds,
     ConfigReloaded, StopBegin
<1>13. ASSUME NEW d \in Displays, DestroySession(d) PROVE ModeKept
  BY <1>1, <1>13 DEF DestroySession, ModeKept
<1> QED BY <1>3, <1>4, <1>5, <1>8, <1>9, <1>10, <1>11, <1>12, <1>13 DEF Next, vars

\* a login screen's mode stays Login or Shutdown: no handler puts it online
LEMMA NextModes ==
    ASSUME TypeOK, PoolInv, LoginScreenModes, OnlineIsUsers, [Next]_vars
    PROVE  LoginScreenModes'
<1>1. sess \in [Displays -> Session]
  BY DEF TypeOK
<1> SUFFICES ASSUME NEW d \in Displays, sess'[d].live
             PROVE  IF sess'[d].user = LoginUser THEN sess'[d].mode \in {"Login", "Shutdown"}
                    ELSE sess'[d].mode # "Login"
  BY DEF LoginScreenModes, ModeIn
<1>2. CASE StartsSession
  BY <1>1, <1>2, ServiceAssumption DEF StartsSession, NewSession, RunNewDisplaySession,
     LoginScreenModes, ModeIn
<1>3. ASSUME NEW x \in Displays, DestroySession(x), ~StartsSession
      PROVE  sess[d].live /\ sess'[d].user = sess[d].user
  BY <1>1, <1>3 DEF DestroySession
<1>4. CASE ~StartsSession
  <2>1. sess[d].live /\ sess'[d].user = sess[d].user
    BY <1>3, <1>4, SessEffects DEF SessKept
  <2>2. \/ sess'[d].mode \in {sess[d].mode, "Shutdown"}
        \/ ~IsLogin(d) /\ sess'[d].mode \in {"Started", "Connected", "Disconnected"}
    BY <1>4, ModeEffects DEF ModeKept
  <2> QED BY <2>1, <2>2 DEF LoginScreenModes, ModeIn, IsLogin
<1> QED BY <1>2, <1>4

\* a session in the pool is known, alive and handed out
LEMMA PooledFacts ==
    ASSUME TypeOK, PoolInv, FreshUnused, HeldIsLive, NEW d, Pooled(d)
    PROVE  /\ d \in Displays /\ d # Empty /\ d < freeDisplay
           /\ Held(d) /\ sess[d].live
<1>1. d \in Displays
  BY ValidAreDisplays DEF Pooled, TypeOK
<1>2. Held(d)
  BY DEF Held
<1>3. d # Empty
  BY <1>1 DEF Displays, Empty
<1> QED BY <1>1, <1>2, <1>3, HeldHandedOut

\* what a connector has been given is a user's session
LEMMA NextGiven ==
    ASSUME TypeOK, PoolInv, FreshUnused, HeldIsLive, OnlineIsUsers, [Next]_vars,
           NEW c \in Connectors, conn'[c].display # Empty
    PROVE  conn'[c].display < freeDisplay' /\ sess'[conn'[c].display].user # LoginUser
<1> DEFINE x == conn'[c].display
<1>0. conn \in [Connectors -> Conn] /\ conn'[c] \in Conn /\ freeDisplay \in Nat
      /\ freeDisplay' \in Nat /\ freeDisplay' >= freeDisplay
  <2>1. TypeOK'
    BY NextType
  <2> QED BY <2>1, NumbersAndPids, ServiceAssumption DEF TypeOK, Displays
<1>1. x \in Displays /\ x \in Nat
  BY <1>0, ServiceAssumption DEF Conn, Displays
<1>2. ASSUME x < freeDisplay, ~IsLogin(x)
      PROVE  x < freeDisplay' /\ sess'[x].user # LoginUser
  BY <1>0, <1>1, <1>2, UserStays DEF IsLogin
<1>3. ASSUME conn'[c].display = conn[c].display PROVE x < freeDisplay /\ ~IsLogin(x)
  BY <1>3 DEF OnlineIsUsers
<1>4. ASSUME NEW k \in Connectors, ConnectorStep(k)
      PROVE  x < freeDisplay /\ ~IsLogin(x)
  <2>1. ASSUME NEW u \in Users, ReconnectUserSession(k, u)
        PROVE  x < freeDisplay /\ ~IsLogin(x)
    <3> DEFINE y == LastMatch(sessions, UserSessions(u))
    <3>1. y \in UserSessions(u)
      BY <2>1, LastMatchExists DEF ReconnectUserSession, UserSessions, TypeOK
    <3>2. Pooled(y) /\ sess[y].user = u
      BY <3>1 DEF UserSessions, Pooled
    <3>3. y < freeDisplay /\ ~IsLogin(y)
      BY <3>2, PooledFacts, ServiceAssumption DEF IsLogin
    <3>4. x = conn[c].display \/ x = y
      BY <2>1, <1>0 DEF ReconnectUserSession, Conn
    <3>5. CASE x = conn[c].display
      BY <1>3, <3>5
    <3>6. CASE x = y
      <4> HIDE DEF x, y
      <4> QED BY <3>3, <3>6
    <3> QED BY <3>4, <3>5, <3>6
  <2>2. CASE \/ BusStartLoginSession(k)
             \/ \E u \in Users : StartUserSession(k, u)
    <3>1. UNCHANGED conn \/ CallFailed(k)
      BY <2>2 DEF BusStartLoginSession, StartUserSession, RunNewDisplaySession,
         NoNewDisplay
    <3>2. x = conn[c].display \/ x = Empty
      BY <1>0, <3>1 DEF CallFailed, Gone
    <3> QED BY <1>3, <3>2
  <2>3. CASE ConnectorSwitch(k) \/ BusConnectorConnected(k) \/ BusConnectorAlive(k)
    <3>1. \/ conn' = conn
          \/ \E p \in {"switched", "user"} : conn' = [conn EXCEPT ![k].pc = p]
      BY <2>3 DEF ConnectorSwitch, BusConnectorConnected, BusConnectorAlive
    <3>2. x = conn[c].display
      BY <1>0, <3>1 DEF Conn
    <3> QED BY <1>3, <3>2
  <2>4. CASE BusConnectorTerminated(k) \/ ConnectorCrash(k)
    <3>1. x = conn[c].display \/ x = Empty
      BY <1>0, <2>4 DEF BusConnectorTerminated, ConnectorCrash, Gone
    <3> QED BY <1>3, <3>1
  <2> QED BY <1>4, <2>1, <2>2, <2>3, <2>4 DEF ConnectorStep
<1>5. ASSUME DbusStep PROVE x < freeDisplay /\ ~IsLogin(x)
  <2>1. CASE PublishSession
    <3>1. dbus.d < freeDisplay
      BY <2>1 DEF PublishSession, PoolInv, KnownOnly
    <3>2. x = conn[c].display \/ (x = dbus.d /\ ~IsLogin(dbus.d))
      BY <2>1, <1>0 DEF PublishSession, Conn, IsLogin
    <3> QED BY <1>3, <3>1, <3>2
  <2>2. CASE ~PublishSession
    <3>1. x = conn[c].display \/ x = Empty
      BY <1>0, <1>5, <2>2 DEF DbusStep, DisplayStarted, DisplayNotStarted,
         ReapFailedStart, CallFailed, SetOnline, SetOffline, Gone, Conn
    <3> QED BY <1>3, <3>1
  <2> QED BY <2>1, <2>2
<1>6. ASSUME UNCHANGED conn PROVE x < freeDisplay /\ ~IsLogin(x)
  BY <1>3, <1>6
<1>7. CASE (\E w \in Workers : WorkerStep(w)) \/ StopStep
  BY <1>2, <1>6, <1>7 DEF WorkerStep, TakeShutdown, ShutdownStep, MarkShutdown,
     RemoveSession, AnnounceRemoved, StopStep, StopSession, StopLoopDone, StopKill,
     StopReap
<1>8. CASE StrandStep \/ AliveStep
  BY <1>2, <1>6, <1>8 DEF StrandStep, AliveStep, RegisterChild, ReapChild,
     SessionEnded, AliveBegin, AliveOffline, AlivePing, AliveMissed
<1>9. CASE Environment \/ \E d \in Displays : DestroySession(d)
  BY <1>2, <1>6, <1>9 DEF Environment, BusShutdownDisplay, BusShutdownConnector,
     TimeLimitPassed, OnlineLimitPassed, ProcTerminated, ProcExits, ProcEnds,
     ConfigReloaded, StopBegin, DestroySession
<1> QED BY <1>2, <1>4, <1>5, <1>6, <1>7, <1>8, <1>9 DEF Next, vars

\* setSessionOnline and the ping timer reach sessions of users only
LEMMA NextOnline ==
    ASSUME TypeOK, PoolInv, FreshUnused, HeldIsLive, LoginScreenModes, OnlineIsUsers,
           [Next]_vars
    PROVE  OnlineIsUsers'
<1>1. dbus \in DbusFrame /\ alive \in AliveFrame
  BY DEF TypeOK
<1>2. \A c \in Connectors : conn'[c].display # Empty =>
          conn'[c].display < freeDisplay' /\ ~IsLogin(conn[c].display)'
  BY NextGiven DEF IsLogin
<1>3. ASSUME NEW d, GoesOffline(d) PROVE ~IsLogin(d)
  BY <1>3, PooledFacts DEF GoesOffline, LoginScreenModes, ModeIn, IsLogin
<1>4. ASSUME dbus'.pc \in {"online", "offline"} PROVE ~IsLogin(dbus.d)'
  <2>1. ASSUME UNCHANGED dbus PROVE ~IsLogin(dbus.d)'
    <3>1. dbus.d \in Displays /\ dbus.d < freeDisplay /\ ~IsLogin(dbus.d)
      BY <1>4, <2>1 DEF PoolInv, KnownOnly, OnlineIsUsers
    <3> QED BY <2>1, <3>1, UserStays DEF IsLogin
  <2>2. ASSUME NEW c \in Connectors, BusConnectorConnected(c), ~UNCHANGED dbus
        PROVE  ~IsLogin(dbus.d)'
    <3>1. dbus'.d = conn[c].display /\ Pooled(conn[c].display)
      BY <2>2 DEF BusConnectorConnected
    <3>2. ~IsLogin(conn[c].display)
      BY <3>1, PooledFacts DEF OnlineIsUsers
    <3> QED BY <3>1, <3>2, PooledFacts, UserStays DEF IsLogin
  <2>3. ASSUME NEW c \in Connectors, BusConnectorTerminated(c), ~UNCHANGED dbus
        PROVE  ~IsLogin(dbus.d)'
    <3>1. dbus'.d = DisplayNum(c) /\ GoesOffline(DisplayNum(c))
      BY <2>3 DEF BusConnectorTerminated
    <3>2. ~IsLogin(DisplayNum(c)) /\ Pooled(DisplayNum(c))
      BY <1>3, <3>1 DEF GoesOffline
    <3> QED BY <3>1, <3>2, PooledFacts, UserStays DEF IsLogin
  <2>4. CASE \E c \in Connectors : ConnectorStep(c)
    <3>1. ASSUME NEW c \in Connectors, NEW u, RunNewDisplaySession(c, u) \/ NoNewDisplay(c)
          PROVE  ~IsLogin(dbus.d)'
      BY <1>4, <2>1, <3>1 DEF RunNewDisplaySession, NoNewDisplay
    <3> QED BY <2>1, <2>2, <2>3, <2>4, <3>1 DEF ConnectorStep, BusStartLoginSession,
         StartUserSession, ReconnectUserSession, ConnectorSwitch, BusConnectorAlive,
         ConnectorCrash
  <2>5. CASE DbusStep
    BY <1>1, <1>4, <2>1, <2>5 DEF DbusStep, DisplayStarted, DisplayNotStarted,
       ReapFailedStart, PublishSession, SetOnline, SetOffline, IdleDbus, DbusFrame
  <2>6. CASE (\E w \in Workers : WorkerStep(w)) \/ StopStep
    BY <2>1, <2>6 DEF WorkerStep, TakeShutdown, ShutdownStep, MarkShutdown,
       RemoveSession, AnnounceRemoved, StopStep, StopSession, StopLoopDone, StopKill,
       StopReap
  <2>7. CASE StrandStep \/ AliveStep
    BY <2>1, <2>7 DEF StrandStep, AliveStep, RegisterChild, ReapChild,
       SessionEnded, AliveBegin, AliveOffline, AlivePing, AliveMissed
  <2>8. CASE Environment \/ \E d \in Displays : DestroySession(d)
    BY <2>1, <2>8 DEF Environment, BusShutdownDisplay, BusShutdownConnector,
       TimeLimitPassed, OnlineLimitPassed, ProcTerminated, ProcExits, ProcEnds,
       ConfigReloaded, StopBegin, DestroySession
  <2> QED BY <2>1, <2>4, <2>5, <2>6, <2>7, <2>8 DEF Next, vars
<1>5. ASSUME alive'.pc = "offline" PROVE alive'.d \in Displays /\ ~IsLogin(alive.d)'
  <2>1. ASSUME UNCHANGED alive PROVE alive'.d \in Displays /\ ~IsLogin(alive.d)'
    <3>1. ~IsLogin(alive.d) /\ alive.d \in Displays
      BY <1>5, <2>1 DEF OnlineIsUsers
    <3>2. Held(alive.d)
      BY DEF Held
    <3> QED BY <2>1, <3>1, <3>2, HeldHandedOut, UserStays DEF IsLogin
  <2>2. ASSUME NEW d \in Displays, AliveMissed(d)
        PROVE  alive'.d \in Displays /\ ~IsLogin(alive.d)'
    <3>1. alive'.d = d /\ GoesOffline(d)
      BY <1>5, <2>2 DEF AliveMissed, AliveRest, IdleAlive
    <3>2. ~IsLogin(d) /\ Pooled(d)
      BY <1>3, <3>1 DEF GoesOffline
    <3> QED BY <3>1, <3>2, PooledFacts, UserStays DEF IsLogin
  <2>3. CASE AliveStep
    BY <1>5, <2>2, <2>3 DEF AliveStep, AliveBegin, AlivePing, AliveOffline, AliveRest,
       IdleAlive
  <2>4. CASE (\E c \in Connectors : ConnectorStep(c)) \/ DbusStep
    BY <2>1, <2>4 DEF ConnectorStep, BusStartLoginSession, StartUserSession,
       ReconnectUserSession, ConnectorSwitch, BusConnectorConnected,
       BusConnectorAlive, BusConnectorTerminated, ConnectorCrash, DbusStep,
       DisplayStarted, DisplayNotStarted, ReapFailedStart, PublishSession, SetOnline,
       SetOffline
  <2>5. CASE (\E w \in Workers : WorkerStep(w)) \/ StopStep \/ StrandStep
    BY <2>1, <2>5 DEF WorkerStep, TakeShutdown, ShutdownStep, MarkShutdown,
       RemoveSession, AnnounceRemoved, StopStep, StopSession, StopLoopDone, StopKill,
       StopReap, StrandStep, RegisterChild, ReapChild, SessionEnded
  <2>6. CASE Environment \/ \E d \in Displays : DestroySession(d)
    BY <2>1, <2>6 DEF Environment, BusShutdownDisplay, BusShutdownConnector,
       TimeLimitPassed, OnlineLimitPassed, ProcTerminated, ProcExits, ProcEnds,
       ConfigReloaded, StopBegin, DestroySession
  <2> QED BY <2>1, <2>3, <2>4, <2>5, <2>6 DEF Next, vars
<1> QED BY <1>2, <1>4, <1>5 DEF OnlineIsUsers

\* a shutdown without a signal is posted for a login screen only
LEMMA SilentPosts ==
    ASSUME TypeOK, PoolInv, FreshUnused, HeldIsLive, LoginScreenModes, [Next]_vars,
           NEW d \in Displays, shutdowns'[d][FALSE] > 0
    PROVE  shutdowns[d][FALSE] > 0 \/ (Pooled(d) /\ IsLogin(d))
<1>1. shutdowns \in [Displays -> [BOOLEAN -> Nat]]
  BY DEF TypeOK
<1>2. ASSUME UNCHANGED shutdowns PROVE shutdowns[d][FALSE] > 0
  BY <1>2
<1>3. ASSUME NEW x, PostShutdown(x, TRUE) PROVE shutdowns[d][FALSE] > 0
  BY <1>1, <1>3 DEF PostShutdown
<1>4. ASSUME NEW x, LoginScreenEnds(x)
      PROVE  shutdowns[d][FALSE] > 0 \/ (Pooled(d) /\ IsLogin(d))
  <2>1. CASE Pooled(x) /\ ModeIn(x, {"Login"})
    <3>1. IsLogin(x)
      BY <2>1, PooledFacts DEF LoginScreenModes, ModeIn, IsLogin
    <3>2. d # x => shutdowns'[d] = shutdowns[d]
      BY <1>1, <1>4, <2>1 DEF LoginScreenEnds, PostShutdown
    <3> QED BY <2>1, <3>1, <3>2
  <2> QED BY <1>2, <1>4, <2>1 DEF LoginScreenEnds
<1>5. ASSUME NEW c \in Connectors, ConnectorStep(c)
      PROVE  shutdowns[d][FALSE] > 0 \/ (Pooled(d) /\ IsLogin(d))
  BY <1>2, <1>3, <1>4, <1>5 DEF ConnectorStep, BusStartLoginSession, StartUserSession,
     ReconnectUserSession, ConnectorSwitch, BusConnectorConnected, BusConnectorAlive,
     BusConnectorTerminated, ConnectorCrash
<1>6. CASE DbusStep \/ StrandStep
  BY <1>2, <1>3, <1>6 DEF DbusStep, DisplayStarted, DisplayNotStarted, ReapFailedStart,
     PublishSession, SetOnline, SetOffline, StrandStep, RegisterChild, ReapChild,
     SessionEnded
<1>7. CASE (\E w \in Workers : WorkerStep(w)) \/ StopStep
  <2>1. ASSUME NEW w \in Workers, NEW x \in Displays, NEW e \in BOOLEAN,
               TakeShutdown(w, x, e)
        PROVE  shutdowns[d][FALSE] > 0
    BY <1>1, <2>1 DEF TakeShutdown
  <2> QED BY <1>2, <1>7, <2>1 DEF WorkerStep, ShutdownStep, MarkShutdown, RemoveSession,
       AnnounceRemoved, StopStep, StopSession, StopLoopDone, StopKill, StopReap
<1>8. CASE AliveStep
  BY <1>2, <1>4, <1>8 DEF AliveStep, AliveBegin, AliveOffline, AlivePing, AliveMissed
<1>9. CASE Environment \/ \E x \in Displays : DestroySession(x)
  BY <1>2, <1>3, <1>9 DEF Environment, BusShutdownDisplay, BusShutdownConnector,
     TimeLimitPassed, OnlineLimitPassed, ProcTerminated, ProcExits, ProcEnds,
     ConfigReloaded, StopBegin, DestroySession
<1> QED BY <1>2, <1>5, <1>6, <1>7, <1>8, <1>9 DEF Next, vars

\* a thread enters displayShutdown with a posted task or from stop(), and
\* goes through it step by step
LEMMA FrameMoves ==
    ASSUME TypeOK, [Next]_vars, NEW t \in Threads, frame'[t].pc # "idle"
    PROVE  \/ frame'[t] = frame[t]
           \/ /\ frame'[t].pc = "mark"
              /\ \E d \in Displays, e \in BOOLEAN :
                    frame'[t].d = d /\ frame'[t].emit = e /\ (~e => shutdowns[d][e] > 0)
           \/ /\ frame[t].pc # "idle"
              /\ frame'[t].d = frame[t].d /\ frame'[t].emit = frame[t].emit
              /\ \/ MarkShutdown(t) /\ frame[t].pc = "mark" /\ frame'[t].pc = "remove"
                 \/ frame[t].pc = "remove" /\ frame'[t].pc = "announce"
<1> DEFINE Goal ==
           \/ frame'[t] = frame[t]
           \/ /\ frame'[t].pc = "mark"
              /\ \E d \in Displays, e \in BOOLEAN :
                    frame'[t].d = d /\ frame'[t].emit = e /\ (~e => shutdowns[d][e] > 0)
           \/ /\ frame[t].pc # "idle"
              /\ frame'[t].d = frame[t].d /\ frame'[t].emit = frame[t].emit
              /\ \/ MarkShutdown(t) /\ frame[t].pc = "mark" /\ frame'[t].pc = "remove"
                 \/ frame[t].pc = "remove" /\ frame'[t].pc = "announce"
<1> SUFFICES Goal
  OBVIOUS
<1>1. frame \in [Threads -> Frame] /\ frame[t] \in Frame
  BY DEF TypeOK
<1>2. ASSUME UNCHANGED frame PROVE Goal
  BY <1>2
<1>3. ASSUME NEW r \in Threads, NEW d \in Displays, NEW e \in BOOLEAN,
             BeginShutdown(r, d, e), ~e => shutdowns[d][e] > 0
      PROVE  Goal
  <2>1. frame' = frame \/ frame' = [frame EXCEPT ![r] = [pc |-> "mark", d |-> d, emit |-> e]]
    BY <1>3 DEF BeginShutdown
  <2>2. \/ frame'[t] = frame[t]
        \/ frame'[t].pc = "mark" /\ frame'[t].d = d /\ frame'[t].emit = e
    BY <1>1, <2>1
  <2> QED BY <1>3, <2>2
<1>4. ASSUME NEW r \in Threads, ShutdownStep(r) PROVE Goal
  <2>1. CASE MarkShutdown(r)
    <3>1. frame' = [frame EXCEPT ![r].pc = "remove"] /\ frame[r].pc = "mark"
      BY <2>1 DEF MarkShutdown
    <3>2. \/ frame'[t] = frame[t]
          \/ /\ r = t /\ frame[t].pc = "mark" /\ frame'[t].pc = "remove"
             /\ frame'[t].d = frame[t].d /\ frame'[t].emit = frame[t].emit
      BY <1>1, <3>1 DEF Frame, IdleFrame
    <3> QED BY <2>1, <3>2
  <2>2. CASE RemoveSession(r)
    <3>1. frame' = [frame EXCEPT ![r].pc = "announce"] /\ frame[r].pc = "remove"
      BY <2>2 DEF RemoveSession
    <3>2. \/ frame'[t] = frame[t]
          \/ /\ frame[t].pc = "remove" /\ frame'[t].pc = "announce"
             /\ frame'[t].d = frame[t].d /\ frame'[t].emit = frame[t].emit
      BY <1>1, <3>1 DEF Frame, IdleFrame
    <3> QED BY <3>2
  <2>3. CASE AnnounceRemoved(r)
    BY <1>1, <2>3 DEF AnnounceRemoved, IdleFrame
  <2> QED BY <1>4, <2>1, <2>2, <2>3 DEF ShutdownStep
<1> HIDE DEF Goal
<1>5. CASE (\E c \in Connectors : ConnectorStep(c)) \/ DbusStep
  BY <1>2, <1>5 DEF ConnectorStep, BusStartLoginSession, StartUserSession,
     ReconnectUserSession, ConnectorSwitch, BusConnectorConnected, BusConnectorAlive,
     BusConnectorTerminated, ConnectorCrash, DbusStep, DisplayStarted,
     DisplayNotStarted, ReapFailedStart, PublishSession, SetOnline, SetOffline
<1>6. CASE \E w \in Workers : WorkerStep(w)
  BY <1>3, <1>4, <1>6 DEF WorkerStep, TakeShutdown, Threads
<1>7. CASE StopStep
  BY <1>2, <1>3, <1>4, <1>7 DEF StopStep, StopSession, StopLoopDone, StopKill, StopReap,
     Threads
<1>8. CASE StrandStep \/ AliveStep
  BY <1>2, <1>8 DEF StrandStep, AliveStep, RegisterChild, ReapChild, SessionEnded,
     AliveBegin, AliveOffline, AlivePing, AliveMissed
<1>9. CASE Environment \/ \E x \in Displays : DestroySession(x)
  BY <1>2, <1>9 DEF Environment, BusShutdownDisplay, BusShutdownConnector,
     TimeLimitPassed, OnlineLimitPassed, ProcTerminated, ProcExits, ProcEnds,
     ConfigReloaded, StopBegin, DestroySession
<1> QED BY <1>2, <1>5, <1>6, <1>7, <1>8, <1>9 DEF Next, vars

\* a display that threads or signals know keeps its user
LEMMA KnownUserStays ==
    ASSUME TypeOK, PoolInv, [Next]_vars, NEW d \in Displays, Known(d)
    PROVE  sess'[d].user = sess[d].user
  BY UserStays DEF Known

\* only the end of a login screen posts displayShutdown without the signal
LEMMA NextSilent ==
    ASSUME TypeOK, PoolInv, FreshUnused, HeldIsLive, LoginScreenModes, SilentIsLogin,
           [Next]_vars
    PROVE  SilentIsLogin'
<1>1. ASSUME NEW d \in Displays, shutdowns'[d][FALSE] > 0 PROVE sess'[d].user = LoginUser
  <2>1. IsLogin(d) /\ Known(d)
    BY <1>1, SilentPosts DEF SilentIsLogin, PoolInv, KnownOnly
  <2> QED BY <2>1, KnownUserStays DEF IsLogin
<1>2. ASSUME NEW t \in Threads, frame'[t].pc # "idle", ~frame'[t].emit
      PROVE  sess'[frame'[t].d].user = LoginUser
  <2>1. \E d \in Displays : frame'[t].d = d /\ IsLogin(d) /\ Known(d)
    <3>1. CASE frame'[t] = frame[t]
      BY <1>2, <3>1 DEF SilentIsLogin, PoolInv, KnownOnly
    <3>2. ASSUME NEW d \in Displays, NEW e \in BOOLEAN,
                 frame'[t].d = d, frame'[t].emit = e, ~e => shutdowns[d][e] > 0
          PROVE  \E x \in Displays : frame'[t].d = x /\ IsLogin(x) /\ Known(x)
      BY <1>2, <3>2 DEF SilentIsLogin, PoolInv, KnownOnly
    <3>3. CASE /\ frame[t].pc # "idle"
               /\ frame'[t].d = frame[t].d /\ frame'[t].emit = frame[t].emit
      BY <1>2, <3>3 DEF SilentIsLogin, PoolInv, KnownOnly
    <3> QED BY <1>2, <3>1, <3>2, <3>3, FrameMoves
  <2> QED BY <2>1, KnownUserStays DEF IsLogin
<1> QED BY <1>1, <1>2 DEF SilentIsLogin, IsLogin

\* the signals: none is taken back, and DisplayRemoved is sent by
\* AnnounceRemoved only
LEMMA SignalsGrow ==
    ASSUME [Next]_vars
    PROVE  /\ signals \subseteq signals'
           /\ \A d : <<"DisplayRemoved", d>> \in signals' =>
                \/ <<"DisplayRemoved", d>> \in signals
                \/ \E t \in Threads : frame[t].pc = "announce" /\ frame[t].d = d
<1> DEFINE Goal ==
        /\ signals \subseteq signals'
        /\ \A d : <<"DisplayRemoved", d>> \in signals' =>
             \/ <<"DisplayRemoved", d>> \in signals
             \/ \E t \in Threads : frame[t].pc = "announce" /\ frame[t].d = d
<1> SUFFICES Goal
  OBVIOUS
<1>1. ASSUME UNCHANGED signals PROVE Goal
  BY <1>1
<1>2. ASSUME NEW t \in Threads, ShutdownStep(t) PROVE Goal
  BY <1>2 DEF ShutdownStep, MarkShutdown, RemoveSession, AnnounceRemoved
<1>3. ASSUME NEW d \in Displays, BusShutdownConnector(d) \/ OnlineLimitPassed(d) PROVE Goal
  BY <1>3 DEF BusShutdownConnector, OnlineLimitPassed
<1> HIDE DEF Goal
<1>5. CASE (\E c \in Connectors : ConnectorStep(c)) \/ DbusStep
  BY <1>1, <1>5 DEF ConnectorStep, BusStartLoginSession, StartUserSession,
     ReconnectUserSession, ConnectorSwitch, BusConnectorConnected, BusConnectorAlive,
     BusConnectorTerminated, ConnectorCrash, DbusStep, DisplayStarted,
     DisplayNotStarted, ReapFailedStart, PublishSession, SetOnline, SetOffline
<1>6. CASE (\E w \in Workers : WorkerStep(w)) \/ StopStep
  BY <1>1, <1>2, <1>6 DEF WorkerStep, TakeShutdown, StopStep, StopSession, StopLoopDone,
     StopKill, StopReap, Threads
<1>7. CASE StrandStep \/ AliveStep
  BY <1>1, <1>7 DEF StrandStep, AliveStep, RegisterChild, ReapChild, SessionEnded,
     AliveBegin, AliveOffline, AlivePing, AliveMissed
<1>8. CASE Environment \/ \E x \in Displays : DestroySession(x)
  BY <1>1, <1>3, <1>8 DEF Environment, BusShutdownDisplay, TimeLimitPassed,
     ProcTerminated, ProcExits, ProcEnds, ConfigReloaded, StopBegin, DestroySession
<1> QED BY <1>1, <1>5, <1>6, <1>7, <1>8 DEF Next, vars

\* displayShutdown tells the connector before removing a user's session, and
\* no thread removes it on another path
LEMMA NextSignalled ==
    ASSUME TypeOK, PoolInv, SilentIsLogin, RemovalSignalled, [Next]_vars
    PROVE  RemovalSignalled'
<1>1. signals \subseteq signals'
  BY SignalsGrow
<1>2. ASSUME NEW t \in Threads, frame'[t].pc \in {"remove", "announce"}
      PROVE  sess'[frame'[t].d].user = LoginUser
             \/ <<"ShutdownConnector", frame'[t].d>> \in signals'
  <2>1. PICK d \in Displays : frame[t].d = d /\ frame'[t].d = d /\ Known(d)
    BY <1>2, FrameMoves DEF PoolInv, KnownOnly
  <2>2. CASE frame[t].pc \in {"remove", "announce"}
    BY <1>1, <2>1, <2>2, KnownUserStays DEF RemovalSignalled, IsLogin
  <2>3. CASE frame[t].pc \notin {"remove", "announce"}
    <3>1. MarkShutdown(t) /\ frame[t].pc = "mark"
      BY <1>2, <2>3, FrameMoves
    <3>2. CASE frame[t].emit
      BY <2>1, <3>1, <3>2 DEF MarkShutdown
    <3>3. CASE ~frame[t].emit
      BY <2>1, <3>1, <3>3, KnownUserStays DEF SilentIsLogin, IsLogin
    <3> QED BY <3>2, <3>3
  <2> QED BY <2>2, <2>3
<1>3. ASSUME NEW d \in Displays, <<"DisplayRemoved", d>> \in signals',
             sess'[d].user # LoginUser
      PROVE  <<"ShutdownConnector", d>> \in signals'
  <2>1. Known(d) /\ sess'[d].user = sess[d].user
    BY <1>3, SignalsGrow, KnownUserStays DEF PoolInv, KnownOnly
  <2> QED BY <1>1, <1>3, <2>1, SignalsGrow DEF RemovalSignalled, UserRemovalWasSignalled,
       IsLogin
<1> QED BY <1>2, <1>3 DEF RemovalSignalled, UserRemovalWasSignalled, IsLogin

\* the strand reaps one child at a time
LEMMA EndedWriters ==
    ASSUME [Next]_vars
    PROVE  UNCHANGED ended \/ (\E d \in Displays : ReapChild(d)) \/ SessionEnded
<1>1. CASE (\E c \in Connectors : ConnectorStep(c)) \/ DbusStep
  BY <1>1 DEF ConnectorStep, BusStartLoginSession, StartUserSession,
     ReconnectUserSession, ConnectorSwitch, BusConnectorConnected, BusConnectorAlive,
     BusConnectorTerminated, ConnectorCrash, DbusStep, DisplayStarted,
     DisplayNotStarted, ReapFailedStart, PublishSession, SetOnline, SetOffline
<1>2. CASE (\E w \in Workers : WorkerStep(w)) \/ StopStep
  BY <1>2 DEF WorkerStep, TakeShutdown, ShutdownStep, MarkShutdown, RemoveSession,
     AnnounceRemoved, StopStep, StopSession, StopLoopDone, StopKill, StopReap
<1>3. CASE StrandStep \/ AliveStep
  BY <1>3 DEF StrandStep, AliveStep, RegisterChild, AliveBegin, AliveOffline, AlivePing,
     AliveMissed
<1>4. CASE Environment \/ \E x \in Displays : DestroySession(x)
  BY <1>4 DEF Environment, BusShutdownDisplay, BusShutdownConnector, TimeLimitPassed,
     OnlineLimitPassed, ProcTerminated, ProcExits, ProcEnds, ConfigReloaded, StopBegin,
     DestroySession
<1> QED BY <1>1, <1>2, <1>3, <1>4 DEF Next, vars

\* the strand handles the end of a child only after waitpid returned it
LEMMA NextEnded ==
    ASSUME TypeOK, FreshUnused, EndedIsReaped, [Next]_vars
    PROVE  EndedIsReaped'
<1>1. ended \in Displays \union {Empty} /\ proc \in [Displays -> ProcStates]
  BY DEF TypeOK
<1>2. CASE UNCHANGED ended
  <2>1. CASE StartsSession
    <3> freeDisplay \in Displays /\ freeDisplay >= freeDisplay
      BY <2>1, ServiceAssumption DEF StartsSession, NewSession, Displays
    <3>1. ended # Empty => ended # freeDisplay
      BY <1>1 DEF EndedIsReaped, FreshUnused
    <3> QED BY <1>1, <1>2, <2>1, <3>1 DEF StartsSession, NewSession,
         RunNewDisplaySession, EndedIsReaped
  <2>2. CASE ~StartsSession
    BY <1>1, <1>2, <2>2, ProcEffects DEF ProcKept, EndedIsReaped
  <2> QED BY <2>1, <2>2
<1>3. ASSUME NEW d \in Displays, ReapChild(d) PROVE EndedIsReaped'
  BY <1>1, <1>3 DEF ReapChild, EndedIsReaped
<1>4. CASE SessionEnded
  BY <1>4 DEF SessionEnded, EndedIsReaped
<1> QED BY <1>2, <1>3, <1>4, EndedWriters

\* no step loses the process of a session that is destroyed or forgotten
LEMMA NextRunaway ==
    ASSUME TypeOK, EndedIsReaped, NoRunawayProcess, [Next]_vars
    PROVE  NoRunawayProcess'
<1>1. proc \in [Displays -> ProcStates] /\ sess \in [Displays -> Session]
  BY DEF TypeOK
<1> SUFFICES ASSUME NEW d \in Displays, proc'[d] = "running"
             PROVE  sess'[d].live /\ sess'[d].pid1
  BY DEF NoRunawayProcess
<1>2. CASE StartsSession
  BY <1>1, <1>2 DEF StartsSession, NewSession, RunNewDisplaySession, NoRunawayProcess
<1>3. CASE ~StartsSession
  <2>1. proc[d] = "running" /\ sess[d].live /\ sess[d].pid1
    BY <1>3, ProcEffects DEF ProcKept, NoRunawayProcess
  <2>2. ASSUME NEW x \in Displays, DestroySession(x) PROVE sess'[d].live /\ sess'[d].pid1
    BY <1>1, <2>1, <2>2 DEF DestroySession, Terminate
  <2>3. d # ended
    BY <2>1 DEF EndedIsReaped, Displays, Empty
  <2> QED BY <1>3, <2>1, <2>2, <2>3, SessEffects DEF SessKept
<1> QED BY <1>2, <1>3

\* what is polled stays polled until it is reaped
LEMMA NextTracked ==
    ASSUME TypeOK, PoolInv, EndedIsReaped, ChildrenTracked, [Next]_vars
    PROVE  ChildrenTracked'
<1>1. proc \in [Displays -> ProcStates] /\ dbus \in DbusFrame /\ stop \in StopFrame
  BY DEF TypeOK
<1> SUFFICES ASSUME stop'.pc \notin {"reap", "done"}, NEW d \in Displays
             PROVE  Tracked(d)'
  BY DEF ChildrenTracked
<1>2. stop.pc \notin {"reap", "done"} /\ ~StopKill /\ ~StopReap
  BY <1>1, StopWriters DEF StopBegin, StopLoopDone, StopKill, StopReap, StopSession, StopFrame
<1>3. Tracked(d)
  BY <1>2 DEF ChildrenTracked
<1>4. CASE StartsSession
  BY <1>1, <1>3, <1>4 DEF StartsSession, NewSession, RunNewDisplaySession, DbusReady, Tracked
<1>5. ASSUME ~StartsSession, proc[d] \in {"none", "reaped"} PROVE proc'[d] \in {"none", "reaped"}
  BY <1>2, <1>5, ProcEffects DEF ProcKept
<1>6. ASSUME ~StartsSession, UNCHANGED dbus, childs \union registers \subseteq childs' \union registers'
      PROVE  Tracked(d)'
  BY <1>3, <1>5, <1>6 DEF Tracked
<1>7. ASSUME ~StartsSession, childs \union registers \subseteq childs' \union registers',
             dbus.pc \notin {"start", "waitpid", "publish"}
      PROVE  Tracked(d)'
  BY <1>3, <1>5, <1>7 DEF Tracked
<1>8. ASSUME DbusStep, ~StartsSession PROVE Tracked(d)'
  <2>1. CASE DisplayStarted \/ DisplayNotStarted
    <3>1. dbus'.d = dbus.d /\ dbus'.pc \in {"publish", "waitpid"}
      BY <1>1, <2>1 DEF DisplayStarted, DisplayNotStarted, DbusFrame, IdleDbus, PoolInv,
         StartingHasSlot
    <3>2. UNCHANGED <<childs, registers>>
      BY <2>1 DEF DisplayStarted, DisplayNotStarted
    <3> QED BY <1>3, <1>5, <1>8, <3>1, <3>2 DEF Tracked
  <2>2. CASE ReapFailedStart
    BY <1>1, <1>3, <2>2 DEF ReapFailedStart, Tracked
  <2>3. CASE PublishSession
    BY <1>3, <1>5, <1>8, <2>3 DEF PublishSession, Tracked
  <2>4. CASE SetOnline \/ SetOffline
    BY <1>7, <1>8, <2>4 DEF SetOnline, SetOffline
  <2> QED BY <1>8, <2>1, <2>2, <2>3, <2>4 DEF DbusStep
<1>9. ASSUME NEW c \in Connectors, ConnectorStep(c), ~StartsSession PROVE Tracked(d)'
  <2>1. CASE BusStartLoginSession(c) \/ \E u \in Users : StartUserSession(c, u)
    <3>1. UNCHANGED dbus
      BY <1>9, <2>1, StartOrRefuse
    <3> QED BY <1>6, <1>9, <2>1, <3>1 DEF BusStartLoginSession, StartUserSession
  <2>2. CASE BusConnectorConnected(c) \/ BusConnectorTerminated(c)
    BY <1>7, <1>9, <2>2 DEF BusConnectorConnected, BusConnectorTerminated, DbusReady
  <2> QED BY <1>6, <1>9, <2>1, <2>2 DEF ConnectorStep, ReconnectUserSession,
       ConnectorSwitch, BusConnectorAlive, ConnectorCrash
<1>10. ASSUME StrandStep, ~StartsSession PROVE Tracked(d)'
  <2>1. CASE SessionEnded
    <3>1. ended = d => proc[d] = "reaped"
      BY <2>1 DEF SessionEnded, EndedIsReaped
    <3> QED BY <1>3, <1>5, <1>10, <2>1, <3>1 DEF SessionEnded, Tracked
  <2> QED BY <1>6, <1>10, <2>1 DEF StrandStep, RegisterChild, ReapChild
<1>11. CASE ~StartsSession /\ ((\E w \in Workers : WorkerStep(w)) \/ StopStep)
  BY <1>2, <1>6, <1>11 DEF WorkerStep, TakeShutdown, ShutdownStep, MarkShutdown,
     RemoveSession, AnnounceRemoved, StopStep, StopSession, StopLoopDone
<1>12. CASE ~StartsSession /\ AliveStep
  BY <1>6, <1>12 DEF AliveStep, AliveBegin, AliveOffline, AlivePing, AliveMissed
<1>13. CASE ~StartsSession /\ (Environment \/ \E x \in Displays : DestroySession(x))
  BY <1>6, <1>13 DEF Environment, BusShutdownDisplay, BusShutdownConnector,
     TimeLimitPassed, OnlineLimitPassed, ProcTerminated, ProcExits, ProcEnds,
     ConfigReloaded, StopBegin, DestroySession
<1>14. CASE ~StartsSession /\ UNCHANGED vars
  BY <1>6, <1>14 DEF vars
<1> QED BY <1>4, <1>8, <1>9, <1>10, <1>11, <1>12, <1>13, <1>14 DEF Next

-----------------------------------------------------------------------------
(***************************************************************************)
(* limit:users.                                                            *)
(***************************************************************************)
Counted == PoolUsers \union StartingUser

\* the users counted are finitely many
LEMMA CountedFinite ==
    ASSUME TypeOK
    PROVE  IsFiniteSet(PoolUsers) /\ IsFiniteSet(Counted)
<1> DEFINE f == [d \in ValidSessions(sessions) |-> sess[d].user]
<1>1. IsFiniteSet(ValidSessions(sessions))
  BY ValidFitSlots DEF TypeOK
<1>2. f \in Surjection(ValidSessions(sessions), PoolUsers)
  BY DEF Surjection, PoolUsers
<1>3. IsFiniteSet(PoolUsers)
  <2> HIDE DEF f
  <2> QED BY <1>1, <1>2, FS_Surjection
<1>4. IsFiniteSet(StartingUser)
  BY FS_Singleton, FS_EmptySet DEF StartingUser
<1> QED BY <1>3, <1>4, FS_Union DEF Counted

\* the dbus thread begins to start a session in StartsSession only
LEMMA DbusWriters ==
    ASSUME TypeOK, [Next]_vars, ~StartsSession
    PROVE  dbus' = dbus \/ dbus'.pc # "start"
<1>1. ASSUME NEW c \in Connectors, ConnectorStep(c) PROVE dbus' = dbus \/ dbus'.pc # "start"
  <2>1. CASE BusStartLoginSession(c) \/ \E u \in Users : StartUserSession(c, u)
    <3>1. UNCHANGED dbus
      BY <2>1, StartOrRefuse
    <3> QED BY <3>1
  <2>2. CASE BusConnectorConnected(c)
    <3>1. dbus' = dbus \/ \E d : dbus' = [pc |-> "online", d |-> d, c |-> c]
      BY <2>2 DEF BusConnectorConnected
    <3> QED BY <3>1
  <2>3. CASE BusConnectorTerminated(c)
    <3>1. dbus' = dbus \/ \E d : dbus' = [pc |-> "offline", d |-> d, c |-> NoOne]
      BY <2>3 DEF BusConnectorTerminated
    <3> QED BY <3>1
  <2> QED BY <1>1, <2>1, <2>2, <2>3 DEF ConnectorStep, ReconnectUserSession,
       ConnectorSwitch, BusConnectorAlive, ConnectorCrash
<1>2. CASE DbusStep
  <2>1. dbus \in DbusFrame
    BY DEF TypeOK
  <2> QED BY <1>2, <2>1 DEF DbusStep, DisplayStarted, DisplayNotStarted, ReapFailedStart,
       PublishSession, SetOnline, SetOffline, IdleDbus, DbusFrame
<1>3. CASE (\E w \in Workers : WorkerStep(w)) \/ StopStep
  BY <1>3 DEF WorkerStep, TakeShutdown, ShutdownStep, MarkShutdown, RemoveSession,
     AnnounceRemoved, StopStep, StopSession, StopLoopDone, StopKill, StopReap
<1>4. CASE StrandStep \/ AliveStep
  BY <1>4 DEF StrandStep, AliveStep, RegisterChild, ReapChild, SessionEnded, AliveBegin,
     AliveOffline, AlivePing, AliveMissed
<1>5. CASE Environment \/ \E x \in Displays : DestroySession(x)
  BY <1>5 DEF Environment, BusShutdownDisplay, BusShutdownConnector, TimeLimitPassed,
     OnlineLimitPassed, ProcTerminated, ProcExits, ProcEnds, ConfigReloaded, StopBegin,
     DestroySession
<1> QED BY <1>1, <1>2, <1>3, <1>4, <1>5 DEF Next, vars

\* only a session that is started adds a user, and it is admitted by the limit
LEMMA CountedFrom ==
    ASSUME TypeOK, PoolInv, FreshUnused, HeldIsLive, [Next]_vars
    PROVE  \/ Counted' \subseteq Counted
           \/ \E u : Counted' = PoolUsers \union {u} /\ LimitsAllow
<1>1. sess \in [Displays -> Session] /\ sessions \in Seq(Displays \union {Empty})
      /\ dbus \in DbusFrame
  BY DEF TypeOK
<1>2. \A d \in ValidSessions(sessions) : sess'[d].user = sess[d].user
  BY PooledFacts, UserStays DEF Pooled
<1>3. dbus.pc = "start" => sess'[dbus.d].user = sess[dbus.d].user
  BY UserStays DEF PoolInv, KnownOnly
<1>4. CASE StartsSession
  <2>1. PICK c \in Connectors, u \in Users \union {LoginUser} : NewSession(c, u)
    BY <1>4 DEF StartsSession
  <2>2. PoolUsers' = PoolUsers
    BY <1>2, <2>1 DEF NewSession, PoolUsers
  <2>3. StartingUser' = {u}
    BY <1>1, <2>1 DEF NewSession, RunNewDisplaySession, StartingUser
  <2>4. LimitsAllow
    BY <2>1 DEF NewSession, RunNewDisplaySession
  <2> QED BY <2>2, <2>3, <2>4 DEF Counted
<1>5. ASSUME ~StartsSession PROVE Counted' \subseteq Counted
  <2>1. ASSUME ValidSessions(sessions') \subseteq ValidSessions(sessions),
               dbus' = dbus \/ dbus'.pc # "start"
        PROVE  Counted' \subseteq Counted
    <3>1. PoolUsers' \subseteq PoolUsers
      BY <1>2, <2>1 DEF PoolUsers
    <3>2. StartingUser' \subseteq StartingUser
      BY <1>3, <2>1 DEF StartingUser
    <3> QED BY <3>1, <3>2 DEF Counted
  <2>2. dbus' = dbus \/ dbus'.pc # "start"
    BY <1>1, <1>5, DbusWriters
  <2>3. CASE UNCHANGED sessions
    BY <2>1, <2>2, <2>3
  <2>4. CASE DisplayStarted
    <3>1. dbus.d \in Displays /\ ~Known(dbus.d) /\ ~IsSessionsFull(sessions) /\ dbus.pc = "start"
      BY <2>4 DEF DisplayStarted, PoolInv, KnownOnly, StartingHasSlot, Known, Starting
    <3>2. dbus.d \notin ValidSessions(sessions)
      BY <3>1 DEF PoolInv, KnownOnly, Pooled
    <3>3. ValidSessions(sessions') = ValidSessions(sessions) \union {dbus.d}
      BY <2>4, <3>1, <3>2, <1>1, AppendAdds DEF DisplayStarted, PoolInv, SlotsDistinct
    <3>4. PoolUsers' \subseteq PoolUsers \union {sess[dbus.d].user}
      BY <1>2, <1>3, <3>1, <3>3 DEF PoolUsers
    <3>5. dbus'.pc # "start"
      BY <1>1, <2>4, <3>1 DEF DisplayStarted, DbusFrame, IdleDbus
    <3> QED BY <3>1, <3>4, <3>5 DEF Counted, StartingUser
  <2>5. ASSUME NEW t \in Threads, RemoveSession(t) PROVE Counted' \subseteq Counted
    <3>1. frame[t].d \in Displays
      BY <2>5, FrameHasDisplay DEF RemoveSession
    <3>2. ValidSessions(sessions') \subseteq ValidSessions(sessions)
      BY <2>5, <3>1, <1>1, RemoveTakesOut DEF RemoveSession, PoolInv, SlotsDistinct
    <3> QED BY <2>1, <2>2, <3>2
  <2>6. CASE ConfigReloaded
    <3>1. ValidSessions(sessions') = ValidSessions(sessions)
      BY <2>6, <1>1, ResizeKeeps, ServiceAssumption DEF ConfigReloaded, PoolInv, SlotsDistinct
    <3> QED BY <2>1, <2>2, <3>1
  <2> QED BY <2>3, <2>4, <2>5, <2>6, PoolWriters
<1> QED BY <1>4, <1>5

\* the user of a session being started is counted before it is in the pool,
\* so that the next test of limit:users finds it
LEMMA NextReserved ==
    ASSUME TypeOK, PoolInv, FreshUnused, HeldIsLive, UsersReserved, [Next]_vars
    PROVE  UsersReserved'
<1> SUFFICES ASSUME UsersLimit > 0 PROVE Cardinality(Counted') <= UsersLimit
  BY DEF UsersReserved, Counted
<1>1. IsFiniteSet(PoolUsers) /\ IsFiniteSet(Counted) /\ UsersLimit \in Nat
  BY CountedFinite, ServiceAssumption
<1>2. Cardinality(Counted) <= UsersLimit /\ Cardinality(Counted) \in Nat
      /\ Cardinality(PoolUsers) \in Nat
  BY <1>1, FS_CardinalityType DEF UsersReserved, Counted
<1>3. CASE Counted' \subseteq Counted
  <2>1. IsFiniteSet(Counted') /\ Cardinality(Counted') <= Cardinality(Counted)
    BY <1>1, <1>3, FS_Subset
  <2>2. Cardinality(Counted') \in Nat
    BY <2>1, FS_CardinalityType
  <2> QED BY <1>1, <1>2, <2>1, <2>2
<1>4. ASSUME NEW u, Counted' = PoolUsers \union {u}, LimitsAllow
      PROVE  Cardinality(Counted') <= UsersLimit
  <2>1. Cardinality(PoolUsers) < UsersLimit
    BY <1>4 DEF LimitsAllow
  <2>2. Cardinality(Counted') = IF u \in PoolUsers THEN Cardinality(PoolUsers)
                                ELSE Cardinality(PoolUsers) + 1
    BY <1>1, <1>4, FS_AddElement
  <2> QED BY <1>1, <1>2, <2>1, <2>2
<1> QED BY <1>3, <1>4, CountedFrom

-----------------------------------------------------------------------------
\* the service starts with no session, no child and no signal
LEMMA InitSessions == Init => SessionsInv /\ UsersReserved
<1> SUFFICES ASSUME Init PROVE SessionsInv /\ UsersReserved
  OBVIOUS
<1>1. TypeOK /\ PoolInv
  BY InitType, InitPool
<1>2. ValidSessions(sessions) = {}
  <2>1. \A d \in Displays : ~Pooled(d)
    BY <1>1, ServiceAssumption DEF Init, PoolInv, KnownOnly, Known, Displays
  <2> QED BY <1>1, <2>1, ValidAreDisplays DEF Pooled, TypeOK
<1>3. \A d \in Displays : ~Held(d) /\ d # Empty
  BY <1>2 DEF Init, Held, Pooled, IdleFrame, IdleDbus, IdleAlive, Displays, Empty
<1>4. FreshUnused /\ HeldIsLive /\ LoginScreenModes /\ EndedIsReaped
  BY <1>3 DEF Init, FreshUnused, HeldIsLive, LoginScreenModes, EndedIsReaped
<1>5. OnlineIsUsers /\ SilentIsLogin /\ RemovalSignalled
  BY DEF Init, OnlineIsUsers, SilentIsLogin, RemovalSignalled, UserRemovalWasSignalled,
     IdleDbus, IdleAlive, IdleFrame
<1>6. NoRunawayProcess /\ ChildrenTracked
  BY DEF Init, NoRunawayProcess, ChildrenTracked, Tracked
<1>7. Counted = {}
  BY <1>2 DEF Init, Counted, PoolUsers, StartingUser, IdleDbus
<1>8. UsersReserved
  BY <1>7, FS_EmptySet, ServiceAssumption DEF UsersReserved, Counted
<1> QED BY <1>4, <1>5, <1>6, <1>8 DEF SessionsInv

\* the parts together are kept by every step
LEMMA NextSessions ==
    TypeOK /\ PoolInv /\ SessionsInv /\ [Next]_vars => SessionsInv'
  BY NextFresh, NextHeld, NextModes, NextOnline, NextSilent, NextSignalled, NextEnded,
     NextRunaway, NextTracked DEF SessionsInv

\* the invariant of the sessions holds in every state
THEOREM SessionsSafe == Spec => [](TypeOK /\ PoolInv /\ SessionsInv /\ UsersReserved)
<1> DEFINE I == TypeOK /\ PoolInv /\ SessionsInv /\ UsersReserved
<1>1. Init => I
  BY InitType, InitPool, InitSessions
<1>2. I /\ [Next]_vars => I'
  BY NextType, NextPool, NextSessions, NextReserved DEF SessionsInv
<1> QED BY <1>1, <1>2, PTL DEF Spec

\* limit:users bounds the users with a session in the pool at every moment,
\* and no login screen ever goes online or offline
THEOREM LimitsKept == Spec => []LimitsHold
<1>1. ASSUME TypeOK, SessionsInv, UsersReserved PROVE LimitsHold
  <2>1. ASSUME UsersLimit > 0 PROVE Cardinality(PoolUsers) <= UsersLimit
    <3>1. IsFiniteSet(Counted) /\ PoolUsers \subseteq Counted
      BY <1>1, CountedFinite DEF Counted
    <3>2. Cardinality(PoolUsers) <= Cardinality(Counted) /\ IsFiniteSet(PoolUsers)
      BY <3>1, FS_Subset
    <3>3. Cardinality(PoolUsers) \in Nat /\ Cardinality(Counted) \in Nat
      BY <3>1, <3>2, FS_CardinalityType
    <3> QED BY <1>1, <2>1, <3>2, <3>3, ServiceAssumption DEF UsersReserved, Counted
  <2> QED BY <1>1, <2>1 DEF LimitsHold, UsersWithinLimit, SessionsInv
<1> QED BY <1>1, SessionsSafe, PTL

\* whichever threads end a session: its connector was told before the removal
\* of a user's display is announced, its process is terminated with the
\* session object, and its pid is polled until it is reaped
THEOREM NothingForgotten == Spec => []ProcessesAccounted
<1>1. ASSUME SessionsInv PROVE ProcessesAccounted
  <2>1. ChildrenAccountedFor
    BY <1>1 DEF SessionsInv, ChildrenTracked, Tracked, ChildrenAccountedFor, Reapable
  <2> QED BY <1>1, <2>1 DEF SessionsInv, RemovalSignalled, ProcessesAccounted
<1> QED BY <1>1, SessionsSafe, PTL
=============================================================================
