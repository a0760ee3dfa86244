------------------------- MODULE SessionAccessProofs -------------------------
(***************************************************************************)
(* What guards a session, proved of SessionAccess for any number of login  *)
(* screens and attempts: the limit on the guesses of a screen, the policy  *)
(* that locks a connected session, and the channels that come up whole;    *)
(* and of FileTransfer, that no file is sent more often than it was        *)
(* planned, for any drops and numbers of requests, threads and channels.   *)
(***************************************************************************)
EXTENDS SessionAccess, FileTransfer, ProofLemmas

\* the specification the session_access run checks
SaSpec == SaInit /\ [][SaNext]_SaVars

-----------------------------------------------------------------------------
(***************************************************************************)
(* The inductive invariant.                                                *)
(***************************************************************************)
AttemptStates == {"new", "posted", "pam", "count", "policy", "take", "done"}
ScreenStates  == {"none", "shown", "closing"}
ConnStates    == {"none", "login", "granted", "attached", "online", "leaving", "gone"}
TaskStates    == {"none", "start", "made", "done"}

IsScreen(s) == DOMAIN s = {"st", "fails", "opts"} /\ s.st \in ScreenStates /\ s.fails \in Nat
IsTask(t)   == DOMAIN t = {"pc", "todo", "id"} /\ t.pc \in TaskStates
IsSession(s) ==
    /\ DOMAIN s = {"mode", "conn", "policy", "allow", "opts", "points"}
    /\ s.conn \in SaScreens \union {0}

Attempt == [pc : AttemptStates, scr : SaScreens \union {0}, token : BOOLEAN, read : Nat]

ScreensTyped  == DOMAIN saScr = SaScreens /\ \A d \in SaScreens : IsScreen(saScr[d])
AttemptsTyped == saAtt \in [SaAttempts -> Attempt]
TasksTyped    == DOMAIN saTask = SaScreens /\ \A d \in SaScreens : IsTask(saTask[d])
SaTyped ==
    /\ ScreensTyped /\ AttemptsTyped /\ TasksTyped /\ IsSession(saSess)
    /\ saReply \in [SaAttempts -> {"none", "failure", "success"}]
    /\ saTries \in [SaScreens -> Nat]
    /\ saConn \in [SaScreens -> ConnStates]

\* an attempt is made at a screen that is there, and ends when it is answered
AttemptsPlaced ==
    \A a \in SaAttempts :
        /\ saAtt[a].pc # "new" => saAtt[a].scr \in SaScreens /\ saScr[saAtt[a].scr].st # "none"
        /\ saReply[a] = "success" => saAtt[a].pc = "done"

\* a connector that was let in was let in by an attempt at its own screen
LetIn(d) == \E a \in SaAttempts : saAtt[a].scr = d /\ saReply[a] = "success"
EntryEarned ==
    /\ \A d \in SaScreens : saConn[d] \in {"granted", "attached"} => LetIn(d)
    /\ saSess.conn # 0 => LetIn(saSess.conn)

\* loginFailures keeps up with the failed attempts while no two count at once
Counting(a, d) == saAtt[a].pc = "count" /\ saAtt[a].scr = d
FailuresCounted ==
    /\ \A d \in SaScreens : saScr[d].fails > SaFailures => saScr[d].st = "closing"
    /\ ~saLost => \A d \in SaScreens :
          /\ \A a, b \in SaAttempts : Counting(a, d) /\ Counting(b, d) => a = b
          /\ \A a \in SaAttempts : Counting(a, d) => saTries[d] <= saAtt[a].read + 1
          /\ (\A a \in SaAttempts : ~Counting(a, d)) => saTries[d] <= saScr[d].fails

\* while no two were past the policy check at once, one at most is, and none
\* is when the session is connected and locked
OnePastCheck ==
    ~saMixed =>
        /\ \A a, b \in SaAttempts : PastCheck(a) /\ PastCheck(b) => a = b
        /\ saSess.mode = "Connected" /\ saSess.policy = "authlock"
              => \A a \in SaAttempts : ~PastCheck(a)

\* a listener of the session without its daemon is the one a thread waits for
Plugged(s) == s[1] \in {"audio", "pcsc", "fuse"}
Awaited(s) == \E d \in SaScreens : saTask[d].pc = "made" /\ s = <<Head(saTask[d].todo), saTask[d].id>>
ListenersServed ==
    ~saSwitch =>
        /\ \A d \in SaScreens : saConn[d] # "leaving"
        /\ \A s \in saSig \union saSock : Plugged(s) => s \in saDaemon \/ Awaited(s)
        /\ \A s \in saSig \intersect saSock : ~Plugged(s)

AccessInv ==
    /\ SaTyped /\ AttemptsPlaced /\ EntryEarned /\ FailuresCounted /\ OnePastCheck
    /\ SaLockHeld /\ ListenersServed

-----------------------------------------------------------------------------
(***************************************************************************)
(* Every step keeps it.                                                    *)
(***************************************************************************)
ScreensKept == ScreensTyped' /\ \A d \in SaScreens : saScr[d].st # "none" => saScr'[d].st # "none"

\* a login screen keeps its shape: its state, loginFailures and its options,
\* and it never leaves the pool
LEMMA NextScreens ==
    ASSUME SaTyped, AttemptsPlaced, [SaNext]_SaVars
    PROVE  ScreensKept
<1>1. \A d \in SaScreens : IsScreen(saScr[d])
  BY DEF SaTyped, ScreensTyped
<1>2. ASSUME NEW d \in SaScreens, NEW r, IsScreen(r), saScr' = [saScr EXCEPT ![d] = r],
             r.st = "none" => saScr[d].st = "none"
      PROVE  ScreensKept
  BY <1>2 DEF SaTyped, ScreensTyped, ScreensKept
<1>3. ASSUME UNCHANGED saScr PROVE ScreensKept
  BY <1>3 DEF SaTyped, ScreensTyped, ScreensKept, IsScreen
<1>4. ASSUME NEW d \in SaScreens, BusStartLogin(d) PROVE ScreensKept
  BY <1>1, <1>4 DEF BusStartLogin, SaTyped, ScreensTyped, ScreensKept, IsScreen, ScreenStates
<1>5. ASSUME NEW d \in SaScreens, BusSetSessionOptions(d) PROVE ScreensKept
  <2>1. PICK o : saScr' = [saScr EXCEPT ![d].opts = o]
    BY <1>5 DEF BusSetSessionOptions
  <2> QED BY <1>1, <2>1 DEF SaTyped, ScreensTyped, ScreensKept, IsScreen
<1>6. ASSUME NEW d \in SaScreens, BusStartUserSession(d) \/ BusTerminated(d) PROVE ScreensKept
  <2>1. UNCHANGED saScr \/ saScr' = [saScr EXCEPT ![d].st = "closing", ![d].opts = {}]
    BY <1>6 DEF BusStartUserSession, BusTerminated
  <2> QED BY <1>1, <1>3, <2>1 DEF SaTyped, ScreensTyped, ScreensKept, IsScreen, ScreenStates
<1>7. ASSUME NEW a \in SaAttempts, PamCounts(a) PROVE ScreensKept
  <2> DEFINE d == saAtt[a].scr
             n == saAtt[a].read + 1
  <2>1. n \in Nat /\ d \in SaScreens
    BY <1>7 DEF SaTyped, AttemptsTyped, Attempt, AttemptsPlaced, PamCounts
  <2>2. PICK t \in {saScr[d].st, "closing"} : saScr' = [saScr EXCEPT ![d].fails = n, ![d].st = t]
    BY <1>7 DEF PamCounts
  <2> DEFINE r == [saScr[d] EXCEPT !.fails = n, !.st = t]
  <2>3. saScr' = [saScr EXCEPT ![d] = r]
    BY <2>1, <2>2
  <2>4. IsScreen(r) /\ (r.st = "none" => saScr[d].st = "none")
    <3>1. IsScreen(saScr[d])
      BY <1>1, <2>1
    <3> HIDE DEF n, d
    <3> QED BY <2>1, <2>2, <3>1 DEF IsScreen, ScreenStates
  <2> HIDE DEF r, d
  <2> QED BY <1>2, <2>1, <2>3, <2>4
<1>8. ASSUME NEW a \in SaAttempts, PolicyCheck(a) PROVE ScreensKept
  <2> DEFINE d == saAtt[a].scr
  <2>1. UNCHANGED saScr \/ saScr' = [saScr EXCEPT ![d].fails = 0]
    BY <1>8 DEF PolicyCheck
  <2>2. d \in SaScreens
    BY <1>8 DEF SaTyped, AttemptsTyped, Attempt, AttemptsPlaced, PolicyCheck
  <2> HIDE DEF d
  <2> QED BY <1>1, <1>3, <2>1, <2>2 DEF SaTyped, ScreensTyped, ScreensKept, IsScreen
<1> QED BY <1>3, <1>4, <1>5, <1>6, <1>7, <1>8 DEF SaNext, SaVars, SaAuth, BusOnline,
     ConnectorLeaves, StartListener, ListenerReady, ListenerTimeout, BusSetAuthenticate,
     ConnectorListens, PamAuthenticate, PamRefuses, PamInvalid, PamAccepts, LoginSuccess,
     BusSetSessionPolicy, Pkcs11Waited

\* what a step does to the attempts: one is made, goes on, is refused by PAM
\* and counted, or is answered
Made(a, r) ==
    /\ saAtt[a].pc = "new" /\ r.pc = "posted" /\ r.scr \in SaScreens
    /\ saScr[r.scr].st # "none" /\ UNCHANGED saReply
GoesOn(a, r) ==
    /\ saAtt[a].pc \notin {"new", "done"} /\ r.scr = saAtt[a].scr
    /\ r.pc \in {"pam", "policy", "take"} /\ UNCHANGED saReply
Refused(a, r) ==
    /\ saAtt[a].pc = "pam" /\ r.scr = saAtt[a].scr /\ r.pc = "count"
    /\ saReply' = [saReply EXCEPT ![a] = "failure"]
Answered(a, r) ==
    /\ saAtt[a].pc \notin {"new", "done"} /\ r.scr = saAtt[a].scr /\ r.pc = "done"
    /\ \E q \in {"none", "failure", "success"} :
          saReply' = [saReply EXCEPT ![a] = q] /\ (q = "success" => LoginSuccess(a))
AttemptMoves ==
    \/ UNCHANGED <<saAtt, saReply>>
    \/ \E a \in SaAttempts : \E r \in Attempt :
          /\ saAtt' = [saAtt EXCEPT ![a] = r]
          /\ Made(a, r) \/ GoesOn(a, r) \/ Refused(a, r) \/ Answered(a, r)

\* an attempt goes through pamAuthenticate step by step
LEMMA Moves ==
    ASSUME SaTyped, AttemptsPlaced, [SaNext]_SaVars
    PROVE  AttemptMoves
<1>1. \A a \in SaAttempts : saAtt[a] \in Attempt
  BY DEF SaTyped, AttemptsTyped
<1>2. \A a \in SaAttempts : \A r \in Attempt : [NoAttempt EXCEPT !.pc = "done", !.scr = r.scr] \in Attempt
  BY DEF NoAttempt, Attempt, AttemptStates
<1>3. ASSUME NEW a \in SaAttempts, NEW q \in {"none", "failure", "success"}, SaFinished(a, q),
             saAtt[a].pc \notin {"new", "done"}, q = "success" => LoginSuccess(a)
      PROVE  AttemptMoves
  <2> DEFINE r == [NoAttempt EXCEPT !.pc = "done", !.scr = saAtt[a].scr]
  <2>1. r \in Attempt /\ r.pc = "done" /\ r.scr = saAtt[a].scr
    BY <1>1, <1>2 DEF NoAttempt
  <2>2. saAtt' = [saAtt EXCEPT ![a] = r] /\ saReply' = [saReply EXCEPT ![a] = q]
    BY <1>3 DEF SaFinished
  <2> HIDE DEF r
  <2>3. Answered(a, r)
    BY <1>3, <2>1, <2>2 DEF Answered
  <2> QED BY <2>1, <2>2, <2>3 DEF AttemptMoves
<1>4. ASSUME NEW d \in SaScreens, NEW a \in SaAttempts, BusSetAuthenticate(d, a)
      PROVE  AttemptMoves
  <2>1. PICK t \in BOOLEAN :
            saAtt' = [saAtt EXCEPT ![a] = [NoAttempt EXCEPT !.pc = "posted", !.scr = d, !.token = t]]
    BY <1>4 DEF BusSetAuthenticate
  <2> DEFINE r == [NoAttempt EXCEPT !.pc = "posted", !.scr = d, !.token = t]
  <2>2. r \in Attempt /\ r.pc = "posted" /\ r.scr = d
    BY DEF NoAttempt, Attempt, AttemptStates
  <2> HIDE DEF r
  <2>3. Made(a, r)
    BY <1>4, <2>2 DEF BusSetAuthenticate, Made
  <2>4. saAtt' = [saAtt EXCEPT ![a] = r]
    BY <2>1 DEF r
  <2> QED BY <2>2, <2>3, <2>4 DEF AttemptMoves
<1>5. ASSUME NEW a \in SaAttempts, NEW s \in {"pam", "policy", "take"},
             saAtt[a].pc \notin {"new", "done"}, saAtt' = [saAtt EXCEPT ![a].pc = s],
             UNCHANGED saReply
      PROVE  AttemptMoves
  <2> DEFINE r == [saAtt[a] EXCEPT !.pc = s]
  <2>1. r \in Attempt /\ r.pc = s /\ r.scr = saAtt[a].scr
    BY <1>1 DEF Attempt, AttemptStates
  <2>2. saAtt' = [saAtt EXCEPT ![a] = r]
    BY <1>5
  <2> HIDE DEF r
  <2>3. GoesOn(a, r)
    BY <1>5, <2>1 DEF GoesOn
  <2> QED BY <2>1, <2>2, <2>3 DEF AttemptMoves
<1>6. ASSUME NEW a \in SaAttempts, PamAuthenticate(a) PROVE AttemptMoves
  <2>1. CASE SaFinished(a, "failure")
    BY <1>3, <1>6, <2>1 DEF PamAuthenticate
  <2>2. ASSUME NEW s \in {"policy", "pam"}, saAtt' = [saAtt EXCEPT ![a].pc = s], UNCHANGED saReply
        PROVE  AttemptMoves
    BY <1>5, <1>6, <2>2 DEF PamAuthenticate, AttemptStates
  <2> QED BY <1>6, <2>1, <2>2 DEF PamAuthenticate
<1>7. ASSUME NEW a \in SaAttempts, PamRefuses(a) PROVE AttemptMoves
  <2> DEFINE r == [saAtt[a] EXCEPT !.pc = "count", !.read = saScr[saAtt[a].scr].fails]
  <2>1. saAtt' = [saAtt EXCEPT ![a] = r]
    BY <1>7 DEF PamRefuses
  <2>2. saScr[saAtt[a].scr].fails \in Nat
    BY <1>7 DEF PamRefuses, SaTyped, ScreensTyped, IsScreen, AttemptsPlaced
  <2>3. r \in Attempt /\ r.pc = "count" /\ r.scr = saAtt[a].scr
    BY <1>1, <2>2 DEF Attempt, AttemptStates
  <2> HIDE DEF r
  <2>4. Refused(a, r)
    BY <1>7, <2>3 DEF PamRefuses, Refused
  <2> QED BY <2>1, <2>3, <2>4 DEF AttemptMoves
<1>8. ASSUME NEW a \in SaAttempts, PamCounts(a) \/ PamInvalid(a) PROVE AttemptMoves
  BY <1>3, <1>8 DEF PamCounts, PamInvalid
<1>9. ASSUME NEW a \in SaAttempts, PamAccepts(a) PROVE AttemptMoves
  BY <1>5, <1>9 DEF PamAccepts
<1>10. ASSUME NEW a \in SaAttempts, PolicyCheck(a) PROVE AttemptMoves
  <2>1. SaFinished(a, "failure") \/ (saAtt' = [saAtt EXCEPT ![a].pc = "take"] /\ UNCHANGED saReply)
    BY <1>10 DEF PolicyCheck
  <2> QED BY <1>3, <1>5, <1>10, <2>1 DEF PolicyCheck
<1>11. ASSUME NEW a \in SaAttempts, LoginSuccess(a) PROVE AttemptMoves
  BY <1>3, <1>11 DEF LoginSuccess
<1>12. ASSUME UNCHANGED <<saAtt, saReply>> PROVE AttemptMoves
  BY <1>12 DEF AttemptMoves
<1> QED BY <1>4, <1>6, <1>7, <1>8, <1>9, <1>10, <1>11, <1>12 DEF SaNext, SaVars, SaAuth,
     BusStartLogin, BusSetSessionOptions, BusStartUserSession, BusOnline, ConnectorLeaves,
     BusTerminated, StartListener, ListenerReady, ListenerTimeout, ConnectorListens,
     BusSetSessionPolicy, Pkcs11Waited

\* the attempts keep their shape and are answered once
LEMMA NextAttempts ==
    ASSUME SaTyped, AttemptsPlaced, AttemptMoves
    PROVE  AttemptsTyped' /\ saReply' \in [SaAttempts -> {"none", "failure", "success"}]
  BY DEF SaTyped, AttemptsTyped, AttemptMoves, Made, GoesOn, Refused, Answered

\* no screen is taken back, and no answer
LEMMA NextPlaced ==
    ASSUME SaTyped, AttemptsPlaced, [SaNext]_SaVars
    PROVE  AttemptsPlaced'
<1>1. \A d \in SaScreens : saScr[d].st # "none" => saScr'[d].st # "none"
  BY NextScreens DEF ScreensKept
<1>2. AttemptMoves
  BY Moves
<1> QED BY <1>1, <1>2 DEF SaTyped, AttemptsTyped, Attempt, AttemptsPlaced, AttemptMoves, Made, GoesOn,
     Refused, Answered

\* the connectors, the tasks and the session keep their shape
LEMMA NextShapes ==
    ASSUME SaTyped, AttemptsPlaced, [SaNext]_SaVars
    PROVE  /\ saTries' \in [SaScreens -> Nat] /\ saConn' \in [SaScreens -> ConnStates]
           /\ TasksTyped' /\ IsSession(saSess)'
<1>1. saTries' \in [SaScreens -> Nat]
  <2>1. UNCHANGED saTries \/ (\E d \in SaScreens : saTries' = [saTries EXCEPT ![d] = @ + 1])
        \/ (\E d : saTries' = [saTries EXCEPT ![d] = 0])
    BY DEF SaNext, SaVars, SaAuth, BusStartLogin, BusSetSessionOptions, BusStartUserSession,
       BusTerminated, PamCounts, PolicyCheck, BusOnline, ConnectorLeaves, StartListener,
       ListenerReady, ListenerTimeout, BusSetAuthenticate, ConnectorListens, PamAuthenticate,
       PamRefuses, PamInvalid, PamAccepts, LoginSuccess, BusSetSessionPolicy, Pkcs11Waited,
       AttemptsPlaced
  <2> QED BY <2>1 DEF SaTyped
<1>2. saConn' \in [SaScreens -> ConnStates]
  <2>1. saConn \in [SaScreens -> ConnStates]
    BY DEF SaTyped
  <2>2. ASSUME NEW a \in SaAttempts, PamInvalid(a) PROVE saConn' \in [SaScreens -> ConnStates]
    BY <2>1, <2>2 DEF PamInvalid, ConnStates
  <2>3. ASSUME NEW a \in SaAttempts, LoginSuccess(a) PROVE saConn' \in [SaScreens -> ConnStates]
    BY <2>1, <2>3 DEF LoginSuccess, ConnStates
  <2> QED BY <2>1, <2>2, <2>3 DEF SaNext, SaVars, SaAuth, BusStartLogin, BusSetSessionOptions,
       BusStartUserSession, BusTerminated, PamCounts, PolicyCheck, BusOnline, ConnectorLeaves,
       StartListener, ListenerReady, ListenerTimeout, BusSetAuthenticate, ConnectorListens,
       PamAuthenticate, PamRefuses, PamAccepts, BusSetSessionPolicy, Pkcs11Waited, ConnStates
<1>3. TasksTyped'
  <2>1. TasksTyped
    BY DEF SaTyped
  <2>2. ASSUME NEW d \in SaScreens, NEW t, IsTask(t), saTask' = [saTask EXCEPT ![d] = t]
        PROVE  TasksTyped'
    BY <2>1, <2>2 DEF TasksTyped
  <2>3. \A todo : IsTask(StartSessionChannels(todo))
    BY DEF IsTask, StartSessionChannels, TaskStates
  <2>4. ASSUME NEW d \in SaScreens, StartListener(d) PROVE TasksTyped'
    <3>1. IsTask(saTask[d])
      BY <2>1 DEF TasksTyped
    <3>2. CASE saTask' = NextChannel(d)
      BY <2>2, <2>3, <3>2 DEF NextChannel
    <3>3. ASSUME NEW i, saTask' = [saTask EXCEPT ![d].pc = "made", ![d].id = i] PROVE TasksTyped'
      <4> DEFINE t == [saTask[d] EXCEPT !.pc = "made", !.id = i]
      <4>1. saTask' = [saTask EXCEPT ![d] = t]
        BY <2>1, <3>3 DEF TasksTyped
      <4>2. IsTask(t)
        BY <3>1 DEF IsTask, TaskStates
      <4> HIDE DEF t
      <4> QED BY <2>2, <4>1, <4>2
    <3> QED BY <2>4, <3>2, <3>3 DEF StartListener
  <2>5. ASSUME NEW d \in SaScreens, ListenerReady(d) \/ ListenerTimeout(d) PROVE TasksTyped'
    BY <2>2, <2>3, <2>5 DEF ListenerReady, ListenerTimeout, NextChannel
  <2>6. ASSUME NEW d \in SaScreens, BusStartUserSession(d) PROVE TasksTyped'
    BY <2>2, <2>3, <2>6 DEF BusStartUserSession
  <2>7. ASSUME NEW a \in SaAttempts, PamInvalid(a) PROVE TasksTyped'
    BY <2>7 DEF PamInvalid, TasksTyped, IsTask, NoTask, TaskStates
  <2>8. ASSUME UNCHANGED saTask PROVE TasksTyped'
    BY <2>1, <2>8 DEF TasksTyped, IsTask
  <2> QED BY <2>4, <2>5, <2>6, <2>7, <2>8 DEF SaNext, SaVars, SaAuth, SaChan, BusStartLogin,
       BusSetSessionOptions, BusTerminated, PamCounts, PolicyCheck, BusOnline, ConnectorLeaves,
       BusSetAuthenticate, ConnectorListens, PamAuthenticate, PamRefuses, PamAccepts,
       LoginSuccess, BusSetSessionPolicy, Pkcs11Waited
<1>4. IsSession(saSess)'
  <2>1. IsSession(saSess)
    BY DEF SaTyped
  <2>2. ASSUME NEW d \in SaScreens, BusStartUserSession(d) PROVE IsSession(saSess)'
    <3>1. CASE saSess' = [saSess EXCEPT !.conn = d]
      BY <2>1, <3>1 DEF IsSession
    <3>2. CASE saSess' = [mode |-> "Started", conn |-> d, policy |-> saSess.policy, points |-> {},
                          opts |-> saScr[d].opts,
                          allow |-> {"cups", "sane", "audio", "pcsc", "fuse"} \ SaDisabled]
      BY <3>2 DEF IsSession
    <3> QED BY <2>2, <3>1, <3>2 DEF BusStartUserSession
  <2>3. ASSUME NEW d \in SaScreens, ListenerReady(d) PROVE IsSession(saSess)'
    <3>1. PICK q : saSess' = [saSess EXCEPT !.points = q] \/ saSess' = saSess
      BY <2>3 DEF ListenerReady
    <3> QED BY <2>1, <3>1 DEF IsSession
  <2> QED BY <2>1, <2>2, <2>3 DEF IsSession, SaNext, SaVars, SaAuth, BusStartLogin,
       BusSetSessionOptions, BusTerminated, PamCounts, PolicyCheck, BusOnline, ConnectorLeaves,
       StartListener, ListenerTimeout, BusSetAuthenticate, ConnectorListens, PamAuthenticate,
       PamRefuses, PamInvalid, PamAccepts, LoginSuccess, BusSetSessionPolicy, Pkcs11Waited,
       NoSession
<1> QED BY <1>1, <1>2, <1>3, <1>4

\* records with the same shape: the invariant's first part
LEMMA NextTyped ==
    ASSUME SaTyped, AttemptsPlaced, [SaNext]_SaVars
    PROVE  SaTyped'
  BY NextScreens, Moves, NextAttempts, NextShapes DEF SaTyped, ScreensKept

\* a connector becomes "granted" by emitLoginSuccess only, "attached" only then
ConnMoves(d) ==
    \/ saConn'[d] \in {saConn[d], "online", "leaving", "gone"}
    \/ saConn'[d] = "login" /\ saScr[d].st = "none"
    \/ saConn'[d] = "granted" /\ saConn[d] = "login" /\ \E a \in SaAttempts : saAtt[a].scr = d /\ LoginSuccess(a)
    \/ saConn'[d] = "attached" /\ saConn[d] = "granted"

\* every step leaves a connector alone or moves it so
LEMMA ConnectorMoves ==
    ASSUME SaTyped, AttemptsPlaced, [SaNext]_SaVars
    PROVE  \A d \in SaScreens : ConnMoves(d)
<1>1. saConn \in [SaScreens -> ConnStates]
  BY DEF SaTyped
<1>2. ASSUME UNCHANGED saConn PROVE \A d \in SaScreens : ConnMoves(d)
  BY <1>2 DEF ConnMoves
<1>3. ASSUME NEW c \in SaScreens, BusStartLogin(c) PROVE \A d \in SaScreens : ConnMoves(d)
  BY <1>1, <1>3 DEF BusStartLogin, ConnMoves
<1>4. ASSUME NEW a \in SaAttempts, PamInvalid(a) PROVE \A d \in SaScreens : ConnMoves(d)
  BY <1>1, <1>4 DEF PamInvalid, ConnMoves
<1>5. ASSUME NEW a \in SaAttempts, LoginSuccess(a) PROVE \A d \in SaScreens : ConnMoves(d)
  BY <1>1, <1>5 DEF LoginSuccess, ConnMoves
<1>6. ASSUME NEW c \in SaScreens, BusStartUserSession(c) PROVE \A d \in SaScreens : ConnMoves(d)
  <2>1. saConn' = [saConn EXCEPT ![c] = "attached"] /\ saConn[c] = "granted"
    BY <1>6 DEF BusStartUserSession
  <2> QED BY <1>1, <2>1 DEF ConnMoves
<1>7. ASSUME NEW c \in SaScreens, BusOnline(c) \/ ConnectorLeaves(c) \/ BusTerminated(c)
      PROVE  \A d \in SaScreens : ConnMoves(d)
  <2>1. \E v \in {"online", "leaving", "gone"} : saConn' = [saConn EXCEPT ![c] = v]
    BY <1>7 DEF BusOnline, ConnectorLeaves, BusTerminated
  <2> QED BY <1>1, <2>1 DEF ConnMoves
<1> QED BY <1>2, <1>3, <1>4, <1>5, <1>6, <1>7 DEF SaNext, SaVars, SaAuth,
     BusSetSessionOptions, PamCounts, PolicyCheck, StartListener, ListenerReady,
     ListenerTimeout, BusSetAuthenticate, ConnectorListens, PamAuthenticate, PamRefuses,
     PamAccepts, BusSetSessionPolicy, Pkcs11Waited

\* a successful answer is final
LEMMA LetInStays ==
    ASSUME SaTyped, AttemptsPlaced, AttemptMoves, NEW d, LetIn(d)
    PROVE  LetIn(d)'
<1>1. PICK a \in SaAttempts : saAtt[a].scr = d /\ saReply[a] = "success" /\ saAtt[a].pc = "done"
  BY DEF LetIn, AttemptsPlaced
<1>2. saAtt'[a] = saAtt[a] /\ saReply'[a] = saReply[a]
  BY <1>1 DEF SaTyped, AttemptsTyped, AttemptMoves, Made, GoesOn, Refused, Answered
<1> QED BY <1>1, <1>2 DEF LetIn

\* the session belongs to the connector that was let in last
LEMMA NextEarned ==
    ASSUME SaTyped, AttemptsPlaced, EntryEarned, [SaNext]_SaVars
    PROVE  EntryEarned'
<1>1. AttemptMoves
  BY Moves
<1>2. ASSUME NEW d \in SaScreens, saConn'[d] \in {"granted", "attached"} PROVE LetIn(d)'
  <2>1. CASE saConn[d] \in {"granted", "attached"}
    BY <1>1, <2>1, LetInStays DEF EntryEarned
  <2>2. ASSUME NEW a \in SaAttempts, saAtt[a].scr = d, LoginSuccess(a) PROVE LetIn(d)'
    BY <2>2 DEF LoginSuccess, SaFinished, LetIn, SaTyped, AttemptsTyped, Attempt, NoAttempt
  <2> QED BY <1>2, <2>1, <2>2, ConnectorMoves DEF ConnMoves
<1>3. saSess'.conn \in {saSess.conn, 0} \/ \E d \in SaScreens :
          saSess'.conn = d /\ saConn[d] \in {"granted", "attached"}
  <2> DEFINE Owner == saSess'.conn \in {saSess.conn, 0} \/ \E d \in SaScreens :
                          saSess'.conn = d /\ saConn[d] \in {"granted", "attached"}
  <2>1. DOMAIN saSess = {"mode", "conn", "policy", "allow", "opts", "points"}
    BY DEF SaTyped, IsSession
  <2>2. ASSUME NEW d \in SaScreens, BusStartUserSession(d) PROVE Owner
    <3>1. saConn[d] = "granted" /\ saSess'.conn = d
      BY <2>1, <2>2 DEF BusStartUserSession
    <3> QED BY <3>1
  <2>3. ASSUME NEW d \in SaScreens, BusOnline(d) PROVE Owner
    <3>1. saConn[d] = "attached" /\ saSess'.conn = d
      BY <2>1, <2>3 DEF BusOnline
    <3> QED BY <3>1
  <2>4. ASSUME NEW d \in SaScreens, ListenerReady(d) PROVE Owner
    <3>1. PICK q : saSess' = [saSess EXCEPT !.points = q] \/ saSess' = saSess
      BY <2>4 DEF ListenerReady
    <3> QED BY <2>1, <3>1
  <2>5. ASSUME NEW d \in SaScreens, BusTerminated(d) PROVE Owner
    <3>1. saSess' = [saSess EXCEPT !.mode = "Disconnected", !.conn = 0, !.points = {}]
          \/ saSess' = saSess
      BY <2>5 DEF BusTerminated
    <3> QED BY <2>1, <3>1
  <2>6. ASSUME NEW a \in SaAttempts, PamInvalid(a) PROVE Owner
    <3>1. saSess'.conn = 0
      BY <2>6 DEF PamInvalid, NoSession
    <3> QED BY <3>1
  <2>7. ASSUME NEW q \in SaNewPolicies, BusSetSessionPolicy(q) PROVE Owner
    BY <2>1, <2>7 DEF BusSetSessionPolicy
  <2>8. ASSUME UNCHANGED saSess PROVE Owner
    BY <2>8
  <2> HIDE DEF Owner
  <2> SUFFICES Owner BY DEF Owner
  <2> QED BY <2>2, <2>3, <2>4, <2>5, <2>6, <2>7, <2>8 DEF SaNext, SaVars, SaAuth,
       BusStartLogin, BusSetSessionOptions, PamCounts, PolicyCheck, ConnectorLeaves,
       StartListener, ListenerTimeout, BusSetAuthenticate, ConnectorListens, PamAuthenticate,
       PamRefuses, PamAccepts, LoginSuccess, Pkcs11Waited
<1>4. ASSUME saSess'.conn # 0 PROVE LetIn(saSess.conn)'
  BY <1>1, <1>3, <1>4, LetInStays DEF EntryEarned
<1> QED BY <1>2, <1>4 DEF EntryEarned

\* pamAuthenticate adds to loginFailures every failure it signals
LEMMA NextCounted ==
    ASSUME SaTyped, AttemptsPlaced, FailuresCounted, [SaNext]_SaVars
    PROVE  FailuresCounted'
<1>1. /\ saAtt \in [SaAttempts -> Attempt] /\ saTries \in [SaScreens -> Nat]
      /\ \A d \in SaScreens : IsScreen(saScr[d])
      /\ DOMAIN saScr = SaScreens
  BY DEF SaTyped, AttemptsTyped, ScreensTyped
<1>2. ASSUME UNCHANGED <<saTries, saLost>>,
             \A a \in SaAttempts : saAtt'[a] = saAtt[a] \/ (saAtt[a].pc # "count" /\ saAtt'[a].pc # "count"),
             \A d \in SaScreens : /\ saScr'[d].fails = saScr[d].fails
                                  /\ saScr[d].st = "closing" => saScr'[d].st = "closing"
      PROVE  FailuresCounted'
  BY <1>2 DEF FailuresCounted, Counting
<1>3. ASSUME NEW a \in SaAttempts, PamRefuses(a) PROVE FailuresCounted'
  <2>0. PICK d : d = saAtt[a].scr
    OBVIOUS
  <2>1. d \in SaScreens /\ saAtt[a].pc = "pam" /\ saScr' = saScr
    BY <1>1, <1>3, <2>0 DEF PamRefuses, AttemptsPlaced
  <2>2. saAtt' = [saAtt EXCEPT ![a].pc = "count", ![a].read = saScr[d].fails]
        /\ saTries' = [saTries EXCEPT ![d] = @ + 1]
    BY <1>3, <2>0 DEF PamRefuses
  <2>3. ~saLost' => ~saLost /\ \A b \in SaAttempts : ~Counting(b, d)
    BY <1>3, <2>0 DEF PamRefuses, Counting
  <2>4. saScr[d].fails \in Nat /\ saTries[d] \in Nat
    BY <1>1, <2>1 DEF IsScreen
  <2>5. /\ \A b \in SaAttempts \ {a} : saAtt'[b] = saAtt[b]
        /\ saAtt'[a].pc = "count" /\ saAtt'[a].scr = d /\ saAtt'[a].read = saScr[d].fails
    BY <1>1, <2>0, <2>2 DEF Attempt
  <2>6. /\ \A c \in SaScreens \ {d} : saTries'[c] = saTries[c]
        /\ saTries'[d] = saTries[d] + 1
    BY <1>1, <2>1, <2>2
  <2>7. Counting(a, d)' /\ \A b \in SaAttempts \ {a}, c \in SaScreens : Counting(b, c)' <=> Counting(b, c)
    BY <2>5 DEF Counting
  <2>8. \A c \in SaScreens \ {d} : ~Counting(a, c) /\ ~Counting(a, c)'
    BY <2>0, <2>1, <2>5 DEF Counting
  <2>9. ASSUME ~saLost', NEW c \in SaScreens
        PROVE  /\ \A x, y \in SaAttempts : Counting(x, c)' /\ Counting(y, c)' => x = y
               /\ \A x \in SaAttempts : Counting(x, c)' => saTries'[c] <= saAtt'[x].read + 1
               /\ (\A x \in SaAttempts : ~Counting(x, c)') => saTries'[c] <= saScr'[c].fails
    <3>1. CASE c = d
      BY <2>1, <2>3, <2>4, <2>5, <2>6, <2>7, <2>9, <3>1 DEF FailuresCounted
    <3>2. CASE c # d
      BY <2>1, <2>3, <2>5, <2>6, <2>7, <2>8, <2>9, <3>2 DEF FailuresCounted
    <3> QED BY <3>1, <3>2
  <2>10. \A c \in SaScreens : saScr'[c].fails > SaFailures => saScr'[c].st = "closing"
    BY <2>1 DEF FailuresCounted
  <2> QED BY <2>9, <2>10 DEF FailuresCounted
<1>4. ASSUME NEW a \in SaAttempts, PamCounts(a) PROVE FailuresCounted'
  <2> DEFINE n == saAtt[a].read + 1
  <2>0. PICK d : d = saAtt[a].scr
    OBVIOUS
  <2>1. d \in SaScreens /\ n \in Nat /\ Counting(a, d)
    BY <1>1, <1>4, <2>0 DEF PamCounts, AttemptsPlaced, Attempt, Counting
  <2>2. saScr' = [saScr EXCEPT ![d].fails = n, ![d].st = IF SaFailures < n THEN "closing" ELSE @]
        /\ UNCHANGED <<saTries, saLost>>
    BY <1>4, <2>0 DEF PamCounts
  <2>3. /\ \A b \in SaAttempts \ {a} : saAtt'[b] = saAtt[b]
        /\ saAtt'[a].pc = "done"
    BY <1>1, <1>4, <2>0 DEF PamCounts, SaFinished, NoAttempt
  <2>4. /\ \A c \in SaScreens \ {d} : saScr'[c] = saScr[c]
        /\ saScr'[d].fails = n /\ (SaFailures < n => saScr'[d].st = "closing")
    BY <1>1, <2>1, <2>2 DEF IsScreen
  <2>5. \A b \in SaAttempts, c \in SaScreens : Counting(b, c)' <=> Counting(b, c) /\ b # a
    BY <2>3 DEF Counting
  <2>6. \A c \in SaScreens \ {d} : ~Counting(a, c)
    BY <2>0 DEF Counting
  <2>7. ASSUME ~saLost, NEW c \in SaScreens
        PROVE  /\ \A x, y \in SaAttempts : Counting(x, c)' /\ Counting(y, c)' => x = y
               /\ \A x \in SaAttempts : Counting(x, c)' => saTries'[c] <= saAtt'[x].read + 1
               /\ (\A x \in SaAttempts : ~Counting(x, c)') => saTries'[c] <= saScr'[c].fails
    <3>1. CASE c = d
      BY <2>1, <2>2, <2>3, <2>4, <2>5, <2>7, <3>1 DEF FailuresCounted
    <3>2. CASE c # d
      <4>1. \A x \in SaAttempts : /\ Counting(x, c)' <=> Counting(x, c)
                                  /\ Counting(x, c) => saAtt'[x] = saAtt[x]
        BY <2>3, <2>5, <2>6, <3>2 DEF Counting
      <4>2. saTries'[c] = saTries[c] /\ saScr'[c] = saScr[c]
        BY <2>2, <2>4, <3>2
      <4>3. /\ \A x, y \in SaAttempts : Counting(x, c) /\ Counting(y, c) => x = y
            /\ \A x \in SaAttempts : Counting(x, c) => saTries[c] <= saAtt[x].read + 1
            /\ (\A x \in SaAttempts : ~Counting(x, c)) => saTries[c] <= saScr[c].fails
        BY <2>7 DEF FailuresCounted
      <4> QED BY <4>1, <4>2, <4>3 DEF Counting
    <3> QED BY <3>1, <3>2
  <2>8. \A c \in SaScreens : saScr'[c].fails > SaFailures => saScr'[c].st = "closing"
    BY <2>1, <2>4, SaAssumption DEF FailuresCounted
  <2> QED BY <2>2, <2>7, <2>8 DEF FailuresCounted
<1>5. ASSUME NEW a \in SaAttempts, PolicyCheck(a) PROVE FailuresCounted'
  <2>0. PICK d : d = saAtt[a].scr
    OBVIOUS
  <2>1. d \in SaScreens /\ saTries' = [saTries EXCEPT ![d] = 0] /\ UNCHANGED saLost
    BY <1>1, <1>5, <2>0 DEF PolicyCheck, AttemptsPlaced
  <2>2. saScr' = saScr \/ saScr' = [saScr EXCEPT ![d].fails = 0]
    BY <1>5, <2>0 DEF PolicyCheck
  <2>3. /\ saAtt[a].pc = "policy" /\ saAtt'[a].pc # "count"
        /\ \A b \in SaAttempts \ {a} : saAtt'[b] = saAtt[b]
    <3>1. SaFinished(a, "failure") \/ saAtt' = [saAtt EXCEPT ![a].pc = "take"]
      BY <1>5, <2>0 DEF PolicyCheck
    <3> QED BY <1>1, <1>5, <3>1 DEF PolicyCheck, SaFinished, NoAttempt, Attempt
  <2>4. /\ \A c \in SaScreens \ {d} : saScr'[c] = saScr[c]
        /\ saScr'[d].st = saScr[d].st /\ saScr'[d].fails \in {0, saScr[d].fails}
    BY <1>1, <2>1, <2>2 DEF IsScreen
  <2>5. \A b \in SaAttempts, c \in SaScreens :
           (Counting(b, c)' <=> Counting(b, c)) /\ (Counting(b, c) => b # a)
    BY <2>3 DEF Counting
  <2>6. \A b \in SaAttempts, c \in SaScreens : Counting(b, c) => saAtt[b].read \in Nat
    BY <1>1 DEF Attempt
  <2>7. ASSUME ~saLost, NEW c \in SaScreens
        PROVE  /\ \A x, y \in SaAttempts : Counting(x, c)' /\ Counting(y, c)' => x = y
               /\ \A x \in SaAttempts : Counting(x, c)' => saTries'[c] <= saAtt'[x].read + 1
               /\ (\A x \in SaAttempts : ~Counting(x, c)') => saTries'[c] <= saScr'[c].fails
    <3>1. CASE c = d
      <4>1. saTries'[c] = 0 /\ saScr[d].fails \in Nat
        BY <1>1, <2>1, <3>1 DEF IsScreen
      <4> QED BY <2>3, <2>4, <2>5, <2>6, <2>7, <3>1, <4>1 DEF FailuresCounted
    <3>2. CASE c # d
      <4>1. saTries'[c] = saTries[c]
        BY <1>1, <2>1, <3>2
      <4> QED BY <2>3, <2>4, <2>5, <2>7, <3>2, <4>1 DEF FailuresCounted
    <3> QED BY <3>1, <3>2
  <2>8. \A c \in SaScreens : saScr'[c].fails > SaFailures => saScr'[c].st = "closing"
    BY <2>1, <2>4, SaAssumption DEF FailuresCounted
  <2> QED BY <2>1, <2>7, <2>8 DEF FailuresCounted
<1>6. ASSUME NEW d \in SaScreens, BusStartLogin(d) \/ BusSetSessionOptions(d)
                  \/ BusStartUserSession(d) \/ BusTerminated(d)
      PROVE  FailuresCounted'
  <2>1. UNCHANGED <<saAtt, saTries, saLost>>
    BY <1>6 DEF BusStartLogin, BusSetSessionOptions, BusStartUserSession, BusTerminated
  <2>2. /\ saScr'[d].fails = saScr[d].fails
        /\ saScr[d].st = "closing" => saScr'[d].st = "closing"
        /\ \A c \in SaScreens \ {d} : saScr'[c] = saScr[c]
    <3>1. \/ saScr' = saScr
          \/ saScr[d].st = "none" /\ saScr' = [saScr EXCEPT ![d].st = "shown"]
          \/ \E o : saScr' = [saScr EXCEPT ![d].opts = o]
          \/ \E o : saScr' = [saScr EXCEPT ![d].st = "closing", ![d].opts = o]
      BY <1>6 DEF BusStartLogin, BusSetSessionOptions, BusStartUserSession, BusTerminated
    <3> QED BY <1>1, <3>1 DEF IsScreen
  <2> QED BY <1>2, <2>1, <2>2
<1>7. ASSUME NEW a \in SaAttempts, PamAuthenticate(a) \/ PamInvalid(a) \/ PamAccepts(a) \/ LoginSuccess(a)
      PROVE  FailuresCounted'
  <2>1. UNCHANGED <<saScr, saTries, saLost>>
    BY <1>7 DEF PamAuthenticate, PamInvalid, PamAccepts, LoginSuccess
  <2>2. saAtt[a].pc # "count" /\ saAtt'[a].pc # "count" /\ \A b \in SaAttempts \ {a} : saAtt'[b] = saAtt[b]
    <3>1. saAtt[a].pc # "count" /\ \/ \E q : SaFinished(a, q)
                                    \/ \E v \in {"policy", "pam"} : saAtt' = [saAtt EXCEPT ![a].pc = v]
      BY <1>7 DEF PamAuthenticate, PamInvalid, PamAccepts, LoginSuccess
    <3> QED BY <1>1, <3>1 DEF SaFinished, NoAttempt, Attempt
  <2> QED BY <1>2, <2>1, <2>2
<1>8. ASSUME NEW d \in SaScreens, NEW a \in SaAttempts, BusSetAuthenticate(d, a) PROVE FailuresCounted'
  <2>1. UNCHANGED <<saScr, saTries, saLost>>
    BY <1>8 DEF BusSetAuthenticate
  <2>2. saAtt[a].pc # "count" /\ saAtt'[a].pc # "count" /\ \A b \in SaAttempts \ {a} : saAtt'[b] = saAtt[b]
    BY <1>1, <1>8 DEF BusSetAuthenticate, NoAttempt
  <2> QED BY <1>2, <2>1, <2>2
<1>9. ASSUME UNCHANGED <<saScr, saAtt, saTries, saLost>> PROVE FailuresCounted'
  BY <1>2, <1>9
<1> QED BY <1>3, <1>4, <1>5, <1>6, <1>7, <1>8, <1>9 DEF SaNext, SaVars, SaAuth, BusOnline,
     ConnectorLeaves, StartListener, ListenerReady, ListenerTimeout, ConnectorListens,
     BusSetSessionPolicy, Pkcs11Waited

-----------------------------------------------------------------------------
(***************************************************************************)
(* The policy that locks a session.                                        *)
(***************************************************************************)
\* a step puts an attempt past the check in PolicyCheck only
PastOnly(a) == PastCheck(a)' => PastCheck(a) \/ PolicyCheck(a)

\* an attempt gets past the check in PolicyCheck and by no other step
LEMMA PastCheckEntered ==
    ASSUME SaTyped, AttemptsPlaced, [SaNext]_SaVars
    PROVE  \A a \in SaAttempts : PastOnly(a)
<1>1. /\ saAtt \in [SaAttempts -> Attempt] /\ saConn \in [SaScreens -> ConnStates]
      /\ saReply \in [SaAttempts -> {"none", "failure", "success"}]
  BY DEF SaTyped, AttemptsTyped
<1> SUFFICES ASSUME NEW a \in SaAttempts, PastCheck(a)', ~PastCheck(a) PROVE PolicyCheck(a)
  BY DEF PastOnly
<1>2. CASE saAtt'[a].pc = "take"
  <2>1. saAtt[a].pc # "take"
    BY DEF PastCheck
  <2>2. ASSUME NEW b \in SaAttempts, NEW q, SaFinished(b, q) PROVE FALSE
    BY <1>1, <1>2, <2>1, <2>2 DEF SaFinished, NoAttempt
  <2>3. ASSUME NEW b \in SaAttempts, NEW v \in {"pam", "policy"},
               saAtt' = [saAtt EXCEPT ![b].pc = v]
        PROVE  FALSE
    BY <1>1, <1>2, <2>1, <2>3 DEF Attempt
  <2>4. ASSUME NEW b \in SaAttempts, PamAuthenticate(b) \/ PamCounts(b) \/ PamInvalid(b)
                    \/ PamAccepts(b) \/ LoginSuccess(b)
        PROVE  FALSE
    BY <2>2, <2>3, <2>4 DEF PamAuthenticate, PamCounts, PamInvalid, PamAccepts, LoginSuccess
  <2>5. ASSUME NEW b \in SaAttempts, PamRefuses(b) PROVE FALSE
    BY <1>1, <1>2, <2>1, <2>5 DEF PamRefuses, Attempt
  <2>6. ASSUME NEW b \in SaAttempts, NEW d \in SaScreens, BusSetAuthenticate(d, b) PROVE FALSE
    BY <1>1, <1>2, <2>1, <2>6 DEF BusSetAuthenticate, NoAttempt
  <2>7. ASSUME NEW b \in SaAttempts, PolicyCheck(b) PROVE a = b
    <3>1. (\E q : SaFinished(b, q)) \/ saAtt' = [saAtt EXCEPT ![b].pc = "take"]
      BY <2>7 DEF PolicyCheck
    <3> QED BY <1>1, <1>2, <2>1, <2>2, <3>1
  <2>8. saAtt' # saAtt
    BY <1>2, <2>1
  <2> QED BY <2>4, <2>5, <2>6, <2>7, <2>8 DEF SaNext, SaVars, SaAuth, BusStartLogin,
       BusSetSessionOptions, BusStartUserSession, BusOnline, ConnectorLeaves, BusTerminated,
       StartListener, ListenerReady, ListenerTimeout, ConnectorListens, BusSetSessionPolicy,
       Pkcs11Waited
<1>3. CASE saAtt'[a].pc = "done" /\ saReply'[a] = "success"
  <2> DEFINE d == saAtt'[a].scr
             early == {"login", "granted", "attached"}
  <2>1. AttemptMoves
    BY Moves
  <2>2. ~LoginSuccess(a)
    BY DEF LoginSuccess, PastCheck
  <2>3. saAtt'[a] = saAtt[a] /\ saReply'[a] = saReply[a]
    BY <1>1, <1>3, <2>1, <2>2 DEF AttemptMoves, Made, GoesOn, Refused, Answered, AttemptsPlaced
  <2>4. saConn'[saAtt[a].scr] \in early /\ saConn[saAtt[a].scr] \notin early
    BY <1>3, <2>3 DEF PastCheck
  <2>5. saAtt[a].scr \in SaScreens /\ saScr[saAtt[a].scr].st # "none"
    BY <1>3, <2>3 DEF AttemptsPlaced
  <2> QED BY <2>4, <2>5, ConnectorMoves DEF ConnMoves
<1> QED BY <1>2, <1>3 DEF PastCheck

\* what a step does to what the check reads
SessionMoves ==
    \/ saSess'.mode = saSess.mode /\ saSess'.policy = saSess.policy
    \/ saSess'.mode # "Connected"
    \/ \E d \in SaScreens : BusOnline(d) /\ saSess'.policy = saSess.policy
    \/ \E p \in SaNewPolicies : BusSetSessionPolicy(p)

\* a session becomes connected in setSessionOnline only, and its policy is the
\* administrator's to change
LEMMA CheckedMoves ==
    ASSUME SaTyped, [SaNext]_SaVars
    PROVE  SessionMoves
<1>1. DOMAIN saSess = {"mode", "conn", "policy", "allow", "opts", "points"}
  BY DEF SaTyped, IsSession
<1>2. ASSUME UNCHANGED saSess PROVE SessionMoves
  BY <1>2 DEF SessionMoves
<1>3. ASSUME NEW d \in SaScreens, BusStartUserSession(d) PROVE SessionMoves
  <2>1. saSess' = [saSess EXCEPT !.conn = d] \/ saSess'.mode = "Started"
    BY <1>3 DEF BusStartUserSession
  <2> QED BY <1>1, <2>1 DEF SessionMoves
<1>4. ASSUME NEW d \in SaScreens, BusOnline(d) PROVE SessionMoves
  <2>1. saSess'.policy = saSess.policy
    BY <1>1, <1>4 DEF BusOnline
  <2> QED BY <1>4, <2>1 DEF SessionMoves
<1>5. ASSUME NEW d \in SaScreens, ListenerReady(d) PROVE SessionMoves
  <2>1. PICK q : saSess' = [saSess EXCEPT !.points = q] \/ saSess' = saSess
    BY <1>5 DEF ListenerReady
  <2> QED BY <1>1, <2>1 DEF SessionMoves
<1>6. ASSUME NEW d \in SaScreens, BusTerminated(d) PROVE SessionMoves
  <2>1. saSess' = [saSess EXCEPT !.mode = "Disconnected", !.conn = 0, !.points = {}]
        \/ saSess' = saSess
    BY <1>6 DEF BusTerminated
  <2> QED BY <1>1, <2>1 DEF SessionMoves
<1>7. ASSUME NEW a \in SaAttempts, PamInvalid(a) PROVE SessionMoves
  <2>1. saSess'.mode = "none"
    BY <1>7 DEF PamInvalid, NoSession
  <2> QED BY <2>1 DEF SessionMoves
<1>8. ASSUME NEW p \in SaNewPolicies, BusSetSessionPolicy(p) PROVE SessionMoves
  BY <1>8 DEF SessionMoves
<1> QED BY <1>2, <1>3, <1>4, <1>5, <1>6, <1>7, <1>8 DEF SaNext, SaVars, SaAuth,
     BusStartLogin, BusSetSessionOptions, PamCounts, PolicyCheck, ConnectorLeaves,
     StartListener, ListenerTimeout, BusSetAuthenticate, ConnectorListens, PamAuthenticate,
     PamRefuses, PamAccepts, LoginSuccess, Pkcs11Waited

\* an attempt past the check is noticed by the next one, and by the
\* administrator; the one that connects the session is past it no more
LEMMA NextOnePast ==
    ASSUME SaTyped, AttemptsPlaced, EntryEarned, OnePastCheck, [SaNext]_SaVars
    PROVE  OnePastCheck'
<1> SUFFICES ASSUME ~saMixed'
             PROVE  /\ \A a, b \in SaAttempts : PastCheck(a)' /\ PastCheck(b)' => a = b
                    /\ saSess'.mode = "Connected" /\ saSess'.policy = "authlock"
                          => \A a \in SaAttempts : ~PastCheck(a)'
  BY DEF OnePastCheck
<1>2. ~saMixed
  BY DEF SaNext, SaVars, SaHist, SaAuth, SaChan, BusStartLogin, BusSetSessionOptions,
     BusStartUserSession, BusOnline, BusTerminated, PamCounts, PolicyCheck, ConnectorLeaves,
     StartListener, ListenerReady, ListenerTimeout, BusSetAuthenticate, ConnectorListens,
     PamAuthenticate, PamRefuses, PamInvalid, PamAccepts, LoginSuccess, BusSetSessionPolicy,
     Pkcs11Waited
<1>3. /\ \A a, b \in SaAttempts : PastCheck(a) /\ PastCheck(b) => a = b
      /\ saSess.mode = "Connected" /\ saSess.policy = "authlock"
            => \A a \in SaAttempts : ~PastCheck(a)
  BY <1>2 DEF OnePastCheck
<1>4. ASSUME NEW a \in SaAttempts, PolicyCheck(a), PastCheck(a)'
      PROVE  /\ \A b \in SaAttempts \ {a} : ~PastCheck(b)
             /\ ~(saSess.mode = "Connected" /\ saSess.policy = "authlock")
             /\ saAtt' = [saAtt EXCEPT ![a].pc = "take"]
             /\ UNCHANGED saSess
  <2>1. ~SaFinished(a, "failure")
    BY <1>4 DEF PastCheck, SaFinished, SaTyped, AttemptsTyped, Attempt, NoAttempt
  <2> QED BY <1>4, <2>1 DEF PolicyCheck
<1>5. ASSUME NEW a \in SaAttempts, NEW b \in SaAttempts, PastCheck(a)', PastCheck(b)'
      PROVE  a = b
  <2>1. ASSUME NEW x \in SaAttempts, NEW y \in SaAttempts, PastCheck(x)', PastCheck(y)',
               PolicyCheck(x), x # y
        PROVE  FALSE
    <3>1. saAtt' = [saAtt EXCEPT ![x].pc = "take"]
      BY <1>4, <2>1
    <3>2. saAtt'[y] = saAtt[y]
      BY <2>1, <3>1
    <3>3. ~PolicyCheck(y)
      BY <2>1, <3>2 DEF PolicyCheck, PastCheck
    <3> QED BY <1>4, <2>1, <3>3, PastCheckEntered DEF PastOnly
  <2> QED BY <1>3, <1>5, <2>1, PastCheckEntered DEF PastOnly
<1>6. ASSUME saSess'.mode = "Connected", saSess'.policy = "authlock", NEW a \in SaAttempts,
             PastCheck(a)'
      PROVE  FALSE
  <2>1. CASE PolicyCheck(a)
    BY <1>4, <1>6, <2>1
  <2>2. CASE PastCheck(a) /\ ~PolicyCheck(a)
    <3>1. PICK d \in SaScreens : BusOnline(d)
      <4>1. ~\E p \in SaNewPolicies : BusSetSessionPolicy(p)
        BY <2>2 DEF BusSetSessionPolicy
      <4> QED BY <1>3, <1>6, <2>2, <4>1, CheckedMoves DEF SessionMoves
    <3>2. saConn[d] = "attached" /\ saConn' = [saConn EXCEPT ![d] = "online"]
          /\ UNCHANGED <<saAtt, saReply>>
      BY <3>1 DEF BusOnline, SaAuth
    <3>3. PICK b \in SaAttempts : saAtt[b].scr = d /\ saReply[b] = "success" /\ saAtt[b].pc = "done"
      BY <3>2 DEF EntryEarned, LetIn, AttemptsPlaced
    <3>4. PastCheck(b)
      BY <3>2, <3>3 DEF PastCheck
    <3>5. a = b
      BY <1>3, <2>2, <3>4
    <3>6. saConn'[d] = "online"
      BY <3>2 DEF SaTyped
    <3> QED BY <1>6, <3>2, <3>3, <3>5, <3>6 DEF PastCheck
  <2> QED BY <1>6, <2>1, <2>2, PastCheckEntered DEF PastOnly
<1> QED BY <1>5, <1>6

\* busStartUserSession gives a locked, connected session away only to an
\* attempt that was past the check when the session was connected
LEMMA NextLockHeld ==
    ASSUME SaTyped, AttemptsPlaced, EntryEarned, OnePastCheck, SaLockHeld, [SaNext]_SaVars
    PROVE  SaLockHeld'
<1>1. saMixed => saMixed'
  BY DEF SaNext, SaVars, SaHist, SaAuth, SaChan, BusStartLogin, BusSetSessionOptions,
     BusStartUserSession, BusOnline, BusTerminated, PamCounts, PolicyCheck, ConnectorLeaves,
     StartListener, ListenerReady, ListenerTimeout, BusSetAuthenticate, ConnectorListens,
     PamAuthenticate, PamRefuses, PamInvalid, PamAccepts, LoginSuccess, BusSetSessionPolicy,
     Pkcs11Waited
<1>2. ASSUME NEW d \in SaScreens, BusStartUserSession(d), ~saMixed
      PROVE  ~(saSess.mode = "Connected" /\ saSess.policy = "authlock")
  <2>1. PICK a \in SaAttempts : saAtt[a].scr = d /\ saReply[a] = "success" /\ saAtt[a].pc = "done"
    BY <1>2 DEF BusStartUserSession, EntryEarned, LetIn, AttemptsPlaced
  <2>2. PastCheck(a)
    BY <1>2, <2>1 DEF BusStartUserSession, PastCheck
  <2> QED BY <1>2, <2>2 DEF OnePastCheck
<1>3. ASSUME NEW d \in SaScreens, BusStartUserSession(d) PROVE SaLockHeld'
  BY <1>1, <1>2, <1>3 DEF BusStartUserSession, SaLockHeld
<1>4. ASSUME UNCHANGED saStolen PROVE SaLockHeld'
  BY <1>1, <1>4 DEF SaLockHeld
<1> QED BY <1>3, <1>4 DEF SaNext, SaVars, SaHist, BusStartLogin, BusSetSessionOptions,
     BusOnline, BusTerminated, PamCounts, PolicyCheck, ConnectorLeaves, StartListener,
     ListenerReady, ListenerTimeout, BusSetAuthenticate, ConnectorListens, PamAuthenticate,
     PamRefuses, PamInvalid, PamAccepts, LoginSuccess, BusSetSessionPolicy, Pkcs11Waited

-----------------------------------------------------------------------------
(***************************************************************************)
(* The channels come up whole.                                             *)
(***************************************************************************)
\* a pool thread leaves a listener only when its daemon is connected to it, or
\* takes it down again; what would break this is noted in saSwitch
LEMMA NextServed ==
    ASSUME SaTyped, ListenersServed, [SaNext]_SaVars
    PROVE  ListenersServed'
<1>1. DOMAIN saTask = SaScreens /\ (\A d \in SaScreens : IsTask(saTask[d]))
      /\ saConn \in [SaScreens -> ConnStates]
  BY DEF SaTyped, TasksTyped
<1> SUFFICES ASSUME ~saSwitch'
             PROVE  /\ \A d \in SaScreens : saConn'[d] # "leaving"
                    /\ \A s \in saSig' \union saSock' : Plugged(s) => s \in saDaemon' \/ Awaited(s)'
                    /\ \A s \in saSig' \intersect saSock' : ~Plugged(s)
  BY DEF ListenersServed, Plugged, Awaited
<1>2. ~saSwitch
  BY DEF SaNext, SaVars, SaHist, SaAuth, SaChan, BusStartLogin, BusSetSessionOptions,
     BusStartUserSession, BusOnline, BusTerminated, PamCounts, PolicyCheck, ConnectorLeaves,
     StartListener, ListenerReady, ListenerTimeout, BusSetAuthenticate, ConnectorListens,
     PamAuthenticate, PamRefuses, PamInvalid, PamAccepts, LoginSuccess, BusSetSessionPolicy,
     Pkcs11Waited
<1>3. /\ \A d \in SaScreens : saConn[d] # "leaving"
      /\ \A s \in saSig \union saSock : Plugged(s) => s \in saDaemon \/ Awaited(s)
      /\ \A s \in saSig \intersect saSock : ~Plugged(s)
  BY <1>2 DEF ListenersServed
<1>4. \A d \in SaScreens : saConn'[d] # "leaving"
  <2>1. ASSUME NEW a \in SaAttempts, PamInvalid(a) PROVE FALSE
    BY <2>1 DEF PamInvalid
  <2>2. ASSUME NEW c \in SaScreens, ConnectorLeaves(c) PROVE FALSE
    BY <2>2 DEF ConnectorLeaves
  <2>3. ASSUME NEW a \in SaAttempts, LoginSuccess(a) PROVE \A d \in SaScreens : saConn'[d] # "leaving"
    BY <1>1, <1>3, <2>3 DEF LoginSuccess
  <2>4. UNCHANGED saConn \/ (\E c \in SaScreens, v \in {"login", "attached", "online", "gone"} :
                                 saConn' = [saConn EXCEPT ![c] = v])
        \/ (\E a \in SaAttempts : LoginSuccess(a))
    BY <2>1, <2>2 DEF SaNext, SaVars, SaAuth, BusStartLogin, BusSetSessionOptions,
       BusStartUserSession, BusOnline, BusTerminated, PamCounts, PolicyCheck, StartListener,
       ListenerReady, ListenerTimeout, BusSetAuthenticate, ConnectorListens, PamAuthenticate,
       PamRefuses, PamAccepts, BusSetSessionPolicy, Pkcs11Waited
  <2> QED BY <1>1, <1>3, <2>3, <2>4
<1> DEFINE Served == /\ \A s \in saSig' \union saSock' : Plugged(s) => s \in saDaemon' \/ Awaited(s)'
                     /\ \A s \in saSig' \intersect saSock' : ~Plugged(s)
<1>5. ASSUME UNCHANGED <<saTask, saDaemon>>, NEW x,
             saSig' \union saSock' \subseteq saSig \union saSock \union {x}, ~Plugged(x),
             \A s \in saSig' \intersect saSock' : s \in saSig \intersect saSock \/ s = x
      PROVE  Served
  BY <1>3, <1>5 DEF Awaited
<1>6. ASSUME NEW d \in SaScreens, \A c \in SaScreens \ {d} : saTask'[c] = saTask[c], NEW x,
             saTask[d].pc = "made" => x = <<Head(saTask[d].todo), saTask[d].id>>,
             NEW s, s # x \/ saTask[d].pc # "made", Awaited(s)
      PROVE  Awaited(s)'
  BY <1>6 DEF Awaited
<1>7. ASSUME NEW d \in SaScreens, StartListener(d) PROVE Served
  <2>1. /\ saTask[d].pc = "start" /\ saDaemon' = saDaemon
        /\ \A c \in SaScreens \ {d} : saTask'[c] = saTask[c]
    BY <1>1, <1>7 DEF StartListener, NextChannel
  <2>2. \A s : Awaited(s) => Awaited(s)'
    BY <1>6, <2>1
  <2>3. CASE UNCHANGED <<saSig, saSock>>
    BY <1>3, <2>1, <2>2, <2>3
  <2>4. ASSUME NEW x, x = <<Head(saTask[d].todo), SocketId(Head(saTask[d].todo))>>,
               saSock' = saSock \ {x}, saSig' = saSig \union {x},
               saTask' = [saTask EXCEPT ![d].pc = "made", ![d].id = x[2]]
        PROVE  Served
    <3>1. DOMAIN saTask[d] = {"pc", "todo", "id"}
      BY <1>1 DEF IsTask
    <3>2. saTask'[d].pc = "made" /\ saTask'[d].todo = saTask[d].todo /\ saTask'[d].id = x[2]
      BY <1>1, <2>4, <3>1
    <3>3. x = <<Head(saTask[d].todo), x[2]>>
      BY <2>4
    <3>4. Awaited(x)'
      BY <3>2, <3>3 DEF Awaited
    <3>5. \A s \in saSig' \union saSock' : Plugged(s) => s \in saDaemon' \/ Awaited(s)'
      BY <1>3, <2>1, <2>2, <2>4, <3>4
    <3>6. \A s \in saSig' \intersect saSock' : ~Plugged(s)
      BY <1>3, <2>4
    <3> QED BY <3>5, <3>6
  <2>5. Served
    BY <1>7, <2>3, <2>4 DEF StartListener
  <2> QED BY <2>5
<1>8. ASSUME NEW d \in SaScreens, ListenerReady(d) PROVE Served
  <2>1. PICK x : x = <<Head(saTask[d].todo), saTask[d].id>>
    OBVIOUS
  <2>2. /\ saTask[d].pc = "made" /\ x \in saSock /\ saSig' = saSig
        /\ \A c \in SaScreens \ {d} : saTask'[c] = saTask[c]
        /\ \/ x[1] = "sane" /\ saDaemon' = saDaemon /\ saSock' = saSock
           \/ saDaemon' = saDaemon \union {x} /\ saSock' = saSock
           \/ saDaemon' = saDaemon /\ saSock' = saSock \ {x}
    BY <1>1, <1>8, <2>1 DEF ListenerReady, NextChannel
  <2>3. \A s : s # x /\ Awaited(s) => Awaited(s)'
    BY <1>6, <2>1, <2>2
  <2>4. ~Plugged(x) \/ x \in saDaemon' \/ x \notin saSig' \union saSock'
    BY <1>3, <2>2 DEF Plugged
  <2>5. \A s \in saSig' \union saSock' : Plugged(s) => s \in saDaemon' \/ Awaited(s)'
    BY <1>3, <2>2, <2>3, <2>4
  <2>6. \A s \in saSig' \intersect saSock' : ~Plugged(s)
    BY <1>3, <2>2
  <2> QED BY <2>5, <2>6
<1>9. ASSUME NEW d \in SaScreens, BusStartUserSession(d) PROVE Served
  <2>1. /\ saTask[d].pc = "none" /\ UNCHANGED <<saSig, saSock, saDaemon>>
        /\ \A c \in SaScreens \ {d} : saTask'[c] = saTask[c]
    BY <1>1, <1>9 DEF BusStartUserSession
  <2>2. \A s : Awaited(s) => Awaited(s)'
    BY <1>6, <2>1
  <2> QED BY <1>3, <2>1, <2>2
<1>10. ASSUME UNCHANGED SaChan PROVE Served
  BY <1>3, <1>10 DEF SaChan, Awaited
<1>11. ASSUME NEW d \in SaScreens, BusSetSessionOptions(d) PROVE Served
  <2>1. UNCHANGED <<saTask, saDaemon, saSock>>
        /\ (saSig' = saSig \union {<<"pkcs11", d>>} \/ saSig' = saSig)
    BY <1>11 DEF BusSetSessionOptions
  <2>2. ~Plugged(<<"pkcs11", d>>)
    BY DEF Plugged
  <2> QED BY <1>5, <2>1, <2>2
<1>12. ASSUME NEW d \in SaScreens, NEW s \in saSig, ConnectorListens(d, s) PROVE Served
  <2>1. UNCHANGED <<saTask, saDaemon>> /\ saSig' = saSig \ {s} /\ saSock' = saSock \union {s}
    BY <1>12 DEF ConnectorListens
  <2>2. ~Plugged(<<"pkcs11", 0>>)
    BY DEF Plugged
  <2> QED BY <1>5, <2>1, <2>2
<1>13. ASSUME NEW d \in SaScreens, ConnectorLeaves(d) \/ BusTerminated(d) \/ ListenerTimeout(d) PROVE FALSE
  BY <1>3, <1>13 DEF ConnectorLeaves, BusTerminated, ListenerTimeout
<1>14. ASSUME NEW a \in SaAttempts, PamInvalid(a) PROVE FALSE
  BY <1>14 DEF PamInvalid
<1>15. Served
  <2> HIDE DEF Served
  <2> QED BY <1>7, <1>8, <1>9, <1>10, <1>11, <1>12, <1>13, <1>14 DEF SaNext, SaVars, SaAuth,
       BusStartLogin, BusOnline, BusSetAuthenticate, PamAuthenticate, PamRefuses, PamCounts,
       PamAccepts, PolicyCheck, LoginSuccess, BusSetSessionPolicy, Pkcs11Waited
<1> QED BY <1>4, <1>15

-----------------------------------------------------------------------------
\* nobody has been let in when the service starts
LEMMA InitAccess == SaInit => AccessInv
<1> SUFFICES ASSUME SaInit PROVE AccessInv
  OBVIOUS
<1>1. PICK p \in SaPolicies : saSess = [NoSession EXCEPT !.policy = p]
  BY DEF SaInit
<1>2. /\ saSess.conn = 0 /\ saSess.mode = "none"
      /\ DOMAIN saSess = {"mode", "conn", "policy", "allow", "opts", "points"}
  BY <1>1 DEF NoSession
<1>3. SaTyped
  BY <1>2 DEF SaInit, SaTyped, ScreensTyped, AttemptsTyped, TasksTyped, IsScreen, IsTask, IsSession,
     Attempt, AttemptStates, ScreenStates, ConnStates, TaskStates, NoAttempt, NoTask
<1>4. AttemptsPlaced /\ EntryEarned /\ FailuresCounted
  BY <1>2, SaAssumption DEF SaInit, AttemptsPlaced, EntryEarned, FailuresCounted, NoAttempt, Counting
<1>5. OnePastCheck /\ SaLockHeld /\ ListenersServed
  BY <1>2 DEF SaInit, OnePastCheck, PastCheck, SaLockHeld, ListenersServed, NoAttempt
<1> QED BY <1>3, <1>4, <1>5 DEF AccessInv

\* the inductive invariant holds of every behaviour of SessionAccess
THEOREM AccessSafe == SaSpec => []AccessInv
<1>1. AccessInv /\ [SaNext]_SaVars => AccessInv'
  BY NextTyped, NextPlaced, NextEarned, NextCounted, NextOnePast, NextLockHeld, NextServed
     DEF AccessInv
<1> QED BY InitAccess, <1>1, PTL DEF SaSpec

\* a login screen is shut down once it was tried too often, and nobody gets a
\* locked session that is connected (pamAuthenticate, busStartUserSession)
THEOREM LoginGuarded == SaSpec => []SaLoginGuarded
<1>1. AccessInv => SaTypeOK
  BY DEF AccessInv, SaTyped, ScreensTyped, TasksTyped, IsScreen, IsTask, IsSession, EntryEarned, LetIn,
     SaTypeOK, ScreenStates, ConnStates, TaskStates
<1>2. AccessInv => SaGuessesLimited
  <2> SUFFICES ASSUME AccessInv, NEW d \in SaScreens, saTries[d] > SaFailures, ~saLost,
                      \A a \in SaAttempts : ~Counting(a, d)
               PROVE  saScr[d].st = "closing"
    BY DEF SaGuessesLimited, Counting
  <2>1. saTries[d] \in Nat /\ saScr[d].fails \in Nat /\ saTries[d] <= saScr[d].fails
    BY DEF AccessInv, SaTyped, ScreensTyped, IsScreen, FailuresCounted
  <2> QED BY <2>1, SaAssumption DEF AccessInv, FailuresCounted
<1>3. AccessInv => SaLoginGuarded
  BY <1>1, <1>2 DEF AccessInv, SaLoginGuarded
<1> QED BY AccessSafe, <1>3, PTL

\* a session whose channels have been started has no listener without its
\* daemon (startSessionChannels)
THEOREM ChannelsWhole == SaSpec => []SaNoHalfChannel
<1>1. AccessInv => SaNoHalfChannel
  BY DEF AccessInv, ListenersServed, Plugged, Awaited, SaNoHalfChannel
<1> QED BY AccessSafe, <1>1, PTL

-----------------------------------------------------------------------------
(***************************************************************************)
(* FileTransfer.                                                           *)
(***************************************************************************)
Signals == [file : Files, name : Names \union {Rejected}]
Transfers == [file : Files, channel : {"none", "open", "closed"},
              tmp : {"absent", "part", "full", "gone"},
              wait : {"none", "poll", "move", "saved", "lost", "failed", "nothing"}]
Threads == [list : Seq(Files), left : Seq(Files), portion : 0..MaxChannels,
            sent : Seq(Files)]
TaskPcs == {"free", "question", "select", "reject", "copy", "done"}
Requests == [pc : TaskPcs, files : Seq(Files)]

\* every variable has its type
FtTyped ==
    /\ conn \in {"up", "gone"} /\ mode \in BOOLEAN
    /\ main \in [pc : {"idle", "plan", "send"}, todo : Seq(Files), free : 0..MaxChannels]
    /\ planned \in Seq(Files)
    /\ partials \in [1..MaxThreads -> Threads]
    /\ tasks \in [1..MaxRequests -> Requests]
    /\ signals \in Seq(Signals)
    /\ xfer \in Seq(Transfers) /\ Len(xfer) <= MaxTransfers
    /\ dst \in SUBSET Files
    /\ plans \in [Files -> Nat]
    /\ drops \in 0..MaxDrops /\ returns \in 0..MaxReturns

\* a request names no file twice, and has files while it rejects or copies
RequestFits(task) ==
    /\ IsInjective(task.files)
    /\ task.pc \in {"reject", "copy"} => task.files # <<>>

\* no list that is planned or requested names a file twice, and what a thread
\* has sent is a beginning of its list
FtLists ==
    /\ IsInjective(planned)
    /\ \A t \in 1..MaxThreads : /\ IsInjective(partials[t].list)
                                /\ partials[t].sent \o partials[t].left = partials[t].list
    /\ \A r \in 1..MaxRequests : RequestFits(tasks[r])

\* no more channels are open than there are
FtChannels == Cardinality(OpenChannels) <= MaxChannels

\* a signal that allows a file names a transfer of that file
FtSignals ==
    \A i \in 1..Len(signals) : signals[i].name # Rejected =>
        /\ signals[i].name \in 1..Len(xfer)
        /\ xfer[signals[i].name].file = signals[i].file

\* a file still on the plan has a plan that no transfer of it was started for
FtCounted ==
    \A f \in Files : Cardinality(Started(f)) + (IF f \in Range(planned) THEN 1 ELSE 0)
                       <= plans[f]

FtInv == FtTyped /\ FtLists /\ FtChannels /\ FtSignals /\ FtCounted

\* The transfers of a file that were started, and the open channels, among
\* transfers x.
StartedIn(x, f) == {i \in DOMAIN x : x[i].file = f /\ x[i].wait # "none"}
OpenIn(x) == {i \in 1..Len(x) : x[i].channel = "open"}

(* The tail of a list without repetitions has none.                        *)
LEMMA InjectiveTail ==
  ASSUME NEW S, NEW s \in Seq(S), s # <<>>, IsInjective(s)
  PROVE  Tail(s) \in Seq(S) /\ IsInjective(Tail(s))
  <1>1. /\ Tail(s) \in Seq(S) /\ Len(Tail(s)) = Len(s) - 1 /\ Len(s) \in Nat
        /\ \A i \in 1..Len(Tail(s)) : Tail(s)[i] = s[i + 1]
    BY HeadTailProperties, LenProperties
  <1> DEFINE t == Tail(s)
  <1>2. DOMAIN t = 1..Len(t) /\ DOMAIN s = 1..Len(s)
    BY <1>1, LenProperties
  <1> HIDE DEF t
  <1>3. ASSUME NEW i \in DOMAIN t, NEW j \in DOMAIN t, t[i] = t[j]  PROVE  i = j
    <2>1. i + 1 \in DOMAIN s /\ j + 1 \in DOMAIN s /\ s[i + 1] = s[j + 1]
      BY <1>1, <1>2, <1>3 DEF t
    <2>2. i + 1 = j + 1
      BY <2>1 DEF IsInjective
    <2> QED  BY <2>2, <1>1, <1>2
  <1>4. IsInjective(t)
    BY <1>3 DEF IsInjective
  <1> QED  BY <1>1, <1>4 DEF t

(* Appending what is not in a list yet.                                    *)
LEMMA InjectiveAppend ==
  ASSUME NEW S, NEW s \in Seq(S), NEW e \in S, e \notin Range(s), IsInjective(s)
  PROVE  /\ Append(s, e) \in Seq(S) /\ IsInjective(Append(s, e))
         /\ Range(Append(s, e)) = Range(s) \union {e}
  <1> DEFINE t == Append(s, e)
  <1>1. /\ t \in Seq(S) /\ Len(t) = Len(s) + 1 /\ Len(s) \in Nat
        /\ \A i \in 1..Len(s) : t[i] = s[i]
        /\ t[Len(s) + 1] = e
    BY AppendProperties, LenProperties
  <1> HIDE DEF t
  <1>2. DOMAIN t = 1..(Len(s) + 1) /\ DOMAIN s = 1..Len(s)
    BY <1>1, LenProperties
  <1>3. \A i \in DOMAIN t : i = Len(s) + 1 \/ (i \in DOMAIN s /\ t[i] = s[i])
    BY <1>1, <1>2
  <1>4. \A i \in DOMAIN s : s[i] # e
    BY DEF Range
  <1>5. IsInjective(t)
    BY <1>1, <1>3, <1>4 DEF IsInjective
  <1>6. Range(t) \subseteq Range(s) \union {e}
    BY <1>1, <1>3 DEF Range
  <1>7. Range(s) \subseteq Range(t)
    BY <1>1, <1>2 DEF Range
  <1>8. e \in Range(t)
    BY <1>1, <1>2 DEF Range
  <1> QED  BY <1>1, <1>5, <1>6, <1>7, <1>8 DEF t

(* The parts of a list without repetitions have none.                      *)
LEMMA InjectiveParts ==
  ASSUME NEW S, NEW s \in Seq(S), NEW t \in Seq(S), IsInjective(s \o t)
  PROVE  IsInjective(s) /\ IsInjective(t)
  <1> DEFINE c == s \o t
  <1>1. /\ Len(c) = Len(s) + Len(t) /\ Len(s) \in Nat /\ Len(t) \in Nat
        /\ \A i \in 1..(Len(s) + Len(t)) : c[i] = IF i <= Len(s) THEN s[i] ELSE t[i - Len(s)]
        /\ DOMAIN c = 1..(Len(s) + Len(t))
        /\ DOMAIN s = 1..Len(s) /\ DOMAIN t = 1..Len(t)
    BY ConcatProperties, LenProperties
  <1> HIDE DEF c
  <1>2. \A i \in DOMAIN s : i \in DOMAIN c /\ c[i] = s[i]
    BY <1>1
  <1>3. \A i \in DOMAIN t : i + Len(s) \in DOMAIN c /\ c[i + Len(s)] = t[i]
    <2> TAKE i \in DOMAIN t
    <2>1. i + Len(s) \in 1..(Len(s) + Len(t)) /\ ~(i + Len(s) <= Len(s))
          /\ (i + Len(s)) - Len(s) = i
      BY <1>1
    <2>2. c[i + Len(s)] = t[(i + Len(s)) - Len(s)]
      BY <1>1, <2>1
    <2> QED  BY <1>1, <2>1, <2>2
  <1>4. \A i, j \in DOMAIN c : c[i] = c[j] => i = j
    BY DEF IsInjective, c
  <1>5. \A i, j \in DOMAIN s : s[i] = s[j] => i = j
    BY <1>2, <1>4
  <1>6. ASSUME NEW i \in DOMAIN t, NEW j \in DOMAIN t, t[i] = t[j]  PROVE  i = j
    <2>1. i + Len(s) = j + Len(s)
      BY <1>3, <1>4, <1>6
    <2> QED  BY <2>1, <1>1
  <1> QED  BY <1>5, <1>6 DEF IsInjective

(* rangesNext: a portion of n files and what is left are the whole list.   *)
LEMMA PortionAndRest ==
  ASSUME NEW S, NEW s \in Seq(S), NEW n \in Nat
  PROVE  LET p == SubSeq(s, 1, IF n < Len(s) THEN n ELSE Len(s))
             r == SubSeq(s, n + 1, Len(s))
         IN  p \in Seq(S) /\ r \in Seq(S) /\ p \o r = s
  <1>1. Len(s) \in Nat
    BY LenProperties
  <1>2. CASE n < Len(s)
    <2>1. n \in 1 - 1 .. Len(s) /\ 1 \in 1..Len(s) + 1 /\ Len(s) \in n..Len(s)
      BY <1>1, <1>2
    <2>2. SubSeq(s, 1, n) \o SubSeq(s, n + 1, Len(s)) = SubSeq(s, 1, Len(s))
      BY <2>1, ConcatAdjacentSubSeq
    <2>3. \A i \in 1..n : s[i] \in S
      BY <1>1, <1>2, ElementOfSeq
    <2>4. \A i \in n + 1 .. Len(s) : s[i] \in S
      BY <1>1, <1>2, ElementOfSeq
    <2>5. SubSeq(s, 1, n) \in Seq(S)
      BY <2>3, SubSeqProperties
    <2>6. SubSeq(s, n + 1, Len(s)) \in Seq(S)
      BY <1>1, <2>4, SubSeqProperties
    <2> QED  BY <1>2, <2>2, <2>5, <2>6, SubSeqFull
  <1>3. CASE ~(n < Len(s))
    <2>1. SubSeq(s, 1, Len(s)) = s
      BY SubSeqFull
    <2>2. SubSeq(s, n + 1, Len(s)) = <<>>
      BY <1>1, <1>3, SubSeqEmpty
    <2>3. s \o <<>> = s /\ <<>> \in Seq(S)
      BY ConcatEmptySeq, EmptySeq
    <2> QED  BY <1>3, <2>1, <2>2, <2>3
  <1> QED  BY <1>2, <1>3

(* Erasing one place of a list without repetitions takes out what was      *)
(* there and nothing else.                                                 *)
LEMMA InjectiveErase ==
  ASSUME NEW S, NEW s \in Seq(S), NEW i \in 1..Len(s), IsInjective(s)
  PROVE  /\ RemoveAt(s, i) \in Seq(S) /\ IsInjective(RemoveAt(s, i))
         /\ Range(RemoveAt(s, i)) = Range(s) \ {s[i]}
  <1> DEFINE r == SubSeq(s, 1, i - 1) \o SubSeq(s, i + 1, Len(s))
  <1>1. r \in Seq(S) /\ IsInjective(r) /\ Range(r) = Range(s) \ {s[i]}
    BY ListErased
  <1>2. RemoveAt(s, i) = r
    BY DEF RemoveAt
  <1> HIDE DEF r
  <1> QED  BY <1>1, <1>2

(* Both sets are finite.                                                   *)
LEMMA TransferSetsFinite ==
  ASSUME NEW x \in Seq(Transfers), NEW f
  PROVE  IsFiniteSet(StartedIn(x, f)) /\ IsFiniteSet(OpenIn(x))
  <1>1. Len(x) \in Nat /\ DOMAIN x = 1..Len(x)
    BY LenProperties
  <1>2. IsFiniteSet(1..Len(x))
    BY <1>1, FS_Interval
  <1>3. StartedIn(x, f) \subseteq 1..Len(x) /\ OpenIn(x) \subseteq 1..Len(x)
    BY <1>1 DEF StartedIn, OpenIn
  <1> QED  BY <1>2, <1>3, FS_Subset

(* Replacing one transfer of a sequence of them.                           *)
LEMMA TransferReplaced ==
  ASSUME NEW x \in Seq(Transfers), NEW i \in 1..Len(x), NEW v \in Transfers,
         NEW y, y = [x EXCEPT ![i] = v]
  PROVE  /\ y \in Seq(Transfers) /\ Len(y) = Len(x) /\ y[i] = v
         /\ \A j \in 1..Len(x) : j # i => y[j] = x[j]
  BY ExceptSeq

(* A step in which transfers keep their files, none is started and no      *)
(* channel opens.                                                          *)
LEMMA TransfersProceed ==
  ASSUME FtTyped, FtChannels, FtSignals, FtCounted,
         xfer' \in Seq(Transfers), Len(xfer') = Len(xfer),
         \A i \in 1..Len(xfer) : /\ xfer'[i].file = xfer[i].file
                                 /\ xfer'[i].channel = "open" => xfer[i].channel = "open"
                                 /\ xfer'[i].wait = "none" <=> xfer[i].wait = "none",
         \/ planned' = planned /\ signals' = signals
         \/ planned' = <<>> /\ signals' = <<>>,
         plans' = plans
  PROVE  FtChannels' /\ FtSignals' /\ FtCounted'
  <1>1. /\ Len(xfer) \in Nat /\ DOMAIN xfer = 1..Len(xfer) /\ DOMAIN xfer' = 1..Len(xfer)
        /\ xfer \in Seq(Transfers) /\ plans \in [Files -> Nat]
    BY LenProperties DEF FtTyped
  <1>2. OpenIn(xfer') \subseteq OpenIn(xfer)
    BY <1>1 DEF OpenIn
  <1>3. \A f \in Files : StartedIn(xfer', f) = StartedIn(xfer, f)
    BY <1>1 DEF StartedIn
  <1>4. Cardinality(OpenIn(xfer')) <= Cardinality(OpenIn(xfer))
        /\ Cardinality(OpenIn(xfer')) \in Nat /\ Cardinality(OpenIn(xfer)) \in Nat
    BY <1>1, <1>2, TransferSetsFinite, FS_Subset, FS_CardinalityType
  <1>5. MaxChannels \in Nat
    BY TransferAssumption
  <1>6. FtChannels'
    BY <1>4, <1>5 DEF FtChannels, OpenChannels, OpenIn
  <1>7. FtSignals'
    <2>1. CASE signals' = signals
      BY <2>1, <1>1 DEF FtSignals
    <2>2. CASE signals' = <<>>
      BY <2>2, EmptySeq DEF FtSignals
    <2> QED  BY <2>1, <2>2
  <1>8. \A f \in Files : f \in Range(planned') => f \in Range(planned)
    BY DEF Range
  <1>9. \A f \in Files : Cardinality(StartedIn(xfer, f)) \in Nat /\ plans[f] \in Nat
    BY <1>1, TransferSetsFinite, FS_CardinalityType
  <1>10. \A f \in Files : Cardinality(StartedIn(xfer, f)) + (IF f \in Range(planned) THEN 1 ELSE 0)
                            <= plans[f]
    BY DEF FtCounted, Started, StartedIn
  <1>11. \A f \in Files : Cardinality(StartedIn(xfer', f)) + (IF f \in Range(planned') THEN 1 ELSE 0)
                            <= plans'[f]
    BY <1>3, <1>8, <1>9, <1>10
  <1>12. FtCounted'
    BY <1>11 DEF FtCounted, Started, StartedIn
  <1> QED  BY <1>6, <1>7, <1>12

(* A step that leaves the transfers and the plan alone, and signals too or *)
(* only takes the first of them.                                           *)
LEMMA TransfersUntouched ==
  ASSUME FtTyped, FtChannels, FtSignals, FtCounted,
         UNCHANGED <<xfer, planned, plans>>,
         signals' = signals \/ (signals # <<>> /\ signals' = Tail(signals))
  PROVE  FtChannels' /\ FtSignals' /\ FtCounted'
  <1>1. FtChannels' /\ FtCounted'
    BY DEF FtChannels, OpenChannels, FtCounted, Started
  <1>2. FtSignals'
    <2>1. CASE signals' = signals
      BY <2>1 DEF FtSignals
    <2>2. CASE signals # <<>> /\ signals' = Tail(signals)
      <3>1. /\ Len(signals) \in Nat /\ Len(signals') = Len(signals) - 1
            /\ \A i \in 1..Len(signals') : signals'[i] = signals[i + 1]
        BY <2>2, HeadTailProperties, LenProperties DEF FtTyped
      <3>2. \A i \in 1..Len(signals') : i + 1 \in 1..Len(signals)
        BY <3>1
      <3> QED  BY <3>1, <3>2 DEF FtSignals
    <2> QED  BY <2>1, <2>2
  <1> QED  BY <1>1, <1>2

(* The empty list names nothing twice.                                     *)
LEMMA InjectiveEmpty == <<>> \in Seq(Files) /\ IsInjective(<<>>)
  <1>1. <<>> \in Seq(Files) /\ DOMAIN <<>> = 1..0
    BY EmptySeq, LenProperties
  <1> QED  BY <1>1 DEF IsInjective

(* The task takes over a list without repetitions, or ends.                *)
LEMMA TaskProceeds ==
  ASSUME FtTyped, FtLists, NEW r \in 1..MaxRequests, NEW task \in Requests,
         IsInjective(task.files),
         \/ Proceed(r, task)
         \/ tasks' = [tasks EXCEPT ![r] = task] /\ task.pc \notin {"reject", "copy"}
  PROVE  /\ tasks' \in [1..MaxRequests -> Requests]
         /\ \A q \in 1..MaxRequests : RequestFits(tasks'[q])
  <1>1. PICK v \in Requests : RequestFits(v) /\ tasks' = [tasks EXCEPT ![r] = v]
    <2>1. CASE tasks' = [tasks EXCEPT ![r] = task] /\ task.pc \notin {"reject", "copy"}
      BY <2>1 DEF RequestFits
    <2>2. CASE Proceed(r, task)
      <3>1. Finished \in Requests /\ RequestFits(Finished)
        BY InjectiveEmpty DEF Finished, Requests, TaskPcs, RequestFits
      <3>2. CASE task.files = <<>>
        BY <3>1, <3>2, <2>2 DEF Proceed
      <3>3. CASE task.files # <<>>
        BY <3>3, <2>2 DEF Proceed, RequestFits
      <3> QED  BY <3>2, <3>3
    <2> QED  BY <2>1, <2>2
  <1> QED  BY <1>1 DEF FtTyped, FtLists

(* A request of a list without repetitions is accepted as it is.           *)
LEMMA RequestKept ==
  ASSUME FtTyped, FtLists, NEW fs \in Seq(Files), IsInjective(fs),
         BusTransferFilesRequest(fs)
  PROVE  /\ tasks' \in [1..MaxRequests -> Requests]
         /\ \A q \in 1..MaxRequests : RequestFits(tasks'[q])
  <1>1. CASE UNCHANGED tasks
    BY <1>1 DEF FtTyped, FtLists
  <1>2. ASSUME NEW r \in 1..MaxRequests,
               tasks' = [tasks EXCEPT ![r] = [pc |-> "question", files |-> fs]]
        PROVE  /\ tasks' \in [1..MaxRequests -> Requests]
               /\ \A q \in 1..MaxRequests : RequestFits(tasks'[q])
    <2>1. [pc |-> "question", files |-> fs] \in Requests
      BY DEF Requests, TaskPcs
    <2> QED  BY <1>2, <2>1, TaskProceeds
  <1> QED  BY <1>1, <1>2 DEF BusTransferFilesRequest

(* The connector's lists.                                                  *)
LEMMA FtDropFiles ==
  ASSUME FtInv, NEW fs \in Drops, DropFiles(fs)  PROVE  FtInv'
  <1>1. fs \in Seq(Files)
    <2>1. PICK n \in 1..Cardinality(Files) : fs \in [1..n -> Files]
      BY TransferAssumption
    <2> QED  BY <2>1, SeqDef
  <1>2. FtTyped'
    <2>1. main' \in [pc : {"idle", "plan", "send"}, todo : Seq(Files), free : 0..MaxChannels]
      BY <1>1 DEF FtInv, FtTyped, DropFiles
    <2>2. drops' \in 0..MaxDrops
      BY TransferAssumption DEF FtInv, FtTyped, DropFiles
    <2> QED  BY <2>1, <2>2 DEF FtInv, FtTyped, DropFiles
  <1>3. FtLists'
    BY DEF FtInv, FtLists, DropFiles
  <1>4. FtChannels' /\ FtSignals' /\ FtCounted'
    BY TransfersUntouched DEF FtInv, DropFiles
  <1> QED  BY <1>2, <1>3, <1>4 DEF FtInv

LEMMA FtPlanFile ==
  ASSUME FtInv, PlanFile  PROVE  FtInv'
  <1> DEFINE f == Head(main.todo)
  <1>1. main.todo \in Seq(Files) /\ main.todo # <<>>
    BY DEF FtInv, FtTyped, PlanFile
  <1>2. f \in Files /\ Tail(main.todo) \in Seq(Files)
    BY <1>1, HeadTailProperties
  <1>3. main' \in [pc : {"idle", "plan", "send"}, todo : Seq(Files), free : 0..MaxChannels]
    BY <1>2 DEF FtInv, FtTyped, PlanFile
  <1>4. CASE Plannable(f)
    <2>1. planned' = Append(planned, f) /\ plans' = [plans EXCEPT ![f] = @ + 1]
          /\ f \notin Range(planned)
      BY <1>4 DEF PlanFile, Plannable
    <2>2. planned \in Seq(Files) /\ IsInjective(planned) /\ plans \in [Files -> Nat]
      BY DEF FtInv, FtTyped, FtLists
    <2> HIDE DEF f
    <2>3. /\ planned' \in Seq(Files) /\ IsInjective(planned')
          /\ Range(planned') = Range(planned) \union {f}
      BY <1>2, <2>1, <2>2, InjectiveAppend
    <2>4. plans' \in [Files -> Nat] /\ plans'[f] = plans[f] + 1
          /\ \A g \in Files : g # f => plans'[g] = plans[g]
      BY <1>2, <2>1, <2>2
    <2>5. FtTyped'
      BY <1>3, <2>3, <2>4 DEF FtInv, FtTyped, PlanFile
    <2>6. FtLists'
      BY <2>3 DEF FtInv, FtLists, PlanFile
    <2>7. FtChannels' /\ FtSignals'
      BY DEF FtInv, FtChannels, FtSignals, OpenChannels, PlanFile
    <2>8. \A g \in Files : Started(g)' = Started(g) /\ Cardinality(Started(g)) \in Nat
      <3>1. xfer \in Seq(Transfers) /\ xfer' = xfer
        BY DEF FtInv, FtTyped, PlanFile
      <3> QED  BY <3>1, TransferSetsFinite, FS_CardinalityType DEF Started, StartedIn
    <2>9. ASSUME NEW g \in Files
          PROVE  Cardinality(Started(g)') + (IF g \in Range(planned') THEN 1 ELSE 0) <= plans'[g]
      <3>1. Cardinality(Started(g)) + (IF g \in Range(planned) THEN 1 ELSE 0) <= plans[g]
        BY DEF FtInv, FtCounted
      <3>2. CASE g = f
        BY <3>1, <3>2, <2>1, <2>2, <2>4, <2>8
      <3>3. CASE g # f
        BY <3>1, <3>3, <2>3, <2>4, <2>8
      <3> QED  BY <3>2, <3>3
    <2>10. FtCounted'
      BY <2>9 DEF FtCounted
    <2> QED  BY <2>5, <2>6, <2>7, <2>10 DEF FtInv
  <1>5. CASE ~Plannable(f)
    <2>1. UNCHANGED <<planned, plans>>
      BY <1>5 DEF PlanFile
    <2>2. FtTyped'
      BY <1>3, <2>1 DEF FtInv, FtTyped, PlanFile
    <2>3. FtLists'
      BY <2>1 DEF FtInv, FtLists, PlanFile
    <2>4. FtChannels' /\ FtSignals' /\ FtCounted'
      BY <2>1, TransfersUntouched DEF FtInv, PlanFile
    <2> QED  BY <2>2, <2>3, <2>4 DEF FtInv
  <1> QED  BY <1>4, <1>5

\* The number of free channels is one of those the code can find.
LEMMA FreeChannelsBounded ==
  ASSUME FtInv  PROVE  CountFreeChannels \in 0..MaxChannels
  <1>1. IsFiniteSet(OpenChannels) /\ Cardinality(OpenChannels) \in Nat
    BY TransferSetsFinite, FS_CardinalityType DEF FtInv, FtTyped, OpenChannels, OpenIn
  <1> QED  BY <1>1, TransferAssumption DEF FtInv, FtChannels, CountFreeChannels

\* The list of the main thread is idle again.
LEMMA IdleMainTyped ==
  IdleMain \in [pc : {"idle", "plan", "send"}, todo : Seq(Files), free : 0..MaxChannels]
  BY EmptySeq, TransferAssumption DEF IdleMain

LEMMA FtCountChannels ==
  ASSUME FtInv, CountChannels  PROVE  FtInv'
  <1>1. main' \in [pc : {"idle", "plan", "send"}, todo : Seq(Files), free : 0..MaxChannels]
    BY FreeChannelsBounded, IdleMainTyped DEF FtInv, FtTyped, CountChannels
  <1>2. FtTyped'
    BY <1>1 DEF FtInv, FtTyped, CountChannels
  <1>3. FtLists'
    BY DEF FtInv, FtLists, CountChannels
  <1>4. FtChannels' /\ FtSignals' /\ FtCounted'
    BY TransfersUntouched DEF FtInv, CountChannels
  <1> QED  BY <1>2, <1>3, <1>4 DEF FtInv

LEMMA FtSendRequest ==
  ASSUME FtInv, SendRequest  PROVE  FtInv'
  <1>1. /\ tasks' \in [1..MaxRequests -> Requests]
        /\ \A q \in 1..MaxRequests : RequestFits(tasks'[q])
    BY RequestKept DEF FtInv, FtTyped, FtLists, SendRequest
  <1>2. FtTyped'
    BY <1>1, IdleMainTyped DEF FtInv, FtTyped, SendRequest
  <1>3. FtLists'
    BY <1>1 DEF FtInv, FtLists, SendRequest
  <1>4. FtChannels' /\ FtSignals' /\ FtCounted'
    BY TransfersUntouched DEF FtInv, SendRequest
  <1> QED  BY <1>2, <1>3, <1>4 DEF FtInv

LEMMA FtStartPartial ==
  ASSUME FtInv, NEW t \in 1..MaxThreads, StartPartial(t)  PROVE  FtInv'
  <1> DEFINE v == [list |-> planned, left |-> planned,
                   portion |-> CountFreeChannels \div 3, sent |-> <<>>]
  <1>1. planned \in Seq(Files) /\ IsInjective(planned) /\ partials \in [1..MaxThreads -> Threads]
    BY DEF FtInv, FtTyped, FtLists
  <1>2. CountFreeChannels \div 3 \in 0..MaxChannels
    BY FreeChannelsBounded, TransferAssumption
  <1>3. v \in Threads /\ IsInjective(v.list) /\ v.sent \o v.left = v.list
    BY <1>1, <1>2, EmptySeq, ConcatEmptySeq DEF Threads
  <1>4. partials' = [partials EXCEPT ![t] = v]
    BY DEF StartPartial
  <1> HIDE DEF v
  <1>5. /\ partials' \in [1..MaxThreads -> Threads] /\ partials'[t] = v
        /\ \A u \in 1..MaxThreads : u # t => partials'[u] = partials[u]
    BY <1>1, <1>3, <1>4
  <1>6. FtTyped'
    BY <1>5, IdleMainTyped DEF FtInv, FtTyped, StartPartial
  <1>7. \A u \in 1..MaxThreads : /\ IsInjective(partials'[u].list)
                                 /\ partials'[u].sent \o partials'[u].left = partials'[u].list
    BY <1>3, <1>5 DEF FtInv, FtLists
  <1>8. FtLists'
    BY <1>7 DEF FtInv, FtLists, StartPartial
  <1>9. FtChannels' /\ FtSignals' /\ FtCounted'
    BY TransfersUntouched DEF FtInv, StartPartial
  <1> QED  BY <1>6, <1>8, <1>9 DEF FtInv

LEMMA FtPartialSend ==
  ASSUME FtInv, NEW t \in 1..MaxThreads, PartialSend(t)  PROVE  FtInv'
  <1> DEFINE p == partials[t]
             m == IF p.portion < Len(p.left) THEN p.portion ELSE Len(p.left)
             portion == SubSeq(p.left, 1, m)
             rest == SubSeq(p.left, p.portion + 1, Len(p.left))
             v == [p EXCEPT !.left = rest, !.sent = p.sent \o portion]
  <1>1. /\ partials \in [1..MaxThreads -> Threads] /\ p \in Threads
        /\ IsInjective(p.list) /\ p.sent \o p.left = p.list
    BY DEF FtInv, FtTyped, FtLists
  <1>2. p.left \in Seq(Files) /\ p.sent \in Seq(Files) /\ p.portion \in Nat
    BY <1>1, TransferAssumption DEF Threads
  <1>3. portion \in Seq(Files) /\ rest \in Seq(Files) /\ portion \o rest = p.left
    BY <1>2, PortionAndRest
  <1>4. BusTransferFilesRequest(portion) /\ partials' = [partials EXCEPT ![t] = v]
    BY <1>1 DEF PartialSend, RangesNext, Threads
  <1> HIDE DEF portion, rest, v, p
  <1>5. /\ p.sent \o portion \in Seq(Files)
        /\ (p.sent \o portion) \o rest = p.list
    <2> DEFINE a == p.sent
    <2>0. a \in Seq(Files) /\ portion \in Seq(Files) /\ rest \in Seq(Files)
      BY <1>2, <1>3
    <2> HIDE DEF a
    <2>1. (a \o portion) \o rest = a \o (portion \o rest)
      BY <2>0, ConcatAssociative
    <2>2. p.sent \o portion \in Seq(Files)
      BY <1>2, <1>3, ConcatProperties
    <2>3. p.sent \o (portion \o rest) = p.list
      BY <1>1, <1>3
    <2> QED  BY <2>1, <2>2, <2>3 DEF a
  <1>6. IsInjective(p.sent \o portion)
    BY <1>1, <1>3, <1>5, InjectiveParts
  <1>7. IsInjective(portion)
    BY <1>2, <1>3, <1>6, InjectiveParts
  <1>8. v \in Threads /\ v.list = p.list /\ v.left = rest /\ v.sent = p.sent \o portion
    BY <1>1, <1>3, <1>5 DEF Threads, v
  <1>9. /\ partials' \in [1..MaxThreads -> Threads] /\ partials'[t] = v
        /\ \A u \in 1..MaxThreads : u # t => partials'[u] = partials[u]
    BY <1>1, <1>4, <1>8
  <1>10. \A u \in 1..MaxThreads : /\ IsInjective(partials'[u].list)
                                  /\ partials'[u].sent \o partials'[u].left = partials'[u].list
    BY <1>1, <1>5, <1>8, <1>9 DEF FtInv, FtLists
  <1>11. /\ tasks' \in [1..MaxRequests -> Requests]
         /\ \A q \in 1..MaxRequests : RequestFits(tasks'[q])
    BY <1>3, <1>4, <1>7, RequestKept DEF FtInv
  <1>12. FtTyped'
    BY <1>9, <1>11 DEF FtInv, FtTyped, PartialSend
  <1>13. FtLists'
    BY <1>10, <1>11 DEF FtInv, FtLists, PartialSend
  <1>14. FtChannels' /\ FtSignals' /\ FtCounted'
    BY TransfersUntouched DEF FtInv, PartialSend
  <1> QED  BY <1>12, <1>13, <1>14 DEF FtInv

(* The service's tasks.                                                    *)
LEMMA FtAnswerOrSelect ==
  ASSUME FtInv, NEW r \in 1..MaxRequests, AnswerQuestion(r) \/ SelectDirectory(r)
  PROVE  FtInv'
  <1>1. tasks[r] \in Requests /\ IsInjective(tasks[r].files)
    BY DEF FtInv, FtTyped, FtLists, RequestFits
  <1>2. PICK pc \in {"reject", "copy", "select"} :
           \/ Proceed(r, [tasks[r] EXCEPT !.pc = pc])
           \/ tasks' = [tasks EXCEPT ![r] = [tasks[r] EXCEPT !.pc = pc]] /\ pc = "select"
    BY DEF AnswerQuestion, SelectDirectory
  <1> DEFINE v == [tasks[r] EXCEPT !.pc = pc]
  <1>3. v \in Requests /\ IsInjective(v.files) /\ v.pc = pc
    BY <1>1 DEF Requests, TaskPcs
  <1> HIDE DEF v
  <1>4. Proceed(r, v) \/ (tasks' = [tasks EXCEPT ![r] = v] /\ pc = "select")
    BY <1>2 DEF v
  <1>5. /\ tasks' \in [1..MaxRequests -> Requests]
        /\ \A q \in 1..MaxRequests : RequestFits(tasks'[q])
    BY <1>3, <1>4, TaskProceeds DEF FtInv
  <1>6. UNCHANGED <<conn, mode, main, planned, partials, signals, xfer, dst, plans,
                    drops, returns>>
    BY DEF AnswerQuestion, SelectDirectory
  <1>7. FtTyped'
    BY <1>5, <1>6 DEF FtInv, FtTyped
  <1>8. FtLists'
    BY <1>5, <1>6 DEF FtInv, FtLists
  <1>9. FtChannels' /\ FtSignals' /\ FtCounted'
    BY <1>6, TransfersUntouched DEF FtInv
  <1> QED  BY <1>7, <1>8, <1>9 DEF FtInv

\* The first file of a task, and the task without it.
WithoutHead(task) == [task EXCEPT !.files = Tail(task.files)]

LEMMA TaskTail ==
  ASSUME FtTyped, FtLists, NEW r \in 1..MaxRequests, tasks[r].pc \in {"reject", "copy"}
  PROVE  /\ WithoutHead(tasks[r]) \in Requests /\ IsInjective(WithoutHead(tasks[r]).files)
         /\ Head(tasks[r].files) \in Files
  <1> DEFINE q == tasks[r]
  <1>1. q \in Requests /\ IsInjective(q.files) /\ q.files # <<>>
    BY DEF FtTyped, FtLists, RequestFits
  <1> HIDE DEF q
  <1>2. q.files \in Seq(Files)
    BY <1>1 DEF Requests
  <1>3. Tail(q.files) \in Seq(Files) /\ IsInjective(Tail(q.files)) /\ Head(q.files) \in Files
    BY <1>1, <1>2, InjectiveTail, HeadTailProperties
  <1>4. WithoutHead(q) \in Requests /\ WithoutHead(q).files = Tail(q.files)
    BY <1>1, <1>3 DEF Requests, WithoutHead
  <1> QED  BY <1>3, <1>4 DEF q

(* Emitting a signal for a transfer that is there when the signal is.      *)
LEMMA SignalEmitted ==
  ASSUME FtTyped, FtSignals, NEW s \in Signals, Emit(s),
         xfer' \in Seq(Transfers), Len(xfer) <= Len(xfer'),
         \A i \in 1..Len(xfer) : xfer'[i].file = xfer[i].file,
         s.name # Rejected => s.name \in 1..Len(xfer') /\ xfer'[s.name].file = s.file
  PROVE  signals' \in Seq(Signals) /\ FtSignals'
  <1>1. signals \in Seq(Signals) /\ Len(signals) \in Nat /\ Len(xfer) \in Nat /\ Len(xfer') \in Nat
    BY LenProperties DEF FtTyped
  <1>2. \A i \in 1..Len(signals) : signals[i].name # Rejected =>
           /\ signals[i].name \in 1..Len(xfer')
           /\ xfer'[signals[i].name].file = signals[i].file
    BY <1>1 DEF FtSignals
  <1>3. CASE signals' = signals
    BY <1>1, <1>2, <1>3 DEF FtSignals
  <1>4. CASE signals' = Append(signals, s)
    <2>1. /\ signals' \in Seq(Signals) /\ Len(signals') = Len(signals) + 1
          /\ \A i \in 1..Len(signals) : signals'[i] = signals[i]
          /\ signals'[Len(signals) + 1] = s
      BY <1>1, <1>4, AppendProperties
    <2>2. \A i \in 1..Len(signals') : i \in 1..Len(signals) \/ i = Len(signals) + 1
      BY <1>1, <2>1
    <2>3. ASSUME NEW i \in 1..Len(signals'), signals'[i].name # Rejected
          PROVE  /\ signals'[i].name \in 1..Len(xfer')
                 /\ xfer'[signals'[i].name].file = signals'[i].file
      <3>1. CASE i \in 1..Len(signals)
        BY <3>1, <2>1, <2>3, <1>2
      <3>2. CASE i = Len(signals) + 1
        BY <3>2, <2>1, <2>3
      <3> QED  BY <3>1, <3>2, <2>2
    <2> QED  BY <2>1, <2>3 DEF FtSignals
  <1> QED  BY <1>3, <1>4 DEF Emit

LEMMA FtEmitReject ==
  ASSUME FtInv, NEW r \in 1..MaxRequests, EmitReject(r)  PROVE  FtInv'
  <1> DEFINE v == WithoutHead(tasks[r])
             s == [file |-> Head(tasks[r].files), name |-> Rejected]
  <1>1. v \in Requests /\ IsInjective(v.files) /\ Head(tasks[r].files) \in Files
    BY TaskTail DEF FtInv, EmitReject
  <1>2. Proceed(r, v) /\ Emit(s)
    BY DEF EmitReject, WithoutHead
  <1>3. s \in Signals /\ s.name = Rejected
    BY <1>1 DEF Signals
  <1> HIDE DEF v, s
  <1>4. xfer' = xfer /\ xfer \in Seq(Transfers) /\ Len(xfer) \in Nat
    BY LenProperties DEF EmitReject, FtInv, FtTyped
  <1>5. signals' \in Seq(Signals) /\ FtSignals'
    BY <1>2, <1>3, <1>4, SignalEmitted DEF FtInv
  <1>6. /\ tasks' \in [1..MaxRequests -> Requests]
        /\ \A q \in 1..MaxRequests : RequestFits(tasks'[q])
    BY <1>1, <1>2, TaskProceeds DEF FtInv
  <1>7. FtTyped'
    BY <1>4, <1>5, <1>6 DEF FtInv, FtTyped, EmitReject
  <1>8. FtLists'
    BY <1>6 DEF FtInv, FtLists, EmitReject
  <1>9. FtChannels' /\ FtCounted'
    BY DEF FtInv, FtChannels, OpenChannels, FtCounted, Started, EmitReject
  <1> QED  BY <1>5, <1>7, <1>8, <1>9 DEF FtInv

LEMMA FtCopyAllow ==
  ASSUME FtInv, NEW r \in 1..MaxRequests, CopyAllow(r)  PROVE  FtInv'
  <1> DEFINE v == WithoutHead(tasks[r])
             f == Head(tasks[r].files)
  <1>1. v \in Requests /\ IsInjective(v.files) /\ f \in Files
    BY TaskTail DEF FtInv, CopyAllow
  <1>2. Proceed(r, v)
    BY DEF CopyAllow, WithoutHead
  <1> HIDE DEF v
  <1>3. /\ tasks' \in [1..MaxRequests -> Requests]
        /\ \A q \in 1..MaxRequests : RequestFits(tasks'[q])
    BY <1>1, <1>2, TaskProceeds DEF FtInv
  <1>4. FtLists'
    BY <1>3 DEF FtInv, FtLists, CopyAllow
  <1>5. xfer \in Seq(Transfers) /\ Len(xfer) \in Nat /\ DOMAIN xfer = 1..Len(xfer)
    BY LenProperties DEF FtInv, FtTyped
  <1>6. CASE f \in dst
    <2>1. UNCHANGED <<signals, xfer>>
      BY <1>6 DEF CopyAllow
    <2>2. FtTyped'
      BY <2>1, <1>3 DEF FtInv, FtTyped, CopyAllow
    <2>3. FtChannels' /\ FtSignals' /\ FtCounted'
      BY <2>1, TransfersUntouched DEF FtInv, CopyAllow
    <2> QED  BY <1>4, <2>2, <2>3 DEF FtInv
  <1>7. CASE f \notin dst
    <2> DEFINE s == [file |-> f, name |-> Len(xfer) + 1]
    <2>1. Len(xfer) < MaxTransfers /\ xfer' = Append(xfer, NoTransfer(f)) /\ Emit(s)
      BY <1>7 DEF CopyAllow
    <2>2. NoTransfer(f) \in Transfers
      BY <1>1 DEF NoTransfer, Transfers
    <2>3. NoTransfer(f).file = f /\ NoTransfer(f).wait = "none" /\ NoTransfer(f).channel = "none"
      BY DEF NoTransfer
    <2> HIDE DEF f
    <2>4. /\ xfer' \in Seq(Transfers) /\ Len(xfer') = Len(xfer) + 1
          /\ \A i \in 1..Len(xfer) : xfer'[i] = xfer[i]
          /\ xfer'[Len(xfer) + 1] = NoTransfer(f)
      BY <1>5, <2>1, <2>2, AppendProperties
    <2>5. DOMAIN xfer' = 1..Len(xfer) + 1
      BY <2>4, LenProperties
    <2>6. s \in Signals /\ s.name \in 1..Len(xfer') /\ s.file = f /\ s.name = Len(xfer) + 1
      <3>1. Len(xfer) + 1 \in 1..MaxTransfers /\ Len(xfer) + 1 \in 1..Len(xfer')
        BY <1>5, <2>1, <2>4, TransferAssumption
      <3> QED  BY <3>1, <1>1 DEF Signals, Names
    <2> HIDE DEF s
    <2>7. signals' \in Seq(Signals) /\ FtSignals'
      <3>1. Len(xfer) <= Len(xfer') /\ xfer'[s.name].file = s.file
        BY <1>5, <2>3, <2>4, <2>6
      <3>2. \A i \in 1..Len(xfer) : xfer'[i].file = xfer[i].file
        BY <2>4
      <3> QED  BY <2>1, <2>4, <2>6, <3>1, <3>2, SignalEmitted DEF FtInv
    <2>8. Len(xfer') <= MaxTransfers
      BY <1>5, <2>1, <2>4, TransferAssumption
    <2>9. FtTyped'
      BY <1>3, <2>4, <2>7, <2>8 DEF FtInv, FtTyped, CopyAllow
    <2>10. OpenIn(xfer') = OpenIn(xfer)
      BY <1>5, <2>3, <2>4 DEF OpenIn
    <2>11. FtChannels'
      BY <2>10 DEF FtInv, FtChannels, OpenChannels, OpenIn
    <2>12. \A g \in Files : StartedIn(xfer', g) = StartedIn(xfer, g)
      BY <1>5, <2>3, <2>4, <2>5 DEF StartedIn
    <2>13. FtCounted'
      BY <2>12 DEF FtInv, FtCounted, Started, StartedIn, CopyAllow
    <2> QED  BY <1>4, <2>7, <2>9, <2>11, <2>13 DEF FtInv
  <1> QED  BY <1>6, <1>7

LEMMA FtCopyNoSpace ==
  ASSUME FtInv, NEW r \in 1..MaxRequests, CopyNoSpace(r)  PROVE  FtInv'
  <1>1. Finished \in Requests /\ RequestFits(Finished)
    BY InjectiveEmpty DEF Finished, Requests, TaskPcs, RequestFits
  <1>2. /\ tasks' \in [1..MaxRequests -> Requests]
        /\ \A q \in 1..MaxRequests : RequestFits(tasks'[q])
    BY <1>1 DEF FtInv, FtTyped, FtLists, CopyNoSpace
  <1>3. FtTyped'
    BY <1>2 DEF FtInv, FtTyped, CopyNoSpace
  <1>4. FtLists'
    BY <1>2 DEF FtInv, FtLists, CopyNoSpace
  <1>5. FtChannels' /\ FtSignals' /\ FtCounted'
    BY TransfersUntouched DEF FtInv, CopyNoSpace
  <1> QED  BY <1>3, <1>4, <1>5 DEF FtInv

(* onTransferAllow takes a file off the plan, and starts one transfer of   *)
(* it at most.                                                             *)
LEMMA FtOnTransferAllow ==
  ASSUME FtInv, OnTransferAllow  PROVE  FtInv'
  <1> DEFINE s == Head(signals)
  <1>1. /\ signals \in Seq(Signals) /\ signals # <<>> /\ signals' = Tail(signals)
        /\ Len(signals) \in Nat \ {0} /\ s = signals[1]
    BY EmptySeq, HeadTailProperties DEF FtInv, FtTyped, OnTransferAllow
  <1>2. s \in Signals /\ signals' \in Seq(Signals)
    BY <1>1, HeadTailProperties
  <1>3. s.name # Rejected => s.name \in 1..Len(xfer) /\ xfer[s.name].file = s.file
    BY <1>1 DEF FtInv, FtSignals
  <1>4. /\ xfer \in Seq(Transfers) /\ Len(xfer) \in Nat /\ DOMAIN xfer = 1..Len(xfer)
        /\ planned \in Seq(Files) /\ IsInjective(planned) /\ plans \in [Files -> Nat]
    BY LenProperties DEF FtInv, FtTyped, FtLists
  <1>5. s.file \in Files
    BY <1>2 DEF Signals
  <1>6. CASE s.file \notin Range(planned)
    <2>1. UNCHANGED <<planned, xfer, plans>>
      BY <1>6 DEF OnTransferAllow
    <2>2. FtTyped'
      BY <2>1, <1>2 DEF FtInv, FtTyped, OnTransferAllow
    <2>3. FtLists'
      BY <2>1 DEF FtInv, FtLists, OnTransferAllow
    <2>4. FtChannels' /\ FtSignals' /\ FtCounted'
      BY <2>1, <1>1, TransfersUntouched DEF FtInv
    <2> QED  BY <2>2, <2>3, <2>4 DEF FtInv
  <1>7. CASE s.file \in Range(planned)
    <2>1. planned' = ErasePlanned(s.file) /\ UNCHANGED <<partials, tasks, plans>>
      BY <1>7 DEF OnTransferAllow
    <2>2. IF s.name = Rejected THEN xfer' = xfer ELSE StartTransfer(s.name)
      BY <1>7 DEF OnTransferAllow
    <2> HIDE DEF s
    <2>3. /\ planned' \in Seq(Files) /\ IsInjective(planned')
          /\ Range(planned') = Range(planned) \ {s.file}
      <3> DEFINE k == CHOOSE i \in DOMAIN planned : planned[i] = s.file
      <3>1. k \in DOMAIN planned /\ planned[k] = s.file
        BY <1>7 DEF Range
      <3>2. planned' = RemoveAt(planned, k)
        BY <2>1 DEF ErasePlanned
      <3> HIDE DEF k
      <3>3. k \in 1..Len(planned)
        BY <3>1, <1>4, LenProperties
      <3> QED  BY <3>1, <3>2, <3>3, <1>4, InjectiveErase
    <2>4. FtLists'
      BY <2>1, <2>3 DEF FtInv, FtLists
    <2>5. \A g \in Files : /\ Cardinality(StartedIn(xfer, g)) \in Nat /\ plans[g] \in Nat
                           /\ IsFiniteSet(StartedIn(xfer, g))
      BY <1>4, TransferSetsFinite, FS_CardinalityType
    <2>6. \A g \in Files : Cardinality(StartedIn(xfer, g)) + (IF g \in Range(planned) THEN 1 ELSE 0)
                             <= plans[g]
      BY DEF FtInv, FtCounted, Started, StartedIn
    <2>7. CASE s.name = Rejected
      <3>1. xfer' = xfer
        BY <2>2, <2>7
      <3>2. FtTyped'
        BY <1>2, <2>3, <3>1 DEF FtInv, FtTyped, OnTransferAllow
      <3>3. FtChannels'
        BY <3>1 DEF FtInv, FtChannels, OpenChannels
      <3>4. FtSignals'
        <4>1. /\ Len(signals') = Len(signals) - 1
              /\ \A i \in 1..Len(signals') : i + 1 \in 1..Len(signals)
                                             /\ signals'[i] = signals[i + 1]
          <5>1. /\ Len(signals') = Len(signals) - 1
                /\ \A i \in 1..Len(signals') : signals'[i] = signals[i + 1]
            BY <1>1, HeadTailProperties
          <5> QED  BY <5>1, <1>1
        <4> QED  BY <4>1, <3>1 DEF FtInv, FtSignals
      <3>5. FtCounted'
        BY <3>1, <2>1, <2>3, <2>5, <2>6 DEF FtCounted, Started, StartedIn
      <3> QED  BY <2>4, <3>2, <3>3, <3>4, <3>5 DEF FtInv
    <2>8. CASE s.name # Rejected
      <3> DEFINE i == s.name
                 v == [xfer[i] EXCEPT !.channel = IF CountFreeChannels > 0 THEN "open" ELSE "none",
                                      !.wait = "poll"]
      <3>1. i \in 1..Len(xfer) /\ xfer[i].file = s.file
        BY <2>8, <1>3
      <3>2. xfer[i] \in Transfers
        BY <3>1, <1>4, ElementOfSeq
      <3>3. v \in Transfers /\ v.file = s.file /\ v.wait = "poll"
            /\ v.channel = (IF CountFreeChannels > 0 THEN "open" ELSE "none")
        BY <3>1, <3>2 DEF Transfers
      <3>4. xfer' = [xfer EXCEPT ![i] = v]
        BY <2>2, <2>8, <3>1 DEF StartTransfer
      <3> HIDE DEF v, i
      <3>5. /\ xfer' \in Seq(Transfers) /\ Len(xfer') = Len(xfer) /\ xfer'[i] = v
            /\ \A j \in 1..Len(xfer) : j # i => xfer'[j] = xfer[j]
        BY <1>4, <3>1, <3>3, <3>4, TransferReplaced
      <3>6. DOMAIN xfer' = 1..Len(xfer) /\ \A j \in 1..Len(xfer) : xfer'[j].file = xfer[j].file
        BY <3>1, <3>3, <3>5, LenProperties
      <3>7. FtTyped'
        BY <1>2, <2>3, <3>5 DEF FtInv, FtTyped, OnTransferAllow
      <3>8. FtChannels'
        <4>1. IsFiniteSet(OpenIn(xfer)) /\ IsFiniteSet(OpenIn(xfer'))
          BY <1>4, <3>5, TransferSetsFinite
        <4>2. Cardinality(OpenIn(xfer)) \in Nat /\ Cardinality(OpenIn(xfer)) <= MaxChannels
              /\ CountFreeChannels = MaxChannels - Cardinality(OpenIn(xfer)) /\ MaxChannels \in Nat
          BY <4>1, FS_CardinalityType, TransferAssumption
             DEF FtInv, FtChannels, OpenChannels, OpenIn, CountFreeChannels
        <4>3. CASE CountFreeChannels > 0
          <5>1. OpenIn(xfer') \subseteq OpenIn(xfer) \union {i}
            BY <3>5 DEF OpenIn
          <5>2. /\ IsFiniteSet(OpenIn(xfer) \union {i})
                /\ Cardinality(OpenIn(xfer) \union {i})
                     \in {Cardinality(OpenIn(xfer)), Cardinality(OpenIn(xfer)) + 1}
            BY <4>1, FS_AddElement
          <5>3. Cardinality(OpenIn(xfer')) <= Cardinality(OpenIn(xfer) \union {i})
            BY <5>1, <5>2, FS_Subset
          <5>4. Cardinality(OpenIn(xfer')) \in Nat
            BY <4>1, FS_CardinalityType
          <5>5. Cardinality(OpenIn(xfer')) <= MaxChannels
            BY <4>2, <4>3, <5>2, <5>3, <5>4
          <5> QED  BY <5>5 DEF FtChannels, OpenChannels, OpenIn
        <4>4. CASE ~(CountFreeChannels > 0)
          <5>1. v.channel = "none"
            BY <4>4, <3>3
          <5>2. OpenIn(xfer') \subseteq OpenIn(xfer)
            BY <5>1, <3>5 DEF OpenIn
          <5>3. /\ Cardinality(OpenIn(xfer')) <= Cardinality(OpenIn(xfer))
                /\ Cardinality(OpenIn(xfer')) \in Nat
            BY <4>1, <5>2, FS_Subset, FS_CardinalityType
          <5>4. Cardinality(OpenIn(xfer')) <= MaxChannels
            BY <4>2, <5>3
          <5> QED  BY <5>4 DEF FtChannels, OpenChannels, OpenIn
        <4> QED  BY <4>3, <4>4
      <3>9. FtSignals'
        <4>1. /\ Len(signals') = Len(signals) - 1
              /\ \A j \in 1..Len(signals') : j + 1 \in 1..Len(signals)
                                             /\ signals'[j] = signals[j + 1]
          <5>1. /\ Len(signals') = Len(signals) - 1
                /\ \A j \in 1..Len(signals') : signals'[j] = signals[j + 1]
            BY <1>1, HeadTailProperties
          <5> QED  BY <5>1, <1>1
        <4> QED  BY <4>1, <3>5, <3>6 DEF FtInv, FtSignals
      <3>10. ASSUME NEW g \in Files
             PROVE  Cardinality(StartedIn(xfer', g)) + (IF g \in Range(planned') THEN 1 ELSE 0)
                      <= plans[g]
        <4>1. CASE g = s.file
          <5>1. StartedIn(xfer', g) \subseteq StartedIn(xfer, g) \union {i}
            BY <3>5, <3>6, <1>4 DEF StartedIn
          <5>2. /\ IsFiniteSet(StartedIn(xfer, g) \union {i})
                /\ Cardinality(StartedIn(xfer, g) \union {i})
                     \in {Cardinality(StartedIn(xfer, g)), Cardinality(StartedIn(xfer, g)) + 1}
            BY <2>5, FS_AddElement
          <5>3. /\ Cardinality(StartedIn(xfer', g)) <= Cardinality(StartedIn(xfer, g) \union {i})
                /\ Cardinality(StartedIn(xfer', g)) \in Nat
            BY <5>1, <5>2, FS_Subset, FS_CardinalityType
          <5>4. g \in Range(planned) /\ g \notin Range(planned')
            BY <4>1, <1>7, <2>3
          <5>5. Cardinality(StartedIn(xfer, g)) + 1 <= plans[g]
            BY <2>6, <5>4
          <5> QED  BY <2>5, <5>2, <5>3, <5>4, <5>5
        <4>2. CASE g # s.file
          <5>1. StartedIn(xfer', g) = StartedIn(xfer, g)
            BY <4>2, <3>1, <3>3, <3>5, <3>6, <1>4 DEF StartedIn
          <5>2. g \in Range(planned') <=> g \in Range(planned)
            BY <4>2, <2>3
          <5> QED  BY <5>1, <5>2, <2>6
        <4> QED  BY <4>1, <4>2
      <3>11. FtCounted'
        BY <3>10, <2>1 DEF FtCounted, Started, StartedIn
      <3> QED  BY <2>4, <3>7, <3>8, <3>9, <3>11 DEF FtInv
    <2> QED  BY <2>7, <2>8
  <1> QED  BY <1>6, <1>7

(* The channel and the waiter of one transfer.                             *)
LEMMA FtTransferStep ==
  ASSUME FtInv, NEW i \in DOMAIN xfer, WaiterStep(i) \/ ChannelData(i) \/ ChannelFails(i)
  PROVE  FtInv'
  <1>1. xfer \in Seq(Transfers) /\ Len(xfer) \in Nat /\ DOMAIN xfer = 1..Len(xfer)
    BY LenProperties DEF FtInv, FtTyped
  <1>2. i \in 1..Len(xfer) /\ xfer[i] \in Transfers
    BY <1>1, ElementOfSeq
  <1>3. PICK v \in Transfers : /\ xfer' = [xfer EXCEPT ![i] = v]
                               /\ v.file = xfer[i].file
                               /\ v.channel = "open" => xfer[i].channel = "open"
                               /\ v.wait = "none" <=> xfer[i].wait = "none"
    <2> DEFINE x == xfer[i]
               P(v) == /\ v \in Transfers /\ xfer' = [xfer EXCEPT ![i] = v]
                       /\ v.file = x.file
                       /\ v.channel = "open" => x.channel = "open"
                       /\ v.wait = "none" <=> x.wait = "none"
    <2>1. CASE ChannelData(i)
      <3> DEFINE t == IF x.tmp = "absent" THEN "part" ELSE "full"
      <3>1. xfer' = [xfer EXCEPT ![i] = [x EXCEPT !.tmp = t]]
        BY <2>1, <1>2 DEF ChannelData
      <3>2. t \in {"part", "full"}
        OBVIOUS
      <3> HIDE DEF t
      <3>3. P([x EXCEPT !.tmp = t])
        BY <1>2, <3>1, <3>2 DEF Transfers
      <3> QED  BY <3>3
    <2>2. CASE ChannelFails(i)
      <3>1. P([x EXCEPT !.channel = "closed"])
        BY <2>2, <1>2 DEF ChannelFails, Transfers
      <3> QED  BY <3>1
    <2>3. CASE PollComplete(i)
      <3>1. x.wait = "poll"
        BY <2>3 DEF PollComplete
      <3>2. CASE xfer' = [xfer EXCEPT ![i].wait = "move"]
        <4>1. P([x EXCEPT !.wait = "move"])
          BY <3>1, <3>2, <1>2 DEF Transfers
        <4> QED  BY <4>1
      <3>3. CASE xfer' = [xfer EXCEPT ![i].wait = "lost",
                                      ![i].tmp = IF @ = "part" THEN "gone" ELSE @]
        <4> DEFINE t == IF x.tmp = "part" THEN "gone" ELSE x.tmp
        <4>1. xfer' = [xfer EXCEPT ![i] = [x EXCEPT !.wait = "lost", !.tmp = t]]
          BY <3>3, <1>2
        <4>2. t \in {"absent", "part", "full", "gone"}
          BY <1>2 DEF Transfers
        <4> HIDE DEF t
        <4>3. P([x EXCEPT !.wait = "lost", !.tmp = t])
          BY <3>1, <1>2, <4>1, <4>2 DEF Transfers
        <4> QED  BY <4>3
      <3> QED  BY <2>3, <3>2, <3>3 DEF PollComplete
    <2>4. CASE MoveRename(i)
      <3>1. P([x EXCEPT !.wait = "saved", !.tmp = "gone"])
        BY <2>4, <1>2 DEF MoveRename, Transfers
      <3> QED  BY <3>1
    <2>5. CASE MoveCopy(i)
      <3>1. P([x EXCEPT !.wait = "saved", !.tmp = "gone"]) \/ P([x EXCEPT !.wait = "nothing", !.tmp = "gone"])
        BY <2>5, <1>2 DEF MoveCopy, Transfers
      <3> QED  BY <3>1
    <2>6. CASE MoveFails(i)
      <3>1. P([x EXCEPT !.wait = "failed"])
        BY <2>6, <1>2 DEF MoveFails, Transfers
      <3> QED  BY <3>1
    <2> QED  BY <2>1, <2>2, <2>3, <2>4, <2>5, <2>6 DEF WaiterStep
  <1>4. /\ xfer' \in Seq(Transfers) /\ Len(xfer') = Len(xfer) /\ xfer'[i] = v
        /\ \A j \in 1..Len(xfer) : j # i => xfer'[j] = xfer[j]
    BY <1>1, <1>2, <1>3, TransferReplaced
  <1>5. UNCHANGED <<conn, mode, main, planned, partials, tasks, signals, plans, drops, returns>>
    BY DEF WaiterStep, PollComplete, MoveRename, MoveCopy, MoveFails, ChannelData, ChannelFails
  <1>6. dst' \in SUBSET Files
    <2>1. xfer[i].file \in Files /\ dst \in SUBSET Files
      BY <1>2 DEF Transfers, FtInv, FtTyped
    <2>2. dst' = dst \/ dst' = dst \union {xfer[i].file}
      BY DEF WaiterStep, PollComplete, MoveRename, MoveCopy, MoveFails, ChannelData, ChannelFails
    <2> QED  BY <2>1, <2>2
  <1>7. FtTyped'
    BY <1>4, <1>5, <1>6 DEF FtInv, FtTyped
  <1>8. FtLists'
    BY <1>5 DEF FtInv, FtLists
  <1>9. \A j \in 1..Len(xfer) : /\ xfer'[j].file = xfer[j].file
                                /\ xfer'[j].channel = "open" => xfer[j].channel = "open"
                                /\ xfer'[j].wait = "none" <=> xfer[j].wait = "none"
    BY <1>3, <1>4
  <1>10. FtChannels' /\ FtSignals' /\ FtCounted'
    BY <1>4, <1>5, <1>9, TransfersProceed DEF FtInv
  <1> QED  BY <1>7, <1>8, <1>10 DEF FtInv

(* The connection.                                                         *)
LEMMA FtConnectorEnds ==
  ASSUME FtInv, ConnectorEnds  PROVE  FtInv'
  <1>1. xfer \in Seq(Transfers) /\ Len(xfer) \in Nat /\ DOMAIN xfer = 1..Len(xfer)
    BY LenProperties DEF FtInv, FtTyped
  <1>2. \A i \in 1..Len(xfer) : xfer[i] \in Transfers
    BY <1>1, ElementOfSeq
  <1> DEFINE e(i) == IF xfer[i].channel = "open" THEN [xfer[i] EXCEPT !.channel = "closed"]
                     ELSE xfer[i]
  <1>3. \A i \in 1..Len(xfer) : /\ e(i) \in Transfers /\ e(i).file = xfer[i].file
                                /\ e(i).channel # "open" /\ e(i).wait = xfer[i].wait
    BY <1>2 DEF Transfers
  <1>4. xfer' = [i \in 1..Len(xfer) |-> e(i)]
    BY <1>1 DEF ConnectorEnds
  <1> HIDE DEF e
  <1>5. xfer' \in [1..Len(xfer) -> Transfers] /\ \A i \in 1..Len(xfer) : xfer'[i] = e(i)
    BY <1>3, <1>4
  <1>6. xfer' \in Seq(Transfers) /\ Len(xfer') = Len(xfer)
    <2>1. xfer' \in Seq(Transfers)
      BY <1>1, <1>5, SeqDef
    <2>2. 1..Len(xfer') = 1..Len(xfer) /\ Len(xfer') \in Nat
      BY <2>1, <1>5, LenProperties
    <2> QED  BY <1>1, <2>1, <2>2
  <1>7. \A i \in 1..Len(xfer) : /\ xfer'[i].file = xfer[i].file
                                /\ xfer'[i].channel = "open" => xfer[i].channel = "open"
                                /\ xfer'[i].wait = "none" <=> xfer[i].wait = "none"
    BY <1>3, <1>5
  <1>8. FtChannels' /\ FtSignals' /\ FtCounted'
    BY <1>6, <1>7, TransfersProceed DEF FtInv, ConnectorEnds
  <1>9. NoThread \in Threads /\ IsInjective(NoThread.list)
        /\ NoThread.sent \o NoThread.left = NoThread.list
    BY InjectiveEmpty, ConcatEmptySeq, TransferAssumption DEF NoThread, Threads
  <1>10. partials' = [t \in 1..MaxThreads |-> NoThread] /\ planned' = <<>> /\ tasks' = tasks
    BY DEF ConnectorEnds, FtInv, FtTyped
  <1>11. FtTyped'
    <2>1. partials' \in [1..MaxThreads -> Threads]
      BY <1>9, <1>10
    <2>2. planned' \in Seq(Files) /\ signals' \in Seq(Signals) /\ main' = IdleMain
      BY <1>10, EmptySeq DEF ConnectorEnds
    <2> QED  BY <1>6, <2>1, <2>2, IdleMainTyped DEF FtInv, FtTyped, ConnectorEnds
  <1>12. FtLists'
    BY <1>9, <1>10, InjectiveEmpty DEF FtInv, FtLists
  <1> QED  BY <1>8, <1>11, <1>12 DEF FtInv

LEMMA FtSession ==
  ASSUME FtInv, SessionOffline \/ ConnectorReturns  PROVE  FtInv'
  <1>1. UNCHANGED <<main, planned, partials, tasks, signals, xfer, dst, plans, drops>>
    BY DEF SessionOffline, ConnectorReturns
  <1>2. conn' \in {"up", "gone"} /\ mode' \in BOOLEAN /\ returns' \in 0..MaxReturns
    <2>1. CASE SessionOffline
      BY <2>1 DEF FtInv, FtTyped, SessionOffline
    <2>2. CASE ConnectorReturns
      <3>1. returns \in 0..MaxReturns /\ MaxReturns \in Nat /\ returns < MaxReturns
            /\ returns' = returns + 1
        BY <2>2, TransferAssumption DEF FtInv, FtTyped, ConnectorReturns
      <3>2. returns' \in 0..MaxReturns
        BY <3>1
      <3> QED  BY <2>2, <3>2 DEF ConnectorReturns
    <2> QED  BY <2>1, <2>2
  <1>3. FtTyped'
    BY <1>1, <1>2 DEF FtInv, FtTyped
  <1>4. FtLists'
    BY <1>1 DEF FtInv, FtLists
  <1>5. FtChannels' /\ FtSignals' /\ FtCounted'
    BY <1>1, TransfersUntouched DEF FtInv
  <1> QED  BY <1>3, <1>4, <1>5 DEF FtInv

LEMMA FtInit ==
  ASSUME Init  PROVE  FtInv
  <1>1. /\ MaxThreads \in Nat /\ MaxRequests \in Nat /\ MaxTransfers \in Nat /\ MaxDrops \in Nat
        /\ MaxReturns \in Nat /\ MaxChannels \in Nat
    BY TransferAssumption
  <1>2. NoThread \in Threads /\ IsInjective(NoThread.list)
        /\ NoThread.sent \o NoThread.left = NoThread.list
    BY <1>1, InjectiveEmpty, ConcatEmptySeq DEF NoThread, Threads
  <1>3. NoRequest \in Requests /\ RequestFits(NoRequest)
    BY InjectiveEmpty DEF NoRequest, Requests, TaskPcs, RequestFits
  <1>4. <<>> \in Seq(Transfers) /\ <<>> \in Seq(Signals) /\ Len(<<>>) = 0
    BY EmptySeq
  <1>5. FtTyped
    BY <1>1, <1>2, <1>3, <1>4, InjectiveEmpty, IdleMainTyped DEF Init, FtTyped
  <1>6. FtLists
    BY <1>2, <1>3, InjectiveEmpty DEF Init, FtLists
  <1>7. DOMAIN xfer = {} /\ Len(xfer) = 0
    BY <1>4, LenProperties DEF Init
  <1>8. OpenChannels = {} /\ \A f \in Files : Started(f) = {}
    BY <1>7 DEF OpenChannels, Started
  <1>9. FtChannels
    BY <1>1, <1>8, FS_EmptySet DEF FtChannels
  <1>10. FtSignals
    BY <1>4 DEF Init, FtSignals
  <1>11. \A f \in Files : f \notin Range(planned)
    <2>1. DOMAIN planned = 1..0
      BY LenProperties, EmptySeq DEF Init
    <2> QED  BY <2>1 DEF Range
  <1>12. FtCounted
    BY <1>8, <1>11, FS_EmptySet DEF Init, FtCounted
  <1> QED  BY <1>5, <1>6, <1>9, <1>10, <1>12 DEF FtInv

(* The invariant says what the runs check.                                 *)
LEMMA FtImplied ==
  ASSUME FtInv  PROVE  PlansKept
  <1>1. PartialCoversList
    BY DEF FtInv, FtLists, PartialCoversList
  <1>2. OneTransferPerPlan
    <2>1. \A f \in Files : Cardinality(Started(f)) \in Nat /\ plans[f] \in Nat
      BY TransferSetsFinite, FS_CardinalityType DEF FtInv, FtTyped, Started, StartedIn
    <2> QED  BY <2>1 DEF FtInv, FtCounted, OneTransferPerPlan
  <1>3. \A t \in 1..MaxThreads :
           /\ IsList(partials[t].list) /\ IsList(partials[t].left)
           /\ IsList(partials[t].sent) /\ partials[t].portion \in 0..MaxChannels
    <2> TAKE t \in 1..MaxThreads
    <2>1. partials[t] \in Threads /\ IsInjective(partials[t].list)
          /\ partials[t].sent \o partials[t].left = partials[t].list
      BY DEF FtInv, FtTyped, FtLists
    <2>2. /\ partials[t].list \in Seq(Files) /\ partials[t].left \in Seq(Files)
          /\ partials[t].sent \in Seq(Files) /\ partials[t].portion \in 0..MaxChannels
      BY <2>1 DEF Threads
    <2>3. IsInjective(partials[t].sent) /\ IsInjective(partials[t].left)
      BY <2>1, <2>2, InjectiveParts
    <2> QED  BY <2>1, <2>2, <2>3 DEF IsList
  <1>4. \A r \in 1..MaxRequests : tasks[r].pc \in TaskPcs /\ IsList(tasks[r].files)
    BY DEF FtInv, FtTyped, FtLists, RequestFits, Requests, IsList
  <1>5. \A i \in 1..Len(xfer) : xfer[i] \in Transfers
    BY ElementOfSeq DEF FtInv, FtTyped
  <1>6. TypeOK
    BY <1>3, <1>4, <1>5
       DEF TypeOK, FtInv, FtTyped, FtLists, Transfers, Signals, TaskPcs, IsList
  <1> QED  BY <1>1, <1>2, <1>6 DEF PlansKept

(* A dropped file that is allowed is sent at most once for each time it    *)
(* was planned, however requests overlap and connectors come and go, and   *)
(* the portions a thread requests are its whole list, each file once, for  *)
(* any files, drops, channels and numbers of requests and threads.         *)
THEOREM EachFileOnce == Spec => []PlansKept
  <1>1. FtInv /\ [Next]_vars => FtInv'
    <2> SUFFICES ASSUME FtInv, [Next]_vars  PROVE FtInv'
      OBVIOUS
    <2>1. ASSUME NEW fs \in Drops, DropFiles(fs)  PROVE FtInv'
      BY <2>1, FtDropFiles
    <2>2. CASE ConnectorStep
      <3>1. ASSUME NEW t \in 1..MaxThreads, StartPartial(t) \/ PartialSend(t)  PROVE FtInv'
        BY <3>1, FtStartPartial, FtPartialSend
      <3> QED  BY <2>2, <3>1, FtPlanFile, FtCountChannels, FtSendRequest, FtOnTransferAllow
                  DEF ConnectorStep
    <2>3. ASSUME NEW r \in 1..MaxRequests, TaskStep(r)  PROVE FtInv'
      BY <2>3, FtAnswerOrSelect, FtEmitReject, FtCopyAllow, FtCopyNoSpace DEF TaskStep
    <2>4. ASSUME NEW i \in DOMAIN xfer, WaiterStep(i) \/ ChannelData(i) \/ ChannelFails(i)
          PROVE  FtInv'
      BY <2>4, FtTransferStep
    <2>5. CASE ConnectorEnds \/ SessionOffline \/ ConnectorReturns
      BY <2>5, FtConnectorEnds, FtSession
    <2>6. CASE UNCHANGED vars
      BY <2>6 DEF vars, FtInv, FtTyped, FtLists, FtChannels, FtSignals, FtCounted,
                  OpenChannels, Started
    <2> QED  BY <2>1, <2>2, <2>3, <2>4, <2>5, <2>6 DEF Next
  <1> QED  BY <1>1, FtInit, FtImplied, PTL DEF Spec
=============================================================================
