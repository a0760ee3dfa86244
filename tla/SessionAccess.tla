---------------------------- MODULE SessionAccess ----------------------------
(***************************************************************************)
(* Who may enter a session, and the channels that follow the user in       *)
(* (src/service/ltsm_service.cpp: pamAuthenticate, busStartUserSession and *)
(* start...Listener).                                                      *)
(*                                                                         *)
(* One user has, at most, one session.  Each login screen is shown by the  *)
(* connector with the same number.  Bus methods run one after the other in *)
(* the dbus thread; a login attempt and the start of a session's channels  *)
(* are posted to the pool and interleave with it and with each other.      *)
(***************************************************************************)
EXTENDS Naturals, FiniteSets, Sequences

CONSTANTS
    SaScreens,     \* login screens, and their connectors: numbers from 1
    SaAttempts,    \* login attempts made in a behaviour: numbers from 1
    SaUser,        \* the user
    SaUidNames,    \* users in the range access:uid:min .. max
    SaListNames,   \* access:users with the members of access:groups
    SaFailures,    \* login:failures_count
    SaRequests,    \* sets of channels a client may ask for
    SaNewPolicies, \* policies the administrator changes a session to
    SaDisabled     \* channels disabled by the configuration

ASSUME SaAssumption ==
    SaScreens \subseteq Nat \ {0} /\ SaFailures \in Nat /\ SaDisabled \subseteq {"cups", "sane", "audio", "pcsc", "fuse"}

VARIABLES
    saScr,     \* per screen: state "none", "shown", "closing"; loginFailures; options
    saAtt,     \* per attempt: where pamAuthenticate is, its screen, and what it read
    saReply,   \* per attempt: the last signal: "none", "failure", "success"
    saTries,   \* history: failed attempts of a screen since the last success
    saLost,    \* history: two attempts counted a failure of one screen at once
    saConn,    \* per connector: where it is
    saSess,    \* the user's session: mode, connector, policy, flags, options
    saTask,    \* per connector: the startSessionChannels posted for it
    saSig,     \* CreateListener signals no connector has handled: <<channel, id>>
    saSock,    \* listening sockets: <<channel, id>>
    saDaemon,  \* sockets the session's daemons are connected to
    saSwitch,  \* history: the session changed hands, or a wait timed out
    saMixed,   \* history: two were past the policy check at once, or one when it changed
    saStolen,  \* history: a connected, locked session got another connector
    saDbus     \* 0, or the screen whose pkcs11 listener the dbus thread waits for

SaAuth == <<saScr, saAtt, saReply, saTries, saLost>>
SaChan == <<saTask, saSig, saSock, saDaemon>>
SaHist == <<saSwitch, saMixed, saStolen>>
SaVars == <<SaAuth, saConn, saSess, SaChan, SaHist, saDbus>>

SaPolicies == {"authlock", "authtake", "authshare"}
NoSession  == [mode |-> "none", conn |-> 0, policy |-> "authtake", allow |-> {}, opts |-> {}, points |-> {}]
NoAttempt  == [pc |-> "new", scr |-> 0, token |-> FALSE, read |-> 0]
NoTask     == [pc |-> "none", todo |-> <<>>, id |-> 0]

(* getAllowLogins: the listed names that are in the range; an empty list   *)
(* or an empty range does not restrict the other.                          *)
GetAllowLogins ==
    IF SaListNames = {} THEN SaUidNames
    ELSE IF SaUidNames = {} THEN SaListNames
    ELSE SaListNames \intersect SaUidNames

SaInit ==
    /\ saScr = [d \in SaScreens |-> [st |-> "none", fails |-> 0, opts |-> {}]]
    /\ saAtt = [a \in SaAttempts |-> NoAttempt] /\ saReply = [a \in SaAttempts |-> "none"]
    /\ saTries = [d \in SaScreens |-> 0] /\ saLost = FALSE
    /\ saConn = [d \in SaScreens |-> "none"]
    /\ \E p \in SaPolicies : saSess = [NoSession EXCEPT !.policy = p]
    /\ saTask = [d \in SaScreens |-> NoTask]
    /\ saSig = {} /\ saSock = {} /\ saDaemon = {}
    /\ saSwitch = FALSE /\ saMixed = FALSE /\ saStolen = FALSE /\ saDbus = 0
-----------------------------------------------------------------------------
(***************************************************************************)
(* The login screen.                                                       *)
(***************************************************************************)
DbusFree == saDbus = 0

BusStartLogin(d) ==
    /\ DbusFree /\ saScr[d].st = "none" /\ \A c \in SaScreens : c < d => saScr[c].st # "none"
    /\ saScr' = [saScr EXCEPT ![d].st = "shown"]
    /\ saConn' = [saConn EXCEPT ![d] = "login"]
    /\ UNCHANGED <<saAtt, saReply, saTries, saLost, saSess, SaChan, SaHist, saDbus>>

(* startPkcs11Listener waits for the socket in the dbus thread; the other  *)
(* channels are only noted, those the configuration disables are not.      *)
BusSetSessionOptions(d) ==
    /\ DbusFree /\ saScr[d].st = "shown" /\ saConn[d] = "login" /\ saScr[d].opts = {}
    /\ \E req \in SaRequests :
        /\ req # {}
        /\ saScr' = [saScr EXCEPT ![d].opts = req \ SaDisabled]
        /\ IF "pkcs11" \in req
           THEN saSig' = saSig \union {<<"pkcs11", d>>} /\ saDbus' = d
           ELSE UNCHANGED <<saSig, saDbus>>
    /\ UNCHANGED <<saAtt, saReply, saTries, saLost, saConn, saSess, saTask, saSock, saDaemon, SaHist>>

(* waitFileSetPermission: the socket is there, or 3.5 seconds have passed. *)
Pkcs11Waited ==
    /\ ~DbusFree
    /\ saDbus' = 0
    /\ UNCHANGED <<SaAuth, saConn, saSess, SaChan, SaHist>>

(* busSetAuthenticateToken, busSetAuthenticateLoginPass post the attempt.  *)
BusSetAuthenticate(d, a) ==
    /\ DbusFree /\ saScr[d].st # "none" /\ saConn[d] = "login" /\ saAtt[a].pc = "new"
    /\ \A b \in SaAttempts : b < a => saAtt[b].pc # "new"
    /\ \E t \in BOOLEAN : saAtt' = [saAtt EXCEPT ![a] = [NoAttempt EXCEPT !.pc = "posted", !.scr = d, !.token = t]]
    /\ UNCHANGED <<saScr, saReply, saTries, saLost, saConn, saSess, SaChan, SaHist, saDbus>>

SaFinished(a, reply) ==
    /\ saAtt' = [saAtt EXCEPT ![a] = [NoAttempt EXCEPT !.pc = "done", !.scr = saAtt[a].scr]]
    /\ saReply' = [saReply EXCEPT ![a] = reply]

(* pamAuthenticate, as far as pam_start: nobody is allowed, this one is    *)
(* not, logins are disabled, PAM does not start; or it goes on.            *)
PamAuthenticate(a) ==
    /\ saAtt[a].pc = "posted"
    /\ \/ SaFinished(a, "failure")
       \/ /\ SaUser \in GetAllowLogins
          /\ saAtt' = [saAtt EXCEPT ![a].pc = IF saAtt[a].token THEN "policy" ELSE "pam"]
          /\ UNCHANGED saReply
    /\ UNCHANGED <<saScr, saTries, saLost, saConn, saSess, SaChan, SaHist, saDbus>>

(* authenticate fails: the failure is signalled, and loginFailures, which  *)
(* several threads may be adding to, is read ...                           *)
PamRefuses(a) ==
    /\ saAtt[a].pc = "pam"
    /\ LET d == saAtt[a].scr IN
       /\ saAtt' = [saAtt EXCEPT ![a].pc = "count", ![a].read = saScr[d].fails]
       /\ saReply' = [saReply EXCEPT ![a] = "failure"]
       /\ saTries' = [saTries EXCEPT ![d] = @ + 1]
       /\ saLost' = (saLost \/ \E b \in SaAttempts : saAtt[b].pc = "count" /\ saAtt[b].scr = d)
    /\ UNCHANGED <<saScr, saConn, saSess, SaChan, SaHist, saDbus>>

(* ... and written; beyond the limit the screen is shut down.              *)
FaultPamCounts(a) ==
    /\ saAtt[a].pc = "count"
    /\ LET d == saAtt[a].scr
           n == saAtt[a].read + 1
       IN saScr' = [saScr EXCEPT ![d].fails = n,
                        ![d].st = IF SaFailures + 1 < n THEN "closing" ELSE @]
    /\ SaFinished(a, "failure")
    /\ UNCHANGED <<saTries, saLost, saConn, saSess, SaChan, SaHist, saDbus>>
PamCounts(a) ==
    /\ saAtt[a].pc = "count"
    /\ LET d == saAtt[a].scr
           n == saAtt[a].read + 1
       IN saScr' = [saScr EXCEPT ![d].fails = n,
                        ![d].st = IF SaFailures < n THEN "closing" ELSE @]
    /\ SaFinished(a, "failure")
    /\ UNCHANGED <<saTries, saLost, saConn, saSess, SaChan, SaHist, saDbus>>

(* validateAccount fails: the user's sessions are shut down, and nothing   *)
(* is said to the screen.                                                  *)
PamInvalid(a) ==
    /\ saAtt[a].pc = "pam"
    /\ SaFinished(a, "none")
    /\ saSess' = [NoSession EXCEPT !.policy = saSess.policy]
    /\ saConn' = [d \in SaScreens |-> IF saConn[d] \in {"attached", "online"} THEN "leaving" ELSE saConn[d]]
    /\ saTask' = [d \in SaScreens |-> NoTask] /\ saDaemon' = {}
    /\ saSig' = {s \in saSig : s[1] = "pkcs11"} /\ saSock' = {s \in saSock : s[1] = "pkcs11"}
    /\ saSwitch' = TRUE
    /\ UNCHANGED <<saScr, saTries, saLost, saMixed, saStolen, saDbus>>

PamAccepts(a) ==
    /\ saAtt[a].pc = "pam"
    /\ saAtt' = [saAtt EXCEPT ![a].pc = "policy"]
    /\ UNCHANGED <<saScr, saReply, saTries, saLost, saConn, saSess, SaChan, SaHist, saDbus>>

(* The session is looked up and the policy decides.  With authtake the     *)
(* connector of the session is asked to end: ConnectorLeaves, which may    *)
(* come at any time.                                                       *)
PastCheck(a) == saAtt[a].pc = "take" \/ (saAtt[a].pc = "done" /\ saReply[a] = "success"
                                         /\ saConn[saAtt[a].scr] \in {"login", "granted", "attached"})
FaultPolicyCheck(a) ==
    /\ saAtt[a].pc = "policy"
    /\ saAtt' = [saAtt EXCEPT ![a].pc = "take"]
    /\ UNCHANGED <<saScr, saReply, saTries, saLost, saConn, saSess, SaChan, SaHist, saDbus>>
PolicyCheck(a) ==
    /\ saAtt[a].pc = "policy"
    /\ LET d == saAtt[a].scr
           busy == saSess.mode = "Connected"
       IN
       /\ saScr' = IF SaFailures > 0 THEN [saScr EXCEPT ![d].fails = 0] ELSE saScr
       /\ saTries' = [saTries EXCEPT ![d] = 0]
       /\ IF busy /\ saSess.policy = "authlock"
          THEN SaFinished(a, "failure") /\ UNCHANGED saMixed
          ELSE /\ saAtt' = [saAtt EXCEPT ![a].pc = "take"]
               /\ saMixed' = (saMixed \/ \E b \in SaAttempts \ {a} : PastCheck(b))
               /\ UNCHANGED saReply
    /\ UNCHANGED <<saLost, saConn, saSess, SaChan, saSwitch, saStolen, saDbus>>

(* It goes on when the session is offline, when two seconds have passed,   *)
(* or at once when there is nothing to wait for.                           *)
FaultLoginSuccess(a) ==
    /\ saAtt[a].pc = "take"
    /\ SaFinished(a, "success")
    /\ saConn' = [d \in SaScreens |-> IF saConn[d] = "login" THEN "granted" ELSE saConn[d]]
    /\ UNCHANGED <<saScr, saTries, saLost, saSess, SaChan, SaHist, saDbus>>
LoginSuccess(a) ==
    /\ saAtt[a].pc = "take"
    /\ LET d == saAtt[a].scr IN
       /\ SaFinished(a, "success")
       /\ saConn' = [saConn EXCEPT ![d] = IF @ = "login" THEN "granted" ELSE @]
    /\ UNCHANGED <<saScr, saTries, saLost, saSess, SaChan, SaHist, saDbus>>
-----------------------------------------------------------------------------
(***************************************************************************)
(* The session.                                                            *)
(***************************************************************************)
(* startSessionChannels, in its order: what the client asked for and the   *)
(* flags of the session allow.  For the printer a call is bound, not made. *)
SessionChannels(sess) ==
    SelectSeq(<<"sane", "audio", "pcsc", "fuse">>, LAMBDA ch : ch \in sess.opts \intersect sess.allow)
StartSessionChannels(todo) == [pc |-> IF todo = <<>> THEN "done" ELSE "start", todo |-> todo, id |-> 0]

(* busStartUserSession: the session there is gets the connector and keeps  *)
(* its options; a new one takes those of the login screen and its flags    *)
(* from the configuration.  Its channels are started in the pool.          *)
BusStartUserSession(d) ==
    /\ DbusFree /\ saConn[d] = "granted" /\ saTask[d].pc = "none"
    /\ IF saSess.mode # "none"
       THEN /\ saSess' = [saSess EXCEPT !.conn = d]
            /\ saSwitch' = TRUE
            /\ saStolen' = (saStolen \/ (saSess.mode = "Connected" /\ saSess.policy = "authlock"))
       ELSE /\ saSess' = [mode |-> "Started", conn |-> d, policy |-> saSess.policy, points |-> {},
                          opts |-> saScr[d].opts,
                          allow |-> {"cups", "sane", "audio", "pcsc", "fuse"} \ SaDisabled]
            /\ UNCHANGED <<saSwitch, saStolen>>
    /\ saConn' = [saConn EXCEPT ![d] = "attached"]
    /\ saScr' = [saScr EXCEPT ![d].st = "closing", ![d].opts = {}]
    /\ saTask' = [saTask EXCEPT ![d] = StartSessionChannels(SessionChannels(saSess'))]
    /\ UNCHANGED <<saAtt, saReply, saTries, saLost, saSig, saSock, saDaemon, saMixed, saDbus>>

BusOnline(d) ==
    /\ DbusFree /\ saConn[d] = "attached" /\ saSess.mode # "none"
    /\ saSess' = [saSess EXCEPT !.conn = d, !.mode = "Connected"]
    /\ saConn' = [saConn EXCEPT ![d] = "online"]
    /\ UNCHANGED <<SaAuth, SaChan, SaHist, saDbus>>

(* The connector is gone, and its listeners with it.                       *)
ConnectorLeaves(d) ==
    /\ saConn[d] \in {"login", "attached", "online"}
    /\ saConn' = [saConn EXCEPT ![d] = "leaving"]
    /\ saSock' = {s \in saSock : s[2] # d /\ (s[1] = "fuse" => saSess.conn # d)}
    /\ saSwitch' = TRUE
    /\ UNCHANGED <<SaAuth, saSess, saTask, saSig, saDaemon, saMixed, saStolen, saDbus>>

(* The shares are unmounted by their names; audio and pcsc are asked to    *)
(* leave a socket named after connectorId, which is 0 by then, and "sock": *)
(* not the names they were given.                                          *)
StopFuseListener(sess, s)  == s[1] = "fuse" /\ ("fuse" \in sess.opts \/ s \in sess.points)
StopAudioListener(sess, s) == s[1] = "audio" /\ "audio" \in sess.opts /\ s[2] = sess.conn
StopPcscListener(sess, s)  == s[1] = "pcsc" /\ "pcsc" \in sess.opts /\ s[2] = "sock"
StopSessionChannels(sess) ==
    saDaemon' = {s \in saDaemon : ~StopFuseListener(sess, s) /\ ~StopAudioListener(sess, s)
                                    /\ ~StopPcscListener(sess, s)}

(* busConnectorTerminated: of the login screen, or of the session if it is *)
(* connected.                                                              *)
BusTerminated(d) ==
    /\ DbusFree /\ saConn[d] = "leaving"
    /\ saConn' = [saConn EXCEPT ![d] = "gone"]
    /\ IF saScr[d].st = "shown"
       THEN saScr' = [saScr EXCEPT ![d].st = "closing", ![d].opts = {}] /\ UNCHANGED <<saSess, saDaemon>>
       ELSE /\ UNCHANGED saScr
            /\ IF saSess.mode = "Connected"
               THEN /\ saSess' = [saSess EXCEPT !.mode = "Disconnected", !.conn = 0, !.points = {}]
                    /\ StopSessionChannels(saSess')
               ELSE UNCHANGED <<saSess, saDaemon>>
    /\ UNCHANGED <<saAtt, saReply, saTries, saLost, saTask, saSig, saSock, SaHist, saDbus>>

BusSetSessionPolicy(p) ==
    /\ DbusFree /\ saSess.mode # "none" /\ saSess.policy # p
    /\ saSess' = [saSess EXCEPT !.policy = p]
    /\ saMixed' = (saMixed \/ \E b \in SaAttempts : PastCheck(b))
    /\ UNCHANGED <<SaAuth, saConn, SaChan, saSwitch, saStolen, saDbus>>
-----------------------------------------------------------------------------
(***************************************************************************)
(* Channels of the session, in a thread of the pool.                       *)
(***************************************************************************)
NextChannel(d) == [saTask EXCEPT ![d] = StartSessionChannels(Tail(saTask[d].todo))]
SocketId(ch) == IF ch = "fuse" THEN 99 ELSE saSess.conn

(* start...Listener, up to the wait: the directory cannot be made, and the *)
(* next one follows; or an old socket is removed and a new one asked for.  *)
StartListener(d) ==
    /\ saTask[d].pc = "start"
    /\ LET ch == Head(saTask[d].todo)
           s  == <<ch, SocketId(ch)>>
       IN \/ saTask' = NextChannel(d) /\ UNCHANGED <<saSig, saSock>>
          \/ /\ saSock' = saSock \ {s}
             /\ saSig' = saSig \union {s}
             /\ saTask' = [saTask EXCEPT ![d].pc = "made", ![d].id = s[2]]
    /\ UNCHANGED <<SaAuth, saConn, saSess, saDaemon, SaHist, saDbus>>

(* The connector of that display makes the listening socket.               *)
ConnectorListens(d, s) ==
    /\ s \in saSig
    /\ IF s[1] = "pkcs11" THEN s[2] = d /\ saConn[d] = "login"
       ELSE saConn[d] \in {"attached", "online"}
    /\ saSig' = saSig \ {s} /\ saSock' = saSock \union {s}
    /\ UNCHANGED <<SaAuth, saConn, saSess, saTask, saDaemon, SaHist, saDbus>>

(* The socket is there: the daemon is asked to connect to it; when it does *)
(* not, the listener is destroyed.                                         *)
FaultListenerReady(d) ==
    /\ saTask[d].pc = "made"
    /\ LET s == <<Head(saTask[d].todo), saTask[d].id>> IN
       /\ s \in saSock
       /\ \/ saDaemon' = saDaemon \union {s}
          \/ UNCHANGED saDaemon
    /\ saTask' = NextChannel(d)
    /\ UNCHANGED <<SaAuth, saConn, saSess, saSig, saSock, SaHist, saDbus>>
ListenerReady(d) ==
    /\ saTask[d].pc = "made"
    /\ LET s == <<Head(saTask[d].todo), saTask[d].id>> IN
       /\ s \in saSock
       /\ \/ s[1] = "sane" /\ UNCHANGED <<saDaemon, saSock, saSess>>
          \/ /\ s[1] # "sane"
             /\ saDaemon' = saDaemon \union {s}
             /\ saSess' = [saSess EXCEPT !.points = IF s[1] = "fuse" THEN @ \union {s} ELSE @]
             /\ UNCHANGED saSock
          \/ s[1] # "sane" /\ saSock' = saSock \ {s} /\ UNCHANGED <<saDaemon, saSess>>
    /\ saTask' = NextChannel(d)
    /\ UNCHANGED <<SaAuth, saConn, saSig, SaHist, saDbus>>

ListenerTimeout(d) ==
    /\ saTask[d].pc = "made"
    /\ <<Head(saTask[d].todo), saTask[d].id>> \notin saSock
    /\ saTask' = NextChannel(d)
    /\ saSwitch' = TRUE
    /\ UNCHANGED <<SaAuth, saConn, saSess, saSig, saSock, saDaemon, saMixed, saStolen, saDbus>>

SaNext ==
    \/ \E d \in SaScreens :
        \/ BusStartLogin(d) \/ BusSetSessionOptions(d) \/ BusStartUserSession(d) \/ BusOnline(d)
        \/ ConnectorLeaves(d) \/ BusTerminated(d)
        \/ StartListener(d) \/ ListenerReady(d) \/ ListenerTimeout(d)
        \/ \E a \in SaAttempts : BusSetAuthenticate(d, a)
        \/ \E s \in saSig : ConnectorListens(d, s)
    \/ \E a \in SaAttempts :
        \/ PamAuthenticate(a) \/ PamRefuses(a) \/ PamCounts(a) \/ PamInvalid(a) \/ PamAccepts(a)
        \/ PolicyCheck(a) \/ LoginSuccess(a)
    \/ \E p \in SaNewPolicies : BusSetSessionPolicy(p)
    \/ Pkcs11Waited
-----------------------------------------------------------------------------
(* Types; the connector of a session is one whose own screen was let in    *)
(* (emitLoginSuccess names the display).                                   *)
SaTypeOK ==
    /\ \A d \in SaScreens :
        /\ saScr[d].st \in {"none", "shown", "closing"}
        /\ saConn[d] \in {"none", "login", "granted", "attached", "online", "leaving", "gone"}
        /\ saTask[d].pc \in {"none", "start", "made", "done"}
    /\ saSess.conn \in SaScreens \union {0}
    /\ saSess.conn # 0 => \E a \in SaAttempts : saAtt[a].scr = saSess.conn /\ saReply[a] = "success"

(* A screen whose attempts failed more often than the configuration allows *)
(* is being shut down (pamAuthenticate), unless two of its attempts added  *)
(* to loginFailures at once.                                               *)
SaGuessesLimited ==
    \A d \in SaScreens :
        saTries[d] > SaFailures /\ ~saLost /\ (\A a \in SaAttempts : saAtt[a].pc # "count" \/ saAtt[a].scr # d)
            => saScr[d].st = "closing"

(* A connected session with the policy authlock is never given to another  *)
(* connector, as long as no two attempts were past the check of            *)
(* pamAuthenticate at the same time, and none when the policy was changed. *)
SaLockHeld == saStolen => saMixed

(* What stands between a login screen and somebody's session: the policy   *)
(* that locks it, and the number of guesses.                               *)
SaLoginGuarded == SaTypeOK /\ SaLockHeld /\ SaGuessesLimited

(* No half of a channel stays: once the channels of a session have been    *)
(* started, every listener of audio, pcsc and fuse has its daemon, unless  *)
(* a wait timed out or the session changed hands.                          *)
SaNoHalfChannel ==
    (\A d \in SaScreens : saTask[d].pc \in {"none", "done"}) /\ ~saSwitch
        => \A s \in saSock : s[1] \in {"audio", "pcsc", "fuse"} => s \in saDaemon

(* README: the printer of the user is reached through a unix socket of the *)
(* session, as sound and scanner are: a session whose client asked for it  *)
(* has the listener when its channels have been started.                   *)
(* The code does not keep it (README, section 5).                          *)
SaPrinterListens ==
    \A d \in SaScreens : saTask[d].pc = "done" /\ ~saSwitch /\ "cups" \in saSess.opts \intersect saSess.allow
        => \E s \in saSock : s[1] = "cups"
=============================================================================
