---------------------------- MODULE AudioSession ----------------------------
(***************************************************************************)
(* The sound of a session (src/session_audio) and the plugin of the remote *)
(* client that plays it (src/client/audio).                                *)
(*                                                                         *)
(* The daemon has one thread for its coroutines; the PulseAudio main loop  *)
(* has another one, which calls back into the daemon.  A connection is     *)
(* made, shakes hands, waits for the sound engine (a wait that blocks the  *)
(* daemon's thread) and is then put on the list.  Every block of sound     *)
(* starts a coroutine that writes its packets to the same socket.          *)
(***************************************************************************)
EXTENDS Naturals, Sequences, FiniteSets

CONSTANTS
    AudioConns,    \* connections made in a behaviour
    AudioPath,     \* the socket path of each
    AudioMaxJobs,  \* blocks of sound of each connection
    AudioFrames,   \* encoded frames a block may give
    AudioWireCap,  \* words the socket takes
    AudioPlayAfter, \* blocks that make autoPlayAfterSec
    AudioNone      \* no connection

ASSUME AudioAssumption ==
    AudioNone \notin AudioConns /\ AudioPlayAfter \in Nat \ {0} /\ AudioFrames \subseteq Nat

VARIABLES
    auRun,     \* "run", "ub", "stopped"
    auConn,    \* per connection: where it is
    auList,    \* clients_
    auEncoder, \* encoder_ (OPUS) or PCM
    puWaiter,  \* the connection whose wait blocks the daemon's thread
    puId,      \* waitId of the engine
    puOps,     \* requests the sound server has not answered
    puFailed,  \* the context has failed
    auJobs,    \* per connection: packets each coroutine has still to write
    auMade,    \* per connection: coroutines so far
    auWire,    \* words on the socket
    auOverlap, \* history: one coroutine wrote while another was in a packet
    cl,        \* per connection, its client: format "none", "OPUS", "PCM" or "refused";
               \* the packet whose body it needs; silent "no", "short", "long"; bad: has thrown
    al         \* per connection, its player: state "none", "initial", "playing", "stopped";
               \* buffers queued and processed (done); after: playAfterBytes;
               \* since: history, blocks written since it stopped

AudioDaemon == <<auRun, auConn, auList, auEncoder>>
AudioPulse  == <<puWaiter, puId, puOps, puFailed>>
AudioSend   == <<auJobs, auMade, auWire, auOverlap>>
AudioEnd    == <<cl, al>>
AudioVars   == <<AudioDaemon, AudioPulse, AudioSend, AudioEnd>>

Each(v) == [k \in AudioConns |-> v]
NoClient == [format |-> "none", need |-> 0, silent |-> "no", bad |-> FALSE]
NoPlayer == [state |-> "none", queue |-> 0, done |-> 0, after |-> 0, since |-> 0]
AudioThread == auRun = "run" /\ puWaiter = AudioNone

AudioInit ==
    /\ auRun = "run" /\ auConn = Each("none") /\ auList = {}
    /\ auEncoder = Each("PCM") /\ puWaiter = AudioNone /\ puId = "none" /\ puOps = {}
    /\ puFailed = FALSE /\ auJobs = Each(<<>>) /\ auMade = Each(0) /\ auWire = Each(<<>>)
    /\ auOverlap = FALSE /\ cl = Each(NoClient) /\ al = Each(NoPlayer)
-----------------------------------------------------------------------------
(***************************************************************************)
(* Connections.                                                            *)
(***************************************************************************)
(* socketPath asks for the local endpoint: that of a connecting socket has *)
(* no name and equals no path, and on a closed socket the question throws. *)
SocketPath(k, path) == IF auConn[k] = "closed" THEN "throws" ELSE "other"

(* connectChannel: refused with "socket busy" when the path is on the list *)
(* with an open socket; otherwise a coroutine connects.                    *)
AudioConnectChannel(k) ==
    /\ AudioThread /\ auConn[k] = "none"
    /\ LET answers == {SocketPath(c, AudioPath[k]) : c \in auList} IN
       auConn' = [auConn EXCEPT ![k] = IF "throws" \in answers THEN "failed" ELSE "connecting"]
    /\ UNCHANGED <<auRun, auList, auEncoder, AudioPulse, AudioSend, AudioEnd>>

(* The process ends: nothing of it is left.                                *)
AudioEnds(how) ==
    /\ auRun' = how
    /\ auConn' = Each("none") /\ auList' = {} /\ auEncoder' = Each("PCM")
    /\ puId' = "none" /\ puOps' = {} /\ puFailed' = FALSE
    /\ auJobs' = Each(<<>>) /\ auMade' = Each(0) /\ auWire' = Each(<<>>)
    /\ auOverlap' = FALSE /\ cl' = Each(NoClient) /\ al' = Each(NoPlayer)
    /\ UNCHANGED puWaiter

(* disconnectChannel erases the clients of that path; the exception of a   *)
(* closed one leaves the event loop and ends the daemon.                   *)
AudioDisconnectChannel(path) ==
    /\ AudioThread /\ auList # {}
    /\ IF \E k \in auList : SocketPath(k, path) = "throws" THEN AudioEnds("stopped")
       ELSE /\ auList' = {k \in auList : SocketPath(k, path) # path}
            /\ UNCHANGED <<auRun, auConn, auEncoder, AudioPulse, AudioSend, AudioEnd>>

(* Five attempts; then the coroutine ends and the client is dropped.       *)
AudioRetryConnect(k) ==
    /\ AudioThread /\ auConn[k] = "connecting"
    /\ auConn' = [auConn EXCEPT ![k] = "shake"]
    /\ UNCHANGED <<auRun, auList, auEncoder, AudioPulse, AudioSend, AudioEnd>>
AudioConnectFails(k) ==
    /\ AudioThread /\ auConn[k] \in {"connecting", "shake", "engine"}
    /\ auConn' = [auConn EXCEPT ![k] = "failed"]
    /\ UNCHANGED <<auRun, auList, auEncoder, AudioPulse, AudioSend, AudioEnd>>

(* audioOpInit: the client takes OPUS when its decoder can be made, else   *)
(* PCM, opens its player, and answers the format or an error.              *)
AudioOpInit(k, fmt) ==
    /\ cl' = [cl EXCEPT ![k].format = fmt, ![k].bad = (fmt = "refused")]
    /\ al' = IF fmt = "refused" THEN al
             ELSE [al EXCEPT ![k] = [NoPlayer EXCEPT !.state = "initial", !.after = AudioPlayAfter]]

(* remoteHandshake: the encoder is made for the format the client took.    *)
FaultAudioRemoteHandshake(k) ==
    /\ AudioThread /\ auConn[k] = "shake"
    /\ \E fmt \in {"OPUS", "PCM", "refused"} :
        /\ AudioOpInit(k, fmt)
        /\ auConn' = [auConn EXCEPT ![k] = IF fmt = "refused" THEN "failed" ELSE "engine"]
    /\ UNCHANGED <<auRun, auList, auEncoder, AudioPulse, AudioSend>>
AudioRemoteHandshake(k) ==
    /\ AudioThread /\ auConn[k] = "shake"
    /\ \E fmt \in {"OPUS", "PCM", "refused"} :
        /\ AudioOpInit(k, fmt)
        /\ auEncoder' = [auEncoder EXCEPT ![k] = IF fmt = "OPUS" THEN "OPUS" ELSE @]
        /\ auConn' = [auConn EXCEPT ![k] = IF fmt = "refused" THEN "failed" ELSE "engine"]
    /\ UNCHANGED <<auRun, auList, AudioPulse, AudioSend>>

(* stop: the list is cleared; coroutines of the clients that are still     *)
(* suspended in a write go on with a dangling pointer.                     *)
AudioStop ==
    /\ AudioThread
    /\ AudioEnds(IF \E k \in AudioConns : auJobs[k] # <<>> THEN "ub" ELSE "stopped")
-----------------------------------------------------------------------------
(***************************************************************************)
(* The PulseAudio engine.  A request is made and its answer waited for; an *)
(* answer sets waitId and wakes the waiter, which looks for its own id.    *)
(***************************************************************************)
PulseStep(id) == CASE id = "context" -> "server" [] id = "server" -> "stream" [] OTHER -> "done"

(* timerWaitEngine, engineInit: a new stream object, its context connects. *)
EngineInit(k) ==
    /\ AudioThread /\ auConn[k] = "engine"
    /\ puWaiter' = k /\ puId' = "none" /\ puOps' = {"context"} /\ puFailed' = FALSE
    /\ UNCHANGED <<AudioDaemon, AudioSend, AudioEnd>>

(* The waiter's turn: what waitId names is its own, or it sleeps on.  It   *)
(* goes on with the next request, or the engine is ready.                  *)
PulseWaiting(id) == puWaiter # AudioNone /\ puOps \subseteq {id}
FaultPulseWaitEnds(id) ==
    /\ puWaiter # AudioNone /\ puId # "none" /\ id \in puOps
    /\ IF PulseStep(id) = "done"
       THEN /\ puWaiter' = AudioNone /\ puOps' = {}
            /\ auConn' = [auConn EXCEPT ![puWaiter] = "live"]
            /\ auList' = auList \union {puWaiter}
       ELSE puOps' = {PulseStep(id)} /\ UNCHANGED <<puWaiter, auConn, auList>>
    /\ UNCHANGED <<auRun, auEncoder, puId, puFailed, AudioSend, AudioEnd>>
PulseWaitEnds(id) ==
    /\ puWaiter # AudioNone /\ puId = id
    /\ puId' = "none"
    /\ IF puFailed \/ PulseStep(id) = "done"
       THEN /\ puWaiter' = AudioNone /\ puOps' = {}
            /\ auConn' = [auConn EXCEPT ![puWaiter] = IF puFailed THEN "engine" ELSE "live"]
            /\ auList' = IF puFailed THEN auList ELSE auList \union {puWaiter}
       ELSE puOps' = {PulseStep(id)} /\ UNCHANGED <<puWaiter, auConn, auList>>
    /\ UNCHANGED <<auRun, auEncoder, puFailed, AudioSend, AudioEnd>>

(* The callbacks of the loop's thread: contextStateEvent,                  *)
(* contextServerInfoNotify, streamStateEvent.                              *)
PulseNotify(id) ==
    /\ auRun = "run" /\ id \in puOps /\ puId # id /\ ~puFailed
    /\ puId' = id
    /\ UNCHANGED <<AudioDaemon, puWaiter, puOps, puFailed, AudioSend, AudioEnd>>

(* The sound server dies: contextStateEvent notifies, the requests that    *)
(* are open get no answer.                                                 *)
PulseContextFails ==
    /\ auRun = "run" /\ puWaiter # AudioNone /\ ~puFailed
    /\ puFailed' = TRUE /\ puId' = "context"
    /\ UNCHANGED <<AudioDaemon, puWaiter, puOps, AudioSend, AudioEnd>>
-----------------------------------------------------------------------------
(***************************************************************************)
(* Sound.  A packet is a header and a body; a silent one has no body.      *)
(***************************************************************************)
(* dataEncode: one silent packet, or the block as it is, or as many frames *)
(* as the encoder has gathered (none, one or more).                       *)
DataEncode(k) ==
    {<<"silent">>}
    \union (IF auEncoder[k] = "PCM" THEN {<<"data">>}
            ELSE {[i \in 1..n |-> "data"] : n \in AudioFrames})

(* dataReadyNotify, in the engine's thread: a coroutine for the packets.   *)
DataReadyNotify(k) ==
    /\ auRun = "run" /\ auConn[k] = "live" /\ auMade[k] < AudioMaxJobs[k]
    /\ \E pkts \in DataEncode(k) :
        /\ auMade' = [auMade EXCEPT ![k] = @ + 1]
        /\ auJobs' = IF pkts = <<>> THEN auJobs
                     ELSE [auJobs EXCEPT ![k] = Append(@, [n |-> auMade[k] + 1, todo |-> pkts, half |-> FALSE])]
    /\ UNCHANGED <<AudioDaemon, AudioPulse, auWire, auOverlap, AudioEnd>>

Word(w, j) == [w |-> w, n |-> j.n]
JobOut(jobs, i) ==
    IF Len(jobs[i].todo) = 1 THEN SubSeq(jobs, 1, i-1) \o SubSeq(jobs, i+1, Len(jobs))
    ELSE [jobs EXCEPT ![i].todo = Tail(@), ![i].half = FALSE]
Half(k) == {i \in DOMAIN auJobs[k] : auJobs[k][i].half}

(* async_send_buffers: the whole packet, or its beginning when the socket  *)
(* is full and the rest when it can take more.  Other coroutines run in    *)
(* between: a strand does not keep them out.                               *)
FaultSendPacket(k, i) ==
    /\ AudioThread /\ auConn[k] = "live" /\ i \in DOMAIN auJobs[k] /\ Len(auWire[k]) < AudioWireCap
    /\ auWire' = [auWire EXCEPT ![k] = Append(@, Word(IF Head(auJobs[k][i].todo) = "silent"
                                                     THEN "silent" ELSE "head", auJobs[k][i]))]
    /\ auJobs' = [auJobs EXCEPT ![k] = JobOut(@, i)]
    /\ UNCHANGED <<AudioDaemon, AudioPulse, auMade, auOverlap, AudioEnd>>
SendPacket(k, i) ==
    /\ AudioThread /\ auConn[k] = "live" /\ i \in DOMAIN auJobs[k] /\ Len(auWire[k]) < AudioWireCap
    /\ LET j == auJobs[k][i] IN
       /\ \/ /\ ~j.half
             /\ auWire' = [auWire EXCEPT ![k] = @ \o
                    (IF Head(j.todo) = "silent" THEN <<Word("silent", j)>>
                     ELSE <<Word("head", j), Word("body", j)>>)]
             /\ auJobs' = [auJobs EXCEPT ![k] = JobOut(@, i)]
          \/ /\ ~j.half /\ Head(j.todo) = "data"
             /\ auWire' = [auWire EXCEPT ![k] = Append(@, Word("head", j))]
             /\ auJobs' = [auJobs EXCEPT ![k][i].half = TRUE]
          \/ /\ j.half
             /\ auWire' = [auWire EXCEPT ![k] = Append(@, Word("body", j))]
             /\ auJobs' = [auJobs EXCEPT ![k] = JobOut(@, i)]
    /\ auOverlap' = (auOverlap \/ Half(k) \ {i} # {})
    /\ UNCHANGED <<AudioDaemon, AudioPulse, auMade, AudioEnd>>

(* A write fails, or the encoder does in the engine's thread: the socket   *)
(* is closed; the coroutines that write to it fail in turn.  The client    *)
(* stays on the list.                                                      *)
AudioSendFails(k) ==
    /\ auRun = "run" /\ auConn[k] = "live"
    /\ \/ AudioThread /\ auJobs[k] # <<>>
       \/ auEncoder[k] = "OPUS" /\ auMade[k] < AudioMaxJobs[k]
    /\ auConn' = [auConn EXCEPT ![k] = "closed"]
    /\ auJobs' = [auJobs EXCEPT ![k] = <<>>]
    /\ auWire' = [auWire EXCEPT ![k] = <<>>]
    /\ UNCHANGED <<auRun, auList, auEncoder, AudioPulse, auMade, auOverlap, AudioEnd>>
-----------------------------------------------------------------------------
(***************************************************************************)
(* The player (OpenAL): a source with a queue of buffers.                  *)
(***************************************************************************)
(* A processed buffer is used again; a new one is made only while the      *)
(* source does not play.  A stopped source counts all it has as processed. *)
FaultStreamWrite(p) ==
    IF p.done = 0 /\ p.state = "playing" THEN p
    ELSE LET start == p.after = AudioPlayAfter
             queued == IF p.done > 0 THEN p.queue ELSE p.queue + 1
         IN [state |-> IF start THEN "playing" ELSE p.state,
             queue |-> queued,
             done  |-> IF start THEN 0 ELSE IF p.state = "stopped" THEN queued
                       ELSE IF p.done > 0 THEN p.done - 1 ELSE 0,
             after |-> IF p.after > 0 THEN p.after - 1 ELSE 0,
             since |-> IF start \/ p.state = "playing" THEN 0 ELSE p.since + 1]
StreamWrite(p) ==
    IF p.done = 0 /\ p.state = "playing" THEN p
    ELSE LET start == p.after = 1
             queued == IF p.done > 0 THEN p.queue ELSE p.queue + 1
         IN [state |-> IF start THEN "playing" ELSE p.state,
             queue |-> queued,
             done  |-> IF start THEN 0 ELSE IF p.state = "stopped" THEN queued
                       ELSE IF p.done > 0 THEN p.done - 1 ELSE 0,
             after |-> IF p.after > 0 THEN p.after - 1 ELSE 0,
             since |-> IF start \/ p.state = "playing" THEN 0 ELSE p.since + 1]

(* playStop: the next sound is gathered again before it is played.         *)
PlayStop(p) == [p EXCEPT !.state = "stopped", !.done = p.queue, !.after = AudioPlayAfter, !.since = 0]

(* The device plays a buffer; with the last one the source stops.          *)
BufferPlayed(k) ==
    /\ auRun = "run" /\ al[k].state = "playing" /\ al[k].done < al[k].queue
    /\ al' = [al EXCEPT ![k].done = @ + 1, ![k].since = 0,
                ![k].state = IF al[k].done + 1 = al[k].queue THEN "stopped" ELSE "playing"]
    /\ UNCHANGED <<AudioDaemon, AudioPulse, AudioSend, cl>>

SilenceLasts(k) ==
    /\ auRun = "run" /\ cl[k].silent = "short" /\ cl' = [cl EXCEPT ![k].silent = "long"]
    /\ UNCHANGED <<AudioDaemon, AudioPulse, AudioSend, al>>

(* Silence is played for three seconds, then the player is stopped.        *)
AudioOpSilent(k) ==
    /\ cl' = [cl EXCEPT ![k].silent = IF @ = "no" THEN "short" ELSE @]
    /\ al' = [al EXCEPT ![k] = IF cl[k].silent # "long" THEN StreamWrite(@)
                              ELSE IF @.state = "playing" THEN PlayStop(@) ELSE @]

(* A block is decoded (an encoded one may give nothing) and written.       *)
AudioOpData(k) ==
    /\ cl' = [cl EXCEPT ![k].silent = "no", ![k].need = 0]
    /\ \/ al' = [al EXCEPT ![k] = StreamWrite(@)]
       \/ cl[k].format = "OPUS" /\ UNCHANGED al

(* pushData: a command is taken when all of it is there; words that are no *)
(* command end the channel.                                                *)
AudioPushData(k) ==
    /\ auRun = "run" /\ auWire[k] # <<>> /\ ~cl[k].bad
    /\ auWire' = [auWire EXCEPT ![k] = Tail(@)]
    /\ LET m == Head(auWire[k]) need == cl[k].need IN
       \/ need = 0 /\ m.w = "silent" /\ AudioOpSilent(k)
       \/ /\ need = 0 /\ m.w = "head"
          /\ cl' = [cl EXCEPT ![k].need = m.n] /\ UNCHANGED al
       \/ need # 0 /\ m.w = "body" /\ need = m.n /\ AudioOpData(k)
       \/ /\ IF need = 0 THEN m.w = "body" ELSE m.w # "body" \/ m.n # need
          /\ cl' = [cl EXCEPT ![k].bad = TRUE] /\ UNCHANGED al
    /\ UNCHANGED <<AudioDaemon, AudioPulse, auJobs, auMade, auOverlap>>

AudioNext ==
    \/ \E k \in AudioConns :
        \/ AudioConnectChannel(k) \/ AudioRetryConnect(k) \/ AudioConnectFails(k)
        \/ AudioDisconnectChannel(AudioPath[k])
        \/ AudioRemoteHandshake(k) \/ EngineInit(k) \/ DataReadyNotify(k)
        \/ AudioSendFails(k) \/ AudioPushData(k) \/ BufferPlayed(k) \/ SilenceLasts(k)
        \/ \E i \in 1..AudioMaxJobs[k] : SendPacket(k, i)
    \/ \E id \in {"context", "server", "stream"} : PulseNotify(id) \/ PulseWaitEnds(id)
    \/ PulseContextFails \/ AudioStop
-----------------------------------------------------------------------------
(* Types; processed buffers are some of the queued ones, and the source    *)
(* never plays while sound is still gathered (streamWrite, playStop).      *)
AudioTypeOK ==
    /\ auRun \in {"run", "ub", "stopped"}
    /\ \A k \in AudioConns : auConn[k] \in {"none", "connecting", "shake", "engine", "live", "closed", "failed"}
    /\ puWaiter \in AudioConns \union {AudioNone}
    /\ \A k \in AudioConns :
        /\ al[k].state \in {"none", "initial", "playing", "stopped"}
        /\ al[k].done <= al[k].queue
        /\ al[k].state = "playing" => al[k].after = 0

(* The client never takes the words of one packet for another's as long as *)
(* no two coroutines of dataReadyNotify wrote at the same time.            *)
AudioFramed == auOverlap \/ \A k \in AudioConns : cl[k].bad => cl[k].format = "refused"

(* Both ends use the same coding: sound is only sent in the format the     *)
(* client answered (remoteHandshake, audioOpInit).                         *)
AudioSameFormat ==
    \A k \in auList : auConn[k] = "live" => cl[k].format = auEncoder[k]

(* The daemon's thread sleeps in a wait only for an answer that can still  *)
(* come or has come, unless the sound server has died in between           *)
(* (WaitNotify keeps one id for all the waits).                            *)
PulseWaitHasCause ==
    puWaiter # AudioNone /\ ~puFailed => puOps # {} /\ (puId = "none" \/ puId \in puOps)

(* The path of the sound: the daemon's thread wakes for the next block, the*)
(* block is framed, and in the format the client agreed to.                *)
AudioSound ==
    AudioTypeOK /\ AudioFramed /\ AudioSameFormat /\ PulseWaitHasCause

(* The player starts by itself when enough sound is there: the plugin      *)
(* makes it with "buffer sec, and autoplay".                               *)
(* The code does not keep it (README, section 5).                          *)
AudioAutoplay == \A k \in AudioConns : al[k].since >= AudioPlayAfter => al[k].state = "playing"
=============================================================================
