---------------------------- MODULE ChannelLink -----------------------------
(***************************************************************************)
(* The LTSM channels of one connection (ChannelClient, ChannelListener and *)
(* the Connector threads): byte streams between a descriptor on the server *)
(* and one on the client, multiplexed over the RFB socket.                 *)
(*                                                                         *)
(* The server picks a channel id and plans the channel, the client opens   *)
(* its end and answers ChannelConnected, the server moves the plan to a    *)
(* running end and answers ChannelConnected in turn.  Each end then runs a *)
(* reader thread (local descriptor to network) and a writer thread.  An    *)
(* end that stops sends ChannelClose; the other end is destroyed by a      *)
(* detached thread.                                                        *)
(*                                                                         *)
(* These threads interleave: the threads that plan channels on the server  *)
(* (the bus thread and one per listener), the message loop of each side,   *)
(* the reader and the writer of each end, and the detached destroyers.     *)
(***************************************************************************)
EXTENDS Naturals, Sequences, FiniteSets, SequencesExt

CONSTANTS
    Creators,  \* server threads that plan channels
    MaxId,     \* last channel id before ChannelType::Reserved (0xFE)
    Routes,    \* modes of the two ends and the kind of the client connector
    MaxJobs,   \* bound: channels requested
    MaxFrames, \* bound: data frames read by one end of a channel
    MaxFaults, \* bound: local failures, hang-ups and bus requests
    Admin      \* whether busDestroyChannel is used

Ends == {"server", "client"}
Peer == [server |-> "client", client |-> "server"]
Ids == 1..MaxId
Jobs == 1..MaxJobs
Modes == {"ro", "wo", "rw"}

(* A route as createChannel accepts it: both ends may not only read, nor   *)
(* both only write.  A "proto" client end (fuse, audio, pcsc, pkcs11) has  *)
(* no threads of its own.                                                  *)
RouteType == {r \in [server : Modes, client : Modes, kind : {"fd", "proto"}] :
                r.server = r.client => r.server = "rw"}

ASSUME LinkAssumption ==
    /\ MaxId \in Nat \ {0} /\ MaxJobs \in Nat
    /\ MaxFrames \in Nat /\ MaxFaults \in Nat
    /\ Routes \subseteq RouteType /\ Admin \in BOOLEAN

VARIABLES
    scan,       \* where each creator is in its search for a free id
    planned,    \* channelsPlanned
    chans,      \* channels, by side and id
    net,        \* messages on the way to each side, in order
    destroyers, \* detached destroyChannel threads that have not yet run
    lockch,     \* the id whose destroyer holds lockch, 0 when it is free
    link,       \* "up", or the error that ended the session
    nextJob,    \* the next channel request
    sent,       \* history: frames each end has read from its descriptor
    written,    \* history: frames each end has written to its descriptor
    faults      \* faults so far, and whether the bus was among them

vars == <<scan, planned, chans, net, destroyers, lockch, link, nextJob,
          sent, written, faults>>

(***************************************************************************)
(* Ends of channels.                                                       *)
(***************************************************************************)
NoChannel == [job |-> 0, mode |-> "rw", kind |-> "fd", running |-> FALSE,
              connected |-> FALSE, rd |-> "none", wr |-> "none",
              queue |-> <<>>, eof |-> FALSE, stop |-> "none"]

(* ConnectorBase and its connectors, as constructed: threads started.      *)
NewChannel(e, job, route) ==
    LET fd == e = "server" \/ route.kind = "fd"
    IN  [NoChannel EXCEPT
            !.job = job, !.mode = route[e], !.running = TRUE,
            !.kind = IF fd THEN "fd" ELSE "proto",
            !.rd = IF fd /\ route[e] # "wo" THEN "loop" ELSE "none",
            !.wr = IF fd /\ route[e] # "ro" THEN "loop" ELSE "none"]

findChannel(e, id) == chans[e][id].job # 0
findPlanned(id) == SelectInSeq(planned, LAMBDA p : p.id = id)

Open(id, job, route) == [type |-> "open", id |-> id, job |-> job, route |-> route]
Connected(id, job, error) == [type |-> "connected", id |-> id, job |-> job, error |-> error]
Close(id, job) == [type |-> "close", id |-> id, job |-> job]
Error(id, job) == [type |-> "error", id |-> id, job |-> job]
Data(id, job, frame) == [type |-> "data", id |-> id, job |-> job, frame |-> frame]

FaultAnd(bus) ==
    /\ faults.n < MaxFaults
    /\ faults' = [n |-> faults.n + 1, bus |-> faults.bus \/ bus]
Fault == FaultAnd(FALSE)

(* createChannelUnix, createChannelFile, ... return false: the client may  *)
(* not open this resource, or the connector's factory threw.               *)
createChannelFails == Fault

(* createUnixConnector, createTcpConnector, ... throw: no such socket or   *)
(* file, connect or open failed.                                           *)
createConnectorThrows == Fault

NoScan == [pc |-> "idle", id |-> 0, job |-> 0]

Init ==
    /\ scan = [c \in Creators |-> NoScan]
    /\ planned = <<>>
    /\ chans = [e \in Ends |-> [id \in Ids |-> NoChannel]]
    /\ net = [e \in Ends |-> <<>>]
    /\ destroyers = [e \in Ends |-> {}]
    /\ lockch = [e \in Ends |-> 0]
    /\ link = "up"
    /\ nextJob = 1
    /\ sent = [j \in Jobs |-> [e \in Ends |-> 0]]
    /\ written = [j \in Jobs |-> [e \in Ends |-> <<>>]]
    /\ faults = [n |-> 0, bus |-> FALSE]

(***************************************************************************)
(* createChannel on the bus thread, createChannelAcceptFd on a listener's. *)
(* findChannel and findPlanned take their locks one after the other, and   *)
(* the id found is planned under a third lock.                             *)
(***************************************************************************)
BeginCreate(c) ==
    /\ link = "up" /\ scan[c].pc = "idle" /\ nextJob <= MaxJobs
    /\ \E r \in Routes :
        scan' = [scan EXCEPT ![c] =
                    [pc |-> "channels", id |-> 1, job |-> nextJob, route |-> r]]
    /\ nextJob' = nextJob + 1
    /\ UNCHANGED <<planned, chans, net, destroyers, lockch, link, sent, written, faults>>

(* Mutant: the search runs on to ChannelType::Reserved.                    *)
TryNextReserved(s) == IF s.id > MaxId THEN NoScan
                      ELSE [s EXCEPT !.id = @ + 1, !.pc = "channels"]

(* The id is busy: try the next, or give up when all channels are busy and *)
(* close the accepted socket.                                              *)
TryNext(s) == IF s.id = MaxId THEN NoScan
              ELSE [s EXCEPT !.id = @ + 1, !.pc = "channels"]

ScanChannels(c) ==
    /\ scan[c].pc = "channels" /\ lockch["server"] = 0
    /\ scan' = [scan EXCEPT ![c] = IF findChannel("server", @.id) THEN TryNext(@)
                                   ELSE [@ EXCEPT !.pc = "planned"]]
    /\ UNCHANGED <<planned, chans, net, destroyers, lockch, link, nextJob, sent, written, faults>>

ScanPlanned(c) ==
    /\ scan[c].pc = "planned"
    /\ scan' = [scan EXCEPT ![c] = IF findPlanned(@.id) # 0 THEN TryNext(@)
                                   ELSE [@ EXCEPT !.pc = "emplace"]]
    /\ UNCHANGED <<planned, chans, net, destroyers, lockch, link, nextJob, sent, written, faults>>

plannedEmplace(c) ==
    /\ scan[c].pc = "emplace"
    /\ planned' = Append(planned, [id |-> scan[c].id, job |-> scan[c].job,
                                   route |-> scan[c].route])
    /\ scan' = [scan EXCEPT ![c].pc = "send"]
    /\ UNCHANGED <<chans, net, destroyers, lockch, link, nextJob, sent, written, faults>>

sendSystemChannelOpen(c) ==
    /\ scan[c].pc = "send"
    /\ net' = [net EXCEPT !["client"] =
                Append(@, Open(scan[c].id, scan[c].job, scan[c].route))]
    /\ scan' = [scan EXCEPT ![c] = NoScan]
    /\ UNCHANGED <<planned, chans, destroyers, lockch, link, nextJob, sent, written, faults>>

(***************************************************************************)
(* The message loops.  A handler that looks up a channel waits for lockch. *)
(***************************************************************************)
Arrives(e, type) == link = "up" /\ net[e] # <<>> /\ Head(net[e]).type = type

(* Mutants: a busy id is answered as opened, or not answered.              *)
OpenBusyAs(reply) ==
    /\ Arrives("client", "open") /\ lockch["client"] = 0
    /\ LET m == Head(net["client"])
       IN  /\ net' = [client |-> Tail(net["client"]), server |-> net["server"] \o
                        (IF reply \/ ~ findChannel("client", m.id)
                         THEN <<Connected(m.id, m.job, FALSE)>> ELSE <<>>)]
           /\ chans' = IF findChannel("client", m.id) THEN chans
                       ELSE [chans EXCEPT !["client"][m.id] =
                                NewChannel("client", m.job, m.route)]
    /\ UNCHANGED <<scan, planned, destroyers, lockch, link, nextJob, sent, written, faults>>
OpenBusyAccepted == OpenBusyAs(TRUE)
OpenBusySilent == OpenBusyAs(FALSE)

(* systemChannelOpen on the client: an id in use, or a local resource that *)
(* cannot be opened, is answered with an error.                            *)
systemChannelOpen ==
    /\ Arrives("client", "open") /\ lockch["client"] = 0
    /\ LET m == Head(net["client"])
           rest == Tail(net["client"])
           Reply(error) == net' = [client |-> rest, server |->
                                    Append(net["server"], Connected(m.id, m.job, error))]
       IN  \/ /\ findChannel("client", m.id)
              /\ Reply(TRUE) /\ UNCHANGED <<chans, faults>>
           \/ /\ ~ findChannel("client", m.id)
              /\ createChannelFails
              /\ Reply(TRUE) /\ UNCHANGED chans
           \/ /\ ~ findChannel("client", m.id)
              /\ chans' = [chans EXCEPT !["client"][m.id] =
                            NewChannel("client", m.job, m.route)]
              /\ Reply(FALSE) /\ UNCHANGED faults
    /\ UNCHANGED <<scan, planned, destroyers, lockch, link, nextJob, sent, written>>

(* Mutant: ChannelConnected goes from the client to the server only.       *)
PlannedCreateSilent(m, rest, i) ==
    /\ planned' = RemoveAt(planned, i)
    /\ net' = [net EXCEPT !["server"] = rest]
    /\ chans' = IF m.error \/ findChannel("server", m.id) THEN chans
                ELSE [chans EXCEPT !["server"][m.id] =
                        [NewChannel("server", planned[i].job, planned[i].route)
                            EXCEPT !.connected = TRUE]]
    /\ UNCHANGED faults

(* systemChannelConnected on the server when the id is planned: the first  *)
(* plan with that id is taken off the list; the running end is made unless *)
(* the client failed, the id is in use or the local resource fails.  The   *)
(* new end's constructor sends ChannelConnected before it is registered.   *)
channelPlannedCreate(m, rest, i) ==
    /\ planned' = RemoveAt(planned, i)
    /\ \/ /\ m.error \/ findChannel("server", m.id)
          /\ net' = [net EXCEPT !["server"] = rest]
          /\ UNCHANGED <<chans, faults>>
       \/ /\ ~ m.error /\ ~ findChannel("server", m.id)
          /\ createConnectorThrows
          /\ net' = [net EXCEPT !["server"] = rest]
          /\ UNCHANGED chans
       \/ /\ ~ m.error /\ ~ findChannel("server", m.id)
          /\ net' = [server |-> rest, client |->
                        Append(net["client"], Connected(m.id, planned[i].job, FALSE))]
          /\ chans' = [chans EXCEPT !["server"][m.id] =
                [NewChannel("server", planned[i].job, planned[i].route)
                    EXCEPT !.connected = TRUE]]
          /\ UNCHANGED faults

(* setRemoteConnected, whatever the message's error field says.            *)
setRemoteConnected(e, m, rest) ==
    /\ chans' = IF findChannel(e, m.id)
                THEN [chans EXCEPT ![e][m.id].connected = TRUE] ELSE chans
    /\ net' = [net EXCEPT ![e] = rest]
    /\ UNCHANGED <<planned, faults>>

systemChannelConnected(e) ==
    /\ Arrives(e, "connected") /\ lockch[e] = 0
    /\ LET m == Head(net[e])
           rest == Tail(net[e])
           i == findPlanned(m.id)
       IN  IF e = "server" /\ i # 0 THEN channelPlannedCreate(m, rest, i)
           ELSE setRemoteConnected(e, m, rest)
    /\ UNCHANGED <<scan, destroyers, lockch, link, nextJob, sent, written>>

(* systemChannelClose starts a destroyer; ChannelError is only reported.   *)
systemChannelClose(e) ==
    /\ Arrives(e, "close")
    /\ LET m == Head(net[e])
       IN  destroyers' = [destroyers EXCEPT ![e] = @ \union {[id |-> m.id, by |-> m.job]}]
    /\ net' = [net EXCEPT ![e] = Tail(@)]
    /\ UNCHANGED <<scan, planned, chans, lockch, link, nextJob, sent, written, faults>>

systemChannelError(e) ==
    /\ Arrives(e, "error")
    /\ net' = [net EXCEPT ![e] = Tail(@)]
    /\ UNCHANGED <<scan, planned, chans, destroyers, lockch, link, nextJob, sent, written, faults>>

(* recvChannelData: what is wrong with the channel a frame is for.  Any    *)
(* answer but "up" is thrown, and rfbMessagesShutdown ends the session.    *)
Refusal(ch) ==
    CASE ch.job = 0       -> "channel not found"
      [] ~ ch.connected   -> "channel not connected"
      [] ~ ch.running     -> "channel not running"
      [] OTHER            -> "up"

(* pushData: a writer's queue takes the frame; an end that only reads skips *)
(* it; a protocol client handles the request and sends its reply at once.   *)
pushData(e, m) ==
    LET ch == chans[e][m.id]
        rest == [net EXCEPT ![e] = Tail(@)]
        reply == sent[ch.job][e] + 1
    IN  CASE ch.kind = "proto" ->
                /\ written' = [written EXCEPT ![ch.job][e] = Append(@, m)]
                /\ UNCHANGED chans
                /\ IF reply <= MaxFrames
                   THEN /\ sent' = [sent EXCEPT ![ch.job][e] = reply]
                        /\ net' = [rest EXCEPT ![Peer[e]] =
                                    Append(@, Data(m.id, ch.job, reply))]
                   ELSE net' = rest /\ UNCHANGED sent
          [] ch.wr # "none" ->
                /\ chans' = [chans EXCEPT ![e][m.id].queue = Append(@, m)]
                /\ net' = rest /\ UNCHANGED <<sent, written>>
          [] OTHER -> net' = rest /\ UNCHANGED <<chans, sent, written>>

rfbMessagesShutdown(e, why) ==
    /\ link' = why
    /\ chans' = [chans EXCEPT ![e] = [id \in Ids |-> [@[id] EXCEPT !.running = FALSE]]]
    /\ net' = [net EXCEPT ![e] = Tail(@)]
    /\ UNCHANGED <<sent, written>>

recvChannelData(e) ==
    /\ Arrives(e, "data") /\ lockch[e] = 0
    /\ LET m == Head(net[e])
           why == Refusal(chans[e][m.id])
       IN  IF why = "up" THEN pushData(e, m) /\ UNCHANGED link
           ELSE rfbMessagesShutdown(e, why)
    /\ UNCHANGED <<scan, planned, destroyers, lockch, nextJob, faults>>

Receive(e) ==
    \/ e = "client" /\ systemChannelOpen
    \/ systemChannelConnected(e)
    \/ systemChannelClose(e)
    \/ systemChannelError(e)
    \/ recvChannelData(e)

(***************************************************************************)
(* destroyChannel: a detached thread stops the end under lockch, gives its *)
(* threads 100 ms, and erases it, which joins them.                        *)
(***************************************************************************)
(* History: who stopped an end first.  A ChannelClose is stale when it was *)
(* sent for an earlier channel with the same id.                           *)
StoppedBy(ch, d) ==
    CASE ch.stop # "none"          -> ch.stop
      [] d.by = 0                  -> "own"
      [] d.by = ch.job             -> "peer"
      [] OTHER                     -> "stale"

DestroyBegin(e, d) ==
    /\ d \in destroyers[e] /\ lockch[e] = 0
    /\ destroyers' = [destroyers EXCEPT ![e] = @ \ {d}]
    /\ IF findChannel(e, d.id)
       THEN /\ chans' = [chans EXCEPT ![e][d.id].running = FALSE,
                                      ![e][d.id].stop = StoppedBy(chans[e][d.id], d)]
            /\ lockch' = [lockch EXCEPT ![e] = d.id]
       ELSE UNCHANGED <<chans, lockch>>
    /\ UNCHANGED <<scan, planned, net, link, nextJob, sent, written, faults>>

DestroyEnd(e) ==
    /\ lockch[e] # 0
    /\ LET ch == chans[e][lockch[e]]
       IN  ch.rd \in {"none", "ended"} /\ ch.wr \in {"none", "ended"}
    /\ chans' = [chans EXCEPT ![e][lockch[e]] = NoChannel]
    /\ lockch' = [lockch EXCEPT ![e] = 0]
    /\ UNCHANGED <<scan, planned, net, destroyers, link, nextJob, sent, written, faults>>

(* busDestroyChannel: the administrator's request.                         *)
onDestroyChannel(id) ==
    /\ Admin /\ link = "up" /\ FaultAnd(TRUE)
    /\ destroyers' = [destroyers EXCEPT !["server"] = @ \union {[id |-> id, by |-> 0]}]
    /\ UNCHANGED <<scan, planned, chans, net, lockch, link, nextJob, sent, written>>

(***************************************************************************)
(* loopReader.                                                             *)
(***************************************************************************)
(* readData with bytes available: one frame.                               *)
ReadFrame(e, id) ==
    LET ch == chans[e][id]
    IN  /\ ch.rd = "loop" /\ ch.running /\ ~ ch.eof
        /\ sent[ch.job][e] < MaxFrames
        /\ sent' = [sent EXCEPT ![ch.job][e] = @ + 1]
        /\ net' = [net EXCEPT ![Peer[e]] = Append(@, Data(id, ch.job, sent[ch.job][e] + 1))]
        /\ UNCHANGED <<scan, planned, chans, destroyers, lockch, link, nextJob, written, faults>>

(* The local peer hangs up.  hasData then answers 0 and readData takes     *)
(* that for "nothing yet": the read that would return 0 is never made.     *)
HangUp(e, id) ==
    LET ch == chans[e][id]
    IN  /\ ch.rd = "loop" /\ ~ ch.eof
        /\ Fault
        /\ chans' = [chans EXCEPT ![e][id].eof = TRUE]
        /\ UNCHANGED <<scan, planned, net, destroyers, lockch, link, nextJob, sent, written>>

(* poll, ioctl or read fails: the loop stops; buf keeps what it held and,  *)
(* when not empty, is sent once more (frame 0).                            *)
ReadFails(e, id) ==
    LET ch == chans[e][id]
    IN  /\ ch.rd = "loop" /\ ch.running
        /\ Fault
        /\ chans' = [chans EXCEPT ![e][id].running = FALSE, ![e][id].rd = "failed",
                                  ![e][id].stop = "own"]
        /\ \/ UNCHANGED net
           \/ net' = [net EXCEPT ![Peer[e]] = Append(@, Data(id, ch.job, 0))]
        /\ UNCHANGED <<scan, planned, destroyers, lockch, link, nextJob, sent, written>>

(* Left the loop: an error is reported, then ChannelClose is sent.         *)
ReaderEnds(e, id) ==
    LET ch == chans[e][id]
    IN  /\ ch.rd \in {"loop", "failed"} /\ ~ ch.running
        /\ chans' = [chans EXCEPT ![e][id].rd = "ended"]
        /\ net' = [net EXCEPT ![Peer[e]] =
                    @ \o (IF ch.rd = "failed" THEN <<Error(id, ch.job)>> ELSE <<>>)
                      \o <<Close(id, ch.job)>>]
        /\ UNCHANGED <<scan, planned, destroyers, lockch, link, nextJob, sent, written, faults>>

(***************************************************************************)
(* loopWriter.                                                             *)
(***************************************************************************)
(* Mutant: the frame written stays at the front of the queue.              *)
WriteKeepsFrame(e, id) ==
    LET ch == chans[e][id]
    IN  /\ ch.wr = "loop" /\ ch.running /\ ch.queue # <<>>
        /\ Len(written[ch.job][e]) <= MaxFrames
        /\ written' = [written EXCEPT ![ch.job][e] = Append(@, Head(ch.queue))]
        /\ UNCHANGED <<scan, planned, chans, net, destroyers, lockch, link, nextJob, sent, faults>>

writeData(e, id) ==
    LET ch == chans[e][id]
    IN  /\ ch.wr = "loop" /\ ch.running /\ ch.queue # <<>>
        /\ chans' = [chans EXCEPT ![e][id].queue = Tail(@)]
        /\ written' = [written EXCEPT ![ch.job][e] = Append(@, Head(ch.queue))]
        /\ UNCHANGED <<scan, planned, net, destroyers, lockch, link, nextJob, sent, faults>>

WriteFails(e, id) ==
    LET ch == chans[e][id]
    IN  /\ ch.wr = "loop" /\ ch.running /\ ch.queue # <<>>
        /\ Fault
        /\ chans' = [chans EXCEPT ![e][id].running = FALSE, ![e][id].wr = "failed",
                                  ![e][id].stop = "own", ![e][id].queue = Tail(@)]
        /\ UNCHANGED <<scan, planned, net, destroyers, lockch, link, nextJob, sent, written>>

(* Mutant: the queue is dropped when the loop ends.                        *)
DrainNothing(ch) == <<>>

(* The frames written once the loop is left: none after an error, all the  *)
(* queue otherwise.                                                        *)
Drained(ch) == IF ch.wr = "failed" THEN <<>> ELSE ch.queue

(* Mutants: both threads send ChannelClose; a writer never does.           *)
WriterAlwaysCloses(ch) == TRUE
WriterNeverCloses(ch) == FALSE

(* In a two-way channel the reader sends ChannelClose, not the writer.     *)
WriterCloses(ch) == ch.mode # "rw"

WriterEnds(e, id) ==
    LET ch == chans[e][id]
    IN  /\ ch.wr \in {"loop", "failed"} /\ ~ ch.running
        /\ chans' = [chans EXCEPT ![e][id].wr = "ended", ![e][id].queue = <<>>]
        /\ written' = [written EXCEPT ![ch.job][e] = @ \o Drained(ch)]
        /\ net' = [net EXCEPT ![Peer[e]] =
                    @ \o (IF ch.wr = "failed" THEN <<Error(id, ch.job)>> ELSE <<>>)
                      \o (IF WriterCloses(ch) THEN <<Close(id, ch.job)>> ELSE <<>>)]
        /\ UNCHANGED <<scan, planned, destroyers, lockch, link, nextJob, sent, faults>>

Create(c) ==
    \/ ScanChannels(c)
    \/ ScanPlanned(c)
    \/ plannedEmplace(c)
    \/ sendSystemChannelOpen(c)

Threads(e, id) ==
    \/ ReaderEnds(e, id)
    \/ writeData(e, id)
    \/ WriterEnds(e, id)

Environment(e, id) ==
    \/ ReadFrame(e, id)
    \/ HangUp(e, id)
    \/ ReadFails(e, id)
    \/ WriteFails(e, id)

Next ==
    \/ \E c \in Creators : BeginCreate(c) \/ Create(c)
    \/ \E e \in Ends : Receive(e)
    \/ \E e \in Ends : \E d \in destroyers[e] : DestroyBegin(e, d)
    \/ \E e \in Ends : DestroyEnd(e)
    \/ \E id \in Ids : onDestroyChannel(id)
    \/ \E e \in Ends, id \in Ids : Threads(e, id) \/ Environment(e, id)

Spec == Init /\ [][Next]_vars

(* The message loops poll every 5 ms or await the socket, the connector    *)
(* threads sleep at most 200 ms between turns, a detached thread is        *)
(* scheduled and a creator runs to its end: each is weakly fair.  The      *)
(* local descriptors owe nothing.                                          *)
Fairness ==
    /\ \A c \in Creators : WF_vars(Create(c))
    /\ \A e \in Ends :
        /\ WF_vars(Receive(e))
        /\ WF_vars(\E d \in destroyers[e] : DestroyBegin(e, d))
        /\ WF_vars(DestroyEnd(e))
        /\ \A id \in Ids : WF_vars(Threads(e, id))
FairSpec == Spec /\ Fairness

-----------------------------------------------------------------------------
Refusals == {"channel not found", "channel not connected", "channel not running"}

Frames == 0..MaxFrames

Messages ==
         [type : {"open"}, id : Ids, job : Jobs, route : Routes]
    \union [type : {"connected"}, id : Ids, job : Jobs, error : BOOLEAN]
    \union [type : {"close", "error"}, id : Ids, job : Jobs]
    \union [type : {"data"}, id : Ids, job : Jobs, frame : Frames]

ChannelType ==
    [job : 0..MaxJobs, mode : Modes, kind : {"fd", "proto"}, running : BOOLEAN,
     connected : BOOLEAN, rd : {"none", "loop", "failed", "ended"},
     wr : {"none", "loop", "failed", "ended"}, queue : Seq(Messages),
     eof : BOOLEAN, stop : {"none", "own", "peer", "stale"}]

(* The type invariant of the channel link.                                 *)
TypeOK ==
    /\ scan \in [Creators ->
            {NoScan} \union [pc : {"channels", "planned", "emplace", "send"},
                             id : Ids, job : Jobs, route : Routes]]
    /\ planned \in Seq([id : Ids, job : Jobs, route : Routes])
    /\ chans \in [Ends -> [Ids -> ChannelType]]
    /\ net \in [Ends -> Seq(Messages)]
    /\ destroyers \in [Ends -> SUBSET [id : Ids, by : 0..MaxJobs]]
    /\ lockch \in [Ends -> 0..MaxId]
    /\ link \in {"up"} \union Refusals
    /\ nextJob \in 1..(MaxJobs + 1)
    /\ sent \in [Jobs -> [Ends -> 0..MaxFrames]]
    /\ written \in [Jobs -> [Ends -> Seq(Messages)]]
    /\ faults \in [n : 0..MaxFaults, bus : BOOLEAN]

(* No data frame overtakes the handshake: recvChannelData never meets a    *)
(* channel that exists but has not had its ChannelConnected, which would   *)
(* end the whole session.  The server's own ChannelConnected, sent by the  *)
(* constructor before the reader starts, is what makes the client safe.    *)
ConnectedBeforeData == link # "channel not connected"

(* The two ends of a channel belong together: when both sides have id and  *)
(* the client's end is connected, they were made for the same request, so  *)
(* one local socket is never joined to another's remote resource.          *)
PairedEnds ==
    \A id \in Ids :
        findChannel("server", id) /\ findChannel("client", id)
            /\ chans["client"][id].connected
        => chans["server"][id].job = chans["client"][id].job

(* What an end writes to its descriptor is what the other end of the same  *)
(* request read, in order and without gaps, whatever closes, reuses of the *)
(* id and failures come between; a failed read may add one stale frame     *)
(* after them (readData leaves buf as it was and loopReader sends it).     *)
DataInOrder ==
    \A j \in Jobs, e \in Ends :
        LET w == written[j][e]
        IN  /\ \A i \in DOMAIN w :
                /\ w[i].job = j
                /\ w[i].frame = i \/ (w[i].frame = 0 /\ i = Len(w))
            /\ Len(SelectSeq(w, LAMBDA m : m.frame # 0)) <= sent[j][Peer[e]]

(* "all data write": an end stopped by the other end's ChannelClose has    *)
(* written every frame the other end read before its writer is done.       *)
DrainedOnClose ==
    \A e \in Ends, id \in Ids :
        LET ch == chans[e][id]
        IN  ch.job # 0 /\ ch.stop = "peer" /\ ch.wr = "ended" /\ link = "up"
            => Len(SelectSeq(written[ch.job][e], LAMBDA m : m.frame # 0))
                    = sent[ch.job][Peer[e]]

(* What is written at one end comes out of the other: not before it is     *)
(* there, in order, and to the last frame when the writer closes.          *)
DataSound == ConnectedBeforeData /\ DataInOrder /\ DrainedOnClose

(* A ChannelClose never closes a later channel that reuses the id, as long *)
(* as channels are only closed from their ends: the server frees an id     *)
(* after the client's ChannelClose, the last message of that end.          *)
NoStaleClose == ~ faults.bus => \A e \in Ends, id \in Ids : chans[e][id].stop # "stale"

(* The two ends of an id belong together in every state: of one job, each  *)
(* of its type, and no close reaches the end that took the id over.        *)
EndsMatch == TypeOK /\ PairedEnds /\ NoStaleClose

Has(e, id, j) == chans[e][id].job = j
Ended(e, id, j) == ~ Has(e, id, j) \/ link # "up"

(* A channel between two descriptors that stopped at one end, for whatever *)
(* reason, is eventually erased at both ends: the last thread of an end    *)
(* always sends ChannelClose and the other end answers with its own.  (A   *)
(* protocol end has no threads and sends none.)                            *)
StoppedIsRemoved ==
    \A e \in Ends, id \in Ids, j \in Jobs :
        (Has(e, id, j) /\ Has(Peer[e], id, j) /\ ~ chans[e][id].running
            /\ chans["client"][id].kind = "fd")
            ~> (Ended(e, id, j) /\ Ended(Peer[e], id, j))

(* Every plan is settled: the client answers each ChannelOpen, refused or  *)
(* not, so a planned id is never held for ever.                            *)
PlannedSettles ==
    \A j \in Jobs :
        (\E i \in DOMAIN planned : planned[i].job = j)
            ~> (link # "up" \/ \A i \in DOMAIN planned : planned[i].job # j)

(* No id is left behind: an end that was told to stop is removed, and an   *)
(* open that was asked for is answered or refused.                         *)
ChannelsSettle == StoppedIsRemoved /\ PlannedSettles

(* "eof": when the local peer of a reader hangs up, the reader ends and    *)
(* the channel is closed.                                                  *)
(* The code does not keep it (README, section 5).                          *)
EofClosesChannel ==
    \A e \in Ends, id \in Ids, j \in Jobs :
        (Has(e, id, j) /\ chans[e][id].eof) ~> Ended(e, id, j)
=============================================================================
