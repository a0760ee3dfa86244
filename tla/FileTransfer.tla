---------------------------- MODULE FileTransfer ----------------------------
(***************************************************************************)
(* Drag & drop file transfer into one user session.  The client names      *)
(* files; the connector plans them and asks the service; the service asks  *)
(* the user, allows each file with a D-Bus signal, and waits for the       *)
(* temporary file that the connector's channel fills.                      *)
(*                                                                         *)
(*   main      the connector's RFB thread: systemTransferFiles             *)
(*   partials  detached connector threads: transferFilesPartial            *)
(*   tasks     service pool: transferFilesRequestCommunication             *)
(*   signals   TransferAllow signals on their way to the connector         *)
(*   xfer      one per temporary file: channel, file and service waiter    *)
(***************************************************************************)
EXTENDS Integers, Sequences, FiniteSets, SequencesExt

CONSTANTS
    Files,        \* client files
    Oversize,     \* those larger than transfer:file:max
    Drops,        \* the lists of files a client may drop at once
    MaxChannels,  \* channels that can be open at once (0xFF - 2 in the code)
    MaxPlans,     \* bound: how often each file is planned
    MaxDrops,     \* bound: drops by the client
    MaxRequests,  \* bound: requests the service accepts
    MaxTransfers, \* bound: temporary names handed out
    MaxThreads,   \* bound: partial threads
    MaxReturns    \* bound: times a connector comes back

ASSUME TransferAssumption ==
    /\ Oversize \subseteq Files
    /\ Drops \subseteq UNION {[1..n -> Files] : n \in 1..Cardinality(Files)}
    /\ MaxPlans \in [Files -> Nat]
    /\ {MaxChannels, MaxDrops, MaxRequests, MaxTransfers, MaxThreads, MaxReturns}
         \subseteq Nat

VARIABLES
    conn,     \* the connector: up, gone
    mode,     \* xvfb->mode is Connected
    main,     \* systemTransferFiles in progress
    planned,  \* _transferPlanned
    partials, \* transferFilesPartial threads
    tasks,    \* transferFilesRequestCommunication tasks
    signals,  \* TransferAllow signals not yet handled
    xfer,     \* transfers, by temporary name
    dst,      \* files present in the directory the user picked
    plans,    \* history: how often each file was planned
    drops,    \* how many drops the client has made
    returns   \* how many times a connector came back

vars == <<conn, mode, main, planned, partials, tasks, signals, xfer, dst, plans,
          drops, returns>>

-----------------------------------------------------------------------------
Names == 1..MaxTransfers
Rejected == 0      \* the empty temporary name of a rejecting signal

IdleMain == [pc |-> "idle", todo |-> <<>>, free |-> 0]
NoThread == [list |-> <<>>, left |-> <<>>, portion |-> 0, sent |-> <<>>]
NoRequest == [pc |-> "free", files |-> <<>>]

\* channel: the connector's File channel; tmp: the temporary file on disk,
\* gone once it was removed or moved;
\* wait: transferFileStartBackground
NoTransfer(f) == [file |-> f, channel |-> "none", tmp |-> "absent", wait |-> "none"]

\* a list that names no file twice
IsList(s) == s \in Seq(Files) /\ IsInjective(s)

TypeOK ==
    /\ conn \in {"up", "gone"} /\ mode \in BOOLEAN
    /\ main.pc \in {"idle", "plan", "send"} /\ main.free \in 0..MaxChannels
    /\ main.todo \in Seq(Files) /\ IsList(planned)
    /\ \A t \in 1..MaxThreads :
          /\ IsList(partials[t].list) /\ IsList(partials[t].left)
          /\ IsList(partials[t].sent) /\ partials[t].portion \in 0..MaxChannels
    /\ \A r \in 1..MaxRequests :
          /\ tasks[r].pc \in {"free", "question", "select", "reject", "copy", "done"}
          /\ IsList(tasks[r].files)
    /\ signals \in Seq([file : Files, name : Names \union {Rejected}])
    /\ \A i \in 1..Len(xfer) :
          xfer[i] \in [file : Files, channel : {"none", "open", "closed"},
                       tmp : {"absent", "part", "full", "gone"},
                       wait : {"none", "poll", "move", "saved", "lost", "failed", "nothing"}]
    /\ Len(xfer) <= MaxTransfers
    /\ dst \in SUBSET Files
    /\ \A f \in Files : plans[f] \in Nat
    /\ drops \in 0..MaxDrops /\ returns \in 0..MaxReturns

Init ==
    /\ conn = "up" /\ mode = TRUE
    /\ main = IdleMain
    /\ planned = <<>>
    /\ partials = [t \in 1..MaxThreads |-> NoThread]
    /\ tasks = [r \in 1..MaxRequests |-> NoRequest]
    /\ signals = <<>>
    /\ xfer = <<>>
    /\ dst = {}
    /\ plans = [f \in Files |-> 0]
    /\ drops = 0 /\ returns = 0

OpenChannels == {i \in 1..Len(xfer) : xfer[i].channel = "open"}
CountFreeChannels == MaxChannels - Cardinality(OpenChannels)

\* fault: planned files are not looked up
PlannableAgain(f) == f \notin Oversize

\* a file named by the client is planned unless it already is or is too large
Plannable(f) == f \notin Range(planned) /\ f \notin Oversize

-----------------------------------------------------------------------------
(***************************************************************************)
(* The connector's main thread.                                            *)
(***************************************************************************)
\* the client drops some files (sendSystemTransferFiles)
DropFiles(fs) ==
    /\ conn = "up" /\ main.pc = "idle" /\ drops < MaxDrops
    /\ \A f \in Range(fs) \ Oversize : plans[f] < MaxPlans[f]
    /\ drops' = drops + 1
    /\ main' = [main EXCEPT !.pc = "plan", !.todo = fs]
    /\ UNCHANGED <<conn, mode, planned, partials, tasks, signals, xfer, dst, plans, returns>>

PlanFile ==
    /\ main.pc = "plan" /\ main.todo # <<>>
    /\ LET f == Head(main.todo) IN
         IF Plannable(f)
         THEN /\ planned' = Append(planned, f)
              /\ plans' = [plans EXCEPT ![f] = @ + 1]
         ELSE UNCHANGED <<planned, plans>>
    /\ main' = [main EXCEPT !.todo = Tail(@)]
    /\ UNCHANGED <<conn, mode, partials, tasks, signals, xfer, dst, drops, returns>>

\* the free channels are counted before _lockTransfer is taken; with none
\* free the planned files stay planned and nothing is requested
CountChannels ==
    /\ main.pc = "plan" /\ main.todo = <<>>
    /\ main' = IF planned = <<>> \/ CountFreeChannels = 0 THEN IdleMain
               ELSE [main EXCEPT !.pc = "send", !.free = CountFreeChannels]
    /\ UNCHANGED <<conn, mode, planned, partials, tasks, signals, xfer, dst, plans,
                   drops, returns>>

\* busTransferFilesRequest: a task is posted, or the request is refused
\* (no permission); the caller ignores the answer
BusTransferFilesRequest(fs) ==
    \/ UNCHANGED tasks
    \/ \E r \in 1..MaxRequests :
         /\ tasks[r].pc = "free"
         /\ \A q \in 1..(r - 1) : tasks[q].pc # "free"
         /\ tasks' = [tasks EXCEPT ![r] = [pc |-> "question", files |-> fs]]

\* the whole planned list is requested, the files of earlier drops included
SendRequest ==
    /\ main.pc = "send"
    /\ Len(planned) <= main.free
    /\ BusTransferFilesRequest(planned)
    /\ main' = IdleMain
    /\ UNCHANGED <<conn, mode, planned, partials, signals, xfer, dst, plans, drops, returns>>

\* more files than channels: a thread sends them in portions
StartPartial(t) ==
    /\ main.pc = "send"
    /\ Len(planned) > main.free
    /\ partials[t].left = <<>>
    /\ partials' = [partials EXCEPT ![t] =
          [list |-> planned, left |-> planned,
           portion |-> CountFreeChannels \div 3, sent |-> <<>>]]
    /\ main' = IdleMain
    /\ UNCHANGED <<conn, mode, planned, tasks, signals, xfer, dst, plans, drops, returns>>

\* fault: the first file of the next portion is skipped
RangesNextSkipping(s, n) == SubSeq(s, n + 2, Len(s))

\* rangesNext: what is left after the next n files
RangesNext(s, n) == SubSeq(s, n + 1, Len(s))

\* every five seconds, when a portion's worth of channels is free; a portion
\* of no files is sent for ever
PartialSend(t) ==
    /\ partials[t].left # <<>>
    /\ CountFreeChannels >= partials[t].portion
    /\ LET n == partials[t].portion
           left == partials[t].left
           portion == SubSeq(left, 1, IF n < Len(left) THEN n ELSE Len(left)) IN
         /\ BusTransferFilesRequest(portion)
         /\ partials' = [partials EXCEPT ![t].left = RangesNext(@, n),
                                         ![t].sent = @ \o portion]
    /\ UNCHANGED <<conn, mode, main, planned, signals, xfer, dst, plans, drops, returns>>

-----------------------------------------------------------------------------
(***************************************************************************)
(* The service's task for one request: two dialogs, then the files.        *)
(***************************************************************************)
Finished == [pc |-> "done", files |-> <<>>]

\* a task goes on while it has files
Proceed(r, task) ==
    tasks' = [tasks EXCEPT ![r] = IF task.files = <<>> THEN Finished ELSE task]

\* --question: only the exit status 256 is a no; a dialog that could not be
\* shown counts as a yes
AnswerQuestion(r) ==
    /\ tasks[r].pc = "question"
    /\ \/ Proceed(r, [tasks[r] EXCEPT !.pc = "reject"])
       \/ tasks' = [tasks EXCEPT ![r].pc = "select"]
    /\ UNCHANGED <<conn, mode, main, planned, partials, signals, xfer, dst, plans,
                   drops, returns>>

\* --file-selection: cancelled, no directory, or a directory
SelectDirectory(r) ==
    /\ tasks[r].pc = "select"
    /\ \E next \in {"reject", "copy"} : Proceed(r, [tasks[r] EXCEPT !.pc = next])
    /\ UNCHANGED <<conn, mode, main, planned, partials, signals, xfer, dst, plans,
                   drops, returns>>

\* a signal nobody listens to is lost
Emit(s) == signals' = IF conn = "up" THEN Append(signals, s) ELSE signals

\* emitTransferReject: an empty name for every file of the request
EmitReject(r) ==
    /\ tasks[r].pc = "reject"
    /\ Emit([file |-> Head(tasks[r].files), name |-> Rejected])
    /\ Proceed(r, [tasks[r] EXCEPT !.files = Tail(@)])
    /\ UNCHANGED <<conn, mode, main, planned, partials, xfer, dst, plans, drops, returns>>

\* transferFileCopyAllow: a fresh temporary name and a signal, or nothing at
\* all when the target exists
CopyAllow(r) ==
    /\ tasks[r].pc = "copy"
    /\ LET f == Head(tasks[r].files) IN
         IF f \in dst THEN UNCHANGED <<signals, xfer>>
         ELSE /\ Len(xfer) < MaxTransfers
              /\ xfer' = Append(xfer, NoTransfer(f))
              /\ Emit([file |-> f, name |-> Len(xfer) + 1])
    /\ Proceed(r, [tasks[r] EXCEPT !.files = Tail(@)])
    /\ UNCHANGED <<conn, mode, main, planned, partials, dst, plans, drops, returns>>

\* no space: the files that are left are neither allowed nor rejected
CopyNoSpace(r) ==
    /\ tasks[r].pc = "copy"
    /\ tasks' = [tasks EXCEPT ![r] = Finished]
    /\ UNCHANGED <<conn, mode, main, planned, partials, signals, xfer, dst, plans,
                   drops, returns>>

-----------------------------------------------------------------------------
(***************************************************************************)
(* onTransferAllow and the transfer itself.                                *)
(***************************************************************************)
\* fault: the file is not taken off the plan
ErasePlannedKept(f) == planned

\* erase at the place where the file was found
ErasePlanned(f) == RemoveAt(planned, CHOOSE i \in DOMAIN planned : planned[i] = f)

\* createChannel fails when every channel is busy; the answer is ignored and
\* busTransferFileStarted is called all the same
StartTransfer(i) ==
    xfer' = [xfer EXCEPT ![i].channel = IF CountFreeChannels > 0 THEN "open" ELSE "none",
                         ![i].wait = "poll"]

OnTransferAllow ==
    /\ signals # <<>>
    /\ signals' = Tail(signals)
    /\ LET s == Head(signals) IN
         IF s.file \notin Range(planned) THEN UNCHANGED <<planned, xfer>>
         ELSE /\ planned' = ErasePlanned(s.file)
              /\ IF s.name = Rejected THEN UNCHANGED xfer ELSE StartTransfer(s.name)
    /\ UNCHANGED <<conn, mode, main, partials, tasks, dst, plans, drops, returns>>

\* the channel creates the temporary file and in the end has written all of
\* it; it stays open, since its reader never sees the end of a file
ChannelData(i) ==
    /\ xfer[i].channel = "open"
    /\ xfer[i].tmp \in {"absent", "part"}
    /\ xfer' = [xfer EXCEPT ![i].tmp = IF @ = "absent" THEN "part" ELSE "full"]
    /\ UNCHANGED <<conn, mode, main, planned, partials, tasks, signals, dst, plans,
                   drops, returns>>

\* the client cannot read the file, or the channel is destroyed
ChannelFails(i) ==
    /\ xfer[i].channel = "open"
    /\ xfer' = [xfer EXCEPT ![i].channel = "closed"]
    /\ UNCHANGED <<conn, mode, main, planned, partials, tasks, signals, dst, plans,
                   drops, returns>>

\* fault: a lost connection is not noticed
LostConnUnnoticed(i) == FALSE

LostConn(i) == ~mode

\* transferFileComplete polls every 250 ms: the size first, then the mode
PollComplete(i) ==
    /\ xfer[i].wait = "poll"
    /\ \/ /\ xfer[i].tmp = "full"
          /\ xfer' = [xfer EXCEPT ![i].wait = "move"]
       \/ /\ xfer[i].tmp # "full"
          /\ LostConn(i)
          /\ xfer' = [xfer EXCEPT ![i].wait = "lost",
                                  ![i].tmp = IF @ = "part" THEN "gone" ELSE @]
    /\ UNCHANGED <<conn, mode, main, planned, partials, tasks, signals, dst, plans,
                   drops, returns>>

\* rename replaces whatever the target has become since CopyAllow looked
MoveRename(i) ==
    /\ xfer[i].wait = "move"
    /\ dst' = dst \union {xfer[i].file}
    /\ xfer' = [xfer EXCEPT ![i].wait = "saved", ![i].tmp = "gone"]
    /\ UNCHANGED <<conn, mode, main, planned, partials, tasks, signals, plans, drops, returns>>

\* another device: the file is copied and the temporary one removed, also
\* when the copy failed; the user is told "Transfer Complete" either way
MoveCopy(i) ==
    /\ xfer[i].wait = "move"
    /\ \/ dst' = dst \union {xfer[i].file} /\ xfer[i].file \notin dst
          /\ xfer' = [xfer EXCEPT ![i].wait = "saved", ![i].tmp = "gone"]
       \/ UNCHANGED dst
          /\ xfer' = [xfer EXCEPT ![i].wait = "nothing", ![i].tmp = "gone"]
    /\ UNCHANGED <<conn, mode, main, planned, partials, tasks, signals, plans, drops, returns>>

\* any other rename error: logged, the temporary file stays
MoveFails(i) ==
    /\ xfer[i].wait = "move"
    /\ xfer' = [xfer EXCEPT ![i].wait = "failed"]
    /\ UNCHANGED <<conn, mode, main, planned, partials, tasks, signals, dst, plans,
                   drops, returns>>

-----------------------------------------------------------------------------
(***************************************************************************)
(* The connection.                                                         *)
(***************************************************************************)
\* the connector process ends and takes its plan, threads and channels along
ConnectorEnds ==
    /\ conn = "up"
    /\ conn' = "gone"
    /\ main' = IdleMain /\ planned' = <<>> /\ signals' = <<>>
    /\ partials' = [t \in DOMAIN partials |-> NoThread]
    /\ xfer' = [i \in DOMAIN xfer |->
                  IF xfer[i].channel = "open" THEN [xfer[i] EXCEPT !.channel = "closed"]
                  ELSE xfer[i]]
    /\ UNCHANGED <<mode, tasks, dst, plans, drops, returns>>

\* busConnectorTerminated, or the pings of a connector that still runs go
\* unanswered
SessionOffline ==
    /\ mode
    /\ mode' = FALSE
    /\ UNCHANGED <<conn, main, planned, partials, tasks, signals, xfer, dst, plans,
                   drops, returns>>

\* busConnectorConnected by the user's next connector
ConnectorReturns ==
    /\ conn = "gone" /\ returns < MaxReturns
    /\ conn' = "up" /\ mode' = TRUE /\ returns' = returns + 1
    /\ UNCHANGED <<main, planned, partials, tasks, signals, xfer, dst, plans, drops>>

-----------------------------------------------------------------------------
ConnectorStep ==
    \/ PlanFile \/ CountChannels \/ SendRequest \/ OnTransferAllow
    \/ \E t \in 1..MaxThreads : StartPartial(t) \/ PartialSend(t)

TaskStep(r) ==
    AnswerQuestion(r) \/ SelectDirectory(r) \/ EmitReject(r)
    \/ CopyAllow(r) \/ CopyNoSpace(r)

WaiterStep(i) == PollComplete(i) \/ MoveRename(i) \/ MoveCopy(i) \/ MoveFails(i)

Next ==
    \/ \E fs \in Drops : DropFiles(fs)
    \/ ConnectorStep
    \/ \E r \in 1..MaxRequests : TaskStep(r)
    \/ \E i \in DOMAIN xfer : WaiterStep(i) \/ ChannelData(i) \/ ChannelFails(i)
    \/ ConnectorEnds \/ SessionOffline \/ ConnectorReturns

Spec == Init /\ [][Next]_vars

\* the poll timer fires again and again; users, clients and channels promise
\* nothing
FairSpec == Spec /\ WF_vars(\E i \in DOMAIN xfer : WaiterStep(i))

-----------------------------------------------------------------------------
\* however often a file is requested and allowed (a later drop requests the
\* earlier files again, portions overlap with it, a connector comes back while
\* an old dialog is still open), it is transferred at most once for each time
\* it was planned
Started(f) == {i \in DOMAIN xfer : xfer[i].file = f /\ xfer[i].wait # "none"}

OneTransferPerPlan == \A f \in Files : Cardinality(Started(f)) <= plans[f]

\* a partial thread requests each file of its list exactly once, in order
PartialCoversList ==
    \A t \in 1..MaxThreads : partials[t].sent \o partials[t].left = partials[t].list

(* A file that was dropped and allowed is sent at most once for each plan, *)
(* and the portions of a long list are all of it.                          *)
PlansKept == TypeOK /\ OneTransferPerPlan /\ PartialCoversList

\* "Transfer Complete" is said of files that are there.  It is not true when
\* the copy to another device fails.
ReportedIsSaved == \A i \in DOMAIN xfer : xfer[i].wait # "nothing"

\* when the session goes offline and stays so, every transfer the service
\* waits for is given up or moved to its place: no poll goes on for ever
Waiting(i) == xfer[i].wait \in {"poll", "move"}

WaitersEnd == <>[](~mode) => <>[](\A i \in DOMAIN xfer : ~Waiting(i))
=============================================================================
