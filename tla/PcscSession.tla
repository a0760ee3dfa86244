---------------------------- MODULE PcscSession ----------------------------
(***************************************************************************)
(* The smart card proxy of a session (src/session_pcsc) with the plugin of *)
(* the remote client that drives the real readers (src/client/pcsc).       *)
(*                                                                         *)
(* Programs of the session connect to a local socket and speak the         *)
(* pcsc-lite protocol; every connection is a coroutine of ONE thread.  A   *)
(* command that needs the card is sent over one shared stream: send_lock_  *)
(* covers request and answer, trans_lock_ is held by a program from a      *)
(* successful BeginTransaction to its EndTransaction, and during Connect.  *)
(* Both are async_mutex: a counter and a queue of timer waits, and a wait  *)
(* that is aborted by a stop signal looks like a wait that was granted.    *)
(***************************************************************************)
EXTENDS AsyncMutex, SequencesExt, FiniteSets

CONSTANTS
    PcscClients,   \* connections of local programs
    PcscOps,       \* the commands each program uses
    PcscNames,     \* reader names
    PcscMaxCancels, \* Cancel commands of a behaviour
    PcscSlots,     \* PCSCLITE_MAX_READERS_CONTEXTS
    PcscNoOne      \* no client

ASSUME PcscAssumption ==
    /\ PcscNoOne \notin PcscClients
    /\ PcscSlots \in Nat \ {0}
    /\ IsFiniteSet(PcscNames)

VARIABLES
    psRun,      \* the daemon: "run", "spin" (in unlock), "ub", "stopped"
    psChannel,  \* remote_: "none", "opened", "up" (listening), "down", "reset"
    psError,    \* ec_ of the remote stream
    psClients,  \* clients_, in the order of their connection
    psState,    \* where the coroutine of a client is
    psCmd,      \* the request it works on
    psArg,      \* the argument of that request
    psContext,  \* context64_ is set
    psHandle,   \* handle64_ is set
    psReader,   \* reader_: the slot it points to, 0 is nullptr
    psTrans,    \* trans_lock_: queue_ counter, waiting timers, client_id
    psSend,     \* send_lock_: queue_ counter, waiting timers
    psReaders,  \* PcscLite::readers: the name in each slot, "" when unused
    psMap,      \* map_context_: clients whose context is registered
    psStops,    \* posted stop signals
    psCancels,  \* Cancel commands so far (bounded)
    psWire,     \* requests the remote client has not answered
    psAnswers,  \* answers the daemon has not read
    dvTxn,      \* the PC/SC service of the remote host: who has a transaction
    psStolen    \* history: a client was stopped while it queued for a lock

PcscDaemon == <<psRun, psChannel, psError, psClients>>
PcscLocal  == <<psState, psCmd, psArg, psContext, psHandle, psReader>>
PcscLocks  == <<psTrans, psSend>>
PcscTables == <<psReaders, psMap, psStops, psCancels>>
PcscStream == <<psWire, psAnswers>>
PcscVars   == <<PcscDaemon, PcscLocal, PcscLocks, PcscTables, PcscStream,
                dvTxn, psStolen>>

(* Requests that go to the card: by context, by handle, and the ones the   *)
(* daemon makes itself while it answers EstablishContext.                  *)
HandleOps == {"reconnect", "disconnect", "begin", "end", "transmit",
              "status", "control", "getattrib", "setattrib"}
RemoteOps == HandleOps \union {"establish", "list", "change", "release", "connect", "cancel"}
FaultTransOps == {"connect"}
TransOps  == {"connect", "begin"}

PcscStates == {"out", "idle", "transWait", "transGot", "sendWait", "sendGot",
               "sent", "ending", "gone"}
NoArg == [names |-> <<>>, slot |-> 0, of |-> PcscNoOne]

(* What a search from the front finds (std::find_if).                      *)
Least(S) == CHOOSE i \in S : \A j \in S : i <= j

(***************************************************************************)
(* trans_lock_ is a mutex that knows its holder.                           *)
(***************************************************************************)
(* Transaction::unlock does something only for the client that holds it.   *)
FaultTransLeave(t, c) == [MutexLeave(t) EXCEPT !.owner = PcscNoOne]
TransLeave(t, c) ==
    IF t.owner = c THEN [MutexLeave(t) EXCEPT !.owner = PcscNoOne] ELSE t
TransWoken(t, c) == IF t.owner = c THEN MutexWoken(t) ELSE {}
TransSpins(t, c) == t.owner = c /\ MutexSpins(t)

-----------------------------------------------------------------------------
All(v) == [c \in PcscClients |-> v]
FreeTrans == [n |-> 0, wait |-> <<>>, owner |-> PcscNoOne]
FreeSend == MutexFree
NoReaders == [s \in 1..PcscSlots |-> ""]

PcscInit ==
    /\ psRun = "run" /\ psChannel = "none" /\ psError = FALSE /\ psClients = <<>>
    /\ psState = All("out") /\ psCmd = All("none") /\ psArg = All(NoArg)
    /\ psContext = All(FALSE) /\ psHandle = All(FALSE) /\ psReader = All(0)
    /\ psTrans = FreeTrans /\ psSend = FreeSend
    /\ psReaders = NoReaders /\ psMap = {} /\ psStops = {} /\ psCancels = 0
    /\ psWire = <<>> /\ psAnswers = <<>> /\ dvTxn = PcscNoOne /\ psStolen = FALSE

(* The socket is tried five times; without success it stays closed.        *)
RetryConnect == psChannel' \in {"none", "opened"}

(* The versions are compared; after a failure the socket stays open and no *)
(* listener is started.                                                    *)
RemoteHandshake ==
    /\ psRun = "run" /\ psChannel = "opened"
    /\ psChannel' \in {"up", "down"}
    /\ UNCHANGED <<psRun, psError, psClients, PcscLocal, PcscLocks, PcscTables,
                   PcscStream, dvTxn, psStolen>>

(* connectChannel is refused while the socket is open; after a             *)
(* disconnectChannel remote_ is null and is dereferenced.                  *)
ConnectChannel ==
    /\ psRun = "run"
    /\ \/ psChannel = "none" /\ RetryConnect /\ UNCHANGED psRun
       \/ psChannel = "reset" /\ psRun' = "ub" /\ UNCHANGED psChannel
    /\ UNCHANGED <<psError, psClients, PcscLocal, PcscLocks, PcscTables,
                   PcscStream, dvTxn, psStolen>>

DisconnectChannel ==
    /\ psRun = "run" /\ psChannel = "up"
    /\ psChannel' = "reset"
    /\ UNCHANGED <<psRun, psError, psClients, PcscLocal, PcscLocks, PcscTables,
                   PcscStream, dvTxn, psStolen>>

(* The stream breaks: the reads and writes that follow throw.              *)
ChannelBreaks ==
    /\ psRun = "run" /\ psChannel = "up"
    /\ psChannel' = "down"
    /\ UNCHANGED <<psRun, psError, psClients, PcscLocal, PcscLocks, PcscTables,
                   PcscStream, dvTxn, psStolen>>

(* listenerHandler accepts a program.                                      *)
ListenerHandler(c) ==
    /\ psRun = "run" /\ psChannel \in {"up", "reset"} /\ psState[c] = "out"
    /\ psState' = [psState EXCEPT ![c] = "idle"]
    /\ psClients' = Append(psClients, c)
    /\ UNCHANGED <<psRun, psChannel, psError, psCmd, psArg, psContext, psHandle,
                   psReader, PcscLocks, PcscTables, PcscStream, dvTxn, psStolen>>
-----------------------------------------------------------------------------
(* The coroutine enters the lock that comes first for its request.         *)
EnterTrans(c) ==
    /\ psTrans' = LET t == MutexEnter(psTrans, c) IN
                  IF psTrans.n = 0 THEN [t EXCEPT !.owner = c] ELSE t
    /\ IF psTrans.n = 0
       THEN /\ psSend' = MutexEnter(psSend, c)
            /\ psState' = [psState EXCEPT ![c] = IF psSend.n = 0 THEN "sendGot" ELSE "sendWait"]
       ELSE /\ psState' = [psState EXCEPT ![c] = "transWait"]
            /\ UNCHANGED psSend

(* Fault: the request is sent without the lock.                            *)
FaultEnterSend(c) ==
    /\ psSend' = [psSend EXCEPT !.n = @ + 1]
    /\ psState' = [psState EXCEPT ![c] = "sendGot"]
    /\ UNCHANGED psTrans

EnterSend(c) ==
    /\ psSend' = MutexEnter(psSend, c)
    /\ psState' = [psState EXCEPT ![c] = IF psSend.n = 0 THEN "sendGot" ELSE "sendWait"]
    /\ UNCHANGED psTrans

(* A command is read, checked and handed to PcscRemote.                    *)
Ask(c, op, arg) ==
    /\ psCmd' = [psCmd EXCEPT ![c] = op]
    /\ psArg' = [psArg EXCEPT ![c] = arg]
    /\ IF op \in TransOps THEN EnterTrans(c) ELSE EnterSend(c)
    /\ UNCHANGED <<psRun, psContext, psHandle, psReader>>

(* replyError, then the command loop ends: transactionUnlock, and remote_  *)
(* is asked for an error, which is a null pointer after disconnectChannel. *)
Refuse(c) ==
    /\ psState' = [d \in PcscClients |->
         IF d = c THEN "ending"
         ELSE IF d \in TransWoken(psTrans, c) THEN "transGot" ELSE psState[d]]
    /\ psTrans' = TransLeave(psTrans, c)
    /\ psRun' = IF TransSpins(psTrans, c) THEN "spin"
                ELSE IF psChannel = "reset" THEN "ub" ELSE psRun
    /\ UNCHANGED <<psCmd, psArg, psContext, psHandle, psReader, psSend>>

Command(c, op) ==
    /\ psRun = "run" /\ psState[c] = "idle" /\ op \in PcscOps[c]
    /\ psCancels' = psCancels + (IF op = "cancel" THEN 1 ELSE 0)
    /\ UNCHANGED <<psChannel, psError, psClients, psReaders, psMap, psStops,
                   PcscStream, dvTxn, psStolen>>

RemoteThere == psChannel # "reset"

(* map_context_: the 32 bit contexts given to the programs.                *)
MakeContext64(c) == psMap \union {c}
FindContext32(c) == IF c \in psMap THEN c ELSE PcscNoOne
RemoveContext32(c) == psMap \ {c}

ProxyEstablishContext(c) ==
    /\ Command(c, "establish")
    /\ ~psContext[c]          \* pcsc-lite has one context per connection
    /\ IF RemoteThere THEN Ask(c, "establish", NoArg) ELSE Refuse(c)

ProxyReleaseContext(c) ==
    /\ Command(c, "release")
    /\ IF psContext[c] /\ RemoteThere THEN Ask(c, "release", NoArg) ELSE Refuse(c)

(* The reader is looked up in the table before the request is sent.        *)
ProxyConnect(c) ==
    /\ Command(c, "connect")
    /\ \E name \in PcscNames :
         LET slots == {s \in 1..PcscSlots : psReaders[s] = name} IN
         IF psContext[c] /\ slots # {} /\ RemoteThere
         THEN Ask(c, "connect",
                  [NoArg EXCEPT !.slot = Least(slots)])
         ELSE Refuse(c)

(* The commands on a handle: an unknown handle ends the program.           *)
ProxyHandle(c, op) ==
    /\ Command(c, op)
    /\ IF psHandle[c] /\ RemoteThere THEN Ask(c, op, NoArg) ELSE Refuse(c)

ProxyReconnect(c)        == ProxyHandle(c, "reconnect")
ProxyDisconnect(c)       == ProxyHandle(c, "disconnect")
ProxyBeginTransaction(c) == ProxyHandle(c, "begin")
ProxyEndTransaction(c)   == ProxyHandle(c, "end")
ProxyTransmit(c)         == ProxyHandle(c, "transmit")
ProxyStatus(c)           == ProxyHandle(c, "status")
ProxyControl(c)          == ProxyHandle(c, "control")
ProxyGetAttrib(c)        == ProxyHandle(c, "getattrib")
ProxySetAttrib(c)        == ProxyHandle(c, "setattrib")

(* Cancel names the context of any program (SCardCancel comes on another   *)
(* connection); findContext32 gives 0 for one that is not registered.      *)
ProxyCancel(c) ==
    /\ psCancels < PcscMaxCancels
    /\ Command(c, "cancel")
    /\ \E d \in PcscClients \ {c} :
         IF RemoteThere
         THEN Ask(c, "cancel", [NoArg EXCEPT !.of = FindContext32(d)])
         ELSE Refuse(c)

(* GetVersion, GetReaderState and the WaitReaderStateChange commands are   *)
(* answered from the daemon's own table (the timer they would start is     *)
(* commented out); the null pointer after disconnectChannel is met too.    *)
LocalAnswer(c) ==
    /\ Command(c, "readers")
    /\ IF RemoteThere THEN UNCHANGED <<psRun, PcscLocal, PcscLocks>> ELSE Refuse(c)

ProxyGetVersion(c)             == LocalAnswer(c)
ProxyGetReaderState(c)         == LocalAnswer(c)
ProxyReaderStateChangeStart(c) == LocalAnswer(c)
ProxyReaderStateChangeStop(c)  == LocalAnswer(c)

(* The program closes its connection between two commands.                 *)
ProgramLeaves(c) ==
    /\ psRun = "run" /\ psState[c] = "idle"
    /\ psState' = [psState EXCEPT ![c] = "ending"]
    /\ UNCHANGED <<PcscDaemon, psCmd, psArg, psContext, psHandle, psReader, PcscLocks,
                   PcscTables, PcscStream, dvTxn, psStolen>>
-----------------------------------------------------------------------------
Running == psRun \in {"run", "stopping"}

(* A granted wait is resumed by the loop: the holder of the transaction is *)
(* written here, then the send lock is entered.                            *)
TransactionLock(c) ==
    /\ Running /\ psState[c] = "transGot"
    /\ psTrans' = [psTrans EXCEPT !.owner = c]
    /\ psSend' = MutexEnter(psSend, c)
    /\ psState' = [psState EXCEPT ![c] = IF psSend.n = 0 THEN "sendGot" ELSE "sendWait"]
    /\ UNCHANGED <<PcscDaemon, psCmd, psArg, psContext, psHandle, psReader, PcscTables,
                   PcscStream, dvTxn, psStolen>>

SendRequest(c) ==
    /\ Running /\ psState[c] = "sendGot" /\ psChannel \in {"up", "reset"}
    /\ psState' = [psState EXCEPT ![c] = "sent"]
    /\ psWire' = Append(psWire, [from |-> c, op |-> psCmd[c]])
    /\ UNCHANGED <<PcscDaemon, psCmd, psArg, psContext, psHandle, psReader, PcscLocks,
                   PcscTables, psAnswers, dvTxn, psStolen>>

(* What every send function does once it has its answer: send_lock_ is     *)
(* left, trans_lock_ too after Connect and EndTransaction and by a program *)
(* that ends; waiters are woken; then either a further request is made, or *)
(* the program is answered and remote_ is asked for an error.              *)
Complete(c, alive, more, arg) ==
    LET leaves == psCmd[c] \in {"connect", "end"} \/ ~alive
        s == MutexLeave(psSend)
        woken == IF leaves THEN TransWoken(psTrans, c) ELSE {}
    IN
    /\ psSend' = IF more # "none" THEN MutexEnter(s, c) ELSE s
    /\ psTrans' = IF leaves THEN TransLeave(psTrans, c) ELSE psTrans
    /\ psState' = [d \in PcscClients |->
         IF d = c THEN IF more # "none" THEN IF s.n = 0 THEN "sendGot" ELSE "sendWait"
                       ELSE IF alive /\ ~psError' THEN "idle" ELSE "ending"
         ELSE IF d \in MutexWoken(psSend) THEN "sendGot"
         ELSE IF d \in woken THEN "transGot"
         ELSE psState[d]]
    /\ psCmd' = [psCmd EXCEPT ![c] = more]
    /\ psArg' = [psArg EXCEPT ![c] = arg]
    /\ psRun' = IF MutexSpins(psSend) \/ (leaves /\ TransSpins(psTrans, c)) THEN "spin"
                ELSE IF more = "none" /\ psChannel = "reset" THEN "ub"
                ELSE IF more = "none" /\ psError' THEN "stopping"
                ELSE psRun
    /\ UNCHANGED <<psChannel, psClients, dvTxn, psStolen>>

Done(c, alive) == Complete(c, alive, "none", NoArg)

(* The answer of a request is read: the next one in the stream, whoever    *)
(* asked for it.  A broken stream throws: ec_ is set and the result is an  *)
(* uninitialised value.                                                    *)
Answered(c, op, ok) ==
    /\ Running /\ psCmd[c] = op
    /\ \/ /\ psState[c] = "sent" /\ psChannel # "down" /\ psAnswers # <<>>
          /\ ok = Head(psAnswers).ok
          /\ psAnswers' = Tail(psAnswers)
          /\ UNCHANGED <<psError, psWire>>
       \/ /\ psState[c] \in {"sent", "sendGot"} /\ psChannel = "down"
          /\ psError' = TRUE
          /\ UNCHANGED <<psWire, psAnswers>>

KeepLocal == UNCHANGED <<psContext, psHandle, psReader, PcscTables>>

SendEstablishedContext(c) == \E ok \in BOOLEAN :
    /\ Answered(c, "establish", ok)
    /\ psContext' = [psContext EXCEPT ![c] = ok]
    /\ psMap' = IF ok THEN MakeContext64(c) ELSE psMap
    /\ IF ok THEN Complete(c, TRUE, "list", NoArg) ELSE Done(c, FALSE)
    /\ UNCHANGED <<psHandle, psReader, psReaders, psStops, psCancels>>

(* syncReaders, from one request to the next: the first listed name that   *)
(* is not in the table gets the first unused slot.                         *)
SyncNext(c, names) ==
    LET missing == {i \in 1..Len(names) : \A s \in 1..PcscSlots : psReaders'[s] # names[i]}
        unused == {s \in 1..PcscSlots : psReaders'[s] = ""}
    IN IF missing = {} \/ unused = {} THEN Done(c, TRUE)
       ELSE Complete(c, TRUE, "change",
                     [NoArg EXCEPT !.names = SubSeq(names, Least(missing), Len(names)),
                                   !.slot = Least(unused)])

(* Readers that are not listed any more lose their slot.                   *)
ReadersSyncNotFound(names) ==
    [s \in 1..PcscSlots |-> IF psReaders[s] \in Range(names) THEN psReaders[s] ELSE ""]

(* An exception leaves the count uninitialised: unless it happens to be 0, *)
(* the last name of an empty list is used.                                 *)
SendListReaders(c) == \E ok \in BOOLEAN :
    /\ Answered(c, "list", ok)
    /\ UNCHANGED <<psContext, psHandle, psReader, psMap, psStops, psCancels>>
    /\ IF psChannel = "down"
       THEN \/ psReaders' = NoReaders /\ Done(c, TRUE)
            \/ /\ psRun' = "ub"
               /\ UNCHANGED <<psChannel, psClients, psState, psCmd, psArg, PcscLocks,
                              psReaders, dvTxn, psStolen>>
       ELSE /\ psReaders' = ReadersSyncNotFound(Head(psAnswers).names)
            /\ SyncNext(c, Head(psAnswers).names)

SyncReaderStatus(c) == \E ok \in BOOLEAN :
    /\ Answered(c, "change", ok)
    /\ psReaders' = IF ok THEN [psReaders EXCEPT ![psArg[c].slot] = Head(psArg[c].names)]
                    ELSE psReaders
    /\ SyncNext(c, Tail(psArg[c].names))
    /\ UNCHANGED <<psContext, psHandle, psReader, psMap, psStops, psCancels>>

SendReleaseContext(c) == \E ok \in BOOLEAN :
    /\ Answered(c, "release", ok)
    /\ psContext' = [psContext EXCEPT ![c] = FALSE]
    /\ psMap' = RemoveContext32(c)
    /\ Done(c, FALSE)
    /\ UNCHANGED <<psHandle, psReader, psReaders, psStops, psCancels>>

SendConnect(c) == \E ok \in BOOLEAN :
    /\ Answered(c, "connect", ok)
    /\ psHandle' = [psHandle EXCEPT ![c] = ok]
    /\ psReader' = [psReader EXCEPT ![c] = IF ok THEN psArg[c].slot ELSE @]
    /\ Done(c, ok)
    /\ UNCHANGED <<psContext, PcscTables>>

(* Fault: the reader is let go even when the card is not.                  *)
FaultSendDisconnect(c) == \E ok \in BOOLEAN :
    /\ Answered(c, "disconnect", ok)
    /\ psHandle' = [psHandle EXCEPT ![c] = @ /\ ~ok]
    /\ psReader' = [psReader EXCEPT ![c] = 0]
    /\ Done(c, ok)
    /\ UNCHANGED <<psContext, PcscTables>>

SendDisconnect(c) == \E ok \in BOOLEAN :
    /\ Answered(c, "disconnect", ok)
    /\ psHandle' = [psHandle EXCEPT ![c] = @ /\ ~ok]
    /\ psReader' = [psReader EXCEPT ![c] = IF ok THEN 0 ELSE @]
    /\ Done(c, ok)
    /\ UNCHANGED <<psContext, PcscTables>>

(* The others change nothing but the locks: a failure ends the program.    *)
SendOnHandle(c, op) == \E ok \in BOOLEAN :
    Answered(c, op, ok) /\ Done(c, ok) /\ KeepLocal

SendReconnect(c)        == SendOnHandle(c, "reconnect")
SendBeginTransaction(c) == SendOnHandle(c, "begin")
SendEndTransaction(c)   == SendOnHandle(c, "end")
SendTransmit(c)         == SendOnHandle(c, "transmit")
SendStatus(c)           == SendOnHandle(c, "status")
SendControl(c)          == SendOnHandle(c, "control")
SendGetAttrib(c)        == SendOnHandle(c, "getattrib")
SendSetAttrib(c)        == SendOnHandle(c, "setattrib")

(* The program is answered and the stop of the context is posted.          *)
SendCancel(c) == \E ok \in BOOLEAN :
    /\ Answered(c, "cancel", ok)
    /\ psStops' = psStops \union {[find |-> TRUE, of |-> psArg[c].of]}
    /\ Done(c, TRUE)
    /\ UNCHANGED <<psContext, psHandle, psReader, psReaders, psMap, psCancels>>
-----------------------------------------------------------------------------
(* stopClientContext looks for the context, 0 matches the first program    *)
(* without one; its signal is posted once more.                            *)
StopClientContext(p) ==
    /\ Running /\ p \in psStops /\ p.find
    /\ LET found == {i \in 1..Len(psClients) : psContext[psClients[i]] = (p.of # PcscNoOne)
                                               /\ p.of \in {PcscNoOne, psClients[i]}}
       IN psStops' = (psStops \ {p}) \union
            (IF found = {} THEN {} ELSE {[find |-> FALSE, of |-> psClients[Least(found)]]})
    /\ UNCHANGED <<PcscDaemon, PcscLocal, PcscLocks, psReaders, psMap, psCancels, PcscStream,
                   dvTxn, psStolen>>

(* The stop signal aborts what the coroutine waits for; the next co_await  *)
(* throws.  An aborted lock wait counts as granted until then.             *)
StopSignal(p) ==
    /\ Running /\ p \in psStops /\ ~p.find
    /\ psStops' = psStops \ {p}
    /\ LET c == p.of
           queued == psState[c] = "sendWait"
           holds == queued \/ psState[c] \in {"sendGot", "sent"}
           s == IF queued THEN MutexAbort(psSend, c) ELSE psSend
       IN
       /\ psTrans' = IF psState[c] \in {"transWait", "transGot"}
                     THEN [MutexAbort(psTrans, c) EXCEPT !.owner = c] ELSE psTrans
       /\ psSend' = IF holds THEN MutexLeave(s) ELSE psSend
       /\ psState' = [d \in PcscClients |->
            IF d = c /\ psState[c] # "gone" THEN "ending"
            ELSE IF holds /\ d \in MutexWoken(s) THEN "sendGot" ELSE psState[d]]
       /\ psError' = (psError \/ holds)
       /\ psStolen' = (psStolen \/ psState[c] \in {"transWait", "sendWait"})
       /\ psRun' = IF psState[c] = "gone" THEN "ub"      \* the iterator is stale
                   ELSE IF holds /\ MutexSpins(s) THEN "spin" ELSE psRun
    /\ UNCHANGED <<psChannel, psClients, psCmd, psArg, psContext, psHandle, psReader,
                   psReaders, psMap, psCancels, PcscStream, dvTxn>>

EraseClient(c) == RemoveAt(psClients, CHOOSE i \in 1..Len(psClients) : psClients[i] = c)

(* Fault: the transaction of a program that left stays locked.             *)
FaultClientStoppedHandler(c) ==
    /\ Running /\ psState[c] = "ending"
    /\ psClients' = EraseClient(c)
    /\ psState' = [psState EXCEPT ![c] = "gone"]
    /\ UNCHANGED <<psRun, psChannel, psError, psCmd, psArg, psContext, psHandle, psReader,
                   PcscLocks, PcscTables, PcscStream, dvTxn, psStolen>>

ClientStoppedHandler(c) ==
    /\ Running /\ psState[c] = "ending"
    /\ psClients' = EraseClient(c)
    /\ psState' = [d \in PcscClients |->
         IF d = c THEN "gone"
         ELSE IF d \in TransWoken(psTrans, c) THEN "transGot" ELSE psState[d]]
    /\ psTrans' = TransLeave(psTrans, c)
    /\ psRun' = IF psChannel = "reset" THEN "ub"
                ELSE IF TransSpins(psTrans, c) THEN "spin" ELSE psRun
    /\ psCmd' = [psCmd EXCEPT ![c] = "none"] /\ psArg' = [psArg EXCEPT ![c] = NoArg]
    /\ psContext' = [psContext EXCEPT ![c] = FALSE]
    /\ psHandle' = [psHandle EXCEPT ![c] = FALSE]
    /\ psReader' = [psReader EXCEPT ![c] = 0]
    /\ UNCHANGED <<psChannel, psError, psSend, PcscTables, PcscStream, dvTxn, psStolen>>

(* stop(): by a signal, by dbus, or posted after an error: the clients and *)
(* the remote stream are destroyed and the process ends.                   *)
PcscStop ==
    /\ Running
    /\ psRun' = "stopped" /\ psChannel' = "none" /\ psError' = FALSE /\ psClients' = <<>>
    /\ psState' = All("out") /\ psCmd' = All("none") /\ psArg' = All(NoArg)
    /\ psContext' = All(FALSE) /\ psHandle' = All(FALSE) /\ psReader' = All(0)
    /\ psTrans' = FreeTrans /\ psSend' = FreeSend
    /\ psReaders' = NoReaders /\ psMap' = {} /\ psStops' = {} /\ psCancels' = 0
    /\ psWire' = <<>> /\ psAnswers' = <<>> /\ dvTxn' = PcscNoOne
    /\ UNCHANGED psStolen
-----------------------------------------------------------------------------
(* The remote client: pushData takes the requests in order and answers     *)
(* each before the next.                                                   *)
PcscLite(op, ok, names) ==
    /\ psChannel # "down" /\ psWire # <<>> /\ Head(psWire).op = op
    /\ psWire' = Tail(psWire)
    /\ psAnswers' = Append(psAnswers, [from |-> Head(psWire).from, ok |-> ok, names |-> names])
    /\ UNCHANGED <<PcscDaemon, PcscLocal, PcscLocks, PcscTables, psStolen>>

Asker == Head(psWire).from

PcscLiteEstablishContext == \E ok \in BOOLEAN :
    PcscLite("establish", ok, <<>>) /\ UNCHANGED dvTxn

PcscLiteReleaseContext ==
    /\ PcscLite("release", TRUE, <<>>)
    /\ dvTxn' = IF dvTxn = Asker THEN PcscNoOne ELSE dvTxn

PcscLiteListReaders == \E plugged \in SUBSET PcscNames :
    PcscLite("list", TRUE, SetToSeq(plugged)) /\ UNCHANGED dvTxn

PcscLiteGetStatusChange == \E ok \in BOOLEAN :
    PcscLite("change", ok, <<>>) /\ UNCHANGED dvTxn

PcscLiteConnect == \E ok \in BOOLEAN :
    PcscLite("connect", ok, <<>>) /\ UNCHANGED dvTxn

PcscLiteDisconnect == \E ok \in BOOLEAN :
    /\ PcscLite("disconnect", ok, <<>>)
    /\ dvTxn' = IF ok /\ dvTxn = Asker THEN PcscNoOne ELSE dvTxn

(* SCardBeginTransaction returns only when no other handle has one.        *)
PcscLiteBeginTransaction == \E ok \in BOOLEAN :
    /\ psWire # <<>> /\ dvTxn \in {PcscNoOne, Asker}
    /\ PcscLite("begin", ok, <<>>)
    /\ dvTxn' = IF ok THEN Asker ELSE dvTxn

PcscLiteEndTransaction ==
    /\ PcscLite("end", psWire # <<>> /\ dvTxn = Asker, <<>>)
    /\ dvTxn' = IF dvTxn = Asker THEN PcscNoOne ELSE dvTxn

PcscLiteOther(op) == \E ok \in BOOLEAN :
    PcscLite(op, ok, <<>>) /\ UNCHANGED dvTxn

PcscLiteReconnect == PcscLiteOther("reconnect")
PcscLiteTransmit  == PcscLiteOther("transmit")
PcscLiteStatus    == PcscLiteOther("status")
PcscLiteControl   == PcscLiteOther("control")
PcscLiteGetAttrib == PcscLiteOther("getattrib")
PcscLiteSetAttrib == PcscLiteOther("setattrib")
PcscLiteCancel    == PcscLiteOther("cancel")

PcscLiteCommand ==
    \/ PcscLiteEstablishContext \/ PcscLiteReleaseContext \/ PcscLiteListReaders
    \/ PcscLiteGetStatusChange \/ PcscLiteConnect \/ PcscLiteReconnect
    \/ PcscLiteDisconnect \/ PcscLiteBeginTransaction \/ PcscLiteEndTransaction
    \/ PcscLiteTransmit \/ PcscLiteStatus \/ PcscLiteControl \/ PcscLiteGetAttrib
    \/ PcscLiteSetAttrib \/ PcscLiteCancel
-----------------------------------------------------------------------------
ClientAction(c) ==
    \/ ProxyEstablishContext(c) \/ ProxyReleaseContext(c) \/ ProxyConnect(c)
    \/ ProxyReconnect(c) \/ ProxyDisconnect(c) \/ ProxyBeginTransaction(c)
    \/ ProxyEndTransaction(c) \/ ProxyTransmit(c) \/ ProxyStatus(c) \/ ProxyControl(c)
    \/ ProxyGetAttrib(c) \/ ProxySetAttrib(c) \/ ProxyCancel(c) \/ ProxyGetVersion(c)
    \/ ProxyGetReaderState(c) \/ ProxyReaderStateChangeStart(c)
    \/ ProxyReaderStateChangeStop(c)

RemoteAnswer(c) ==
    \/ SendEstablishedContext(c) \/ SendListReaders(c) \/ SyncReaderStatus(c)
    \/ SendReleaseContext(c) \/ SendConnect(c) \/ SendReconnect(c) \/ SendDisconnect(c)
    \/ SendBeginTransaction(c) \/ SendEndTransaction(c) \/ SendTransmit(c)
    \/ SendStatus(c) \/ SendControl(c) \/ SendGetAttrib(c) \/ SendSetAttrib(c)
    \/ SendCancel(c)

PcscNext ==
    \/ ConnectChannel \/ RemoteHandshake \/ DisconnectChannel \/ ChannelBreaks \/ PcscStop \/ PcscLiteCommand
    \/ \E c \in PcscClients :
         \/ ListenerHandler(c) \/ ClientAction(c) \/ ProgramLeaves(c)
         \/ TransactionLock(c) \/ SendRequest(c) \/ RemoteAnswer(c)
         \/ ClientStoppedHandler(c)
    \/ \E p \in psStops : StopClientContext(p) \/ StopSignal(p)
-----------------------------------------------------------------------------
PcscMutex == [n : Nat, wait : Seq(PcscClients)]

(* The state of the daemon has the shape of its classes.                   *)
PcscTypeOK ==
    /\ psRun \in {"run", "stopping", "spin", "ub", "stopped"}
    /\ psChannel \in {"none", "opened", "up", "down", "reset"}
    /\ psError \in BOOLEAN /\ psStolen \in BOOLEAN
    /\ psClients \in Seq(PcscClients) /\ IsInjective(psClients)
    /\ psState \in [PcscClients -> PcscStates]
    /\ psCmd \in [PcscClients -> RemoteOps \union {"none"}]
    /\ psContext \in [PcscClients -> BOOLEAN]
    /\ psHandle \in [PcscClients -> BOOLEAN]
    /\ psReader \in [PcscClients -> 0..PcscSlots]
    /\ psSend \in PcscMutex
    /\ psTrans \in [n : Nat, wait : Seq(PcscClients), owner : PcscClients \union {PcscNoOne}]
    /\ psReaders \in [1..PcscSlots -> PcscNames \union {""}]
    /\ psMap \subseteq PcscClients
    /\ dvTxn \in PcscClients \union {PcscNoOne}

(* While no error is recorded, the one request whose answer is due belongs *)
(* to the only client that reads the stream: send_lock_ covers the request *)
(* and its answer, so that a program never gets the answer of another.     *)
PcscAnswersMatch ==
    psRun = "run" /\ ~psError =>
        [i \in 1..Len(psAnswers \o psWire) |-> (psAnswers \o psWire)[i].from]
          \in {<<>>} \union {<<c>> : c \in {d \in PcscClients : psState[d] = "sent"}}

(* The readers' service of the remote host is never asked to begin a       *)
(* transaction while a program that is still served holds one (it would    *)
(* block the client's channel thread): trans_lock_ keeps the others out.   *)
(* Excepted are runs in which a program was stopped while it queued: it    *)
(* unlocks for the next one in the queue while another holds a transaction.*)
PcscDeviceFree ==
    psRun = "run" /\ ~psStolen /\ psWire # <<>> /\ Head(psWire).op = "begin" =>
        \/ dvTxn \in {PcscNoOne, Head(psWire).from}
        \/ psState[dvTxn] \in {"ending", "gone"}

(* trans_lock_ is never left taken by a program that is gone: a taken lock *)
(* has a holder that is served, or a waiter that has just been granted it, *)
(* also when programs were stopped in the queue.                           *)
PcscLockNotLeaked ==
    psRun = "run" /\ psTrans.n > 0 =>
        \/ psTrans.owner # PcscNoOne /\ psState[psTrans.owner] \notin {"out", "gone"}
        \/ \E c \in PcscClients : psState[c] = "transGot"

(* What the assertions "reader not connected" of Reconnect, Disconnect,    *)
(* BeginTransaction and Status rely on: an open handle has its reader.     *)
PcscReaderHeld == \A c \in PcscClients : psHandle[c] => psReader[c] # 0

(* Whoever leaves, and however: a transaction, the lock that guards it and *)
(* the reader of an open handle are held by programs that are served.      *)
PcscHoldsAccounted ==
    PcscTypeOK /\ PcscDeviceFree /\ PcscLockNotLeaked /\ PcscReaderHeld

(* "there's someone else waiting, let's skip one" (async_mutex::unlock):   *)
(* the loop that follows ends.                                             *)
PcscUnlockFindsWaiter == psRun # "spin"
=============================================================================
