--------------------------- MODULE DisplaySession ---------------------------
(***************************************************************************)
(* ltsm_session_display (session_display/ltsm_display_session.cpp): the    *)
(* user's process that starts the X server and the session program, offers *)
(* the session's commands on the session bus and ends all of them.         *)
(*                                                                         *)
(* Two threads: main runs the io_context (timer, signals, posted stop),    *)
(* the other one the bus loop, which serves one request at a time.  stop   *)
(* is called by either, and again by the destructor.                       *)
(***************************************************************************)
EXTENDS Naturals, FiniteSets

CONSTANTS DsCommands,   \* commands of runSessionCommandAsync
          DsOldFile,    \* whether an address file of an earlier session may be there
          DsFailures    \* bound: steps of the start that fail, signals, lost buses

ASSUME DsAssumption ==
    /\ DsOldFile \subseteq BOOLEAN /\ DsFailures \in Nat
    /\ DsCommands \intersect {"xorg", "sess", "dialog"} = {}

VARIABLES dsMain,     \* where main is
          dsBus,      \* where the thread of the bus is
          dsProc,     \* each process: "none", "up", "termed", "ended"
          dsChilds,   \* childs_
          dsLock,     \* who holds lock_childs_
          dsTimer,    \* timer_childs_ is armed
          dsSignals,  \* signals_ is waited for
          dsPosted,   \* stop is posted to the io_context
          dsLeave,    \* leaveEventLoop has been called
          dsFile,     \* the file with the address of the session bus
          dsAddress,  \* dbus_address_
          dsLeft      \* failures left

dsVars == <<dsMain, dsBus, dsProc, dsChilds, dsLock, dsTimer, dsSignals, dsPosted,
            dsLeave, dsFile, dsAddress, dsLeft>>
dsLoopVars == <<dsChilds, dsLock, dsTimer, dsSignals, dsPosted, dsLeave>>

DsProcs == {"xorg", "sess", "dialog"} \cup DsCommands
Running(p) == dsProc[p] \in {"up", "termed"}
DsStart(p) == [dsProc EXCEPT ![p] = "up"]
DsTerm(P) == [p \in DsProcs |-> IF p \in P /\ dsProc[p] = "up" THEN "termed" ELSE dsProc[p]]
DsFail == dsLeft > 0 /\ dsLeft' = dsLeft - 1
-----------------------------------------------------------------------------
(* The constructors.                                                       *)

(* readXauthFile throws when the cookie of the display is not in the file. *)
ReadXauthFile ==
    /\ dsMain = "begin"
    /\ \/ dsMain' = "display" /\ dsLeft' = dsLeft
       \/ dsMain' = "unwind" /\ DsFail
    /\ UNCHANGED <<dsBus, dsProc, dsLoopVars, dsFile, dsAddress>>

(* startX11Display: without the program there is no display.               *)
StartX11Display ==
    /\ dsMain = "display"
    /\ \/ dsMain' = "waitx" /\ dsProc' = DsStart("xorg") /\ dsLeft' = dsLeft
       \/ dsMain' = "unwind" /\ dsProc' = dsProc /\ DsFail
    /\ UNCHANGED <<dsBus, dsLoopVars, dsFile, dsAddress>>

(* waitX11DisplayStarting: a connection within xvfb:timeout, or not.       *)
WaitX11DisplayStarting ==
    /\ dsMain = "waitx"
    /\ \/ dsMain' = "clear" /\ Running("xorg") /\ dsLeft' = dsLeft
       \/ dsMain' = "unwind" /\ ~Running("xorg") /\ dsLeft' = dsLeft
       \/ dsMain' = "unwind" /\ DsFail
    /\ UNCHANGED <<dsBus, dsProc, dsLoopVars, dsFile, dsAddress>>

(* FAULT: the address of an earlier session is left in place.              *)
FaultClearSessionDbusAddress ==
    /\ dsMain = "clear"
    /\ dsMain' = "session"
    /\ UNCHANGED <<dsBus, dsProc, dsLoopVars, dsFile, dsAddress, dsLeft>>

(* clearSessionDbusAddress.                                                *)
ClearSessionDbusAddress ==
    /\ dsMain = "clear"
    /\ dsFile' = "none"
    /\ dsMain' = "session"
    /\ UNCHANGED <<dsBus, dsProc, dsLoopVars, dsAddress, dsLeft>>

(* startX11Session: the session program, or no path to it.                 *)
StartX11Session ==
    /\ dsMain = "session"
    /\ \/ dsMain' = "waitbus" /\ dsProc' = DsStart("sess") /\ dsLeft' = dsLeft
       \/ dsMain' = "unwind" /\ dsProc' = dsProc /\ DsFail
    /\ UNCHANGED <<dsBus, dsLoopVars, dsFile, dsAddress>>

(* waitSessionDbusAddress and the connection to the bus.                   *)
WaitSessionDbusAddress ==
    /\ dsMain = "waitbus"
    /\ \/ /\ dsFile # "none"
          /\ dsAddress' = dsFile /\ dsMain' = "start" /\ dsLeft' = dsLeft
       \/ /\ dsMain' = "unwind" /\ dsAddress' = dsAddress /\ DsFail
       \/ /\ ~Running("sess") /\ dsFile = "none"
          /\ dsMain' = "unwind" /\ UNCHANGED <<dsAddress, dsLeft>>
    /\ UNCHANGED <<dsBus, dsProc, dsLoopVars, dsFile>>
-----------------------------------------------------------------------------
(* start: the io_context and the thread of the bus.                        *)

Start ==
    /\ dsMain = "start"
    /\ dsSignals' = TRUE /\ dsTimer' = TRUE
    /\ dsBus' = "loop" /\ dsMain' = "run"
    /\ UNCHANGED <<dsProc, dsChilds, dsLock, dsPosted, dsLeave, dsFile, dsAddress, dsLeft>>

(* FAULT: only the X server is looked at.                                  *)
FaultTimerChildsAliveCheck ==
    /\ dsMain = "run" /\ dsTimer
    /\ dsTimer' = FALSE
    /\ IF Running("xorg")
       THEN dsMain' = "reap" /\ dsPosted' = dsPosted
       ELSE dsMain' = "run" /\ dsPosted' = TRUE
    /\ UNCHANGED <<dsBus, dsProc, dsChilds, dsLock, dsSignals, dsLeave, dsFile, dsAddress, dsLeft>>

(* timerChildsAliveCheck: the X server or the session has ended.           *)
TimerChildsAliveCheck ==
    /\ dsMain = "run" /\ dsTimer
    /\ dsTimer' = FALSE
    /\ IF Running("xorg") /\ Running("sess")
       THEN dsMain' = "reap" /\ dsPosted' = dsPosted
       ELSE dsMain' = "run" /\ dsPosted' = TRUE
    /\ UNCHANGED <<dsBus, dsProc, dsChilds, dsLock, dsSignals, dsLeave, dsFile, dsAddress, dsLeft>>

(* removeChildsEnded, and the timer is armed again.                        *)
RemoveChildsEnded ==
    /\ dsMain = "reap" /\ dsLock = "none"
    /\ dsChilds' = {p \in dsChilds : Running(p)}
    /\ dsTimer' = TRUE
    /\ dsMain' = "run"
    /\ UNCHANGED <<dsBus, dsProc, dsLock, dsSignals, dsPosted, dsLeave, dsFile, dsAddress, dsLeft>>

(* A signal, or the posted stop, is served by main.                        *)
SignalStop ==
    /\ dsMain = "run" /\ dsSignals /\ DsFail
    /\ dsSignals' = FALSE
    /\ dsMain' = "stop"
    /\ UNCHANGED <<dsBus, dsProc, dsChilds, dsLock, dsTimer, dsPosted, dsLeave, dsFile, dsAddress>>

PostedStop ==
    /\ dsMain = "run" /\ dsPosted
    /\ dsPosted' = FALSE
    /\ dsMain' = "stop"
    /\ UNCHANGED <<dsBus, dsProc, dsChilds, dsLock, dsTimer, dsSignals, dsLeave, dsFile, dsAddress, dsLeft>>

(* The bus: one request at a time; those already received are still served *)
(* when the loop has been told to end.                                     *)
BusFree == dsBus = "loop"

(* runSessionCommandAsync.                                                 *)
RunSessionCommandAsync ==
    /\ BusFree /\ dsLock = "none"
    /\ \E p \in DsCommands :
          /\ dsProc[p] = "none"
          /\ dsProc' = DsStart(p)
          /\ dsChilds' = dsChilds \cup {p}
    /\ UNCHANGED <<dsMain, dsBus, dsLock, dsTimer, dsSignals, dsPosted, dsLeave, dsFile, dsAddress, dsLeft>>

(* runSessionCommandSync (runSessionZenity, setSessionKeyboardLayout): the *)
(* thread waits until the program ends.                                    *)
RunSessionCommandSync ==
    /\ BusFree /\ dsProc["dialog"] = "none"
    /\ dsProc' = DsStart("dialog")
    /\ dsBus' = "dialog"
    /\ UNCHANGED <<dsMain, dsLoopVars, dsFile, dsAddress, dsLeft>>

SyncReturns ==
    /\ dsBus = "dialog" /\ ~Running("dialog")
    /\ dsBus' = "loop"
    /\ UNCHANGED <<dsMain, dsProc, dsLoopVars, dsFile, dsAddress, dsLeft>>

(* serviceShutdown calls stop in the thread of the bus.                    *)
ServiceShutdown ==
    /\ BusFree
    /\ dsBus' = "stop"
    /\ UNCHANGED <<dsMain, dsProc, dsLoopVars, dsFile, dsAddress, dsLeft>>

(* The loop ends: left, or thrown out by an error of the bus.              *)
BusLoopEnds ==
    /\ dsBus = "loop"
    /\ \/ dsLeave /\ UNCHANGED <<dsPosted, dsLeft>>
       \/ ~dsLeave /\ DsFail /\ dsPosted' = TRUE
    /\ dsBus' = "left"
    /\ UNCHANGED <<dsMain, dsProc, dsChilds, dsLock, dsTimer, dsSignals, dsLeave, dsFile, dsAddress>>
-----------------------------------------------------------------------------
(* stop, by main, by the bus, or by the destructor.                        *)

Stopper(w) == IF w = "bus" THEN dsBus ELSE dsMain
Goes(w, at) == IF w = "bus" THEN dsBus' = at /\ dsMain' = dsMain
               ELSE dsMain' = at /\ dsBus' = dsBus
(* What follows stop: the loop of the bus, the io_context, or ~SessionProcess. *)
After(w) == IF w = "bus" THEN "loop" ELSE "run"

(* leaveEventLoop and the two cancels.                                     *)
StopCancels(w) ==
    /\ Stopper(w) \in {"stop", "dtor"}
    /\ dsLeave' = TRUE /\ dsSignals' = FALSE /\ dsTimer' = FALSE
    /\ Goes(w, IF Stopper(w) = "dtor" THEN "dtorkill" ELSE "kill")
    /\ UNCHANGED <<dsProc, dsChilds, dsLock, dsPosted, dsFile, dsAddress, dsLeft>>

(* SIGTERM to the X server and to the session.                             *)
StopKills(w) ==
    /\ Stopper(w) \in {"kill", "dtorkill"}
    /\ dsProc' = DsTerm({"xorg", "sess"})
    /\ Goes(w, IF Stopper(w) = "dtorkill" THEN "dtorlock" ELSE "lock")
    /\ UNCHANGED <<dsLoopVars, dsFile, dsAddress, dsLeft>>

StopLocks(w) ==
    /\ Stopper(w) \in {"lock", "dtorlock"} /\ dsLock = "none"
    /\ dsLock' = w
    /\ Goes(w, IF Stopper(w) = "dtorlock" THEN "dtorchilds" ELSE "childs")
    /\ UNCHANGED <<dsProc, dsChilds, dsTimer, dsSignals, dsPosted, dsLeave, dsFile, dsAddress, dsLeft>>

(* FAULT: without children stop returns and keeps the lock.                *)
FaultStopChilds(w) ==
    /\ Stopper(w) \in {"childs", "dtorchilds"} /\ dsLock = w
    /\ dsChilds = {}
    /\ Goes(w, IF Stopper(w) = "dtorchilds" THEN "unwind" ELSE After(w))
    /\ UNCHANGED <<dsProc, dsLoopVars, dsFile, dsAddress, dsLeft>>

(* The children, one after the other: SIGTERM and wait; then clear.        *)
StopChilds(w) ==
    /\ Stopper(w) \in {"childs", "dtorchilds"} /\ dsLock = w
    /\ \A p \in dsChilds : dsProc[p] # "termed"
    /\ IF \E p \in dsChilds : dsProc[p] = "up"
       THEN /\ \E p \in dsChilds : dsProc[p] = "up" /\ dsProc' = DsTerm({p})
            /\ UNCHANGED <<dsMain, dsBus, dsChilds, dsLock>>
       ELSE /\ dsChilds' = {} /\ dsLock' = "none" /\ dsProc' = dsProc
            /\ Goes(w, IF Stopper(w) = "dtorchilds" THEN "unwind" ELSE After(w))
    /\ UNCHANGED <<dsTimer, dsSignals, dsPosted, dsLeave, dsFile, dsAddress, dsLeft>>

(* ioc_.run returns when nothing is waited for; the bus loop is left.      *)
RunReturns ==
    /\ dsMain = "run" /\ ~dsTimer /\ ~dsSignals /\ ~dsPosted
    /\ dsLeave' = TRUE
    /\ dsMain' = "join"
    /\ UNCHANGED <<dsBus, dsProc, dsChilds, dsLock, dsTimer, dsSignals, dsPosted, dsFile, dsAddress, dsLeft>>

(* FAULT: the destructor does not stop once more.                          *)
FaultJoinBus ==
    /\ dsMain = "join" /\ dsBus = "left"
    /\ dsMain' = "unwind"
    /\ UNCHANGED <<dsBus, dsProc, dsLoopVars, dsFile, dsAddress, dsLeft>>

(* sdbus_job.join, then the destructor and its stop.                       *)
JoinBus ==
    /\ dsMain = "join" /\ dsBus = "left"
    /\ dsMain' = "dtor"
    /\ UNCHANGED <<dsBus, dsProc, dsLoopVars, dsFile, dsAddress, dsLeft>>

(* ~SessionProcess: the output is read to its end, and the end waited for. *)
(* The constructor's exceptions come here too, with nothing killed.        *)
WaitAndLogging ==
    /\ dsMain = "unwind" /\ ~Running("sess") /\ ~Running("xorg")
    /\ dsMain' = "exited"
    /\ UNCHANGED <<dsBus, dsProc, dsLoopVars, dsFile, dsAddress, dsLeft>>
-----------------------------------------------------------------------------
(* The programs.  A terminated one ends; so does a client of an X server   *)
(* that is gone; the others end when they like.                            *)
MustEnd(p) == dsProc[p] = "termed" \/ (dsProc[p] = "up" /\ p # "xorg" /\ ~Running("xorg"))
ProcEnds(p) ==
    /\ Running(p)
    /\ dsProc' = [dsProc EXCEPT ![p] = "ended"]
    /\ UNCHANGED <<dsMain, dsBus, dsLoopVars, dsFile, dsAddress, dsLeft>>

(* /etc/ltsm/xclients writes the address of the bus it has started.        *)
WriteAddress ==
    /\ Running("sess") /\ dsFile # "own" /\ dsMain = "waitbus"
    /\ dsFile' = "own"
    /\ UNCHANGED <<dsMain, dsBus, dsProc, dsLoopVars, dsAddress, dsLeft>>

DsInit ==
    /\ dsMain = "begin" /\ dsBus = "none"
    /\ dsProc = [p \in DsProcs |-> "none"]
    /\ dsChilds = {} /\ dsLock = "none"
    /\ dsTimer = FALSE /\ dsSignals = FALSE /\ dsPosted = FALSE /\ dsLeave = FALSE
    /\ dsFile \in {IF old THEN "old" ELSE "none" : old \in DsOldFile}
    /\ dsAddress = "none" /\ dsLeft = DsFailures

DsMainStep ==
    \/ ReadXauthFile \/ StartX11Display \/ WaitX11DisplayStarting
    \/ ClearSessionDbusAddress \/ StartX11Session \/ WaitSessionDbusAddress
    \/ Start \/ TimerChildsAliveCheck \/ RemoveChildsEnded \/ PostedStop
    \/ RunReturns \/ JoinBus \/ WaitAndLogging
DsStopStep(w) == StopCancels(w) \/ StopKills(w) \/ StopLocks(w) \/ StopChilds(w)
DsBusStep == SyncReturns \/ BusLoopEnds

DsNext ==
    \/ DsMainStep \/ SignalStop \/ DsBusStep
    \/ \E w \in {"main", "bus"} : DsStopStep(w)
    \/ RunSessionCommandAsync \/ RunSessionCommandSync \/ ServiceShutdown
    \/ WriteAddress \/ \E p \in DsProcs : ProcEnds(p)

(* Both threads go on, the io_context serves what is posted in its turn,   *)
(* only so many requests are pending when the bus loop is left, and what   *)
(* must end does.                                                          *)
DsFair ==
    /\ WF_dsVars(DsMainStep) /\ SF_dsVars(PostedStop) /\ SF_dsVars(DsBusStep)
    /\ WF_dsVars(\E w \in {"main", "bus"} : DsStopStep(w))
    /\ WF_dsVars(\E p \in DsProcs : MustEnd(p) /\ ProcEnds(p))
DsSpec == DsInit /\ [][DsNext]_dsVars /\ DsFair
-----------------------------------------------------------------------------
(* The types of the state.                                                 *)
DsTypeOK ==
    /\ dsMain \in {"begin", "display", "waitx", "clear", "session", "waitbus", "start", "run",
                   "reap", "stop", "kill", "lock", "childs", "join", "dtor", "dtorkill",
                   "dtorlock", "dtorchilds", "unwind", "exited"}
    /\ dsBus \in {"none", "loop", "dialog", "stop", "kill", "lock", "childs", "left"}
    /\ dsProc \in [DsProcs -> {"none", "up", "termed", "ended"}]
    /\ dsChilds \subseteq DsCommands
    /\ dsLock \in {"none", "main", "bus"}
    /\ dsLock = "bus" => dsBus = "childs"

(* Nothing outlives the process: although the bus thread may start a       *)
(* command after stop has ended the others, at the end neither the X       *)
(* server nor the session nor a command is running.                        *)
DsNothingLeft == dsMain = "exited" => \A p \in DsProcs : ~Running(p)

(* The bus the process joins is the one of its own session, never one      *)
(* whose address an earlier session of the display has left behind.        *)
DsOwnBus == dsAddress # "old"

(* What the display session leaves to the next one: no process of its own, *)
(* and no address of a bus that is not there.                              *)
DsLeavesClean == DsTypeOK /\ DsNothingLeft /\ DsOwnBus

(* Once started, the end of the X server or of the session, a stop by      *)
(* signal or by the service ends the process, whichever thread runs stop   *)
(* and however its cancels race with the timer that is being armed again.  *)
DsStopEnds ==
    (dsMain = "run" /\ (~Running("xorg") \/ ~Running("sess") \/ dsBus = "stop" \/ dsPosted))
        ~> dsMain = "exited"
=============================================================================
