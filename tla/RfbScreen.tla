------------------------------ MODULE RfbScreen ------------------------------
(***************************************************************************)
(* The screen of a session and the client's window: RFB::X11Server and     *)
(* RFB::ServerEncoder (src/librfb/server) with ClientApp and               *)
(* RFB::ClientDecoder (src/client/ltsm_client.cpp, src/librfb/client).     *)
(*                                                                         *)
(* The server has three threads, the main loop that sends frames, the one  *)
(* that reads the client's messages and the one that reads X events, and   *)
(* starts detached ones to resize the display and to tell the client.      *)
(* The main loop sends a frame under serverLock.  A screen of size n has   *)
(* the areas 1 .. n, each with a version of what is drawn there.           *)
(***************************************************************************)
EXTENDS Naturals, Sequences, FiniteSets

CONSTANTS
    RsSizes,     \* sizes of a screen: numbers from 1
    RsPrimary,   \* --geometry of the client, or 0
    RsDraws,     \* what is drawn in a behaviour
    RsResizes,   \* resizes, by the user or by a program of the session
    RsIncr       \* incremental requests of the client

ASSUME RsAssumption == RsSizes \subseteq Nat \ {0} /\ RsPrimary \in RsSizes \union {0}

VARIABLES
    rsX,       \* the X server: size, version of each area, the last request
    rsEv,      \* X events no one has read
    rsSrv,     \* X11Server's fields, and the encoder
    rsMain,    \* the main loop: "loop", or "send" with the frame
    rsRead,    \* the reading thread: "read", or what it does after its wait
    rsHelp,    \* the detached threads
    rsUp,      \* messages to the server
    rsDown,    \* messages to the client
    rsCli,     \* the client: window, negotiation, what its window shows
    rsSdl,     \* resizes in the SDL event queue
    rsLeft,    \* what the environment may still do; whether programs resized the
               \* screen, and whether a resize was asked for during another
    rsSwapped  \* history: the encoder was replaced while it encoded
RsServer == <<rsSrv, rsMain, rsRead, rsHelp>>
RsClient == <<rsCli, rsSdl>>
RsVars == <<rsX, rsEv, RsServer, rsUp, rsDown, RsClient, rsLeft, rsSwapped>>

RsAreas(n) == 1 .. n
RsAll == UNION {RsAreas(n) : n \in RsSizes}
(* The messages of both sides.                                             *)
RsRequest(incr, n) == [k |-> "update", incr |-> incr, size |-> n]
RsCont(n) == [k |-> "continuous", incr |-> FALSE, size |-> n]
RsDesktop(n) == [k |-> "desktop", incr |-> FALSE, size |-> n]
RsResize(status, err, n) == [k |-> "resize", status |-> status, err |-> err, n |-> n]
RsContinuous == [k |-> "continuous"]
RsSend(m) == rsDown' = Append(rsDown, m)

(* waitUpdateProcess: no frame is being sent.                              *)
WaitUpdateProcess == rsMain.at = "loop"

RsInit ==
    /\ \E n \in RsSizes :
        /\ rsX = [size |-> n, ver |-> [a \in RsAll |-> 0], last |-> 0]
        /\ rsSrv = [size |-> n, damage |-> {}, full |-> FALSE, region |-> {}, nego |-> FALSE, randr |-> 0,
                    cont |-> FALSE, enc |-> "raw", encodings |-> FALSE, run |-> TRUE]
        /\ rsCli = [win |-> n, nego |-> FALSE, started |-> FALSE, shown |-> [a \in RsAll |-> 0]]
    /\ rsEv = <<>> /\ rsMain = [at |-> "loop", areas |-> {}, ver |-> <<>>]
    /\ rsRead = "read" /\ rsHelp = {}
    /\ rsUp = <<>> /\ rsDown = <<>> /\ rsSdl = <<>> /\ rsSwapped = FALSE
    /\ rsLeft = [draw |-> RsDraws, resize |-> RsResizes, foreign |-> FALSE, again |-> FALSE, incr |-> RsIncr, id |-> 0]
-----------------------------------------------------------------------------
(* The programs of the session draw, and resize the screen.  An event      *)
(* carries the number of the last request of ours the X server has seen.   *)
XcbDraws ==
    /\ rsLeft.draw > 0 /\ rsLeft' = [rsLeft EXCEPT !.draw = @ - 1]
    /\ \E a \in RsAreas(rsX.size) :
        /\ rsX' = [rsX EXCEPT !.ver[a] = @ + 1]
        /\ rsEv' = Append(rsEv, [k |-> "damage", n |-> a, seq |-> 0])
    /\ UNCHANGED <<RsServer, rsUp, rsDown, RsClient, rsSwapped>>
XcbResized ==
    /\ rsLeft.resize > 0 /\ rsLeft' = [rsLeft EXCEPT !.resize = @ - 1, !.foreign = TRUE]
    /\ \E n \in RsSizes \ {rsX.size} :
        /\ rsX' = [rsX EXCEPT !.size = n]
        /\ rsEv' = Append(rsEv, [k |-> "crtc", n |-> n, seq |-> rsX.last])
    /\ UNCHANGED <<RsServer, rsUp, rsDown, RsClient, rsSwapped>>

(* xcbProcessingEvents: the thread takes the next event.                   *)
XEvent(k) == rsEv # <<>> /\ Head(rsEv).k = k /\ rsEv' = Tail(rsEv)

(* pollEvent, xcbDamageNotifyEvent: damage beyond the size as it is known  *)
(* is discarded, other damage joins damageRegion under serverLock.         *)
DamageKept(n) == IF n > rsSrv.size THEN {} ELSE {n}
XcbDamageNotify ==
    /\ XEvent("damage") /\ rsMain.at = "loop"
    /\ rsSrv' = [rsSrv EXCEPT !.damage = @ \union DamageKept(Head(rsEv).n)]
    /\ UNCHANGED <<rsX, rsMain, rsRead, rsHelp, rsUp, rsDown, RsClient, rsLeft, rsSwapped>>

(* pollEvent, updateGeometrySize: the size is asked for again; the event   *)
(* of a size that is no longer that is discarded.                          *)
(* xcbRandrScreenChangedEvent: whose resize it was is told by the number,  *)
(* and a thread is started that tells the client.                          *)
UpdateGeometrySize == rsX.size
XcbRandrScreenChanged ==
    /\ XEvent("crtc")
    /\ LET e == Head(rsEv)
           own == rsSrv.randr = e.seq /\ e.seq # 0
       IN /\ rsSrv' = [rsSrv EXCEPT !.size = UpdateGeometrySize]
          /\ rsHelp' = IF e.n = UpdateGeometrySize /\ rsSrv.encodings
                       THEN rsHelp \union {[k |-> IF own THEN "own" ELSE "runtime", n |-> rsX.size, id |-> 0]} ELSE rsHelp
    /\ rsX' = [rsX EXCEPT !.last = 0]
    /\ UNCHANGED <<rsMain, rsRead, rsUp, rsDown, RsClient, rsLeft, rsSwapped>>

(* The threads of xcbRandrScreenChangedEvent and of                        *)
(* serverRecvSetEncodingsEvent, which reads the size when it runs.  The    *)
(* client's own resize is answered while it is negotiated.                 *)
SendEncodingDesktopResize(t) ==
    /\ t \in rsHelp /\ t.k \in {"runtime", "own", "hello"}
    /\ rsHelp' = rsHelp \ {t}
    /\ CASE t.k = "hello" -> RsSend(RsResize(0, FALSE, rsSrv.size)) /\ UNCHANGED rsSrv
         [] t.k = "runtime" -> RsSend(RsResize(0, FALSE, t.n)) /\ UNCHANGED rsSrv
         [] t.k = "own" /\ rsSrv.nego -> RsSend(RsResize(1, FALSE, t.n)) /\ rsSrv' = [rsSrv EXCEPT !.nego = FALSE]
         [] OTHER -> UNCHANGED <<rsDown, rsSrv>>
    /\ UNCHANGED <<rsX, rsEv, rsMain, rsRead, rsUp, RsClient, rsLeft, rsSwapped>>

(* The thread of serverRecvDesktopSizeEvent waits for the frame being sent *)
(* and resizes the display: setRandrScreenSize, setDisplaySize.  The       *)
(* number of its request is stored when the answer has been read.          *)
SetDisplaySize(n, id) ==
    /\ rsX' = [rsX EXCEPT !.size = n, !.last = id]
    /\ rsEv' = Append(rsEv, [k |-> "crtc", n |-> n, seq |-> id])
SetRandrScreenSize(t) ==
    /\ t \in rsHelp /\ t.k = "resizer" /\ WaitUpdateProcess
    /\ \/ /\ rsLeft' = [rsLeft EXCEPT !.id = @ + 1]
          /\ SetDisplaySize(t.n, rsLeft.id + 1)
          /\ rsHelp' = (rsHelp \ {t}) \union {[t EXCEPT !.k = "resized", !.id = rsLeft.id + 1]}
          /\ UNCHANGED <<rsSrv, rsDown>>
       \/ /\ rsSrv' = [rsSrv EXCEPT !.nego = FALSE, !.randr = 0]
          /\ RsSend(RsResize(1, TRUE, rsSrv.size))
          /\ rsHelp' = rsHelp \ {t}
          /\ UNCHANGED <<rsX, rsEv, rsLeft>>
    /\ UNCHANGED <<rsMain, rsRead, rsUp, RsClient, rsSwapped>>
StoreRandrSequence(t) ==
    /\ t \in rsHelp /\ t.k = "resized"
    /\ rsSrv' = [rsSrv EXCEPT !.randr = t.id]
    /\ rsHelp' = rsHelp \ {t}
    /\ UNCHANGED <<rsX, rsEv, rsMain, rsRead, rsUp, rsDown, RsClient, rsLeft, rsSwapped>>
-----------------------------------------------------------------------------
(* rfbCommunication: a frame is due, nothing holds it back.                *)
FrameDue ==
    /\ rsSrv.run /\ (rsSrv.full \/ rsSrv.damage # {})
    /\ ~rsSrv.nego /\ rsSrv.region # {}

(* The frame's region is made of the damage, the screen as it is known and *)
(* the client's region, and copied; sendUpdateSafe marks the update.  The  *)
(* copy of a region the screen no longer has is refused as busy, and is    *)
(* no error; the copy of an empty one, without shared memory, is one.      *)
FrameRegion ==
    LET screen == RsAreas(rsSrv.size)
        d == IF rsSrv.full THEN screen ELSE screen \intersect rsSrv.damage
    IN IF rsSrv.region = screen THEN d ELSE d \intersect rsSrv.region
CopyRootImageRegion(areas) == IF areas \subseteq RsAreas(rsX.size) THEN "copied" ELSE "busy"
FrameBegins ==
    /\ rsMain.at = "loop" /\ FrameDue
    /\ rsX' = [rsX EXCEPT !.last = 0]
    /\ IF CopyRootImageRegion(FrameRegion) = "copied"
       THEN /\ rsMain' = [at |-> "send", areas |-> FrameRegion, ver |-> rsX.ver]
            /\ \E ok \in IF FrameRegion = {} THEN BOOLEAN ELSE {TRUE} :
                rsSrv' = [rsSrv EXCEPT !.full = FALSE, !.damage = FrameRegion, !.run = ok]
       ELSE rsSrv' = [rsSrv EXCEPT !.full = FALSE, !.damage = {}] /\ UNCHANGED rsMain
    /\ UNCHANGED <<rsEv, rsRead, rsHelp, rsUp, rsDown, RsClient, rsLeft, rsSwapped>>

(* The frame has been encoded and sent: damageRegion is reset and          *)
(* serverLock released.                                                    *)
FrameSent ==
    /\ rsMain.at = "send"
    /\ rsMain' = [rsMain EXCEPT !.at = "loop", !.areas = {}, !.ver = <<>>]
    /\ rsSrv' = [rsSrv EXCEPT !.damage = {}]
    /\ IF rsSrv.run THEN RsSend([k |-> "fb", areas |-> rsMain.areas, ver |-> rsMain.ver]) ELSE UNCHANGED rsDown
    /\ UNCHANGED <<rsX, rsEv, rsRead, rsHelp, rsUp, RsClient, rsLeft, rsSwapped>>
-----------------------------------------------------------------------------
RsTakes(k) == rsRead = "read" /\ rsSrv.run /\ rsUp # <<>> /\ Head(rsUp).k = k /\ rsUp' = Tail(rsUp)

(* recvSetEncodings: waitUpdateProcess, and what follows it: the answer to *)
(* ContinuousUpdates, the encoder for the client's encodings, and a thread *)
(* that tells the client the size.                                         *)
RecvSetEncodingsWaits ==
    /\ RsTakes("encodings") /\ WaitUpdateProcess
    /\ rsRead' = "encodings"
    /\ UNCHANGED <<rsX, rsEv, rsSrv, rsMain, rsHelp, rsDown, RsClient, rsLeft, rsSwapped>>
SelectClientEncoding == "zqoi"
RecvSetEncodings ==
    /\ rsRead = "encodings"
    /\ rsRead' = "read"
    /\ rsSrv' = [rsSrv EXCEPT !.enc = SelectClientEncoding, !.encodings = TRUE, !.cont = TRUE]
    /\ rsSwapped' = (rsSwapped \/ rsMain.at = "send")
    /\ RsSend(RsContinuous)
    /\ rsHelp' = rsHelp \union {[k |-> "hello", n |-> 0, id |-> 0]}
    /\ UNCHANGED <<rsX, rsEv, rsMain, rsUp, RsClient, rsLeft>>

(* serverRecvFBUpdateEvent: an incremental request while updates are       *)
(* continuous takes the client's region away.                              *)
RecvFramebufferUpdate ==
    /\ RsTakes("update") /\ rsMain.at = "loop"
    /\ LET m == Head(rsUp) IN
        rsSrv' = [rsSrv EXCEPT !.full = @ \/ ~m.incr,
                               !.region = IF m.incr /\ rsSrv.cont THEN {} ELSE RsAreas(m.size)]
    /\ UNCHANGED <<rsX, rsEv, rsMain, rsRead, rsHelp, rsDown, RsClient, rsLeft, rsSwapped>>

(* recvSetContinuousUpdates: LTSM's client only ever disables them.        *)
RecvSetContinuousUpdates ==
    /\ RsTakes("continuous") /\ rsMain.at = "loop"
    /\ rsSrv' = [rsSrv EXCEPT !.cont = FALSE, !.region = RsAreas(Head(rsUp).size)]
    /\ UNCHANGED <<rsX, rsEv, rsMain, rsRead, rsHelp, rsDown, RsClient, rsLeft, rsSwapped>>

(* serverRecvDesktopSizeEvent: the size it has already, or a negotiation.  *)
RecvSetDesktopSize ==
    /\ RsTakes("desktop")
    /\ LET n == Head(rsUp).size IN
       IF n = rsSrv.size THEN RsSend(RsResize(1, FALSE, n)) /\ UNCHANGED <<rsSrv, rsHelp, rsLeft>>
       ELSE /\ rsSrv' = [rsSrv EXCEPT !.nego = TRUE]
            /\ rsHelp' = rsHelp \union {[k |-> "resizer", n |-> n, id |-> 0]}
            /\ rsLeft' = [rsLeft EXCEPT !.again = @ \/ rsSrv.nego]
            /\ UNCHANGED rsDown
    /\ UNCHANGED <<rsX, rsEv, rsMain, rsRead, RsClient, rsSwapped>>
-----------------------------------------------------------------------------
(* rfbMessagesLoopAwait: encodings and pixel format, then a full request.  *)
FaultRfbMessagesLoop ==
    /\ ~rsCli.started /\ rsCli' = [rsCli EXCEPT !.started = TRUE]
    /\ rsUp' = <<RsRequest(FALSE, rsCli.win), [k |-> "encodings", incr |-> FALSE, size |-> 0]>>
    /\ UNCHANGED <<rsX, rsEv, RsServer, rsDown, rsSdl, rsLeft, rsSwapped>>
RfbMessagesLoop ==
    /\ ~rsCli.started /\ rsCli' = [rsCli EXCEPT !.started = TRUE]
    /\ rsUp' = <<[k |-> "encodings", incr |-> FALSE, size |-> 0], RsRequest(FALSE, rsCli.win)>>
    /\ UNCHANGED <<rsX, rsEv, RsServer, rsDown, rsSdl, rsLeft, rsSwapped>>

(* rfbRequestIncrUpdate, every 300 ms.                                     *)
RfbRequestIncrUpdate ==
    /\ rsCli.started /\ rsLeft.incr > 0 /\ rsLeft' = [rsLeft EXCEPT !.incr = @ - 1]
    /\ rsUp' = Append(rsUp, RsRequest(TRUE, rsCli.win))
    /\ UNCHANGED <<rsX, rsEv, RsServer, rsDown, RsClient, rsSwapped>>

CliTakes(k) == rsDown # <<>> /\ Head(rsDown).k = k /\ rsDown' = Tail(rsDown)
RecvContinuousUpdates ==
    /\ CliTakes("continuous")
    /\ rsUp' = Append(rsUp, RsCont(rsCli.win))
    /\ UNCHANGED <<rsX, rsEv, RsServer, RsClient, rsLeft, rsSwapped>>
RecvFBUpdateRegion(m) == [a \in RsAll |-> IF a \in m.areas THEN m.ver[a] ELSE rsCli.shown[a]]
RecvScreenUpdate ==
    /\ CliTakes("fb")
    /\ rsCli' = [rsCli EXCEPT !.shown = RecvFBUpdateRegion(Head(rsDown))]
    /\ UNCHANGED <<rsX, rsEv, RsServer, rsUp, rsSdl, rsLeft, rsSwapped>>

(* pushEventWindowResize: not for the size the window has.                 *)
FaultPushEventWindowResize(n) == rsSdl' = IF n = rsCli.win THEN rsSdl ELSE Append(rsSdl, n - 1)
PushEventWindowResize(n) == rsSdl' = IF n = rsCli.win THEN rsSdl ELSE Append(rsSdl, n)

(* clientRecvDecodingDesktopSizeEvent: the first is the negotiation, where *)
(* the client asks for the size it was given; the others, and the answers  *)
(* to its own requests, resize the window.                                 *)
DesktopSizeEvent(m) ==
    IF m.status = 0 /\ ~rsCli.nego
    THEN /\ rsCli' = [rsCli EXCEPT !.nego = TRUE]
         /\ rsUp' = IF RsPrimary \notin {0, rsCli.win} THEN Append(rsUp, RsDesktop(RsPrimary)) ELSE rsUp
         /\ UNCHANGED rsSdl
    ELSE PushEventWindowResize(m.n) /\ UNCHANGED <<rsCli, rsUp>>
RecvDecodingDesktopSize ==
    /\ CliTakes("resize") /\ DesktopSizeEvent(Head(rsDown))
    /\ UNCHANGED <<rsX, rsEv, RsServer, rsLeft, rsSwapped>>

(* sdlUserEvent: the window is resized, and a full update requested.       *)
FaultSdlUserEvent ==
    /\ rsSdl # <<>> /\ rsSdl' = Tail(rsSdl)
    /\ rsCli' = [rsCli EXCEPT !.win = Head(rsSdl)]
    /\ rsUp' = Append(rsUp, RsRequest(TRUE, Head(rsSdl)))
    /\ UNCHANGED <<rsX, rsEv, RsServer, rsDown, rsLeft, rsSwapped>>
SdlUserEvent ==
    /\ rsSdl # <<>> /\ rsSdl' = Tail(rsSdl)
    /\ rsCli' = [rsCli EXCEPT !.win = Head(rsSdl)]
    /\ rsUp' = Append(rsUp, RsRequest(FALSE, Head(rsSdl)))
    /\ UNCHANGED <<rsX, rsEv, RsServer, rsDown, rsLeft, rsSwapped>>

(* windowResizedEvent: the user resized the window.                        *)
WindowResized ==
    /\ rsCli.started /\ rsLeft.resize > 0 /\ rsLeft' = [rsLeft EXCEPT !.resize = @ - 1]
    /\ \E n \in RsSizes \ {rsCli.win} :
        /\ rsCli' = [rsCli EXCEPT !.win = n]
        /\ rsUp' = rsUp \o <<RsDesktop(n), RsRequest(FALSE, n)>>
    /\ UNCHANGED <<rsX, rsEv, RsServer, rsDown, rsSdl, rsSwapped>>

RsNext ==
    \/ XcbDraws \/ XcbResized \/ XcbDamageNotify \/ XcbRandrScreenChanged
    \/ \E t \in rsHelp : SendEncodingDesktopResize(t) \/ SetRandrScreenSize(t) \/ StoreRandrSequence(t)
    \/ FrameBegins \/ FrameSent
    \/ RecvSetEncodingsWaits \/ RecvSetEncodings \/ RecvFramebufferUpdate \/ RecvSetContinuousUpdates \/ RecvSetDesktopSize
    \/ RfbMessagesLoop \/ RfbRequestIncrUpdate \/ RecvContinuousUpdates \/ RecvScreenUpdate \/ RecvDecodingDesktopSize
    \/ SdlUserEvent \/ WindowResized
RsSpec == RsInit /\ [][RsNext]_RsVars
-----------------------------------------------------------------------------
(* The kinds of value each variable takes.                                 *)
RsTypeOK ==
    /\ rsX.size \in RsSizes /\ rsSrv.size \in RsSizes /\ rsCli.win \in RsSizes
    /\ rsSrv.damage \subseteq RsAll
    /\ rsSrv.region \subseteq RsAll /\ rsMain.areas \subseteq RsAll
    /\ rsMain.at \in {"loop", "send"} /\ rsRead \in {"read", "encodings"}
    /\ rsSwapped \in BOOLEAN /\ rsSrv.enc \in {"raw", "zqoi"}

(* Nothing is on its way, and no thread has anything to do.                *)
RsQuiet ==
    /\ rsEv = <<>> /\ rsHelp = {} /\ rsUp = <<>> /\ rsDown = <<>> /\ rsSdl = <<>>
    /\ rsMain.at = "loop" /\ ~FrameDue /\ rsRead = "read" /\ rsCli.started

(* The encoder is not replaced under the main loop's hands: with LTSM's    *)
(* client, which sends its encodings before it asks for a frame,           *)
(* recvSetEncodings' wait is enough although a frame may begin after it.   *)
RsEncoderStable == ~rsSwapped

(* An update is finished by the encoder that began it, from the states of  *)
(* the loop the types name.                                                *)
RsUpdateKept == RsTypeOK /\ RsEncoderStable

(* The client resizes the screen, and asks again only after the answer.    *)
RsInTurn == ~rsLeft.foreign /\ ~rsLeft.again

(* When everything is quiet the window shows the screen, however drawing,  *)
(* the client's resizes, requests and frames were interleaved: the frame's *)
(* clipping and the damage it drops are all made up for.  Not while a      *)
(* negotiation has not ended, and not when resizes overlapped: the answer  *)
(* to the first then ends the negotiation of the second, the next frame is *)
(* refused as busy with all its damage, and nobody asks for it again.      *)
RsShowsScreen ==
    (RsQuiet /\ rsSrv.run /\ ~rsSrv.nego /\ RsInTurn) =>
        \A a \in RsAreas(rsX.size) \intersect RsAreas(rsCli.win) : rsCli.shown[a] = rsX.ver[a]

(* A negotiation ends (the comment "clientSide" in                         *)
(* xcbRandrScreenChangedEvent): the client's own resize is recognised by   *)
(* its number, answered, and frames are sent again.                        *)
RsNegotiationEnds == RsQuiet => ~rsSrv.nego
=============================================================================
