----------------------------- MODULE ConnectorRdp -----------------------------
(***************************************************************************)
(* The connector of an RDP client (connector/ltsm_connector_rdp.cpp, the   *)
(* DBusProxy of ltsm_connector.cpp and the ProxySocket of                  *)
(* common/ltsm_sockets.cpp).  Four threads share it: communication() polls *)
(* the X display and sends bitmaps, FreeRdpCallback::enterEventLoop calls  *)
(* the cbServer functions, the proxy moves bytes between the network and   *)
(* the socket of freerdp, and the dbus thread delivers the signals of the  *)
(* service: onLoginSuccess moves the connector to another display.         *)
(* FreeRDP, the X servers and the service are external.                    *)
(***************************************************************************)
EXTENDS Integers, Sequences

CONSTANTS RdSizes,       \* the desktop sizes of the client and of the displays
          RdKeymap,      \* RdKeymap[k]: the keycodes that the client's key k stands for
          RdTiles,       \* the updates: sequences of compressed tile sizes
          RdMaxRequest,  \* MultifragMaxRequestSize of the client
          RdBpp,         \* bits per pixel of the displays
          RdDesktops,    \* the desktop sizes clients ask for
          RdEvents       \* bound: what the client, the sessions and the service do on their own, all together

ASSUME RdAssumption == /\ RdSizes \subseteq Nat \ {0} /\ RdDesktops \subseteq RdSizes
                       /\ RdMaxRequest \in Nat

VARIABLES rdMain, rdPeer, rdStop, rdProxy, rdRemote, rdFlag, rdTimer,
          rdXcb, rdDisplay, rdConn, rdEvents, rdLogin, rdStopped,
          rdActive, rdPending, rdPart, rdDamage, rdDesk, rdSize, rdScreen, rdPrim, rdGrab, rdShown, rdLost,
          rdHeld, rdKeys, rdDropped, rdWire, rdDone

rdThreads == <<rdMain, rdPeer, rdStop, rdProxy, rdRemote, rdFlag, rdTimer, rdStopped>>
rdLink == <<rdXcb, rdDisplay, rdConn, rdLogin>>
rdPicture == <<rdActive, rdPending, rdPart, rdDamage, rdDesk, rdSize, rdScreen, rdPrim, rdGrab, rdShown, rdLost, rdWire>>
rdInput == <<rdHeld, rdKeys, rdDropped>>
rdVars == <<rdThreads, rdLink, rdEvents, rdPicture, rdInput, rdDone>>

RdDisplays == {1, 2}                \* the login screen's display, and that of another session
RdBlank == [display |-> 0, screen |-> 0, prims |-> 0]
RdNoUpdate == [tiles |-> <<>>, requests |-> <<>>]
RdMayDo == rdDone < RdEvents /\ rdDone' = rdDone + 1

\* the process runs: a crash stops every thread at once
RdAlive == rdMain \notin {"crashed", "exited"}

------------------------------------------------------------------------------
(* The bitmap updates: the requests of one update, sequences of tiles.     *)

RdHeader == 34
RdShortHeader == 22

\* the first tile that no longer fits when the request begins at tile i
RdBatchEnd(s, i) ==
  LET total[k \in i..Len(s)] == s[k] + RdHeader + (IF k = i THEN 0 ELSE total[k - 1])
      over == {k \in i..Len(s) : total[k] > RdMaxRequest}
  IN  IF over = {} THEN Len(s) + 1 ELSE CHOOSE k \in over : \A m \in over : k <= m

FaultUpdateBitmapPlanar(s) ==
  LET requests[i \in 1..Len(s) + 1] ==
        IF i > Len(s) THEN <<>>
        ELSE LET j == IF i = Len(s) THEN i + 1 ELSE RdBatchEnd([k \in 1..Len(s) |-> IF s[k] > RdHeader THEN s[k] - RdHeader ELSE 0], i)
             IN  <<[k \in 1..(j - i) |-> i + k - 1]>> \o requests[j]
  IN  [thrown |-> FALSE, requests |-> requests[1]]

\* every tile is compressed first: one too large for a request throws before anything is sent; then
\* each request takes as many of the tiles that are left as fit
UpdateBitmapPlanar(s) ==
  LET requests[i \in 1..Len(s) + 1] ==
        IF i > Len(s) THEN <<>>
        ELSE LET j == RdBatchEnd(s, i) IN <<[k \in 1..(j - i) |-> i + k - 1]>> \o requests[j]
  IN  IF \E k \in 1..Len(s) : RdMaxRequest < s[k] + RdHeader THEN [thrown |-> TRUE, requests |-> <<>>]
      ELSE [thrown |-> FALSE, requests |-> requests[1]]

\* a request for every tile; the first one too large throws, those before it are sent
UpdateBitmapInterleaved(s) ==
  LET large == {k \in 1..Len(s) : RdMaxRequest < s[k] + RdShortHeader}
      sent == IF large = {} THEN Len(s) ELSE (CHOOSE k \in large : \A m \in large : k <= m) - 1
  IN  [thrown |-> large # {}, requests |-> [k \in 1..sent |-> <<k>>]]

\* the codec by the bits of a pixel: interleaved knows only 16 of those that reach it
UpdateEvent(s) ==
  IF RdBpp \in {24, 32} THEN UpdateBitmapPlanar(s)
  ELSE IF RdBpp = 16 THEN UpdateBitmapInterleaved(s)
  ELSE [thrown |-> TRUE, requests |-> <<>>]

------------------------------------------------------------------------------
(* The X display the connector is connected to (external).                 *)

RdQueued(q, e) == IF Len(q) > 0 /\ q[Len(q)] = e THEN q ELSE Append(q, e)

\* rootDamageAddRegion, and what a drawing reports: raw rectangles, an event for each
RdAddDamage(q) == IF rdConn \in RdDisplays THEN RdQueued(q, "damage") ELSE q

\* setRandrScreenSize of display d: it changes the size and reports it, or fails
SetRandrScreenSize(d, size) ==
  \/ rdConn = d /\ rdSize' = [rdSize EXCEPT ![d] = size] /\ rdEvents' = RdQueued(rdEvents, "resize") /\ UNCHANGED rdLost
  \/ rdLost' = TRUE /\ UNCHANGED <<rdSize, rdEvents>>

\* the session draws on its display; what was drawn before the connection is damaged when it is made
RdDraw ==
  /\ RdAlive /\ rdConn \in RdDisplays /\ RdMayDo
  /\ rdScreen' = [rdScreen EXCEPT ![rdConn] = @ + 1]
  /\ rdEvents' = RdAddDamage(rdEvents)
  /\ UNCHANGED <<rdThreads, rdLink, rdInput, rdActive, rdPending, rdPart, rdDamage, rdDesk, rdSize, rdPrim,
                 rdGrab, rdShown, rdLost, rdWire>>

------------------------------------------------------------------------------
RdInit == /\ rdMain = "init" /\ rdPeer = "none" /\ rdStop = "none" /\ rdProxy = "none" /\ rdRemote = "on"
          /\ rdFlag = FALSE /\ rdTimer = "none" /\ rdStopped = FALSE
          /\ rdXcb = FALSE /\ rdDisplay = 0 /\ rdConn = 0 /\ rdLogin = "none" /\ rdEvents = <<>>
          /\ rdActive = FALSE /\ rdPending = "capabilities" /\ rdPart = FALSE /\ rdDamage = FALSE
          /\ rdDesk \in RdDesktops /\ rdSize = [d \in RdDisplays |-> rdDesk]
          /\ rdScreen = [d \in RdDisplays |-> 0] /\ rdPrim = 0
          /\ rdGrab = RdBlank /\ rdShown = RdBlank /\ rdLost = FALSE /\ rdWire = RdNoUpdate
          /\ rdHeld = {} /\ rdKeys = {} /\ rdDropped = FALSE
          /\ rdDone = 0

\* the freerdp context is made and its callbacks set, or its maker throws
FreeRdpCallbackMade(made) ==
  IF made THEN rdMain' = "loop" /\ rdPeer' = "loop" /\ rdStop' = "open" /\ rdTimer' = "armed"
  ELSE rdMain' = "exit" /\ UNCHANGED <<rdPeer, rdStop, rdTimer>>

\* communication() up to its loop: without the service or the unix sockets it returns at once
RdCommunication ==
  /\ rdMain = "init"
  /\ \/ rdMain' = "exit" /\ UNCHANGED <<rdPeer, rdStop, rdProxy, rdTimer>>
     \/ rdProxy' = "run" /\ \E made \in BOOLEAN : FreeRdpCallbackMade(made)
  /\ UNCHANGED <<rdRemote, rdFlag, rdStopped, rdLink, rdEvents, rdPicture, rdInput, rdDone>>

RdMainTo(s) == rdMain' = s

FaultLoopCheck ==
  /\ rdMain = "loop" /\ rdWire' = RdNoUpdate
  /\ IF rdFlag THEN RdMainTo("proxy") /\ UNCHANGED <<rdFlag, rdXcb>>
     ELSE /\ rdFlag' = (rdStop = "null")
          /\ RdMainTo(IF rdXcb THEN "poll" ELSE "loop") /\ UNCHANGED rdXcb
  /\ UNCHANGED <<rdPeer, rdStop, rdProxy, rdRemote, rdTimer, rdStopped, rdDisplay, rdConn, rdLogin, rdEvents, rdActive,
                 rdPending, rdPart, rdDamage, rdDesk, rdSize, rdScreen, rdPrim, rdGrab, rdShown, rdLost, rdInput, rdDone>>

\* the head of the loop: freerdp or the proxy ended; then, when messages are allowed, the display is
\* polled, a lost X connection leaving the loop with the messages disabled
LoopCheck ==
  /\ rdMain = "loop" /\ rdWire' = RdNoUpdate
  /\ IF rdFlag THEN RdMainTo("proxy") /\ UNCHANGED <<rdFlag, rdXcb>>
     ELSE /\ rdFlag' = (rdStop = "null" \/ rdProxy # "run")
          /\ \/ RdMainTo(IF rdXcb THEN "poll" ELSE "loop") /\ UNCHANGED rdXcb
             \/ rdXcb /\ rdConn \in RdDisplays /\ RdMainTo("proxy") /\ rdXcb' = FALSE
  /\ UNCHANGED <<rdPeer, rdStop, rdProxy, rdRemote, rdTimer, rdStopped, rdDisplay, rdConn, rdLogin, rdEvents, rdActive,
                 rdPending, rdPart, rdDamage, rdDesk, rdSize, rdScreen, rdPrim, rdGrab, rdShown, rdLost, rdInput, rdDone>>

\* xcbRandrScreenChangedEvent: the region is dropped and the client asked to activate again
DesktopResizeEvent(size) ==
  /\ rdDamage' = FALSE
  /\ rdActive' = FALSE
  /\ rdDesk' = size
  /\ rdPending' = IF rdPending = "none" THEN "activate" ELSE rdPending

\* pollEvent, one event after the other
XcbPollEvent ==
  /\ rdMain = "poll" /\ rdConn \in RdDisplays /\ rdEvents # <<>>
  /\ rdEvents' = Tail(rdEvents)
  /\ CASE Head(rdEvents) = "damage" -> rdDamage' = TRUE /\ UNCHANGED <<rdActive, rdDesk, rdPending>>
       [] Head(rdEvents) = "resize" -> DesktopResizeEvent(rdSize[rdConn])
  /\ UNCHANGED <<rdThreads, rdLink, rdInput, rdPart, rdSize, rdScreen, rdPrim, rdGrab, rdShown, rdLost, rdWire, rdDone>>

\* no more events: with a damaged region and an active client the picture is taken, the primitives drawn on it
XcbEventLoopAsync ==
  /\ rdMain = "poll" /\ rdConn \in RdDisplays /\ rdEvents = <<>>
  /\ IF rdDamage /\ rdActive
     THEN /\ RdMainTo("send") /\ rdPart' = TRUE
          /\ rdGrab' = [display |-> rdConn, screen |-> rdScreen[rdConn], prims |-> rdPrim]
     ELSE RdMainTo("loop") /\ UNCHANGED <<rdPart, rdGrab>>
  /\ UNCHANGED <<rdPeer, rdStop, rdProxy, rdRemote, rdFlag, rdTimer, rdStopped, rdLink, rdEvents, rdInput, rdActive,
                 rdPending, rdDamage, rdDesk, rdSize, rdScreen, rdPrim, rdShown, rdLost, rdWire, rdDone>>

\* the display is replaced meanwhile: its screen and its modules are null pointers for a moment
PollTorn ==
  /\ rdMain = "poll" /\ rdConn = -1
  /\ RdMainTo("crashed")
  /\ UNCHANGED <<rdPeer, rdStop, rdProxy, rdRemote, rdFlag, rdTimer, rdStopped, rdLink, rdEvents, rdPicture, rdInput, rdDone>>

\* updateEvent: the requests are written; when one throws the loop ends, updatePartFlag stays set
SendUpdate ==
  /\ rdMain = "send"
  /\ RdMainTo("loop") /\ rdGrab' = RdBlank
  /\ \E s \in RdTiles : \E u \in {UpdateEvent(s)} :
     /\ rdWire' = [tiles |-> s, requests |-> u.requests]
     /\ \/ /\ ~u.thrown
           /\ rdShown' = rdGrab
           /\ rdDamage' = FALSE /\ rdPart' = FALSE
           /\ UNCHANGED rdFlag
        \/ /\ u.thrown \/ rdProxy # "run"
           /\ rdFlag' = TRUE
           /\ UNCHANGED <<rdShown, rdDamage, rdPart>>
  /\ UNCHANGED <<rdPeer, rdStop, rdProxy, rdRemote, rdTimer, rdStopped, rdLink, rdEvents, rdInput, rdActive, rdPending,
                 rdDesk, rdSize, rdScreen, rdPrim, rdLost, rdDone>>

------------------------------------------------------------------------------
(* The end: the sockets are closed, freerdp is told, its thread joined.    *)

\* proxyShutdown closes the sockets, the one of freerdp too, and waits for the proxy's thread
ProxyShutdown ==
  /\ rdMain = "proxy"
  /\ rdProxy' = "closed"
  /\ RdMainTo("stop")
  /\ UNCHANGED <<rdPeer, rdStop, rdRemote, rdFlag, rdTimer, rdStopped, rdLink, rdEvents, rdPicture, rdInput, rdDone>>

\* SetEvent of the event, whose handle the other thread may have closed a moment before
StopEventLoop == rdStop' = (IF rdStop = "open" THEN "set" ELSE rdStop)

MainStops ==
  /\ rdMain = "stop"
  /\ \/ StopEventLoop /\ RdMainTo("join")
     \/ rdStop = "freed" /\ RdMainTo("crashed") /\ UNCHANGED rdStop
  /\ rdTimer' = "off"
  /\ UNCHANGED <<rdPeer, rdProxy, rdRemote, rdFlag, rdStopped, rdLink, rdEvents, rdPicture, rdInput, rdDone>>

MainJoins ==
  /\ rdMain = "join" /\ rdPeer = "ended"
  /\ RdMainTo("exit")
  /\ UNCHANGED <<rdPeer, rdStop, rdProxy, rdRemote, rdFlag, rdTimer, rdStopped, rdLink, rdEvents, rdPicture, rdInput, rdDone>>

\* ~ConnectorRdp: busConnectorTerminated when a display was ever connected
RdTerminated ==
  /\ rdMain = "exit"
  /\ RdMainTo("exited")
  /\ UNCHANGED <<rdPeer, rdStop, rdProxy, rdRemote, rdFlag, rdTimer, rdStopped, rdLink, rdEvents, rdPicture, rdInput, rdDone>>

FaultTimerNotActivated ==
  /\ RdAlive /\ rdTimer = "armed"
  /\ rdTimer' = "off"
  /\ UNCHANGED <<rdFlag, rdMain, rdPeer, rdStop, rdProxy, rdRemote, rdStopped, rdLink, rdEvents, rdPicture, rdInput, rdDone>>

\* the timer of 30 seconds, once
TimerNotActivated ==
  /\ RdAlive /\ rdTimer = "armed"
  /\ rdTimer' = "off"
  /\ rdFlag' = (rdFlag \/ ~rdActive)
  /\ UNCHANGED <<rdMain, rdPeer, rdStop, rdProxy, rdRemote, rdStopped, rdLink, rdEvents, rdPicture, rdInput, rdDone>>

\* the client closes its connection (external)
RdHangUp ==
  /\ RdAlive /\ rdProxy = "run" /\ rdRemote = "on" /\ RdMayDo
  /\ rdRemote' = "gone"
  /\ UNCHANGED <<rdMain, rdPeer, rdStop, rdProxy, rdFlag, rdTimer, rdStopped, rdLink, rdEvents, rdPicture, rdInput>>

\* the proxy's thread: the end of the remote stream is readable and has no bytes, so only what freerdp
\* writes finds out that the client has gone
TransmitDataIteration ==
  /\ RdAlive /\ rdProxy = "run" /\ rdRemote = "gone" /\ rdShown # RdBlank
  /\ rdProxy' = "ended"
  /\ UNCHANGED <<rdMain, rdPeer, rdStop, rdRemote, rdFlag, rdTimer, rdStopped, rdLink, rdEvents, rdPicture, rdInput, rdDone>>

------------------------------------------------------------------------------
(* The thread of freerdp.                                                  *)

RdPeerRuns == RdAlive /\ rdPeer = "loop"
RdHears == RdPeerRuns /\ rdRemote = "on" /\ rdProxy = "run" /\ rdStop = "open"

\* the loop ends: stopped, the socket closed, or a callback that returned FALSE
PeerLeaves ==
  /\ RdPeerRuns
  /\ rdStop = "set" \/ rdProxy = "closed" \/ rdPending = "refused"
  /\ rdStop' = "freed" /\ rdPeer' = "closing"
  /\ UNCHANGED <<rdMain, rdProxy, rdRemote, rdFlag, rdTimer, rdStopped, rdLink, rdEvents, rdPicture, rdInput, rdDone>>

FaultPeerEnds ==
  /\ RdAlive /\ rdPeer = "closing"
  /\ rdStop' = "open" /\ rdPeer' = "ended"
  /\ UNCHANGED <<rdMain, rdProxy, rdRemote, rdFlag, rdTimer, rdStopped, rdLink, rdEvents, rdPicture, rdInput, rdDone>>

\* stopEvent = nullptr, the sign isShutdown looks for
PeerEnds ==
  /\ RdAlive /\ rdPeer = "closing"
  /\ rdStop' = "null" /\ rdPeer' = "ended"
  /\ UNCHANGED <<rdMain, rdProxy, rdRemote, rdFlag, rdTimer, rdStopped, rdLink, rdEvents, rdPicture, rdInput, rdDone>>

\* xcbConnect: displayReconnect makes the modules anew, with the whole screen damaged
XcbConnected(d) ==
  /\ rdConn' = d /\ rdDisplay' = d
  /\ \E size \in RdSizes : rdSize' = [rdSize EXCEPT ![d] = size]
  /\ rdEvents' = <<"damage">>

\* createX11Session: the login session is requested and its display connected, or the callback fails
CbServerCapabilities ==
  /\ RdHears /\ rdPending = "capabilities"
  /\ \/ XcbConnected(1) /\ rdPending' = "post"
     \/ rdPending' = "refused" /\ UNCHANGED <<rdConn, rdDisplay, rdEvents, rdSize>>
  /\ UNCHANGED <<rdThreads, rdXcb, rdLogin, rdInput, rdActive, rdPart, rdDamage, rdDesk, rdScreen, rdPrim,
                 rdGrab, rdShown, rdLost, rdWire, rdDone>>

\* the size the client asked for is set on the display
CbServerPostConnect ==
  /\ RdHears /\ rdPending = "post"
  /\ rdPending' = "activate"
  /\ IF rdSize[1] # rdDesk THEN SetRandrScreenSize(1, rdDesk) ELSE UNCHANGED <<rdSize, rdEvents, rdLost>>
  /\ UNCHANGED <<rdThreads, rdLink, rdInput, rdActive, rdPart, rdDamage, rdDesk, rdScreen, rdPrim, rdGrab, rdShown,
                 rdWire, rdDone>>

FaultCbServerActivate ==
  /\ RdHears /\ rdPending = "activate"
  /\ rdPending' = "none" /\ rdActive' = TRUE /\ rdXcb' = TRUE
  /\ UNCHANGED <<rdThreads, rdDisplay, rdConn, rdLogin, rdEvents, rdInput, rdPart, rdDamage, rdDesk, rdSize, rdScreen, rdPrim,
                 rdGrab, rdShown, rdLost, rdWire, rdDone>>

\* after the first connection and after every resize: messages are allowed, whoever disabled them
CbServerActivate ==
  /\ RdHears /\ rdPending = "activate"
  /\ rdPending' = "none" /\ rdActive' = TRUE /\ rdXcb' = TRUE
  /\ rdEvents' = RdAddDamage(rdEvents)
  /\ UNCHANGED <<rdThreads, rdDisplay, rdConn, rdLogin, rdInput, rdPart, rdDamage, rdDesk, rdSize, rdScreen, rdPrim,
                 rdGrab, rdShown, rdLost, rdWire, rdDone>>

\* the client is minimised, or shown again: then everything is damaged
CbServerSuppressOutput(allow) ==
  /\ RdHears /\ rdPending \in {"none", "activate"} /\ rdShown # RdBlank
  /\ RdMayDo
  /\ rdXcb' = allow
  /\ rdEvents' = IF allow THEN RdAddDamage(rdEvents) ELSE rdEvents
  /\ UNCHANGED <<rdThreads, rdDisplay, rdConn, rdLogin, rdPicture, rdInput>>

CbServerRefreshRect ==
  /\ RdHears /\ rdPending = "none" /\ RdMayDo
  /\ rdEvents' = RdAddDamage(rdEvents)
  /\ UNCHANGED <<rdThreads, rdLink, rdPicture, rdInput>>

\* the keycodes of a key: those the keymap file gives, or the one the scan code stands for
RdKeycodes(k) == RdKeymap[k]

FaultCbServerKeyboardEvent(k, down) ==
  /\ RdHears /\ rdPending = "none"
  /\ down <=> k \notin rdHeld
  /\ IF down THEN RdMayDo ELSE UNCHANGED rdDone
  /\ rdHeld' = IF down THEN rdHeld \cup {k} ELSE rdHeld \ {k}
  /\ rdKeys' = IF rdXcb /\ down THEN rdKeys \cup RdKeycodes(k)
               ELSE IF rdXcb THEN rdKeys \ {CHOOSE c \in RdKeycodes(k) : TRUE} ELSE rdKeys
  /\ rdDropped' = (rdDropped \/ ~rdXcb)
  /\ UNCHANGED <<rdThreads, rdLink, rdEvents, rdPicture>>

\* the key reaches the display only while messages are allowed; without the TEST module the callback fails
CbServerKeyboardEvent(k, down) ==
  /\ RdHears /\ rdPending = "none"
  /\ down <=> k \notin rdHeld
  /\ IF down THEN RdMayDo ELSE UNCHANGED rdDone
  /\ rdHeld' = IF down THEN rdHeld \cup {k} ELSE rdHeld \ {k}
  /\ IF rdXcb /\ rdConn \in RdDisplays
     THEN /\ rdKeys' = IF down THEN rdKeys \cup RdKeycodes(k) ELSE rdKeys \ RdKeycodes(k)
          /\ UNCHANGED <<rdDropped, rdPending>>
     ELSE /\ rdDropped' = TRUE
          /\ rdPending' = IF rdXcb THEN "refused" ELSE rdPending
          /\ UNCHANGED rdKeys
  /\ UNCHANGED <<rdThreads, rdLink, rdEvents, rdActive, rdPart, rdDamage, rdDesk, rdSize, rdScreen, rdPrim, rdGrab,
                 rdShown, rdLost, rdWire>>

------------------------------------------------------------------------------
(* The thread of dbus.                                                     *)

RdServerScreenUpdateRequest(q) == IF rdXcb THEN RdAddDamage(q) ELSE q

\* onAddRenderRect, onAddRenderText
OnAddRender ==
  /\ RdAlive /\ rdMain # "init" /\ rdDisplay > 0 /\ rdLogin \in {"none", "failed"} /\ RdMayDo
  /\ rdPrim' = rdPrim + 1
  /\ rdEvents' = RdServerScreenUpdateRequest(rdEvents)
  /\ UNCHANGED <<rdThreads, rdLink, rdInput, rdActive, rdPending, rdPart, rdDamage, rdDesk, rdSize, rdScreen, rdGrab,
                 rdShown, rdLost, rdWire>>

\* every primitive's place is damaged, then they are gone
OnClearRenderPrimitives ==
  /\ RdAlive /\ rdDisplay > 0 /\ rdLogin \in {"none", "failed"} /\ rdPrim > 0
  /\ rdPrim' = 0
  /\ rdEvents' = RdServerScreenUpdateRequest(rdEvents)
  /\ UNCHANGED <<rdThreads, rdLink, rdInput, rdActive, rdPending, rdPart, rdDamage, rdDesk, rdSize, rdScreen, rdGrab,
                 rdShown, rdLost, rdWire, rdDone>>

\* messages are disabled; while a picture is being sent the thread waits, but no longer than a second
OnLoginSuccess ==
  /\ RdAlive /\ rdDisplay = 1 /\ rdLogin = "none" /\ rdPending \in {"none", "activate"}
  /\ rdXcb' = FALSE /\ rdLogin' = "wait"
  /\ UNCHANGED <<rdThreads, rdDisplay, rdConn, rdEvents, rdPicture, rdInput, rdDone>>

\* busStartUserSession: an error throws and the messages stay disabled; for another display the modules
\* of this one are taken away (displayReconnect), unless its socket never appears
StartUserSession ==
  /\ RdAlive /\ rdLogin = "wait"
  /\ \/ rdLogin' \in {"failed", "connected"} /\ UNCHANGED rdConn
     \/ rdLogin' = "reconnect" /\ rdConn' = -1
  /\ UNCHANGED <<rdThreads, rdXcb, rdDisplay, rdEvents, rdPicture, rdInput, rdDone>>

\* and made for the new display, or not: nobody looks at what displayConnect returns; the old display is
\* shut down, and what the client holds down stayed with it
DisplayConnected ==
  /\ RdAlive /\ rdLogin = "reconnect"
  /\ \/ XcbConnected(2)
     \/ rdDisplay' = 2 /\ rdEvents' = <<>> /\ UNCHANGED <<rdConn, rdSize>>
  /\ rdLogin' = "connected"
  /\ rdKeys' = {} /\ rdDropped' = (rdDropped \/ rdHeld # {})
  /\ UNCHANGED <<rdThreads, rdXcb, rdHeld, rdDone, rdActive, rdPending, rdPart, rdDamage, rdDesk, rdScreen, rdPrim,
                 rdGrab, rdShown, rdLost, rdWire>>

\* messages are allowed again; the new session gets the client's size, or is shown whole
LoginShown ==
  /\ RdAlive /\ rdLogin = "connected"
  /\ rdXcb' = TRUE /\ rdLogin' = "done"
  /\ IF rdSize[rdDisplay] # rdDesk THEN SetRandrScreenSize(rdDisplay, rdDesk)
     ELSE rdEvents' = RdAddDamage(rdEvents) /\ UNCHANGED <<rdSize, rdLost>>
  /\ UNCHANGED <<rdThreads, rdDisplay, rdConn, rdInput, rdActive, rdPending, rdPart, rdDamage, rdDesk, rdScreen, rdPrim,
                 rdGrab, rdShown, rdWire, rdDone>>

\* the service asks the connector to end
OnShutdownConnector ==
  /\ RdAlive /\ rdDisplay > 0 /\ ~rdStopped /\ rdMain \notin {"init", "exit"} /\ RdMayDo
  /\ rdStopped' = TRUE
  /\ \/ StopEventLoop /\ rdXcb' = FALSE /\ rdFlag' = TRUE /\ UNCHANGED rdMain
     \/ rdStop = "freed" /\ rdMain' = "crashed" /\ UNCHANGED <<rdStop, rdXcb, rdFlag>>
  /\ UNCHANGED <<rdPeer, rdProxy, rdRemote, rdTimer, rdDisplay, rdConn, rdLogin, rdEvents, rdPicture, rdInput>>

------------------------------------------------------------------------------
RdMainNext == \/ RdCommunication \/ LoopCheck \/ XcbPollEvent \/ XcbEventLoopAsync \/ PollTorn \/ SendUpdate
              \/ ProxyShutdown \/ MainStops \/ MainJoins \/ RdTerminated
RdPeerNext == PeerLeaves \/ PeerEnds
RdLoginNext == StartUserSession \/ DisplayConnected \/ LoginShown

RdNext ==
  \/ RdMainNext \/ RdPeerNext \/ RdLoginNext
  \/ TransmitDataIteration \/ TimerNotActivated
  \/ CbServerCapabilities \/ CbServerPostConnect \/ CbServerActivate \/ CbServerRefreshRect
  \/ \E allow \in BOOLEAN : CbServerSuppressOutput(allow)
  \/ \E k \in DOMAIN RdKeymap, down \in BOOLEAN : CbServerKeyboardEvent(k, down)
  \/ OnAddRender \/ OnClearRenderPrimitives \/ OnLoginSuccess \/ OnShutdownConnector
  \/ RdHangUp
  \/ RdDraw

\* every thread goes on; what the client, the service and the sessions do is up to them
RdFairness == /\ WF_rdVars(RdMainNext) /\ WF_rdVars(RdPeerNext) /\ WF_rdVars(RdLoginNext)
              /\ WF_rdVars(TransmitDataIteration) /\ WF_rdVars(TimerNotActivated)

RdSpec == RdInit /\ [][RdNext]_rdVars /\ RdFairness

------------------------------------------------------------------------------
\* every variable has its type
RdTypeOK ==
  /\ rdMain \in {"init", "loop", "poll", "send", "proxy", "stop", "join", "exit", "exited", "crashed"}
  /\ rdPeer \in {"none", "loop", "closing", "ended"} /\ rdStop \in {"none", "open", "set", "freed", "null"}
  /\ rdProxy \in {"none", "run", "ended", "closed"} /\ rdRemote \in {"on", "gone"}
  /\ rdTimer \in {"none", "armed", "off"} /\ {rdFlag, rdStopped, rdXcb, rdActive, rdPart, rdDamage, rdLost, rdDropped} \subseteq BOOLEAN
  /\ rdDisplay \in {0} \cup RdDisplays /\ rdConn \in {-1, 0} \cup RdDisplays
  /\ rdLogin \in {"none", "wait", "reconnect", "connected", "failed", "done"}
  /\ rdPending \in {"capabilities", "post", "activate", "none", "refused"}
  /\ rdDesk \in RdSizes /\ rdSize \in [RdDisplays -> RdSizes]
  /\ rdHeld \subseteq DOMAIN RdKeymap /\ rdKeys \subseteq UNION {RdKeymap[k] : k \in DOMAIN RdKeymap}
  /\ (rdPeer = "ended") => (rdStop = "null")

\* an active client with nothing left to poll, send or activate shows what its display shows, the render
\* primitives included: no damage is lost between the four threads (but for a display whose resize failed)
RdShowsDisplay ==
  (/\ rdMain = "loop" /\ rdXcb /\ rdActive /\ rdEvents = <<>> /\ ~rdDamage
   /\ rdLogin \in {"none", "done", "failed"} /\ rdPending = "none" /\ ~rdLost /\ ~rdFlag
   /\ rdConn \in RdDisplays)
  => rdShown = [display |-> rdConn, screen |-> rdScreen[rdConn], prims |-> rdPrim]

(* The peer sees the display it is connected to, through activation,       *)
(* suppression and the switch of the login display.                        *)
RdScreenKept == RdTypeOK /\ RdShowsDisplay

\* the requests of one update carry every tile once, in order, and none is larger than the client accepts
RdRequestsFit ==
  LET sum(q) == LET t[k \in 0..Len(q)] == IF k = 0 THEN 0 ELSE t[k - 1] + rdWire.tiles[q[k]] + (IF RdBpp = 16 THEN RdShortHeader ELSE RdHeader)
                IN  t[Len(q)]
      lens == [k \in 0..Len(rdWire.requests) |-> IF k = 0 THEN 0 ELSE Len(rdWire.requests[k])]
      upto[k \in 0..Len(rdWire.requests)] == IF k = 0 THEN 0 ELSE upto[k - 1] + lens[k]
  IN  /\ \A k \in 1..Len(rdWire.requests) :
           /\ lens[k] > 0 /\ sum(rdWire.requests[k]) <= RdMaxRequest
           /\ \A m \in 1..lens[k] : rdWire.requests[k][m] = upto[k - 1] + m
      /\ ~rdFlag /\ rdMain = "loop" => upto[Len(rdWire.requests)] = Len(rdWire.tiles)

\* as long as every key event was passed on, the keys down at the display are those the client holds
RdKeysFollow == ~rdDropped => rdKeys = UNION {RdKeymap[k] : k \in rdHeld}

(* What passes between the threads keeps its limits: requests fit in what  *)
(* the peer takes, and the display's keys follow the peer's.               *)
RdRequestsKeys == RdRequestsFit /\ RdKeysFollow

\* once the connection has ended on either side of the connector, it ends: every thread is joined
RdEnds == (rdStop \in {"set", "null"} \/ rdProxy = "ended" \/ rdFlag) ~> (rdMain \in {"exited", "crashed"})

\* a client that never becomes active does not keep the connector
RdNotActivatedEnds == (rdTimer = "armed") ~> (rdActive \/ rdMain \in {"exited", "crashed"})

(* The connector ends with its peer, and without one that activates.       *)
RdEnd == RdEnds /\ RdNotActivatedEnds
==============================================================================
