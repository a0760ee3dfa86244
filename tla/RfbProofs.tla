------------------------------ MODULE RfbProofs ------------------------------
(***************************************************************************)
(* One RFB connection, proved for any sizes of the screen, any keymap, any *)
(* cursors and any number of events: the encoder is not replaced while it  *)
(* works, and the window comes to show the screen (RfbScreen), an id of a  *)
(* cursor that is sent without its image is one the client can show or     *)
(* asks for again (ClientInput), and the clipboard does not mix up the     *)
(* texts of the two ends, and carries one over whole (Clipboard).          *)
(***************************************************************************)
EXTENDS RfbHandshake, RfbScreen, ClientInput, Clipboard, SequenceTheorems, FiniteSetTheorems, TLAPS

(***************************************************************************)
(* Queues.  Messages of many shapes are queued, so that a queue is told by *)
(* being a sequence, and what it holds by its elements.                    *)
(***************************************************************************)
IsQueue(q) == q \in Seq({q[i] : i \in 1..Len(q)})

LEMMA QueueIs ==
  ASSUME NEW S, NEW q \in Seq(S)
  PROVE  IsQueue(q) /\ Len(q) \in Nat
  <1>1. Len(q) \in Nat /\ q \in [1..Len(q) -> S]
    BY LenProperties
  <1> DEFINE T == {q[i] : i \in 1..Len(q)}
  <1>2. q \in [1..Len(q) -> T]
    BY <1>1
  <1>3. q \in Seq(T)
    BY <1>1, <1>2, SeqDef
  <1> QED  BY <1>1, <1>3 DEF IsQueue

LEMMA QueueEmpty == IsQueue(<<>>) /\ Len(<<>>) = 0
  BY EmptySeq, QueueIs

LEMMA QueueJoined ==
  ASSUME NEW q, IsQueue(q), NEW r, IsQueue(r)
  PROVE  /\ IsQueue(q \o r)
         /\ Len(q) \in Nat /\ Len(r) \in Nat /\ Len(q \o r) = Len(q) + Len(r)
         /\ \A i \in 1..Len(q) : i \in 1..Len(q \o r) /\ (q \o r)[i] = q[i]
         /\ \A i \in 1..Len(q \o r) :
              \/ i \in 1..Len(q) /\ (q \o r)[i] = q[i]
              \/ i - Len(q) \in 1..Len(r) /\ (q \o r)[i] = r[i - Len(q)]
         /\ \A i \in 1..Len(r) : Len(q) + i \in 1..Len(q \o r) /\ (q \o r)[Len(q) + i] = r[i]
  <1> DEFINE S == {q[i] : i \in 1..Len(q)} \union {r[i] : i \in 1..Len(r)}
  <1>1. q \in Seq(S) /\ r \in Seq(S)
    BY SeqMonotonic DEF IsQueue
  <1>2. /\ q \o r \in Seq(S) /\ Len(q \o r) = Len(q) + Len(r)
        /\ \A i \in 1..Len(q) + Len(r) :
             (q \o r)[i] = IF i <= Len(q) THEN q[i] ELSE r[i - Len(q)]
    BY <1>1, ConcatProperties
  <1>3. Len(q) \in Nat /\ Len(r) \in Nat
    BY <1>1, LenProperties
  <1>4. IsQueue(q \o r)
    BY <1>2, QueueIs
  <1> DEFINE m == Len(q)
             n == Len(r)
  <1>5. /\ \A i \in 1..m : i \in 1..m + n /\ i <= m
        /\ \A i \in 1..n : m + i \in 1..m + n /\ ~(m + i <= m) /\ (m + i) - m = i
        /\ \A i \in 1..m + n : i \in 1..m \/ (~(i <= m) /\ i - m \in 1..n)
        /\ \A i \in 1..m : i \in 1..m + n
    <2> HIDE DEF m, n
    <2>1. m \in Nat /\ n \in Nat
      BY <1>3 DEF m, n
    <2> QED  BY <2>1
  <1> QED  BY <1>2, <1>3, <1>4, <1>5

LEMMA QueueOne ==
  ASSUME NEW e
  PROVE  IsQueue(<<e>>) /\ Len(<<e>>) = 1 /\ <<e>>[1] = e
  <1>1. <<e>> \in Seq({e}) /\ Len(<<e>>) = 1 /\ <<e>>[1] = e
    OBVIOUS
  <1> QED  BY <1>1, QueueIs

LEMMA QueueTwo ==
  ASSUME NEW d, NEW e
  PROVE  IsQueue(<<d, e>>) /\ Len(<<d, e>>) = 2 /\ <<d, e>>[1] = d /\ <<d, e>>[2] = e
  <1>1. <<d, e>> \in Seq({d, e}) /\ Len(<<d, e>>) = 2
    OBVIOUS
  <1> QED  BY <1>1, QueueIs

\* a message is put at the end
LEMMA QueueAppended ==
  ASSUME NEW q, IsQueue(q), NEW e
  PROVE  /\ IsQueue(Append(q, e))
         /\ Len(q) \in Nat /\ Len(Append(q, e)) = Len(q) + 1
         /\ \A i \in 1..Len(q) : i \in 1..Len(Append(q, e)) /\ Append(q, e)[i] = q[i]
         /\ Append(q, e)[Len(q) + 1] = e
         /\ \A i \in 1..Len(Append(q, e)) : i \in 1..Len(q) \/ i = Len(q) + 1
  <1> DEFINE S == {q[i] : i \in 1..Len(q)} \union {e}
             n == Len(q)
  <1>1. q \in Seq(S) /\ e \in S
    BY SeqMonotonic DEF IsQueue
  <1>2. /\ Append(q, e) \in Seq(S) /\ Len(Append(q, e)) = n + 1
        /\ \A i \in 1..n : Append(q, e)[i] = q[i]
        /\ Append(q, e)[n + 1] = e
    BY <1>1, AppendProperties
  <1>3. n \in Nat
    BY <1>1, LenProperties
  <1>4. IsQueue(Append(q, e))
    BY <1>2, QueueIs
  <1>5. /\ \A i \in 1..n : i \in 1..n + 1
        /\ \A i \in 1..n + 1 : i \in 1..n \/ i = n + 1
    <2> HIDE DEF n
    <2> QED  BY <1>3
  <1> QED  BY <1>2, <1>3, <1>4, <1>5

\* the first message is taken
LEMMA QueueTaken ==
  ASSUME NEW q, IsQueue(q), q # <<>>
  PROVE  /\ IsQueue(Tail(q))
         /\ Len(q) \in Nat \ {0} /\ Len(Tail(q)) = Len(q) - 1
         /\ 1 \in 1..Len(q) /\ Head(q) = q[1]
         /\ \A i \in 1..Len(Tail(q)) : i + 1 \in 1..Len(q) /\ Tail(q)[i] = q[i + 1]
         /\ \A i \in 1..Len(q) : i = 1 \/ (i - 1 \in 1..Len(Tail(q)) /\ Tail(q)[i - 1] = q[i])
  <1> DEFINE S == {q[i] : i \in 1..Len(q)}
             n == Len(q)
  <1>1. q \in Seq(S)
    BY DEF IsQueue
  <1>2. /\ Head(q) = q[1] /\ Tail(q) \in Seq(S) /\ Len(Tail(q)) = n - 1
        /\ \A i \in 1..Len(Tail(q)) : Tail(q)[i] = q[i + 1]
        /\ n \in Nat \ {0}
    BY <1>1, HeadTailProperties, EmptySeq, LenProperties
  <1>3. IsQueue(Tail(q))
    BY <1>2, QueueIs
  <1>4. /\ 1 \in 1..n
        /\ \A i \in 1..n - 1 : i + 1 \in 1..n
        /\ \A i \in 1..n : i = 1 \/ (i - 1 \in 1..n - 1 /\ (i - 1) + 1 = i)
    <2> HIDE DEF n
    <2> QED  BY <1>2
  <1> QED  BY <1>2, <1>3, <1>4

-----------------------------------------------------------------------------
(***************************************************************************)
(* The screen: the encoder is replaced only while the main loop is idle.   *)
(***************************************************************************)
\* a message on its way to the server names a size of the screen
IsUpMessage(m) ==
    /\ m.k \in {"encodings", "update", "continuous", "desktop"}
    /\ m.k # "encodings" => m.size \in RsSizes
\* and one to the client, when it is about the size
IsDownMessage(m) == m.k = "resize" => m.n \in RsSizes
IsXEvent(e) ==
    /\ e.k \in {"damage", "crtc"}
    /\ e.k = "damage" => e.n \in RsAll
\* a detached thread of the server
IsHelper(t) ==
    /\ DOMAIN t = {"k", "n", "id"}
    /\ t.k \in {"runtime", "own", "hello", "resizer", "resized"}
    /\ t.k # "hello" => t.n \in RsSizes

RsTyped ==
    /\ DOMAIN rsX = {"size", "ver", "last"} /\ rsX.size \in RsSizes
    /\ DOMAIN rsSrv = {"size", "damage", "full", "region", "nego", "randr", "cont", "enc", "encodings", "run"}
    /\ rsSrv.size \in RsSizes /\ rsSrv.damage \subseteq RsAll /\ rsSrv.region \subseteq RsAll
    /\ rsSrv.enc \in {"raw", "zqoi"}
    /\ DOMAIN rsMain = {"at", "areas", "ver"}
    /\ rsMain.areas \subseteq RsAll /\ rsMain.at \in {"loop", "send"}
    /\ DOMAIN rsCli = {"win", "nego", "started", "shown"}
    /\ rsCli.win \in RsSizes /\ rsCli.started \in BOOLEAN
    /\ rsRead \in {"read", "encodings"}
    /\ IsQueue(rsUp) /\ \A i \in 1..Len(rsUp) : IsUpMessage(rsUp[i])
    /\ IsQueue(rsDown) /\ \A i \in 1..Len(rsDown) : IsDownMessage(rsDown[i])
    /\ IsQueue(rsEv) /\ \A i \in 1..Len(rsEv) : IsXEvent(rsEv[i])
    /\ IsQueue(rsSdl) /\ \A i \in 1..Len(rsSdl) : rsSdl[i] \in RsSizes
    /\ \A t \in rsHelp : IsHelper(t)

\* no frame is being sent, and none is due: the client has asked for none
NoFrameYet == rsMain.at = "loop" /\ rsSrv.region = {}

\* the encodings are the first message of the client
EncodingsFirst ==
    \A i \in 1..Len(rsUp) : rsUp[i].k = "encodings" => i = 1 /\ rsRead = "read" /\ NoFrameYet
EncodingsRead == rsRead = "encodings" => NoFrameYet
BeforeStart ==
    ~rsCli.started =>
        /\ NoFrameYet /\ rsRead = "read" /\ rsHelp = {} /\ rsSrv.encodings = FALSE
        /\ rsUp = <<>> /\ rsDown = <<>> /\ rsSdl = <<>>

RsInv == RsTyped /\ EncodingsFirst /\ EncodingsRead /\ BeforeStart /\ rsSwapped = FALSE

LEMMA RsInvGives == RsInv => RsUpdateKept
  BY DEF RsInv, RsTyped, RsUpdateKept, RsTypeOK, RsEncoderStable

LEMMA RsInitEstablishes == ASSUME RsInit PROVE RsInv
  <1> USE RsAssumption
  <1>1. /\ IsQueue(rsUp) /\ IsQueue(rsDown) /\ IsQueue(rsEv) /\ IsQueue(rsSdl)
        /\ Len(rsUp) = 0 /\ Len(rsDown) = 0 /\ Len(rsEv) = 0 /\ Len(rsSdl) = 0
    BY QueueEmpty DEF RsInit
  <1>2. RsTyped
    BY <1>1 DEF RsInit, RsTyped
  <1>3. EncodingsFirst /\ EncodingsRead /\ BeforeStart /\ rsSwapped = FALSE
    BY <1>1 DEF RsInit, EncodingsFirst, EncodingsRead, BeforeStart, NoFrameYet
  <1> QED  BY <1>2, <1>3 DEF RsInv

(* What the environment does to the X server, and the server's answer to   *)
(* an X event.                                                             *)
LEMMA RsXKeep ==
  ASSUME RsInv,
         XcbDraws \/ XcbResized \/ XcbDamageNotify \/ XcbRandrScreenChanged
  PROVE  RsInv'
  <1> USE DEF RsInv
  <1>1. CASE XcbDraws
    <2>1. PICK a \in RsAreas(rsX.size) :
            /\ rsX' = [rsX EXCEPT !.ver[a] = @ + 1]
            /\ rsEv' = Append(rsEv, [k |-> "damage", n |-> a, seq |-> 0])
      BY <1>1 DEF XcbDraws
    <2>2. a \in RsAll
      BY DEF RsTyped, RsAll
    <2>3. IsXEvent([k |-> "damage", n |-> a, seq |-> 0])
      BY <2>2 DEF IsXEvent
    <2>4. IsQueue(rsEv') /\ \A i \in 1..Len(rsEv') : IsXEvent(rsEv'[i])
      BY <2>1, <2>3, QueueAppended DEF RsTyped
    <2>5. UNCHANGED <<RsServer, rsUp, rsDown, RsClient, rsSwapped>>
      BY <1>1 DEF XcbDraws
    <2>6. RsTyped'
      BY <2>1, <2>4, <2>5 DEF RsTyped, RsServer, RsClient
    <2> QED  BY <2>5, <2>6 DEF RsServer, RsClient, EncodingsFirst, EncodingsRead, BeforeStart, NoFrameYet
  <1>2. CASE XcbResized
    <2>1. PICK n \in RsSizes \ {rsX.size} :
            /\ rsX' = [rsX EXCEPT !.size = n]
            /\ rsEv' = Append(rsEv, [k |-> "crtc", n |-> n, seq |-> rsX.last])
      BY <1>2 DEF XcbResized
    <2>3. IsXEvent([k |-> "crtc", n |-> n, seq |-> rsX.last])
      BY DEF IsXEvent
    <2>4. IsQueue(rsEv') /\ \A i \in 1..Len(rsEv') : IsXEvent(rsEv'[i])
      BY <2>1, <2>3, QueueAppended DEF RsTyped
    <2>5. UNCHANGED <<RsServer, rsUp, rsDown, RsClient, rsSwapped>>
      BY <1>2 DEF XcbResized
    <2>6. RsTyped'
      BY <2>1, <2>4, <2>5 DEF RsTyped, RsServer, RsClient
    <2> QED  BY <2>5, <2>6 DEF RsServer, RsClient, EncodingsFirst, EncodingsRead, BeforeStart, NoFrameYet
  <1>3. ASSUME rsEv # <<>>, rsEv' = Tail(rsEv)
        PROVE  /\ IsQueue(rsEv') /\ \A i \in 1..Len(rsEv') : IsXEvent(rsEv'[i])
               /\ IsXEvent(Head(rsEv))
    BY <1>3, QueueTaken DEF RsTyped
  <1>4. CASE XcbDamageNotify
    <2>1. /\ rsEv # <<>> /\ Head(rsEv).k = "damage" /\ rsEv' = Tail(rsEv)
          /\ rsSrv' = [rsSrv EXCEPT !.damage = @ \union DamageKept(Head(rsEv).n)]
          /\ UNCHANGED <<rsX, rsMain, rsRead, rsHelp, rsUp, rsDown, RsClient, rsSwapped>>
      BY <1>4 DEF XcbDamageNotify, XEvent
    <2>2. DamageKept(Head(rsEv).n) \subseteq RsAll
      BY <2>1, <1>3 DEF DamageKept, IsXEvent
    <2>3. RsTyped'
      BY <2>1, <2>2, <1>3 DEF RsTyped, RsClient
    <2> QED  BY <2>1, <2>3 DEF RsTyped, RsClient, EncodingsFirst, EncodingsRead, BeforeStart, NoFrameYet
  <1>5. CASE XcbRandrScreenChanged
    <2>1. /\ rsEv # <<>> /\ Head(rsEv).k = "crtc" /\ rsEv' = Tail(rsEv)
          /\ rsSrv' = [rsSrv EXCEPT !.size = rsX.size]
          /\ rsX' = [rsX EXCEPT !.last = 0]
          /\ UNCHANGED <<rsMain, rsRead, rsUp, rsDown, RsClient, rsSwapped>>
      BY <1>5 DEF XcbRandrScreenChanged, XEvent, UpdateGeometrySize
    <2>2. \/ rsHelp' = rsHelp
          \/ /\ rsSrv.encodings
             /\ \E k \in {"own", "runtime"} : rsHelp' = rsHelp \union {[k |-> k, n |-> rsX.size, id |-> 0]}
      BY <1>5 DEF XcbRandrScreenChanged, UpdateGeometrySize
    <2>3. \A k \in {"own", "runtime"} : IsHelper([k |-> k, n |-> rsX.size, id |-> 0])
      BY DEF IsHelper, RsTyped
    <2>4. \A t \in rsHelp' : IsHelper(t)
      BY <2>2, <2>3 DEF RsTyped
    <2>5. RsTyped'
      BY <2>1, <2>4, <1>3 DEF RsTyped, RsClient
    <2>6. BeforeStart'
      BY <2>1, <2>2 DEF RsTyped, RsClient, BeforeStart, NoFrameYet
    <2> QED  BY <2>1, <2>5, <2>6 DEF RsTyped, RsClient, EncodingsFirst, EncodingsRead, NoFrameYet
  <1> QED  BY <1>1, <1>2, <1>4, <1>5

(* A message to the client is one it understands.                          *)
LEMMA RsTells ==
  ASSUME RsInv, NEW m, IsDownMessage(m), RsSend(m)
  PROVE  IsQueue(rsDown') /\ \A i \in 1..Len(rsDown') : IsDownMessage(rsDown'[i])
  BY QueueAppended DEF RsInv, RsTyped, RsSend

(* The detached threads: there are none before the client has started.     *)
LEMMA RsHelpKeep ==
  ASSUME RsInv, NEW t \in rsHelp,
         SendEncodingDesktopResize(t) \/ SetRandrScreenSize(t) \/ StoreRandrSequence(t)
  PROVE  RsInv'
  <1> USE DEF RsInv
  <1>1. rsCli.started /\ IsHelper(t)
    BY DEF BeforeStart, RsTyped
  <1>2. CASE SendEncodingDesktopResize(t)
    <2>1. /\ rsHelp' = rsHelp \ {t}
          /\ UNCHANGED <<rsX, rsEv, rsMain, rsRead, rsUp, RsClient, rsSwapped>>
          /\ t.k \in {"runtime", "own", "hello"}
          /\ rsSrv' = rsSrv \/ rsSrv' = [rsSrv EXCEPT !.nego = FALSE]
          /\ \/ rsDown' = rsDown
             \/ \E m : IsDownMessage(m) /\ RsSend(m)
      <3>1. \A s \in {0, 1} : \A n \in RsSizes : IsDownMessage(RsResize(s, FALSE, n))
        BY DEF IsDownMessage, RsResize
      <3>2. /\ rsHelp' = rsHelp \ {t}
            /\ UNCHANGED <<rsX, rsEv, rsMain, rsRead, rsUp, RsClient, rsSwapped>>
            /\ t.k \in {"runtime", "own", "hello"}
        BY <1>2 DEF SendEncodingDesktopResize
      <3>3. CASE t.k = "hello"
        BY <1>2, <3>1, <3>2, <3>3 DEF SendEncodingDesktopResize, RsTyped
      <3>4. CASE t.k = "runtime"
        BY <1>2, <3>1, <3>2, <3>4, <1>1 DEF SendEncodingDesktopResize, IsHelper
      <3>5. CASE t.k = "own"
        BY <1>2, <3>1, <3>2, <3>5, <1>1 DEF SendEncodingDesktopResize, IsHelper
      <3> QED  BY <3>2, <3>3, <3>4, <3>5
    <2>2. IsQueue(rsDown') /\ \A i \in 1..Len(rsDown') : IsDownMessage(rsDown'[i])
      BY <2>1, RsTells DEF RsTyped
    <2>3. RsTyped'
      BY <2>1, <2>2 DEF RsTyped, RsClient
    <2> QED  BY <1>1, <2>1, <2>3 DEF RsTyped, RsClient, EncodingsFirst, EncodingsRead, BeforeStart, NoFrameYet
  <1>3. CASE SetRandrScreenSize(t)
    <2>1. /\ UNCHANGED <<rsMain, rsRead, rsUp, RsClient, rsSwapped>>
          /\ t.k = "resizer"
      BY <1>3 DEF SetRandrScreenSize
    <2>2. CASE /\ SetDisplaySize(t.n, rsLeft.id + 1)
               /\ rsHelp' = (rsHelp \ {t}) \union {[t EXCEPT !.k = "resized", !.id = rsLeft.id + 1]}
               /\ UNCHANGED <<rsSrv, rsDown>>
      <3>1. IsHelper([t EXCEPT !.k = "resized", !.id = rsLeft.id + 1]) /\ t.n \in RsSizes
        BY <1>1, <2>1 DEF IsHelper
      <3>2. \A h \in rsHelp' : IsHelper(h)
        BY <2>2, <3>1 DEF RsTyped
      <3>3. IsXEvent([k |-> "crtc", n |-> t.n, seq |-> rsLeft.id + 1])
        BY DEF IsXEvent
      <3>4. IsQueue(rsEv') /\ \A i \in 1..Len(rsEv') : IsXEvent(rsEv'[i])
        BY <2>2, <3>3, QueueAppended DEF RsTyped, SetDisplaySize
      <3>5. DOMAIN rsX' = {"size", "ver", "last"} /\ rsX'.size \in RsSizes
        BY <2>2, <3>1 DEF RsTyped, SetDisplaySize
      <3>6. RsTyped'
        BY <2>1, <2>2, <3>2, <3>4, <3>5 DEF RsTyped, RsClient
      <3> QED  BY <1>1, <2>1, <2>2, <3>6 DEF RsClient, EncodingsFirst, EncodingsRead, BeforeStart, NoFrameYet
    <2>3. CASE /\ rsSrv' = [rsSrv EXCEPT !.nego = FALSE, !.randr = 0]
               /\ RsSend(RsResize(1, TRUE, rsSrv.size))
               /\ rsHelp' = rsHelp \ {t}
               /\ UNCHANGED <<rsX, rsEv, rsLeft>>
      <3>1. IsDownMessage(RsResize(1, TRUE, rsSrv.size))
        BY DEF IsDownMessage, RsResize, RsTyped
      <3>2. IsQueue(rsDown') /\ \A i \in 1..Len(rsDown') : IsDownMessage(rsDown'[i])
        BY <2>3, <3>1, RsTells
      <3>3. RsTyped'
        BY <2>1, <2>3, <3>2 DEF RsTyped, RsClient
      <3> QED  BY <1>1, <2>1, <2>3, <3>3 DEF RsTyped, RsClient, EncodingsFirst, EncodingsRead, BeforeStart, NoFrameYet
    <2> QED  BY <1>3, <2>2, <2>3 DEF SetRandrScreenSize
  <1>4. CASE StoreRandrSequence(t)
    <2>1. /\ rsSrv' = [rsSrv EXCEPT !.randr = t.id] /\ rsHelp' = rsHelp \ {t}
          /\ UNCHANGED <<rsX, rsEv, rsMain, rsRead, rsUp, rsDown, RsClient, rsLeft, rsSwapped>>
      BY <1>4 DEF StoreRandrSequence
    <2>2. RsTyped'
      BY <2>1 DEF RsTyped, RsClient
    <2> QED  BY <1>1, <2>1, <2>2 DEF RsTyped, RsClient, EncodingsFirst, EncodingsRead, BeforeStart, NoFrameYet
  <1> QED  BY <1>2, <1>3, <1>4

(* A frame is begun only when the client has asked for one, which it does  *)
(* after its encodings.                                                    *)
LEMMA RsFrameKeep ==
  ASSUME RsInv, FrameBegins \/ FrameSent
  PROVE  RsInv'
  <1> USE DEF RsInv
  <1>1. CASE FrameBegins
    <2>1. /\ rsSrv.region # {}
          /\ UNCHANGED <<rsEv, rsRead, rsHelp, rsUp, rsDown, RsClient, rsSwapped>>
          /\ rsX' = [rsX EXCEPT !.last = 0]
      BY <1>1 DEF FrameBegins, FrameDue
    <2>2. FrameRegion \subseteq RsAll
      BY DEF FrameRegion, RsTyped, RsAll
    <2>3. /\ DOMAIN rsMain' = {"at", "areas", "ver"} /\ rsMain'.areas \subseteq RsAll
          /\ rsMain'.at \in {"loop", "send"}
      <3> DEFINE F == FrameRegion
      <3>1. \/ rsMain' = [at |-> "send", areas |-> F, ver |-> rsX.ver]
            \/ rsMain' = rsMain
        BY <1>1 DEF FrameBegins
      <3> HIDE DEF F
      <3>2. F \subseteq RsAll
        BY <2>2 DEF F
      <3> QED  BY <3>1, <3>2 DEF RsTyped
    <2>4. /\ DOMAIN rsSrv' = DOMAIN rsSrv /\ rsSrv'.size = rsSrv.size /\ rsSrv'.region = rsSrv.region
          /\ rsSrv'.enc = rsSrv.enc /\ rsSrv'.damage \subseteq RsAll
      <3> DEFINE F == FrameRegion
      <3>1. \/ \E ok \in BOOLEAN : rsSrv' = [rsSrv EXCEPT !.full = FALSE, !.damage = F, !.run = ok]
            \/ rsSrv' = [rsSrv EXCEPT !.full = FALSE, !.damage = {}]
        BY <1>1 DEF FrameBegins
      <3> HIDE DEF F
      <3>2. F \subseteq RsAll
        BY <2>2 DEF F
      <3> QED  BY <3>1, <3>2 DEF RsTyped
    <2>5. RsTyped'
      BY <2>1, <2>3, <2>4 DEF RsTyped, RsClient
    <2> QED  BY <2>1, <2>5 DEF RsClient, EncodingsFirst, EncodingsRead, BeforeStart, NoFrameYet
  <1>2. CASE FrameSent
    <2>1. /\ rsMain.at = "send"
          /\ rsMain' = [rsMain EXCEPT !.at = "loop", !.areas = {}, !.ver = <<>>]
          /\ rsSrv' = [rsSrv EXCEPT !.damage = {}]
          /\ UNCHANGED <<rsX, rsEv, rsRead, rsHelp, rsUp, RsClient, rsSwapped>>
      BY <1>2 DEF FrameSent
    <2>2. IsDownMessage([k |-> "fb", areas |-> rsMain.areas, ver |-> rsMain.ver])
      BY DEF IsDownMessage
    <2>3. IsQueue(rsDown') /\ \A i \in 1..Len(rsDown') : IsDownMessage(rsDown'[i])
      BY <1>2, <2>2, RsTells DEF RsTyped, FrameSent
    <2>4. RsTyped'
      BY <2>1, <2>3 DEF RsTyped, RsClient
    <2> QED  BY <2>1, <2>4 DEF RsTyped, RsClient, EncodingsFirst, EncodingsRead, BeforeStart, NoFrameYet
  <1> QED  BY <1>1, <1>2

(* The reading thread takes a message: what is left was behind it.         *)
LEMMA RsTakenKeep ==
  ASSUME RsInv, rsUp # <<>>, rsUp' = Tail(rsUp)
  PROVE  /\ IsQueue(rsUp') /\ \A i \in 1..Len(rsUp') : IsUpMessage(rsUp'[i])
         /\ \A i \in 1..Len(rsUp') : rsUp'[i].k # "encodings"
         /\ IsUpMessage(Head(rsUp)) /\ rsCli.started
         /\ Head(rsUp).k = "encodings" => rsRead = "read" /\ NoFrameYet
  <1> USE DEF RsInv
  <1>1. /\ IsQueue(Tail(rsUp)) /\ Len(rsUp) \in Nat \ {0} /\ Len(Tail(rsUp)) = Len(rsUp) - 1
        /\ 1 \in 1..Len(rsUp) /\ Head(rsUp) = rsUp[1]
        /\ \A i \in 1..Len(Tail(rsUp)) : i + 1 \in 1..Len(rsUp) /\ Tail(rsUp)[i] = rsUp[i + 1]
    BY QueueTaken DEF RsTyped
  <1>2. \A i \in 1..Len(rsUp') : i + 1 # 1
    BY <1>1
  <1> QED  BY <1>1, <1>2 DEF RsTyped, EncodingsFirst, BeforeStart

LEMMA RsReadKeep ==
  ASSUME RsInv,
         \/ RecvSetEncodingsWaits \/ RecvSetEncodings \/ RecvFramebufferUpdate
         \/ RecvSetContinuousUpdates \/ RecvSetDesktopSize
  PROVE  RsInv'
  <1> USE DEF RsInv
  <1>1. CASE RecvSetEncodingsWaits
    <2>1. /\ rsUp # <<>> /\ Head(rsUp).k = "encodings" /\ rsUp' = Tail(rsUp)
          /\ rsRead' = "encodings"
          /\ UNCHANGED <<rsX, rsEv, rsSrv, rsMain, rsHelp, rsDown, RsClient, rsLeft, rsSwapped>>
      BY <1>1 DEF RecvSetEncodingsWaits, RsTakes
    <2>2. RsTyped'
      BY <2>1, RsTakenKeep DEF RsTyped, RsClient
    <2>3. NoFrameYet'
      BY <2>1, RsTakenKeep DEF NoFrameYet
    <2> QED  BY <2>1, <2>2, <2>3, RsTakenKeep DEF RsClient, EncodingsFirst, EncodingsRead, BeforeStart
  <1>2. CASE RecvSetEncodings
    <2>1. /\ rsRead = "encodings" /\ rsRead' = "read"
          /\ rsSrv' = [rsSrv EXCEPT !.enc = "zqoi", !.encodings = TRUE, !.cont = TRUE]
          /\ rsSwapped' = (rsSwapped \/ rsMain.at = "send")
          /\ RsSend(RsContinuous)
          /\ rsHelp' = rsHelp \union {[k |-> "hello", n |-> 0, id |-> 0]}
          /\ UNCHANGED <<rsX, rsEv, rsMain, rsUp, RsClient, rsLeft>>
      BY <1>2 DEF RecvSetEncodings, SelectClientEncoding
    <2>2. IsDownMessage(RsContinuous) /\ IsHelper([k |-> "hello", n |-> 0, id |-> 0])
      BY DEF IsDownMessage, RsContinuous, IsHelper
    <2>3. IsQueue(rsDown') /\ \A i \in 1..Len(rsDown') : IsDownMessage(rsDown'[i])
      BY <2>1, <2>2, RsTells
    <2>4. rsCli.started /\ NoFrameYet /\ rsSwapped' = FALSE
      BY <2>1 DEF BeforeStart, RsTyped, EncodingsRead, NoFrameYet
    <2>5. RsTyped'
      BY <2>1, <2>2, <2>3 DEF RsTyped, RsClient
    <2> QED  BY <2>1, <2>4, <2>5 DEF RsTyped, RsClient, EncodingsFirst, EncodingsRead, BeforeStart, NoFrameYet
  <1>3. CASE RecvFramebufferUpdate
    <2>1. /\ rsUp # <<>> /\ Head(rsUp).k = "update" /\ rsUp' = Tail(rsUp) /\ rsRead = "read"
          /\ UNCHANGED <<rsX, rsEv, rsMain, rsRead, rsHelp, rsDown, RsClient, rsLeft, rsSwapped>>
      BY <1>3 DEF RecvFramebufferUpdate, RsTakes
    <2>2. \E b, R : /\ R \subseteq RsAll
                    /\ rsSrv' = [rsSrv EXCEPT !.full = b, !.region = R]
      <3>1. RsAreas(Head(rsUp).size) \subseteq RsAll
        BY <2>1, RsTakenKeep DEF IsUpMessage, RsAll
      <3> QED  BY <1>3, <3>1 DEF RecvFramebufferUpdate
    <2>3. RsTyped'
      BY <2>1, <2>2, RsTakenKeep DEF RsTyped, RsClient
    <2> QED  BY <2>1, <2>3, RsTakenKeep DEF RsTyped, RsClient, EncodingsFirst, EncodingsRead, BeforeStart
  <1>4. CASE RecvSetContinuousUpdates
    <2>1. /\ rsUp # <<>> /\ Head(rsUp).k = "continuous" /\ rsUp' = Tail(rsUp) /\ rsRead = "read"
          /\ rsSrv' = [rsSrv EXCEPT !.cont = FALSE, !.region = RsAreas(Head(rsUp).size)]
          /\ UNCHANGED <<rsX, rsEv, rsMain, rsRead, rsHelp, rsDown, RsClient, rsLeft, rsSwapped>>
      BY <1>4 DEF RecvSetContinuousUpdates, RsTakes
    <2>2. RsAreas(Head(rsUp).size) \subseteq RsAll
      BY <2>1, RsTakenKeep DEF IsUpMessage, RsAll
    <2>3. RsTyped'
      BY <2>1, <2>2, RsTakenKeep DEF RsTyped, RsClient
    <2> QED  BY <2>1, <2>3, RsTakenKeep DEF RsTyped, RsClient, EncodingsFirst, EncodingsRead, BeforeStart
  <1>5. CASE RecvSetDesktopSize
    <2>1. /\ rsUp # <<>> /\ Head(rsUp).k = "desktop" /\ rsUp' = Tail(rsUp) /\ rsRead = "read"
          /\ UNCHANGED <<rsX, rsEv, rsMain, rsRead, RsClient, rsSwapped>>
      BY <1>5 DEF RecvSetDesktopSize, RsTakes
    <2> DEFINE n == Head(rsUp).size
    <2>2. n \in RsSizes
      BY <2>1, RsTakenKeep DEF IsUpMessage
    <2>3. /\ rsSrv' = rsSrv \/ rsSrv' = [rsSrv EXCEPT !.nego = TRUE]
          /\ rsHelp' = rsHelp \/ rsHelp' = rsHelp \union {[k |-> "resizer", n |-> n, id |-> 0]}
          /\ rsDown' = rsDown \/ RsSend(RsResize(1, FALSE, n))
      BY <1>5 DEF RecvSetDesktopSize
    <2>4. IsHelper([k |-> "resizer", n |-> n, id |-> 0]) /\ IsDownMessage(RsResize(1, FALSE, n))
      BY <2>2 DEF IsHelper, IsDownMessage, RsResize
    <2>5. IsQueue(rsDown') /\ \A i \in 1..Len(rsDown') : IsDownMessage(rsDown'[i])
      BY <2>3, <2>4, RsTells DEF RsTyped
    <2>6. \A t \in rsHelp' : IsHelper(t)
      BY <2>3, <2>4 DEF RsTyped
    <2>7. RsTyped'
      BY <2>1, <2>3, <2>5, <2>6, RsTakenKeep DEF RsTyped, RsClient
    <2> QED  BY <2>1, <2>3, <2>7, RsTakenKeep DEF RsTyped, RsClient, EncodingsFirst, EncodingsRead, BeforeStart
  <1> QED  BY <1>1, <1>2, <1>3, <1>4, <1>5

(* A client that has started sends no encodings again.                     *)
LEMMA RsAsks ==
  ASSUME RsInv, NEW m, IsUpMessage(m), m.k # "encodings", rsUp' = Append(rsUp, m),
         rsSrv' = rsSrv, rsMain' = rsMain, rsRead' = rsRead
  PROVE  /\ IsQueue(rsUp') /\ \A i \in 1..Len(rsUp') : IsUpMessage(rsUp'[i])
         /\ EncodingsFirst'
  <1>1. /\ IsQueue(rsUp')
        /\ \A i \in 1..Len(rsUp) : i \in 1..Len(rsUp') /\ rsUp'[i] = rsUp[i]
        /\ rsUp'[Len(rsUp) + 1] = m
        /\ \A i \in 1..Len(rsUp') : i \in 1..Len(rsUp) \/ i = Len(rsUp) + 1
    BY QueueAppended DEF RsInv, RsTyped
  <1> QED  BY <1>1 DEF RsInv, RsTyped, EncodingsFirst, NoFrameYet

LEMMA RsClientKeep ==
  ASSUME RsInv,
         \/ RfbMessagesLoop \/ RfbRequestIncrUpdate \/ RecvContinuousUpdates \/ RecvScreenUpdate
         \/ RecvDecodingDesktopSize \/ SdlUserEvent \/ WindowResized
  PROVE  RsInv'
  <1> USE DEF RsInv
  <1>1. CASE RfbMessagesLoop
    <2> DEFINE e == [k |-> "encodings", incr |-> FALSE, size |-> 0]
               r == RsRequest(FALSE, rsCli.win)
    <2>1. /\ ~rsCli.started /\ rsCli' = [rsCli EXCEPT !.started = TRUE]
          /\ rsUp' = <<e, r>>
          /\ UNCHANGED <<rsX, rsEv, RsServer, rsDown, rsSdl, rsLeft, rsSwapped>>
      BY <1>1 DEF RfbMessagesLoop
    <2>2. IsUpMessage(e) /\ IsUpMessage(r) /\ r.k # "encodings"
      BY DEF IsUpMessage, RsRequest, RsTyped
    <2> HIDE DEF e, r
    <2>3. IsQueue(rsUp') /\ Len(rsUp') = 2 /\ rsUp'[1] = e /\ rsUp'[2] = r
      BY <2>1, QueueTwo
    <2>4. \A i \in 1..Len(rsUp') : (i = 1 /\ rsUp'[i] = e) \/ rsUp'[i] = r
      BY <2>3
    <2>5. NoFrameYet /\ rsRead = "read"
      BY <2>1 DEF BeforeStart
    <2>6. RsTyped'
      BY <2>1, <2>2, <2>3, <2>4 DEF RsTyped, RsServer
    <2>7. EncodingsFirst'
      BY <2>1, <2>2, <2>4, <2>5 DEF EncodingsFirst, NoFrameYet, RsServer
    <2> QED  BY <2>1, <2>5, <2>6, <2>7 DEF RsTyped, RsServer, EncodingsRead, BeforeStart, NoFrameYet
  <1>2. CASE RfbRequestIncrUpdate
    <2>1. /\ rsCli.started /\ rsUp' = Append(rsUp, RsRequest(TRUE, rsCli.win))
          /\ UNCHANGED <<rsX, rsEv, RsServer, rsDown, RsClient, rsSwapped>>
      BY <1>2 DEF RfbRequestIncrUpdate
    <2>2. IsUpMessage(RsRequest(TRUE, rsCli.win)) /\ RsRequest(TRUE, rsCli.win).k # "encodings"
      BY DEF IsUpMessage, RsRequest, RsTyped
    <2>3. /\ IsQueue(rsUp') /\ \A i \in 1..Len(rsUp') : IsUpMessage(rsUp'[i])
          /\ EncodingsFirst'
      BY <2>1, <2>2, RsAsks DEF RsServer
    <2>4. RsTyped'
      BY <2>1, <2>3 DEF RsTyped, RsServer, RsClient
    <2> QED  BY <2>1, <2>3, <2>4 DEF RsServer, RsClient, EncodingsRead, BeforeStart, NoFrameYet
  <1>3. ASSUME rsDown # <<>>, rsDown' = Tail(rsDown)
        PROVE  /\ IsQueue(rsDown') /\ \A i \in 1..Len(rsDown') : IsDownMessage(rsDown'[i])
               /\ IsDownMessage(Head(rsDown)) /\ rsCli.started
    BY <1>3, QueueTaken DEF RsTyped, BeforeStart
  <1>4. CASE RecvContinuousUpdates
    <2>1. /\ rsDown # <<>> /\ rsDown' = Tail(rsDown)
          /\ rsUp' = Append(rsUp, RsCont(rsCli.win))
          /\ UNCHANGED <<rsX, rsEv, RsServer, RsClient, rsLeft, rsSwapped>>
      BY <1>4 DEF RecvContinuousUpdates, CliTakes
    <2>2. IsUpMessage(RsCont(rsCli.win)) /\ RsCont(rsCli.win).k # "encodings"
      BY DEF IsUpMessage, RsCont, RsTyped
    <2>3. /\ IsQueue(rsUp') /\ \A i \in 1..Len(rsUp') : IsUpMessage(rsUp'[i])
          /\ EncodingsFirst'
      BY <2>1, <2>2, RsAsks DEF RsServer
    <2>4. RsTyped'
      BY <2>1, <2>3, <1>3 DEF RsTyped, RsServer, RsClient
    <2> QED  BY <1>3, <2>1, <2>3, <2>4 DEF RsServer, RsClient, EncodingsRead, BeforeStart, NoFrameYet
  <1>5. CASE RecvScreenUpdate
    <2>1. /\ rsDown # <<>> /\ rsDown' = Tail(rsDown)
          /\ \E s : rsCli' = [rsCli EXCEPT !.shown = s]
          /\ UNCHANGED <<rsX, rsEv, RsServer, rsUp, rsSdl, rsLeft, rsSwapped>>
      BY <1>5 DEF RecvScreenUpdate, CliTakes
    <2>2. RsTyped'
      BY <2>1, <1>3 DEF RsTyped, RsServer
    <2> QED  BY <1>3, <2>1, <2>2 DEF RsTyped, RsServer, EncodingsFirst, EncodingsRead, BeforeStart, NoFrameYet
  <1>6. CASE RecvDecodingDesktopSize
    <2> DEFINE m == Head(rsDown)
    <2>1. /\ rsDown # <<>> /\ m.k = "resize" /\ rsDown' = Tail(rsDown) /\ DesktopSizeEvent(m)
          /\ UNCHANGED <<rsX, rsEv, RsServer, rsLeft, rsSwapped>>
      BY <1>6 DEF RecvDecodingDesktopSize, CliTakes
    <2>2. m.n \in RsSizes /\ rsCli.started
      BY <2>1, <1>3 DEF IsDownMessage
    <2> HIDE DEF m
    <2>3. /\ rsCli' = rsCli \/ rsCli' = [rsCli EXCEPT !.nego = TRUE]
          /\ rsUp' = rsUp \/ (RsPrimary # 0 /\ rsUp' = Append(rsUp, RsDesktop(RsPrimary)))
          /\ rsSdl' = rsSdl \/ rsSdl' = Append(rsSdl, m.n)
      BY <2>1 DEF DesktopSizeEvent, PushEventWindowResize
    <2>4. RsPrimary # 0 => IsUpMessage(RsDesktop(RsPrimary)) /\ RsDesktop(RsPrimary).k # "encodings"
      BY RsAssumption DEF IsUpMessage, RsDesktop
    <2>5. /\ IsQueue(rsUp') /\ \A i \in 1..Len(rsUp') : IsUpMessage(rsUp'[i])
          /\ EncodingsFirst'
      <3>1. CASE rsUp' = rsUp
        BY <2>1, <3>1 DEF RsTyped, RsServer, EncodingsFirst, NoFrameYet
      <3>2. CASE rsUp' # rsUp
        BY <2>1, <2>3, <2>4, <3>2, RsAsks DEF RsServer
      <3> QED  BY <3>1, <3>2
    <2>6. IsQueue(rsSdl') /\ \A i \in 1..Len(rsSdl') : rsSdl'[i] \in RsSizes
      <3>1. IsQueue(rsSdl) /\ \A i \in 1..Len(rsSdl) : rsSdl[i] \in RsSizes
        BY DEF RsTyped
      <3>2. CASE rsSdl' = Append(rsSdl, m.n)
        <4> DEFINE k == m.n
        <4>1. k \in RsSizes /\ rsSdl' = Append(rsSdl, k)
          BY <2>2, <3>2
        <4> HIDE DEF k
        <4> QED  BY <4>1, <3>1, QueueAppended
      <3> QED  BY <3>1, <3>2, <2>3
    <2>7. RsTyped'
      BY <2>1, <2>3, <2>5, <2>6, <1>3 DEF RsTyped, RsServer
    <2> QED  BY <2>1, <2>2, <2>3, <2>5, <2>7 DEF RsTyped, RsServer, EncodingsRead, BeforeStart, NoFrameYet
  <1>7. CASE SdlUserEvent
    <2>1. /\ rsSdl # <<>> /\ rsSdl' = Tail(rsSdl)
          /\ rsCli' = [rsCli EXCEPT !.win = Head(rsSdl)]
          /\ rsUp' = Append(rsUp, RsRequest(FALSE, Head(rsSdl)))
          /\ UNCHANGED <<rsX, rsEv, RsServer, rsDown, rsLeft, rsSwapped>>
      BY <1>7 DEF SdlUserEvent
    <2>2. /\ IsQueue(rsSdl') /\ \A i \in 1..Len(rsSdl') : rsSdl'[i] \in RsSizes
          /\ Head(rsSdl) \in RsSizes /\ rsCli.started
      BY <2>1, QueueTaken DEF RsTyped, BeforeStart
    <2>3. IsUpMessage(RsRequest(FALSE, Head(rsSdl))) /\ RsRequest(FALSE, Head(rsSdl)).k # "encodings"
      BY <2>2 DEF IsUpMessage, RsRequest
    <2>4. /\ IsQueue(rsUp') /\ \A i \in 1..Len(rsUp') : IsUpMessage(rsUp'[i])
          /\ EncodingsFirst'
      BY <2>1, <2>3, RsAsks DEF RsServer
    <2>5. RsTyped'
      BY <2>1, <2>2, <2>4 DEF RsTyped, RsServer
    <2> QED  BY <2>1, <2>2, <2>4, <2>5 DEF RsTyped, RsServer, EncodingsRead, BeforeStart, NoFrameYet
  <1>8. CASE WindowResized
    <2>1. rsCli.started /\ UNCHANGED <<rsX, rsEv, RsServer, rsDown, rsSdl, rsSwapped>>
      BY <1>8 DEF WindowResized
    <2>2. PICK n \in RsSizes :
            /\ rsCli' = [rsCli EXCEPT !.win = n]
            /\ rsUp' = rsUp \o <<RsDesktop(n), RsRequest(FALSE, n)>>
      BY <1>8 DEF WindowResized
    <2> DEFINE two == <<RsDesktop(n), RsRequest(FALSE, n)>>
    <2>3. /\ IsQueue(two) /\ Len(two) = 2
          /\ \A i \in 1..Len(two) : IsUpMessage(two[i]) /\ two[i].k # "encodings"
      <3>1. /\ IsUpMessage(RsDesktop(n)) /\ RsDesktop(n).k # "encodings"
            /\ IsUpMessage(RsRequest(FALSE, n)) /\ RsRequest(FALSE, n).k # "encodings"
        BY DEF IsUpMessage, RsDesktop, RsRequest
      <3>2. /\ IsQueue(two) /\ Len(two) = 2
            /\ two[1] = RsDesktop(n) /\ two[2] = RsRequest(FALSE, n)
        BY QueueTwo
      <3> HIDE DEF two
      <3>3. \A i \in 1..Len(two) : i = 1 \/ i = 2
        BY <3>2
      <3> QED  BY <3>1, <3>2, <3>3
    <2>9. rsUp' = rsUp \o two
      BY <2>2
    <2> HIDE DEF two
    <2>4. /\ IsQueue(rsUp')
          /\ \A i \in 1..Len(rsUp') :
               \/ i \in 1..Len(rsUp) /\ rsUp'[i] = rsUp[i]
               \/ i - Len(rsUp) \in 1..Len(two) /\ rsUp'[i] = two[i - Len(rsUp)]
      <3>1. IsQueue(rsUp) /\ IsQueue(two)
        BY <2>3 DEF RsTyped
      <3> DEFINE j == rsUp \o two
      <3>2. /\ IsQueue(j)
            /\ \A i \in 1..Len(j) :
                 \/ i \in 1..Len(rsUp) /\ j[i] = rsUp[i]
                 \/ i - Len(rsUp) \in 1..Len(two) /\ j[i] = two[i - Len(rsUp)]
        BY <3>1, QueueJoined
      <3> HIDE DEF j
      <3> QED  BY <3>2, <2>9 DEF j
    <2>5. \A i \in 1..Len(rsUp') : IsUpMessage(rsUp'[i])
      BY <2>3, <2>4 DEF RsTyped
    <2>6. EncodingsFirst'
      BY <2>1, <2>3, <2>4 DEF EncodingsFirst, NoFrameYet, RsServer
    <2>7. RsTyped'
      BY <2>1, <2>2, <2>4, <2>5 DEF RsTyped, RsServer
    <2> QED  BY <2>1, <2>2, <2>6, <2>7 DEF RsTyped, RsServer, EncodingsRead, BeforeStart, NoFrameYet
  <1> QED  BY <1>1, <1>2, <1>4, <1>5, <1>6, <1>7, <1>8

LEMMA RsInvStep == RsInv /\ [RsNext]_RsVars => RsInv'
  <1> SUFFICES ASSUME RsInv, [RsNext]_RsVars PROVE RsInv'
    OBVIOUS
  <1>1. CASE RsNext
    BY <1>1, RsXKeep, RsHelpKeep, RsFrameKeep, RsReadKeep, RsClientKeep DEF RsNext
  <1>2. CASE UNCHANGED RsVars
    BY <1>2 DEF RsVars, RsServer, RsClient, RsInv, RsTyped, EncodingsFirst, EncodingsRead, BeforeStart, NoFrameYet
  <1> QED  BY <1>1, <1>2

\* recvSetEncodings replaces the encoder while the main loop may use it, and
\* its wait for the frame being sent does not keep a new one from beginning:
\* with LTSM's client, whose encodings come before its first request, none
\* can, whatever is resized, drawn and asked for besides.
THEOREM EncoderKept == RsSpec => []RsUpdateKept
  <1>1. RsInit => RsInv
    BY RsInitEstablishes
  <1> QED  BY <1>1, RsInvStep, RsInvGives, PTL DEF RsSpec

-----------------------------------------------------------------------------
(***************************************************************************)
(* What the window is still owed.  As long as the client resizes in turn,  *)
(* each area both the screen and the window have is shown as it is, or its *)
(* damage is on the way, or the whole window will be asked for.            *)
(***************************************************************************)
\* the request at i is for all of the window, and what follows is of its size
AsksAll(i) ==
    /\ rsUp[i].k = "update" /\ ~rsUp[i].incr
    /\ \A j \in 1..Len(rsUp) : j >= i /\ rsUp[j].k \in {"update", "continuous"} => rsUp[j].size = rsCli.win
AllComing == \E i \in 1..Len(rsUp) : AsksAll(i)
\* the window will be resized, and then asks for everything
PushComing ==
    \/ rsSdl # <<>>
    \/ \E i \in 1..Len(rsDown) : rsDown[i].k = "resize" /\ rsDown[i].status = 1 /\ rsDown[i].n # rsCli.win
Whole == rsSrv.full \/ AllComing
Owed == Whole \/ PushComing

\* the region the server clips to is the window
SizesRight == \A j \in 1..Len(rsUp) : rsUp[j].k \in {"update", "continuous"} => rsUp[j].size = rsCli.win
RegionRight == rsSrv.region \in {{}, RsAreas(rsCli.win)} /\ SizesRight
ContComing ==
    \/ \E i \in 1..Len(rsUp) : rsUp[i].k = "continuous"
    \/ \E i \in 1..Len(rsDown) : rsDown[i].k = "continuous"
RegionFits ==
    /\ rsCli.started => AllComing \/ RegionRight
    /\ rsCli.started => AllComing \/ rsSrv.region # {} \/ ContComing
    /\ rsSrv.cont => ContComing

\* an area is shown as it is, once the frames on the way have arrived
Brings(i, a) == rsDown[i].k = "fb" /\ a \in rsDown[i].areas
ShownNow(a) == \A j \in 1..Len(rsDown) : Brings(j, a) => rsDown[j].ver[a] = rsX.ver[a]
Current(a) ==
    \/ rsCli.shown[a] = rsX.ver[a] /\ ShownNow(a)
    \/ \E i \in 1..Len(rsDown) :
        /\ Brings(i, a)
        /\ \A j \in 1..Len(rsDown) : j >= i /\ Brings(j, a) => rsDown[j].ver[a] = rsX.ver[a]
DamageOf(a) == \E i \in 1..Len(rsEv) : rsEv[i].k = "damage" /\ rsEv[i].n = a
Fine(a) ==
    \/ Current(a) \/ DamageOf(a)
    \/ rsMain.at = "loop" /\ a \in rsSrv.damage
    \/ rsMain.at = "send" /\ a \in rsMain.areas /\ rsMain.ver[a] = rsX.ver[a]
Both == RsAreas(rsX.size) \intersect RsAreas(rsCli.win)
SendFits == rsMain.at = "send" => \A a \in rsMain.areas : rsMain.ver[a] = rsX.ver[a] \/ DamageOf(a)

\* One resize at a time: its thread, the X event it causes or the thread
\* that will answer, and when it is answered the window asks for everything
\* unless it has that size already and has asked.
IsCrtc(i) == rsEv[i].k = "crtc"
NoCrtc == \A i \in 1..Len(rsEv) : ~IsCrtc(i)
Threads(k) == {t \in rsHelp : t.k = k}
Target(n) == rsCli.win = n => Whole
Settled ==
    /\ NoCrtc => rsSrv.size = rsX.size
    /\ ~rsSrv.nego => NoCrtc /\ Threads("resizer") = {} /\ Threads("own") = {}
ResizerAlone ==
    \A t \in Threads("resizer") : NoCrtc /\ Threads("own") = {} /\ Threads("resizer") = {t} /\ Target(t.n)
CrtcAlone ==
    \A i \in 1..Len(rsEv) : IsCrtc(i) =>
        /\ Threads("resizer") = {} /\ Threads("own") = {} /\ Target(rsX.size)
        /\ \A j \in 1..Len(rsEv) : IsCrtc(j) => i = j
OwnAlone ==
    \A t \in Threads("own") : NoCrtc /\ Threads("own") = {t} /\ t.n = rsX.size /\ Target(rsX.size)
\* damage is of the size it was drawn at, which is known when its turn comes
EventsFit ==
    \A i \in 1..Len(rsEv) : rsEv[i].k = "damage" =>
        /\ rsEv[i].n \in RsAreas(rsSrv.size) \/ \E j \in 1..Len(rsEv) : j < i /\ IsCrtc(j)
        /\ rsEv[i].n \in RsAreas(rsX.size) \/ \E j \in 1..Len(rsEv) : j > i /\ IsCrtc(j)
DesktopFits ==
    \A i \in 1..Len(rsUp) : rsUp[i].k = "desktop" /\ rsUp[i].size = rsCli.win =>
        \E j \in 1..Len(rsUp) : j > i /\ AsksAll(j)
Resizes == Settled /\ ResizerAlone /\ CrtcAlone /\ OwnAlone /\ EventsFit /\ DesktopFits

\* while a resize is under way nothing is said of what is shown
Steady == rsCli.started /\ rsSrv.run /\ (~rsSrv.nego \/ Threads("resizer") # {})
ShownFits == Steady => Owed \/ \A a \in Both : Fine(a)

LeftTyped ==
    /\ DOMAIN rsLeft = {"draw", "resize", "foreign", "again", "incr", "id"}
    /\ DOMAIN rsX.ver = RsAll
ScreenRest == LeftTyped /\ RegionFits /\ SendFits /\ (RsInTurn => Resizes /\ ShownFits)
ScreenInv == RsInv /\ ScreenRest

LEMMA ScreenInvGives == ScreenInv => RsShowsScreen
  <1> SUFFICES ASSUME ScreenInv, RsQuiet, rsSrv.run, ~rsSrv.nego, RsInTurn, NEW a \in Both
               PROVE  rsCli.shown[a] = rsX.ver[a]
    BY DEF RsShowsScreen, Both
  <1>1. Len(rsUp) = 0 /\ Len(rsDown) = 0 /\ Len(rsEv) = 0 /\ rsSdl = <<>>
    BY QueueEmpty DEF RsQuiet
  <1>2. ~AllComing /\ ~PushComing /\ ~ContComing /\ ~DamageOf(a)
    BY <1>1 DEF AllComing, PushComing, ContComing, DamageOf
  <1>3. rsCli.started /\ rsSrv.region # {}
    BY <1>2 DEF RsQuiet, ScreenInv, ScreenRest, RegionFits
  <1>4. ~rsSrv.full /\ rsSrv.damage = {} /\ rsMain.at = "loop"
    BY <1>3 DEF RsQuiet, FrameDue
  <1>5. Fine(a)
    BY <1>2, <1>3, <1>4 DEF ScreenInv, ScreenRest, ShownFits, Steady, Owed, Whole
  <1>6. Current(a)
    BY <1>2, <1>4, <1>5 DEF Fine
  <1> QED  BY <1>1, <1>6 DEF Current

LEMMA ScreenInvInit == ASSUME RsInit PROVE ScreenInv
  <1>1. RsInv
    BY RsInitEstablishes
  <1>2. Len(rsUp) = 0 /\ Len(rsDown) = 0 /\ Len(rsEv) = 0
    BY QueueEmpty DEF RsInit
  <1>3. LeftTyped /\ RegionFits /\ SendFits
    BY DEF RsInit, LeftTyped, RegionFits, SendFits
  <1>4. Threads("resizer") = {} /\ Threads("own") = {} /\ NoCrtc
    BY <1>2 DEF RsInit, Threads, NoCrtc
  <1>5. Settled /\ ResizerAlone /\ OwnAlone
    BY <1>4 DEF RsInit, Settled, ResizerAlone, OwnAlone
  <1>6. CrtcAlone /\ EventsFit /\ DesktopFits
    BY <1>2 DEF CrtcAlone, EventsFit, DesktopFits
  <1>7. ShownFits
    BY DEF RsInit, ShownFits, Steady
  <1> QED  BY <1>1, <1>3, <1>5, <1>6, <1>7 DEF ScreenInv, ScreenRest, Resizes

-----------------------------------------------------------------------------
(* The queue to the server.                                                *)
LEMMA UpAppended ==
  ASSUME RsInv, NEW m, rsUp' = Append(rsUp, m), rsCli'.win = rsCli.win,
         m.k \in {"update", "continuous"} => m.size = rsCli.win
  PROVE  /\ AllComing => AllComing'
         /\ SizesRight => SizesRight'
         /\ (m.k = "desktop" => m.size # rsCli.win) /\ DesktopFits => DesktopFits'
         /\ \A i \in 1..Len(rsUp) : i \in 1..Len(rsUp') /\ rsUp'[i] = rsUp[i]
         /\ Len(rsUp') \in 1..Len(rsUp') /\ rsUp'[Len(rsUp')] = m
  <1>1. /\ Len(rsUp) \in Nat /\ Len(rsUp') = Len(rsUp) + 1
        /\ \A i \in 1..Len(rsUp) : i \in 1..Len(rsUp') /\ rsUp'[i] = rsUp[i]
        /\ rsUp'[Len(rsUp) + 1] = m
        /\ \A i \in 1..Len(rsUp') : i \in 1..Len(rsUp) \/ i = Len(rsUp) + 1
    BY QueueAppended DEF RsInv, RsTyped
  <1>2. Len(rsUp') \in 1..Len(rsUp') /\ rsUp'[Len(rsUp')] = m
    BY <1>1
  <1>3. ASSUME NEW i \in 1..Len(rsUp), AsksAll(i) PROVE AsksAll(i)'
    BY <1>1, <1>3 DEF AsksAll
  <1>4. AllComing => AllComing'
    BY <1>1, <1>3 DEF AllComing
  <1>5. SizesRight => SizesRight'
    BY <1>1 DEF SizesRight
  <1>6. ASSUME m.k = "desktop" => m.size # rsCli.win, DesktopFits PROVE DesktopFits'
    <2> SUFFICES ASSUME NEW i \in 1..Len(rsUp'), rsUp'[i].k = "desktop", rsUp'[i].size = rsCli.win
                 PROVE  \E j \in 1..Len(rsUp') : j > i /\ AsksAll(j)'
      BY DEF DesktopFits
    <2>1. i \in 1..Len(rsUp) /\ rsUp'[i] = rsUp[i]
      BY <1>1, <1>6
    <2>2. PICK j \in 1..Len(rsUp) : j > i /\ AsksAll(j)
      BY <1>6, <2>1 DEF DesktopFits
    <2> QED  BY <1>1, <1>3, <2>2
  <1> QED  BY <1>1, <1>2, <1>4, <1>5, <1>6

LEMMA UpTaken ==
  ASSUME RsInv, rsUp # <<>>, rsUp' = Tail(rsUp), rsCli'.win = rsCli.win
  PROVE  /\ AllComing => AllComing' \/ (Head(rsUp).k = "update" /\ ~Head(rsUp).incr
                                         /\ Head(rsUp).size = rsCli.win /\ SizesRight')
         /\ SizesRight => SizesRight' /\ (Head(rsUp).k \in {"update", "continuous"} => Head(rsUp).size = rsCli.win)
         /\ DesktopFits => DesktopFits' /\ (Head(rsUp).k = "desktop" /\ Head(rsUp).size = rsCli.win => AllComing')
         /\ \A i \in 1..Len(rsUp) : rsUp[i] = Head(rsUp) \/ \E j \in 1..Len(rsUp') : rsUp'[j] = rsUp[i]
         /\ IsUpMessage(Head(rsUp))
  <1>1. /\ Len(rsUp) \in Nat \ {0} /\ Len(rsUp') = Len(rsUp) - 1
        /\ 1 \in 1..Len(rsUp) /\ Head(rsUp) = rsUp[1]
        /\ \A i \in 1..Len(rsUp') : i + 1 \in 1..Len(rsUp) /\ rsUp'[i] = rsUp[i + 1]
        /\ \A i \in 1..Len(rsUp) : i = 1 \/ (i - 1 \in 1..Len(rsUp') /\ rsUp'[i - 1] = rsUp[i])
    BY QueueTaken DEF RsInv, RsTyped
  <1>2. IsUpMessage(Head(rsUp))
    BY <1>1 DEF RsInv, RsTyped
  <1>3. ASSUME NEW i \in 1..Len(rsUp), i # 1, AsksAll(i) PROVE i - 1 \in 1..Len(rsUp') /\ AsksAll(i - 1)'
    <2>1. i - 1 \in 1..Len(rsUp') /\ rsUp'[i - 1] = rsUp[i]
      BY <1>1, <1>3
    <2>2. \A j \in 1..Len(rsUp') : j >= i - 1 => j + 1 \in 1..Len(rsUp) /\ j + 1 >= i /\ rsUp'[j] = rsUp[j + 1]
      BY <1>1
    <2> QED  BY <1>3, <2>1, <2>2 DEF AsksAll
  <1>4. SizesRight => SizesRight' /\ (Head(rsUp).k \in {"update", "continuous"} => Head(rsUp).size = rsCli.win)
    BY <1>1 DEF SizesRight
  <1>5. AllComing => AllComing' \/ (Head(rsUp).k = "update" /\ ~Head(rsUp).incr
                                     /\ Head(rsUp).size = rsCli.win /\ SizesRight')
    <2> SUFFICES ASSUME NEW i \in 1..Len(rsUp), AsksAll(i)
                 PROVE  AllComing' \/ (Head(rsUp).k = "update" /\ ~Head(rsUp).incr
                                       /\ Head(rsUp).size = rsCli.win /\ SizesRight')
      BY DEF AllComing
    <2>1. CASE i # 1
      BY <1>3, <2>1 DEF AllComing
    <2>2. CASE i = 1
      <3>1. SizesRight
        BY <1>1, <2>2 DEF AsksAll, SizesRight
      <3> QED  BY <1>1, <1>4, <2>2, <3>1 DEF AsksAll
    <2> QED  BY <2>1, <2>2
  <1>6. ASSUME DesktopFits, NEW i \in 1..Len(rsUp), rsUp[i].k = "desktop", rsUp[i].size = rsCli.win
        PROVE  \E j \in 1..Len(rsUp') : j > i - 1 /\ AsksAll(j)'
    <2>1. PICK j \in 1..Len(rsUp) : j > i /\ AsksAll(j)
      BY <1>6 DEF DesktopFits
    <2>2. j # 1 /\ j - 1 > i - 1
      BY <2>1
    <2> QED  BY <1>3, <2>1, <2>2
  <1>7. DesktopFits => DesktopFits'
    <2> SUFFICES ASSUME DesktopFits, NEW i \in 1..Len(rsUp'), rsUp'[i].k = "desktop", rsUp'[i].size = rsCli.win
                 PROVE  \E j \in 1..Len(rsUp') : j > i /\ AsksAll(j)'
      BY DEF DesktopFits
    <2>1. i + 1 \in 1..Len(rsUp) /\ rsUp[i + 1] = rsUp'[i] /\ (i + 1) - 1 = i
      BY <1>1
    <2> QED  BY <1>6, <2>1
  <1>8. DesktopFits => (Head(rsUp).k = "desktop" /\ Head(rsUp).size = rsCli.win => AllComing')
    BY <1>1, <1>6 DEF AllComing
  <1>9. \A i \in 1..Len(rsUp) : rsUp[i] = Head(rsUp) \/ \E j \in 1..Len(rsUp') : rsUp'[j] = rsUp[i]
    BY <1>1
  <1> QED  BY <1>2, <1>4, <1>5, <1>7, <1>8, <1>9

\* a window that has a new size asks for everything
LEMMA WindowAsks ==
  ASSUME Len(rsUp') \in Nat \ {0}, rsUp'[Len(rsUp')] = RsRequest(FALSE, rsCli'.win)
  PROVE  AllComing' /\ DesktopFits'
  <1>1. PICK l \in 1..Len(rsUp') : l = Len(rsUp')
    OBVIOUS
  <1>2. \A j \in 1..Len(rsUp') : j >= l => j = l
    BY <1>1
  <1>3. AsksAll(l)'
    BY <1>1, <1>2 DEF AsksAll, RsRequest
  <1>4. ASSUME NEW i \in 1..Len(rsUp'), rsUp'[i].k = "desktop" PROVE l > i
    <2>1. i # l
      BY <1>1, <1>4 DEF RsRequest
    <2> QED  BY <1>1, <2>1
  <1> QED  BY <1>3, <1>4 DEF AllComing, DesktopFits

(* The queue to the client.                                                *)
LEMMA DownAppended ==
  ASSUME RsInv, NEW m, rsDown' = Append(rsDown, m), rsCli' = rsCli, rsSdl' = rsSdl
  PROVE  /\ PushComing => PushComing'
         /\ m.k = "resize" /\ m.status = 1 /\ m.n # rsCli.win => PushComing'
         /\ \A i \in 1..Len(rsDown) : i \in 1..Len(rsDown') /\ rsDown'[i] = rsDown[i]
         /\ Len(rsDown') \in 1..Len(rsDown') /\ rsDown'[Len(rsDown')] = m
         /\ \A a \in RsAll :
              /\ rsX'.ver[a] = rsX.ver[a] /\ Current(a)
                 /\ (m.k = "fb" /\ a \in m.areas => m.ver[a] = rsX.ver[a]) => Current(a)'
              /\ m.k = "fb" /\ a \in m.areas /\ m.ver[a] = rsX'.ver[a] => Current(a)'
  <1>1. /\ Len(rsDown) \in Nat /\ Len(rsDown') = Len(rsDown) + 1
        /\ \A i \in 1..Len(rsDown) : i \in 1..Len(rsDown') /\ rsDown'[i] = rsDown[i]
        /\ rsDown'[Len(rsDown) + 1] = m
        /\ \A i \in 1..Len(rsDown') : i \in 1..Len(rsDown) \/ i = Len(rsDown) + 1
    BY QueueAppended DEF RsInv, RsTyped
  <1>2. PICK l \in 1..Len(rsDown') : l = Len(rsDown') /\ rsDown'[l] = m
    BY <1>1
  <1>3. \A i \in 1..Len(rsDown') : i = l \/ (i \in 1..Len(rsDown) /\ rsDown'[i] = rsDown[i])
    BY <1>1, <1>2
  <1>4. PushComing => PushComing'
    BY <1>1 DEF PushComing
  <1>5. m.k = "resize" /\ m.status = 1 /\ m.n # rsCli.win => PushComing'
    BY <1>2 DEF PushComing
  <1>6. ASSUME NEW a \in RsAll, rsX'.ver[a] = rsX.ver[a], Current(a),
               m.k = "fb" /\ a \in m.areas => m.ver[a] = rsX.ver[a]
        PROVE  Current(a)'
    <2>1. CASE rsCli.shown[a] = rsX.ver[a] /\ ShownNow(a)
      BY <1>2, <1>3, <1>6, <2>1 DEF Current, ShownNow, Brings
    <2>2. CASE \E i \in 1..Len(rsDown) :
                 /\ Brings(i, a)
                 /\ \A j \in 1..Len(rsDown) : j >= i /\ Brings(j, a) => rsDown[j].ver[a] = rsX.ver[a]
      <3>1. PICK i \in 1..Len(rsDown) :
                 /\ Brings(i, a)
                 /\ \A j \in 1..Len(rsDown) : j >= i /\ Brings(j, a) => rsDown[j].ver[a] = rsX.ver[a]
        BY <2>2
      <3>2. i \in 1..Len(rsDown') /\ Brings(i, a)'
        BY <1>1, <3>1 DEF Brings
      <3>3. \A j \in 1..Len(rsDown') : j >= i /\ Brings(j, a)' => rsDown'[j].ver[a] = rsX'.ver[a]
        BY <1>2, <1>3, <1>6, <3>1 DEF Brings
      <3> QED  BY <3>2, <3>3 DEF Current
    <2> QED  BY <1>6, <2>1, <2>2 DEF Current
  <1>7. ASSUME NEW a \in RsAll, m.k = "fb", a \in m.areas, m.ver[a] = rsX'.ver[a] PROVE Current(a)'
    <2>1. Brings(l, a)'
      BY <1>2, <1>7 DEF Brings
    <2>2. \A j \in 1..Len(rsDown') : j >= l => j = l
      BY <1>1, <1>2
    <2> QED  BY <1>2, <1>7, <2>1, <2>2 DEF Current
  <1> QED  BY <1>1, <1>2, <1>4, <1>5, <1>6, <1>7

LEMMA DownTaken ==
  ASSUME RsInv, rsDown # <<>>, rsDown' = Tail(rsDown), rsCli'.win = rsCli.win,
         rsSdl # <<>> => rsSdl' # <<>>
  PROVE  /\ PushComing => PushComing' \/ (Head(rsDown).k = "resize" /\ Head(rsDown).status = 1
                                           /\ Head(rsDown).n # rsCli.win)
         /\ \A i \in 1..Len(rsDown) : rsDown[i] = Head(rsDown) \/ \E j \in 1..Len(rsDown') : rsDown'[j] = rsDown[i]
         /\ \A a \in RsAll :
              /\ Current(a) /\ rsX'.ver[a] = rsX.ver[a]
              /\ IF Head(rsDown).k = "fb" THEN rsCli'.shown = RecvFBUpdateRegion(Head(rsDown))
                                          ELSE rsCli'.shown = rsCli.shown
              => Current(a)'
  <1>1. /\ Len(rsDown) \in Nat \ {0} /\ Len(rsDown') = Len(rsDown) - 1
        /\ 1 \in 1..Len(rsDown) /\ Head(rsDown) = rsDown[1]
        /\ \A i \in 1..Len(rsDown') : i + 1 \in 1..Len(rsDown) /\ rsDown'[i] = rsDown[i + 1]
        /\ \A i \in 1..Len(rsDown) : i = 1 \/ (i - 1 \in 1..Len(rsDown') /\ rsDown'[i - 1] = rsDown[i])
    BY QueueTaken DEF RsInv, RsTyped
  <1>2. \A i \in 1..Len(rsDown) : rsDown[i] = Head(rsDown) \/ \E j \in 1..Len(rsDown') : rsDown'[j] = rsDown[i]
    BY <1>1
  <1>3. PushComing => PushComing' \/ (Head(rsDown).k = "resize" /\ Head(rsDown).status = 1
                                       /\ Head(rsDown).n # rsCli.win)
    BY <1>2 DEF PushComing
  <1>4. ASSUME NEW a \in RsAll, Current(a), rsX'.ver[a] = rsX.ver[a],
               IF Head(rsDown).k = "fb" THEN rsCli'.shown = RecvFBUpdateRegion(Head(rsDown))
                                        ELSE rsCli'.shown = rsCli.shown
        PROVE  Current(a)'
    <2>1. rsCli'.shown[a] = IF Brings(1, a) THEN rsDown[1].ver[a] ELSE rsCli.shown[a]
      BY <1>1, <1>4 DEF RecvFBUpdateRegion, Brings
    <2>2. ASSUME ShownNow(a), rsCli.shown[a] = rsX.ver[a]
          PROVE  Current(a)'
      <3>1. rsCli'.shown[a] = rsX'.ver[a]
        BY <1>1, <1>4, <2>1, <2>2 DEF ShownNow
      <3>2. ShownNow(a)'
        BY <1>1, <1>4, <2>2 DEF ShownNow, Brings
      <3> QED  BY <3>1, <3>2 DEF Current
    <2>3. ASSUME NEW i \in 1..Len(rsDown), Brings(i, a),
                 \A j \in 1..Len(rsDown) : j >= i /\ Brings(j, a) => rsDown[j].ver[a] = rsX.ver[a]
          PROVE  Current(a)'
      <3>1. CASE i = 1
        <4>1. \A j \in 1..Len(rsDown) : j >= i
          BY <3>1
        <4>2. ShownNow(a)'
          BY <1>1, <1>4, <2>3, <4>1 DEF ShownNow, Brings
        <4>3. rsCli'.shown[a] = rsX'.ver[a]
          BY <1>4, <2>1, <2>3, <3>1, <4>1
        <4> QED  BY <4>2, <4>3 DEF Current
      <3>2. CASE i # 1
        <4>1. i - 1 \in 1..Len(rsDown') /\ Brings(i - 1, a)'
          BY <1>1, <2>3, <3>2 DEF Brings
        <4>2. \A j \in 1..Len(rsDown') : j >= i - 1 => j + 1 \in 1..Len(rsDown) /\ j + 1 >= i /\ rsDown'[j] = rsDown[j + 1]
          BY <1>1
        <4>3. \A j \in 1..Len(rsDown') : j >= i - 1 /\ Brings(j, a)' => rsDown'[j].ver[a] = rsX'.ver[a]
          BY <1>4, <2>3, <4>2 DEF Brings
        <4> QED  BY <4>1, <4>3 DEF Current
      <3> QED  BY <3>1, <3>2
    <2> QED  BY <1>4, <2>2, <2>3 DEF Current
  <1> QED  BY <1>2, <1>3, <1>4

(* The X events.                                                           *)
LEMMA EventAppended ==
  ASSUME RsInv, NEW e, rsEv' = Append(rsEv, e)
  PROVE  /\ \A a : DamageOf(a) => DamageOf(a)'
         /\ e.k = "damage" => DamageOf(e.n)'
         /\ Len(rsEv) \in Nat /\ Len(rsEv') = Len(rsEv) + 1
         /\ \A i \in 1..Len(rsEv) : i \in 1..Len(rsEv') /\ rsEv'[i] = rsEv[i]
         /\ Len(rsEv) + 1 \in 1..Len(rsEv') /\ rsEv'[Len(rsEv) + 1] = e
         /\ \A i \in 1..Len(rsEv') : i \in 1..Len(rsEv) \/ i = Len(rsEv) + 1
  <1>1. /\ Len(rsEv) \in Nat /\ Len(rsEv') = Len(rsEv) + 1
        /\ \A i \in 1..Len(rsEv) : i \in 1..Len(rsEv') /\ rsEv'[i] = rsEv[i]
        /\ rsEv'[Len(rsEv) + 1] = e
        /\ \A i \in 1..Len(rsEv') : i \in 1..Len(rsEv) \/ i = Len(rsEv) + 1
    BY QueueAppended DEF RsInv, RsTyped
  <1>2. Len(rsEv) + 1 \in 1..Len(rsEv')
    BY <1>1
  <1> QED  BY <1>1, <1>2 DEF DamageOf

LEMMA EventTaken ==
  ASSUME RsInv, rsEv # <<>>, rsEv' = Tail(rsEv)
  PROVE  /\ \A a : DamageOf(a) => DamageOf(a)' \/ (Head(rsEv).k = "damage" /\ Head(rsEv).n = a)
         /\ Len(rsEv) \in Nat \ {0} /\ Len(rsEv') = Len(rsEv) - 1
         /\ 1 \in 1..Len(rsEv) /\ Head(rsEv) = rsEv[1]
         /\ \A i \in 1..Len(rsEv') : i + 1 \in 1..Len(rsEv) /\ rsEv'[i] = rsEv[i + 1]
         /\ \A i \in 1..Len(rsEv) : i = 1 \/ (i - 1 \in 1..Len(rsEv') /\ rsEv'[i - 1] = rsEv[i])
  <1>1. /\ Len(rsEv) \in Nat \ {0} /\ Len(rsEv') = Len(rsEv) - 1
        /\ 1 \in 1..Len(rsEv) /\ Head(rsEv) = rsEv[1]
        /\ \A i \in 1..Len(rsEv') : i + 1 \in 1..Len(rsEv) /\ rsEv'[i] = rsEv[i + 1]
        /\ \A i \in 1..Len(rsEv) : i = 1 \/ (i - 1 \in 1..Len(rsEv') /\ rsEv'[i - 1] = rsEv[i])
    BY QueueTaken DEF RsInv, RsTyped
  <1> QED  BY <1>1 DEF DamageOf

-----------------------------------------------------------------------------
(* What leaves the events and the resizing threads alone.                  *)
LEMMA ResizesStay ==
  ASSUME Resizes, DesktopFits',
         rsEv' = rsEv, rsX'.size = rsX.size, rsSrv'.size = rsSrv.size, rsSrv'.nego = rsSrv.nego,
         Threads("resizer")' = Threads("resizer"), Threads("own")' = Threads("own"),
         rsSrv.nego => \A n \in RsSizes : Target(n) => Target(n)',
         \A t \in Threads("resizer") : t.n \in RsSizes,
         rsX.size \in RsSizes
  PROVE  Resizes'
  <1>1. NoCrtc' = NoCrtc /\ \A i \in 1..Len(rsEv) : IsCrtc(i)' = IsCrtc(i)
    BY DEF NoCrtc, IsCrtc
  <1>2. Settled'
    BY <1>1 DEF Resizes, Settled
  <1>3. ResizerAlone'
    BY <1>1 DEF Resizes, Settled, ResizerAlone
  <1>4. CrtcAlone'
    BY <1>1 DEF Resizes, Settled, NoCrtc, CrtcAlone
  <1>5. OwnAlone'
    BY <1>1 DEF Resizes, Settled, OwnAlone
  <1>6. EventsFit'
    BY <1>1 DEF Resizes, EventsFit
  <1> QED  BY <1>2, <1>3, <1>4, <1>5, <1>6 DEF Resizes

\* what is shown stays shown, or owed
LEMMA ShownStays ==
  ASSUME ShownFits, Steady' => Steady \/ Owed', Owed => Owed',
         Both' = Both \/ Owed', \A a \in Both : Fine(a) => Fine(a)' \/ Owed'
  PROVE  ShownFits'
  BY DEF ShownFits

\* an area is fine while nothing it rests on is taken away
LEMMA FineStays ==
  ASSUME NEW a, Fine(a), rsX'.ver[a] = rsX.ver[a], rsMain' = rsMain,
         Current(a) => Current(a)', DamageOf(a) => DamageOf(a)' \/ Fine(a)',
         rsMain.at = "loop" /\ a \in rsSrv.damage => a \in rsSrv'.damage
  PROVE  Fine(a)'
  BY DEF Fine

\* the threads that have nothing to do with it
LEMMA HelperTypes == RsInv => /\ \A t \in Threads("resizer") : t.n \in RsSizes
                              /\ rsX.size \in RsSizes /\ rsSrv.size \in RsSizes /\ rsCli.win \in RsSizes
                              /\ Both \subseteq RsAll
  BY RsAssumption DEF RsInv, RsTyped, IsHelper, Threads, Both, RsAll

(* The X server and the thread that reads its events.                      *)
LEMMA ScreenDraws == ASSUME ScreenInv, XcbDraws PROVE ScreenRest'
  <1> USE DEF ScreenInv, ScreenRest
  <1>1. PICK a \in RsAreas(rsX.size) :
          /\ rsX' = [rsX EXCEPT !.ver[a] = @ + 1]
          /\ rsEv' = Append(rsEv, [k |-> "damage", n |-> a, seq |-> 0])
    BY DEF XcbDraws
  <1>2. rsLeft' = [rsLeft EXCEPT !.draw = @ - 1] /\ UNCHANGED <<RsServer, rsUp, rsDown, RsClient, rsSwapped>>
    BY DEF XcbDraws
  <1>3. /\ rsX'.size = rsX.size /\ DOMAIN rsX'.ver = RsAll /\ a \in RsAll
        /\ \A b \in RsAll : b # a => rsX'.ver[b] = rsX.ver[b]
    BY <1>1, HelperTypes DEF LeftTyped, RsInv, RsTyped, RsAll
  <1>4. LeftTyped' /\ (RsInTurn' = RsInTurn)
    BY <1>2, <1>3 DEF LeftTyped, RsInTurn
  <1>5. RegionFits'
    BY <1>2 DEF RegionFits, AllComing, AsksAll, RegionRight, SizesRight, ContComing, RsServer, RsClient
  <1> DEFINE e == [k |-> "damage", n |-> a, seq |-> 0]
  <1>6. e.k = "damage" /\ e.n = a
    OBVIOUS
  <1> HIDE DEF e
  <1>7. /\ \A b : DamageOf(b) => DamageOf(b)'
        /\ DamageOf(a)'
        /\ Len(rsEv) \in Nat /\ Len(rsEv') = Len(rsEv) + 1
        /\ \A i \in 1..Len(rsEv) : i \in 1..Len(rsEv') /\ rsEv'[i] = rsEv[i]
        /\ Len(rsEv) + 1 \in 1..Len(rsEv') /\ rsEv'[Len(rsEv) + 1] = e
        /\ \A i \in 1..Len(rsEv') : i \in 1..Len(rsEv) \/ i = Len(rsEv) + 1
    BY <1>1, <1>6, EventAppended DEF e
  <1>8. SendFits'
    BY <1>2, <1>3, <1>7 DEF SendFits, RsServer, RsInv, RsTyped
  <1>9. /\ NoCrtc' = NoCrtc
        /\ \A i \in 1..Len(rsEv') : IsCrtc(i)' => i \in 1..Len(rsEv) /\ IsCrtc(i)
        /\ \A i \in 1..Len(rsEv) : IsCrtc(i)' = IsCrtc(i)
    BY <1>6, <1>7 DEF NoCrtc, IsCrtc
  <1>10. ASSUME Resizes PROVE Resizes'
    <2>1. \A n : Target(n)' = Target(n)
      BY <1>2 DEF Target, Whole, AllComing, AsksAll, RsServer, RsClient
    <2>2. Settled' /\ ResizerAlone' /\ OwnAlone'
      BY <1>2, <1>3, <1>9, <1>10, <2>1 DEF Resizes, Settled, ResizerAlone, OwnAlone, Threads, RsServer
    <2>3. CrtcAlone'
      BY <1>2, <1>3, <1>9, <1>10, <2>1 DEF Resizes, CrtcAlone, Threads, RsServer
    <2>4. EventsFit'
      <3> SUFFICES ASSUME NEW i \in 1..Len(rsEv'), rsEv'[i].k = "damage"
                   PROVE  /\ rsEv'[i].n \in RsAreas(rsSrv.size) \/ \E j \in 1..Len(rsEv') : j < i /\ IsCrtc(j)'
                          /\ rsEv'[i].n \in RsAreas(rsX.size) \/ \E j \in 1..Len(rsEv') : j > i /\ IsCrtc(j)'
        BY <1>2, <1>3 DEF EventsFit, RsServer
      <3>1. CASE i \in 1..Len(rsEv)
        BY <3>1, <1>7, <1>9, <1>10 DEF Resizes, EventsFit
      <3>2. CASE i = Len(rsEv) + 1
        <4>1. rsEv'[i].n = a
          BY <3>2, <1>6, <1>7
        <4>2. CASE NoCrtc
          BY <4>1, <4>2, <1>10 DEF Resizes, Settled
        <4>3. CASE ~NoCrtc
          <5>1. PICK j \in 1..Len(rsEv) : IsCrtc(j)
            BY <4>3 DEF NoCrtc
          <5>2. j < i
            BY <3>2, <1>7
          <5> QED  BY <4>1, <5>1, <5>2, <1>7, <1>9
        <4> QED  BY <4>2, <4>3
      <3> QED  BY <3>1, <3>2, <1>7
    <2>5. DesktopFits'
      BY <1>2, <1>10 DEF Resizes, DesktopFits, AsksAll, RsClient
    <2> QED  BY <2>2, <2>3, <2>4, <2>5 DEF Resizes
  <1>11. ASSUME ShownFits PROVE ShownFits'
    <2>1. ASSUME NEW b \in Both, Fine(b) PROVE Fine(b)'
      <3>1. CASE b = a
        BY <3>1, <1>7 DEF Fine
      <3>2. CASE b # a
        <4>1. rsX'.ver[b] = rsX.ver[b]
          BY <3>2, <1>3, HelperTypes
        <4>2. Current(b) => Current(b)'
          BY <4>1, <1>2 DEF Current, ShownNow, Brings, RsClient
        <4> QED  BY <2>1, <4>1, <4>2, <1>2, <1>7, FineStays DEF RsServer
      <3> QED  BY <3>1, <3>2
    <2>2. /\ Steady' = Steady /\ Owed' = Owed /\ Both' = Both
      BY <1>2, <1>3 DEF Steady, Owed, Whole, AllComing, AsksAll, PushComing, Both, Threads, RsServer, RsClient
    <2> QED  BY <1>11, <2>1, <2>2 DEF ShownFits
  <1> QED  BY <1>4, <1>5, <1>8, <1>10, <1>11

LEMMA ScreenDamaged == ASSUME ScreenInv, XcbDamageNotify PROVE ScreenRest'
  <1> USE DEF ScreenInv, ScreenRest
  <1> DEFINE e == Head(rsEv)
  <1>1. /\ rsEv # <<>> /\ e.k = "damage" /\ rsEv' = Tail(rsEv) /\ rsMain.at = "loop"
        /\ rsSrv' = [rsSrv EXCEPT !.damage = @ \union DamageKept(e.n)]
        /\ UNCHANGED <<rsX, rsMain, rsRead, rsHelp, rsUp, rsDown, RsClient, rsLeft, rsSwapped>>
    BY DEF XcbDamageNotify, XEvent
  <1>2. /\ rsSrv'.size = rsSrv.size /\ rsSrv'.nego = rsSrv.nego /\ rsSrv'.full = rsSrv.full
        /\ rsSrv'.region = rsSrv.region /\ rsSrv'.cont = rsSrv.cont /\ rsSrv'.run = rsSrv.run
        /\ rsSrv'.damage = rsSrv.damage \union DamageKept(e.n)
    BY <1>1 DEF RsInv, RsTyped
  <1>3. LeftTyped' /\ (RsInTurn' = RsInTurn) /\ SendFits'
    BY <1>1 DEF LeftTyped, RsInTurn, SendFits
  <1>4. RegionFits'
    BY <1>1, <1>2 DEF RegionFits, AllComing, AsksAll, RegionRight, SizesRight, ContComing, RsClient
  <1> HIDE DEF e
  <1>5. /\ \A b : DamageOf(b) => DamageOf(b)' \/ e.n = b
        /\ Len(rsEv) \in Nat \ {0} /\ Len(rsEv') = Len(rsEv) - 1
        /\ 1 \in 1..Len(rsEv) /\ e = rsEv[1]
        /\ \A i \in 1..Len(rsEv') : i + 1 \in 1..Len(rsEv) /\ rsEv'[i] = rsEv[i + 1]
        /\ \A i \in 1..Len(rsEv) : i = 1 \/ (i - 1 \in 1..Len(rsEv') /\ rsEv'[i - 1] = rsEv[i])
    BY <1>1, EventTaken DEF e
  <1>6. /\ \A i \in 1..Len(rsEv') : IsCrtc(i)' = IsCrtc(i + 1)
        /\ \A i \in 1..Len(rsEv) : IsCrtc(i) => i # 1 /\ IsCrtc(i - 1)'
        /\ NoCrtc' = NoCrtc
    <2>1. \A i \in 1..Len(rsEv') : IsCrtc(i)' = IsCrtc(i + 1)
      BY <1>5 DEF IsCrtc
    <2>2. \A i \in 1..Len(rsEv) : IsCrtc(i) => i # 1
      BY <1>1, <1>5 DEF IsCrtc
    <2>3. \A i \in 1..Len(rsEv) : IsCrtc(i) => i - 1 \in 1..Len(rsEv') /\ IsCrtc(i - 1)'
      BY <1>5, <2>2 DEF IsCrtc
    <2>4. NoCrtc' = NoCrtc
      BY <1>5, <2>1, <2>3 DEF NoCrtc
    <2> QED  BY <2>1, <2>2, <2>3, <2>4
  <1>7. ASSUME Resizes PROVE Resizes'
    <2>1. \A n : Target(n)' = Target(n)
      BY <1>1, <1>2 DEF Target, Whole, AllComing, AsksAll, RsClient
    <2>2. Settled' /\ ResizerAlone' /\ OwnAlone'
      BY <1>1, <1>2, <1>6, <1>7, <2>1 DEF Resizes, Settled, ResizerAlone, OwnAlone, Threads
    <2>3. CrtcAlone'
      <3> SUFFICES ASSUME NEW i \in 1..Len(rsEv'), IsCrtc(i)'
                   PROVE  /\ Threads("resizer") = {} /\ Threads("own") = {} /\ Target(rsX.size)
                          /\ \A j \in 1..Len(rsEv') : IsCrtc(j)' => i = j
        BY <1>1, <2>1 DEF CrtcAlone, Threads
      <3>1. i + 1 \in 1..Len(rsEv) /\ IsCrtc(i + 1)
        BY <1>5, <1>6
      <3>2. ASSUME NEW j \in 1..Len(rsEv'), IsCrtc(j)' PROVE i = j
        <4>1. j + 1 \in 1..Len(rsEv) /\ IsCrtc(j + 1)
          BY <3>2, <1>5, <1>6
        <4>2. i + 1 = j + 1
          BY <3>1, <4>1, <1>7 DEF Resizes, CrtcAlone
        <4> QED  BY <4>2
      <3> QED  BY <3>1, <3>2, <1>7 DEF Resizes, CrtcAlone
    <2>4. EventsFit'
      <3> SUFFICES ASSUME NEW i \in 1..Len(rsEv'), rsEv'[i].k = "damage"
                   PROVE  /\ rsEv'[i].n \in RsAreas(rsSrv.size) \/ \E j \in 1..Len(rsEv') : j < i /\ IsCrtc(j)'
                          /\ rsEv'[i].n \in RsAreas(rsX.size) \/ \E j \in 1..Len(rsEv') : j > i /\ IsCrtc(j)'
        BY <1>1, <1>2 DEF EventsFit
      <3>1. i + 1 \in 1..Len(rsEv) /\ rsEv[i + 1] = rsEv'[i]
        BY <1>5
      <3>2. ASSUME NEW j \in 1..Len(rsEv), IsCrtc(j)
            PROVE  /\ j - 1 \in 1..Len(rsEv') /\ IsCrtc(j - 1)'
                   /\ j < i + 1 => j - 1 < i
                   /\ j > i + 1 => j - 1 > i
        BY <3>2, <1>5, <1>6
      <3>3. /\ rsEv[i + 1].n \in RsAreas(rsSrv.size) \/ \E j \in 1..Len(rsEv) : j < i + 1 /\ IsCrtc(j)
            /\ rsEv[i + 1].n \in RsAreas(rsX.size) \/ \E j \in 1..Len(rsEv) : j > i + 1 /\ IsCrtc(j)
        BY <3>1, <1>7 DEF Resizes, EventsFit
      <3> QED  BY <3>1, <3>2, <3>3
    <2>5. DesktopFits'
      BY <1>1, <1>7 DEF Resizes, DesktopFits, AsksAll, RsClient
    <2> QED  BY <2>2, <2>3, <2>4, <2>5 DEF Resizes
  <1>8. ASSUME Resizes, ShownFits PROVE ShownFits'
    <2>1. e.n \in rsSrv'.damage
      <3>1. ~\E j \in 1..Len(rsEv) : j < 1 /\ IsCrtc(j)
        OBVIOUS
      <3>2. e.n \in RsAreas(rsSrv.size)
        BY <1>1, <1>5, <1>8, <3>1 DEF Resizes, EventsFit
      <3>3. rsSrv.size \in Nat /\ e.n \in 1..rsSrv.size
        BY <3>2, HelperTypes, RsAssumption DEF RsAreas
      <3>4. ~(e.n > rsSrv.size)
        BY <3>3
      <3> QED  BY <1>2, <3>4 DEF DamageKept
    <2>2. ASSUME NEW b \in Both, Fine(b) PROVE Fine(b)'
      <3>1. DamageOf(b) => DamageOf(b)' \/ Fine(b)'
        BY <1>1, <1>5, <2>1 DEF Fine
      <3>2. Current(b) => Current(b)'
        BY <1>1 DEF Current, ShownNow, Brings, RsClient
      <3> QED  BY <2>2, <3>1, <3>2, <1>1, <1>2, FineStays
    <2>3. /\ Steady' = Steady /\ Owed' = Owed /\ Both' = Both
      BY <1>1, <1>2 DEF Steady, Owed, Whole, AllComing, AsksAll, PushComing, Both, Threads, RsClient
    <2> QED  BY <1>8, <2>2, <2>3 DEF ShownFits
  <1> QED  BY <1>3, <1>4, <1>7, <1>8

LEMMA ScreenForeign == ASSUME ScreenInv, XcbResized PROVE ScreenRest'
  <1> USE DEF ScreenInv, ScreenRest
  <1>1. PICK n \in RsSizes \ {rsX.size} :
          /\ rsX' = [rsX EXCEPT !.size = n]
          /\ rsEv' = Append(rsEv, [k |-> "crtc", n |-> n, seq |-> rsX.last])
    BY DEF XcbResized
  <1>2. /\ rsLeft' = [rsLeft EXCEPT !.resize = @ - 1, !.foreign = TRUE]
        /\ UNCHANGED <<RsServer, rsUp, rsDown, RsClient, rsSwapped>>
    BY DEF XcbResized
  <1>3. rsX'.ver = rsX.ver /\ LeftTyped' /\ ~RsInTurn'
    BY <1>1, <1>2 DEF LeftTyped, RsInTurn, RsInv, RsTyped
  <1>4. RegionFits'
    BY <1>2 DEF RegionFits, AllComing, AsksAll, RegionRight, SizesRight, ContComing, RsServer, RsClient
  <1>5. \A b : DamageOf(b) => DamageOf(b)'
    BY <1>1, EventAppended
  <1>6. SendFits'
    BY <1>2, <1>3, <1>5 DEF SendFits, RsServer
  <1> QED  BY <1>3, <1>4, <1>6

LEMMA ScreenChanged == ASSUME ScreenInv, XcbRandrScreenChanged PROVE ScreenRest'
  <1> USE DEF ScreenInv, ScreenRest
  <1> DEFINE e == Head(rsEv)
  <1>1. /\ rsEv # <<>> /\ e.k = "crtc" /\ rsEv' = Tail(rsEv)
        /\ rsSrv' = [rsSrv EXCEPT !.size = rsX.size]
        /\ rsX' = [rsX EXCEPT !.last = 0]
        /\ UNCHANGED <<rsMain, rsRead, rsUp, rsDown, RsClient, rsLeft, rsSwapped>>
    BY DEF XcbRandrScreenChanged, XEvent, UpdateGeometrySize
  <1>2. \/ rsHelp' = rsHelp
        \/ \E k \in {"own", "runtime"} : rsHelp' = rsHelp \union {[k |-> k, n |-> rsX.size, id |-> 0]}
    BY DEF XcbRandrScreenChanged, UpdateGeometrySize
  <1> HIDE DEF e
  <1>3. /\ rsSrv'.size = rsX.size /\ rsSrv'.nego = rsSrv.nego /\ rsSrv'.full = rsSrv.full
        /\ rsSrv'.region = rsSrv.region /\ rsSrv'.cont = rsSrv.cont /\ rsSrv'.run = rsSrv.run
        /\ rsX'.size = rsX.size /\ rsX'.ver = rsX.ver
    BY <1>1 DEF RsInv, RsTyped
  <1>4. LeftTyped' /\ (RsInTurn' = RsInTurn)
    BY <1>1, <1>3 DEF LeftTyped, RsInTurn
  <1>5. RegionFits'
    BY <1>1, <1>3 DEF RegionFits, AllComing, AsksAll, RegionRight, SizesRight, ContComing, RsClient
  <1>6. /\ \A b : DamageOf(b) => DamageOf(b)'
        /\ 1 \in 1..Len(rsEv) /\ e = rsEv[1]
        /\ \A i \in 1..Len(rsEv') : i + 1 \in 1..Len(rsEv) /\ rsEv'[i] = rsEv[i + 1]
    BY <1>1, EventTaken DEF e
  <1>7. SendFits'
    BY <1>1, <1>3, <1>6 DEF SendFits
  <1>8. ASSUME Resizes PROVE Resizes' /\ ~Steady'
    <2>1. IsCrtc(1)
      BY <1>1, <1>6 DEF IsCrtc
    <2>2. /\ Threads("resizer") = {} /\ Threads("own") = {} /\ Target(rsX.size)
          /\ \A j \in 1..Len(rsEv) : IsCrtc(j) => 1 = j
      BY <1>6, <1>8, <2>1 DEF Resizes, CrtcAlone
    <2>3. rsSrv.nego
      BY <1>6, <1>8, <2>1 DEF Resizes, Settled, NoCrtc
    <2>4. NoCrtc'
      <3> SUFFICES ASSUME NEW i \in 1..Len(rsEv'), IsCrtc(i)' PROVE FALSE
        BY DEF NoCrtc
      <3>1. i + 1 \in 1..Len(rsEv) /\ IsCrtc(i + 1)
        BY <1>6 DEF IsCrtc
      <3>2. i + 1 # 1
        OBVIOUS
      <3> QED  BY <2>2, <3>1, <3>2
    <2>5. Threads("resizer")' = {}
      BY <1>2, <2>2 DEF Threads
    <2>6. \A t \in Threads("own")' : t = [k |-> "own", n |-> rsX.size, id |-> 0]
      BY <1>2, <2>2 DEF Threads
    <2>7. Target(rsX.size)'
      BY <1>1, <1>3, <2>2 DEF Target, Whole, AllComing, AsksAll, RsClient
    <2>8. Settled' /\ ResizerAlone'
      BY <1>3, <2>3, <2>4, <2>5 DEF Settled, ResizerAlone
    <2>9. CrtcAlone'
      BY <2>4 DEF CrtcAlone, NoCrtc
    <2>10. OwnAlone'
      <3> SUFFICES ASSUME NEW t \in Threads("own")'
                   PROVE  Threads("own")' = {t} /\ t.n = rsX'.size /\ Target(rsX.size)'
        BY <2>4 DEF OwnAlone
      <3> QED  BY <1>3, <2>6, <2>7
    <2>11. EventsFit'
      <3> SUFFICES ASSUME NEW i \in 1..Len(rsEv'), rsEv'[i].k = "damage"
                   PROVE  rsEv'[i].n \in RsAreas(rsX.size)
        BY <1>3 DEF EventsFit
      <3>1. i + 1 \in 1..Len(rsEv) /\ rsEv[i + 1] = rsEv'[i]
        BY <1>6
      <3>2. \A j \in 1..Len(rsEv) : j > i + 1 => ~IsCrtc(j)
        BY <2>2
      <3> QED  BY <3>1, <3>2, <1>8 DEF Resizes, EventsFit
    <2>12. DesktopFits'
      BY <1>1, <1>8 DEF Resizes, DesktopFits, AsksAll, RsClient
    <2>13. ~Steady'
      BY <1>3, <2>3, <2>5 DEF Steady
    <2> QED  BY <2>8, <2>9, <2>10, <2>11, <2>12, <2>13 DEF Resizes
  <1> QED  BY <1>4, <1>5, <1>7, <1>8 DEF ShownFits

(* The detached threads.                                                   *)
LEMMA ScreenTold == ASSUME ScreenInv, NEW t \in rsHelp, SendEncodingDesktopResize(t) PROVE ScreenRest'
  <1> USE DEF ScreenInv, ScreenRest
  <1>1. /\ t.k \in {"runtime", "own", "hello"} /\ rsHelp' = rsHelp \ {t}
        /\ UNCHANGED <<rsX, rsEv, rsMain, rsRead, rsUp, RsClient, rsLeft, rsSwapped>>
    BY DEF SendEncodingDesktopResize
  <1>2. LeftTyped' /\ (RsInTurn' = RsInTurn)
    BY <1>1 DEF LeftTyped, RsInTurn
  <1>3. SendFits'
    BY <1>1 DEF SendFits, DamageOf
  <1>4. CASE t.k = "own" /\ rsSrv.nego
    <2>1. RsSend(RsResize(1, FALSE, t.n)) /\ rsSrv' = [rsSrv EXCEPT !.nego = FALSE]
      BY <1>4 DEF SendEncodingDesktopResize
    <2> DEFINE m == RsResize(1, FALSE, t.n)
    <2>2. m.k = "resize" /\ m.status = 1 /\ m.n = t.n
      BY DEF RsResize
    <2>3. rsDown' = Append(rsDown, m)
      BY <2>1 DEF RsSend
    <2> HIDE DEF m
    <2>4. /\ rsSrv'.size = rsSrv.size /\ rsSrv'.full = rsSrv.full /\ ~rsSrv'.nego
          /\ rsSrv'.region = rsSrv.region /\ rsSrv'.cont = rsSrv.cont /\ rsSrv'.run = rsSrv.run
      BY <2>1 DEF RsInv, RsTyped
    <2>5. /\ t.n # rsCli.win => PushComing'
          /\ \A i \in 1..Len(rsDown) : i \in 1..Len(rsDown') /\ rsDown'[i] = rsDown[i]
      BY <1>1, <2>2, <2>3, DownAppended DEF RsClient
    <2>6. RegionFits'
      BY <1>1, <2>4, <2>5 DEF RegionFits, AllComing, AsksAll, RegionRight, SizesRight, ContComing, RsClient
    <2>7. ASSUME Resizes PROVE Resizes' /\ Owed'
      <3>1. t \in Threads("own")
        BY <1>4 DEF Threads
      <3>2. NoCrtc /\ Threads("own") = {t} /\ t.n = rsX.size /\ Target(rsX.size)
        BY <2>7, <3>1 DEF Resizes, OwnAlone
      <3>3. Threads("resizer") = {}
        BY <2>7, <3>1 DEF Resizes, ResizerAlone
      <3>4. NoCrtc' /\ Threads("own")' = {} /\ Threads("resizer")' = {} /\ rsSrv'.size = rsX'.size
        BY <1>1, <2>4, <2>7, <3>2, <3>3 DEF NoCrtc, IsCrtc, Threads, Resizes, Settled
      <3>5. Settled' /\ ResizerAlone' /\ OwnAlone' /\ CrtcAlone'
        BY <3>4 DEF Settled, ResizerAlone, OwnAlone, CrtcAlone, NoCrtc
      <3>6. EventsFit' /\ DesktopFits'
        BY <1>1, <2>4, <2>7 DEF Resizes, EventsFit, IsCrtc, DesktopFits, AsksAll, RsClient
      <3>7. Owed'
        BY <1>1, <2>4, <2>5, <3>2 DEF Owed, Target, Whole, AllComing, AsksAll, RsClient
      <3> QED  BY <3>5, <3>6, <3>7 DEF Resizes
    <2> QED  BY <1>2, <1>3, <2>6, <2>7 DEF ShownFits
  <1>5. CASE ~(t.k = "own" /\ rsSrv.nego)
    <2>1. rsSrv' = rsSrv
      BY <1>1, <1>5 DEF SendEncodingDesktopResize
    <2>2. rsDown' = rsDown \/ \E m : rsDown' = Append(rsDown, m) /\ m.k = "resize"
      BY <1>1, <1>5 DEF SendEncodingDesktopResize, RsSend, RsResize
    <2>3. /\ PushComing => PushComing'
          /\ ContComing => ContComing'
          /\ \A a \in RsAll : Current(a) => Current(a)'
      <3>1. CASE rsDown' = rsDown
        BY <1>1, <3>1 DEF PushComing, ContComing, Current, ShownNow, Brings, RsClient
      <3>2. ASSUME NEW m, rsDown' = Append(rsDown, m), m.k = "resize"
            PROVE  /\ PushComing => PushComing'
                   /\ ContComing => ContComing'
                   /\ \A a \in RsAll : Current(a) => Current(a)'
        <4>1. /\ PushComing => PushComing'
              /\ \A i \in 1..Len(rsDown) : i \in 1..Len(rsDown') /\ rsDown'[i] = rsDown[i]
              /\ \A a \in RsAll : Current(a) => Current(a)'
          BY <1>1, <3>2, DownAppended DEF RsClient
        <4> QED  BY <1>1, <4>1 DEF ContComing
      <3> QED  BY <3>1, <3>2, <2>2
    <2>4. RegionFits'
      BY <1>1, <2>1, <2>3 DEF RegionFits, AllComing, AsksAll, RegionRight, SizesRight, RsClient
    <2>5. ASSUME Resizes PROVE Threads("own")' = Threads("own") /\ Threads("resizer")' = Threads("resizer")
      BY <1>1, <1>5, <2>5 DEF Threads, Resizes, Settled
    <2>6. ASSUME Resizes PROVE Resizes'
      <3>1. \A n : Target(n)' = Target(n)
        BY <1>1, <2>1 DEF Target, Whole, AllComing, AsksAll, RsClient
      <3>2. DesktopFits'
        BY <1>1, <2>6 DEF Resizes, DesktopFits, AsksAll, RsClient
      <3> QED  BY <1>1, <2>1, <2>5, <2>6, <3>1, <3>2, HelperTypes, ResizesStay
    <2>7. ASSUME Resizes, ShownFits PROVE ShownFits'
      <3>1. Steady' => Steady
        BY <1>1, <2>1, <2>5, <2>7 DEF Steady, RsClient
      <3>2. Owed => Owed'
        BY <1>1, <2>1, <2>3 DEF Owed, Whole, AllComing, AsksAll, RsClient
      <3>3. Both' = Both
        BY <1>1 DEF Both, RsClient
      <3>4. ASSUME NEW b \in Both, Fine(b) PROVE Fine(b)'
        <4>1. DamageOf(b) => DamageOf(b)'
          BY <1>1 DEF DamageOf
        <4>2. Current(b) => Current(b)'
          BY <2>3, HelperTypes
        <4> QED  BY <1>1, <2>1, <3>4, <4>1, <4>2, FineStays
      <3> QED  BY <2>7, <3>1, <3>2, <3>3, <3>4, ShownStays
    <2> QED  BY <1>2, <1>3, <2>4, <2>6, <2>7
  <1> QED  BY <1>4, <1>5

LEMMA ScreenStores == ASSUME ScreenInv, NEW t \in rsHelp, StoreRandrSequence(t) PROVE ScreenRest'
  <1> USE DEF ScreenInv, ScreenRest
  <1>1. /\ t.k = "resized" /\ rsSrv' = [rsSrv EXCEPT !.randr = t.id] /\ rsHelp' = rsHelp \ {t}
        /\ UNCHANGED <<rsX, rsEv, rsMain, rsRead, rsUp, rsDown, RsClient, rsLeft, rsSwapped>>
    BY DEF StoreRandrSequence
  <1>2. /\ rsSrv'.size = rsSrv.size /\ rsSrv'.full = rsSrv.full /\ rsSrv'.nego = rsSrv.nego
        /\ rsSrv'.region = rsSrv.region /\ rsSrv'.cont = rsSrv.cont /\ rsSrv'.run = rsSrv.run
        /\ rsSrv'.damage = rsSrv.damage
    BY <1>1 DEF RsInv, RsTyped
  <1>3. LeftTyped' /\ (RsInTurn' = RsInTurn) /\ SendFits'
    BY <1>1 DEF LeftTyped, RsInTurn, SendFits, DamageOf
  <1>4. RegionFits'
    BY <1>1, <1>2 DEF RegionFits, AllComing, AsksAll, RegionRight, SizesRight, ContComing, RsClient
  <1>5. Threads("own")' = Threads("own") /\ Threads("resizer")' = Threads("resizer")
    BY <1>1 DEF Threads
  <1>6. ASSUME Resizes PROVE Resizes'
    <2>1. \A n : Target(n)' = Target(n)
      BY <1>1, <1>2 DEF Target, Whole, AllComing, AsksAll, RsClient
    <2>2. DesktopFits'
      BY <1>1, <1>6 DEF Resizes, DesktopFits, AsksAll, RsClient
    <2> QED  BY <1>1, <1>2, <1>5, <1>6, <2>1, <2>2, HelperTypes, ResizesStay
  <1>7. ASSUME ShownFits PROVE ShownFits'
    <2>1. /\ Steady' = Steady /\ Owed' = Owed /\ Both' = Both
      BY <1>1, <1>2, <1>5 DEF Steady, Owed, Whole, AllComing, AsksAll, PushComing, Both, RsClient
    <2>2. \A b : Fine(b)' = Fine(b)
      BY <1>1, <1>2 DEF Fine, DamageOf, Current, ShownNow, Brings, RsClient
    <2> QED  BY <1>7, <2>1, <2>2 DEF ShownFits
  <1> QED  BY <1>3, <1>4, <1>6, <1>7

LEMMA ScreenResizes == ASSUME ScreenInv, NEW t \in rsHelp, SetRandrScreenSize(t) PROVE ScreenRest'
  <1> USE DEF ScreenInv, ScreenRest
  <1>1. /\ t.k = "resizer" /\ UNCHANGED <<rsMain, rsRead, rsUp, RsClient, rsSwapped>>
    BY DEF SetRandrScreenSize
  <1>2. t \in Threads("resizer")
    BY <1>1 DEF Threads
  <1>3. CASE /\ rsLeft' = [rsLeft EXCEPT !.id = @ + 1]
             /\ SetDisplaySize(t.n, rsLeft.id + 1)
             /\ rsHelp' = (rsHelp \ {t}) \union {[t EXCEPT !.k = "resized", !.id = rsLeft.id + 1]}
             /\ UNCHANGED <<rsSrv, rsDown>>
    <2> DEFINE e == [k |-> "crtc", n |-> t.n, seq |-> rsLeft.id + 1]
               h == [t EXCEPT !.k = "resized", !.id = rsLeft.id + 1]
    <2>1. rsX' = [rsX EXCEPT !.size = t.n, !.last = rsLeft.id + 1] /\ rsEv' = Append(rsEv, e)
      BY <1>3 DEF SetDisplaySize
    <2>2. rsX'.size = t.n /\ rsX'.ver = rsX.ver
      BY <2>1 DEF RsInv, RsTyped
    <2>3. LeftTyped' /\ (RsInTurn' = RsInTurn)
      BY <1>3, <2>2 DEF LeftTyped, RsInTurn
    <2>4. RegionFits'
      BY <1>1, <1>3 DEF RegionFits, AllComing, AsksAll, RegionRight, SizesRight, ContComing, RsClient
    <2>5. e.k = "crtc" /\ h.k = "resized" /\ rsHelp' = (rsHelp \ {t}) \union {h}
      BY <1>3 DEF RsInv, RsTyped, IsHelper
    <2> HIDE DEF e, h
    <2>6. /\ \A b : DamageOf(b) => DamageOf(b)'
          /\ Len(rsEv) \in Nat /\ Len(rsEv') = Len(rsEv) + 1
          /\ \A i \in 1..Len(rsEv) : i \in 1..Len(rsEv') /\ rsEv'[i] = rsEv[i]
          /\ Len(rsEv) + 1 \in 1..Len(rsEv') /\ rsEv'[Len(rsEv) + 1] = e
          /\ \A i \in 1..Len(rsEv') : i \in 1..Len(rsEv) \/ i = Len(rsEv) + 1
      BY <2>1, EventAppended
    <2>7. SendFits'
      BY <1>1, <2>2, <2>6 DEF SendFits
    <2>8. ASSUME Resizes PROVE Resizes' /\ ~Steady'
      <3>1. NoCrtc /\ Threads("own") = {} /\ Threads("resizer") = {t} /\ Target(t.n)
        BY <1>2, <2>8 DEF Resizes, ResizerAlone
      <3>2. rsSrv.nego
        BY <1>2, <2>8 DEF Resizes, Settled
      <3>3. Threads("own")' = {} /\ Threads("resizer")' = {}
        BY <2>5, <3>1 DEF Threads
      <3>4. PICK l \in 1..Len(rsEv') : l = Len(rsEv) + 1
        BY <2>6
      <3>5. /\ IsCrtc(l)'
            /\ \A i \in 1..Len(rsEv') : IsCrtc(i)' => i = l
            /\ \A i \in 1..Len(rsEv) : i < l
        BY <2>5, <2>6, <3>1, <3>4 DEF IsCrtc, NoCrtc
      <3>6. Target(t.n)'
        BY <1>1, <1>3, <3>1 DEF Target, Whole, AllComing, AsksAll, RsClient
      <3>7. Settled' /\ ResizerAlone' /\ OwnAlone'
        BY <1>3, <3>2, <3>3, <3>5 DEF Settled, ResizerAlone, OwnAlone, NoCrtc
      <3>8. CrtcAlone'
        BY <2>2, <3>3, <3>5, <3>6 DEF CrtcAlone
      <3>9. EventsFit'
        <4> SUFFICES ASSUME NEW i \in 1..Len(rsEv'), rsEv'[i].k = "damage"
                     PROVE  rsEv'[i].n \in RsAreas(rsSrv.size) /\ i < l
          BY <1>3, <3>5 DEF EventsFit
        <4>1. i \in 1..Len(rsEv) /\ rsEv'[i] = rsEv[i]
          BY <2>5, <2>6
        <4> QED  BY <2>8, <3>1, <3>5, <4>1 DEF Resizes, EventsFit, NoCrtc
      <3>10. DesktopFits'
        BY <1>1, <2>8 DEF Resizes, DesktopFits, AsksAll, RsClient
      <3>11. ~Steady'
        BY <1>3, <3>2, <3>3 DEF Steady
      <3> QED  BY <3>7, <3>8, <3>9, <3>10, <3>11 DEF Resizes
    <2> QED  BY <2>3, <2>4, <2>7, <2>8 DEF ShownFits
  <1>4. CASE /\ rsSrv' = [rsSrv EXCEPT !.nego = FALSE, !.randr = 0]
             /\ RsSend(RsResize(1, TRUE, rsSrv.size))
             /\ rsHelp' = rsHelp \ {t}
             /\ UNCHANGED <<rsX, rsEv, rsLeft>>
    <2>1. /\ rsSrv'.size = rsSrv.size /\ rsSrv'.full = rsSrv.full /\ ~rsSrv'.nego
          /\ rsSrv'.region = rsSrv.region /\ rsSrv'.cont = rsSrv.cont /\ rsSrv'.run = rsSrv.run
          /\ rsSrv'.damage = rsSrv.damage
      BY <1>4 DEF RsInv, RsTyped
    <2>2. LeftTyped' /\ (RsInTurn' = RsInTurn) /\ SendFits'
      BY <1>1, <1>4 DEF LeftTyped, RsInTurn, SendFits, DamageOf
    <2> DEFINE m == RsResize(1, TRUE, rsSrv.size)
    <2>3. m.k = "resize" /\ rsDown' = Append(rsDown, m)
      BY <1>4 DEF RsResize, RsSend
    <2> HIDE DEF m
    <2>4. /\ PushComing => PushComing'
          /\ \A i \in 1..Len(rsDown) : i \in 1..Len(rsDown') /\ rsDown'[i] = rsDown[i]
          /\ \A a \in RsAll : Current(a) => Current(a)'
      BY <1>1, <1>4, <2>3, DownAppended DEF RsClient
    <2>5. RegionFits'
      BY <1>1, <2>1, <2>4 DEF RegionFits, AllComing, AsksAll, RegionRight, SizesRight, ContComing, RsClient
    <2>6. ASSUME Resizes PROVE Resizes'
      <3>1. NoCrtc /\ Threads("own") = {} /\ Threads("resizer") = {t} /\ rsSrv.size = rsX.size
        BY <1>2, <2>6 DEF Resizes, ResizerAlone, Settled
      <3>2. NoCrtc' /\ Threads("own")' = {} /\ Threads("resizer")' = {} /\ rsSrv'.size = rsX'.size
        BY <1>4, <2>1, <3>1 DEF NoCrtc, IsCrtc, Threads
      <3>3. Settled' /\ ResizerAlone' /\ OwnAlone' /\ CrtcAlone'
        BY <3>2 DEF Settled, ResizerAlone, OwnAlone, CrtcAlone, NoCrtc
      <3>4. EventsFit' /\ DesktopFits'
        BY <1>1, <1>4, <2>1, <2>6 DEF Resizes, EventsFit, IsCrtc, DesktopFits, AsksAll, RsClient
      <3> QED  BY <3>3, <3>4 DEF Resizes
    <2>7. ASSUME ShownFits PROVE ShownFits'
      <3>1. Steady' => Steady
        BY <1>1, <1>2, <2>1 DEF Steady, RsClient
      <3>2. Owed => Owed'
        BY <1>1, <2>1, <2>4 DEF Owed, Whole, AllComing, AsksAll, RsClient
      <3>3. Both' = Both
        BY <1>1, <1>4 DEF Both, RsClient
      <3>4. ASSUME NEW b \in Both, Fine(b) PROVE Fine(b)'
        <4>1. DamageOf(b) => DamageOf(b)'
          BY <1>4 DEF DamageOf
        <4>2. Current(b) => Current(b)'
          BY <2>4, HelperTypes
        <4> QED  BY <1>1, <1>4, <2>1, <3>4, <4>1, <4>2, FineStays
      <3> QED  BY <2>7, <3>1, <3>2, <3>3, <3>4, ShownStays
    <2> QED  BY <2>2, <2>5, <2>6, <2>7
  <1> QED  BY <1>3, <1>4 DEF SetRandrScreenSize

(* The main loop.                                                          *)
LEMMA ScreenBegins == ASSUME ScreenInv, FrameBegins PROVE ScreenRest'
  <1> USE DEF ScreenInv, ScreenRest
  <1>1. /\ rsMain.at = "loop" /\ FrameDue /\ rsX' = [rsX EXCEPT !.last = 0]
        /\ UNCHANGED <<rsEv, rsRead, rsHelp, rsUp, rsDown, RsClient, rsLeft, rsSwapped>>
    BY DEF FrameBegins
  <1>2. /\ rsSrv'.size = rsSrv.size /\ rsSrv'.nego = rsSrv.nego /\ rsSrv'.region = rsSrv.region
        /\ rsSrv'.cont = rsSrv.cont /\ rsX'.size = rsX.size /\ rsX'.ver = rsX.ver
    BY <1>1 DEF FrameBegins, RsInv, RsTyped
  <1>3. ~rsSrv.nego /\ rsSrv.region # {} /\ rsSrv.run
    BY <1>1 DEF FrameDue
  <1>4. LeftTyped' /\ (RsInTurn' = RsInTurn)
    BY <1>1, <1>2 DEF LeftTyped, RsInTurn
  <1>5. RegionFits'
    BY <1>1, <1>2 DEF RegionFits, AllComing, AsksAll, RegionRight, SizesRight, ContComing, RsClient
  <1>6. SendFits'
    <2>1. CopyRootImageRegion(FrameRegion) = "copied" => rsMain' = [at |-> "send", areas |-> FrameRegion, ver |-> rsX.ver]
      BY DEF FrameBegins
    <2>2. CopyRootImageRegion(FrameRegion) # "copied" => rsMain' = rsMain
      BY DEF FrameBegins
    <2> QED  BY <1>1, <1>2, <2>1, <2>2 DEF SendFits
  <1>7. ASSUME Resizes PROVE Resizes'
    <2>1. DesktopFits'
      BY <1>1, <1>7 DEF Resizes, DesktopFits, AsksAll, RsClient
    <2>2. Threads("own")' = Threads("own") /\ Threads("resizer")' = Threads("resizer")
      BY <1>1 DEF Threads
    <2> QED  BY <1>1, <1>2, <1>3, <1>7, <2>1, <2>2, HelperTypes, ResizesStay
  <1>8. ASSUME Resizes, ShownFits PROVE ShownFits'
    <2> SUFFICES ASSUME Steady', ~Owed', NEW b \in Both' PROVE Fine(b)'
      BY DEF ShownFits
    <2>1. rsSrv.size = rsX.size
      BY <1>3, <1>8 DEF Resizes, Settled
    <2>2. FrameRegion \subseteq RsAreas(rsX.size)
      BY <2>1 DEF FrameRegion
    <2>3. rsMain' = [at |-> "send", areas |-> FrameRegion, ver |-> rsX.ver]
      BY <2>2 DEF FrameBegins, CopyRootImageRegion
    <2>4. ~AllComing /\ ~PushComing /\ rsCli.started /\ b \in Both
      BY <1>1, <1>2 DEF Owed, Whole, AllComing, AsksAll, PushComing, Steady, Both, RsClient
    <2>5. rsSrv.region = RsAreas(rsCli.win)
      BY <1>3, <2>4 DEF RegionFits, RegionRight
    <2>6. (rsSrv.full \/ b \in rsSrv.damage) => b \in FrameRegion
      BY <2>1, <2>4, <2>5 DEF FrameRegion, Both
    <2>7. b \in FrameRegion => Fine(b)'
      BY <1>2, <2>3 DEF Fine
    <2>8. CASE ~rsSrv.full /\ b \notin rsSrv.damage
      <3>1. Steady /\ ~Owed
        BY <1>3, <2>4, <2>8 DEF Steady, Owed, Whole
      <3>2. Current(b) \/ DamageOf(b)
        BY <1>1, <1>8, <2>4, <2>8, <3>1 DEF ShownFits, Fine
      <3>3. Current(b)' \/ DamageOf(b)'
        BY <1>1, <1>2, <3>2 DEF Current, ShownNow, Brings, DamageOf, RsClient
      <3> QED  BY <3>3 DEF Fine
    <2> QED  BY <2>6, <2>7, <2>8
  <1> QED  BY <1>4, <1>5, <1>6, <1>7, <1>8

LEMMA ScreenSent == ASSUME ScreenInv, FrameSent PROVE ScreenRest'
  <1> USE DEF ScreenInv, ScreenRest
  <1>1. /\ rsMain.at = "send" /\ rsMain' = [rsMain EXCEPT !.at = "loop", !.areas = {}, !.ver = <<>>]
        /\ rsSrv' = [rsSrv EXCEPT !.damage = {}]
        /\ UNCHANGED <<rsX, rsEv, rsHelp, rsRead, rsUp, RsClient, rsLeft, rsSwapped>>
    BY DEF FrameSent
  <1>2. /\ rsSrv'.size = rsSrv.size /\ rsSrv'.nego = rsSrv.nego /\ rsSrv'.region = rsSrv.region
        /\ rsSrv'.cont = rsSrv.cont /\ rsSrv'.full = rsSrv.full /\ rsSrv'.run = rsSrv.run
        /\ rsMain'.at = "loop"
    BY <1>1 DEF RsInv, RsTyped
  <1> DEFINE m == [k |-> "fb", areas |-> rsMain.areas, ver |-> rsMain.ver]
  <1>3. m.k = "fb" /\ m.areas = rsMain.areas /\ m.ver = rsMain.ver
    OBVIOUS
  <1>4. rsDown' = Append(rsDown, m) \/ (~rsSrv.run /\ rsDown' = rsDown)
    BY DEF FrameSent, RsSend
  <1> HIDE DEF m
  <1>5. LeftTyped' /\ (RsInTurn' = RsInTurn) /\ SendFits'
    BY <1>1, <1>2 DEF LeftTyped, RsInTurn, SendFits
  <1>6. ContComing => ContComing'
    <2>1. CASE rsDown' = Append(rsDown, m)
      <3>1. \A i \in 1..Len(rsDown) : i \in 1..Len(rsDown') /\ rsDown'[i] = rsDown[i]
        BY <1>1, <2>1, DownAppended DEF RsClient
      <3> QED  BY <1>1, <3>1 DEF ContComing
    <2>2. CASE rsDown' = rsDown
      BY <1>1, <2>2 DEF ContComing
    <2> QED  BY <1>4, <2>1, <2>2
  <1>7. RegionFits'
    BY <1>1, <1>2, <1>6 DEF RegionFits, AllComing, AsksAll, RegionRight, SizesRight, RsClient
  <1>8. ASSUME Resizes PROVE Resizes'
    <2>1. \A n : Target(n)' = Target(n)
      BY <1>1, <1>2 DEF Target, Whole, AllComing, AsksAll, RsClient
    <2>2. DesktopFits'
      BY <1>1, <1>8 DEF Resizes, DesktopFits, AsksAll, RsClient
    <2>3. Threads("own")' = Threads("own") /\ Threads("resizer")' = Threads("resizer")
      BY <1>1 DEF Threads
    <2> QED  BY <1>1, <1>2, <1>8, <2>1, <2>2, <2>3, HelperTypes, ResizesStay
  <1>9. ASSUME ShownFits PROVE ShownFits'
    <2>1. CASE ~rsSrv.run
      BY <1>2, <2>1 DEF ShownFits, Steady
    <2>2. CASE rsDown' = Append(rsDown, m)
      <3>1. /\ PushComing => PushComing'
            /\ \A a \in RsAll :
                 /\ Current(a) /\ (a \in m.areas => m.ver[a] = rsX.ver[a]) => Current(a)'
                 /\ a \in m.areas /\ m.ver[a] = rsX.ver[a] => Current(a)'
        BY <1>1, <1>3, <2>2, DownAppended DEF RsClient
      <3>2. Steady' => Steady
        BY <1>1, <1>2 DEF Steady, Threads, RsClient
      <3>3. Owed => Owed'
        BY <1>1, <1>2, <3>1 DEF Owed, Whole, AllComing, AsksAll, RsClient
      <3>4. Both' = Both
        BY <1>1 DEF Both, RsClient
      <3>5. ASSUME NEW b \in Both, Fine(b) PROVE Fine(b)'
        <4>1. DamageOf(b) => DamageOf(b)'
          BY <1>1 DEF DamageOf
        <4>2. b \in RsAll
          BY HelperTypes
        <4>3. CASE b \in rsMain.areas
          BY <1>1, <1>3, <3>1, <4>1, <4>2, <4>3 DEF SendFits, Fine
        <4>4. CASE b \notin rsMain.areas
          BY <1>1, <1>3, <3>1, <3>5, <4>1, <4>2, <4>4 DEF Fine
        <4> QED  BY <4>3, <4>4
      <3> QED  BY <1>9, <3>2, <3>3, <3>4, <3>5, ShownStays
    <2> QED  BY <1>4, <2>1, <2>2
  <1> QED  BY <1>5, <1>7, <1>8, <1>9

(* The thread that reads the client's messages.                            *)
LEMMA ScreenWaits == ASSUME ScreenInv, RecvSetEncodingsWaits PROVE ScreenRest'
  <1> USE DEF ScreenInv, ScreenRest
  <1>1. /\ rsUp # <<>> /\ Head(rsUp).k = "encodings" /\ rsUp' = Tail(rsUp)
        /\ UNCHANGED <<rsX, rsEv, rsSrv, rsMain, rsHelp, rsDown, RsClient, rsLeft, rsSwapped>>
    BY DEF RecvSetEncodingsWaits, RsTakes
  <1>2. /\ AllComing => AllComing'
        /\ SizesRight => SizesRight'
        /\ DesktopFits => DesktopFits'
        /\ \A i \in 1..Len(rsUp) : rsUp[i] = Head(rsUp) \/ \E j \in 1..Len(rsUp') : rsUp'[j] = rsUp[i]
    BY <1>1, UpTaken DEF RsClient
  <1>3. LeftTyped' /\ (RsInTurn' = RsInTurn) /\ SendFits'
    BY <1>1 DEF LeftTyped, RsInTurn, SendFits, DamageOf
  <1>4. ContComing => ContComing'
    BY <1>1, <1>2 DEF ContComing
  <1>5. RegionFits'
    BY <1>1, <1>2, <1>4 DEF RegionFits, RegionRight, RsClient
  <1>6. Whole => Whole'
    BY <1>1, <1>2 DEF Whole
  <1>7. Threads("own")' = Threads("own") /\ Threads("resizer")' = Threads("resizer")
    BY <1>1 DEF Threads
  <1>8. ASSUME Resizes PROVE Resizes'
    <2>1. \A n : Target(n) => Target(n)'
      BY <1>1, <1>6 DEF Target, RsClient
    <2>2. DesktopFits'
      BY <1>2, <1>8 DEF Resizes
    <2> QED  BY <1>1, <1>7, <1>8, <2>1, <2>2, HelperTypes, ResizesStay
  <1>9. ASSUME ShownFits PROVE ShownFits'
    <2>1. /\ Steady' = Steady /\ Both' = Both /\ PushComing' = PushComing
      BY <1>1, <1>7 DEF Steady, PushComing, Both, RsClient
    <2>2. \A b : Fine(b)' = Fine(b)
      BY <1>1 DEF Fine, DamageOf, Current, ShownNow, Brings, RsClient
    <2> QED  BY <1>6, <1>9, <2>1, <2>2 DEF ShownFits, Owed
  <1> QED  BY <1>3, <1>5, <1>8, <1>9

LEMMA ScreenEncodings == ASSUME ScreenInv, RecvSetEncodings PROVE ScreenRest'
  <1> USE DEF ScreenInv, ScreenRest
  <1>1. /\ rsSrv' = [rsSrv EXCEPT !.enc = SelectClientEncoding, !.encodings = TRUE, !.cont = TRUE]
        /\ rsHelp' = rsHelp \union {[k |-> "hello", n |-> 0, id |-> 0]}
        /\ UNCHANGED <<rsX, rsEv, rsMain, rsUp, RsClient, rsLeft>>
    BY DEF RecvSetEncodings
  <1>2. /\ rsSrv'.size = rsSrv.size /\ rsSrv'.full = rsSrv.full /\ rsSrv'.nego = rsSrv.nego
        /\ rsSrv'.region = rsSrv.region /\ rsSrv'.run = rsSrv.run /\ rsSrv'.damage = rsSrv.damage
    BY <1>1 DEF RsInv, RsTyped
  <1> DEFINE m == RsContinuous
  <1>3. m.k = "continuous" /\ rsDown' = Append(rsDown, m)
    BY DEF RsContinuous, RecvSetEncodings, RsSend
  <1> HIDE DEF m
  <1>4. /\ PushComing => PushComing'
        /\ \A i \in 1..Len(rsDown) : i \in 1..Len(rsDown') /\ rsDown'[i] = rsDown[i]
        /\ Len(rsDown') \in 1..Len(rsDown') /\ rsDown'[Len(rsDown')] = m
        /\ \A a \in RsAll : Current(a) => Current(a)'
    BY <1>1, <1>3, DownAppended DEF RsClient
  <1>5. LeftTyped' /\ (RsInTurn' = RsInTurn) /\ SendFits'
    BY <1>1 DEF LeftTyped, RsInTurn, SendFits, DamageOf
  <1>6. ContComing'
    BY <1>3, <1>4 DEF ContComing
  <1>7. RegionFits'
    BY <1>1, <1>2, <1>6 DEF RegionFits, AllComing, AsksAll, RegionRight, SizesRight, RsClient
  <1>8. Threads("own")' = Threads("own") /\ Threads("resizer")' = Threads("resizer")
    BY <1>1 DEF Threads
  <1>9. ASSUME Resizes PROVE Resizes'
    <2>1. \A n : Target(n)' = Target(n)
      BY <1>1, <1>2 DEF Target, Whole, AllComing, AsksAll, RsClient
    <2>2. DesktopFits'
      BY <1>1, <1>9 DEF Resizes, DesktopFits, AsksAll, RsClient
    <2> QED  BY <1>1, <1>2, <1>8, <1>9, <2>1, <2>2, HelperTypes, ResizesStay
  <1>10. ASSUME ShownFits PROVE ShownFits'
    <2>1. Steady' => Steady
      BY <1>1, <1>2, <1>8 DEF Steady, RsClient
    <2>2. Owed => Owed'
      BY <1>1, <1>2, <1>4 DEF Owed, Whole, AllComing, AsksAll, RsClient
    <2>3. Both' = Both
      BY <1>1 DEF Both, RsClient
    <2>4. ASSUME NEW b \in Both, Fine(b) PROVE Fine(b)'
      <3>1. DamageOf(b) => DamageOf(b)'
        BY <1>1 DEF DamageOf
      <3>2. Current(b) => Current(b)'
        BY <1>4, HelperTypes
      <3> QED  BY <1>1, <1>2, <2>4, <3>1, <3>2, FineStays
    <2> QED  BY <1>10, <2>1, <2>2, <2>3, <2>4, ShownStays
  <1> QED  BY <1>5, <1>7, <1>9, <1>10

LEMMA ScreenAsked == ASSUME ScreenInv, RecvFramebufferUpdate PROVE ScreenRest'
  <1> USE DEF ScreenInv, ScreenRest
  <1> DEFINE m == Head(rsUp)
  <1>1. /\ rsUp # <<>> /\ m.k = "update" /\ rsUp' = Tail(rsUp) /\ rsMain.at = "loop"
        /\ rsSrv' = [rsSrv EXCEPT !.full = @ \/ ~m.incr,
                                  !.region = IF m.incr /\ rsSrv.cont THEN {} ELSE RsAreas(m.size)]
        /\ UNCHANGED <<rsX, rsEv, rsMain, rsHelp, rsDown, RsClient, rsLeft, rsSwapped>>
    BY DEF RecvFramebufferUpdate, RsTakes
  <1>2. /\ AllComing => AllComing' \/ (~m.incr /\ m.size = rsCli.win /\ SizesRight')
        /\ SizesRight => SizesRight' /\ m.size = rsCli.win
        /\ DesktopFits => DesktopFits'
        /\ \A i \in 1..Len(rsUp) : rsUp[i] = m \/ \E j \in 1..Len(rsUp') : rsUp'[j] = rsUp[i]
        /\ m.size \in RsSizes
    BY <1>1, UpTaken DEF RsClient, IsUpMessage
  <1>3. /\ rsSrv'.size = rsSrv.size /\ rsSrv'.full = (rsSrv.full \/ ~m.incr) /\ rsSrv'.nego = rsSrv.nego
        /\ rsSrv'.region = IF m.incr /\ rsSrv.cont THEN {} ELSE RsAreas(m.size)
        /\ rsSrv'.cont = rsSrv.cont /\ rsSrv'.run = rsSrv.run /\ rsSrv'.damage = rsSrv.damage
    BY <1>1 DEF RsInv, RsTyped
  <1> HIDE DEF m
  <1>4. LeftTyped' /\ (RsInTurn' = RsInTurn) /\ SendFits'
    BY <1>1 DEF LeftTyped, RsInTurn, SendFits, DamageOf
  <1>5. ContComing => ContComing'
    BY <1>1, <1>2 DEF ContComing
  <1>6. RsAreas(m.size) # {}
    <2>1. m.size \in Nat \ {0}
      BY <1>2, RsAssumption
    <2> QED  BY <2>1 DEF RsAreas
  <1>7. rsCli' = rsCli
    BY <1>1 DEF RsClient
  <1>8. RegionFits'
    <2>1. rsCli.started => AllComing' \/ RegionRight'
      BY <1>2, <1>3, <1>7 DEF RegionFits, RegionRight
    <2>2. AllComing' \/ rsSrv'.region # {} \/ ContComing'
      BY <1>3, <1>5, <1>6 DEF RegionFits
    <2> QED  BY <1>3, <1>5, <1>7, <2>1, <2>2 DEF RegionFits
  <1>9. Whole => Whole'
    BY <1>2, <1>3 DEF Whole
  <1>10. Threads("own")' = Threads("own") /\ Threads("resizer")' = Threads("resizer")
    BY <1>1 DEF Threads
  <1>11. ASSUME Resizes PROVE Resizes'
    <2>1. \A n : Target(n) => Target(n)'
      BY <1>7, <1>9 DEF Target
    <2>2. DesktopFits'
      BY <1>2, <1>11 DEF Resizes
    <2> QED  BY <1>1, <1>3, <1>10, <1>11, <2>1, <2>2, HelperTypes, ResizesStay
  <1>12. ASSUME ShownFits PROVE ShownFits'
    <2>1. /\ Steady' = Steady /\ Both' = Both /\ PushComing' = PushComing
      BY <1>1, <1>3, <1>10 DEF Steady, PushComing, Both, RsClient
    <2>2. \A b : Fine(b)' = Fine(b)
      BY <1>1, <1>3 DEF Fine, DamageOf, Current, ShownNow, Brings, RsClient
    <2> QED  BY <1>9, <1>12, <2>1, <2>2 DEF ShownFits, Owed
  <1> QED  BY <1>4, <1>8, <1>11, <1>12

LEMMA ScreenContinued == ASSUME ScreenInv, RecvSetContinuousUpdates PROVE ScreenRest'
  <1> USE DEF ScreenInv, ScreenRest
  <1> DEFINE m == Head(rsUp)
  <1>1. /\ rsUp # <<>> /\ m.k = "continuous" /\ rsUp' = Tail(rsUp) /\ rsMain.at = "loop"
        /\ rsSrv' = [rsSrv EXCEPT !.cont = FALSE, !.region = RsAreas(m.size)]
        /\ UNCHANGED <<rsX, rsEv, rsMain, rsHelp, rsDown, RsClient, rsLeft, rsSwapped>>
    BY DEF RecvSetContinuousUpdates, RsTakes
  <1>2. /\ AllComing => AllComing'
        /\ SizesRight => SizesRight' /\ m.size = rsCli.win
        /\ DesktopFits => DesktopFits'
        /\ m.size \in RsSizes
    BY <1>1, UpTaken DEF RsClient, IsUpMessage
  <1>3. /\ rsSrv'.size = rsSrv.size /\ rsSrv'.full = rsSrv.full /\ rsSrv'.nego = rsSrv.nego
        /\ rsSrv'.region = RsAreas(m.size) /\ rsSrv'.cont = FALSE
        /\ rsSrv'.run = rsSrv.run /\ rsSrv'.damage = rsSrv.damage
    BY <1>1 DEF RsInv, RsTyped
  <1> HIDE DEF m
  <1>4. LeftTyped' /\ (RsInTurn' = RsInTurn) /\ SendFits'
    BY <1>1 DEF LeftTyped, RsInTurn, SendFits, DamageOf
  <1>5. RsAreas(m.size) # {}
    <2>1. m.size \in Nat \ {0}
      BY <1>2, RsAssumption
    <2> QED  BY <2>1 DEF RsAreas
  <1>6. rsCli' = rsCli
    BY <1>1 DEF RsClient
  <1>7. RegionFits'
    BY <1>2, <1>3, <1>5, <1>6 DEF RegionFits, RegionRight
  <1>8. Whole => Whole'
    BY <1>2, <1>3 DEF Whole
  <1>9. Threads("own")' = Threads("own") /\ Threads("resizer")' = Threads("resizer")
    BY <1>1 DEF Threads
  <1>10. ASSUME Resizes PROVE Resizes'
    <2>1. \A n : Target(n) => Target(n)'
      BY <1>6, <1>8 DEF Target
    <2>2. DesktopFits'
      BY <1>2, <1>10 DEF Resizes
    <2> QED  BY <1>1, <1>3, <1>9, <1>10, <2>1, <2>2, HelperTypes, ResizesStay
  <1>11. ASSUME ShownFits PROVE ShownFits'
    <2>1. /\ Steady' = Steady /\ Both' = Both /\ PushComing' = PushComing
      BY <1>1, <1>3, <1>9 DEF Steady, PushComing, Both, RsClient
    <2>2. \A b : Fine(b)' = Fine(b)
      BY <1>1, <1>3 DEF Fine, DamageOf, Current, ShownNow, Brings, RsClient
    <2> QED  BY <1>8, <1>11, <2>1, <2>2 DEF ShownFits, Owed
  <1> QED  BY <1>4, <1>7, <1>10, <1>11

LEMMA ScreenSized == ASSUME ScreenInv, RecvSetDesktopSize PROVE ScreenRest'
  <1> USE DEF ScreenInv, ScreenRest
  <1>5. PICK n : n = Head(rsUp).size
    OBVIOUS
  <1>1. /\ rsUp # <<>> /\ Head(rsUp).k = "desktop" /\ rsUp' = Tail(rsUp) /\ rsSrv.run
        /\ UNCHANGED <<rsX, rsEv, rsMain, RsClient, rsSwapped>>
    BY DEF RecvSetDesktopSize, RsTakes
  <1>2. /\ AllComing => AllComing'
        /\ SizesRight => SizesRight'
        /\ DesktopFits => DesktopFits' /\ (n = rsCli.win => AllComing')
        /\ \A i \in 1..Len(rsUp) : rsUp[i] = Head(rsUp) \/ \E j \in 1..Len(rsUp') : rsUp'[j] = rsUp[i]
    BY <1>1, <1>5, UpTaken DEF RsClient
  <1>3. CASE n = rsSrv.size
    <2> DEFINE m == RsResize(1, FALSE, n)
    <2>1. UNCHANGED <<rsSrv, rsHelp, rsLeft>> /\ m.k = "resize" /\ rsDown' = Append(rsDown, m)
      BY <1>3, <1>5 DEF RecvSetDesktopSize, RsSend, RsResize
    <2> HIDE DEF m
    <2>2. /\ PushComing => PushComing'
          /\ \A i \in 1..Len(rsDown) : i \in 1..Len(rsDown') /\ rsDown'[i] = rsDown[i]
          /\ \A a \in RsAll : Current(a) => Current(a)'
      BY <1>1, <2>1, DownAppended DEF RsClient
    <2>3. LeftTyped' /\ (RsInTurn' = RsInTurn) /\ SendFits'
      BY <1>1, <2>1 DEF LeftTyped, RsInTurn, SendFits, DamageOf
    <2>4. ContComing => ContComing'
      BY <1>1, <1>2, <2>2 DEF ContComing
    <2>5. RegionFits'
      BY <1>1, <1>2, <2>1, <2>4 DEF RegionFits, RegionRight, RsClient
    <2>6. Whole => Whole'
      BY <1>2, <2>1 DEF Whole
    <2>7. Threads("own")' = Threads("own") /\ Threads("resizer")' = Threads("resizer")
      BY <2>1 DEF Threads
    <2>8. ASSUME Resizes PROVE Resizes'
      <3>1. \A k : Target(k) => Target(k)'
        BY <1>1, <2>6 DEF Target, RsClient
      <3>2. DesktopFits'
        BY <1>2, <2>8 DEF Resizes
      <3> QED  BY <1>1, <2>1, <2>7, <2>8, <3>1, <3>2, HelperTypes, ResizesStay
    <2>9. ASSUME ShownFits PROVE ShownFits'
      <3>1. Steady' => Steady
        BY <1>1, <2>1, <2>7 DEF Steady, RsClient
      <3>2. Owed => Owed'
        BY <2>2, <2>6 DEF Owed
      <3>3. Both' = Both
        BY <1>1 DEF Both, RsClient
      <3>4. ASSUME NEW b \in Both, Fine(b) PROVE Fine(b)'
        <4>1. DamageOf(b) => DamageOf(b)'
          BY <1>1 DEF DamageOf
        <4>2. Current(b) => Current(b)'
          BY <2>2, HelperTypes
        <4> QED  BY <1>1, <2>1, <3>4, <4>1, <4>2, FineStays
      <3> QED  BY <2>9, <3>1, <3>2, <3>3, <3>4, ShownStays
    <2> QED  BY <2>3, <2>5, <2>8, <2>9
  <1>4. CASE n # rsSrv.size
    <2> DEFINE h == [k |-> "resizer", n |-> n, id |-> 0]
    <2>1. /\ rsSrv' = [rsSrv EXCEPT !.nego = TRUE] /\ rsHelp' = rsHelp \union {h}
          /\ rsLeft' = [rsLeft EXCEPT !.again = @ \/ rsSrv.nego] /\ rsDown' = rsDown
      BY <1>4, <1>5 DEF RecvSetDesktopSize
    <2>2. h.k = "resizer" /\ h.n = n
      OBVIOUS
    <2> HIDE DEF h
    <2>3. /\ rsSrv'.size = rsSrv.size /\ rsSrv'.full = rsSrv.full /\ rsSrv'.nego
          /\ rsSrv'.region = rsSrv.region /\ rsSrv'.cont = rsSrv.cont
          /\ rsSrv'.run = rsSrv.run /\ rsSrv'.damage = rsSrv.damage
      BY <2>1 DEF RsInv, RsTyped
    <2>9. LeftTyped' /\ rsLeft'.foreign = rsLeft.foreign /\ rsLeft'.again = (rsLeft.again \/ rsSrv.nego)
      BY <1>1, <2>1 DEF LeftTyped
    <2>4. (RsInTurn' => RsInTurn /\ ~rsSrv.nego) /\ SendFits'
      BY <1>1, <2>1, <2>9 DEF RsInTurn, SendFits, DamageOf
    <2>5. ContComing => ContComing'
      BY <1>1, <1>2, <2>1 DEF ContComing
    <2>6. RegionFits'
      BY <1>1, <1>2, <2>3, <2>5 DEF RegionFits, RegionRight, RsClient
    <2>7. ASSUME Resizes, ~rsSrv.nego PROVE Resizes'
      <3>1. NoCrtc /\ Threads("resizer") = {} /\ Threads("own") = {} /\ rsSrv.size = rsX.size
        BY <2>7 DEF Resizes, Settled
      <3>2. NoCrtc' /\ Threads("resizer")' = {h} /\ Threads("own")' = {}
        BY <1>1, <2>1, <2>2, <3>1 DEF NoCrtc, IsCrtc, Threads
      <3>3. Settled' /\ OwnAlone' /\ CrtcAlone'
        BY <1>1, <2>3, <3>1, <3>2 DEF Settled, OwnAlone, CrtcAlone, NoCrtc
      <3>4. Target(n)'
        BY <1>1, <1>2, <2>7 DEF Target, Whole, Resizes, RsClient
      <3>5. ResizerAlone'
        BY <2>2, <3>2, <3>4 DEF ResizerAlone
      <3>6. EventsFit' /\ DesktopFits'
        BY <1>1, <1>2, <2>3, <2>7 DEF Resizes, EventsFit, IsCrtc
      <3> QED  BY <3>3, <3>5, <3>6 DEF Resizes
    <2>8. ASSUME ShownFits, ~rsSrv.nego PROVE ShownFits'
      <3>1. Steady' => Steady
        BY <1>1, <2>3, <2>8 DEF Steady, RsClient
      <3>2. Both' = Both /\ PushComing' = PushComing
        BY <1>1, <2>1 DEF Both, PushComing, RsClient
      <3>3. \A b : Fine(b)' = Fine(b)
        BY <1>1, <2>1, <2>3 DEF Fine, DamageOf, Current, ShownNow, Brings, RsClient
      <3>4. Whole => Whole'
        BY <1>2, <2>3 DEF Whole
      <3> QED  BY <2>8, <3>1, <3>2, <3>3, <3>4 DEF ShownFits, Owed
    <2> QED  BY <2>4, <2>6, <2>7, <2>8, <2>9
  <1> QED  BY <1>3, <1>4

(* The client.                                                             *)
\* the window has a new size, or is new, and asks for everything
LEMMA ScreenAsksAll ==
  ASSUME ScreenInv, AllComing', DesktopFits', ContComing => ContComing',
         rsX' = rsX, rsEv' = rsEv, rsSrv' = rsSrv, rsMain' = rsMain, rsHelp' = rsHelp,
         DOMAIN rsLeft' = DOMAIN rsLeft, rsLeft'.foreign = rsLeft.foreign, rsLeft'.again = rsLeft.again
  PROVE  ScreenRest'
  <1> USE DEF ScreenInv, ScreenRest
  <1>1. LeftTyped' /\ (RsInTurn' = RsInTurn) /\ SendFits'
    BY DEF LeftTyped, RsInTurn, SendFits, DamageOf
  <1>2. RegionFits'
    BY DEF RegionFits
  <1>3. Whole'
    BY DEF Whole
  <1>4. ShownFits'
    BY <1>3 DEF ShownFits, Owed
  <1>5. ASSUME Resizes PROVE Resizes'
    <2>1. \A n : Target(n)'
      BY <1>3 DEF Target
    <2>2. Threads("own")' = Threads("own") /\ Threads("resizer")' = Threads("resizer")
      BY DEF Threads
    <2> QED  BY <1>5, <2>1, <2>2, HelperTypes, ResizesStay
  <1> QED  BY <1>1, <1>2, <1>4, <1>5

LEMMA ScreenStarts == ASSUME ScreenInv, RfbMessagesLoop PROVE ScreenRest'
  <1> DEFINE d == [k |-> "encodings", incr |-> FALSE, size |-> 0]
             r == RsRequest(FALSE, rsCli.win)
  <1>1. /\ ~rsCli.started /\ rsCli' = [rsCli EXCEPT !.started = TRUE] /\ rsUp' = <<d, r>>
        /\ UNCHANGED <<rsX, rsEv, RsServer, rsDown, rsSdl, rsLeft, rsSwapped>>
    BY DEF RfbMessagesLoop
  <1>2. rsCli'.win = rsCli.win /\ rsUp = <<>>
    BY <1>1 DEF ScreenInv, RsInv, RsTyped, BeforeStart
  <1> HIDE DEF d
  <1>3. Len(rsUp') = 2 /\ rsUp'[2] = RsRequest(FALSE, rsCli'.win)
    BY <1>1, <1>2, QueueTwo
  <1>4. AllComing' /\ DesktopFits'
    BY <1>3, WindowAsks
  <1>5. ContComing => ContComing'
    <2>1. Len(rsUp) = 0
      BY <1>2, QueueEmpty
    <2> QED  BY <1>1, <2>1 DEF ContComing
  <1> QED  BY <1>1, <1>4, <1>5, ScreenAsksAll DEF RsServer

LEMMA ScreenWindow == ASSUME ScreenInv, SdlUserEvent PROVE ScreenRest'
  <1>1. /\ rsCli' = [rsCli EXCEPT !.win = Head(rsSdl)]
        /\ rsUp' = Append(rsUp, RsRequest(FALSE, Head(rsSdl)))
        /\ UNCHANGED <<rsX, rsEv, RsServer, rsDown, rsLeft, rsSwapped>>
    BY DEF SdlUserEvent
  <1>2. rsCli'.win = Head(rsSdl)
    BY <1>1 DEF ScreenInv, RsInv, RsTyped
  <1>3. /\ Len(rsUp) \in Nat /\ Len(rsUp') = Len(rsUp) + 1
        /\ \A i \in 1..Len(rsUp) : i \in 1..Len(rsUp') /\ rsUp'[i] = rsUp[i]
        /\ rsUp'[Len(rsUp) + 1] = RsRequest(FALSE, rsCli'.win)
    <2> DEFINE r == RsRequest(FALSE, Head(rsSdl))
    <2>1. rsUp' = Append(rsUp, r) /\ r = RsRequest(FALSE, rsCli'.win) /\ IsQueue(rsUp)
      BY <1>1, <1>2 DEF ScreenInv, RsInv, RsTyped
    <2> HIDE DEF r
    <2> QED  BY <2>1, QueueAppended
  <1>4. Len(rsUp') \in Nat \ {0} /\ rsUp'[Len(rsUp')] = RsRequest(FALSE, rsCli'.win)
    BY <1>3
  <1>5. AllComing' /\ DesktopFits'
    BY <1>4, WindowAsks
  <1>6. ContComing => ContComing'
    BY <1>1, <1>3 DEF ContComing
  <1> QED  BY <1>1, <1>5, <1>6, ScreenAsksAll DEF RsServer

LEMMA ScreenUser == ASSUME ScreenInv, WindowResized PROVE ScreenRest'
  <1>1. PICK n \in RsSizes :
          /\ rsCli' = [rsCli EXCEPT !.win = n]
          /\ rsUp' = rsUp \o <<RsDesktop(n), RsRequest(FALSE, n)>>
    BY DEF WindowResized
  <1>2. rsLeft' = [rsLeft EXCEPT !.resize = @ - 1] /\ UNCHANGED <<rsX, rsEv, RsServer, rsDown, rsSdl, rsSwapped>>
    BY DEF WindowResized
  <1>3. rsCli'.win = n
    BY <1>1 DEF ScreenInv, RsInv, RsTyped
  <1> DEFINE two == <<RsDesktop(n), RsRequest(FALSE, n)>>
  <1>4. IsQueue(two) /\ Len(two) = 2 /\ two[2] = RsRequest(FALSE, n)
    BY QueueTwo
  <1>5. rsUp' = rsUp \o two
    BY <1>1
  <1> HIDE DEF two
  <1>6. /\ Len(rsUp) \in Nat /\ Len(rsUp') = Len(rsUp) + 2
        /\ \A i \in 1..Len(rsUp) : i \in 1..Len(rsUp') /\ rsUp'[i] = rsUp[i]
        /\ rsUp'[Len(rsUp) + 2] = RsRequest(FALSE, rsCli'.win)
    <2>1. IsQueue(rsUp) /\ IsQueue(two)
      BY <1>4 DEF ScreenInv, RsInv, RsTyped
    <2>2. 2 \in 1..Len(two)
      BY <1>4
    <2> DEFINE j == rsUp \o two
    <2>3. /\ Len(rsUp) \in Nat /\ Len(j) = Len(rsUp) + 2
          /\ \A i \in 1..Len(rsUp) : i \in 1..Len(j) /\ j[i] = rsUp[i]
          /\ j[Len(rsUp) + 2] = two[2]
      <3>1. /\ Len(rsUp) \in Nat /\ Len(j) = Len(rsUp) + Len(two)
            /\ \A i \in 1..Len(rsUp) : i \in 1..Len(j) /\ j[i] = rsUp[i]
            /\ \A i \in 1..Len(two) : j[Len(rsUp) + i] = two[i]
        BY <2>1, QueueJoined
      <3> HIDE DEF j
      <3> QED  BY <1>4, <2>2, <3>1
    <2>4. rsUp' = j
      BY <1>5
    <2> HIDE DEF j
    <2> QED  BY <1>3, <1>4, <2>3, <2>4
  <1>7. Len(rsUp') \in Nat \ {0} /\ rsUp'[Len(rsUp')] = RsRequest(FALSE, rsCli'.win)
    BY <1>6
  <1>8. AllComing' /\ DesktopFits'
    BY <1>7, WindowAsks
  <1>9. ContComing => ContComing'
    BY <1>2, <1>6 DEF ContComing
  <1>10. DOMAIN rsLeft' = DOMAIN rsLeft /\ rsLeft'.foreign = rsLeft.foreign /\ rsLeft'.again = rsLeft.again
    BY <1>2 DEF ScreenInv, ScreenRest, LeftTyped
  <1> QED  BY <1>2, <1>8, <1>9, <1>10, ScreenAsksAll DEF RsServer

\* the client says something about the window it has
LEMMA ScreenSays ==
  ASSUME ScreenInv, UNCHANGED <<rsX, rsEv, RsServer>>, rsCli'.win = rsCli.win, rsCli'.started = rsCli.started,
         LeftTyped', RsInTurn' = RsInTurn,
         AllComing => AllComing', SizesRight => SizesRight', DesktopFits => DesktopFits',
         ContComing => ContComing', PushComing => PushComing',
         \A a \in RsAll : Current(a) => Current(a)' \/ PushComing'
  PROVE  ScreenRest'
  <1> USE DEF ScreenInv, ScreenRest
  <1>1. RegionFits' /\ SendFits'
    BY DEF RegionFits, RegionRight, SendFits, DamageOf, RsServer
  <1>2. Whole => Whole'
    BY DEF Whole, RsServer
  <1>3. Threads("own")' = Threads("own") /\ Threads("resizer")' = Threads("resizer")
    BY DEF Threads, RsServer
  <1>4. ASSUME Resizes PROVE Resizes'
    <2>1. \A n : Target(n) => Target(n)'
      BY <1>2 DEF Target
    <2>2. DesktopFits'
      BY <1>4 DEF Resizes
    <2> QED  BY <1>3, <1>4, <2>1, <2>2, HelperTypes, ResizesStay DEF RsServer
  <1>5. ASSUME ShownFits PROVE ShownFits'
    <2>1. Steady' => Steady
      BY <1>3 DEF Steady, RsServer
    <2>2. Owed => Owed'
      BY <1>2 DEF Owed
    <2>3. Both' = Both
      BY DEF Both
    <2>4. ASSUME NEW b \in Both, Fine(b) PROVE Fine(b)' \/ Owed'
      <3>1. CASE PushComing'
        BY <3>1 DEF Owed
      <3>2. CASE ~PushComing'
        <4>1. DamageOf(b) => DamageOf(b)'
          BY DEF DamageOf
        <4>2. Current(b) => Current(b)'
          BY <3>2, HelperTypes
        <4> QED  BY <2>4, <4>1, <4>2, FineStays DEF RsServer
      <3> QED  BY <3>1, <3>2
    <2> QED  BY <1>5, <2>1, <2>2, <2>3, <2>4, ShownStays
  <1> QED  BY <1>1, <1>4, <1>5

LEMMA ScreenIncr == ASSUME ScreenInv, RfbRequestIncrUpdate PROVE ScreenRest'
  <1> DEFINE m == RsRequest(TRUE, rsCli.win)
  <1>1. /\ rsLeft' = [rsLeft EXCEPT !.incr = @ - 1] /\ rsUp' = Append(rsUp, m)
        /\ UNCHANGED <<rsX, rsEv, RsServer, rsDown, RsClient, rsSwapped>>
    BY DEF RfbRequestIncrUpdate
  <1>2. m.k = "update" /\ m.size = rsCli.win
    BY DEF RsRequest
  <1> HIDE DEF m
  <1>3. /\ AllComing => AllComing'
        /\ SizesRight => SizesRight'
        /\ DesktopFits => DesktopFits'
        /\ \A i \in 1..Len(rsUp) : i \in 1..Len(rsUp') /\ rsUp'[i] = rsUp[i]
    BY <1>1, <1>2, UpAppended DEF ScreenInv, RsClient
  <1>4. LeftTyped' /\ (RsInTurn' = RsInTurn)
    BY <1>1 DEF ScreenInv, ScreenRest, LeftTyped, RsInTurn
  <1>5. ContComing => ContComing'
    BY <1>1, <1>3 DEF ContComing
  <1>6. PushComing' = PushComing /\ \A a \in RsAll : Current(a) => Current(a)'
    BY <1>1 DEF PushComing, Current, ShownNow, Brings, RsClient
  <1> QED  BY <1>1, <1>3, <1>4, <1>5, <1>6, ScreenSays DEF RsClient

LEMMA ScreenStops == ASSUME ScreenInv, RecvContinuousUpdates PROVE ScreenRest'
  <1> DEFINE m == RsCont(rsCli.win)
  <1>1. /\ rsDown # <<>> /\ Head(rsDown).k = "continuous" /\ rsDown' = Tail(rsDown)
        /\ rsUp' = Append(rsUp, m)
        /\ UNCHANGED <<rsX, rsEv, RsServer, RsClient, rsLeft, rsSwapped>>
    BY DEF RecvContinuousUpdates, CliTakes
  <1>2. m.k = "continuous" /\ m.size = rsCli.win
    BY DEF RsCont
  <1> HIDE DEF m
  <1>3. /\ AllComing => AllComing'
        /\ SizesRight => SizesRight'
        /\ DesktopFits => DesktopFits'
        /\ Len(rsUp') \in 1..Len(rsUp') /\ rsUp'[Len(rsUp')] = m
    BY <1>1, <1>2, UpAppended DEF ScreenInv, RsClient
  <1>4. LeftTyped' /\ (RsInTurn' = RsInTurn)
    BY <1>1 DEF ScreenInv, ScreenRest, LeftTyped, RsInTurn
  <1>5. ContComing'
    BY <1>2, <1>3 DEF ContComing
  <1>6. (PushComing => PushComing') /\ \A a \in RsAll : Current(a) => Current(a)'
    BY <1>1, DownTaken DEF ScreenInv, RsClient
  <1> QED  BY <1>1, <1>3, <1>4, <1>5, <1>6, ScreenSays DEF RsClient

LEMMA ScreenArrives == ASSUME ScreenInv, RecvScreenUpdate PROVE ScreenRest'
  <1>1. /\ rsDown # <<>> /\ Head(rsDown).k = "fb" /\ rsDown' = Tail(rsDown)
        /\ rsCli' = [rsCli EXCEPT !.shown = RecvFBUpdateRegion(Head(rsDown))]
        /\ UNCHANGED <<rsX, rsEv, RsServer, rsUp, rsSdl, rsLeft, rsSwapped>>
    BY DEF RecvScreenUpdate, CliTakes
  <1>2. /\ rsCli'.win = rsCli.win /\ rsCli'.started = rsCli.started
        /\ rsCli'.shown = RecvFBUpdateRegion(Head(rsDown))
    BY <1>1 DEF ScreenInv, RsInv, RsTyped
  <1>3. /\ AllComing' = AllComing /\ SizesRight' = SizesRight /\ DesktopFits' = DesktopFits
    BY <1>1, <1>2 DEF AllComing, AsksAll, SizesRight, DesktopFits
  <1>4. LeftTyped' /\ (RsInTurn' = RsInTurn)
    BY <1>1 DEF ScreenInv, ScreenRest, LeftTyped, RsInTurn
  <1>5. /\ PushComing => PushComing'
        /\ \A i \in 1..Len(rsDown) : rsDown[i] = Head(rsDown) \/ \E j \in 1..Len(rsDown') : rsDown'[j] = rsDown[i]
        /\ \A a \in RsAll : Current(a) => Current(a)'
    BY <1>1, <1>2, DownTaken DEF ScreenInv
  <1>6. ContComing => ContComing'
    BY <1>1, <1>5 DEF ContComing
  <1> QED  BY <1>1, <1>2, <1>3, <1>4, <1>5, <1>6, ScreenSays

LEMMA ScreenDecodes == ASSUME ScreenInv, RecvDecodingDesktopSize PROVE ScreenRest'
  <1> DEFINE m == Head(rsDown)
  <1>1. /\ rsDown # <<>> /\ m.k = "resize" /\ rsDown' = Tail(rsDown)
        /\ UNCHANGED <<rsX, rsEv, RsServer, rsLeft, rsSwapped>>
    BY DEF RecvDecodingDesktopSize, CliTakes
  <1>2. LeftTyped' /\ (RsInTurn' = RsInTurn)
    BY <1>1 DEF ScreenInv, ScreenRest, LeftTyped, RsInTurn
  <1>3. CASE m.status = 0 /\ ~rsCli.nego
    <2>1. /\ rsCli' = [rsCli EXCEPT !.nego = TRUE] /\ rsSdl' = rsSdl
          /\ \/ rsUp' = rsUp
             \/ RsPrimary # rsCli.win /\ rsUp' = Append(rsUp, RsDesktop(RsPrimary))
      BY <1>3 DEF RecvDecodingDesktopSize, DesktopSizeEvent
    <2>2. rsCli'.win = rsCli.win /\ rsCli'.started = rsCli.started /\ rsCli'.shown = rsCli.shown
      BY <2>1 DEF ScreenInv, RsInv, RsTyped
    <2>3. /\ AllComing => AllComing'
          /\ SizesRight => SizesRight'
          /\ DesktopFits => DesktopFits'
          /\ \A i \in 1..Len(rsUp) : i \in 1..Len(rsUp') /\ rsUp'[i] = rsUp[i]
      <3>1. CASE rsUp' = rsUp
        BY <2>2, <3>1 DEF AllComing, AsksAll, SizesRight, DesktopFits
      <3>2. CASE RsPrimary # rsCli.win /\ rsUp' = Append(rsUp, RsDesktop(RsPrimary))
        <4> DEFINE d == RsDesktop(RsPrimary)
        <4>1. d.k = "desktop" /\ d.size # rsCli.win /\ rsUp' = Append(rsUp, d)
          BY <3>2 DEF RsDesktop
        <4> HIDE DEF d
        <4> QED  BY <2>2, <4>1, UpAppended DEF ScreenInv
      <3> QED  BY <2>1, <3>1, <3>2
    <2>4. /\ PushComing => PushComing'
          /\ \A i \in 1..Len(rsDown) : rsDown[i] = m \/ \E j \in 1..Len(rsDown') : rsDown'[j] = rsDown[i]
          /\ \A a \in RsAll : Current(a) => Current(a)'
      BY <1>1, <1>3, <2>1, <2>2, DownTaken DEF ScreenInv
    <2>5. ContComing => ContComing'
      BY <1>1, <2>3, <2>4 DEF ContComing
    <2> QED  BY <1>1, <1>2, <2>2, <2>3, <2>4, <2>5, ScreenSays
  <1>4. CASE ~(m.status = 0 /\ ~rsCli.nego)
    <2>1. /\ rsSdl' = IF m.n = rsCli.win THEN rsSdl ELSE Append(rsSdl, m.n)
          /\ rsCli' = rsCli /\ rsUp' = rsUp
      BY <1>4 DEF RecvDecodingDesktopSize, DesktopSizeEvent, PushEventWindowResize
    <2>2. m.n # rsCli.win \/ rsSdl # <<>> => rsSdl' # <<>>
      <3>1. Len(Append(rsSdl, m.n)) = Len(rsSdl) + 1 /\ Len(rsSdl) \in Nat
        BY QueueAppended DEF ScreenInv, RsInv, RsTyped
      <3>2. Append(rsSdl, m.n) # <<>>
        BY <3>1, QueueEmpty
      <3> QED  BY <2>1, <3>2
    <2>3. /\ AllComing' = AllComing /\ SizesRight' = SizesRight /\ DesktopFits' = DesktopFits
      BY <2>1 DEF AllComing, AsksAll, SizesRight, DesktopFits
    <2>4. /\ PushComing => PushComing' \/ m.n # rsCli.win
          /\ \A i \in 1..Len(rsDown) : rsDown[i] = m \/ \E j \in 1..Len(rsDown') : rsDown'[j] = rsDown[i]
          /\ \A a \in RsAll : Current(a) => Current(a)'
      BY <1>1, <2>1, <2>2, DownTaken DEF ScreenInv
    <2>5. PushComing => PushComing'
      BY <2>2, <2>4 DEF PushComing
    <2>6. ContComing => ContComing'
      BY <1>1, <2>1, <2>4 DEF ContComing
    <2> QED  BY <1>1, <1>2, <2>1, <2>3, <2>4, <2>5, <2>6, ScreenSays
  <1> QED  BY <1>3, <1>4

LEMMA ScreenInvStep == ScreenInv /\ [RsNext]_RsVars => ScreenInv'
  <1> SUFFICES ASSUME ScreenInv, [RsNext]_RsVars PROVE ScreenInv'
    OBVIOUS
  <1>1. RsInv'
    BY RsInvStep DEF ScreenInv
  <1>2. CASE RsNext
    <2>1. ASSUME NEW t \in rsHelp, SendEncodingDesktopResize(t) \/ SetRandrScreenSize(t) \/ StoreRandrSequence(t)
          PROVE  ScreenRest'
      BY <2>1, ScreenTold, ScreenResizes, ScreenStores
    <2>2. ASSUME XcbDraws \/ XcbResized \/ XcbDamageNotify \/ XcbRandrScreenChanged \/ FrameBegins \/ FrameSent
          PROVE  ScreenRest'
      BY <2>2, ScreenDraws, ScreenForeign, ScreenDamaged, ScreenChanged, ScreenBegins, ScreenSent
    <2>3. ASSUME \/ RecvSetEncodingsWaits \/ RecvSetEncodings \/ RecvFramebufferUpdate
                 \/ RecvSetContinuousUpdates \/ RecvSetDesktopSize
          PROVE  ScreenRest'
      BY <2>3, ScreenWaits, ScreenEncodings, ScreenAsked, ScreenContinued, ScreenSized
    <2>4. ASSUME \/ RfbMessagesLoop \/ RfbRequestIncrUpdate \/ RecvContinuousUpdates \/ RecvScreenUpdate
                 \/ RecvDecodingDesktopSize \/ SdlUserEvent \/ WindowResized
          PROVE  ScreenRest'
      BY <2>4, ScreenStarts, ScreenIncr, ScreenStops, ScreenArrives, ScreenDecodes, ScreenWindow, ScreenUser
    <2> QED  BY <1>1, <1>2, <2>1, <2>2, <2>3, <2>4 DEF RsNext, ScreenInv
  <1>3. CASE UNCHANGED RsVars
    <2>1. UNCHANGED <<rsX, rsEv, RsServer, rsUp, rsDown, rsCli, rsSdl, rsLeft>>
      BY <1>3 DEF RsVars, RsClient
    <2>2. /\ AllComing' = AllComing /\ SizesRight' = SizesRight /\ DesktopFits' = DesktopFits
          /\ ContComing' = ContComing /\ PushComing' = PushComing
          /\ \A a : Current(a)' = Current(a)
      BY <2>1 DEF AllComing, AsksAll, SizesRight, DesktopFits, ContComing, PushComing, Current, ShownNow, Brings
    <2>3. LeftTyped' /\ (RsInTurn' = RsInTurn)
      BY <2>1 DEF ScreenInv, ScreenRest, LeftTyped, RsInTurn
    <2> QED  BY <1>1, <2>1, <2>2, <2>3, ScreenSays DEF ScreenInv
  <1> QED  BY <1>2, <1>3

\* What the window shows: every area that was drawn is sent to a client that
\* has it in its window, although damage is dropped by the frame being sent,
\* clipped to the size the server knows and to the region of the client's
\* last request, and discarded when the screen has shrunk: it is sent again,
\* because the window asks for everything after each of its resizes.  Not
\* when resizes overlap, and not when the programs resize the screen.
THEOREM WindowShowsScreen == RsSpec => []RsShowsScreen
  <1>1. RsInit => ScreenInv
    BY ScreenInvInit
  <1> QED  BY <1>1, ScreenInvStep, ScreenInvGives, PTL DEF RsSpec

-----------------------------------------------------------------------------
(***************************************************************************)
(* The cursors: where an id goes while the server takes it for one the     *)
(* client has.                                                             *)
(***************************************************************************)
\* the image is on its way to the client
ImageComing(id) == \E i \in 1..Len(toClient) : toClient[i].id = id /\ toClient[i].pixels
\* the client's complaint is on its way to the server
FailureComing(id) == \E i \in 1..Len(toServer) : toServer[i].type = "cursor" /\ toServer[i].id = id

InCursorInv ==
    /\ IsQueue(toServer) /\ IsQueue(toClient)
    /\ \A id \in sended : id \in Cached \cup cleared \/ ImageComing(id) \/ FailureComing(id)

LEMMA InCursorGives == InCursorInv => InCursorKnown
  <1> SUFFICES ASSUME InCursorInv, toClient = <<>>, ~AtServer("cursor"), NEW id \in sended
               PROVE  id \in Cached \cup cleared
    BY DEF InCursorKnown
  <1>1. ~ImageComing(id)
    BY QueueEmpty DEF ImageComing
  <1>2. ~FailureComing(id)
    BY DEF FailureComing, AtServer
  <1> QED  BY <1>1, <1>2 DEF InCursorInv

LEMMA InCursorInit == ASSUME InInit PROVE InCursorInv
  BY QueueEmpty DEF InInit, InCursorInv

(* What the user does to the keyboard and the mouse adds messages of its   *)
(* own.                                                                    *)
LEMMA InAsked ==
  ASSUME InCursorInv, NEW q, IsQueue(q), toServer' = toServer \o q
  PROVE  IsQueue(toServer') /\ \A id : FailureComing(id) => FailureComing(id)'
  <1> DEFINE j == toServer \o q
  <1>1. /\ IsQueue(j)
        /\ \A i \in 1..Len(toServer) : i \in 1..Len(j) /\ j[i] = toServer[i]
    BY QueueJoined DEF InCursorInv
  <1> HIDE DEF j
  <1>2. toServer' = j
    BY DEF j
  <1> QED  BY <1>1, <1>2 DEF FailureComing

LEMMA InAskedOne ==
  ASSUME InCursorInv, NEW m, toServer' = Append(toServer, m)
  PROVE  /\ IsQueue(toServer') /\ \A id : FailureComing(id) => FailureComing(id)'
         /\ m.type = "cursor" => FailureComing(m.id)'
  <1> DEFINE j == Append(toServer, m)
             n == Len(toServer)
  <1>1. /\ IsQueue(j) /\ n \in Nat /\ Len(j) = n + 1
        /\ \A i \in 1..n : i \in 1..Len(j) /\ j[i] = toServer[i]
        /\ j[n + 1] = m
    BY QueueAppended DEF InCursorInv
  <1>2. toServer' = j
    OBVIOUS
  <1>3. \A id : FailureComing(id) => FailureComing(id)'
    <2> HIDE DEF j
    <2> QED  BY <1>1, <1>2 DEF FailureComing
  <1>4. m.type = "cursor" => FailureComing(m.id)'
    <2> HIDE DEF j, n
    <2>1. n + 1 \in 1..Len(j)
      BY <1>1
    <2> QED  BY <2>1, <1>1, <1>2 DEF FailureComing
  <1> QED  BY <1>1, <1>2, <1>3, <1>4

(* Another message is taken by the server: the complaints stay.            *)
LEMMA InTakenOther ==
  ASSUME InCursorInv, toServer # <<>>, toServer' = Tail(toServer)
  PROVE  /\ IsQueue(toServer')
         /\ \A id : FailureComing(id) =>
              FailureComing(id)' \/ (Head(toServer).type = "cursor" /\ Head(toServer).id = id)
  <1> DEFINE j == Tail(toServer)
  <1>1. /\ IsQueue(j) /\ Head(toServer) = toServer[1]
        /\ \A i \in 1..Len(toServer) : i = 1 \/ (i - 1 \in 1..Len(j) /\ j[i - 1] = toServer[i])
    BY QueueTaken DEF InCursorInv
  <1>2. toServer' = j
    OBVIOUS
  <1> HIDE DEF j
  <1> QED  BY <1>1, <1>2 DEF FailureComing

(* The steps that leave the cursors alone.                                 *)
LEMMA InCursorAlone ==
  ASSUME InCursorInv,
         \/ SdlMouseMotion \/ SdlMouseWheel
         \/ \E b \in {LeftButton, 3} : SdlMouseButton(b)
         \/ \E key \in DOMAIN InKeys : SdlKeyboardEvent(key)
         \/ XkbGroupChanged
         \/ ServerRecvPointerEvent \/ ServerRecvKeyEvent \/ SystemKeyboardChange
         \/ XcbAllowMessages
  PROVE  InCursorInv'
  <1>1. ASSUME UNCHANGED <<toClient, sended, cache, cleared>>,
               IsQueue(toServer'), \A id : FailureComing(id) => FailureComing(id)'
        PROVE  InCursorInv'
    BY <1>1 DEF InCursorInv, Cached, ImageComing
  <1>2. ASSUME UNCHANGED <<toClient, sended, cache, cleared>>, UNCHANGED toServer
        PROVE  InCursorInv'
    BY <1>2 DEF InCursorInv, Cached, ImageComing, FailureComing
  <1>3. CASE SdlMouseMotion
    BY <1>1, <1>3, InAskedOne DEF SdlMouseMotion, cursorSide
  <1>4. CASE SdlMouseWheel
    <2>1. /\ toServer' = toServer \o <<PointerEvent({WheelButton}), PointerEvent({})>>
          /\ UNCHANGED <<toClient, sended, cache, cleared>>
      BY <1>4 DEF SdlMouseWheel, cursorSide
    <2>2. IsQueue(<<PointerEvent({WheelButton}), PointerEvent({})>>)
      BY QueueTwo
    <2> QED  BY <1>1, <2>1, <2>2, InAsked
  <1>5. CASE \E b \in {LeftButton, 3} : SdlMouseButton(b)
    BY <1>1, <1>5, InAskedOne DEF SdlMouseButton, cursorSide
  <1>6. CASE \E key \in DOMAIN InKeys : SdlKeyboardEvent(key)
    BY <1>1, <1>6, InAskedOne DEF SdlKeyboardEvent, cursorSide
  <1>7. CASE XkbGroupChanged
    <2>1. /\ UNCHANGED <<toClient, sended, cache, cleared>>
          /\ toServer' = toServer \/ \E m : toServer' = Append(toServer, m)
      BY <1>7 DEF XkbGroupChanged, cursorSide
    <2> QED  BY <1>1, <1>2, <2>1, InAskedOne
  <1>8. ASSUME NEW type, type # "cursor", Taken(type)
        PROVE  IsQueue(toServer') /\ \A id : FailureComing(id) => FailureComing(id)'
    BY <1>8, InTakenOther DEF Taken
  <1>9. CASE ServerRecvPointerEvent
    BY <1>1, <1>8, <1>9 DEF ServerRecvPointerEvent, cursorSide
  <1>10. CASE ServerRecvKeyEvent
    BY <1>1, <1>8, <1>10 DEF ServerRecvKeyEvent, cursorSide
  <1>11. CASE SystemKeyboardChange
    BY <1>1, <1>8, <1>11 DEF SystemKeyboardChange, cursorSide
  <1>12. CASE XcbAllowMessages
    BY <1>2, <1>12 DEF XcbAllowMessages, cursorSide
  <1> QED  BY <1>3, <1>4, <1>5, <1>6, <1>7, <1>9, <1>10, <1>11, <1>12

LEMMA InCursorSent ==
  ASSUME InCursorInv, NEW id \in InCursors, SendUpdateRichCursor(id)
  PROVE  InCursorInv'
  <1>1. UNCHANGED <<toServer, cache, cleared>>
    BY DEF SendUpdateRichCursor
  <1>2. PICK p \in BOOLEAN :
          /\ toClient' = Append(toClient, [id |-> id, pixels |-> p])
          /\ sended' = sended \/ (sended' = sended \cup {id} /\ p = (id \notin sended))
    BY DEF SendUpdateRichCursor, SendEncodingLtsmCursor, SendEncodingRichCursor
  <1> DEFINE m == [id |-> id, pixels |-> p]
             j == Append(toClient, m)
             n == Len(toClient)
  <1>3. /\ IsQueue(j) /\ n \in Nat /\ Len(j) = n + 1
        /\ \A i \in 1..n : i \in 1..Len(j) /\ j[i] = toClient[i]
        /\ j[n + 1] = m
    BY QueueAppended DEF InCursorInv
  <1>4. toClient' = j /\ m.id = id /\ m.pixels = p
    BY <1>2
  <1>5. n + 1 \in 1..Len(j)
    <2> HIDE DEF j, n
    <2> QED  BY <1>3
  <1> HIDE DEF j, m, n
  <1>6. \A d : ImageComing(d) => ImageComing(d)'
    BY <1>3, <1>4 DEF ImageComing, n
  <1>7. p => ImageComing(id)'
    BY <1>3, <1>4, <1>5 DEF ImageComing
  <1>8. \A d \in sended' : d \in sended \/ (d = id /\ p)
    BY <1>2
  <1> QED  BY <1>1, <1>3, <1>4, <1>6, <1>7, <1>8 DEF InCursorInv, Cached, FailureComing

LEMMA InCursorReceived ==
  ASSUME InCursorInv, NEW made \in BOOLEAN, RecvCursorEvent(made)
  PROVE  InCursorInv'
  <1> DEFINE m == Head(toClient)
             j == Tail(toClient)
  <1>1. toClient # <<>> /\ toClient' = j /\ sended' = sended
    BY DEF RecvCursorEvent
  <1>2. /\ IsQueue(j) /\ m = toClient[1]
        /\ \A i \in 1..Len(toClient) : i = 1 \/ (i - 1 \in 1..Len(j) /\ j[i - 1] = toClient[i])
    BY <1>1, QueueTaken DEF InCursorInv
  <1>3. \A id : ImageComing(id) => ImageComing(id)' \/ (m.id = id /\ m.pixels)
    <2> HIDE DEF j, m
    <2> QED  BY <1>1, <1>2 DEF ImageComing
  <1>4. CASE m.id \in Cached
    <2>1. UNCHANGED <<cache, toServer, cleared>>
      BY <1>4 DEF RecvCursorEvent, RecvDecodingCursor
    <2> HIDE DEF j, m
    <2> QED  BY <1>1, <1>2, <1>3, <1>4, <2>1 DEF InCursorInv, Cached, FailureComing
  <1>5. CASE m.id \notin Cached /\ ~m.pixels
    <2>1. /\ toServer' = Append(toServer, [type |-> "cursor", id |-> m.id])
          /\ cleared' = cleared \ {m.id} /\ UNCHANGED cache
      BY <1>5 DEF RecvCursorEvent, RecvDecodingCursor
    <2>2. /\ IsQueue(toServer') /\ \A id : FailureComing(id) => FailureComing(id)'
          /\ \E i \in 1..Len(toServer') : toServer'[i].type = "cursor" /\ toServer'[i].id = m.id
      <3> DEFINE e == [type |-> "cursor", id |-> m.id]
                 s == Append(toServer, e)
                 n == Len(toServer)
      <3>1. IsQueue(toServer') /\ \A id : FailureComing(id) => FailureComing(id)'
        BY <2>1, InAskedOne
      <3>2. n \in Nat /\ Len(s) = n + 1 /\ s[n + 1] = e
        BY QueueAppended DEF InCursorInv
      <3>3. toServer' = s /\ e.type = "cursor" /\ e.id = m.id
        BY <2>1
      <3> HIDE DEF s, e, n
      <3>4. n + 1 \in 1..Len(s)
        BY <3>2
      <3> QED  BY <3>1, <3>2, <3>3, <3>4
    <2>3. \A id \in sended : id = m.id => FailureComing(id)'
      BY <2>2 DEF FailureComing
    <2> HIDE DEF j, m
    <2> QED  BY <1>1, <1>2, <1>3, <1>5, <2>1, <2>2, <2>3 DEF InCursorInv, Cached
  <1>6. CASE m.id \notin Cached /\ m.pixels
    <2>1. /\ cache' = [i \in Cached \cup {m.id} |-> IF i = m.id THEN made ELSE cache[i]]
          /\ cleared' = cleared \ {m.id}
          /\ toServer' = toServer \/ toServer' = Append(toServer, [type |-> "cursor", id |-> m.id])
      BY <1>6 DEF RecvCursorEvent, RecvDecodingCursor
    <2>2. IsQueue(toServer') /\ \A id : FailureComing(id) => FailureComing(id)'
      <3>1. CASE toServer' = toServer
        BY <3>1 DEF FailureComing, InCursorInv
      <3>2. CASE toServer' = Append(toServer, [type |-> "cursor", id |-> m.id])
        BY <3>2, InAskedOne
      <3> QED  BY <3>1, <3>2, <2>1
    <2>3. Cached' = Cached \cup {m.id}
      BY <2>1 DEF Cached
    <2> HIDE DEF j, m
    <2> QED  BY <1>1, <1>2, <1>3, <1>6, <2>1, <2>2, <2>3 DEF InCursorInv
  <1> QED  BY <1>4, <1>5, <1>6

LEMMA InCursorAgain ==
  ASSUME InCursorInv, CursorFailed \/ ClearCursors
  PROVE  InCursorInv'
  <1>1. CASE CursorFailed
    <2>1. /\ toServer # <<>> /\ toServer' = Tail(toServer)
          /\ sended' = sended \ {Head(toServer).id}
          /\ UNCHANGED <<toClient, cache, cleared>>
      BY <1>1 DEF CursorFailed, Taken
    <2> QED  BY <2>1, InTakenOther DEF InCursorInv, Cached, ImageComing
  <1>2. CASE ClearCursors
    <2>1. /\ cleared' = cleared \cup Cached
          /\ UNCHANGED <<toServer, toClient, sended>>
      BY <1>2 DEF ClearCursors
    <2> QED  BY <2>1 DEF InCursorInv, ImageComing, FailureComing
  <1> QED  BY <1>1, <1>2

\* cursorSended only grows when an image is sent, and the client's cursors
\* come and go behind its back: an id that is sent without its image is one
\* the client can show, one a resize of the window dropped, or one whose
\* failure is reported.
THEOREM CursorsKnown == InSpec => []InCursorKnown
  <1>1. InInit => InCursorInv
    BY InCursorInit
  <1>2. InCursorInv /\ [InNext]_inVars => InCursorInv'
    <2> SUFFICES ASSUME InCursorInv, [InNext]_inVars PROVE InCursorInv'
      OBVIOUS
    <2>1. CASE InNext
      BY <2>1, InCursorAlone, InCursorSent, InCursorReceived, InCursorAgain DEF InNext
    <2>2. CASE UNCHANGED inVars
      BY <2>2 DEF inVars, InCursorInv, Cached, ImageComing, FailureComing
    <2> QED  BY <2>1, <2>2
  <1> QED  BY <1>1, <1>2, InCursorGives, PTL DEF InSpec

-----------------------------------------------------------------------------
(***************************************************************************)
(* The handshake: every place the two ends can be in together, with the    *)
(* words that are on their way then.                                       *)
(***************************************************************************)
Plain(kind, val) == HsWord(kind, val, FALSE)
Layered(kind, val) == HsWord(kind, val, hsSrv.tls)
EndsAt(server, client, down, up) ==
    hsSrv.at = server /\ hsCli.at = client /\ hsDown = down /\ hsUp = up

Usable == ServerTypes \intersect hsConf.wants
BothOf(t) == hsSrv.type = t /\ hsCli.type = t /\ hsSrv.tls = FALSE /\ t \in Usable
Agreed ==
    hsConf.version = "38" =>
        /\ hsSrv.type = hsCli.type /\ hsSrv.type \in Usable
        /\ hsSrv.tls = (hsSrv.type = "vencrypt")
        /\ hsSrv.type = "vnc" => hsConf.password \in HsPassFile

\* the versions, and the list of types
Opening ==
    /\ hsSrv.type = "none" /\ hsCli.type = "none" /\ hsSrv.tls = FALSE
    /\ \/ EndsAt("version", "version", <<Plain("version", "38")>>, <<>>)
       \/ /\ hsConf.version # "33"
          /\ EndsAt("version", "count", <<>>, <<Plain("version", hsConf.version)>>)
       \/ /\ hsConf.version = "33"
          /\ \/ EndsAt("version", "oldtype", <<>>, <<Plain("version", "33")>>)
             \/ EndsAt("init", "oldtype", <<Plain("be32", hsConf.offers \ {"vencrypt"})>>, <<>>)
       \/ EndsAt("failed", "count", <<>>, <<>>)
       \/ EndsAt("failed", "count", <<Plain("u8", 0)>>, <<>>)
       \/ EndsAt("failed", "reason", <<>>, <<>>)
       \/ /\ hsConf.version \in {"37", "38"} /\ ServerTypes # {}
          /\ \/ EndsAt("type", "count", <<Plain("u8", Cardinality(ServerTypes)), Plain("types", ServerTypes)>>, <<>>)
             \/ EndsAt("type", "types", <<Plain("types", ServerTypes)>>, <<>>)

\* the client has chosen
Choosing ==
    /\ hsSrv.type = "none" /\ hsSrv.tls = FALSE /\ hsCli.type \in Usable
    /\ \/ hsCli.type = "vnc" /\ EndsAt("type", "challenge", <<>>, <<Plain("u8", "vnc")>>)
       \/ hsCli.type = "gssapi" /\ EndsAt("type", "length", <<>>, <<Plain("u8", "gssapi")>>)
       \/ hsCli.type = "vencrypt" /\ EndsAt("type", "vcversion", <<>>, <<Plain("u8", "vencrypt")>>)
       \/ /\ hsCli.type = "none" /\ hsConf.version = "38"
          /\ EndsAt("type", "result", <<>>, <<Plain("u8", "none")>>)
       \/ /\ hsCli.type = "none" /\ hsConf.version = "37"
          /\ EndsAt("type", "server", <<>>, <<Plain("u8", "none"), Plain("u8", "shared")>>)

Vnc ==
    /\ BothOf("vnc")
    /\ \/ EndsAt("response", "challenge", <<Plain("bytes16", "challenge")>>, <<>>)
       \/ EndsAt("response", "result", <<>>, <<Plain("bytes16", hsConf.password)>>)
       \/ EndsAt("failed", "challenge", <<Plain("be32", "err"), Plain("be32", "empty")>>, <<>>)

VenCrypt ==
    /\ BothOf("vencrypt")
    /\ \/ EndsAt("vcversion", "vcversion", <<Plain("u8", 0), Plain("u8", 2)>>, <<>>)
       \/ EndsAt("vcversion", "vcminor", <<Plain("u8", 2)>>, <<>>)
       \/ EndsAt("vcversion", "vcsupport", <<>>, <<Plain("u8", 0), Plain("u8", 2)>>)
       \/ EndsAt("vcminor", "vcsupport", <<>>, <<Plain("u8", 2)>>)
       \/ EndsAt("mode", "vcsupport",
                 <<Plain("u8", 0), Plain("u8", Cardinality(VenCryptModes)), Plain("modes", VenCryptModes)>>, <<>>)
       \/ EndsAt("mode", "vccount",
                 <<Plain("u8", Cardinality(VenCryptModes)), Plain("modes", VenCryptModes)>>, <<>>)
       \/ EndsAt("mode", "vcmodes", <<Plain("modes", VenCryptModes)>>, <<>>)
       \/ \E mode \in VenCryptModes : EndsAt("mode", "vcstatus", <<>>, <<Plain("be32", mode)>>)
       \/ EndsAt("failed", "vcstatus", <<Plain("u8", 0), Plain("be32", "err"), Plain("be32", "empty")>>, <<>>)
       \/ EndsAt("tls", "vcstatus", <<Plain("u8", 1)>>, <<>>)
       \/ EndsAt("tls", "tls", <<>>, <<>>)

Kerberos ==
    /\ BothOf("gssapi")
    /\ \/ EndsAt("token", "length", <<>>, <<>>)
       \/ EndsAt("failed", "length", <<>>, <<>>)

\* the server lets the client in
Accepted ==
    /\ Agreed
    /\ \/ EndsAt("init", "result", <<Layered("be32", "ok")>>, <<>>)
       \/ EndsAt("init", "server", <<>>, <<Layered("u8", "shared")>>)
       \/ EndsAt("done", "server",
                 <<Layered("bytes20", "format"), Layered("be32", "length"), Layered("string", "name")>>, <<>>)
       \/ EndsAt("done", "namelen", <<Layered("be32", "length"), Layered("string", "name")>>, <<>>)
       \/ EndsAt("done", "name", <<Layered("string", "name")>>, <<>>)
       \/ EndsAt("done", "done", <<>>, <<>>)

\* it does not, or one of them has given up
Refused ==
    /\ hsSrv.tls = FALSE
    /\ \/ EndsAt("failed", "result", <<Plain("be32", "err"), Plain("be32", "length"), Plain("string", "reason"),
                                       Plain("be32", "err"), Plain("be32", "empty")>>, <<>>)
       \/ EndsAt("failed", "reason", <<Plain("be32", "length"), Plain("string", "reason"),
                                       Plain("be32", "err"), Plain("be32", "empty")>>, <<>>)
       \/ EndsAt("failed", "text", <<Plain("string", "reason"), Plain("be32", "err"), Plain("be32", "empty")>>, <<>>)
       \/ EndsAt("failed", "failed", <<Plain("be32", "err"), Plain("be32", "empty")>>, <<>>)
       \/ EndsAt("failed", "failed", <<>>, <<>>)
       \/ EndsAt("type", "failed", <<>>, <<>>)
       \/ EndsAt("mode", "failed", <<>>, <<>>)

HsKnown ==
    /\ hsConf \in HsConfigs /\ (hsConf.version # "38" => hsConf.wants = {"none"})
    /\ hsSrv \in [at : HsOver \union {"version", "type", "response", "vcversion", "vcminor", "mode", "tls", "token", "init"},
                  type : HsTypes, tls : BOOLEAN]
    /\ DOMAIN hsCli = {"at", "type", "tls"} /\ hsCli.type \in HsTypes /\ hsCli.tls = hsSrv.tls
    /\ hsMisread = FALSE

HsInv == HsKnown /\ (Opening \/ Choosing \/ Vnc \/ VenCrypt \/ Kerberos \/ Accepted \/ Refused)

LEMMA HsLengths ==
  ASSUME NEW a, NEW b, NEW c, NEW d, NEW e
  PROVE  /\ Len(<<>>) <= 3 /\ Len(<<a>>) <= 3 /\ Len(<<a, b>>) <= 3
         /\ Len(<<>>) <= 6 /\ Len(<<a>>) <= 6 /\ Len(<<a, b>>) <= 6 /\ Len(<<a, b, c>>) <= 6
         /\ Len(<<a, b, c, d>>) <= 6 /\ Len(<<a, b, c, d, e>>) <= 6
  OBVIOUS

LEMMA HsHeads ==
  ASSUME NEW a, NEW b, NEW c, NEW d, NEW e
  PROVE  /\ Head(<<a>>) = a /\ Tail(<<a>>) = <<>>
         /\ Head(<<a, b>>) = a /\ Tail(<<a, b>>) = <<b>>
         /\ Head(<<a, b, c>>) = a /\ Tail(<<a, b, c>>) = <<b, c>>
         /\ Head(<<a, b, c, d>>) = a /\ Tail(<<a, b, c, d>>) = <<b, c, d>>
         /\ Head(<<a, b, c, d, e>>) = a /\ Tail(<<a, b, c, d, e>>) = <<b, c, d, e>>
  OBVIOUS

LEMMA HsWordIs ==
  ASSUME NEW k, NEW v, NEW b
  PROVE  HsWord(k, v, b).kind = k /\ HsWord(k, v, b).val = v /\ HsWord(k, v, b).tls = b
  BY DEF HsWord

LEMMA HsInvGives == HsInv => HsSound
  <1> SUFFICES ASSUME HsInv PROVE HsSound
    OBVIOUS
  <1> USE DEF HsInv
  <1>1. Len(hsUp) <= 3 /\ Len(hsDown) <= 6
    <2>1. CASE Opening
      BY <2>1, HsLengths DEF Opening, EndsAt
    <2>2. CASE Choosing
      BY <2>2, HsLengths DEF Choosing, EndsAt
    <2>3. CASE Vnc
      BY <2>3, HsLengths DEF Vnc, EndsAt
    <2>4. CASE VenCrypt
      BY <2>4, HsLengths DEF VenCrypt, EndsAt
    <2>5. CASE Kerberos
      BY <2>5, HsLengths DEF Kerberos, EndsAt
    <2>6. CASE Accepted
      BY <2>6, HsLengths DEF Accepted, EndsAt
    <2>7. CASE Refused
      BY <2>7, HsLengths DEF Refused, EndsAt
    <2> QED  BY <2>1, <2>2, <2>3, <2>4, <2>5, <2>6, <2>7
  <1>2. HsAgree
    <2>1. CASE Opening
      BY <2>1 DEF Opening, EndsAt, BothOf, Agreed, Usable, HsKnown, HsOver, HsAgree
    <2>2. CASE Choosing
      BY <2>2 DEF Choosing, EndsAt, BothOf, Agreed, Usable, HsKnown, HsOver, HsAgree
    <2>3. CASE Vnc
      BY <2>3 DEF Vnc, EndsAt, BothOf, Agreed, Usable, HsKnown, HsOver, HsAgree
    <2>4. CASE VenCrypt
      BY <2>4 DEF VenCrypt, EndsAt, BothOf, Agreed, Usable, HsKnown, HsOver, HsAgree
    <2>5. CASE Kerberos
      BY <2>5 DEF Kerberos, EndsAt, BothOf, Agreed, Usable, HsKnown, HsOver, HsAgree
    <2>6. CASE Accepted
      BY <2>6 DEF Accepted, EndsAt, BothOf, Agreed, Usable, HsKnown, HsOver, HsAgree
    <2>7. CASE Refused
      BY <2>7 DEF Refused, EndsAt, BothOf, Agreed, Usable, HsKnown, HsOver, HsAgree
    <2> QED  BY <2>1, <2>2, <2>3, <2>4, <2>5, <2>6, <2>7
  <1>3. HsNoMutualWait
    <2>1. CASE Opening
      BY <2>1 DEF Opening, EndsAt, BothOf, Agreed, Usable, HsKnown, HsOver, HsNoMutualWait
    <2>2. CASE Choosing
      BY <2>2 DEF Choosing, EndsAt, BothOf, Agreed, Usable, HsKnown, HsOver, HsNoMutualWait
    <2>3. CASE Vnc
      BY <2>3 DEF Vnc, EndsAt, BothOf, Agreed, Usable, HsKnown, HsOver, HsNoMutualWait
    <2>4. CASE VenCrypt
      BY <2>4 DEF VenCrypt, EndsAt, HsOver, HsNoMutualWait
    <2>5. CASE Kerberos
      BY <2>5 DEF Kerberos, EndsAt, BothOf, Agreed, Usable, HsKnown, HsOver, HsNoMutualWait
    <2>6. CASE Accepted
      BY <2>6 DEF Accepted, EndsAt, BothOf, Agreed, Usable, HsKnown, HsOver, HsNoMutualWait
    <2>7. CASE Refused
      BY <2>7 DEF Refused, EndsAt, BothOf, Agreed, Usable, HsKnown, HsOver, HsNoMutualWait
    <2> QED  BY <2>1, <2>2, <2>3, <2>4, <2>5, <2>6, <2>7
  <1>4. hsCli.tls \in BOOLEAN /\ hsMisread \in BOOLEAN
    BY DEF HsKnown
  <1> QED  BY <1>1, <1>2, <1>3, <1>4 DEF HsSound, HsTypeOK, HsFramed, HsKnown

LEMMA HsInitEstablishes == ASSUME HsInit PROVE HsInv
  <1>1. HsKnown
    BY DEF HsInit, HsKnown, HsTypes
  <1>2. Opening
    BY DEF HsInit, Opening, EndsAt, Plain
  <1> QED  BY <1>1, <1>2 DEF HsInv

(* What the server writes, when nothing it wrote is left.                  *)
LEMMA HsSendsOne ==
  ASSUME NEW k, NEW v, hsDown = <<>>, SrvSends(<< <<k, v>> >>)
  PROVE  hsDown' = <<Layered(k, v)>>
  BY DEF SrvSends, Layered

LEMMA HsSendsTwo ==
  ASSUME NEW k, NEW v, NEW l, NEW w, hsDown = <<>>, SrvSends(<< <<k, v>>, <<l, w>> >>)
  PROVE  hsDown' = <<Layered(k, v), Layered(l, w)>>
  BY DEF SrvSends, Layered

LEMMA HsSendsThree ==
  ASSUME NEW k, NEW v, NEW l, NEW w, NEW m, NEW x, hsDown = <<>>,
         SrvSends(<< <<k, v>>, <<l, w>>, <<m, x>> >>)
  PROVE  hsDown' = <<Layered(k, v), Layered(l, w), Layered(m, x)>>
  BY DEF SrvSends, Layered

(* A read of the word the other end wrote, in the layer it was written in. *)
LEMMA HsServerReads ==
  ASSUME NEW k, NEW v, hsMisread = FALSE, SrvReads(k),
         \/ hsUp = <<HsWord(k, v, hsSrv.tls)>>
         \/ \E w : hsUp = <<HsWord(k, v, hsSrv.tls), w>>
  PROVE  /\ hsMisread' = FALSE /\ SrvGot = v
         /\ hsUp = <<HsWord(k, v, hsSrv.tls)>> => hsUp' = <<>>
         /\ \A w : hsUp = <<HsWord(k, v, hsSrv.tls), w>> => hsUp' = <<w>>
  <1> DEFINE a == HsWord(k, v, hsSrv.tls)
  <1>1. a.kind = k /\ a.tls = hsSrv.tls /\ a.val = v
    BY HsWordIs
  <1> HIDE DEF a
  <1>2. Head(hsUp) = a
    BY HsHeads DEF a
  <1>3. hsMisread' = (hsMisread \/ Head(hsUp).kind # k \/ Head(hsUp).tls # hsSrv.tls) /\ hsUp' = Tail(hsUp)
    BY DEF SrvReads
  <1>4. hsMisread' = FALSE /\ SrvGot = v
    BY <1>1, <1>2, <1>3 DEF SrvGot
  <1>5. hsUp = <<a>> => hsUp' = <<>>
    BY <1>3, HsHeads
  <1>6. \A w : hsUp = <<a, w>> => hsUp' = <<w>>
    BY <1>3, HsHeads
  <1> QED  BY <1>4, <1>5, <1>6 DEF a

LEMMA HsClientReads ==
  ASSUME NEW k, NEW v, hsMisread = FALSE, CliReads(k), Head(hsDown) = HsWord(k, v, hsCli.tls)
  PROVE  hsMisread' = FALSE /\ CliGot = v /\ hsDown' = Tail(hsDown)
  <1> DEFINE a == HsWord(k, v, hsCli.tls)
  <1>1. a.kind = k /\ a.tls = hsCli.tls /\ a.val = v
    BY HsWordIs
  <1> HIDE DEF a
  <1>2. hsMisread' = (hsMisread \/ Head(hsDown).kind # k \/ Head(hsDown).tls # hsCli.tls) /\ hsDown' = Tail(hsDown)
    BY DEF CliReads
  <1> QED  BY <1>1, <1>2 DEF CliGot, a

LEMMA HsKnownKept ==
  ASSUME HsKnown, hsConf' = hsConf, hsMisread' = FALSE,
         \/ hsSrv' = hsSrv
         \/ \E at, type : /\ hsSrv' = [hsSrv EXCEPT !.at = at, !.type = type]
                          /\ type \in HsTypes
                          /\ at \in HsOver \union {"type", "response", "vcversion", "vcminor", "mode", "tls", "token", "init"},
         \/ hsCli' = hsCli
         \/ \E at, type : hsCli' = [hsCli EXCEPT !.at = at, !.type = type] /\ type \in HsTypes
  PROVE  HsKnown'
  <1>1. hsSrv.tls' = hsSrv.tls /\ hsSrv'.type \in HsTypes
        /\ hsSrv' \in [at : HsOver \union {"version", "type", "response", "vcversion", "vcminor", "mode", "tls", "token", "init"},
                  type : HsTypes, tls : BOOLEAN]
    BY DEF HsKnown
  <1> QED  BY <1>1 DEF HsKnown

LEMMA HsServerVersion ==
  ASSUME HsInv, ServerHandshakeVersion
  PROVE  HsInv'
  <1> DEFINE v == hsConf.version
  <1>0. hsSrv.at = "version" /\ hsUp # <<>> /\ SrvReads("version")
    BY DEF ServerHandshakeVersion, SrvReads
  <1>1. /\ hsSrv.type = "none" /\ hsCli.type = "none" /\ hsSrv.tls = FALSE
        /\ hsDown = <<>> /\ hsUp = <<HsWord("version", v, hsSrv.tls)>>
        /\ \/ v # "33" /\ hsCli.at = "count"
           \/ v = "33" /\ hsCli.at = "oldtype"
    BY <1>0 DEF HsInv, Opening, Choosing, Vnc, VenCrypt, Kerberos, Accepted, Refused, EndsAt, Plain
  <1>2. /\ hsConf \in HsConfigs /\ hsMisread = FALSE /\ v \in {"33", "37", "38", "other"}
    BY DEF HsInv, HsKnown, HsConfigs
  <1>3. hsUp' = <<>> /\ hsMisread' = FALSE /\ SrvGot = v
    BY <1>0, <1>1, <1>2, HsServerReads
  <1>4. hsConf' = hsConf /\ hsCli' = hsCli
    BY DEF ServerHandshakeVersion
  <1>5. CASE v = "other"
    <2>1. hsSrv' = [hsSrv EXCEPT !.at = "failed"] /\ hsDown' = <<>>
      BY <1>1, <1>3, <1>5 DEF ServerHandshakeVersion, SrvAt
    <2>2. HsKnown'
      BY <1>3, <1>4, <2>1, HsKnownKept DEF HsInv, HsKnown, HsOver
    <2>3. Opening'
      BY <1>1, <1>3, <1>4, <1>5, <2>1 DEF Opening, EndsAt, HsKnown, HsInv
    <2> QED  BY <2>2, <2>3 DEF HsInv
  <1>6. CASE v = "33"
    <2>1. /\ hsSrv' = [hsSrv EXCEPT !.at = "init"]
          /\ SrvSends(<< <<"be32", hsConf.offers \ {"vencrypt"}>> >>)
      BY <1>1, <1>3, <1>6 DEF ServerHandshakeVersion, SrvAt
    <2>2. hsDown' = <<Plain("be32", hsConf.offers \ {"vencrypt"})>>
      BY <1>1, <2>1, HsSendsOne DEF Plain, Layered
    <2>3. HsKnown'
      BY <1>3, <1>4, <2>1, HsKnownKept DEF HsInv, HsKnown, HsOver
    <2>4. Opening'
      BY <1>1, <1>3, <1>4, <1>6, <2>1, <2>2 DEF Opening, EndsAt, HsKnown, HsInv
    <2> QED  BY <2>3, <2>4 DEF HsInv
  <1>7. CASE v \in {"37", "38"} /\ ServerTypes = {}
    <2>1. /\ hsSrv' = [hsSrv EXCEPT !.at = "failed"]
          /\ SrvSends(<< <<"u8", 0>> >>)
      BY <1>1, <1>3, <1>7 DEF ServerHandshakeVersion, SrvAt
    <2>2. hsDown' = <<Plain("u8", 0)>>
      BY <1>1, <2>1, HsSendsOne DEF Plain, Layered
    <2>3. HsKnown'
      BY <1>3, <1>4, <2>1, HsKnownKept DEF HsInv, HsKnown, HsOver
    <2>4. Opening'
      BY <1>1, <1>3, <1>4, <1>7, <2>1, <2>2 DEF Opening, EndsAt, HsKnown, HsInv
    <2> QED  BY <2>3, <2>4 DEF HsInv
  <1>8. CASE v \in {"37", "38"} /\ ServerTypes # {}
    <2>1. /\ hsSrv' = [hsSrv EXCEPT !.at = "type"]
          /\ SrvSends(<< <<"u8", Cardinality(ServerTypes)>>, <<"types", ServerTypes>> >>)
      BY <1>1, <1>3, <1>8 DEF ServerHandshakeVersion, SrvAt
    <2>2. hsDown' = <<Plain("u8", Cardinality(ServerTypes)), Plain("types", ServerTypes)>>
      BY <1>1, <2>1, HsSendsTwo DEF Plain, Layered
    <2>3. HsKnown'
      BY <1>3, <1>4, <2>1, HsKnownKept DEF HsInv, HsKnown, HsOver
    <2>4. ServerTypes' = ServerTypes
      BY <1>4 DEF ServerTypes
    <2>5. Opening'
      BY <1>1, <1>3, <1>4, <1>8, <2>1, <2>2, <2>4 DEF Opening, EndsAt, HsKnown, HsInv
    <2> QED  BY <2>3, <2>5 DEF HsInv
  <1> QED  BY <1>2, <1>5, <1>6, <1>7, <1>8

LEMMA HsJoinThreeTwo ==
  ASSUME NEW a, NEW b, NEW c, NEW d, NEW e
  PROVE  <<a, b, c>> \o <<d, e>> = <<a, b, c, d, e>>
  <1> DEFINE S == {a, b, c, d, e}
             s == <<a, b, c>>
             r == <<d, e>>
             x == <<a, b, c, d, e>>
  <1>1. s \in Seq(S) /\ r \in Seq(S) /\ x \in Seq(S)
    OBVIOUS
  <1>2. /\ Len(s) = 3 /\ s[1] = a /\ s[2] = b /\ s[3] = c
        /\ Len(r) = 2 /\ r[1] = d /\ r[2] = e
        /\ Len(x) = 5 /\ x[1] = a /\ x[2] = b /\ x[3] = c /\ x[4] = d /\ x[5] = e
    OBVIOUS
  <1> HIDE DEF s, r, x, S
  <1>3. /\ s \o r \in Seq(S) /\ Len(s \o r) = 5
        /\ \A i \in 1..5 : (s \o r)[i] = IF i <= 3 THEN s[i] ELSE r[i - 3]
    <2>1. /\ s \o r \in Seq(S) /\ Len(s \o r) = Len(s) + Len(r)
          /\ \A i \in 1..Len(s) + Len(r) : (s \o r)[i] = IF i <= Len(s) THEN s[i] ELSE r[i - Len(s)]
      BY <1>1, ConcatProperties
    <2> QED  BY <1>2, <2>1
  <1>4. \A i \in 1..5 : (s \o r)[i] = x[i]
    <2> TAKE i \in 1..5
    <2>1. i = 1 \/ i = 2 \/ i = 3 \/ i = 4 \/ i = 5
      OBVIOUS
    <2> QED  BY <2>1, <1>2, <1>3
  <1>5. s \o r = x
    BY <1>1, <1>2, <1>3, <1>4, SeqEqual
  <1> QED  BY <1>5 DEF s, r, x

LEMMA HsJoinOneTwo ==
  ASSUME NEW a, NEW b, NEW c
  PROVE  <<a>> \o <<b, c>> = <<a, b, c>>
  <1> DEFINE S == {a, b, c}
             s == <<a>>
             r == <<b, c>>
             x == <<a, b, c>>
  <1>1. s \in Seq(S) /\ r \in Seq(S) /\ x \in Seq(S)
    OBVIOUS
  <1>2. /\ Len(s) = 1 /\ s[1] = a
        /\ Len(r) = 2 /\ r[1] = b /\ r[2] = c
        /\ Len(x) = 3 /\ x[1] = a /\ x[2] = b /\ x[3] = c
    OBVIOUS
  <1> HIDE DEF s, r, x, S
  <1>3. /\ s \o r \in Seq(S) /\ Len(s \o r) = 3
        /\ \A i \in 1..3 : (s \o r)[i] = IF i <= 1 THEN s[i] ELSE r[i - 1]
    <2>1. /\ s \o r \in Seq(S) /\ Len(s \o r) = Len(s) + Len(r)
          /\ \A i \in 1..Len(s) + Len(r) : (s \o r)[i] = IF i <= Len(s) THEN s[i] ELSE r[i - Len(s)]
      BY <1>1, ConcatProperties
    <2> QED  BY <1>2, <2>1
  <1>4. \A i \in 1..3 : (s \o r)[i] = x[i]
    <2> TAKE i \in 1..3
    <2>1. i = 1 \/ i = 2 \/ i = 3
      OBVIOUS
    <2> QED  BY <2>1, <1>2, <1>3
  <1>5. s \o r = x
    BY <1>1, <1>2, <1>3, <1>4, SeqEqual
  <1> QED  BY <1>5 DEF s, r, x

LEMMA HsAnswers ==
  /\ ResultText \o ResultErr = << <<"be32", "err">>, <<"be32", "length">>, <<"string", "reason">>,
                                  <<"be32", "err">>, <<"be32", "empty">> >>
  /\ << <<"u8", 0>> >> \o ResultErr = << <<"u8", 0>>, <<"be32", "err">>, <<"be32", "empty">> >>
  BY HsJoinThreeTwo, HsJoinOneTwo DEF ResultText, ResultErr

LEMMA HsSendsFive ==
  ASSUME NEW k, NEW v, NEW l, NEW w, NEW m, NEW x, NEW n, NEW y, NEW o, NEW z, hsDown = <<>>,
         SrvSends(<< <<k, v>>, <<l, w>>, <<m, x>>, <<n, y>>, <<o, z>> >>)
  PROVE  hsDown' = <<Layered(k, v), Layered(l, w), Layered(m, x), Layered(n, y), Layered(o, z)>>
  BY DEF SrvSends, Layered

LEMMA HsServerSecurity ==
  ASSUME HsInv, ServerSecurityInit
  PROVE  HsInv'
  <1> DEFINE t == hsCli.type
  <1>0. hsSrv.at = "type" /\ hsUp # <<>> /\ SrvReads("u8")
    BY DEF ServerSecurityInit, SrvReads
  <1>1. /\ hsSrv.type = "none" /\ hsSrv.tls = FALSE /\ hsDown = <<>> /\ t \in Usable
        /\ \/ t = "vnc" /\ hsCli.at = "challenge" /\ hsUp = <<HsWord("u8", t, hsSrv.tls)>>
           \/ t = "gssapi" /\ hsCli.at = "length" /\ hsUp = <<HsWord("u8", t, hsSrv.tls)>>
           \/ t = "vencrypt" /\ hsCli.at = "vcversion" /\ hsUp = <<HsWord("u8", t, hsSrv.tls)>>
           \/ /\ t = "none" /\ hsConf.version = "38" /\ hsCli.at = "result"
              /\ hsUp = <<HsWord("u8", t, hsSrv.tls)>>
           \/ /\ t = "none" /\ hsConf.version = "37" /\ hsCli.at = "server"
              /\ hsUp = <<HsWord("u8", t, hsSrv.tls), HsWord("u8", "shared", hsSrv.tls)>>
    BY <1>0 DEF HsInv, Opening, Choosing, Vnc, VenCrypt, Kerberos, Accepted, Refused, EndsAt, Plain
  <1>2. /\ hsMisread = FALSE /\ hsConf.passwd \in BOOLEAN /\ hsConf.keytab \in BOOLEAN
        /\ t = "gssapi" => hsConf.gssapi
        /\ t \in {"vnc", "vencrypt", "none"} => t \in hsConf.offers
        /\ t \in HsTypes
    BY <1>1 DEF HsInv, HsKnown, HsConfigs, Usable, ServerTypes
  <1>3. hsMisread' = FALSE /\ SrvGot = t
    BY <1>0, <1>1, <1>2, HsServerReads
  <1>4. /\ t # "none" \/ hsConf.version = "38" => hsUp' = <<>>
        /\ t = "none" /\ hsConf.version = "37" => hsUp' = <<Plain("u8", "shared")>>
    BY <1>0, <1>1, <1>2, HsServerReads DEF Plain
  <1>5. hsConf' = hsConf /\ hsCli' = hsCli /\ Usable' = Usable
    BY DEF ServerSecurityInit, Usable, ServerTypes
  <1>6. \A at : at \in {"failed", "init", "response", "vcversion", "token"} /\ hsSrv' = [hsSrv EXCEPT !.at = at, !.type = t]
          => HsKnown' /\ hsSrv'.at = at /\ hsSrv'.type = t /\ hsSrv'.tls = FALSE /\ hsCli'.type = t
    BY <1>1, <1>2, <1>3, <1>5, HsKnownKept DEF HsInv, HsKnown, HsOver
  <1>7. CASE t = "vnc" /\ hsConf.passwd = TRUE
    <2>1. hsSrv' = [hsSrv EXCEPT !.at = "response", !.type = t] /\ SrvSends(<< <<"bytes16", "challenge">> >>)
      BY <1>2, <1>3, <1>7 DEF ServerSecurityInit
    <2>2. hsDown' = <<Plain("bytes16", "challenge")>>
      BY <1>1, <2>1, HsSendsOne DEF Plain, Layered
    <2>3. Vnc'
      BY <1>1, <1>4, <1>5, <1>6, <1>7, <2>1, <2>2 DEF Vnc, BothOf, EndsAt
    <2> QED  BY <1>6, <2>1, <2>3 DEF HsInv
  <1>8. CASE t = "vnc" /\ hsConf.passwd = FALSE
    <2>1. hsSrv' = [hsSrv EXCEPT !.at = "failed", !.type = t]
          /\ SrvSends(<< <<"be32", "err">>, <<"be32", "empty">> >>)
      BY <1>2, <1>3, <1>8 DEF ServerSecurityInit, ResultErr
    <2>2. hsDown' = <<Plain("be32", "err"), Plain("be32", "empty")>>
      BY <1>1, <2>1, HsSendsTwo DEF Plain, Layered
    <2>3. Vnc'
      BY <1>1, <1>4, <1>5, <1>6, <1>8, <2>1, <2>2 DEF Vnc, BothOf, EndsAt
    <2> QED  BY <1>6, <2>1, <2>3 DEF HsInv
  <1>9. CASE t = "vencrypt"
    <2>1. hsSrv' = [hsSrv EXCEPT !.at = "vcversion", !.type = t] /\ SrvSends(<< <<"u8", 0>>, <<"u8", 2>> >>)
      BY <1>2, <1>3, <1>9 DEF ServerSecurityInit
    <2>2. hsDown' = <<Plain("u8", 0), Plain("u8", 2)>>
      BY <1>1, <2>1, HsSendsTwo DEF Plain, Layered
    <2>3. VenCrypt'
      BY <1>1, <1>4, <1>5, <1>6, <1>9, <2>1, <2>2 DEF VenCrypt, BothOf, EndsAt
    <2> QED  BY <1>6, <2>1, <2>3 DEF HsInv
  <1>10. CASE t = "gssapi"
    <2>1. /\ \E at \in {"token", "failed"} : hsSrv' = [hsSrv EXCEPT !.at = at, !.type = t]
          /\ hsDown' = <<>>
      BY <1>1, <1>2, <1>3, <1>10 DEF ServerSecurityInit
    <2>2. Kerberos'
      BY <1>1, <1>4, <1>5, <1>6, <1>10, <2>1 DEF Kerberos, BothOf, EndsAt
    <2> QED  BY <1>6, <2>1, <2>2 DEF HsInv
  <1>11. CASE t = "none" /\ hsConf.version = "38"
    <2>1. hsSrv' = [hsSrv EXCEPT !.at = "init", !.type = t] /\ SrvSends(<< <<"be32", "ok">> >>)
      BY <1>2, <1>3, <1>11 DEF ServerSecurityInit, ResultOk
    <2>2. hsDown' = <<Plain("be32", "ok")>>
      BY <1>1, <2>1, HsSendsOne DEF Plain, Layered
    <2>3. Agreed'
      <3>1. ("none" = "vencrypt") = FALSE
        OBVIOUS
      <3>2. /\ hsSrv'.type = "none" /\ hsCli'.type = "none" /\ hsSrv'.tls = FALSE
            /\ "none" \in Usable'
        BY <1>1, <1>5, <1>6, <1>11, <2>1
      <3> QED  BY <3>1, <3>2 DEF Agreed
    <2>4. EndsAt("init", "result", <<Layered("be32", "ok")>>, <<>>)'
      BY <1>4, <1>5, <1>6, <1>11, <2>1, <2>2, <1>1 DEF EndsAt, Plain, Layered
    <2> QED  BY <1>6, <2>1, <2>3, <2>4 DEF HsInv, Accepted
  <1>12. CASE t = "none" /\ hsConf.version = "37"
    <2>1. hsSrv' = [hsSrv EXCEPT !.at = "init", !.type = t] /\ hsDown' = <<>>
      BY <1>1, <1>2, <1>3, <1>12 DEF ServerSecurityInit
    <2>2. Accepted'
      BY <1>1, <1>4, <1>5, <1>6, <1>12, <2>1 DEF Accepted, Agreed, EndsAt, Plain, Layered
    <2> QED  BY <1>6, <2>1, <2>2 DEF HsInv
  <1> QED  BY <1>1, <1>2, <1>7, <1>8, <1>9, <1>10, <1>11, <1>12

LEMMA HsServerVnc ==
  ASSUME HsInv, ServerAuthVncInit
  PROVE  HsInv'
  <1> DEFINE p == hsConf.password
  <1>0. hsSrv.at = "response" /\ hsUp # <<>> /\ SrvReads("bytes16")
    BY DEF ServerAuthVncInit, SrvReads
  <1>1. /\ BothOf("vnc") /\ hsDown = <<>> /\ hsCli.at = "result"
        /\ hsUp = <<HsWord("bytes16", p, hsSrv.tls)>>
    BY <1>0 DEF HsInv, Opening, Choosing, Vnc, VenCrypt, Kerberos, Accepted, Refused, EndsAt, Plain, BothOf
  <1>2. hsMisread' = FALSE /\ SrvGot = p /\ hsUp' = <<>>
    BY <1>0, <1>1, HsServerReads DEF HsInv, HsKnown
  <1>3. hsConf' = hsConf /\ hsCli' = hsCli /\ Usable' = Usable
    BY DEF ServerAuthVncInit, Usable, ServerTypes
  <1>4. \A at : at \in {"init", "failed"} /\ hsSrv' = [hsSrv EXCEPT !.at = at]
          => HsKnown' /\ hsSrv'.at = at /\ BothOf("vnc")'
    BY <1>1, <1>2, <1>3, HsKnownKept DEF HsInv, HsKnown, HsOver, BothOf
  <1>5. CASE p \in HsPassFile
    <2>1. hsSrv' = [hsSrv EXCEPT !.at = "init"] /\ SrvSends(<< <<"be32", "ok">> >>)
      BY <1>2, <1>5 DEF ServerAuthVncInit, SrvAt, ResultOk
    <2>2. hsDown' = <<Plain("be32", "ok")>>
      BY <1>1, <2>1, HsSendsOne DEF Plain, Layered, BothOf
    <2>3. Accepted'
      BY <1>1, <1>2, <1>3, <1>4, <1>5, <2>1, <2>2 DEF Accepted, Agreed, BothOf, EndsAt, Plain, Layered
    <2> QED  BY <1>4, <2>1, <2>3 DEF HsInv
  <1>6. CASE p \notin HsPassFile
    <2>1. /\ hsSrv' = [hsSrv EXCEPT !.at = "failed"]
          /\ SrvSends(<< <<"be32", "err">>, <<"be32", "length">>, <<"string", "reason">>,
                         <<"be32", "err">>, <<"be32", "empty">> >>)
      BY <1>2, <1>6, HsAnswers DEF ServerAuthVncInit, SrvAt
    <2>2. hsDown' = <<Plain("be32", "err"), Plain("be32", "length"), Plain("string", "reason"),
                      Plain("be32", "err"), Plain("be32", "empty")>>
      BY <1>1, <2>1, HsSendsFive DEF Plain, Layered, BothOf
    <2>3. Refused'
      BY <1>1, <1>2, <1>3, <1>4, <2>1, <2>2 DEF Refused, BothOf, EndsAt
    <2> QED  BY <1>4, <2>1, <2>3 DEF HsInv
  <1> QED  BY <1>5, <1>6

LEMMA HsServerVenCrypt ==
  ASSUME HsInv, VenCryptVersion
  PROVE  HsInv'
  <1>0. hsSrv.at \in {"vcversion", "vcminor"} /\ hsUp # <<>> /\ SrvReads("u8")
    BY DEF VenCryptVersion, SrvReads
  <1>1. /\ BothOf("vencrypt") /\ hsDown = <<>> /\ hsCli.at = "vcsupport"
        /\ \/ hsSrv.at = "vcversion" /\ hsUp = <<HsWord("u8", 0, hsSrv.tls), Plain("u8", 2)>>
           \/ hsSrv.at = "vcminor" /\ hsUp = <<HsWord("u8", 2, hsSrv.tls)>>
    BY <1>0 DEF HsInv, Opening, Choosing, Vnc, VenCrypt, Kerberos, Accepted, Refused, EndsAt, Plain, BothOf
  <1>2. hsMisread = FALSE
    BY DEF HsInv, HsKnown
  <1>3. hsConf' = hsConf /\ hsCli' = hsCli /\ Usable' = Usable /\ VenCryptModes' = VenCryptModes
    BY DEF VenCryptVersion, Usable, ServerTypes, VenCryptModes
  <1>4. CASE hsSrv.at = "vcversion"
    <2>1. hsMisread' = FALSE /\ hsUp' = <<Plain("u8", 2)>>
      BY <1>0, <1>1, <1>2, <1>4, HsServerReads
    <2>2. hsSrv' = [hsSrv EXCEPT !.at = "vcminor"] /\ hsDown' = <<>>
      BY <1>1, <1>4 DEF VenCryptVersion, SrvAt
    <2>3. HsKnown' /\ hsSrv'.at = "vcminor" /\ BothOf("vencrypt")'
      BY <1>1, <1>3, <2>1, <2>2, HsKnownKept DEF HsInv, HsKnown, HsOver, BothOf
    <2>4. VenCrypt'
      BY <1>1, <1>3, <2>1, <2>2, <2>3 DEF VenCrypt, EndsAt
    <2> QED  BY <2>3, <2>4 DEF HsInv
  <1>5. CASE hsSrv.at = "vcminor"
    <2>1. hsMisread' = FALSE /\ hsUp' = <<>> /\ SrvGot = 2
      BY <1>0, <1>1, <1>2, <1>5, HsServerReads
    <2>2. /\ hsSrv' = [hsSrv EXCEPT !.at = "mode"]
          /\ SrvSends(<< <<"u8", 0>>, <<"u8", Cardinality(VenCryptModes)>>, <<"modes", VenCryptModes>> >>)
      <3>1. 2 \in 1 .. 2 /\ hsSrv.at # "vcversion"
        BY <1>5
      <3> QED  BY <1>5, <2>1, <3>1 DEF VenCryptVersion, SrvAt
    <2>3. hsDown' = <<Plain("u8", 0), Plain("u8", Cardinality(VenCryptModes)), Plain("modes", VenCryptModes)>>
      BY <1>1, <2>2, HsSendsThree DEF Plain, Layered, BothOf
    <2>4. HsKnown' /\ hsSrv'.at = "mode" /\ BothOf("vencrypt")'
      BY <1>1, <1>3, <2>1, <2>2, HsKnownKept DEF HsInv, HsKnown, HsOver, BothOf
    <2>5. VenCrypt'
      BY <1>1, <1>3, <2>1, <2>3, <2>4 DEF VenCrypt, EndsAt
    <2> QED  BY <2>4, <2>5 DEF HsInv
  <1> QED  BY <1>0, <1>4, <1>5

LEMMA HsServerMode ==
  ASSUME HsInv, VenCryptMode
  PROVE  HsInv'
  <1>0. hsSrv.at = "mode" /\ hsUp # <<>> /\ SrvReads("be32")
    BY DEF VenCryptMode, SrvReads
  <1>1. /\ BothOf("vencrypt") /\ hsDown = <<>> /\ hsCli.at = "vcstatus"
        /\ \E mode \in VenCryptModes : hsUp = <<HsWord("be32", mode, hsSrv.tls)>>
    BY <1>0 DEF HsInv, Opening, Choosing, Vnc, VenCrypt, Kerberos, Accepted, Refused, EndsAt, Plain, BothOf
  <1>2. PICK mode \in VenCryptModes : hsUp = <<HsWord("be32", mode, hsSrv.tls)>>
    BY <1>1
  <1>3. hsMisread' = FALSE /\ hsUp' = <<>> /\ SrvGot = mode
    BY <1>0, <1>2, HsServerReads DEF HsInv, HsKnown
  <1>4. hsConf' = hsConf /\ hsCli' = hsCli /\ Usable' = Usable
    BY DEF VenCryptMode, Usable, ServerTypes
  <1>5. CASE mode = "x509" /\ ~hsConf.certs
    <2>1. /\ hsSrv' = [hsSrv EXCEPT !.at = "failed"]
          /\ SrvSends(<< <<"u8", 0>>, <<"be32", "err">>, <<"be32", "empty">> >>)
      BY <1>2, <1>3, <1>5, HsAnswers DEF VenCryptMode, SrvAt
    <2>2. hsDown' = <<Plain("u8", 0), Plain("be32", "err"), Plain("be32", "empty")>>
      BY <1>1, <2>1, HsSendsThree DEF Plain, Layered, BothOf
    <2>3. HsKnown' /\ hsSrv'.at = "failed" /\ BothOf("vencrypt")'
      BY <1>1, <1>3, <1>4, <2>1, HsKnownKept DEF HsInv, HsKnown, HsOver, BothOf
    <2>4. VenCrypt'
      BY <1>1, <1>3, <1>4, <2>2, <2>3 DEF VenCrypt, EndsAt
    <2> QED  BY <2>3, <2>4 DEF HsInv
  <1>6. CASE ~(mode = "x509" /\ ~hsConf.certs)
    <2>1. /\ hsSrv' = [hsSrv EXCEPT !.at = "tls"]
          /\ SrvSends(<< <<"u8", 1>> >>)
      BY <1>2, <1>3, <1>6 DEF VenCryptMode, SrvAt
    <2>2. hsDown' = <<Plain("u8", 1)>>
      BY <1>1, <2>1, HsSendsOne DEF Plain, Layered, BothOf
    <2>3. HsKnown' /\ hsSrv'.at = "tls" /\ BothOf("vencrypt")'
      BY <1>1, <1>3, <1>4, <2>1, HsKnownKept DEF HsInv, HsKnown, HsOver, BothOf
    <2>4. VenCrypt'
      BY <1>1, <1>3, <1>4, <2>2, <2>3 DEF VenCrypt, EndsAt
    <2> QED  BY <2>3, <2>4 DEF HsInv
  <1> QED  BY <1>5, <1>6

(* The TLS handshake is the one step that changes both ends.               *)
LEMMA HsTls ==
  ASSUME HsInv, TlsHandshake
  PROVE  HsInv'
  <1>1. BothOf("vencrypt") /\ hsDown = <<>> /\ hsUp = <<>> /\ hsSrv.at = "tls" /\ hsCli.at = "tls"
    BY DEF HsInv, Opening, Choosing, Vnc, VenCrypt, Kerberos, Accepted, Refused, EndsAt, Plain, BothOf, TlsHandshake
  <1>2. hsConf' = hsConf /\ Usable' = Usable /\ hsUp' = <<>> /\ hsMisread' = FALSE
    BY <1>1 DEF TlsHandshake, Usable, ServerTypes, HsInv, HsKnown
  <1>3. CASE /\ hsSrv' = [hsSrv EXCEPT !.at = "init", !.tls = TRUE]
             /\ hsCli' = [hsCli EXCEPT !.at = "result", !.tls = TRUE]
             /\ hsDown' = Append(hsDown, HsWord("be32", "ok", TRUE))
    <2>1. /\ hsSrv'.at = "init" /\ hsSrv'.type = "vencrypt" /\ hsSrv'.tls = TRUE
          /\ hsCli'.at = "result" /\ hsCli'.type = "vencrypt" /\ hsCli'.tls = TRUE
          /\ hsSrv' \in [at : HsOver \union {"version", "type", "response", "vcversion", "vcminor", "mode", "tls", "token", "init"},
                         type : HsTypes, tls : BOOLEAN]
          /\ DOMAIN hsCli' = {"at", "type", "tls"}
      BY <1>1, <1>3 DEF BothOf, HsInv, HsKnown
    <2>2. HsKnown'
      BY <1>2, <2>1 DEF HsInv, HsKnown, HsTypes
    <2>3. hsDown' = <<Layered("be32", "ok")>>'
      BY <1>1, <1>3, <2>1 DEF Layered
    <2>4. Agreed'
      <3>1. "vencrypt" \in Usable'
        BY <1>1, <1>2 DEF BothOf
      <3>2. ("vencrypt" = "vnc") = FALSE
        OBVIOUS
      <3> QED  BY <2>1, <3>1, <3>2 DEF Agreed
    <2>5. Accepted'
      BY <1>2, <2>1, <2>3, <2>4 DEF Accepted, EndsAt
    <2> QED  BY <2>2, <2>5 DEF HsInv
  <1>4. CASE SrvAt("failed") /\ CliAt("failed") /\ SrvSends(ResultErr)
    <2>1. /\ hsSrv' = [hsSrv EXCEPT !.at = "failed"] /\ hsCli' = [hsCli EXCEPT !.at = "failed"]
          /\ SrvSends(<< <<"be32", "err">>, <<"be32", "empty">> >>)
      BY <1>4 DEF SrvAt, CliAt, ResultErr
    <2>2. hsDown' = <<Plain("be32", "err"), Plain("be32", "empty")>>
      BY <1>1, <2>1, HsSendsTwo DEF Plain, Layered, BothOf
    <2>3. HsKnown' /\ hsSrv'.at = "failed" /\ hsCli'.at = "failed" /\ hsSrv'.tls = FALSE
      BY <1>1, <1>2, <2>1, HsKnownKept DEF HsInv, HsKnown, HsOver, BothOf
    <2>4. Refused'
      BY <1>2, <2>2, <2>3 DEF Refused, EndsAt
    <2> QED  BY <2>3, <2>4 DEF HsInv
  <1> QED  BY <1>3, <1>4 DEF TlsHandshake

LEMMA HsServerClient ==
  ASSUME HsInv, ServerClientInit
  PROVE  HsInv'
  <1>0. hsSrv.at = "init" /\ hsUp # <<>> /\ SrvReads("u8")
    BY DEF ServerClientInit, SrvReads
  <1>1. Agreed /\ hsDown = <<>> /\ hsCli.at = "server" /\ hsUp = <<HsWord("u8", "shared", hsSrv.tls)>>
    BY <1>0 DEF HsInv, Opening, Choosing, Vnc, VenCrypt, Kerberos, Accepted, Refused, EndsAt, Layered
  <1>2. hsMisread' = FALSE /\ hsUp' = <<>>
    BY <1>0, <1>1, HsServerReads DEF HsInv, HsKnown
  <1>3. hsConf' = hsConf /\ hsCli' = hsCli /\ Usable' = Usable
    BY DEF ServerClientInit, Usable, ServerTypes
  <1>4. /\ hsSrv' = [hsSrv EXCEPT !.at = "done"]
        /\ SrvSends(<< <<"bytes20", "format">>, <<"be32", "length">>, <<"string", "name">> >>)
    BY DEF ServerClientInit, SrvAt
  <1>5. HsKnown' /\ hsSrv'.at = "done" /\ hsSrv'.type = hsSrv.type /\ hsSrv'.tls = hsSrv.tls
    BY <1>2, <1>3, <1>4, HsKnownKept DEF HsInv, HsKnown, HsOver
  <1>6. hsDown' = <<Layered("bytes20", "format"), Layered("be32", "length"), Layered("string", "name")>>
    BY <1>1, <1>4, HsSendsThree
  <1>7. /\ Layered("bytes20", "format")' = Layered("bytes20", "format")
        /\ Layered("be32", "length")' = Layered("be32", "length")
        /\ Layered("string", "name")' = Layered("string", "name")
    BY <1>5 DEF Layered
  <1>8. Agreed'
    BY <1>1, <1>3, <1>5 DEF Agreed
  <1>9. Accepted'
    BY <1>1, <1>2, <1>3, <1>5, <1>6, <1>7, <1>8 DEF Accepted, EndsAt
  <1> QED  BY <1>5, <1>9 DEF HsInv

(* A read of a closed stream.                                              *)
LEMMA HsServerFails ==
  ASSUME HsInv, SrvReadFails
  PROVE  HsInv'
  <1>1. hsSrv.tls = FALSE /\ hsCli.at = "failed" /\ hsDown = <<>> /\ hsUp = <<>>
    BY DEF HsInv, Opening, Choosing, Vnc, VenCrypt, Kerberos, Accepted, Refused, EndsAt, BothOf, SrvReadFails, HsOver
  <1>2. /\ hsSrv' = [hsSrv EXCEPT !.at = "failed"] /\ hsCli' = hsCli /\ hsConf' = hsConf
        /\ hsDown' = <<>> /\ hsUp' = <<>> /\ hsMisread' = FALSE
    BY <1>1 DEF SrvReadFails, SrvAt, HsInv, HsKnown
  <1>3. HsKnown' /\ hsSrv'.at = "failed" /\ hsSrv'.tls = FALSE
    BY <1>1, <1>2, HsKnownKept DEF HsInv, HsKnown, HsOver
  <1>4. Refused'
    BY <1>1, <1>2, <1>3 DEF Refused, EndsAt
  <1> QED  BY <1>3, <1>4 DEF HsInv

LEMMA HsClientFails ==
  ASSUME HsInv, CliReadFails
  PROVE  HsInv'
  <1>1. hsSrv.tls = FALSE /\ hsSrv.at = "failed" /\ hsDown = <<>> /\ hsUp = <<>>
    BY DEF HsInv, Opening, Choosing, Vnc, VenCrypt, Kerberos, Accepted, Refused, EndsAt, BothOf, CliReadFails, HsOver
  <1>2. /\ hsCli' = [hsCli EXCEPT !.at = "failed"] /\ hsSrv' = hsSrv /\ hsConf' = hsConf
        /\ hsDown' = <<>> /\ hsUp' = <<>> /\ hsMisread' = FALSE
    BY <1>1 DEF CliReadFails, CliAt, HsInv, HsKnown
  <1>3. HsKnown' /\ hsCli'.at = "failed"
    BY <1>1, <1>2, HsKnownKept DEF HsInv, HsKnown, HsOver
  <1>4. Refused'
    BY <1>1, <1>2, <1>3 DEF Refused, EndsAt
  <1> QED  BY <1>3, <1>4 DEF HsInv

LEMMA HsClientSends ==
  ASSUME NEW k, NEW v, hsUp = <<>>, hsCli.tls = FALSE, CliSends(k, v)
  PROVE  hsUp' = <<Plain(k, v)>>
  <1>1. \A w : Append(<<>>, w) = <<w>>
    OBVIOUS
  <1>2. hsUp' = Append(<<>>, Plain(k, v))
    BY DEF CliSends, Plain
  <1> QED  BY <1>1, <1>2

LEMMA HsClientVersion ==
  ASSUME HsInv, RfbHandshake
  PROVE  HsInv'
  <1>0. hsCli.at = "version" /\ hsDown # <<>> /\ CliReads("version")
    BY DEF RfbHandshake, CliReads
  <1>1. /\ hsSrv.at = "version" /\ hsSrv.type = "none" /\ hsCli.type = "none" /\ hsSrv.tls = FALSE
        /\ hsCli.tls = FALSE /\ hsUp = <<>> /\ hsDown = <<HsWord("version", "38", hsCli.tls)>>
    BY <1>0 DEF HsInv, HsKnown, Opening, Choosing, Vnc, VenCrypt, Kerberos, Accepted, Refused, EndsAt, Plain
  <1>2. Head(hsDown) = HsWord("version", "38", hsCli.tls) /\ Tail(hsDown) = <<>>
    BY <1>1, HsHeads
  <1>3. hsMisread' = FALSE /\ hsDown' = <<>> /\ CliGot = "38"
    BY <1>0, <1>2, HsClientReads DEF HsInv, HsKnown
  <1>4. hsConf' = hsConf /\ hsSrv' = hsSrv
    BY DEF RfbHandshake
  <1>5. /\ hsCli' = [hsCli EXCEPT !.at = IF hsConf.version = "33" THEN "oldtype" ELSE "count"]
        /\ hsUp' = <<Plain("version", hsConf.version)>>
    <2>1. CliSends("version", hsConf.version)
      BY <1>3 DEF RfbHandshake
    <2>2. hsUp' = <<Plain("version", hsConf.version)>>
      BY <1>1, <2>1, HsClientSends
    <2> QED  BY <1>3, <2>2 DEF RfbHandshake, CliAt
  <1>6. /\ HsKnown' /\ hsCli'.type = "none"
        /\ hsCli'.at = IF hsConf.version = "33" THEN "oldtype" ELSE "count"
    BY <1>1, <1>3, <1>4, <1>5, HsKnownKept DEF HsInv, HsKnown
  <1>7. Opening'
    BY <1>1, <1>3, <1>4, <1>5, <1>6 DEF Opening, EndsAt, Plain
  <1> QED  BY <1>6, <1>7 DEF HsInv

LEMMA HsViewer ==
  ASSUME HsInv, ViewerOldType
  PROVE  HsInv'
  <1>0. hsCli.at = "oldtype" /\ hsDown # <<>> /\ CliReads("be32")
    BY DEF ViewerOldType, CliReads
  <1>1. /\ hsSrv.at = "init" /\ hsConf.version = "33" /\ hsSrv.type = "none" /\ hsCli.type = "none"
        /\ hsSrv.tls = FALSE /\ hsCli.tls = FALSE
        /\ hsUp = <<>> /\ hsDown = <<HsWord("be32", hsConf.offers \ {"vencrypt"}, hsCli.tls)>>
    BY <1>0 DEF HsInv, HsKnown, Opening, Choosing, Vnc, VenCrypt, Kerberos, Accepted, Refused, EndsAt, Plain
  <1>2. Head(hsDown) = HsWord("be32", hsConf.offers \ {"vencrypt"}, hsCli.tls) /\ Tail(hsDown) = <<>>
    BY <1>1, HsHeads
  <1>3. hsMisread' = FALSE /\ hsDown' = <<>>
    BY <1>0, <1>2, HsClientReads DEF HsInv, HsKnown
  <1>4. hsConf' = hsConf /\ hsSrv' = hsSrv
    BY DEF ViewerOldType
  <1>5. /\ hsCli' = [hsCli EXCEPT !.at = "server"] /\ hsUp' = <<Plain("u8", "shared")>>
    BY <1>1, HsClientSends DEF ViewerOldType, CliAt
  <1>6. HsKnown' /\ hsCli'.at = "server"
    BY <1>1, <1>3, <1>4, <1>5, HsKnownKept DEF HsInv, HsKnown
  <1>7. Agreed'
    BY <1>1, <1>4 DEF Agreed
  <1>8. Accepted'
    BY <1>1, <1>3, <1>4, <1>5, <1>6, <1>7 DEF Accepted, EndsAt, Plain, Layered
  <1> QED  BY <1>6, <1>8 DEF HsInv

(* A set of types with a type in it is announced with a count other than 0.*)
LEMMA HsCounted ==
  ASSUME hsConf \in HsConfigs
  PROVE  /\ ServerTypes # {} => Cardinality(ServerTypes) # 0
         /\ Cardinality(VenCryptModes) # 0
  <1>1. IsFiniteSet({"gssapi", "vencrypt", "vnc", "none"})
    <2>1. IsFiniteSet({"gssapi"})
      BY FS_Singleton
    <2>2. IsFiniteSet({"gssapi"} \union {"vencrypt"})
      BY <2>1, FS_AddElement
    <2>3. IsFiniteSet(({"gssapi"} \union {"vencrypt"}) \union {"vnc"})
      BY <2>2, FS_AddElement
    <2>4. IsFiniteSet((({"gssapi"} \union {"vencrypt"}) \union {"vnc"}) \union {"none"})
      BY <2>3, FS_AddElement
    <2>5. {"gssapi", "vencrypt", "vnc", "none"} = (({"gssapi"} \union {"vencrypt"}) \union {"vnc"}) \union {"none"}
      OBVIOUS
    <2> QED  BY <2>4, <2>5
  <1>2. ServerTypes \subseteq {"gssapi", "vencrypt", "vnc", "none"}
    BY DEF ServerTypes, HsConfigs
  <1>3. IsFiniteSet(ServerTypes)
    BY <1>1, <1>2, FS_Subset
  <1>4. IsFiniteSet({"tls"}) /\ IsFiniteSet({"tls", "x509"})
    <2>1. IsFiniteSet({"tls"})
      BY FS_Singleton
    <2>2. IsFiniteSet({"tls"} \union {"x509"})
      BY <2>1, FS_AddElement
    <2>3. {"tls", "x509"} = {"tls"} \union {"x509"}
      OBVIOUS
    <2> QED  BY <2>1, <2>2, <2>3
  <1>5. IsFiniteSet(VenCryptModes) /\ VenCryptModes # {}
    BY <1>4 DEF VenCryptModes
  <1> QED  BY <1>3, <1>5, FS_EmptySet

LEMMA HsClientCount ==
  ASSUME HsInv, RfbTypesCount
  PROVE  HsInv'
  <1>0. hsCli.at = "count" /\ hsDown # <<>> /\ CliReads("u8")
    BY DEF RfbTypesCount, CliReads
  <1>1. /\ hsSrv.type = "none" /\ hsCli.type = "none" /\ hsSrv.tls = FALSE /\ hsCli.tls = FALSE /\ hsUp = <<>>
        /\ \/ hsSrv.at = "failed" /\ hsDown = <<HsWord("u8", 0, hsCli.tls)>>
           \/ /\ hsSrv.at = "type" /\ hsConf.version \in {"37", "38"} /\ ServerTypes # {}
              /\ hsDown = <<HsWord("u8", Cardinality(ServerTypes), hsCli.tls), Plain("types", ServerTypes)>>
    BY <1>0 DEF HsInv, HsKnown, Opening, Choosing, Vnc, VenCrypt, Kerberos, Accepted, Refused, EndsAt, Plain
  <1>2. hsConf' = hsConf /\ hsSrv' = hsSrv /\ hsUp' = hsUp /\ ServerTypes' = ServerTypes
    BY DEF RfbTypesCount, ServerTypes
  <1>3. CASE hsDown = <<HsWord("u8", 0, hsCli.tls)>> /\ hsSrv.at = "failed"
    <2>1. Head(hsDown) = HsWord("u8", 0, hsCli.tls) /\ Tail(hsDown) = <<>>
      BY <1>3, HsHeads
    <2>2. hsMisread' = FALSE /\ hsDown' = <<>> /\ CliGot = 0
      BY <1>0, <2>1, HsClientReads DEF HsInv, HsKnown
    <2>3. hsCli' = [hsCli EXCEPT !.at = "reason"]
      BY <2>2 DEF RfbTypesCount, CliAt
    <2>4. HsKnown' /\ hsCli'.at = "reason" /\ hsCli'.type = "none"
      BY <1>1, <1>2, <2>2, <2>3, HsKnownKept DEF HsInv, HsKnown
    <2>5. Opening'
      BY <1>1, <1>2, <1>3, <2>2, <2>4 DEF Opening, EndsAt
    <2> QED  BY <2>4, <2>5 DEF HsInv
  <1>4. CASE /\ hsSrv.at = "type" /\ hsConf.version \in {"37", "38"} /\ ServerTypes # {}
             /\ hsDown = <<HsWord("u8", Cardinality(ServerTypes), hsCli.tls), Plain("types", ServerTypes)>>
    <2>1. /\ Head(hsDown) = HsWord("u8", Cardinality(ServerTypes), hsCli.tls)
          /\ Tail(hsDown) = <<Plain("types", ServerTypes)>>
      BY <1>4, HsHeads
    <2>2. /\ hsMisread' = FALSE /\ hsDown' = <<Plain("types", ServerTypes)>>
          /\ CliGot = Cardinality(ServerTypes)
      BY <1>0, <2>1, HsClientReads DEF HsInv, HsKnown
    <2>3. CliGot # 0
      BY <1>4, <2>2, HsCounted DEF HsInv, HsKnown
    <2>4. hsCli' = [hsCli EXCEPT !.at = "types"]
      BY <2>3 DEF RfbTypesCount, CliAt
    <2>5. HsKnown' /\ hsCli'.at = "types" /\ hsCli'.type = "none"
      BY <1>1, <1>2, <2>2, <2>4, HsKnownKept DEF HsInv, HsKnown
    <2>6. Opening'
      BY <1>1, <1>2, <1>4, <2>2, <2>5 DEF Opening, EndsAt, Plain
    <2> QED  BY <2>5, <2>6 DEF HsInv
  <1> QED  BY <1>1, <1>3, <1>4

(* What the client chooses is wanted and offered, or there is nothing.     *)
LEMMA HsChoice == ASSUME hsConf \in HsConfigs
                  PROVE  ClientChoice(ServerTypes) = "nothing" \/ ClientChoice(ServerTypes) \in Usable
  <1>1. hsConf.ticket \in BOOLEAN
    BY DEF HsConfigs
  <1> QED  BY <1>1 DEF ClientChoice, Usable

LEMMA HsClientSecurity ==
  ASSUME HsInv, RfbSecurity
  PROVE  HsInv'
  <1> DEFINE t == ClientChoice(ServerTypes)
  <1>0. hsCli.at = "types" /\ hsDown # <<>> /\ CliReads("types")
    BY DEF RfbSecurity, CliReads
  <1>1. /\ hsSrv.at = "type" /\ hsSrv.type = "none" /\ hsCli.type = "none" /\ hsSrv.tls = FALSE /\ hsCli.tls = FALSE
        /\ hsUp = <<>> /\ hsDown = <<HsWord("types", ServerTypes, hsCli.tls)>>
        /\ hsConf.version \in {"37", "38"}
    BY <1>0 DEF HsInv, HsKnown, Opening, Choosing, Vnc, VenCrypt, Kerberos, Accepted, Refused, EndsAt, Plain
  <1>2. Head(hsDown) = HsWord("types", ServerTypes, hsCli.tls) /\ Tail(hsDown) = <<>>
    BY <1>1, HsHeads
  <1>3. hsMisread' = FALSE /\ hsDown' = <<>> /\ CliGot = ServerTypes
    BY <1>0, <1>2, HsClientReads DEF HsInv, HsKnown
  <1>4. hsConf' = hsConf /\ hsSrv' = hsSrv /\ Usable' = Usable
    BY DEF RfbSecurity, Usable, ServerTypes
  <1>5. /\ t = "nothing" \/ t \in Usable
        /\ t \in Usable => t \in HsTypes
        /\ t \in Usable /\ hsConf.version = "37" => t = "none"
    BY <1>1, HsChoice DEF HsInv, HsKnown, Usable, ServerTypes, HsConfigs, HsTypes
  <1> HIDE DEF t
  <1>6. \A at : hsCli' = [hsCli EXCEPT !.at = at, !.type = t] /\ t \in Usable
          => HsKnown' /\ hsCli'.at = at /\ hsCli'.type = t
    BY <1>3, <1>4, <1>5, HsKnownKept DEF HsInv, HsKnown
  <1>7. CASE t = "nothing" \/ (t = "vnc" /\ hsConf.password = "")
    <2>1. hsCli' = [hsCli EXCEPT !.at = "failed"] /\ hsUp' = <<>>
      BY <1>1, <1>3, <1>7 DEF RfbSecurity, CliAt, t
    <2>2. HsKnown' /\ hsCli'.at = "failed"
      BY <1>3, <1>4, <2>1, HsKnownKept DEF HsInv, HsKnown
    <2>3. Refused'
      BY <1>1, <1>3, <1>4, <2>1, <2>2 DEF Refused, EndsAt
    <2> QED  BY <2>2, <2>3 DEF HsInv
  <1>8. CASE t \in Usable /\ t \in {"gssapi", "vencrypt", "vnc"} /\ ~(t = "vnc" /\ hsConf.password = "")
    <2> DEFINE at == CASE t = "gssapi" -> "length" [] t = "vencrypt" -> "vcversion" [] t = "vnc" -> "challenge"
    <2>1. hsCli' = [hsCli EXCEPT !.at = at, !.type = t] /\ CliSends("u8", t)
      <3>1. CASE t = "gssapi"
        BY <1>3, <3>1 DEF RfbSecurity, t
      <3>2. CASE t = "vencrypt"
        BY <1>3, <3>2 DEF RfbSecurity, t
      <3>3. CASE t = "vnc" /\ hsConf.password # ""
        BY <1>3, <3>3 DEF RfbSecurity, t
      <3> QED  BY <1>8, <3>1, <3>2, <3>3
    <2>2. hsUp' = <<Plain("u8", t)>>
      BY <1>1, <2>1, HsClientSends
    <2>3. HsKnown' /\ hsCli'.at = at /\ hsCli'.type = t
      BY <1>6, <1>8, <2>1
    <2>4. Choosing'
      BY <1>1, <1>3, <1>4, <1>8, <2>2, <2>3 DEF Choosing, EndsAt, Plain
    <2> QED  BY <2>3, <2>4 DEF HsInv
  <1>9. CASE t \in Usable /\ t = "none" /\ hsConf.version = "38"
    <2>1. hsCli' = [hsCli EXCEPT !.at = "result", !.type = t] /\ CliSends("u8", t)
      BY <1>3, <1>9 DEF RfbSecurity, t
    <2>2. hsUp' = <<Plain("u8", t)>>
      BY <1>1, <2>1, HsClientSends
    <2>3. HsKnown' /\ hsCli'.at = "result" /\ hsCli'.type = t
      BY <1>6, <1>9, <2>1
    <2>4. Choosing'
      BY <1>1, <1>3, <1>4, <1>9, <2>2, <2>3 DEF Choosing, EndsAt, Plain
    <2> QED  BY <2>3, <2>4 DEF HsInv
  <1>10. CASE t \in Usable /\ t = "none" /\ hsConf.version = "37"
    <2>1. /\ hsCli' = [hsCli EXCEPT !.at = "server", !.type = t]
          /\ hsUp' = hsUp \o <<HsWord("u8", t, FALSE), HsWord("u8", "shared", FALSE)>>
      BY <1>3, <1>10 DEF RfbSecurity, t
    <2>2. hsUp' = <<Plain("u8", t), Plain("u8", "shared")>>
      BY <1>1, <2>1 DEF Plain
    <2>3. HsKnown' /\ hsCli'.at = "server" /\ hsCli'.type = t
      BY <1>6, <1>10, <2>1
    <2>4. Choosing'
      BY <1>1, <1>3, <1>4, <1>10, <2>2, <2>3 DEF Choosing, EndsAt, Plain
    <2> QED  BY <2>3, <2>4 DEF HsInv
  <1>11. t \in Usable => t \in {"gssapi", "vencrypt", "vnc", "none"}
    BY <1>5 DEF HsTypes
  <1> QED  BY <1>1, <1>5, <1>7, <1>8, <1>9, <1>10, <1>11

LEMMA HsClientVnc ==
  ASSUME HsInv, AuthVncInitAwait
  PROVE  HsInv'
  <1>0. hsCli.at = "challenge" /\ hsDown # <<>>
    BY DEF AuthVncInitAwait
  <1>1. /\ BothOf("vnc") /\ hsUp = <<>> /\ hsCli.tls = FALSE
        /\ \/ hsSrv.at = "response" /\ hsDown = <<HsWord("bytes16", "challenge", hsCli.tls)>>
           \/ hsSrv.at = "failed" /\ hsDown = <<Plain("be32", "err"), Plain("be32", "empty")>>
    BY <1>0 DEF HsInv, HsKnown, Opening, Choosing, Vnc, VenCrypt, Kerberos, Accepted, Refused, EndsAt, Plain, BothOf
  <1>2. hsConf' = hsConf /\ hsSrv' = hsSrv /\ Usable' = Usable
    BY DEF AuthVncInitAwait, Usable, ServerTypes
  <1>3. CASE hsSrv.at = "response" /\ hsDown = <<HsWord("bytes16", "challenge", hsCli.tls)>>
    <2>1. Head(hsDown) = HsWord("bytes16", "challenge", hsCli.tls) /\ Tail(hsDown) = <<>>
      BY <1>3, HsHeads
    <2>2. CliReads("bytes16") /\ CliAt("result") /\ CliSends("bytes16", hsConf.password)
      BY <1>3 DEF AuthVncInitAwait
    <2>3. hsMisread' = FALSE /\ hsDown' = <<>>
      BY <2>1, <2>2, HsClientReads DEF HsInv, HsKnown
    <2>4. hsCli' = [hsCli EXCEPT !.at = "result"] /\ hsUp' = <<Plain("bytes16", hsConf.password)>>
      BY <1>1, <2>2, HsClientSends DEF CliAt
    <2>5. HsKnown' /\ hsCli'.at = "result" /\ BothOf("vnc")'
      BY <1>1, <1>2, <2>3, <2>4, HsKnownKept DEF HsInv, HsKnown, BothOf
    <2>6. Vnc'
      BY <1>2, <1>3, <2>3, <2>4, <2>5 DEF Vnc, EndsAt, Plain
    <2> QED  BY <2>5, <2>6 DEF HsInv
  <1>4. CASE hsSrv.at = "failed" /\ hsDown = <<Plain("be32", "err"), Plain("be32", "empty")>>
    <2>1. Head(hsDown).kind = "be32"
      BY <1>4, HsHeads DEF Plain, HsWord
    <2>2. /\ hsCli' = [hsCli EXCEPT !.at = "failed"] /\ hsUp' = hsUp /\ hsDown' = hsDown
          /\ hsMisread' = FALSE
      BY <1>4, <2>1 DEF AuthVncInitAwait, CliAt, HsInv, HsKnown
    <2>3. HsKnown' /\ hsCli'.at = "failed"
      BY <1>2, <2>2, HsKnownKept DEF HsInv, HsKnown
    <2>4. Refused'
      BY <1>1, <1>2, <1>4, <2>2, <2>3 DEF Refused, EndsAt, BothOf, Plain
    <2> QED  BY <2>3, <2>4 DEF HsInv
  <1> QED  BY <1>1, <1>3, <1>4

(* The client alone has moved: what both ends agreed on is as it was.      *)
LEMMA HsClientMoves ==
  ASSUME HsInv, hsConf' = hsConf, hsSrv' = hsSrv, hsMisread' = FALSE,
         NEW at, hsCli' = [hsCli EXCEPT !.at = at]
  PROVE  /\ HsKnown' /\ hsCli'.at = at /\ hsCli'.type = hsCli.type
         /\ Usable' = Usable /\ VenCryptModes' = VenCryptModes
         /\ \A t : BothOf(t) => /\ hsSrv'.type = t /\ hsCli'.type = t /\ hsSrv'.tls = FALSE /\ t \in Usable'
         /\ Agreed => Agreed'
         /\ \A k, v : HsWord(k, v, hsSrv'.tls) = Layered(k, v)
  <1>1. HsKnown' /\ hsCli'.at = at /\ hsCli'.type = hsCli.type
    BY HsKnownKept DEF HsInv, HsKnown
  <1>2. Usable' = Usable /\ VenCryptModes' = VenCryptModes
    BY DEF Usable, ServerTypes, VenCryptModes
  <1> QED  BY <1>1, <1>2 DEF BothOf, Agreed, Layered

LEMMA HsClientVenCrypt ==
  ASSUME HsInv, AuthVenCryptInitAwait
  PROVE  HsInv'
  <1> DEFINE c == Cardinality(VenCryptModes)
             ms == VenCryptModes
  <1>1. hsConf' = hsConf /\ hsSrv' = hsSrv /\ hsMisread = FALSE
    BY DEF AuthVenCryptInitAwait, HsInv, HsKnown
  <1>2. CASE hsCli.at = "vcversion" /\ CliReads("u8") /\ CliAt("vcminor") /\ hsUp' = hsUp
    <2>1. /\ BothOf("vencrypt") /\ hsSrv.at = "vcversion" /\ hsUp = <<>> /\ hsCli.tls = FALSE
          /\ hsDown = <<HsWord("u8", 0, hsCli.tls), Plain("u8", 2)>>
      <3>1. hsCli.at = "vcversion" /\ hsDown # <<>>
        BY <1>2 DEF CliReads
      <3> QED  BY <3>1 DEF HsInv, HsKnown, Opening, Choosing, Vnc, VenCrypt, Kerberos, Accepted, Refused, EndsAt, Plain, BothOf
    <2>2. Head(hsDown) = HsWord("u8", 0, hsCli.tls) /\ Tail(hsDown) = <<Plain("u8", 2)>>
      BY <2>1, HsHeads
    <2>3. hsMisread' = FALSE /\ hsDown' = <<Plain("u8", 2)>>
      BY <1>1, <1>2, <2>2, HsClientReads
    <2>4. HsKnown' /\ hsCli'.at = "vcminor" /\ BothOf("vencrypt")'
      BY <1>1, <1>2, <2>1, <2>3, HsClientMoves DEF CliAt, BothOf
    <2>5. VenCrypt'
      BY <1>1, <1>2, <2>1, <2>3, <2>4 DEF VenCrypt, EndsAt, Plain
    <2> QED  BY <2>4, <2>5 DEF HsInv
  <1>3. CASE /\ hsCli.at = "vcminor" /\ CliReads("u8") /\ CliAt("vcsupport")
             /\ hsUp' = hsUp \o <<HsWord("u8", 0, FALSE), HsWord("u8", 2, FALSE)>>
    <2>1. /\ BothOf("vencrypt") /\ hsSrv.at = "vcversion" /\ hsUp = <<>> /\ hsCli.tls = FALSE
          /\ hsDown = <<HsWord("u8", 2, hsCli.tls)>>
      <3>1. hsCli.at = "vcminor" /\ hsDown # <<>>
        BY <1>3 DEF CliReads
      <3> QED  BY <3>1 DEF HsInv, HsKnown, Opening, Choosing, Vnc, VenCrypt, Kerberos, Accepted, Refused, EndsAt, Plain, BothOf
    <2>2. Head(hsDown) = HsWord("u8", 2, hsCli.tls) /\ Tail(hsDown) = <<>>
      BY <2>1, HsHeads
    <2>3. hsMisread' = FALSE /\ hsDown' = <<>>
      BY <1>1, <1>3, <2>2, HsClientReads
    <2>4. HsKnown' /\ hsCli'.at = "vcsupport" /\ BothOf("vencrypt")'
      BY <1>1, <1>3, <2>1, <2>3, HsClientMoves DEF CliAt, BothOf
    <2>5. hsUp' = <<Plain("u8", 0), Plain("u8", 2)>>
      BY <1>3, <2>1 DEF Plain
    <2>6. VenCrypt'
      BY <1>1, <2>1, <2>3, <2>4, <2>5 DEF VenCrypt, EndsAt, Plain
    <2> QED  BY <2>4, <2>6 DEF HsInv
  <1>4. CASE /\ hsCli.at = "vcsupport" /\ CliReads("u8") /\ CliAt(IF CliGot = 0 THEN "vccount" ELSE "failed")
             /\ hsUp' = hsUp
    <2>1. /\ BothOf("vencrypt") /\ hsSrv.at = "mode" /\ hsUp = <<>> /\ hsCli.tls = FALSE
          /\ hsDown = <<HsWord("u8", 0, hsCli.tls), Plain("u8", c), Plain("modes", ms)>>
      <3>1. hsCli.at = "vcsupport" /\ hsDown # <<>>
        BY <1>4 DEF CliReads
      <3> QED  BY <3>1 DEF HsInv, HsKnown, Opening, Choosing, Vnc, VenCrypt, Kerberos, Accepted, Refused, EndsAt, Plain, BothOf
    <2>2. Head(hsDown) = HsWord("u8", 0, hsCli.tls) /\ Tail(hsDown) = <<Plain("u8", c), Plain("modes", ms)>>
      BY <2>1, HsHeads
    <2>3. hsMisread' = FALSE /\ hsDown' = <<Plain("u8", c), Plain("modes", ms)>> /\ CliGot = 0
      BY <1>1, <1>4, <2>2, HsClientReads
    <2>4. HsKnown' /\ hsCli'.at = "vccount" /\ BothOf("vencrypt")' /\ VenCryptModes' = VenCryptModes
      BY <1>1, <1>4, <2>1, <2>3, HsClientMoves DEF CliAt, BothOf
    <2>5. VenCrypt'
      BY <1>1, <1>4, <2>1, <2>3, <2>4 DEF VenCrypt, EndsAt, Plain
    <2> QED  BY <2>4, <2>5 DEF HsInv
  <1>5. CASE /\ hsCli.at = "vccount" /\ CliReads("u8") /\ CliAt(IF CliGot = 0 THEN "failed" ELSE "vcmodes")
             /\ hsUp' = hsUp
    <2>1. /\ BothOf("vencrypt") /\ hsSrv.at = "mode" /\ hsUp = <<>> /\ hsCli.tls = FALSE
          /\ hsDown = <<HsWord("u8", c, hsCli.tls), Plain("modes", ms)>>
      <3>1. hsCli.at = "vccount" /\ hsDown # <<>>
        BY <1>5 DEF CliReads
      <3> QED  BY <3>1 DEF HsInv, HsKnown, Opening, Choosing, Vnc, VenCrypt, Kerberos, Accepted, Refused, EndsAt, Plain, BothOf
    <2>2. Head(hsDown) = HsWord("u8", c, hsCli.tls) /\ Tail(hsDown) = <<Plain("modes", ms)>>
      BY <2>1, HsHeads
    <2>3. hsMisread' = FALSE /\ hsDown' = <<Plain("modes", ms)>> /\ CliGot = c
      BY <1>1, <1>5, <2>2, HsClientReads
    <2>4. c # 0
      BY HsCounted DEF HsInv, HsKnown
    <2>5. HsKnown' /\ hsCli'.at = "vcmodes" /\ BothOf("vencrypt")' /\ VenCryptModes' = VenCryptModes
      BY <1>1, <1>5, <2>1, <2>3, <2>4, HsClientMoves DEF CliAt, BothOf
    <2>6. VenCrypt'
      BY <1>1, <1>5, <2>1, <2>3, <2>5 DEF VenCrypt, EndsAt, Plain
    <2> QED  BY <2>5, <2>6 DEF HsInv
  <1>6. CASE /\ hsCli.at = "vcmodes" /\ CliReads("modes")
             /\ LET mode == IF hsConf.anon THEN "tls" ELSE "x509"
                IN IF mode \in CliGot THEN CliAt("vcstatus") /\ CliSends("be32", mode)
                   ELSE CliAt("failed") /\ UNCHANGED hsUp
    <2> DEFINE mode == IF hsConf.anon THEN "tls" ELSE "x509"
    <2>1. /\ BothOf("vencrypt") /\ hsSrv.at = "mode" /\ hsUp = <<>> /\ hsCli.tls = FALSE
          /\ hsDown = <<HsWord("modes", ms, hsCli.tls)>>
      <3>1. hsCli.at = "vcmodes" /\ hsDown # <<>>
        BY <1>6 DEF CliReads
      <3> QED  BY <3>1 DEF HsInv, HsKnown, Opening, Choosing, Vnc, VenCrypt, Kerberos, Accepted, Refused, EndsAt, Plain, BothOf
    <2>2. Head(hsDown) = HsWord("modes", ms, hsCli.tls) /\ Tail(hsDown) = <<>>
      BY <2>1, HsHeads
    <2>3. hsMisread' = FALSE /\ hsDown' = <<>> /\ CliGot = ms
      BY <1>1, <1>6, <2>2, HsClientReads
    <2>4. CASE mode \in ms
      <3>1. CliAt("vcstatus") /\ CliSends("be32", mode)
        BY <1>6, <2>3, <2>4
      <3>2. hsUp' = <<Plain("be32", mode)>>
        BY <2>1, <3>1, HsClientSends
      <3>3. HsKnown' /\ hsCli'.at = "vcstatus" /\ BothOf("vencrypt")' /\ VenCryptModes' = VenCryptModes
        BY <1>1, <2>1, <2>3, <3>1, HsClientMoves DEF CliAt, BothOf
      <3>4. VenCrypt'
        BY <1>1, <2>1, <2>3, <2>4, <3>2, <3>3 DEF VenCrypt, EndsAt, Plain
      <3> QED  BY <3>3, <3>4 DEF HsInv
    <2>5. CASE mode \notin ms
      <3>1. CliAt("failed") /\ hsUp' = <<>>
        BY <1>6, <2>1, <2>3, <2>5
      <3>2. HsKnown' /\ hsCli'.at = "failed" /\ BothOf("vencrypt")'
        BY <1>1, <2>1, <2>3, <3>1, HsClientMoves DEF CliAt, BothOf
      <3>3. Refused'
        BY <1>1, <2>1, <2>3, <3>1, <3>2 DEF Refused, EndsAt, BothOf
      <3> QED  BY <3>2, <3>3 DEF HsInv
    <2> QED  BY <2>4, <2>5
  <1>7. CASE /\ hsCli.at = "vcstatus" /\ CliReads("u8") /\ CliAt(IF CliGot = 0 THEN "failed" ELSE "tls")
             /\ hsUp' = hsUp
    <2>1. /\ BothOf("vencrypt") /\ hsUp = <<>> /\ hsCli.tls = FALSE
          /\ \/ /\ hsSrv.at = "failed"
                /\ hsDown = <<HsWord("u8", 0, hsCli.tls), Plain("be32", "err"), Plain("be32", "empty")>>
             \/ hsSrv.at = "tls" /\ hsDown = <<HsWord("u8", 1, hsCli.tls)>>
      <3>1. hsCli.at = "vcstatus" /\ hsDown # <<>>
        BY <1>7 DEF CliReads
      <3> QED  BY <3>1 DEF HsInv, HsKnown, Opening, Choosing, Vnc, VenCrypt, Kerberos, Accepted, Refused, EndsAt, Plain, BothOf
    <2>2. CASE /\ hsSrv.at = "failed"
               /\ hsDown = <<HsWord("u8", 0, hsCli.tls), Plain("be32", "err"), Plain("be32", "empty")>>
      <3>1. /\ Head(hsDown) = HsWord("u8", 0, hsCli.tls)
            /\ Tail(hsDown) = <<Plain("be32", "err"), Plain("be32", "empty")>>
        BY <2>2, HsHeads
      <3>2. /\ hsMisread' = FALSE /\ CliGot = 0
            /\ hsDown' = <<Plain("be32", "err"), Plain("be32", "empty")>>
        BY <1>1, <1>7, <3>1, HsClientReads
      <3>3. HsKnown' /\ hsCli'.at = "failed" /\ BothOf("vencrypt")'
        BY <1>1, <1>7, <2>1, <3>2, HsClientMoves DEF CliAt, BothOf
      <3>4. Refused'
        BY <1>1, <1>7, <2>1, <2>2, <3>2, <3>3 DEF Refused, EndsAt, BothOf, Plain
      <3> QED  BY <3>3, <3>4 DEF HsInv
    <2>3. CASE hsSrv.at = "tls" /\ hsDown = <<HsWord("u8", 1, hsCli.tls)>>
      <3>1. Head(hsDown) = HsWord("u8", 1, hsCli.tls) /\ Tail(hsDown) = <<>>
        BY <2>3, HsHeads
      <3>2. hsMisread' = FALSE /\ CliGot = 1 /\ hsDown' = <<>>
        BY <1>1, <1>7, <3>1, HsClientReads
      <3>3. HsKnown' /\ hsCli'.at = "tls" /\ BothOf("vencrypt")'
        <4>1. hsCli' = [hsCli EXCEPT !.at = "tls"]
          BY <1>7, <3>2 DEF CliAt
        <4> QED  BY <1>1, <2>1, <3>2, <4>1, HsClientMoves DEF BothOf
      <3>4. VenCrypt'
        BY <1>1, <1>7, <2>1, <2>3, <3>2, <3>3 DEF VenCrypt, EndsAt
      <3> QED  BY <3>3, <3>4 DEF HsInv
    <2> QED  BY <2>1, <2>2, <2>3
  <1> QED  BY <1>2, <1>3, <1>4, <1>5, <1>6, <1>7 DEF AuthVenCryptInitAwait

LEMMA HsClientResult ==
  ASSUME HsInv, RfbResult
  PROVE  HsInv'
  <1>0. hsCli.at = "result" /\ hsDown # <<>> /\ CliReads("be32")
    BY DEF RfbResult, CliReads
  <1>1. /\ hsUp = <<>> /\ hsCli.tls = hsSrv.tls
        /\ \/ Agreed /\ hsSrv.at = "init" /\ hsDown = <<HsWord("be32", "ok", hsCli.tls)>>
           \/ /\ hsSrv.at = "failed" /\ hsSrv.tls = FALSE
              /\ hsDown = <<HsWord("be32", "err", hsCli.tls), Plain("be32", "length"), Plain("string", "reason"),
                            Plain("be32", "err"), Plain("be32", "empty")>>
    BY <1>0 DEF HsInv, HsKnown, Opening, Choosing, Vnc, VenCrypt, Kerberos, Accepted, Refused, EndsAt, Plain, Layered
  <1>2. hsConf' = hsConf /\ hsSrv' = hsSrv /\ hsMisread = FALSE
    BY DEF RfbResult, HsInv, HsKnown
  <1>3. CASE Agreed /\ hsSrv.at = "init" /\ hsDown = <<HsWord("be32", "ok", hsCli.tls)>>
    <2>1. Head(hsDown) = HsWord("be32", "ok", hsCli.tls) /\ Tail(hsDown) = <<>>
      BY <1>3, HsHeads
    <2>2. hsMisread' = FALSE /\ CliGot = "ok" /\ hsDown' = <<>>
      BY <1>0, <1>2, <2>1, HsClientReads
    <2>3. CliAt("server") /\ hsUp' = <<Layered("u8", "shared")>>
      <3>1. \A w : Append(<<>>, w) = <<w>>
        OBVIOUS
      <3> QED  BY <1>1, <2>2, <3>1 DEF RfbResult, CliSends, Layered
    <2>4. HsKnown' /\ hsCli'.at = "server" /\ Agreed' /\ Layered("u8", "shared")' = Layered("u8", "shared")
      BY <1>2, <1>3, <2>2, <2>3, HsClientMoves DEF CliAt, Layered
    <2>5. Accepted'
      BY <1>2, <1>3, <2>2, <2>3, <2>4 DEF Accepted, EndsAt
    <2> QED  BY <2>4, <2>5 DEF HsInv
  <1>4. CASE /\ hsSrv.at = "failed" /\ hsSrv.tls = FALSE
             /\ hsDown = <<HsWord("be32", "err", hsCli.tls), Plain("be32", "length"), Plain("string", "reason"),
                           Plain("be32", "err"), Plain("be32", "empty")>>
    <2>1. /\ Head(hsDown) = HsWord("be32", "err", hsCli.tls)
          /\ Tail(hsDown) = <<Plain("be32", "length"), Plain("string", "reason"),
                              Plain("be32", "err"), Plain("be32", "empty")>>
      BY <1>4, HsHeads
    <2>2. /\ hsMisread' = FALSE /\ CliGot = "err"
          /\ hsDown' = <<Plain("be32", "length"), Plain("string", "reason"),
                         Plain("be32", "err"), Plain("be32", "empty")>>
      BY <1>0, <1>2, <2>1, HsClientReads
    <2>3. CliAt("reason") /\ hsUp' = hsUp
      BY <2>2 DEF RfbResult
    <2>4. HsKnown' /\ hsCli'.at = "reason"
      BY <1>2, <2>2, <2>3, HsClientMoves DEF CliAt
    <2>5. Refused'
      BY <1>1, <1>2, <1>4, <2>2, <2>3, <2>4 DEF Refused, EndsAt, Plain
    <2> QED  BY <2>4, <2>5 DEF HsInv
  <1> QED  BY <1>1, <1>3, <1>4

LEMMA HsClientReason ==
  ASSUME HsInv, RfbReason
  PROVE  HsInv'
  <1>1. hsConf' = hsConf /\ hsSrv' = hsSrv /\ hsUp' = hsUp /\ hsMisread = FALSE
    BY DEF RfbReason, HsInv, HsKnown
  <1>2. CASE hsCli.at = "reason" /\ CliReads("be32") /\ CliAt(IF CliGot = "empty" THEN "failed" ELSE "text")
    <2>1. /\ hsUp = <<>> /\ hsCli.tls = FALSE /\ hsSrv.at = "failed" /\ hsSrv.tls = FALSE
          /\ hsDown = <<HsWord("be32", "length", hsCli.tls), Plain("string", "reason"),
                        Plain("be32", "err"), Plain("be32", "empty")>>
      <3>1. hsCli.at = "reason" /\ hsDown # <<>>
        BY <1>2 DEF CliReads
      <3> QED  BY <3>1 DEF HsInv, HsKnown, Opening, Choosing, Vnc, VenCrypt, Kerberos, Accepted, Refused, EndsAt, Plain
    <2>2. /\ Head(hsDown) = HsWord("be32", "length", hsCli.tls)
          /\ Tail(hsDown) = <<Plain("string", "reason"), Plain("be32", "err"), Plain("be32", "empty")>>
      BY <2>1, HsHeads
    <2>3. /\ hsMisread' = FALSE /\ CliGot = "length"
          /\ hsDown' = <<Plain("string", "reason"), Plain("be32", "err"), Plain("be32", "empty")>>
      BY <1>1, <1>2, <2>2, HsClientReads
    <2>4. HsKnown' /\ hsCli'.at = "text"
      BY <1>1, <1>2, <2>3, HsClientMoves DEF CliAt
    <2>5. Refused'
      BY <1>1, <2>1, <2>3, <2>4 DEF Refused, EndsAt, Plain
    <2> QED  BY <2>4, <2>5 DEF HsInv
  <1>3. CASE hsCli.at = "text" /\ CliReads("string") /\ CliAt("failed")
    <2>1. /\ hsUp = <<>> /\ hsCli.tls = FALSE /\ hsSrv.at = "failed" /\ hsSrv.tls = FALSE
          /\ hsDown = <<HsWord("string", "reason", hsCli.tls), Plain("be32", "err"), Plain("be32", "empty")>>
      BY <1>3 DEF HsInv, HsKnown, Opening, Choosing, Vnc, VenCrypt, Kerberos, Accepted, Refused, EndsAt, Plain
    <2>2. /\ Head(hsDown) = HsWord("string", "reason", hsCli.tls)
          /\ Tail(hsDown) = <<Plain("be32", "err"), Plain("be32", "empty")>>
      BY <2>1, HsHeads
    <2>3. /\ hsMisread' = FALSE /\ hsDown' = <<Plain("be32", "err"), Plain("be32", "empty")>>
      BY <1>1, <1>3, <2>2, HsClientReads
    <2>4. HsKnown' /\ hsCli'.at = "failed"
      BY <1>1, <1>3, <2>3, HsClientMoves DEF CliAt
    <2>5. Refused'
      BY <1>1, <2>1, <2>3, <2>4 DEF Refused, EndsAt, Plain
    <2> QED  BY <2>4, <2>5 DEF HsInv
  <1> QED  BY <1>2, <1>3 DEF RfbReason

LEMMA HsClientServerInit ==
  ASSUME HsInv, RfbServerInit
  PROVE  HsInv'
  <1> DEFINE len == Layered("be32", "length")
             name == Layered("string", "name")
  <1>1. hsConf' = hsConf /\ hsSrv' = hsSrv /\ hsUp' = hsUp /\ hsMisread = FALSE
    BY DEF RfbServerInit, HsInv, HsKnown
  <1>2. /\ Layered("be32", "length")' = Layered("be32", "length")
        /\ Layered("string", "name")' = Layered("string", "name")
    BY <1>1 DEF Layered
  <1>3. CASE hsCli.at = "server" /\ CliReads("bytes20") /\ CliAt("namelen")
    <2>1. /\ hsUp = <<>> /\ Agreed /\ hsSrv.at = "done"
          /\ hsDown = <<HsWord("bytes20", "format", hsCli.tls), len, name>>
      <3>1. hsCli.at = "server" /\ hsDown # <<>>
        BY <1>3 DEF CliReads
      <3> QED  BY <3>1 DEF HsInv, HsKnown, Opening, Choosing, Vnc, VenCrypt, Kerberos, Accepted, Refused, EndsAt, Layered
    <2>2. Head(hsDown) = HsWord("bytes20", "format", hsCli.tls) /\ Tail(hsDown) = <<len, name>>
      BY <2>1, HsHeads
    <2>3. hsMisread' = FALSE /\ hsDown' = <<len, name>>
      BY <1>1, <1>3, <2>2, HsClientReads
    <2>4. HsKnown' /\ hsCli'.at = "namelen" /\ Agreed'
      BY <1>1, <1>3, <2>1, <2>3, HsClientMoves DEF CliAt
    <2>5. Accepted'
      BY <1>1, <1>2, <2>1, <2>3, <2>4 DEF Accepted, EndsAt
    <2> QED  BY <2>4, <2>5 DEF HsInv
  <1>4. CASE hsCli.at = "namelen" /\ CliReads("be32") /\ CliAt("name")
    <2>1. /\ hsUp = <<>> /\ Agreed /\ hsSrv.at = "done"
          /\ hsDown = <<HsWord("be32", "length", hsCli.tls), name>>
      BY <1>4 DEF HsInv, HsKnown, Opening, Choosing, Vnc, VenCrypt, Kerberos, Accepted, Refused, EndsAt, Layered
    <2>2. Head(hsDown) = HsWord("be32", "length", hsCli.tls) /\ Tail(hsDown) = <<name>>
      BY <2>1, HsHeads
    <2>3. hsMisread' = FALSE /\ hsDown' = <<name>>
      BY <1>1, <1>4, <2>2, HsClientReads
    <2>4. HsKnown' /\ hsCli'.at = "name" /\ Agreed'
      BY <1>1, <1>4, <2>1, <2>3, HsClientMoves DEF CliAt
    <2>5. Accepted'
      BY <1>1, <1>2, <2>1, <2>3, <2>4 DEF Accepted, EndsAt
    <2> QED  BY <2>4, <2>5 DEF HsInv
  <1>5. CASE hsCli.at = "name" /\ CliReads("string") /\ CliAt("done")
    <2>1. /\ hsUp = <<>> /\ Agreed /\ hsSrv.at = "done"
          /\ hsDown = <<HsWord("string", "name", hsCli.tls)>>
      BY <1>5 DEF HsInv, HsKnown, Opening, Choosing, Vnc, VenCrypt, Kerberos, Accepted, Refused, EndsAt, Layered
    <2>2. Head(hsDown) = HsWord("string", "name", hsCli.tls) /\ Tail(hsDown) = <<>>
      BY <2>1, HsHeads
    <2>3. hsMisread' = FALSE /\ hsDown' = <<>>
      BY <1>1, <1>5, <2>2, HsClientReads
    <2>4. HsKnown' /\ hsCli'.at = "done" /\ Agreed'
      BY <1>1, <1>5, <2>1, <2>3, HsClientMoves DEF CliAt
    <2>5. Accepted'
      BY <1>1, <1>2, <2>1, <2>3, <2>4 DEF Accepted, EndsAt
    <2> QED  BY <2>4, <2>5 DEF HsInv
  <1> QED  BY <1>3, <1>4, <1>5 DEF RfbServerInit

LEMMA HsInvStep == HsInv /\ [HsNext]_HsVars => HsInv'
  <1> SUFFICES ASSUME HsInv, [HsNext]_HsVars PROVE HsInv'
    OBVIOUS
  <1>1. CASE HsSrvNext
    BY <1>1, HsServerVersion, HsServerSecurity, HsServerVnc, HsServerVenCrypt, HsServerMode,
       HsServerClient, HsServerFails DEF HsSrvNext
  <1>2. CASE HsCliNext
    BY <1>2, HsClientVersion, HsViewer, HsClientCount, HsClientSecurity, HsClientVnc, HsClientVenCrypt,
       HsClientResult, HsClientReason, HsClientServerInit, HsClientFails DEF HsCliNext
  <1>3. CASE TlsHandshake
    BY <1>3, HsTls
  <1>4. CASE UNCHANGED HsVars
    <2>1. HsKnown'
      BY <1>4 DEF HsVars, HsInv, HsKnown
    <2>2. (Opening \/ Choosing \/ Vnc \/ VenCrypt \/ Kerberos \/ Accepted \/ Refused)'
      BY <1>4 DEF HsVars, HsInv, Opening, Choosing, Vnc, VenCrypt, Kerberos, Accepted, Refused, EndsAt, BothOf,
         Agreed, Usable, ServerTypes, VenCryptModes, Layered
    <2> QED  BY <2>1, <2>2 DEF HsInv
  <1> QED  BY <1>1, <1>2, <1>3, <1>4 DEF HsNext

(* The handshake of every pair of ends, whatever either is configured to   *)
(* offer, to want and to have: every word is read as what it was written   *)
(* as, both ends come out of it with the same security and the same idea   *)
(* of TLS, and they never wait for each other (serverHandshakeVersion and  *)
(* serverSecurityInit with rfbHandshakeAwait and its auth functions).      *)
THEOREM HandshakeSound == HsSpec => []HsSound
  <1>1. HsInit => HsInv
    BY HsInitEstablishes
  <1> QED  BY <1>1, HsInvStep, HsInvGives, PTL DEF HsSpec


(***************************************************************************)
(* The clipboard.  The order of an end's X events is what keeps the two    *)
(* texts apart: an own text comes in an event of its own, and between such *)
(* an event and a program's paste there is one that ends its transfer.     *)
(***************************************************************************)
Text(ev) == ev.k = "notify" /\ ev.t # CbTargets
Paste(ev) == ev.k = "request" /\ ev.who = "prog"

\* before place i of the queue no transfer of an own text is left
Calm(q, on, i) ==
    on \/ (\E j \in 1..Len(q) : j < i /\ Text(q[j])) =>
        \E k \in 1..Len(q) : k < i /\ q[k].k = "owner" /\ \A j \in 1..Len(q) : j < i /\ Text(q[j]) => j < k
\* after place i an own text comes only behind a "clear"
Fenced(q, owner, i) ==
    /\ \A j \in 1..Len(q) : j > i /\ Text(q[j]) => \E k \in 1..Len(q) : i < k /\ k < j /\ q[k].k = "clear"
    /\ owner # "ltsm" => \E k \in 1..Len(q) : i < k /\ q[k].k = "clear"
Ordered(q, owner, on) ==
    /\ owner = "ltsm" => Calm(q, on, Len(q) + 1)
    /\ \A i \in 1..Len(q) : Paste(q[i]) => Calm(q, on, i) /\ Fenced(q, owner, i)

Pieces(e) == [by : {e}, id : Nat]
Events == {ev \in [k : {"owner", "clear", "notify", "piece", "request"}, t : 0..CbAtoms, who : {"self", "prog"}] :
              ev.who = "prog" => ev.k = "request" /\ ev.t # CbTargets}
Messages(e) == [op : {"caps", "text", "notify", "notify none", "request", "provide", "length"},
                text : Seq(Pieces(CbOther(e)))]
Displays(e) == [owner : {"none", "prog", "ltsm"}, text : Seq(Pieces(e)),
                prop : [k : {"none", "targets", "incr", "data", "piece"}, text : Seq(Pieces(e))],
                send : Seq(Pieces(e) \union {CbEnd})]
Fields(e) == [caps : {TRUE, FALSE}, clip : Seq(Pieces(e)) \union Seq(Pieces(CbOther(e))),
              local : {TRUE, FALSE}, remote : {TRUE, FALSE}, provide : {TRUE, FALSE}, target : 0..CbAtoms,
              incr : [on : {TRUE, FALSE}, target : 0..CbAtoms, buf : Seq(Pieces(e))]]
Pastes(e) == [st : {"idle", "asked", "incr", "done", "refused"},
              got : Seq(Pieces(e) \union Pieces(CbOther(e)))]

EndTyped(e) ==
    /\ cbX[e] \in Displays(e) /\ cbE[e] \in Fields(e) /\ cbPaste[e] \in Pastes(e)
    /\ cbAsk[e] \in Seq(0..CbAtoms) /\ cbXt[e] \in {"loop", "wait"} /\ cbRd[e] \in 0..CbAtoms

\* the events, while a paste waits, or is to be fenced off from own texts
QueueFits(q, owner, on, wait, fence) ==
    /\ q \in Seq(Events) /\ Ordered(q, owner, on)
    /\ wait => q # <<>> /\ Paste(Head(q))
    /\ fence => Fenced(q, owner, 0)

\* the reading thread waits for an own text, a paste for the peer's
Waits(e) == cbE[e].caps /\ (cbXt[e] = "wait" \/ cbPaste[e].st = "incr")
Sides(e) ==
    /\ QueueFits(cbEv[e], cbX[e].owner, cbE[e].incr.on, cbXt[e] = "wait", Waits(e))
    /\ cbRd[e] # 0 => cbE[e].clip \in Seq(Pieces(e))
    /\ cbAsk[e] # <<>> => cbX[e].owner = "prog"
    /\ cbXt[e] = "wait" => cbE[e].caps
    /\ cbE[e].caps => cbPaste[e].got \in Seq(Pieces(CbOther(e)))
    /\ Waits(e) => ~cbE[e].incr.on /\ cbE[e].clip \in Seq(Pieces(CbOther(e)))

\* the capabilities come first, to a client that has pasted nothing
NetFits(e) ==
    /\ cbNet[e] \in Seq(Messages(e))
    /\ \A i \in 1..Len(cbNet[e]) : cbNet[e][i].op = "caps" =>
          /\ i = 1 /\ ~cbE[e].caps /\ cbX[e].owner # "ltsm" /\ cbXt[e] = "loop"
          /\ cbPaste[e].st # "incr" /\ cbPaste[e].got = <<>>

CbFunctions ==
    /\ DOMAIN cbX = CbEnds /\ DOMAIN cbAsk = CbEnds /\ DOMAIN cbEv = CbEnds /\ DOMAIN cbE = CbEnds
    /\ DOMAIN cbXt = CbEnds /\ DOMAIN cbRd = CbEnds /\ DOMAIN cbNet = CbEnds /\ DOMAIN cbPaste = CbEnds
    /\ DOMAIN cbLeft = {"copy", "paste", "id"} /\ cbLeft.id \in Nat

CbInv == CbFunctions /\ \A e \in CbEnds : EndTyped(e) /\ Sides(e) /\ NetFits(e)

-----------------------------------------------------------------------------
\* The fence when an event is handled, and when one more comes.
LEMMA OneTail ==
  ASSUME NEW q \in Seq(Events), q # <<>>, NEW o, NEW i \in Nat, Fenced(q, o, i + 1)
  PROVE  Fenced(Tail(q), o, i)
  <1> DEFINE r == Tail(q)
  <1>1. Len(q) \in Nat /\ Len(r) = Len(q) - 1 /\ \A j \in 1..Len(r) : r[j] = q[j + 1]
    BY HeadTailProperties, LenProperties, EmptySeq
  <1> HIDE DEF r
  <1>2. ASSUME NEW j \in 1..Len(r), j > i, Text(r[j]) PROVE \E k \in 1..Len(r) : i < k /\ k < j /\ r[k].k = "clear"
    <2>1. j + 1 \in 1..Len(q) /\ j + 1 > i + 1 /\ Text(q[j + 1])
      BY <1>1, <1>2
    <2>2. PICK k \in 1..Len(q) : i + 1 < k /\ k < j + 1 /\ q[k].k = "clear"
      BY <2>1 DEF Fenced
    <2>3. k - 1 \in 1..Len(r) /\ i < k - 1 /\ k - 1 < j /\ (k - 1) + 1 = k
      BY <1>1, <2>2
    <2>4. r[k - 1] = q[k]
      BY <1>1, <2>3
    <2> QED  BY <2>2, <2>3, <2>4
  <1>3. ASSUME o # "ltsm" PROVE \E k \in 1..Len(r) : i < k /\ r[k].k = "clear"
    <2>1. PICK k \in 1..Len(q) : i + 1 < k /\ q[k].k = "clear"
      BY <1>3 DEF Fenced
    <2>2. k - 1 \in 1..Len(r) /\ i < k - 1 /\ (k - 1) + 1 = k
      BY <1>1, <2>1
    <2>3. r[k - 1] = q[k]
      BY <1>1, <2>2
    <2> QED  BY <2>1, <2>2, <2>3
  <1>4. Fenced(r, o, i)
    BY <1>2, <1>3 DEF Fenced
  <1> QED  BY <1>4 DEF r

LEMMA FencedAppend ==
  ASSUME NEW q \in Seq(Events), NEW v \in Events, NEW o, NEW p, NEW i \in 0..Len(q), Fenced(q, o, i),
         Text(v) => o # "ltsm", p # "ltsm" => o # "ltsm" \/ v.k = "clear"
  PROVE  Fenced(Append(q, v), p, i)
  <1> DEFINE r == Append(q, v)
  <1>1. Len(q) \in Nat /\ Len(r) = Len(q) + 1 /\ r[Len(q) + 1] = v /\ \A j \in 1..Len(q) : r[j] = q[j]
    BY AppendProperties, LenProperties
  <1> HIDE DEF r
  <1>2. o # "ltsm" => \E k \in 1..Len(q) : i < k /\ r[k].k = "clear"
    BY <1>1 DEF Fenced
  <1>3. ASSUME NEW j \in 1..Len(r), j > i, Text(r[j]) PROVE \E k \in 1..Len(r) : i < k /\ k < j /\ r[k].k = "clear"
    <2>1. CASE j \in 1..Len(q)
      <3>1. PICK k \in 1..Len(q) : i < k /\ k < j /\ q[k].k = "clear"
        BY <1>1, <1>3, <2>1 DEF Fenced
      <3> QED  BY <1>1, <3>1
    <2>2. CASE j = Len(q) + 1
      <3>1. PICK k \in 1..Len(q) : i < k /\ r[k].k = "clear"
        BY <1>1, <1>2, <1>3, <2>2
      <3> QED  BY <1>1, <2>2, <3>1
    <2> QED  BY <1>1, <2>1, <2>2
  <1>4. ASSUME p # "ltsm" PROVE \E k \in 1..Len(r) : i < k /\ r[k].k = "clear"
    <2>1. CASE o # "ltsm"
      BY <1>1, <1>2, <2>1
    <2>2. CASE v.k = "clear"
      BY <1>1, <2>2
    <2> QED  BY <1>4, <2>1, <2>2
  <1>5. Fenced(r, p, i)
    BY <1>3, <1>4 DEF Fenced
  <1> QED  BY <1>5 DEF r

\* An event that is no "clear" leaves the fence, and no text comes before it.
LEMMA FencedTail ==
  ASSUME NEW q \in Seq(Events), q # <<>>, NEW o, Fenced(q, o, 0), Head(q).k # "clear"
  PROVE  Fenced(Tail(q), o, 0) /\ ~Text(Head(q))
  <1>1. Len(q) \in Nat /\ Len(q) > 0 /\ Head(q) = q[1]
    BY LenProperties, EmptySeq
  <1>2. \A k \in 1..Len(q) : q[k].k = "clear" => 1 < k
    BY <1>1
  <1>3. Fenced(q, o, 1)
    BY <1>1, <1>2 DEF Fenced
  <1>4. Fenced(Tail(q), o, 0)
    BY <1>3, OneTail
  <1>5. ~Text(q[1])
    BY <1>1, <1>2 DEF Fenced
  <1> QED  BY <1>1, <1>4, <1>5

\* A paste that is at the head of the queue.
LEMMA PasteFirst ==
  ASSUME NEW q \in Seq(Events), q # <<>>, NEW o, NEW on, Ordered(q, o, on), Paste(Head(q))
  PROVE  ~on /\ Fenced(q, o, 0) /\ Fenced(Tail(q), o, 0)
  <1>1. Len(q) \in Nat /\ 1 \in 1..Len(q) /\ Head(q) = q[1] /\ ~Text(q[1])
    BY LenProperties, EmptySeq DEF Text, Paste
  <1>2. Calm(q, on, 1) /\ Fenced(q, o, 1)
    BY <1>1 DEF Ordered
  <1>3. ~on
    BY <1>1, <1>2 DEF Calm
  <1>4. Fenced(q, o, 0)
    BY <1>1, <1>2 DEF Fenced
  <1> QED  BY <1>2, <1>3, <1>4, OneTail
\* A transfer that is over disturbs nothing.
LEMMA OrderedOff ==
  ASSUME NEW q, NEW o, NEW on, NEW n, Ordered(q, o, on), n => on
  PROVE  Ordered(q, o, n)
  BY DEF Ordered, Calm

\* Handling an event.  Only a text begins a transfer, and a change of owner ends it.
LEMMA OrderedTail ==
  ASSUME NEW q \in Seq(Events), q # <<>>, NEW o, NEW on, Ordered(q, o, on), NEW n,
         n => on \/ Text(Head(q)), Head(q).k = "owner" => ~n
  PROVE  Ordered(Tail(q), o, n)
  <1> DEFINE r == Tail(q)
  <1>1. /\ Len(q) \in Nat /\ Len(r) = Len(q) - 1 /\ Head(q) = q[1]
        /\ \A i \in 1..Len(r) : r[i] = q[i + 1]
    BY HeadTailProperties, LenProperties, EmptySeq
  <1> HIDE DEF r
  <1>2. ASSUME NEW i \in 1..(Len(r) + 1), Calm(q, on, i + 1) PROVE Calm(r, n, i)
    <2>1. SUFFICES ASSUME n \/ \E j \in 1..Len(r) : j < i /\ Text(r[j])
                   PROVE  \E k \in 1..Len(r) : k < i /\ r[k].k = "owner" /\ \A j \in 1..Len(r) : j < i /\ Text(r[j]) => j < k
      BY DEF Calm
    <2>2. on \/ \E j \in 1..Len(q) : j < i + 1 /\ Text(q[j])
      <3>1. CASE n
        BY <1>1, <3>1
      <3>2. CASE \E j \in 1..Len(r) : j < i /\ Text(r[j])
        <4>1. PICK j \in 1..Len(r) : j < i /\ Text(r[j])
          BY <3>2
        <4>2. j + 1 \in 1..Len(q) /\ j + 1 < i + 1 /\ Text(q[j + 1])
          BY <4>1, <1>1
        <4> QED  BY <4>2
      <3> QED  BY <2>1, <3>1, <3>2
    <2>3. PICK k \in 1..Len(q) : k < i + 1 /\ q[k].k = "owner" /\ \A j \in 1..Len(q) : j < i + 1 /\ Text(q[j]) => j < k
      BY <1>2, <2>2 DEF Calm
    <2>4. k # 1
      <3>1. SUFFICES ASSUME k = 1 PROVE FALSE
        OBVIOUS
      <3>2. PICK j \in 1..Len(r) : j < i /\ Text(r[j])
        BY <1>1, <2>1, <2>3, <3>1
      <3>3. j + 1 \in 1..Len(q) /\ j + 1 < i + 1 /\ Text(q[j + 1]) /\ ~(j + 1 < 1)
        BY <3>2, <1>1
      <3> QED  BY <2>3, <3>1, <3>3
    <2>5. k - 1 \in 1..Len(r) /\ k - 1 < i /\ r[k - 1].k = "owner"
      BY <1>1, <2>3, <2>4
    <2>6. ASSUME NEW j \in 1..Len(r), j < i, Text(r[j]) PROVE j < k - 1
      <3>1. j + 1 \in 1..Len(q) /\ j + 1 < i + 1 /\ Text(q[j + 1])
        BY <2>6, <1>1
      <3>2. j + 1 < k
        BY <2>3, <3>1
      <3> QED  BY <3>2
    <2> QED  BY <2>5, <2>6
  <1>3. ASSUME NEW i \in 1..Len(r), Fenced(q, o, i + 1) PROVE Fenced(r, o, i)
    BY <1>1, <1>3, OneTail DEF r
  <1>4. o = "ltsm" => Calm(r, n, Len(r) + 1)
    BY <1>1, <1>2 DEF Ordered
  <1>5. ASSUME NEW i \in 1..Len(r), Paste(r[i]) PROVE Calm(r, n, i) /\ Fenced(r, o, i)
    <2>1. i + 1 \in 1..Len(q) /\ Paste(q[i + 1]) /\ i \in 1..(Len(r) + 1)
      BY <1>1, <1>5
    <2>2. Calm(q, on, i + 1) /\ Fenced(q, o, i + 1)
      BY <2>1 DEF Ordered
    <2> QED  BY <1>2, <1>3, <2>1, <2>2
  <1>6. Ordered(r, o, n)
    BY <1>4, <1>5 DEF Ordered
  <1> QED  BY <1>6 DEF r

\* An event more.  A text comes from a program that owns the selection, a paste asks us for ours,
\* and a program that takes it from us is announced by a "clear".
LEMMA OrderedAppend ==
  ASSUME NEW q \in Seq(Events), NEW v \in Events, NEW o, NEW p, NEW on, Ordered(q, o, on),
         Text(v) => o # "ltsm" /\ p = o, Paste(v) => o = "ltsm" /\ p = o,
         p # "ltsm" => o # "ltsm" \/ v.k = "clear", p = "ltsm" => o = "ltsm" \/ v.k = "owner"
  PROVE  Ordered(Append(q, v), p, on)
  <1> DEFINE r == Append(q, v)
  <1>1. Len(q) \in Nat /\ Len(r) = Len(q) + 1 /\ r[Len(q) + 1] = v /\ \A i \in 1..Len(q) : r[i] = q[i]
    BY AppendProperties, LenProperties
  <1> HIDE DEF r
  <1>2. ASSUME NEW i \in 1..(Len(q) + 1), Calm(q, on, i) PROVE Calm(r, on, i)
    <2>1. \A j \in 1..Len(r) : j < i => j \in 1..Len(q) /\ r[j] = q[j]
      BY <1>1
    <2>2. \A j \in 1..Len(q) : j \in 1..Len(r)
      BY <1>1
    <2> QED  BY <1>1, <1>2, <2>1, <2>2 DEF Calm
  <1>3. ASSUME NEW i \in 1..Len(q), Fenced(q, o, i) PROVE Fenced(r, p, i)
    BY <1>3, FencedAppend DEF r
  <1>4. ASSUME p = "ltsm" PROVE Calm(r, on, Len(r) + 1)
    <2>1. CASE v.k = "owner"
      <3>1. Len(r) \in 1..Len(r) /\ Len(r) < Len(r) + 1 /\ r[Len(r)].k = "owner" /\ ~Text(r[Len(r)])
        BY <1>1, <2>1 DEF Text
      <3>2. \A j \in 1..Len(r) : Text(r[j]) => j < Len(r)
        BY <1>1, <3>1
      <3> QED  BY <3>1, <3>2 DEF Calm
    <2>2. CASE o = "ltsm"
      <3>1. Calm(q, on, Len(q) + 1) /\ ~Text(r[Len(r)])
        BY <1>1, <2>2 DEF Ordered
      <3>2. \A j \in 1..Len(r) : Text(r[j]) => j \in 1..Len(q) /\ j < Len(q) + 1 /\ Text(q[j])
        BY <1>1, <3>1
      <3>3. \A k \in 1..Len(q) : k \in 1..Len(r) /\ k < Len(r) + 1 /\ r[k] = q[k]
        BY <1>1
      <3> QED  BY <3>1, <3>2, <3>3 DEF Calm
    <2> QED  BY <1>4, <2>1, <2>2
  <1>5. ASSUME NEW i \in 1..Len(r), Paste(r[i]) PROVE Calm(r, on, i) /\ Fenced(r, p, i)
    <2>1. CASE i \in 1..Len(q)
      <3>1. Calm(q, on, i) /\ Fenced(q, o, i) /\ i \in 1..(Len(q) + 1)
        BY <1>1, <1>5, <2>1 DEF Ordered
      <3> QED  BY <1>2, <1>3, <2>1, <3>1
    <2>2. CASE i = Len(q) + 1
      <3>1. o = "ltsm" /\ p = "ltsm" /\ Calm(q, on, Len(q) + 1)
        BY <1>1, <1>5, <2>2 DEF Ordered
      <3>2. Calm(r, on, i)
        BY <1>1, <1>2, <2>2, <3>1
      <3>3. Fenced(r, p, i)
        BY <1>1, <2>2, <3>1 DEF Fenced
      <3> QED  BY <3>2, <3>3
    <2> QED  BY <1>1, <2>1, <2>2
  <1>6. Ordered(r, p, on)
    BY <1>4, <1>5 DEF Ordered
  <1> QED  BY <1>6 DEF r

-----------------------------------------------------------------------------
\* The values the fields take.
LEMMA FieldsFits ==
  ASSUME NEW e, NEW f \in Fields(e), NEW b \in {TRUE, FALSE}, NEW t \in 0..CbAtoms,
         NEW own \in Seq(Pieces(e)), NEW text \in Seq(Pieces(e)) \union Seq(Pieces(CbOther(e)))
  PROVE  /\ [f EXCEPT !.clip = text] \in Fields(e)
         /\ [f EXCEPT !.clip = text, !.provide = b] \in Fields(e)
         /\ [f EXCEPT !.caps = b] \in Fields(e) /\ [f EXCEPT !.local = b] \in Fields(e)
         /\ [f EXCEPT !.remote = b] \in Fields(e) /\ [f EXCEPT !.target = t] \in Fields(e)
         /\ [f EXCEPT !.incr = [on |-> b, target |-> t, buf |-> own]] \in Fields(e)
  BY DEF Fields

LEMMA IncrFits ==
  ASSUME NEW e, NEW f \in Fields(e), NEW own \in Seq(Pieces(e))
  PROVE  /\ [f EXCEPT !.incr.buf = own] \in Fields(e)
         /\ [f EXCEPT !.incr.on = FALSE, !.incr.buf = own] \in Fields(e)
  <1> DEFINE i == f.incr
             j == [i EXCEPT !.buf = own]
             k == [[i EXCEPT !.on = FALSE] EXCEPT !.buf = own]
             I == [on : {TRUE, FALSE}, target : 0..CbAtoms, buf : Seq(Pieces(e))]
  <1>1. i \in I
    BY DEF Fields
  <1>2. j \in I /\ k \in I
    BY <1>1
  <1>3. [f EXCEPT !.incr = j] \in Fields(e) /\ [f EXCEPT !.incr = k] \in Fields(e)
    BY <1>2 DEF Fields
  <1>4. [f EXCEPT !.incr.buf = own] = [f EXCEPT !.incr = j]
    OBVIOUS
  <1>5. [f EXCEPT !.incr.on = FALSE, !.incr.buf = own] = [f EXCEPT !.incr = k]
    BY DEF Fields
  <1> QED  BY <1>3, <1>4, <1>5

\* convertSelection: an own text may become the clipboard, and nothing else of the peer's is lost.
LEMMA Converted ==
  ASSUME CbFunctions, NEW e \in CbEnds, NEW f \in Fields(e), NEW t \in 0..CbAtoms,
         ConvertSelection(e, f, t)
  PROVE  /\ DOMAIN cbE' = CbEnds /\ \A d \in CbEnds : d # e => cbE'[d] = cbE[d]
         /\ cbE'[e] \in Fields(e) /\ cbE'[e].caps = f.caps
         /\ cbE'[e].clip = f.clip \/ (f.incr.on /\ cbE'[e].clip \in Seq(Pieces(e)))
         /\ cbE'[e].incr.on => f.incr.on
         /\ cbAsk' = cbAsk \/ (cbX[e].owner = "prog" /\ cbAsk' = [cbAsk EXCEPT ![e] = Append(cbAsk[e], t)])
  <1> DEFINE g == [f EXCEPT !.target = t]
             r == [g EXCEPT !.clip = g.incr.buf]
             h1 == [r EXCEPT !.incr.buf = <<>>]
             h2 == [g EXCEPT !.incr.on = FALSE, !.incr.buf = <<>>]
  <1>0. <<>> \in Seq(Pieces(e))
    BY EmptySeq
  <1>1. g \in Fields(e) /\ g.caps = f.caps /\ g.clip = f.clip /\ g.incr = f.incr
    BY DEF Fields
  <1>2. g.incr.buf \in Seq(Pieces(e))
    BY <1>1 DEF Fields
  <1>3. r \in Fields(e) /\ r.caps = f.caps /\ r.clip = g.incr.buf /\ r.incr = f.incr
    BY <1>1, <1>2 DEF Fields
  <1>4. h1 \in Fields(e) /\ h2 \in Fields(e)
    BY <1>0, <1>1, <1>3, IncrFits
  <1>5. h1.caps = f.caps /\ h1.clip = g.incr.buf
    BY <1>3 DEF Fields
  <1>6. h2.caps = f.caps /\ h2.clip = f.clip
    BY <1>1 DEF Fields
  <1>7. ~h2.incr.on
    <2>1. h2.incr = [[g.incr EXCEPT !.on = FALSE] EXCEPT !.buf = <<>>]
      BY <1>1 DEF Fields
    <2>2. g.incr \in [on : {TRUE, FALSE}, target : 0..CbAtoms, buf : Seq(Pieces(e))]
      BY <1>1 DEF Fields
    <2> QED  BY <2>1, <2>2
  <1>8. \E h : cbE' = [cbE EXCEPT ![e] = h] /\ ((f.incr.on /\ h = h1) \/ h = g \/ h = h2)
    <2>1. CASE g.incr.on /\ t = g.incr.target
      BY <1>1, <2>1 DEF ConvertSelection, SelectionReceived
    <2>2. CASE ~(g.incr.on /\ t = g.incr.target) /\ t = CbTargets
      BY <2>2 DEF ConvertSelection
    <2>3. CASE ~(g.incr.on /\ t = g.incr.target) /\ t # CbTargets
      BY <2>3 DEF ConvertSelection
    <2> QED  BY <2>1, <2>2, <2>3
  <1>9. PICK h : cbE' = [cbE EXCEPT ![e] = h] /\ ((f.incr.on /\ h = h1) \/ h = g \/ h = h2)
    BY <1>8
  <1>10. cbAsk' = cbAsk \/ (cbX[e].owner = "prog" /\ cbAsk' = [cbAsk EXCEPT ![e] = Append(cbAsk[e], t)])
    <2>1. CASE cbX[e].owner = "prog"
      <3>1. CASE g.incr.on /\ t = g.incr.target
        BY <3>1 DEF ConvertSelection
      <3>2. CASE ~(g.incr.on /\ t = g.incr.target)
        BY <2>1, <3>2 DEF ConvertSelection
      <3> QED  BY <2>1, <3>1, <3>2
    <2>2. CASE cbX[e].owner # "prog"
      BY <2>2 DEF ConvertSelection
    <2> QED  BY <2>1, <2>2
  <1> HIDE DEF g, r, h1, h2
  <1>11. h \in Fields(e) /\ h.caps = f.caps
    BY <1>1, <1>4, <1>5, <1>6, <1>9
  <1>12. h.clip = f.clip \/ (f.incr.on /\ h.clip \in Seq(Pieces(e)))
    <2>1. CASE f.incr.on /\ h = h1
      BY <1>2, <1>5, <2>1
    <2>2. CASE h = g \/ h = h2
      BY <1>1, <1>6, <2>2
    <2> QED  BY <1>9, <2>1, <2>2
  <1>13. h.incr.on => f.incr.on
    BY <1>1, <1>7, <1>9
  <1>14. DOMAIN cbE' = CbEnds /\ cbE'[e] = h /\ \A d \in CbEnds : d # e => cbE'[d] = cbE[d]
    BY <1>9 DEF CbFunctions
  <1> QED  BY <1>10, <1>11, <1>12, <1>13, <1>14

\* The messages an end does not take: it may not have pasted before the capabilities come.
LEMMA NetKept ==
  ASSUME NEW e \in CbEnds, NetFits(e), cbNet'[e] = cbNet[e], cbE'[e].caps = cbE[e].caps,
         cbX[e].owner # "ltsm" /\ ~cbE[e].caps /\ cbXt[e] = "loop" /\ cbPaste[e].st # "incr" /\ cbPaste[e].got = <<>> =>
            /\ cbX'[e].owner # "ltsm" /\ cbXt'[e] = "loop" /\ cbPaste'[e].st # "incr" /\ cbPaste'[e].got = <<>>
  PROVE  NetFits(e)'
  BY DEF NetFits

\* Only one end's part of the state changes in a step, and the other may be sent a message.
Others(e) ==
    /\ CbFunctions'
    /\ \A d \in CbEnds : d # e =>
        /\ cbNet'[d] = cbNet[d] \/ \E m \in Messages(d) : m.op # "caps" /\ cbNet'[d] = Append(cbNet[d], m)
        /\ cbX'[d] = cbX[d] /\ cbAsk'[d] = cbAsk[d] /\ cbEv'[d] = cbEv[d] /\ cbE'[d] = cbE[d]
        /\ cbXt'[d] = cbXt[d] /\ cbRd'[d] = cbRd[d] /\ cbPaste'[d] = cbPaste[d]

LEMMA OneEnd ==
  ASSUME CbInv, NEW e \in CbEnds, Others(e), EndTyped(e)', Sides(e)', NetFits(e)'
  PROVE  CbInv'
  <1>1. ASSUME NEW d \in CbEnds, d # e PROVE EndTyped(d)' /\ Sides(d)' /\ NetFits(d)'
    <2>1. EndTyped(d) /\ Sides(d) /\ NetFits(d)
      BY DEF CbInv
    <2>2. EndTyped(d)' /\ Sides(d)'
      BY <1>1, <2>1 DEF Others, EndTyped, Sides, Waits
    <2>3. CASE cbNet'[d] = cbNet[d]
      <3>1. /\ cbE'[d].caps = cbE[d].caps /\ cbX'[d] = cbX[d] /\ cbXt'[d] = cbXt[d] /\ cbPaste'[d] = cbPaste[d]
            /\ NetFits(d) /\ d \in CbEnds
        BY <1>1, <2>1 DEF Others
      <3> QED  BY <2>2, <2>3, <3>1, NetKept
    <2>4. ASSUME NEW m \in Messages(d), m.op # "caps", cbNet'[d] = Append(cbNet[d], m) PROVE NetFits(d)'
      <3>1. /\ cbNet'[d] \in Seq(Messages(d)) /\ Len(cbNet'[d]) = Len(cbNet[d]) + 1 /\ cbNet'[d][Len(cbNet[d]) + 1] = m
            /\ \A i \in 1..Len(cbNet[d]) : cbNet'[d][i] = cbNet[d][i]
        BY <2>1, <2>4, AppendProperties DEF NetFits
      <3>2. Len(cbNet[d]) \in Nat
        BY <2>1, LenProperties DEF NetFits
      <3>3. \A i \in 1..Len(cbNet'[d]) : cbNet'[d][i].op = "caps" => i \in 1..Len(cbNet[d]) /\ cbNet[d][i].op = "caps"
        BY <2>4, <3>1, <3>2
      <3> QED  BY <1>1, <2>1, <3>1, <3>3 DEF NetFits, Others
    <2> QED  BY <1>1, <2>2, <2>3, <2>4 DEF Others
  <1>2. CbFunctions'
    BY DEF Others
  <1> QED  BY <1>1, <1>2 DEF CbInv

\* The one it takes.
LEMMA NetTaken ==
  ASSUME NEW e \in CbEnds, NetFits(e), cbNet[e] # <<>>, cbNet'[e] = Tail(cbNet[e])
  PROVE  NetFits(e)' /\ Head(cbNet[e]) \in Messages(e)
  <1>1. /\ cbNet[e] \in Seq(Messages(e)) /\ Head(cbNet[e]) \in Messages(e) /\ Tail(cbNet[e]) \in Seq(Messages(e))
        /\ Len(Tail(cbNet[e])) = Len(cbNet[e]) - 1 /\ Len(cbNet[e]) \in Nat
        /\ \A i \in 1..Len(Tail(cbNet[e])) : Tail(cbNet[e])[i] = cbNet[e][i + 1]
    BY HeadTailProperties, LenProperties DEF NetFits
  <1>2. \A i \in 1..Len(cbNet'[e]) : cbNet'[e][i].op # "caps"
    <2> TAKE i \in 1..Len(cbNet'[e])
    <2>1. i + 1 \in 1..Len(cbNet[e]) /\ cbNet'[e][i] = cbNet[e][i + 1] /\ i + 1 # 1
      BY <1>1
    <2> QED  BY <2>1 DEF NetFits
  <1> QED  BY <1>1, <1>2 DEF NetFits

\* What may be read off an end.
LEMMA EndValues ==
  ASSUME CbInv, NEW e \in CbEnds
  PROVE  /\ EndTyped(e) /\ Sides(e) /\ NetFits(e) /\ CbFunctions
         /\ cbEv[e] \in Seq(Events)
         /\ cbX[e].owner \in {"none", "prog", "ltsm"} /\ cbX[e].text \in Seq(Pieces(e))
         /\ cbX[e].prop.text \in Seq(Pieces(e)) /\ cbX[e].send \in Seq(Pieces(e) \union {CbEnd})
         /\ cbE[e].clip \in Seq(Pieces(e)) \union Seq(Pieces(CbOther(e))) /\ cbE[e].incr.buf \in Seq(Pieces(e))
         /\ cbPaste[e].got \in Seq(Pieces(e) \union Pieces(CbOther(e)))
  <1>1. EndTyped(e) /\ Sides(e) /\ NetFits(e) /\ CbFunctions
    BY DEF CbInv
  <1>2. cbEv[e] \in Seq(Events)
    BY <1>1 DEF Sides, QueueFits
  <1>3. /\ cbX[e].owner \in {"none", "prog", "ltsm"} /\ cbX[e].text \in Seq(Pieces(e))
        /\ cbX[e].prop.text \in Seq(Pieces(e)) /\ cbX[e].send \in Seq(Pieces(e) \union {CbEnd})
    BY <1>1 DEF EndTyped, Displays
  <1>4. cbE[e].clip \in Seq(Pieces(e)) \union Seq(Pieces(CbOther(e))) /\ cbE[e].incr.buf \in Seq(Pieces(e))
    BY <1>1 DEF EndTyped, Fields
  <1>5. cbPaste[e].got \in Seq(Pieces(e) \union Pieces(CbOther(e)))
    BY <1>1 DEF EndTyped, Pastes
  <1> QED  BY <1>1, <1>2, <1>3, <1>4, <1>5

-----------------------------------------------------------------------------
\* The queue as a whole: an event comes, and one is handled in the loop.
LEMMA QueueAppend ==
  ASSUME NEW q, NEW v \in Events, NEW o, NEW p, NEW on, NEW wait, NEW fence, QueueFits(q, o, on, wait, fence),
         Text(v) => o # "ltsm" /\ p = o, Paste(v) => o = "ltsm" /\ p = o,
         p # "ltsm" => o # "ltsm" \/ v.k = "clear", p = "ltsm" => o = "ltsm" \/ v.k = "owner"
  PROVE  QueueFits(Append(q, v), p, on, wait, fence)
  <1>1. q \in Seq(Events) /\ Append(q, v) \in Seq(Events) /\ Len(q) \in Nat /\ 0 \in 0..Len(q)
    BY LenProperties, AppendProperties DEF QueueFits
  <1>2. Ordered(Append(q, v), p, on)
    BY <1>1, OrderedAppend DEF QueueFits
  <1>3. fence => Fenced(Append(q, v), p, 0)
    BY <1>1, FencedAppend DEF QueueFits
  <1>4. q # <<>> => Append(q, v) # <<>> /\ Head(Append(q, v)) = Head(q)
    BY <1>1, EmptySeq, HeadTailProperties, AppendProperties
  <1> QED  BY <1>1, <1>2, <1>3, <1>4 DEF QueueFits

LEMMA QueueTail ==
  ASSUME NEW q, q # <<>>, NEW o, NEW on, NEW n, NEW wait, NEW fence, NEW keep, QueueFits(q, o, on, wait, fence),
         n => on \/ Text(Head(q)), Head(q).k = "owner" => ~n, keep => fence /\ Head(q).k # "clear"
  PROVE  QueueFits(Tail(q), o, n, FALSE, keep) /\ (keep => ~Text(Head(q))) /\ Head(q) \in Events
  <1>1. q \in Seq(Events) /\ Tail(q) \in Seq(Events) /\ Head(q) \in Events
    BY HeadTailProperties DEF QueueFits
  <1>2. Ordered(Tail(q), o, n)
    BY <1>1, OrderedTail DEF QueueFits
  <1>3. keep => Fenced(Tail(q), o, 0) /\ ~Text(Head(q))
    BY <1>1, FencedTail DEF QueueFits
  <1> QED  BY <1>1, <1>2, <1>3 DEF QueueFits

-----------------------------------------------------------------------------
\* The steps of an end's program.
LEMMA ProgramCopiesKeeps ==
  ASSUME CbInv, NEW e \in CbEnds, ProgramCopies(e)
  PROVE  CbInv'
  <1>0. UNCHANGED <<cbE, cbXt, cbRd, cbNet, cbPaste>>
    BY DEF ProgramCopies
  <1>1. PICK n \in CbSizes : cbX' = [cbX EXCEPT ![e].owner = "prog", ![e].text = [i \in 1 .. n |-> [by |-> e, id |-> cbLeft.id + 1]]]
    BY DEF ProgramCopies
  <1> DEFINE text == [i \in 1 .. n |-> [by |-> e, id |-> cbLeft.id + 1]]
             X == [cbX[e] EXCEPT !.owner = "prog", !.text = text]
  <1>2. text \in Seq(Pieces(e))
    <2>1. n \in Nat
      BY CbAssumption
    <2>2. cbLeft.id + 1 \in Nat
      <3>1. cbLeft.id \in Nat
        BY DEF CbInv, CbFunctions
      <3> QED  BY <3>1
    <2>3. [by |-> e, id |-> cbLeft.id + 1] \in Pieces(e)
      BY <2>2 DEF Pieces
    <2> QED  BY <2>1, <2>3, SeqDef
  <1> HIDE DEF text
  <1>3. X \in Displays(e) /\ X.owner = "prog"
    BY <1>2, EndValues DEF EndTyped, Displays
  <1>4. cbX' = [cbX EXCEPT ![e] = X]
    BY <1>1, EndValues DEF EndTyped, Displays, text
  <1> HIDE DEF X
  <1>5. cbX'[e] = X /\ DOMAIN cbX' = CbEnds /\ \A d \in CbEnds : d # e => cbX'[d] = cbX[d]
    BY <1>4, EndValues DEF CbFunctions
  <1>6. /\ cbAsk' = [cbAsk EXCEPT ![e] = <<>>]
        /\ cbLeft' = [cbLeft EXCEPT !.copy = @ - 1, !.id = @ + 1]
        /\ cbEv' = [cbEv EXCEPT ![e] = @ \o (IF cbX[e].owner = "ltsm" THEN <<[k |-> "clear", t |-> 0, who |-> "self"]>> ELSE <<>>)
                                     \o <<[k |-> "owner", t |-> 0, who |-> "self"]>>]
    BY DEF ProgramCopies
  <1> DEFINE c == [k |-> "clear", t |-> 0, who |-> "self"]
             o == [k |-> "owner", t |-> 0, who |-> "self"]
             q == cbEv[e]
             r == IF cbX[e].owner = "ltsm" THEN Append(q, c) ELSE q
  <1>7. c \in Events /\ o \in Events /\ ~Text(c) /\ ~Text(o) /\ ~Paste(c) /\ ~Paste(o) /\ c.k = "clear" /\ o.k = "owner"
    BY CbAssumption DEF Events, Text, Paste
  <1>8. cbEv'[e] = Append(r, o) /\ DOMAIN cbEv' = CbEnds /\ \A d \in CbEnds : d # e => cbEv'[d] = cbEv[d]
    <2>1. q \in Seq(Events)
      BY EndValues
    <2>2. Append(q, c) = q \o <<c>> /\ Append(q, c) \in Seq(Events)
      BY <1>7, <2>1, AppendIsConcat, AppendProperties
    <2>3. r \in Seq(Events) /\ r = q \o (IF cbX[e].owner = "ltsm" THEN <<c>> ELSE <<>>)
      BY <2>1, <2>2, ConcatEmptySeq
    <2>4. Append(r, o) = r \o <<o>>
      BY <1>7, <2>3, AppendIsConcat
    <2>5. cbEv' = [cbEv EXCEPT ![e] = r \o <<o>>]
      BY <1>6, <2>3
    <2> HIDE DEF r
    <2> QED  BY <2>4, <2>5, EndValues DEF CbFunctions
  <1>9. QueueFits(q, cbX[e].owner, cbE[e].incr.on, cbXt[e] = "wait", Waits(e))
    BY EndValues DEF Sides
  <1> HIDE DEF c, o
  <1>10. QueueFits(r, IF cbX[e].owner = "ltsm" THEN "prog" ELSE cbX[e].owner, cbE[e].incr.on, cbXt[e] = "wait", Waits(e))
    BY <1>7, <1>9, QueueAppend
  <1> HIDE DEF r
  <1>11. QueueFits(Append(r, o), "prog", cbE[e].incr.on, cbXt[e] = "wait", Waits(e))
    BY <1>7, <1>10, QueueAppend
  <1>12. Others(e)
    <2>1. DOMAIN cbLeft' = {"copy", "paste", "id"} /\ cbLeft'.id \in Nat
      <3> DEFINE l == [cbLeft EXCEPT !.copy = cbLeft.copy - 1]
      <3>0. DOMAIN cbLeft = {"copy", "paste", "id"} /\ cbLeft.id \in Nat
        BY DEF CbInv, CbFunctions
      <3>1. DOMAIN cbLeft = {"copy", "paste", "id"} /\ cbLeft.id + 1 \in Nat
        BY <3>0
      <3>2. DOMAIN l = {"copy", "paste", "id"} /\ l.id = cbLeft.id
        BY <3>1
      <3>3. cbLeft' = [l EXCEPT !.id = cbLeft.id + 1]
        BY <1>6, <3>1
      <3> HIDE DEF l
      <3> QED  BY <3>1, <3>2, <3>3
    <2> QED  BY <1>0, <1>5, <1>6, <1>8, <2>1, EndValues DEF Others, CbFunctions
  <1>13. cbAsk'[e] = <<>> /\ cbAsk'[e] \in Seq(0..CbAtoms)
    BY <1>6, EndValues, EmptySeq DEF CbFunctions
  <1>14. EndTyped(e)'
    BY <1>0, <1>3, <1>5, <1>13, EndValues DEF EndTyped
  <1>15. Sides(e)'
    BY <1>0, <1>3, <1>5, <1>8, <1>11, <1>13, EndValues DEF Sides, Waits
  <1>16. NetFits(e)'
    BY <1>0, <1>3, <1>5, NetKept, EndValues
  <1> QED  BY <1>12, <1>14, <1>15, <1>16, OneEnd

LEMMA ProgramAnswersKeeps ==
  ASSUME CbInv, NEW e \in CbEnds, ProgramAnswers(e)
  PROVE  CbInv'
  <1>0. cbAsk[e] # <<>> /\ UNCHANGED <<cbE, cbXt, cbRd, cbNet, cbPaste, cbLeft>>
    BY DEF ProgramAnswers
  <1> DEFINE t == Head(cbAsk[e])
             k == IF t = CbTargets THEN "targets" ELSE IF Len(cbX[e].text) > 1 THEN "incr" ELSE "data"
             v == [k |-> "notify", t |-> t, who |-> "self"]
             prop == [k |-> k, text |-> IF k = "data" THEN cbX[e].text ELSE <<>>]
             send == IF k = "incr" THEN Append(cbX[e].text, CbEnd) ELSE cbX[e].send
             X == [cbX[e] EXCEPT !.prop = prop, !.send = send]
  <1>1. cbX' = [cbX EXCEPT ![e].prop = prop, ![e].send = send] /\ cbEv' = [cbEv EXCEPT ![e] = Append(cbEv[e], v)]
    BY EndValues DEF ProgramAnswers, EndTyped, Displays, CbFunctions
  <1>2. t \in 0..CbAtoms /\ v \in Events /\ v.k = "notify" /\ ~Paste(v) /\ cbX[e].owner = "prog" /\ Tail(cbAsk[e]) \in Seq(0..CbAtoms)
    BY <1>0, EndValues, HeadTailProperties DEF EndTyped, Events, Sides, Paste
  <1>3. prop \in [k : {"none", "targets", "incr", "data", "piece"}, text : Seq(Pieces(e))]
    BY EndValues, EmptySeq
  <1>4. send \in Seq(Pieces(e) \union {CbEnd})
    <2>1. cbX[e].text \in Seq(Pieces(e) \union {CbEnd}) /\ CbEnd \in Pieces(e) \union {CbEnd}
      BY EndValues, SeqMonotonic
    <2> QED  BY <2>1, AppendProperties, EndValues
  <1> HIDE DEF t, k, v, prop, send
  <1>5. X \in Displays(e) /\ X.owner = "prog"
    BY <1>2, <1>3, <1>4, EndValues DEF EndTyped, Displays
  <1>6. cbX' = [cbX EXCEPT ![e] = X]
    BY <1>1, EndValues DEF EndTyped, Displays
  <1> HIDE DEF X
  <1>7. /\ cbX'[e] = X /\ DOMAIN cbX' = CbEnds /\ \A d \in CbEnds : d # e => cbX'[d] = cbX[d]
        /\ cbEv'[e] = Append(cbEv[e], v) /\ DOMAIN cbEv' = CbEnds /\ \A d \in CbEnds : d # e => cbEv'[d] = cbEv[d]
    BY <1>1, <1>6, EndValues DEF CbFunctions
  <1>8. cbAsk'[e] = Tail(cbAsk[e]) /\ DOMAIN cbAsk' = CbEnds /\ \A d \in CbEnds : d # e => cbAsk'[d] = cbAsk[d]
    BY EndValues DEF ProgramAnswers, CbFunctions
  <1>9. QueueFits(Append(cbEv[e], v), "prog", cbE[e].incr.on, cbXt[e] = "wait", Waits(e))
    <2>1. QueueFits(cbEv[e], "prog", cbE[e].incr.on, cbXt[e] = "wait", Waits(e))
      BY <1>2, EndValues DEF Sides
    <2> QED  BY <1>2, <2>1, QueueAppend
  <1>10. Others(e)
    BY <1>0, <1>7, <1>8, EndValues DEF Others, CbFunctions
  <1>11. EndTyped(e)'
    BY <1>0, <1>2, <1>5, <1>7, <1>8, EndValues DEF EndTyped
  <1>12. Sides(e)'
    BY <1>0, <1>5, <1>7, <1>9, EndValues DEF Sides, Waits
  <1>13. NetFits(e)'
    BY <1>0, <1>5, <1>7, NetKept, EndValues
  <1> QED  BY <1>10, <1>11, <1>12, <1>13, OneEnd

LEMMA ProgramSendsPieceKeeps ==
  ASSUME CbInv, NEW e \in CbEnds, ProgramSendsPiece(e)
  PROVE  CbInv'
  <1>0. cbX[e].send # <<>> /\ UNCHANGED <<cbAsk, cbE, cbXt, cbRd, cbNet, cbPaste, cbLeft>>
    BY DEF ProgramSendsPiece
  <1> DEFINE h == Head(cbX[e].send)
             v == [k |-> "piece", t |-> 0, who |-> "self"]
             prop == [k |-> "piece", text |-> IF h = CbEnd THEN <<>> ELSE <<h>>]
             X == [cbX[e] EXCEPT !.prop = prop, !.send = Tail(cbX[e].send)]
  <1>1. cbX' = [cbX EXCEPT ![e].prop = prop, ![e].send = Tail(cbX[e].send)] /\ cbEv' = [cbEv EXCEPT ![e] = Append(cbEv[e], v)]
    BY EndValues DEF ProgramSendsPiece, EndTyped, Displays, CbFunctions
  <1>2. h \in Pieces(e) \union {CbEnd} /\ Tail(cbX[e].send) \in Seq(Pieces(e) \union {CbEnd})
    BY <1>0, EndValues, HeadTailProperties
  <1>3. prop \in [k : {"none", "targets", "incr", "data", "piece"}, text : Seq(Pieces(e))]
    <2>1. h # CbEnd => h \in Pieces(e)
      BY <1>2
    <2> HIDE DEF h
    <2>2. (IF h = CbEnd THEN <<>> ELSE <<h>>) \in Seq(Pieces(e))
      BY <2>1, EmptySeq
    <2> QED  BY <2>2
  <1>4. v \in Events /\ ~Paste(v) /\ ~Text(v)
    BY CbAssumption DEF Events, Paste, Text
  <1> HIDE DEF h, v, prop
  <1>5. X \in Displays(e) /\ X.owner = cbX[e].owner
    BY <1>2, <1>3, EndValues DEF EndTyped, Displays
  <1>6. cbX' = [cbX EXCEPT ![e] = X]
    BY <1>1, EndValues DEF EndTyped, Displays
  <1> HIDE DEF X
  <1>7. /\ cbX'[e] = X /\ DOMAIN cbX' = CbEnds /\ \A d \in CbEnds : d # e => cbX'[d] = cbX[d]
        /\ cbEv'[e] = Append(cbEv[e], v) /\ DOMAIN cbEv' = CbEnds /\ \A d \in CbEnds : d # e => cbEv'[d] = cbEv[d]
    BY <1>1, <1>6, EndValues DEF CbFunctions
  <1>8. QueueFits(Append(cbEv[e], v), cbX[e].owner, cbE[e].incr.on, cbXt[e] = "wait", Waits(e))
    <2>1. QueueFits(cbEv[e], cbX[e].owner, cbE[e].incr.on, cbXt[e] = "wait", Waits(e))
      BY EndValues DEF Sides
    <2> QED  BY <1>4, <2>1, QueueAppend
  <1>9. Others(e)
    BY <1>0, <1>7, EndValues DEF Others, CbFunctions
  <1>10. EndTyped(e)'
    BY <1>0, <1>5, <1>7, EndValues DEF EndTyped
  <1>11. Sides(e)'
    BY <1>0, <1>5, <1>7, <1>8, EndValues DEF Sides, Waits
  <1>12. NetFits(e)'
    BY <1>0, <1>5, <1>7, NetKept, EndValues
  <1> QED  BY <1>9, <1>10, <1>11, <1>12, OneEnd

LEMMA ProgramPastesKeeps ==
  ASSUME CbInv, NEW e \in CbEnds, ProgramPastes(e)
  PROVE  CbInv'
  <1> DEFINE v == [k |-> "request", t |-> 1, who |-> "prog"]
             P == [st |-> "asked", got |-> <<>>]
  <1>0. cbX[e].owner = "ltsm" /\ cbPaste[e].st \in {"idle", "done", "refused"} /\ UNCHANGED <<cbX, cbAsk, cbE, cbXt, cbRd, cbNet>>
    BY DEF ProgramPastes
  <1>1. v \in Events /\ ~Text(v) /\ v.k # "clear"
    BY CbAssumption DEF Events, Text, CbTargets
  <1>2. P \in Pastes(e) /\ P.st = "asked" /\ P.got \in Seq(Pieces(CbOther(e)))
    BY EmptySeq DEF Pastes
  <1>3. cbPaste' = [cbPaste EXCEPT ![e] = P] /\ cbEv' = [cbEv EXCEPT ![e] = Append(cbEv[e], v)]
        /\ cbLeft' = [cbLeft EXCEPT !.paste = cbLeft.paste - 1]
    BY EndValues DEF ProgramPastes, CbFunctions
  <1> HIDE DEF v, P
  <1>4. /\ cbPaste'[e] = P /\ DOMAIN cbPaste' = CbEnds /\ \A d \in CbEnds : d # e => cbPaste'[d] = cbPaste[d]
        /\ cbEv'[e] = Append(cbEv[e], v) /\ DOMAIN cbEv' = CbEnds /\ \A d \in CbEnds : d # e => cbEv'[d] = cbEv[d]
    BY <1>3, EndValues DEF CbFunctions
  <1>5. DOMAIN cbLeft' = {"copy", "paste", "id"} /\ cbLeft'.id \in Nat
    <2>1. DOMAIN cbLeft = {"copy", "paste", "id"} /\ cbLeft.id \in Nat
      BY DEF CbInv, CbFunctions
    <2> QED  BY <1>3, <2>1
  <1>6. QueueFits(Append(cbEv[e], v), cbX[e].owner, cbE[e].incr.on, cbXt[e] = "wait", Waits(e))
    <2>1. QueueFits(cbEv[e], cbX[e].owner, cbE[e].incr.on, cbXt[e] = "wait", Waits(e))
      BY EndValues DEF Sides
    <2> QED  BY <1>0, <1>1, <2>1, QueueAppend
  <1>7. Others(e)
    BY <1>0, <1>4, <1>5, EndValues DEF Others, CbFunctions
  <1>8. EndTyped(e)'
    BY <1>0, <1>2, <1>4, EndValues DEF EndTyped
  <1>9. Sides(e)'
    <2>1. Waits(e)' => Waits(e)
      BY <1>0, <1>2, <1>4 DEF Waits
    <2>2. QueueFits(cbEv[e], cbX[e].owner, cbE[e].incr.on, cbXt[e] = "wait", Waits(e))'
      BY <1>0, <1>4, <1>6, <2>1 DEF QueueFits
    <2> QED  BY <1>0, <1>2, <1>4, <2>1, <2>2, EndValues DEF Sides
  <1>10. NetFits(e)'
    BY <1>0, <1>4, NetKept, EndValues
  <1> QED  BY <1>7, <1>8, <1>9, <1>10, OneEnd

-----------------------------------------------------------------------------
\* A message to the other end.
LEMMA Told ==
  ASSUME CbInv, NEW e \in CbEnds, NEW m \in Messages(CbOther(e)), m.op # "caps", CbTell(CbOther(e), m)
  PROVE  /\ DOMAIN cbNet' = CbEnds /\ cbNet'[e] = cbNet[e]
         /\ \A d \in CbEnds : d # e => \E n \in Messages(d) : n.op # "caps" /\ cbNet'[d] = Append(cbNet[d], n)
  <1>1. CbOther(e) \in CbEnds /\ CbOther(e) # e /\ \A d \in CbEnds : d # e => d = CbOther(e)
    BY DEF CbEnds, CbOther
  <1>2. cbNet' = [cbNet EXCEPT ![CbOther(e)] = Append(cbNet[CbOther(e)], m)]
    BY DEF CbTell
  <1> QED  BY <1>1, <1>2, EndValues DEF CbFunctions

\* The event of a conversion of our own selection is neither a text nor a paste.
LEMMA SelfRequested ==
  ASSUME CbInv, NEW e \in CbEnds, NEW f, NEW t \in 0..CbAtoms, NEW q, NEW on, NEW wait, NEW fence,
         QueueFits(q, cbX[e].owner, on, wait, fence)
  PROVE  QueueFits(SelfRequest(e, f, t, q), cbX[e].owner, on, wait, fence)
  <1> DEFINE v == [k |-> "request", t |-> t, who |-> "self"]
  <1>1. v \in Events /\ ~Text(v) /\ ~Paste(v)
    BY DEF Events, Text, Paste
  <1> HIDE DEF v
  <1>2. QueueFits(Append(q, v), cbX[e].owner, on, wait, fence)
    BY <1>1, QueueAppend
  <1>3. SelfRequest(e, f, t, q) = Append(q, v) \/ SelfRequest(e, f, t, q) = q
    BY DEF SelfRequest, v
  <1> QED  BY <1>2, <1>3

\* What the fields say of the rest of an end's state stays true in a conversion.
LEMMA ConvertedSides ==
  ASSUME CbInv, NEW e \in CbEnds, NEW f \in Fields(e), NEW t \in 0..CbAtoms, ConvertSelection(e, f, t),
         f.caps = cbE[e].caps, f.clip = cbE[e].clip \/ f.clip = <<>>, f.incr.on => cbE[e].incr.on
  PROVE  /\ DOMAIN cbE' = CbEnds /\ \A d \in CbEnds : d # e => cbE'[d] = cbE[d]
         /\ DOMAIN cbAsk' = CbEnds /\ \A d \in CbEnds : d # e => cbAsk'[d] = cbAsk[d]
         /\ cbE'[e] \in Fields(e) /\ cbE'[e].caps = cbE[e].caps /\ (cbE'[e].incr.on => f.incr.on)
         /\ cbE[e].clip \in Seq(Pieces(e)) \/ f.clip = <<>> => cbE'[e].clip \in Seq(Pieces(e))
         /\ Waits(e) => ~cbE'[e].incr.on /\ cbE'[e].clip \in Seq(Pieces(CbOther(e)))
         /\ cbAsk'[e] \in Seq(0..CbAtoms) /\ (cbAsk'[e] # <<>> => cbX[e].owner = "prog")
  <1>0. CbFunctions
    BY EndValues
  <1>1. /\ DOMAIN cbE' = CbEnds /\ \A d \in CbEnds : d # e => cbE'[d] = cbE[d]
        /\ cbE'[e] \in Fields(e) /\ cbE'[e].caps = f.caps
        /\ cbE'[e].clip = f.clip \/ (f.incr.on /\ cbE'[e].clip \in Seq(Pieces(e)))
        /\ cbE'[e].incr.on => f.incr.on
        /\ cbAsk' = cbAsk \/ (cbX[e].owner = "prog" /\ cbAsk' = [cbAsk EXCEPT ![e] = Append(cbAsk[e], t)])
    BY <1>0, Converted
  <1>2. /\ DOMAIN cbAsk' = CbEnds /\ \A d \in CbEnds : d # e => cbAsk'[d] = cbAsk[d]
        /\ cbAsk'[e] \in Seq(0..CbAtoms) /\ (cbAsk'[e] # <<>> => cbX[e].owner = "prog")
    <2>1. CASE cbAsk' = cbAsk
      BY <2>1, EndValues DEF CbFunctions, EndTyped, Sides
    <2>2. CASE cbX[e].owner = "prog" /\ cbAsk' = [cbAsk EXCEPT ![e] = Append(cbAsk[e], t)]
      BY <2>2, EndValues, AppendProperties DEF CbFunctions, EndTyped
    <2> QED  BY <1>1, <2>1, <2>2
  <1>3. cbE[e].clip \in Seq(Pieces(e)) \/ f.clip = <<>> => cbE'[e].clip \in Seq(Pieces(e))
    BY <1>1, EmptySeq
  <1>4. ASSUME Waits(e) PROVE ~cbE'[e].incr.on /\ cbE'[e].clip \in Seq(Pieces(CbOther(e)))
    <2>1. ~cbE[e].incr.on /\ cbE[e].clip \in Seq(Pieces(CbOther(e)))
      BY <1>4, EndValues DEF Sides
    <2>2. ~f.incr.on /\ cbE'[e].clip = f.clip /\ ~cbE'[e].incr.on
      BY <1>1, <2>1
    <2> QED  BY <2>1, <2>2, EmptySeq
  <1> QED  BY <1>1, <1>2, <1>3, <1>4

LEMMA XfixesSetSelectionOwnerKeeps ==
  ASSUME CbInv, NEW e \in CbEnds, XfixesSetSelectionOwner(e)
  PROVE  CbInv'
  <1> DEFINE f == [cbE[e] EXCEPT !.incr.on = FALSE, !.incr.buf = <<>>]
             q == SelfRequest(e, f, CbTargets, Tail(cbEv[e]))
  <1>0. CbEvent(e, "owner") /\ UNCHANGED <<cbX, cbXt, cbRd, cbNet, cbPaste, cbLeft>> /\ ConvertSelection(e, f, CbTargets)
        /\ cbEv' = [cbEv EXCEPT ![e] = q]
    BY EndValues DEF XfixesSetSelectionOwner, CbFunctions
  <1>1. f \in Fields(e)
    BY EndValues, IncrFits, EmptySeq DEF EndTyped
  <1>2. f.caps = cbE[e].caps /\ f.clip = cbE[e].clip
    BY EndValues DEF EndTyped, Fields
  <1>3. ~f.incr.on
    <2>1. f.incr = [[cbE[e].incr EXCEPT !.on = FALSE] EXCEPT !.buf = <<>>]
      BY EndValues DEF EndTyped, Fields
    <2>2. cbE[e].incr \in [on : {TRUE, FALSE}, target : 0..CbAtoms, buf : Seq(Pieces(e))]
      BY EndValues DEF EndTyped, Fields
    <2> QED  BY <2>1, <2>2
  <1> HIDE DEF f
  <1>4. CbTargets \in 0..CbAtoms
    BY CbAssumption DEF CbTargets
  <1>5. /\ DOMAIN cbE' = CbEnds /\ \A d \in CbEnds : d # e => cbE'[d] = cbE[d]
        /\ DOMAIN cbAsk' = CbEnds /\ \A d \in CbEnds : d # e => cbAsk'[d] = cbAsk[d]
        /\ cbE'[e] \in Fields(e) /\ cbE'[e].caps = cbE[e].caps /\ (cbE'[e].incr.on => f.incr.on)
        /\ cbE[e].clip \in Seq(Pieces(e)) \/ f.clip = <<>> => cbE'[e].clip \in Seq(Pieces(e))
        /\ Waits(e) => ~cbE'[e].incr.on /\ cbE'[e].clip \in Seq(Pieces(CbOther(e)))
        /\ cbAsk'[e] \in Seq(0..CbAtoms) /\ (cbAsk'[e] # <<>> => cbX[e].owner = "prog")
    BY <1>0, <1>1, <1>2, <1>3, <1>4, ConvertedSides
  <1>6. QueueFits(q, cbX[e].owner, cbE'[e].incr.on, FALSE, Waits(e))
    <2>1. QueueFits(cbEv[e], cbX[e].owner, cbE[e].incr.on, cbXt[e] = "wait", Waits(e))
      BY EndValues DEF Sides
    <2>2. cbEv[e] # <<>> /\ Head(cbEv[e]).k = "owner" /\ ~cbE'[e].incr.on
      BY <1>0, <1>3, <1>5 DEF CbEvent
    <2>3. QueueFits(Tail(cbEv[e]), cbX[e].owner, cbE'[e].incr.on, FALSE, Waits(e))
      BY <2>1, <2>2, QueueTail
    <2> QED  BY <1>4, <2>3, SelfRequested
  <1> HIDE DEF q
  <1>7. cbEv'[e] = q /\ DOMAIN cbEv' = CbEnds /\ \A d \in CbEnds : d # e => cbEv'[d] = cbEv[d]
    BY <1>0, EndValues DEF CbFunctions
  <1>8. Others(e)
    BY <1>0, <1>5, <1>7, EndValues DEF Others, CbFunctions
  <1>9. EndTyped(e)'
    BY <1>0, <1>5, <1>7, EndValues DEF EndTyped
  <1>10. Sides(e)'
    <2>1. Waits(e)' = Waits(e) /\ cbXt[e] = "loop"
      BY <1>0, <1>5 DEF Waits, CbEvent
    <2>2. QueueFits(cbEv[e], cbX[e].owner, cbE[e].incr.on, cbXt[e] = "wait", Waits(e))'
      BY <1>0, <1>6, <1>7, <2>1 DEF QueueFits
    <2> QED  BY <1>0, <1>5, <1>7, <2>1, <2>2, EndValues DEF Sides
  <1>11. NetFits(e)'
    BY <1>0, <1>5, NetKept, EndValues
  <1> QED  BY <1>8, <1>9, <1>10, <1>11, OneEnd

\* An end's window with another property, and an event handled that is not a change of owner.
LEMMA PropFits ==
  ASSUME CbInv, NEW e \in CbEnds, NEW X, X = [cbX[e] EXCEPT !.prop = CbNoProp]
  PROVE  X \in Displays(e) /\ X.owner = cbX[e].owner
  <1>1. CbNoProp \in [k : {"none", "targets", "incr", "data", "piece"}, text : Seq(Pieces(e))]
    BY EmptySeq DEF CbNoProp
  <1> QED  BY <1>1, EndValues DEF EndTyped, Displays

LEMMA SelectionReceiveTargetsKeeps ==
  ASSUME CbInv, NEW e \in CbEnds, SelectionReceiveTargets(e)
  PROVE  CbInv'
  <1> DEFINE X == [cbX[e] EXCEPT !.prop = CbNoProp]
             has == cbX[e].prop.k = "targets"
             m == CbMsg(IF has THEN "notify" ELSE "notify none", <<>>)
             q == SelfRequest(e, cbE[e], 1, Tail(cbEv[e]))
  <1>0. CbEvent(e, "notify") /\ Head(cbEv[e]).t = CbTargets /\ UNCHANGED <<cbXt, cbRd, cbPaste, cbLeft>>
    BY DEF SelectionReceiveTargets
  <1>1. cbX' = [cbX EXCEPT ![e] = X]
    BY DEF SelectionReceiveTargets
  <1>2. X \in Displays(e) /\ X.owner = cbX[e].owner
    BY PropFits
  <1>3. \/ cbE[e].caps /\ cbE' = [cbE EXCEPT ![e].local = has] /\ CbTell(CbOther(e), m) /\ CbHandled(e) /\ UNCHANGED cbAsk
        \/ ~cbE[e].caps /\ UNCHANGED cbNet /\ ConvertSelection(e, cbE[e], 1) /\ cbEv' = [cbEv EXCEPT ![e] = q]
        \/ ~cbE[e].caps /\ UNCHANGED cbNet /\ CbHandled(e) /\ UNCHANGED <<cbE, cbAsk>>
    BY EndValues DEF SelectionReceiveTargets, CbFunctions
  <1>4. m \in Messages(CbOther(e)) /\ m.op # "caps"
    BY EmptySeq DEF Messages, CbMsg
  <1>5. cbEv[e] # <<>> /\ ~Text(Head(cbEv[e])) /\ Head(cbEv[e]).k = "notify" /\ cbXt[e] = "loop"
    BY <1>0 DEF CbEvent, Text
  <1> HIDE DEF X, has, m
  <1>6. cbX'[e] = X /\ DOMAIN cbX' = CbEnds /\ \A d \in CbEnds : d # e => cbX'[d] = cbX[d]
    BY <1>1, EndValues DEF CbFunctions
  <1>7. QueueFits(cbEv[e], cbX[e].owner, cbE[e].incr.on, cbXt[e] = "wait", Waits(e))
    BY EndValues DEF Sides
  <1>8. ASSUME NEW n, n => cbE[e].incr.on PROVE QueueFits(Tail(cbEv[e]), cbX[e].owner, n, FALSE, Waits(e))
    BY <1>5, <1>7, <1>8, QueueTail
  <1>9. CASE cbE[e].caps /\ cbE' = [cbE EXCEPT ![e].local = has] /\ CbTell(CbOther(e), m) /\ CbHandled(e) /\ UNCHANGED cbAsk
    <2> DEFINE f == [cbE[e] EXCEPT !.local = has]
    <2>1. f \in Fields(e) /\ f.caps = cbE[e].caps /\ f.clip = cbE[e].clip /\ f.incr = cbE[e].incr
      BY EndValues DEF EndTyped, Fields, has
    <2>2. cbE' = [cbE EXCEPT ![e] = f]
      BY <1>9
    <2> HIDE DEF f
    <2>3. cbE'[e] = f /\ DOMAIN cbE' = CbEnds /\ \A d \in CbEnds : d # e => cbE'[d] = cbE[d]
      BY <2>2, EndValues DEF CbFunctions
    <2>4. cbEv'[e] = Tail(cbEv[e]) /\ DOMAIN cbEv' = CbEnds /\ \A d \in CbEnds : d # e => cbEv'[d] = cbEv[d]
      BY <1>9, EndValues DEF CbHandled, CbFunctions
    <2>5. /\ DOMAIN cbNet' = CbEnds /\ cbNet'[e] = cbNet[e]
          /\ \A d \in CbEnds : d # e => \E n \in Messages(d) : n.op # "caps" /\ cbNet'[d] = Append(cbNet[d], n)
      BY <1>4, <1>9, Told
    <2>6. Others(e)
      BY <1>0, <1>6, <1>9, <2>3, <2>4, <2>5, EndValues DEF Others, CbFunctions
    <2>7. EndTyped(e)'
      BY <1>0, <1>2, <1>6, <1>9, <2>1, <2>3, EndValues DEF EndTyped
    <2>8. Waits(e)' = Waits(e)
      BY <1>0, <2>1, <2>3 DEF Waits
    <2>9. QueueFits(cbEv[e], cbX[e].owner, cbE[e].incr.on, cbXt[e] = "wait", Waits(e))'
      BY <1>0, <1>2, <1>5, <1>6, <1>8, <2>1, <2>3, <2>4, <2>8
    <2>10. Sides(e)'
      BY <1>0, <1>2, <1>6, <1>9, <2>1, <2>3, <2>8, <2>9, EndValues DEF Sides
    <2>11. NetFits(e)'
      BY <1>0, <1>2, <1>6, <2>1, <2>3, <2>5, NetKept, EndValues
    <2> QED  BY <2>6, <2>7, <2>10, <2>11, OneEnd
  <1>10. CASE ~cbE[e].caps /\ UNCHANGED cbNet /\ ConvertSelection(e, cbE[e], 1) /\ cbEv' = [cbEv EXCEPT ![e] = q]
    <2>1. 1 \in 0..CbAtoms /\ cbE[e] \in Fields(e)
      <3>1. 1 \in 0..CbAtoms
        BY CbAssumption
      <3> QED  BY <3>1, EndValues DEF EndTyped
    <2>2. /\ DOMAIN cbE' = CbEnds /\ \A d \in CbEnds : d # e => cbE'[d] = cbE[d]
          /\ DOMAIN cbAsk' = CbEnds /\ \A d \in CbEnds : d # e => cbAsk'[d] = cbAsk[d]
          /\ cbE'[e] \in Fields(e) /\ cbE'[e].caps = cbE[e].caps /\ (cbE'[e].incr.on => cbE[e].incr.on)
          /\ cbE[e].clip \in Seq(Pieces(e)) => cbE'[e].clip \in Seq(Pieces(e))
          /\ Waits(e) => ~cbE'[e].incr.on /\ cbE'[e].clip \in Seq(Pieces(CbOther(e)))
          /\ cbAsk'[e] \in Seq(0..CbAtoms) /\ (cbAsk'[e] # <<>> => cbX[e].owner = "prog")
      BY <1>10, <2>1, ConvertedSides
    <2>3. QueueFits(q, cbX[e].owner, cbE'[e].incr.on, FALSE, Waits(e))
      BY <1>8, <2>1, <2>2, SelfRequested
    <2> HIDE DEF q
    <2>4. cbEv'[e] = q /\ DOMAIN cbEv' = CbEnds /\ \A d \in CbEnds : d # e => cbEv'[d] = cbEv[d]
      BY <1>10, EndValues DEF CbFunctions
    <2>5. Others(e)
      BY <1>0, <1>6, <1>10, <2>2, <2>4, EndValues DEF Others, CbFunctions
    <2>6. EndTyped(e)'
      BY <1>0, <1>2, <1>6, <2>2, EndValues DEF EndTyped
    <2>7. Waits(e)' = Waits(e)
      BY <1>0, <2>2 DEF Waits
    <2>8. QueueFits(cbEv[e], cbX[e].owner, cbE[e].incr.on, cbXt[e] = "wait", Waits(e))'
      BY <1>0, <1>2, <1>5, <1>6, <2>3, <2>4, <2>7
    <2>9. Sides(e)'
      BY <1>0, <1>2, <1>6, <2>2, <2>7, <2>8, EndValues DEF Sides
    <2>10. NetFits(e)'
      BY <1>0, <1>2, <1>6, <1>10, <2>2, NetKept, EndValues
    <2> QED  BY <2>5, <2>6, <2>9, <2>10, OneEnd
  <1>11. CASE ~cbE[e].caps /\ UNCHANGED cbNet /\ CbHandled(e) /\ UNCHANGED <<cbE, cbAsk>>
    <2>1. cbEv'[e] = Tail(cbEv[e]) /\ DOMAIN cbEv' = CbEnds /\ \A d \in CbEnds : d # e => cbEv'[d] = cbEv[d]
      BY <1>11, EndValues DEF CbHandled, CbFunctions
    <2>2. Others(e)
      BY <1>0, <1>6, <1>11, <2>1, EndValues DEF Others, CbFunctions
    <2>3. EndTyped(e)'
      BY <1>0, <1>2, <1>6, <1>11, EndValues DEF EndTyped
    <2>4. Waits(e)' = Waits(e)
      BY <1>0, <1>11 DEF Waits
    <2>5. QueueFits(cbEv[e], cbX[e].owner, cbE[e].incr.on, cbXt[e] = "wait", Waits(e))'
      BY <1>0, <1>2, <1>5, <1>6, <1>8, <1>11, <2>1, <2>4
    <2>6. Sides(e)'
      BY <1>0, <1>2, <1>6, <1>11, <2>4, <2>5, EndValues DEF Sides
    <2>7. NetFits(e)'
      BY <1>0, <1>2, <1>6, <1>11, NetKept, EndValues
    <2> QED  BY <2>2, <2>3, <2>6, <2>7, OneEnd
  <1> QED  BY <1>3, <1>9, <1>10, <1>11

\* One end's entry is replaced.
Becomes(new, old, e, v) == DOMAIN new = CbEnds /\ new[e] = v /\ \A d \in CbEnds : d # e => new[d] = old[d]

LEMMA Replaced ==
  ASSUME NEW f, DOMAIN f = CbEnds, NEW e \in CbEnds, NEW v
  PROVE  Becomes([f EXCEPT ![e] = v], f, e, v) /\ Becomes(f, f, e, f[e])
  BY DEF Becomes

\* A text of the end's program has come: it is sent, or waits to be asked for.
LEMMA TextReceived ==
  ASSUME CbInv, NEW e \in CbEnds, NEW f \in Fields(e), NEW text \in Seq(Pieces(e)), SelectionReceiveData(e, f, text)
  PROVE  /\ \E F \in Fields(e) : /\ Becomes(cbE', cbE, e, F) /\ F.caps = f.caps /\ F.incr = f.incr
                                 /\ F.clip = f.clip \/ F.clip \in Seq(Pieces(e))
         /\ DOMAIN cbNet' = CbEnds /\ cbNet'[e] = cbNet[e]
         /\ \A d \in CbEnds : d # e =>
               cbNet'[d] = cbNet[d] \/ \E n \in Messages(d) : n.op # "caps" /\ cbNet'[d] = Append(cbNet[d], n)
  <1>0. CASE UNCHANGED cbNet
    <2>1. DOMAIN cbNet' = CbEnds /\ cbNet'[e] = cbNet[e] /\ \A d \in CbEnds : cbNet'[d] = cbNet[d]
      BY <1>0, EndValues DEF CbFunctions
    <2>2. CASE f.caps
      <3> DEFINE F == [f EXCEPT !.clip = text]
      <3>1. F \in Fields(e) /\ F.caps = f.caps /\ F.incr = f.incr /\ F.clip = text
        BY DEF Fields
      <3>2. cbE' = [cbE EXCEPT ![e] = F]
        BY <2>2 DEF SelectionReceiveData, SelectionReceived
      <3> HIDE DEF F
      <3>3. Becomes(cbE', cbE, e, F)
        BY <3>2, Replaced, EndValues DEF CbFunctions
      <3> QED  BY <2>1, <3>1, <3>3
    <2>3. CASE ~f.caps
      <3>1. cbE' = [cbE EXCEPT ![e] = f]
        BY <2>3 DEF SelectionReceiveData
      <3>2. Becomes(cbE', cbE, e, f)
        BY <3>1, Replaced, EndValues DEF CbFunctions
      <3> QED  BY <2>1, <3>2
    <2> QED  BY <2>2, <2>3
  <1>1. CASE ~UNCHANGED cbNet
    <2> DEFINE m == CbMsg("text", text)
    <2>1. cbE' = [cbE EXCEPT ![e] = f] /\ CbTell(CbOther(e), m)
      <3>1. ~f.caps
        BY <1>1 DEF SelectionReceiveData
      <3> QED  BY <1>1, <3>1 DEF SelectionReceiveData
    <2>2. m \in Messages(CbOther(e)) /\ m.op # "caps"
      <3>1. CbOther(CbOther(e)) = e
        BY DEF CbOther, CbEnds
      <3> QED  BY <3>1 DEF Messages, CbMsg
    <2> HIDE DEF m
    <2>3. /\ DOMAIN cbNet' = CbEnds /\ cbNet'[e] = cbNet[e]
          /\ \A d \in CbEnds : d # e => \E n \in Messages(d) : n.op # "caps" /\ cbNet'[d] = Append(cbNet[d], n)
      BY <2>1, <2>2, Told
    <2>4. Becomes(cbE', cbE, e, f)
      BY <2>1, Replaced, EndValues DEF CbFunctions
    <2> QED  BY <2>3, <2>4
  <1> QED  BY <1>0, <1>1

\* An event that brings a text, or a piece of one.
LEMMA TextHandled ==
  ASSUME CbInv, NEW e \in CbEnds, cbXt[e] = "loop", cbEv[e] # <<>>, CbHandled(e), UNCHANGED <<cbAsk, cbXt, cbRd, cbPaste, cbLeft>>,
         Head(cbEv[e]).k \notin {"owner", "clear"},
         NEW X \in Displays(e), Becomes(cbX', cbX, e, X), X.owner = cbX[e].owner,
         NEW F \in Fields(e), Becomes(cbE', cbE, e, F), F.caps = cbE[e].caps,
         F.clip = cbE[e].clip \/ F.clip \in Seq(Pieces(e)), F.incr.on => cbE[e].incr.on \/ Text(Head(cbEv[e])),
         Waits(e) => F = cbE[e],
         DOMAIN cbNet' = CbEnds, cbNet'[e] = cbNet[e],
         \A d \in CbEnds : d # e =>
             cbNet'[d] = cbNet[d] \/ \E n \in Messages(d) : n.op # "caps" /\ cbNet'[d] = Append(cbNet[d], n)
  PROVE  CbInv'
  <1>1. /\ cbX'[e] = X /\ DOMAIN cbX' = CbEnds /\ \A d \in CbEnds : d # e => cbX'[d] = cbX[d]
        /\ cbE'[e] = F /\ DOMAIN cbE' = CbEnds /\ \A d \in CbEnds : d # e => cbE'[d] = cbE[d]
        /\ cbEv'[e] = Tail(cbEv[e]) /\ DOMAIN cbEv' = CbEnds /\ \A d \in CbEnds : d # e => cbEv'[d] = cbEv[d]
    BY EndValues DEF CbHandled, CbFunctions, Becomes
  <1>2. QueueFits(Tail(cbEv[e]), cbX[e].owner, F.incr.on, FALSE, Waits(e))
    <2>1. QueueFits(cbEv[e], cbX[e].owner, cbE[e].incr.on, cbXt[e] = "wait", Waits(e))
      BY EndValues DEF Sides
    <2> QED  BY <2>1, QueueTail
  <1>3. Others(e)
    BY <1>1, EndValues DEF Others, CbFunctions
  <1>4. EndTyped(e)'
    BY <1>1, EndValues DEF EndTyped
  <1>5. Waits(e)' = Waits(e)
    BY <1>1 DEF Waits
  <1>6. QueueFits(cbEv[e], cbX[e].owner, cbE[e].incr.on, cbXt[e] = "wait", Waits(e))'
    BY <1>1, <1>2, <1>5
  <1>7. cbRd'[e] # 0 => cbE'[e].clip \in Seq(Pieces(e))
    BY <1>1, EndValues DEF Sides
  <1>8. Waits(e) => ~F.incr.on /\ F.clip \in Seq(Pieces(CbOther(e)))
    BY EndValues DEF Sides
  <1>9. Sides(e)'
    BY <1>1, <1>5, <1>6, <1>7, <1>8, EndValues DEF Sides
  <1>10. NetFits(e)'
    BY <1>1, NetKept, EndValues
  <1> QED  BY <1>3, <1>4, <1>9, <1>10, OneEnd

LEMMA SelectionNotifyKeeps ==
  ASSUME CbInv, NEW e \in CbEnds, SelectionNotify(e)
  PROVE  CbInv'
  <1> DEFINE X == [cbX[e] EXCEPT !.prop = CbNoProp]
             p == cbX[e].prop
             t == Head(cbEv[e]).t
             F1 == [cbE[e] EXCEPT !.incr = [on |-> TRUE, target |-> t, buf |-> <<>>]]
  <1>0. /\ CbEvent(e, "notify") /\ t # CbTargets /\ CbHandled(e) /\ UNCHANGED <<cbAsk, cbXt, cbRd, cbPaste, cbLeft>>
        /\ cbX' = [cbX EXCEPT ![e] = X]
    BY DEF SelectionNotify
  <1>1. \/ UNCHANGED <<cbE, cbNet>>
        \/ cbE' = [cbE EXCEPT ![e] = F1] /\ UNCHANGED cbNet
        \/ SelectionReceiveData(e, cbE[e], p.text)
    BY DEF SelectionNotify
  <1>2. X \in Displays(e) /\ X.owner = cbX[e].owner
    BY PropFits
  <1>3. cbXt[e] = "loop" /\ cbEv[e] # <<>> /\ Head(cbEv[e]).k = "notify" /\ Text(Head(cbEv[e]))
    BY <1>0 DEF CbEvent, Text
  <1>4. ~Waits(e) /\ t \in 0..CbAtoms
    <2>1. QueueFits(cbEv[e], cbX[e].owner, cbE[e].incr.on, cbXt[e] = "wait", Waits(e))
      BY EndValues DEF Sides
    <2>2. (Waits(e) => ~Text(Head(cbEv[e]))) /\ Head(cbEv[e]) \in Events
      BY <1>3, <2>1, QueueTail
    <2> QED  BY <1>3, <2>2 DEF Events
  <1>5. cbE[e] \in Fields(e) /\ Becomes(cbE, cbE, e, cbE[e]) /\ Becomes(cbX', cbX, e, X)
    BY <1>0, Replaced, EndValues DEF EndTyped, CbFunctions
  <1>6. CASE UNCHANGED <<cbE, cbNet>>
    BY <1>0, <1>2, <1>3, <1>4, <1>5, <1>6, TextHandled, EndValues DEF CbFunctions
  <1>7. CASE cbE' = [cbE EXCEPT ![e] = F1] /\ UNCHANGED cbNet
    <2>1. F1 \in Fields(e) /\ F1.caps = cbE[e].caps /\ F1.clip = cbE[e].clip
      BY <1>4, EmptySeq, EndValues DEF EndTyped, Fields
    <2>2. Becomes(cbE', cbE, e, F1)
      BY <1>7, Replaced, EndValues DEF CbFunctions
    <2> HIDE DEF F1, X
    <2> QED  BY <1>0, <1>2, <1>3, <1>4, <1>5, <1>7, <2>1, <2>2, TextHandled, EndValues DEF CbFunctions
  <1>8. CASE SelectionReceiveData(e, cbE[e], p.text)
    <2>1. p.text \in Seq(Pieces(e))
      BY EndValues
    <2>2. /\ \E F \in Fields(e) : /\ Becomes(cbE', cbE, e, F) /\ F.caps = cbE[e].caps /\ F.incr = cbE[e].incr
                                  /\ F.clip = cbE[e].clip \/ F.clip \in Seq(Pieces(e))
          /\ DOMAIN cbNet' = CbEnds /\ cbNet'[e] = cbNet[e]
          /\ \A d \in CbEnds : d # e =>
               cbNet'[d] = cbNet[d] \/ \E n \in Messages(d) : n.op # "caps" /\ cbNet'[d] = Append(cbNet[d], n)
      BY <1>5, <1>8, <2>1, TextReceived
    <2>3. PICK F \in Fields(e) : /\ Becomes(cbE', cbE, e, F) /\ F.caps = cbE[e].caps /\ F.incr = cbE[e].incr
                                 /\ F.clip = cbE[e].clip \/ F.clip \in Seq(Pieces(e))
      BY <2>2
    <2> HIDE DEF X, p, t
    <2> QED  BY <1>0, <1>2, <1>3, <1>4, <1>5, <2>2, <2>3, TextHandled
  <1> QED  BY <1>1, <1>6, <1>7, <1>8

LEMMA CopyPropertyNotifyKeeps ==
  ASSUME CbInv, NEW e \in CbEnds, CopyPropertyNotify(e)
  PROVE  CbInv'
  <1> DEFINE X == [cbX[e] EXCEPT !.prop = CbNoProp]
             f == cbE[e]
             p == cbX[e].prop
             F1 == [f EXCEPT !.incr.buf = Joined(f.incr.buf, p.text)]
             g == [f EXCEPT !.incr.buf = <<>>]
  <1>0. CbEvent(e, "piece") /\ CbHandled(e) /\ UNCHANGED <<cbAsk, cbXt, cbRd, cbPaste, cbLeft>>
    BY DEF CopyPropertyNotify
  <1>1. \/ UNCHANGED <<cbX, cbE, cbNet>>
        \/ f.incr.on /\ cbX' = [cbX EXCEPT ![e] = X] /\ cbE' = [cbE EXCEPT ![e] = F1] /\ UNCHANGED cbNet
        \/ f.incr.on /\ cbX' = [cbX EXCEPT ![e] = X] /\ SelectionReceiveData(e, g, f.incr.buf)
    BY EndValues DEF CopyPropertyNotify, CbFunctions
  <1>2. X \in Displays(e) /\ X.owner = cbX[e].owner
    BY PropFits
  <1>3. cbXt[e] = "loop" /\ cbEv[e] # <<>> /\ Head(cbEv[e]).k = "piece"
    BY <1>0 DEF CbEvent
  <1>4. /\ f \in Fields(e) /\ Becomes(cbE, cbE, e, f) /\ cbX[e] \in Displays(e) /\ Becomes(cbX, cbX, e, cbX[e])
        /\ cbX' = [cbX EXCEPT ![e] = X] => Becomes(cbX', cbX, e, X)
    <2>1. DOMAIN cbE = CbEnds /\ DOMAIN cbX = CbEnds /\ f \in Fields(e) /\ cbX[e] \in Displays(e)
      BY EndValues DEF EndTyped, CbFunctions
    <2>2. Becomes(cbE, cbE, e, f)
      BY <2>1, Replaced
    <2>3. Becomes(cbX, cbX, e, cbX[e]) /\ Becomes([cbX EXCEPT ![e] = X], cbX, e, X)
      BY <2>1, Replaced
    <2> HIDE DEF X, f
    <2> QED  BY <2>1, <2>2, <2>3
  <1>5. f.incr.on => ~Waits(e)
    BY EndValues DEF Sides
  <1>6. CASE UNCHANGED <<cbX, cbE, cbNet>>
    BY <1>0, <1>3, <1>4, <1>6, TextHandled, EndValues DEF CbFunctions
  <1>7. CASE f.incr.on /\ cbX' = [cbX EXCEPT ![e] = X] /\ cbE' = [cbE EXCEPT ![e] = F1] /\ UNCHANGED cbNet
    <2>1. Joined(f.incr.buf, p.text) \in Seq(Pieces(e))
      BY EndValues, ConcatProperties DEF Joined
    <2>2. F1 \in Fields(e)
      BY <1>4, <2>1, IncrFits
    <2>3. F1.caps = f.caps /\ F1.clip = f.clip
      BY <1>4 DEF Fields
    <2>4. Becomes(cbE', cbE, e, F1)
      BY <1>7, Replaced, EndValues DEF CbFunctions
    <2> HIDE DEF F1, X
    <2> QED  BY <1>0, <1>2, <1>3, <1>4, <1>5, <2>4, <1>7, <2>2, <2>3, TextHandled, EndValues DEF CbFunctions
  <1>8. CASE f.incr.on /\ cbX' = [cbX EXCEPT ![e] = X] /\ SelectionReceiveData(e, g, f.incr.buf)
    <2>1. g \in Fields(e)
      BY <1>4, EmptySeq, IncrFits
    <2>2. g.caps = f.caps /\ g.clip = f.clip
      BY <1>4 DEF Fields
    <2> HIDE DEF g, X
    <2>3. /\ \E F \in Fields(e) : /\ Becomes(cbE', cbE, e, F) /\ F.caps = g.caps /\ F.incr = g.incr
                                  /\ F.clip = g.clip \/ F.clip \in Seq(Pieces(e))
          /\ DOMAIN cbNet' = CbEnds /\ cbNet'[e] = cbNet[e]
          /\ \A d \in CbEnds : d # e =>
               cbNet'[d] = cbNet[d] \/ \E n \in Messages(d) : n.op # "caps" /\ cbNet'[d] = Append(cbNet[d], n)
      BY <1>8, <2>1, TextReceived, EndValues
    <2>4. PICK F \in Fields(e) : /\ Becomes(cbE', cbE, e, F) /\ F.caps = g.caps /\ F.incr = g.incr
                                 /\ F.clip = g.clip \/ F.clip \in Seq(Pieces(e))
      BY <2>3
    <2> QED  BY <1>0, <1>2, <1>3, <1>4, <1>5, <1>8, <2>2, <2>3, <2>4, TextHandled
  <1> QED  BY <1>1, <1>6, <1>7, <1>8

-----------------------------------------------------------------------------
\* A request, or the "clear", is handled: only the program's paste changes.
LEMMA PasteHandled ==
  ASSUME CbInv, NEW e \in CbEnds, cbEv[e] # <<>>, CbHandled(e), Head(cbEv[e]).k \in {"request", "clear"},
         UNCHANGED <<cbX, cbAsk, cbE, cbRd, cbNet, cbLeft>>, Becomes(cbXt', cbXt, e, "loop"),
         NEW P \in Pastes(e), Becomes(cbPaste', cbPaste, e, P),
         cbE[e].caps => P.got \in Seq(Pieces(CbOther(e))),
         cbE[e].caps /\ P.st = "incr" => Waits(e) /\ Head(cbEv[e]).k # "clear",
         cbX[e].owner # "ltsm" /\ ~cbE[e].caps /\ cbPaste[e].st # "incr" /\ cbPaste[e].got = <<>> => P.st # "incr" /\ P.got = <<>>
  PROVE  CbInv'
  <1> DEFINE keep == cbE[e].caps /\ P.st = "incr"
  <1>1. /\ cbPaste'[e] = P /\ DOMAIN cbPaste' = CbEnds /\ \A d \in CbEnds : d # e => cbPaste'[d] = cbPaste[d]
        /\ cbXt'[e] = "loop" /\ DOMAIN cbXt' = CbEnds /\ \A d \in CbEnds : d # e => cbXt'[d] = cbXt[d]
        /\ cbEv'[e] = Tail(cbEv[e]) /\ DOMAIN cbEv' = CbEnds /\ \A d \in CbEnds : d # e => cbEv'[d] = cbEv[d]
    BY EndValues DEF CbHandled, CbFunctions, Becomes
  <1>2. QueueFits(Tail(cbEv[e]), cbX[e].owner, cbE[e].incr.on, FALSE, keep)
    <2>1. QueueFits(cbEv[e], cbX[e].owner, cbE[e].incr.on, cbXt[e] = "wait", Waits(e))
      BY EndValues DEF Sides
    <2> QED  BY <2>1, QueueTail
  <1>3. Others(e)
    BY <1>1, EndValues DEF Others, CbFunctions
  <1>4. EndTyped(e)'
    BY <1>1, EndValues DEF EndTyped
  <1>5. Waits(e)' = keep
    BY <1>1 DEF Waits
  <1>6. QueueFits(cbEv[e], cbX[e].owner, cbE[e].incr.on, cbXt[e] = "wait", Waits(e))'
    BY <1>1, <1>2, <1>5
  <1>7. Waits(e)' => ~cbE[e].incr.on /\ cbE[e].clip \in Seq(Pieces(CbOther(e)))
    BY <1>5, EndValues DEF Sides
  <1>8. Sides(e)'
    BY <1>1, <1>6, <1>7, EndValues DEF Sides
  <1>9. NetFits(e)'
    BY <1>1, NetKept, EndValues
  <1> QED  BY <1>3, <1>4, <1>8, <1>9, OneEnd

\* A refusal.
LEMMA Discarded ==
  ASSUME CbInv, NEW e \in CbEnds, cbEv[e] # <<>>, Head(cbEv[e]).k = "request", Discard(e),
         UNCHANGED <<cbX, cbAsk, cbE, cbRd, cbNet, cbLeft>>, Becomes(cbXt', cbXt, e, "loop")
  PROVE  CbInv'
  <1> DEFINE R == [cbPaste[e] EXCEPT !.st = "refused"]
  <1>1. cbPaste[e] \in Pastes(e) /\ DOMAIN cbPaste = CbEnds /\ CbHandled(e)
    BY EndValues DEF EndTyped, CbFunctions, Discard
  <1>2. R \in Pastes(e) /\ R.st = "refused" /\ R.got = cbPaste[e].got
    BY <1>1 DEF Pastes
  <1>3. cbPaste' = [cbPaste EXCEPT ![e] = R] \/ cbPaste' = cbPaste
    BY DEF Discard
  <1> HIDE DEF R
  <1>4. cbE[e].caps => cbPaste[e].got \in Seq(Pieces(CbOther(e)))
    BY EndValues DEF Sides
  <1>5. CASE cbPaste' = [cbPaste EXCEPT ![e] = R]
    <2>1. Becomes(cbPaste', cbPaste, e, R)
      BY <1>1, <1>5, Replaced
    <2> QED  BY <1>1, <1>2, <1>4, <2>1, PasteHandled
  <1>6. CASE cbPaste' = cbPaste
    <2>1. Becomes(cbPaste', cbPaste, e, cbPaste[e])
      BY <1>1, <1>6, Replaced
    <2>2. cbE[e].caps /\ cbPaste[e].st = "incr" => Waits(e) /\ Head(cbEv[e]).k # "clear"
      BY DEF Waits
    <2> QED  BY <1>1, <1>4, <2>1, <2>2, PasteHandled
  <1> QED  BY <1>3, <1>5, <1>6

\* The program is given the text.
LEMMA PutToProgram ==
  ASSUME CbInv, NEW e \in CbEnds, cbEv[e] # <<>>, Head(cbEv[e]).k = "request", NEW who, who # "self", NEW t, PutSelection(e, who, t),
         UNCHANGED <<cbAsk, cbE, cbRd, cbNet, cbLeft>>, Becomes(cbXt', cbXt, e, "loop"), cbX[e].owner = "ltsm" \/ cbXt[e] = "wait",
         cbE[e].caps => cbXt[e] = "wait"
  PROVE  CbInv'
  <1> DEFINE clip == cbE[e].clip
             P == IF Len(clip) > 1 THEN [st |-> "incr", got |-> <<>>] ELSE [st |-> "done", got |-> clip]
  <1>1. cbPaste' = [cbPaste EXCEPT ![e] = P] /\ CbHandled(e) /\ UNCHANGED cbX
    BY DEF PutSelection
  <1>2. cbE[e].caps => Waits(e) /\ clip \in Seq(Pieces(CbOther(e)))
    BY EndValues DEF Sides, Waits
  <1>3. clip \in Seq(Pieces(e) \union Pieces(CbOther(e)))
    <2>1. Pieces(e) \subseteq Pieces(e) \union Pieces(CbOther(e)) /\ Pieces(CbOther(e)) \subseteq Pieces(e) \union Pieces(CbOther(e))
      OBVIOUS
    <2> QED  BY <2>1, EndValues, SeqMonotonic
  <1> HIDE DEF clip
  <1>4. P \in Pastes(e) /\ (cbE[e].caps => P.got \in Seq(Pieces(CbOther(e))))
    BY <1>2, <1>3, EmptySeq DEF Pastes
  <1> HIDE DEF P
  <1>5. Becomes(cbPaste', cbPaste, e, P)
    BY <1>1, Replaced, EndValues DEF CbFunctions
  <1>6. cbX[e].owner # "ltsm" => cbE[e].caps
    BY EndValues DEF Sides
  <1> QED  BY <1>1, <1>2, <1>4, <1>5, <1>6, PasteHandled

\* The text is asked for.
LEMMA SourceReady ==
  ASSUME CbInv, NEW e \in CbEnds, cbXt[e] = "loop", cbEv[e] # <<>>, Paste(Head(cbEv[e])), cbE[e].caps, SelectionSourceReady(e),
         UNCHANGED <<cbX, cbAsk, cbEv, cbRd, cbPaste, cbLeft>>
  PROVE  CbInv'
  <1> DEFINE F == [cbE[e] EXCEPT !.clip = <<>>, !.provide = TRUE]
             m == CbMsg("request", <<>>)
  <1>1. F \in Fields(e) /\ F.caps = cbE[e].caps /\ F.clip = <<>> /\ F.incr = cbE[e].incr
    BY EmptySeq, EndValues DEF EndTyped, Fields
  <1>2. cbE' = [cbE EXCEPT ![e] = F] /\ cbXt' = [cbXt EXCEPT ![e] = "wait"] /\ (cbNet' = cbNet \/ CbTell(CbOther(e), m))
    BY EndValues DEF SelectionSourceReady, EndTyped, Fields
  <1>3. m \in Messages(CbOther(e)) /\ m.op # "caps"
    BY EmptySeq DEF Messages, CbMsg
  <1> HIDE DEF F, m
  <1>4. /\ cbE'[e] = F /\ DOMAIN cbE' = CbEnds /\ \A d \in CbEnds : d # e => cbE'[d] = cbE[d]
        /\ cbXt'[e] = "wait" /\ DOMAIN cbXt' = CbEnds /\ \A d \in CbEnds : d # e => cbXt'[d] = cbXt[d]
    BY <1>2, EndValues DEF CbFunctions
  <1>5. /\ DOMAIN cbNet' = CbEnds /\ cbNet'[e] = cbNet[e]
        /\ \A d \in CbEnds : d # e =>
              cbNet'[d] = cbNet[d] \/ \E n \in Messages(d) : n.op # "caps" /\ cbNet'[d] = Append(cbNet[d], n)
    BY <1>2, <1>3, Told, EndValues DEF CbFunctions
  <1>6. ~cbE[e].incr.on /\ QueueFits(cbEv[e], cbX[e].owner, cbE[e].incr.on, TRUE, TRUE)
    BY PasteFirst, EndValues DEF Sides, QueueFits
  <1>7. Others(e)
    BY <1>4, <1>5, EndValues DEF Others, CbFunctions
  <1>8. EndTyped(e)'
    BY <1>1, <1>4, EndValues DEF EndTyped
  <1>9. Waits(e)'
    BY <1>1, <1>4 DEF Waits
  <1>10. QueueFits(cbEv[e], cbX[e].owner, cbE[e].incr.on, cbXt[e] = "wait", Waits(e))'
    BY <1>1, <1>4, <1>6, <1>9 DEF QueueFits
  <1>11. Sides(e)'
    BY <1>1, <1>4, <1>6, <1>9, <1>10, EmptySeq, EndValues DEF Sides
  <1>12. NetFits(e)'
    BY <1>1, <1>4, <1>5, NetKept, EndValues
  <1> QED  BY <1>7, <1>8, <1>11, <1>12, OneEnd

LEMMA SelectionRequestKeeps ==
  ASSUME CbInv, NEW e \in CbEnds, SelectionRequest(e)
  PROVE  CbInv'
  <1> DEFINE r == Head(cbEv[e])
  <1>1. cbXt[e] = "loop" /\ cbEv[e] # <<>> /\ r.k = "request" /\ UNCHANGED <<cbAsk, cbRd, cbLeft>>
    BY DEF SelectionRequest, CbEvent
  <1>2. r \in Events /\ (r.who = "prog" => r.t # CbTargets) /\ r.who \in {"self", "prog"}
    <2>1. r \in Events
      BY <1>1, EndValues, HeadTailProperties
    <2> QED  BY <2>1 DEF Events
  <1>3. Becomes(cbXt, cbXt, e, "loop")
    <2>1. DOMAIN cbXt = CbEnds
      BY EndValues DEF CbFunctions
    <2> QED  BY <1>1, <2>1 DEF Becomes
  <1>4. CASE Discard(e) /\ UNCHANGED <<cbX, cbE, cbNet, cbXt>>
    BY <1>1, <1>3, <1>4, Discarded
  <1>5. CASE /\ ~Discard(e) \/ ~UNCHANGED <<cbX, cbE, cbNet, cbXt>>
    <2>1. ~Skipped(r.who) /\ cbX[e].owner = "ltsm"
      BY <1>5 DEF SelectionRequest
    <2>2. r.who = "prog" /\ r.t # CbTargets
      BY <1>2, <2>1 DEF Skipped
    <2>3. CASE cbE[e].caps
      <3>1. SelectionSourceReady(e) /\ UNCHANGED <<cbX, cbPaste, cbEv>>
        BY <1>5, <2>1, <2>2, <2>3 DEF SelectionRequest
      <3> QED  BY <1>1, <2>2, <2>3, <3>1, SourceReady DEF Paste
    <2>4. CASE ~cbE[e].caps
      <3>1. PutSelection(e, r.who, r.t) /\ UNCHANGED <<cbE, cbNet, cbXt>>
        BY <1>5, <2>1, <2>2, <2>4 DEF SelectionRequest
      <3>2. r.who # "self"
        BY <2>2
      <3> HIDE DEF r
      <3> QED  BY <1>1, <1>3, <2>1, <2>4, <3>1, <3>2, PutToProgram DEF r
    <2> QED  BY <2>3, <2>4
  <1> QED  BY <1>4, <1>5

LEMMA SelectionSourceWaitedKeeps ==
  ASSUME CbInv, NEW e \in CbEnds, SelectionSourceWaited(e)
  PROVE  CbInv'
  <1> DEFINE r == Head(cbEv[e])
  <1>1. cbXt[e] = "wait" /\ UNCHANGED <<cbAsk, cbE, cbRd, cbNet, cbLeft>> /\ cbXt' = [cbXt EXCEPT ![e] = "loop"]
    BY DEF SelectionSourceWaited
  <1>2. cbEv[e] # <<>> /\ r.k = "request" /\ r.who # "self"
    BY <1>1, EndValues DEF Sides, QueueFits, Paste
  <1>3. Becomes(cbXt', cbXt, e, "loop")
    BY <1>1, Replaced, EndValues DEF CbFunctions
  <1>4. PutSelection(e, r.who, r.t) \/ (Discard(e) /\ UNCHANGED cbX)
    BY DEF SelectionSourceWaited
  <1>5. CASE PutSelection(e, r.who, r.t)
    BY <1>1, <1>2, <1>3, <1>5, PutToProgram
  <1>6. CASE Discard(e) /\ UNCHANGED cbX
    BY <1>1, <1>2, <1>3, <1>6, Discarded
  <1> QED  BY <1>4, <1>5, <1>6

LEMMA SelectionClearKeeps ==
  ASSUME CbInv, NEW e \in CbEnds, SelectionClear(e)
  PROVE  CbInv'
  <1> DEFINE P == IF cbPaste[e].st = "incr" THEN [cbPaste[e] EXCEPT !.st = "refused"] ELSE cbPaste[e]
  <1>1. /\ cbXt[e] = "loop" /\ cbEv[e] # <<>> /\ Head(cbEv[e]).k = "clear" /\ CbHandled(e)
        /\ UNCHANGED <<cbX, cbAsk, cbE, cbXt, cbRd, cbNet, cbLeft>>
    BY DEF SelectionClear, CbEvent
  <1>2. P \in Pastes(e) /\ P.st # "incr" /\ P.got = cbPaste[e].got
    BY EndValues DEF EndTyped, Pastes
  <1>3. cbPaste' = [cbPaste EXCEPT ![e] = P] \/ (cbPaste' = cbPaste /\ P = cbPaste[e])
    BY DEF SelectionClear
  <1> HIDE DEF P
  <1>4. Becomes(cbPaste', cbPaste, e, P) /\ Becomes(cbXt', cbXt, e, "loop")
    <2>1. DOMAIN cbXt = CbEnds /\ DOMAIN cbPaste = CbEnds
      BY EndValues DEF CbFunctions
    <2>2. Becomes(cbPaste', cbPaste, e, P)
      BY <1>3, <2>1, Replaced
    <2> QED  BY <1>1, <2>1, <2>2 DEF Becomes
  <1>5. cbE[e].caps => P.got \in Seq(Pieces(CbOther(e)))
    BY <1>2, EndValues DEF Sides
  <1> QED  BY <1>1, <1>2, <1>4, <1>5, PasteHandled

LEMMA PastePropertyNotifyKeeps ==
  ASSUME CbInv, NEW e \in CbEnds, PastePropertyNotify(e)
  PROVE  CbInv'
  <1> DEFINE clip == cbE[e].clip
             p == cbPaste[e]
             off == Len(p.got)
             P == IF clip = <<>> \/ off = Len(clip) THEN [p EXCEPT !.st = "done"]
                  ELSE IF off > Len(clip) THEN [p EXCEPT !.st = "refused"]
                  ELSE [p EXCEPT !.got = Append(p.got, clip[off + 1])]
  <1>1. cbXt[e] = "loop" /\ p.st = "incr" /\ UNCHANGED <<cbX, cbAsk, cbEv, cbE, cbXt, cbRd, cbNet, cbLeft>>
    BY DEF PastePropertyNotify
  <1>2. cbPaste' = [cbPaste EXCEPT ![e] = P]
    <2>1. CASE clip = <<>> \/ off = Len(clip)
      BY <2>1 DEF PastePropertyNotify
    <2>2. CASE ~(clip = <<>> \/ off = Len(clip)) /\ off > Len(clip)
      BY <2>2 DEF PastePropertyNotify
    <2>3. CASE ~(clip = <<>> \/ off = Len(clip)) /\ ~(off > Len(clip))
      BY <2>3 DEF PastePropertyNotify
    <2> QED  BY <2>1, <2>2, <2>3
  <1>3. cbE[e].caps => clip \in Seq(Pieces(CbOther(e))) /\ p.got \in Seq(Pieces(CbOther(e)))
    BY <1>1, EndValues DEF Sides, Waits
  <1>4. clip \in Seq(Pieces(e) \union Pieces(CbOther(e)))
    <2>1. Pieces(e) \subseteq Pieces(e) \union Pieces(CbOther(e)) /\ Pieces(CbOther(e)) \subseteq Pieces(e) \union Pieces(CbOther(e))
      OBVIOUS
    <2> QED  BY <2>1, EndValues, SeqMonotonic
  <1>5. p \in Pastes(e) /\ p.got \in Seq(Pieces(e) \union Pieces(CbOther(e)))
    BY EndValues DEF EndTyped
  <1> HIDE DEF clip, p
  <1>6. P \in Pastes(e) /\ (cbE[e].caps => P.got \in Seq(Pieces(CbOther(e))))
    <2>1. CASE clip = <<>> \/ off = Len(clip) \/ off > Len(clip)
      BY <1>3, <1>5, <2>1 DEF Pastes
    <2>2. CASE ~(clip = <<>> \/ off = Len(clip) \/ off > Len(clip))
      <3>1. off + 1 \in 1..Len(clip)
        <4>1. off \in Nat /\ Len(clip) \in Nat
          BY <1>4, <1>5, LenProperties
        <4> QED  BY <2>2, <4>1
      <3> DEFINE g == Append(p.got, clip[off + 1])
      <3>2. g \in Seq(Pieces(e) \union Pieces(CbOther(e)))
        BY <1>4, <1>5, <3>1, ElementOfSeq, AppendProperties
      <3>3. cbE[e].caps => g \in Seq(Pieces(CbOther(e)))
        BY <1>3, <3>1, ElementOfSeq, AppendProperties
      <3>4. P = [p EXCEPT !.got = g]
        BY <2>2
      <3> HIDE DEF g, P
      <3> QED  BY <1>5, <3>2, <3>3, <3>4 DEF Pastes
    <2> QED  BY <2>1, <2>2
  <1> HIDE DEF P
  <1>7. cbPaste'[e] = P /\ DOMAIN cbPaste' = CbEnds /\ \A d \in CbEnds : d # e => cbPaste'[d] = cbPaste[d]
    BY <1>2, EndValues DEF CbFunctions
  <1>8. Others(e)
    BY <1>1, <1>7, EndValues DEF Others, CbFunctions
  <1>9. EndTyped(e)'
    BY <1>1, <1>6, <1>7, EndValues DEF EndTyped
  <1>10. Sides(e)'
    <2>1. Waits(e)' => Waits(e)
      BY <1>1 DEF Waits, p
    <2>2. QueueFits(cbEv[e], cbX[e].owner, cbE[e].incr.on, cbXt[e] = "wait", Waits(e))'
      BY <1>1, <2>1, EndValues DEF Sides, QueueFits
    <2> QED  BY <1>1, <1>6, <1>7, <2>1, <2>2, EndValues DEF Sides
  <1>11. NetFits(e)'
    BY <1>1, NetKept, EndValues DEF p
  <1> QED  BY <1>8, <1>9, <1>10, <1>11, OneEnd

-----------------------------------------------------------------------------
\* A message that leaves the fields, or brings the peer's text.
LEMMA MessageTaken ==
  ASSUME CbInv, NEW e \in CbEnds, cbRd[e] = 0, cbNet[e] # <<>>, CbTaken(e), UNCHANGED <<cbXt, cbRd, cbPaste, cbLeft>>,
         NEW F \in Fields(e), Becomes(cbE', cbE, e, F), F.caps = cbE[e].caps, F.incr = cbE[e].incr,
         F.clip = cbE[e].clip \/ F.clip \in Seq(Pieces(CbOther(e))),
         NEW X \in Displays(e), Becomes(cbX', cbX, e, X),
         NEW A \in Seq(0..CbAtoms), Becomes(cbAsk', cbAsk, e, A), A # <<>> => X.owner = "prog",
         NEW q, Becomes(cbEv', cbEv, e, q), QueueFits(q, X.owner, cbE[e].incr.on, cbXt[e] = "wait", Waits(e))
  PROVE  CbInv'
  <1>1. /\ cbE'[e] = F /\ DOMAIN cbE' = CbEnds /\ \A d \in CbEnds : d # e => cbE'[d] = cbE[d]
        /\ cbX'[e] = X /\ DOMAIN cbX' = CbEnds /\ \A d \in CbEnds : d # e => cbX'[d] = cbX[d]
        /\ cbAsk'[e] = A /\ DOMAIN cbAsk' = CbEnds /\ \A d \in CbEnds : d # e => cbAsk'[d] = cbAsk[d]
        /\ cbEv'[e] = q /\ DOMAIN cbEv' = CbEnds /\ \A d \in CbEnds : d # e => cbEv'[d] = cbEv[d]
    BY DEF Becomes
  <1>2. cbNet'[e] = Tail(cbNet[e]) /\ DOMAIN cbNet' = CbEnds /\ \A d \in CbEnds : d # e => cbNet'[d] = cbNet[d]
    BY EndValues DEF CbTaken, CbFunctions
  <1>3. Others(e)
    BY <1>1, <1>2, EndValues DEF Others, CbFunctions
  <1>4. EndTyped(e)'
    BY <1>1, EndValues DEF EndTyped
  <1>5. Waits(e)' = Waits(e)
    BY <1>1 DEF Waits
  <1>6. QueueFits(cbEv[e], cbX[e].owner, cbE[e].incr.on, cbXt[e] = "wait", Waits(e))'
    BY <1>1, <1>5
  <1>7. Waits(e) => ~F.incr.on /\ F.clip \in Seq(Pieces(CbOther(e)))
    BY EndValues DEF Sides
  <1>8. Sides(e)'
    BY <1>1, <1>5, <1>6, <1>7, EndValues DEF Sides
  <1>9. NetFits(e)'
    BY <1>2, NetTaken, EndValues
  <1> QED  BY <1>3, <1>4, <1>8, <1>9, OneEnd

\* With it our paste window takes the selection.
LEMMA OwnerTaken ==
  ASSUME CbInv, NEW e \in CbEnds, cbRd[e] = 0, cbNet[e] # <<>>, CbTaken(e), UNCHANGED <<cbXt, cbRd, cbPaste, cbLeft>>,
         NEW F \in Fields(e), Becomes(cbE', cbE, e, F), F.caps = cbE[e].caps, F.incr = cbE[e].incr,
         F.clip = cbE[e].clip \/ F.clip \in Seq(Pieces(CbOther(e))), SetSelectionOwner(e)
  PROVE  CbInv'
  <1> DEFINE X == [cbX[e] EXCEPT !.owner = "ltsm", !.text = <<>>]
             v == [k |-> "owner", t |-> 0, who |-> "self"]
             q == Append(cbEv[e], v)
             A == <<>>
  <1>1. X \in Displays(e) /\ X.owner = "ltsm"
    BY EmptySeq, EndValues DEF EndTyped, Displays
  <1>2. cbX' = [cbX EXCEPT ![e] = X] /\ cbAsk' = [cbAsk EXCEPT ![e] = A] /\ cbEv' = [cbEv EXCEPT ![e] = q]
    BY EndValues DEF SetSelectionOwner, EndTyped, Displays, CbFunctions
  <1>3. v \in Events /\ ~Text(v) /\ ~Paste(v) /\ v.k = "owner"
    BY CbAssumption DEF Events, Text, Paste
  <1> HIDE DEF X, v
  <1>4. QueueFits(q, X.owner, cbE[e].incr.on, cbXt[e] = "wait", Waits(e))
    <2>1. QueueFits(cbEv[e], cbX[e].owner, cbE[e].incr.on, cbXt[e] = "wait", Waits(e))
      BY EndValues DEF Sides
    <2> QED  BY <1>1, <1>3, <2>1, QueueAppend
  <1>5. A \in Seq(0..CbAtoms)
    BY EmptySeq
  <1> HIDE DEF q
  <1>6. Becomes(cbX', cbX, e, X) /\ Becomes(cbAsk', cbAsk, e, A) /\ Becomes(cbEv', cbEv, e, q)
    <2>1. DOMAIN cbX = CbEnds /\ DOMAIN cbAsk = CbEnds /\ DOMAIN cbEv = CbEnds
      BY EndValues DEF CbFunctions
    <2> HIDE DEF A
    <2> QED  BY <1>2, <2>1, Replaced
  <1> QED  BY <1>1, <1>4, <1>5, <1>6, MessageTaken

LEMMA RecvCutTextKeeps ==
  ASSUME CbInv, NEW e \in CbEnds, RecvCutText(e)
  PROVE  CbInv'
  <1> DEFINE text == Head(cbNet[e]).text
             F == [cbE[e] EXCEPT !.clip = text]
  <1>1. cbRd[e] = 0 /\ cbNet[e] # <<>> /\ CbTaken(e) /\ UNCHANGED <<cbXt, cbRd, cbPaste, cbLeft>> /\ SetSelectionOwner(e)
        /\ cbE' = [cbE EXCEPT ![e] = F]
    BY DEF RecvCutText, CbTakes
  <1>2. text \in Seq(Pieces(CbOther(e)))
    <2>1. Head(cbNet[e]) \in Messages(e)
      BY <1>1, EndValues, HeadTailProperties DEF NetFits
    <2> QED  BY <2>1 DEF Messages
  <1> HIDE DEF text
  <1>3. F \in Fields(e) /\ F.caps = cbE[e].caps /\ F.incr = cbE[e].incr /\ F.clip = text
    BY <1>2, EndValues DEF EndTyped, Fields
  <1> HIDE DEF F
  <1>4. Becomes(cbE', cbE, e, F)
    BY <1>1, Replaced, EndValues DEF CbFunctions
  <1> QED  BY <1>1, <1>2, <1>3, <1>4, OwnerTaken

LEMMA RecvExtClipboardNotifyKeeps ==
  ASSUME CbInv, NEW e \in CbEnds, RecvExtClipboardNotify(e)
  PROVE  CbInv'
  <1> DEFINE F == [cbE[e] EXCEPT !.remote = (Head(cbNet[e]).op = "notify")]
  <1>1. cbRd[e] = 0 /\ cbNet[e] # <<>> /\ CbTaken(e) /\ UNCHANGED <<cbXt, cbRd, cbPaste, cbLeft>> /\ SetSelectionOwner(e)
        /\ cbE' = [cbE EXCEPT ![e] = F]
    BY DEF RecvExtClipboardNotify, CbTakes
  <1>2. F \in Fields(e) /\ F.caps = cbE[e].caps /\ F.incr = cbE[e].incr /\ F.clip = cbE[e].clip
    BY EndValues DEF EndTyped, Fields
  <1> HIDE DEF F
  <1>3. Becomes(cbE', cbE, e, F)
    BY <1>1, Replaced, EndValues DEF CbFunctions
  <1> QED  BY <1>1, <1>2, <1>3, OwnerTaken

\* A message that changes nothing but the fields.
LEMMA FieldsTaken ==
  ASSUME CbInv, NEW e \in CbEnds, cbRd[e] = 0, cbNet[e] # <<>>, CbTaken(e), UNCHANGED <<cbX, cbAsk, cbEv, cbXt, cbRd, cbPaste, cbLeft>>,
         NEW F \in Fields(e), Becomes(cbE', cbE, e, F), F.caps = cbE[e].caps, F.incr = cbE[e].incr,
         F.clip = cbE[e].clip \/ F.clip \in Seq(Pieces(CbOther(e)))
  PROVE  CbInv'
  <1>1. cbX[e] \in Displays(e) /\ cbAsk[e] \in Seq(0..CbAtoms) /\ (cbAsk[e] # <<>> => cbX[e].owner = "prog")
    BY EndValues DEF EndTyped, Sides
  <1>2. Becomes(cbX', cbX, e, cbX[e]) /\ Becomes(cbAsk', cbAsk, e, cbAsk[e]) /\ Becomes(cbEv', cbEv, e, cbEv[e])
    BY EndValues DEF CbFunctions, Becomes
  <1>3. QueueFits(cbEv[e], cbX[e].owner, cbE[e].incr.on, cbXt[e] = "wait", Waits(e))
    BY EndValues DEF Sides
  <1>4. UNCHANGED <<cbXt, cbRd, cbPaste, cbLeft>>
    OBVIOUS
  <1> QED  BY <1>1, <1>2, <1>3, <1>4, MessageTaken

LEMMA RecvExtClipboardProvideKeeps ==
  ASSUME CbInv, NEW e \in CbEnds, RecvExtClipboardProvide(e)
  PROVE  CbInv'
  <1> DEFINE text == Head(cbNet[e]).text
             F == IF cbE[e].provide THEN [cbE[e] EXCEPT !.clip = text, !.provide = FALSE] ELSE cbE[e]
  <1>1. cbRd[e] = 0 /\ cbNet[e] # <<>> /\ CbTaken(e) /\ UNCHANGED <<cbX, cbAsk, cbEv, cbXt, cbRd, cbPaste, cbLeft>>
    BY DEF RecvExtClipboardProvide, CbTakes
  <1>2. text \in Seq(Pieces(CbOther(e)))
    <2>1. Head(cbNet[e]) \in Messages(e)
      BY <1>1, EndValues, HeadTailProperties DEF NetFits
    <2> QED  BY <2>1 DEF Messages
  <1>3. (cbE' = [cbE EXCEPT ![e] = F]) \/ (cbE' = cbE /\ F = cbE[e])
    BY EndValues DEF RecvExtClipboardProvide, EndTyped, Fields
  <1> HIDE DEF text
  <1>4. F \in Fields(e) /\ F.caps = cbE[e].caps /\ F.incr = cbE[e].incr /\ (F.clip = cbE[e].clip \/ F.clip = text)
    BY <1>2, EndValues DEF EndTyped, Fields
  <1> HIDE DEF F
  <1>5. Becomes(cbE', cbE, e, F)
    <2>1. DOMAIN cbE = CbEnds
      BY EndValues DEF CbFunctions
    <2> QED  BY <1>3, <2>1, Replaced
  <1> QED  BY <1>1, <1>2, <1>4, <1>5, FieldsTaken

LEMMA RecvExtClipboardInvalidKeeps ==
  ASSUME CbInv, NEW e \in CbEnds, RecvExtClipboardInvalid(e)
  PROVE  CbInv'
  <1>1. cbRd[e] = 0 /\ cbNet[e] # <<>> /\ CbTaken(e) /\ UNCHANGED <<cbX, cbAsk, cbEv, cbXt, cbRd, cbPaste, cbLeft>> /\ cbE' = cbE
    BY DEF RecvExtClipboardInvalid, CbTakes
  <1>2. cbE[e] \in Fields(e) /\ Becomes(cbE', cbE, e, cbE[e])
    BY <1>1, EndValues DEF EndTyped, Becomes, CbFunctions
  <1> QED  BY <1>1, <1>2, FieldsTaken

LEMMA RecvExtClipboardCapsKeeps ==
  ASSUME CbInv, NEW e \in CbEnds, RecvExtClipboardCaps(e)
  PROVE  CbInv'
  <1> DEFINE F == [cbE[e] EXCEPT !.caps = TRUE]
  <1>1. /\ cbRd[e] = 0 /\ cbNet[e] # <<>> /\ CbTaken(e) /\ UNCHANGED <<cbX, cbAsk, cbEv, cbXt, cbRd, cbPaste, cbLeft>>
        /\ cbE' = [cbE EXCEPT ![e] = F] /\ Head(cbNet[e]).op = "caps"
    BY DEF RecvExtClipboardCaps, CbTakes
  <1>2. cbXt[e] = "loop" /\ cbPaste[e].st # "incr" /\ cbPaste[e].got = <<>>
    <2>1. 1 \in 1..Len(cbNet[e]) /\ Head(cbNet[e]) = cbNet[e][1]
      BY <1>1, EndValues, LenProperties, EmptySeq DEF NetFits
    <2> QED  BY <1>1, <2>1, EndValues DEF NetFits
  <1>3. F \in Fields(e) /\ F.clip = cbE[e].clip /\ F.incr = cbE[e].incr
    BY EndValues DEF EndTyped, Fields
  <1> HIDE DEF F
  <1>4. /\ cbE'[e] = F /\ DOMAIN cbE' = CbEnds /\ \A d \in CbEnds : d # e => cbE'[d] = cbE[d]
        /\ cbNet'[e] = Tail(cbNet[e]) /\ DOMAIN cbNet' = CbEnds /\ \A d \in CbEnds : d # e => cbNet'[d] = cbNet[d]
    BY <1>1, EndValues DEF CbTaken, CbFunctions
  <1>5. Others(e)
    BY <1>1, <1>4, EndValues DEF Others, CbFunctions
  <1>6. EndTyped(e)'
    BY <1>1, <1>3, <1>4, EndValues DEF EndTyped
  <1>7. ~Waits(e)'
    BY <1>1, <1>2 DEF Waits
  <1>8. QueueFits(cbEv[e], cbX[e].owner, cbE[e].incr.on, cbXt[e] = "wait", Waits(e))'
    BY <1>1, <1>2, <1>3, <1>4, <1>7, EndValues DEF Sides, QueueFits
  <1>9. Sides(e)'
    <2>1. cbPaste'[e].got \in Seq(Pieces(CbOther(e))) /\ cbXt'[e] # "wait" /\ cbRd'[e] = 0
      BY <1>1, <1>2, EmptySeq
    <2>2. cbAsk'[e] # <<>> => cbX'[e].owner = "prog"
      BY <1>1, EndValues DEF Sides
    <2> QED  BY <1>7, <1>8, <2>1, <2>2 DEF Sides
  <1>10. NetFits(e)'
    BY <1>1, <1>4, NetTaken, EndValues
  <1> QED  BY <1>5, <1>6, <1>9, <1>10, OneEnd

-----------------------------------------------------------------------------
\* The reading thread converts the own selection.
LEMMA LocalDataKeeps ==
  ASSUME CbInv, NEW e \in CbEnds, NEW a \in 0..CbAtoms, LocalDataAtom(e, a), UNCHANGED <<cbX, cbXt, cbPaste, cbLeft>>,
         UNCHANGED cbNet \/ (cbNet[e] # <<>> /\ CbTaken(e))
  PROVE  CbInv'
  <1> DEFINE f == [cbE[e] EXCEPT !.clip = <<>>]
             q == SelfRequest(e, f, a, cbEv[e])
  <1>1. ConvertSelection(e, f, a) /\ cbEv' = [cbEv EXCEPT ![e] = q] /\ cbRd' = [cbRd EXCEPT ![e] = a]
    BY EndValues DEF LocalDataAtom, CbFunctions
  <1>2. f \in Fields(e) /\ f.caps = cbE[e].caps /\ f.clip = <<>> /\ f.incr = cbE[e].incr
    BY EmptySeq, EndValues DEF EndTyped, Fields
  <1> HIDE DEF f
  <1>3. /\ DOMAIN cbE' = CbEnds /\ \A d \in CbEnds : d # e => cbE'[d] = cbE[d]
        /\ DOMAIN cbAsk' = CbEnds /\ \A d \in CbEnds : d # e => cbAsk'[d] = cbAsk[d]
        /\ cbE'[e] \in Fields(e) /\ cbE'[e].caps = cbE[e].caps /\ (cbE'[e].incr.on => cbE[e].incr.on)
        /\ cbE'[e].clip \in Seq(Pieces(e))
        /\ Waits(e) => ~cbE'[e].incr.on /\ cbE'[e].clip \in Seq(Pieces(CbOther(e)))
        /\ cbAsk'[e] \in Seq(0..CbAtoms) /\ (cbAsk'[e] # <<>> => cbX[e].owner = "prog")
    BY <1>1, <1>2, ConvertedSides
  <1>4. QueueFits(q, cbX[e].owner, cbE'[e].incr.on, cbXt[e] = "wait", Waits(e))
    <2>1. QueueFits(cbEv[e], cbX[e].owner, cbE[e].incr.on, cbXt[e] = "wait", Waits(e))
      BY EndValues DEF Sides
    <2>2. QueueFits(cbEv[e], cbX[e].owner, cbE'[e].incr.on, cbXt[e] = "wait", Waits(e))
      BY <1>3, <2>1, OrderedOff DEF QueueFits
    <2> QED  BY <2>2, SelfRequested
  <1> HIDE DEF q
  <1>5. /\ cbEv'[e] = q /\ DOMAIN cbEv' = CbEnds /\ \A d \in CbEnds : d # e => cbEv'[d] = cbEv[d]
        /\ cbRd'[e] = a /\ DOMAIN cbRd' = CbEnds /\ \A d \in CbEnds : d # e => cbRd'[d] = cbRd[d]
        /\ DOMAIN cbNet' = CbEnds /\ \A d \in CbEnds : d # e => cbNet'[d] = cbNet[d]
    BY <1>1, EndValues DEF CbTaken, CbFunctions
  <1>6. Others(e)
    BY <1>3, <1>5, EndValues DEF Others, CbFunctions
  <1>7. EndTyped(e)'
    BY <1>3, <1>5, EndValues DEF EndTyped
  <1>8. Waits(e)' = Waits(e)
    BY <1>3 DEF Waits
  <1>9. QueueFits(cbEv[e], cbX[e].owner, cbE[e].incr.on, cbXt[e] = "wait", Waits(e))'
    BY <1>4, <1>5, <1>8
  <1>10. Sides(e)'
    BY <1>3, <1>5, <1>8, <1>9, EndValues DEF Sides
  <1>11. NetFits(e)'
    <2>1. CASE UNCHANGED cbNet
      BY <1>3, <2>1, NetKept, EndValues
    <2>2. CASE cbNet[e] # <<>> /\ CbTaken(e)
      <3>1. cbNet'[e] = Tail(cbNet[e])
        BY <2>2, EndValues DEF CbTaken, CbFunctions
      <3> QED  BY <2>2, <3>1, NetTaken, EndValues
    <2> QED  BY <2>1, <2>2
  <1> QED  BY <1>6, <1>7, <1>10, <1>11, OneEnd

LEMMA RecvExtClipboardRequestKeeps ==
  ASSUME CbInv, NEW e \in CbEnds, RecvExtClipboardRequest(e)
  PROVE  CbInv'
  <1>1. 1 \in 0..CbAtoms
    BY CbAssumption
  <1>2. cbNet[e] # <<>> /\ CbTaken(e) /\ LocalDataAtom(e, 1) /\ UNCHANGED <<cbX, cbXt, cbPaste, cbLeft>>
    BY DEF RecvExtClipboardRequest, CbTakes
  <1> QED  BY <1>1, <1>2, LocalDataKeeps

LEMMA LocalDataWaitedKeeps ==
  ASSUME CbInv, NEW e \in CbEnds, LocalDataWaited(e)
  PROVE  CbInv'
  <1>0. cbRd[e] # 0 /\ UNCHANGED <<cbX, cbXt, cbPaste, cbLeft>>
    BY DEF LocalDataWaited
  <1>1. cbRd[e] \in 0..CbAtoms /\ cbE[e].clip \in Seq(Pieces(e)) /\ <<>> \in Seq(Pieces(e))
    BY <1>0, EmptySeq, EndValues DEF EndTyped, Sides
  <1>2. CASE MoreAtoms(cbRd[e]) /\ LocalDataAtom(e, cbRd[e] + 1) /\ UNCHANGED cbNet
    <2>1. cbRd[e] + 1 \in 0..CbAtoms
      BY <1>1, <1>2, CbAssumption DEF MoreAtoms
    <2> QED  BY <1>0, <1>2, <2>1, LocalDataKeeps
  <1>3. ASSUME NEW text \in Seq(Pieces(e)), cbRd' = [cbRd EXCEPT ![e] = 0], CbTell(CbOther(e), SendExtClipboardProvide(e, text)),
               UNCHANGED <<cbE, cbAsk, cbEv>>
        PROVE  CbInv'
    <2> DEFINE m == SendExtClipboardProvide(e, text)
    <2>1. m \in Messages(CbOther(e)) /\ m.op # "caps"
      <3>1. CbOther(CbOther(e)) = e
        BY DEF CbOther, CbEnds
      <3> QED  BY <3>1 DEF Messages, CbMsg, SendExtClipboardProvide
    <2> HIDE DEF m
    <2>2. /\ DOMAIN cbNet' = CbEnds /\ cbNet'[e] = cbNet[e]
          /\ \A d \in CbEnds : d # e => \E n \in Messages(d) : n.op # "caps" /\ cbNet'[d] = Append(cbNet[d], n)
      BY <1>3, <2>1, Told DEF m
    <2>3. cbRd'[e] = 0 /\ DOMAIN cbRd' = CbEnds /\ \A d \in CbEnds : d # e => cbRd'[d] = cbRd[d]
      BY <1>3, EndValues DEF CbFunctions
    <2>4. Others(e)
      BY <1>0, <1>3, <2>2, <2>3, EndValues DEF Others, CbFunctions
    <2>5. EndTyped(e)'
      <3>1. 0 \in 0..CbAtoms
        BY CbAssumption
      <3> QED  BY <1>0, <1>3, <2>3, <3>1, EndValues DEF EndTyped
    <2>6. Sides(e)'
      BY <1>0, <1>3, <2>3, EndValues DEF Sides, Waits
    <2>7. NetFits(e)'
      BY <1>0, <1>3, <2>2, NetKept, EndValues
    <2> QED  BY <2>4, <2>5, <2>6, <2>7, OneEnd
  <1> QED  BY <1>1, <1>2, <1>3 DEF LocalDataWaited

-----------------------------------------------------------------------------
LEMMA CbInvInit == CbInit => CbInv
  <1> SUFFICES ASSUME CbInit PROVE CbInv
    OBVIOUS
  <1>1. PICK ext \in CbExtended :
            /\ cbE = [e \in CbEnds |-> [caps |-> ext /\ e = "srv", clip |-> <<>>, local |-> FALSE, remote |-> FALSE,
                                        provide |-> FALSE, target |-> CbTargets,
                                        incr |-> [on |-> FALSE, target |-> 0, buf |-> <<>>]]]
            /\ cbNet = [e \in CbEnds |-> IF ext /\ e = "cli" THEN <<CbMsg("caps", <<>>)>> ELSE <<>>]
    BY DEF CbInit
  <1>2. CbFunctions
    BY <1>1 DEF CbInit, CbFunctions
  <1>3. ASSUME NEW e \in CbEnds PROVE EndTyped(e)
    <2>1. cbX[e] \in Displays(e) /\ cbPaste[e] \in Pastes(e)
      BY EmptySeq DEF CbInit, Displays, Pastes, CbNoProp
    <2>2. cbE[e] \in Fields(e)
      <3>1. CbTargets \in 0..CbAtoms /\ 0 \in 0..CbAtoms
        BY CbAssumption DEF CbTargets
      <3> QED  BY <1>1, <3>1, EmptySeq DEF Fields
    <2>3. cbAsk[e] \in Seq(0..CbAtoms) /\ cbXt[e] \in {"loop", "wait"} /\ cbRd[e] \in 0..CbAtoms
      BY CbAssumption, EmptySeq DEF CbInit
    <2> QED  BY <2>1, <2>2, <2>3 DEF EndTyped
  <1>4. ASSUME NEW e \in CbEnds PROVE Sides(e)
    <2>1. cbX[e].owner = "none" /\ cbXt[e] = "loop" /\ cbPaste[e].st = "idle" /\ cbPaste[e].got = <<>> /\ cbRd[e] = 0
          /\ cbEv[e] = <<>> /\ cbAsk[e] = <<>>
      BY DEF CbInit
    <2>2. ~Waits(e)
      BY <2>1 DEF Waits
    <2>3. QueueFits(cbEv[e], cbX[e].owner, cbE[e].incr.on, cbXt[e] = "wait", Waits(e))
      BY <2>1, <2>2, EmptySeq DEF QueueFits, Ordered
    <2> QED  BY <2>1, <2>2, <2>3, EmptySeq DEF Sides
  <1>5. ASSUME NEW e \in CbEnds PROVE NetFits(e)
    <2>1. cbX[e].owner = "none" /\ cbXt[e] = "loop" /\ cbPaste[e].st = "idle" /\ cbPaste[e].got = <<>>
      BY DEF CbInit
    <2>2. CASE cbNet[e] = <<>>
      BY <2>2, EmptySeq DEF NetFits
    <2>3. CASE cbNet[e] # <<>>
      <3> DEFINE m == CbMsg("caps", <<>>)
      <3>1. cbNet[e] = <<m>> /\ e = "cli" /\ ~cbE[e].caps
        BY <1>1, <2>3
      <3>2. m \in Messages(e)
        BY EmptySeq DEF Messages, CbMsg
      <3> HIDE DEF m
      <3>3. cbNet[e] \in Seq(Messages(e)) /\ Len(cbNet[e]) = 1
        BY <3>1, <3>2
      <3> QED  BY <2>1, <3>1, <3>3 DEF NetFits
    <2> QED  BY <2>2, <2>3
  <1> QED  BY <1>2, <1>3, <1>4, <1>5 DEF CbInv

LEMMA CbInvNext == CbInv /\ [CbNext]_cbVars => CbInv'
  <1> SUFFICES ASSUME CbInv, [CbNext]_cbVars PROVE CbInv'
    OBVIOUS
  <1>1. CASE UNCHANGED cbVars
    BY <1>1 DEF cbVars, CbInv, CbFunctions, EndTyped, Sides, NetFits, Waits
  <1>2. ASSUME NEW e \in CbEnds,
               \/ ProgramCopies(e) \/ ProgramAnswers(e) \/ ProgramSendsPiece(e) \/ ProgramPastes(e)
               \/ XfixesSetSelectionOwner(e) \/ SelectionReceiveTargets(e) \/ SelectionNotify(e) \/ CopyPropertyNotify(e)
        PROVE  CbInv'
    BY <1>2, ProgramCopiesKeeps, ProgramAnswersKeeps, ProgramSendsPieceKeeps, ProgramPastesKeeps,
       XfixesSetSelectionOwnerKeeps, SelectionReceiveTargetsKeeps, SelectionNotifyKeeps, CopyPropertyNotifyKeeps
  <1>3. ASSUME NEW e \in CbEnds,
               \/ SelectionRequest(e) \/ SelectionSourceWaited(e) \/ PastePropertyNotify(e) \/ SelectionClear(e)
               \/ RecvExtClipboardCaps(e) \/ RecvCutText(e) \/ RecvExtClipboardNotify(e) \/ RecvExtClipboardRequest(e)
               \/ LocalDataWaited(e) \/ RecvExtClipboardProvide(e) \/ RecvExtClipboardInvalid(e)
        PROVE  CbInv'
    BY <1>3, SelectionRequestKeeps, SelectionSourceWaitedKeeps, PastePropertyNotifyKeeps, SelectionClearKeeps,
       RecvExtClipboardCapsKeeps, RecvCutTextKeeps, RecvExtClipboardNotifyKeeps, RecvExtClipboardRequestKeeps,
       LocalDataWaitedKeeps, RecvExtClipboardProvideKeeps, RecvExtClipboardInvalidKeeps
  <1> QED  BY <1>1, <1>2, <1>3 DEF CbNext

LEMMA CbInvGives == CbInv => CbOwnText
  <1> SUFFICES ASSUME CbInv PROVE CbOwnText
    OBVIOUS
  <1>1. ASSUME NEW e \in CbEnds PROVE CbOther(e) \in CbEnds /\ CbOther(e) # e
    BY DEF CbEnds, CbOther
  <1>2. CbTypeOK
    <2> SUFFICES ASSUME NEW e \in CbEnds
                 PROVE  /\ cbX[e].owner \in {"none", "prog", "ltsm"}
                        /\ cbXt[e] \in {"loop", "wait"} /\ cbRd[e] \in 0 .. CbAtoms
                        /\ cbE[e].target \in 0 .. CbAtoms
                        /\ \A i \in 1 .. Len(cbE[e].clip) : cbE[e].clip[i].by \in CbEnds
                        /\ cbPaste[e].st \in {"idle", "asked", "incr", "done", "refused"}
                        /\ cbXt[e] = "wait" => cbEv[e] # <<>> /\ Head(cbEv[e]).k = "request"
      BY DEF CbTypeOK
    <2>1. cbX[e].owner \in {"none", "prog", "ltsm"} /\ cbXt[e] \in {"loop", "wait"} /\ cbRd[e] \in 0 .. CbAtoms
      BY EndValues DEF EndTyped
    <2>2. cbE[e].target \in 0 .. CbAtoms
      BY EndValues DEF EndTyped, Fields
    <2>3. cbPaste[e].st \in {"idle", "asked", "incr", "done", "refused"}
      BY EndValues DEF EndTyped, Pastes
    <2>4. cbXt[e] = "wait" => cbEv[e] # <<>> /\ Head(cbEv[e]).k = "request"
      BY EndValues DEF Sides, QueueFits, Paste
    <2>5. \A i \in 1 .. Len(cbE[e].clip) : cbE[e].clip[i].by \in CbEnds
      <3> TAKE i \in 1 .. Len(cbE[e].clip)
      <3>1. cbE[e].clip[i] \in Pieces(e) \/ cbE[e].clip[i] \in Pieces(CbOther(e))
        BY EndValues, ElementOfSeq
      <3> QED  BY <1>1, <3>1 DEF Pieces
    <2> QED  BY <2>1, <2>2, <2>3, <2>4, <2>5
  <1>3. CbNoEcho
    <2> SUFFICES ASSUME NEW e \in CbEnds, NEW i \in 1 .. Len(cbNet[e]), NEW j \in 1 .. Len(cbNet[e][i].text)
                 PROVE  cbNet[e][i].text[j].by # e
      BY DEF CbNoEcho
    <2>1. cbNet[e][i] \in Messages(e)
      BY EndValues, ElementOfSeq DEF NetFits
    <2>2. cbNet[e][i].text \in Seq(Pieces(CbOther(e)))
      BY <2>1 DEF Messages
    <2>3. cbNet[e][i].text[j] \in Pieces(CbOther(e))
      BY <2>2, ElementOfSeq
    <2> QED  BY <1>1, <2>3 DEF Pieces
  <1>4. CbPasteIsRemote
    <2> SUFFICES ASSUME NEW e \in CbEnds, cbE[e].caps, NEW j \in 1 .. Len(cbPaste[e].got)
                 PROVE  cbPaste[e].got[j].by # e
      BY DEF CbPasteIsRemote
    <2>1. cbPaste[e].got \in Seq(Pieces(CbOther(e)))
      BY EndValues DEF Sides
    <2>2. cbPaste[e].got[j] \in Pieces(CbOther(e))
      BY <2>1, ElementOfSeq
    <2> QED  BY <1>1, <2>2 DEF Pieces
  <1> QED  BY <1>2, <1>3, <1>4 DEF CbOwnText

(* A text is never sent back to the end it came from, and with the         *)
(* extension a program is never given its own text to paste, however       *)
(* copies, pastes, transfers by INCR and messages are interleaved, for     *)
(* every number of them and every length of text (RFB::ExtClip,            *)
(* XCB::ModuleCopySelection, XCB::ModulePasteSelection).                   *)
THEOREM OwnTextKept == CbSpec => []CbOwnText
  <1>1. CbInit => CbInv
    BY CbInvInit
  <1>2. CbInv /\ [CbNext]_cbVars => CbInv'
    BY CbInvNext
  <1>3. CbInv => CbOwnText
    BY CbInvGives
  <1> QED  BY <1>1, <1>2, <1>3, PTL DEF CbSpec

-----------------------------------------------------------------------------
(***************************************************************************)
(* What becomes of a single copy without the extension: the end that gives *)
(* it goes through a fixed series of steps, and the other only takes.      *)
(***************************************************************************)
Event(k, t) == [k |-> k, t |-> t, who |-> "self"]

\* what has been read, and what is still to be sent
Rest(buf, send, text) ==
    /\ Len(buf) + Len(send) = Len(text) + 1
    /\ \A i \in 1..Len(buf) : buf[i] = text[i]
    /\ \A i \in 1..Len(send) : send[i] = IF Len(buf) + i = Len(text) + 1 THEN CbEnd ELSE text[Len(buf) + i]

Holds(e, q, a) == cbEv[e] = q /\ cbAsk[e] = a
NotSending(e) == cbX[e].send = <<>> /\ ~cbE[e].incr.on
Announced(e) == Holds(e, <<Event("owner", 0)>>, <<>>) /\ NotSending(e)
ListAsked(e) == Holds(e, <<>>, <<CbTargets>>) /\ NotSending(e)
ListPut(e) == Holds(e, <<Event("notify", CbTargets)>>, <<>>) /\ NotSending(e) /\ cbX[e].prop.k = "targets"
TextAsked(e) == Holds(e, <<>>, <<1>>) /\ NotSending(e) /\ cbE[e].target = 1
TextPut(e) ==
    /\ Holds(e, <<Event("notify", 1)>>, <<>>) /\ ~cbE[e].incr.on /\ cbE[e].target = 1
    /\ \/ cbX[e].prop.k = "data" /\ cbX[e].prop.text = cbX[e].text /\ cbX[e].send = <<>>
       \/ cbX[e].prop.k = "incr" /\ cbX[e].send = Append(cbX[e].text, CbEnd)
PieceTaken(e) ==
    /\ Holds(e, <<>>, <<>>) /\ cbE[e].incr.on /\ cbX[e].prop = CbNoProp
    /\ cbX[e].send # <<>> /\ Rest(cbE[e].incr.buf, cbX[e].send, cbX[e].text)
PiecePut(e) ==
    /\ Holds(e, <<Event("piece", 0)>>, <<>>) /\ cbE[e].incr.on
    /\ IF cbX[e].prop.text = <<>> THEN cbX[e].send = <<>> /\ cbE[e].incr.buf = cbX[e].text
       ELSE cbX[e].send # <<>> /\ Rest(cbE[e].incr.buf \o cbX[e].prop.text, cbX[e].send, cbX[e].text)
Giving(e) ==
    \/ Announced(e) \/ ListAsked(e) \/ ListPut(e) \/ TextAsked(e) \/ TextPut(e)
    \/ PieceTaken(e) \/ PiecePut(e)
Given(e) == Holds(e, <<>>, <<>>) /\ cbX[e].send = <<>>

\* an end that gives nothing
Taking(e) ==
    /\ cbX[e].owner # "prog" /\ cbAsk[e] = <<>> /\ NotSending(e)
    /\ \A i \in 1..Len(cbEv[e]) : cbEv[e][i].k \in {"owner", "request"}
Bare(e) == ~cbE[e].caps /\ cbRd[e] = 0 /\ cbXt[e] = "loop"
Untouched(e) == Taking(e) /\ cbX[e].owner = "none" /\ cbEv[e] = <<>> /\ cbNet[e] = <<>>

\* one has copied, its text is on its way or has come
OneCopy(e, o) ==
    /\ cbX[e].owner = "prog" /\ cbX[e].text # <<>> /\ cbNet[e] = <<>> /\ Taking(o)
    /\ \/ Giving(e) /\ cbNet[o] = <<>>
       \/ Given(e) /\ cbNet[o] = <<CbMsg("text", cbX[e].text)>>
       \/ Given(e) /\ cbNet[o] = <<>> /\ cbX[o].owner = "ltsm" /\ cbE[o].clip = cbX[e].text
Single ==
    /\ \A e \in CbEnds : Bare(e)
    /\ \/ cbLeft.id = 0 /\ \A e \in CbEnds : Untouched(e)
       \/ cbLeft.id = 1 /\ \E e \in CbEnds : OneCopy(e, CbOther(e))
CopyInv == CbInv /\ (cbE["srv"].caps \/ cbLeft.id > 1 \/ Single)

\* an end in whose part of the state nothing changes, and one that goes on with its copy
Still(d) ==
    /\ cbX'[d] = cbX[d] /\ cbAsk'[d] = cbAsk[d] /\ cbEv'[d] = cbEv[d] /\ cbE'[d] = cbE[d]
    /\ cbXt'[d] = cbXt[d] /\ cbRd'[d] = cbRd[d]
GivesOn(e, o) ==
    /\ Still(o) /\ Bare(e)' /\ cbLeft' = cbLeft
    /\ cbX'[e].owner = "prog" /\ cbX'[e].text = cbX[e].text /\ cbNet'[e] = cbNet[e]
    /\ \/ Giving(e)' /\ cbNet'[o] = cbNet[o]
       \/ Given(e)' /\ cbNet'[o] = Append(cbNet[o], CbMsg("text", cbX[e].text))
TakesOn(o, e) ==
    /\ Still(e) /\ Bare(o)' /\ Taking(o)' /\ cbLeft'.id = cbLeft.id /\ cbNet'[e] = cbNet[e]
    /\ \/ cbNet'[o] = cbNet[o] /\ cbX'[o].owner = cbX[o].owner /\ cbE'[o].clip = cbE[o].clip
       \/ cbNet[o] # <<>> /\ cbNet'[o] = Tail(cbNet[o]) /\ cbX'[o].owner = "ltsm" /\ cbE'[o].clip = Head(cbNet[o]).text

-----------------------------------------------------------------------------
LEMMA OneQueue ==
  ASSUME NEW v
  PROVE  Head(<<v>>) = v /\ Tail(<<v>>) = <<>> /\ <<v>> # <<>> /\ Append(<<>>, v) = <<v>> /\ Len(<<v>>) = 1 /\ <<v>>[1] = v
  OBVIOUS

\* The pieces of a text, one by one, and its end.
LEMMA RestBegun ==
  ASSUME NEW e, NEW text \in Seq(Pieces(e))
  PROVE  Rest(<<>>, Append(text, CbEnd), text) /\ Append(text, CbEnd) # <<>>
  <1>1. text \in Seq(Pieces(e) \union {CbEnd}) /\ CbEnd \in Pieces(e) \union {CbEnd}
    BY SeqMonotonic
  <1>2. /\ Len(Append(text, CbEnd)) = Len(text) + 1 /\ Append(text, CbEnd)[Len(text) + 1] = CbEnd
        /\ \A i \in 1..Len(text) : Append(text, CbEnd)[i] = text[i]
        /\ Len(text) \in Nat /\ Append(text, CbEnd) \in Seq(Pieces(e) \union {CbEnd})
    BY <1>1, AppendProperties, LenProperties
  <1>3. Len(<<>>) = 0 /\ Append(text, CbEnd) # <<>>
    BY <1>2, EmptySeq
  <1> QED  BY <1>2, <1>3 DEF Rest

LEMMA RestTaken ==
  ASSUME NEW e \in CbEnds, NEW text \in Seq(Pieces(e)), NEW buf \in Seq(Pieces(e)),
         NEW send \in Seq(Pieces(e) \union {CbEnd}), send # <<>>, Rest(buf, send, text)
  PROVE  IF Head(send) = CbEnd THEN Tail(send) = <<>> /\ buf = text
         ELSE Tail(send) # <<>> /\ Head(send) \in Pieces(e) /\ Rest(buf \o <<Head(send)>>, Tail(send), text)
  <1> DEFINE h == Head(send)
             r == Tail(send)
             b == buf \o <<h>>
  <1>1. /\ Len(send) \in Nat \ {0} /\ Len(buf) \in Nat /\ Len(text) \in Nat /\ h = send[1]
        /\ r \in Seq(Pieces(e) \union {CbEnd}) /\ Len(r) = Len(send) - 1
        /\ \A i \in 1..Len(r) : r[i] = send[i + 1]
    BY EmptySeq, LenProperties, HeadTailProperties
  <1>2. Len(buf) + Len(send) = Len(text) + 1
    BY DEF Rest
  <1>3. CASE Len(buf) = Len(text)
    <2>1. h = CbEnd /\ Len(r) = 0
      BY <1>1, <1>2, <1>3 DEF Rest
    <2>2. r = <<>>
      BY <1>1, <2>1, EmptySeq
    <2>3. buf = text
      BY <1>3, SeqEqual DEF Rest
    <2> QED  BY <2>1, <2>2, <2>3
  <1>4. CASE Len(buf) # Len(text)
    <2>1. Len(buf) + 1 \in 1..Len(text) /\ Len(r) # 0
      <3>1. Len(send) \in Nat \ {0} /\ Len(buf) \in Nat /\ Len(text) \in Nat /\ Len(r) = Len(send) - 1
        BY <1>1
      <3>2. ASSUME NEW a \in Nat, NEW b1 \in Nat, NEW c \in Nat, a + b1 = c + 1, b1 # 0, a # c
            PROVE  a + 1 \in 1..c /\ b1 - 1 # 0
        BY <3>2
      <3> HIDE DEF r
      <3> QED  BY <1>2, <1>4, <3>1, <3>2
    <2>2. h = text[Len(buf) + 1]
      BY <1>1, <1>4 DEF Rest
    <2>3. h \in Pieces(e)
      BY <2>1, <2>2, ElementOfSeq
    <2>4. h # CbEnd
      <3>1. h.by = e /\ CbEnd.by = "none"
        BY <2>3 DEF Pieces, CbEnd
      <3> QED  BY <3>1 DEF CbEnds
    <2>5. r # <<>>
      <3>1. Len(<<>>) = 0
        BY EmptySeq
      <3> QED  BY <2>1, <3>1, Zenon
    <2> HIDE DEF h
    <2>6. <<h>> \in Seq(Pieces(e)) /\ Len(<<h>>) = 1 /\ <<h>>[1] = h
      BY <2>3
    <2>7. /\ Len(b) = Len(buf) + 1
          /\ \A i \in 1..(Len(buf) + 1) : b[i] = IF i <= Len(buf) THEN buf[i] ELSE <<h>>[i - Len(buf)]
      <3>1. /\ Len(b) = Len(buf) + Len(<<h>>)
            /\ \A i \in 1..(Len(buf) + Len(<<h>>)) : b[i] = IF i <= Len(buf) THEN buf[i] ELSE <<h>>[i - Len(buf)]
        BY <2>6, ConcatProperties
      <3> QED  BY <2>6, <3>1
    <2> HIDE DEF b, r
    <2>8. Len(b) + Len(r) = Len(text) + 1
      <3>1. Len(b) = Len(buf) + 1 /\ Len(r) = Len(send) - 1
        BY <1>1, <2>7
      <3>2. Len(send) \in Nat \ {0} /\ Len(buf) \in Nat /\ Len(text) \in Nat
        BY <1>1
      <3> QED  BY <1>2, <3>1, <3>2
    <2>9. ASSUME NEW i \in 1..Len(b) PROVE b[i] = text[i]
      <3>1. CASE i <= Len(buf)
        <4>1. i \in 1..Len(buf) /\ b[i] = buf[i]
          BY <1>1, <2>7, <2>9, <3>1
        <4> QED  BY <4>1 DEF Rest
      <3>2. CASE i = Len(buf) + 1
        <4>1. b[i] = <<h>>[1]
          BY <1>1, <2>7, <3>2
        <4> QED  BY <2>2, <2>6, <3>2, <4>1
      <3> QED  BY <1>1, <2>7, <2>9, <3>1, <3>2
    <2>10. ASSUME NEW i \in 1..Len(r) PROVE r[i] = IF Len(b) + i = Len(text) + 1 THEN CbEnd ELSE text[Len(b) + i]
      <3>1. i + 1 \in 1..Len(send) /\ r[i] = send[i + 1] /\ Len(b) + i = Len(buf) + (i + 1)
        BY <1>1, <2>7, <2>10
      <3>2. send[i + 1] = IF Len(buf) + (i + 1) = Len(text) + 1 THEN CbEnd ELSE text[Len(buf) + (i + 1)]
        BY <3>1 DEF Rest
      <3> QED  BY <3>1, <3>2
    <2>11. Rest(b, r, text)
      BY <2>8, <2>9, <2>10 DEF Rest
    <2> QED  BY <2>3, <2>4, <2>5, <2>11 DEF h, b, r
  <1> QED  BY <1>3, <1>4

LEMMA TwoEnds ==
  ASSUME NEW e \in CbEnds
  PROVE  /\ CbOther(e) \in CbEnds /\ CbOther(e) # e /\ CbOther(CbOther(e)) = e
         /\ \A d \in CbEnds : d = e \/ d = CbOther(e)
  BY DEF CbEnds, CbOther

\* convertSelection where no transfer is on its way.
LEMMA ConvertedAnew ==
  ASSUME CbFunctions, NEW e \in CbEnds, NEW f \in Fields(e), NEW t \in 0..CbAtoms, ~f.incr.on,
         ConvertSelection(e, f, t)
  PROVE  /\ \A d \in CbEnds : d # e => cbE'[d] = cbE[d] /\ cbAsk'[d] = cbAsk[d]
         /\ cbE'[e].clip = f.clip /\ cbE'[e].caps = f.caps /\ cbE'[e].target = t /\ ~cbE'[e].incr.on
         /\ cbAsk'[e] = IF cbX[e].owner = "prog" THEN Append(cbAsk[e], t) ELSE cbAsk[e]
  <1> DEFINE g == [f EXCEPT !.target = t]
             i == [[f.incr EXCEPT !.on = FALSE] EXCEPT !.buf = <<>>]
             k == [g EXCEPT !.incr = i]
  <1>1. g.caps = f.caps /\ g.clip = f.clip /\ g.incr = f.incr /\ g.target = t /\ g \in Fields(e)
    BY DEF Fields
  <1>2. ~i.on
    <2>1. f.incr \in [on : {TRUE, FALSE}, target : 0..CbAtoms, buf : Seq(Pieces(e))]
      BY DEF Fields
    <2> QED  BY <2>1
  <1>3. k.caps = f.caps /\ k.clip = f.clip /\ k.incr = i /\ k.target = t
    BY <1>1 DEF Fields
  <1>4. [g EXCEPT !.incr.on = FALSE, !.incr.buf = <<>>] = k
    BY <1>1 DEF Fields
  <1>5. cbE' = [cbE EXCEPT ![e] = IF t = CbTargets THEN g ELSE k]
    <2>1. CASE t = CbTargets
      BY <1>1, <2>1 DEF ConvertSelection
    <2>2. CASE t # CbTargets
      BY <1>1, <1>4, <2>2 DEF ConvertSelection
    <2> QED  BY <2>1, <2>2
  <1>6. cbAsk' = IF cbX[e].owner = "prog" THEN [cbAsk EXCEPT ![e] = Append(cbAsk[e], t)] ELSE cbAsk
    BY <1>1 DEF ConvertSelection
  <1> HIDE DEF g, i, k
  <1>7. cbE'[e] = (IF t = CbTargets THEN g ELSE k) /\ \A d \in CbEnds : d # e => cbE'[d] = cbE[d]
    BY <1>5 DEF CbFunctions
  <1>8. /\ cbAsk'[e] = IF cbX[e].owner = "prog" THEN Append(cbAsk[e], t) ELSE cbAsk[e]
        /\ \A d \in CbEnds : d # e => cbAsk'[d] = cbAsk[d]
    BY <1>6 DEF CbFunctions
  <1> QED  BY <1>1, <1>2, <1>3, <1>7, <1>8

\* The owner's change is read: what can it give?
LEMMA GiverAnnounced ==
  ASSUME CbInv, NEW e \in CbEnds, Bare(e), cbX[e].owner = "prog", Announced(e), XfixesSetSelectionOwner(e)
  PROVE  GivesOn(e, CbOther(e))
  <1> DEFINE f == [cbE[e] EXCEPT !.incr.on = FALSE, !.incr.buf = <<>>]
             o == CbOther(e)
  <1>1. o \in CbEnds /\ o # e
    BY TwoEnds
  <1>2. f \in Fields(e) /\ ~f.incr.on /\ f.caps = cbE[e].caps
    <2> DEFINE i == [[cbE[e].incr EXCEPT !.on = FALSE] EXCEPT !.buf = <<>>]
    <2>1. cbE[e] \in Fields(e)
      BY EndValues DEF EndTyped
    <2>2. cbE[e].incr \in [on : {TRUE, FALSE}, target : 0..CbAtoms, buf : Seq(Pieces(e))]
      BY <2>1 DEF Fields
    <2>3. <<>> \in Seq(Pieces(e))
      BY EmptySeq
    <2>4. i \in [on : {TRUE, FALSE}, target : 0..CbAtoms, buf : Seq(Pieces(e))] /\ ~i.on
      BY <2>2, <2>3
    <2>5. f = [cbE[e] EXCEPT !.incr = i]
      BY <2>1 DEF Fields
    <2> HIDE DEF i, f
    <2> QED  BY <2>1, <2>4, <2>5 DEF Fields
  <1>3. ConvertSelection(e, f, CbTargets)
    BY DEF XfixesSetSelectionOwner
  <1>4. cbEv' = [cbEv EXCEPT ![e] = SelfRequest(e, f, CbTargets, Tail(cbEv[e]))]
    BY EndValues DEF XfixesSetSelectionOwner, CbFunctions
  <1>5. UNCHANGED <<cbPeer, cbX, cbXt, cbRd, cbNet, cbPaste, cbLeft>>
    BY DEF XfixesSetSelectionOwner
  <1> HIDE DEF f, o
  <1>6. CbFunctions /\ CbTargets \in 0..CbAtoms
    <2>1. CbFunctions
      BY DEF CbInv
    <2>2. CbTargets \in 0..CbAtoms
      BY CbAssumption DEF CbTargets
    <2> QED  BY <2>1, <2>2
  <1>7. /\ \A d \in CbEnds : d # e => cbE'[d] = cbE[d] /\ cbAsk'[d] = cbAsk[d]
        /\ cbE'[e].caps = cbE[e].caps /\ ~cbE'[e].incr.on /\ cbAsk'[e] = Append(cbAsk[e], CbTargets)
    BY <1>2, <1>3, <1>6, ConvertedAnew
  <1>8. cbEv'[e] = Tail(cbEv[e]) /\ \A d \in CbEnds : d # e => cbEv'[d] = cbEv[d]
    BY <1>4, <1>6 DEF SelfRequest, CbFunctions
  <1>9. cbEv'[e] = <<>> /\ cbAsk'[e] = <<CbTargets>>
    BY <1>7, <1>8, OneQueue DEF Announced, Holds
  <1>10. ListAsked(e)'
    BY <1>5, <1>7, <1>9 DEF Announced, ListAsked, Holds, NotSending
  <1> QED  BY <1>1, <1>5, <1>7, <1>8, <1>10 DEF GivesOn, Giving, Still, Bare, o

\* The owner answers: it lists what it can give, gives the text, or begins to.
LEMMA GiverAnswers ==
  ASSUME CbInv, NEW e \in CbEnds, Bare(e), cbX[e].owner = "prog", ListAsked(e) \/ TextAsked(e), ProgramAnswers(e)
  PROVE  GivesOn(e, CbOther(e))
  <1> DEFINE t == Head(cbAsk[e])
             k == IF t = CbTargets THEN "targets" ELSE IF Len(cbX[e].text) > 1 THEN "incr" ELSE "data"
             v == [k |-> "notify", t |-> t, who |-> "self"]
             prop == [k |-> k, text |-> IF k = "data" THEN cbX[e].text ELSE <<>>]
             send == IF k = "incr" THEN Append(cbX[e].text, CbEnd) ELSE cbX[e].send
             X == [cbX[e] EXCEPT !.prop = prop, !.send = send]
             o == CbOther(e)
  <1>1. o \in CbEnds /\ o # e
    BY TwoEnds
  <1>2. cbX' = [cbX EXCEPT ![e].prop = prop, ![e].send = send] /\ cbEv' = [cbEv EXCEPT ![e] = Append(cbEv[e], v)]
    BY EndValues DEF ProgramAnswers, EndTyped, Displays, CbFunctions
  <1>3. cbAsk' = [cbAsk EXCEPT ![e] = Tail(cbAsk[e])] /\ UNCHANGED <<cbPeer, cbE, cbXt, cbRd, cbNet, cbPaste, cbLeft>>
    BY EndValues DEF ProgramAnswers, CbFunctions
  <1>4. cbEv[e] = <<>> /\ cbX[e].send = <<>> /\ ~cbE[e].incr.on /\ cbAsk[e] = <<t>> /\ Tail(cbAsk[e]) = <<>>
        /\ (t = CbTargets \/ (t = 1 /\ cbE[e].target = 1))
    BY OneQueue DEF ListAsked, TextAsked, Holds, NotSending
  <1>5. v = Event("notify", t)
    BY DEF Event
  <1>6. prop.k = k /\ (k = "data" => prop.text = cbX[e].text)
    OBVIOUS
  <1>7. k = "targets" <=> t = CbTargets
    OBVIOUS
  <1>8. (k = "incr" => send = Append(cbX[e].text, CbEnd)) /\ (k # "incr" => send = <<>>)
    BY <1>4
  <1>9. k \in {"targets", "incr", "data"}
    OBVIOUS
  <1> HIDE DEF t, k, v, prop, send, o
  <1>10. X.owner = "prog" /\ X.text = cbX[e].text /\ X.prop = prop /\ X.send = send
    BY EndValues DEF EndTyped, Displays
  <1>11. cbX' = [cbX EXCEPT ![e] = X]
    BY <1>2, EndValues DEF EndTyped, Displays
  <1> HIDE DEF X
  <1>12. CbFunctions
    BY DEF CbInv
  <1>13. /\ cbX'[e] = X /\ cbEv'[e] = Append(cbEv[e], v) /\ cbAsk'[e] = Tail(cbAsk[e])
         /\ \A d \in CbEnds : d # e => cbX'[d] = cbX[d] /\ cbEv'[d] = cbEv[d] /\ cbAsk'[d] = cbAsk[d]
    BY <1>2, <1>3, <1>11, <1>12 DEF CbFunctions
  <1>14. cbEv'[e] = <<Event("notify", t)>> /\ cbAsk'[e] = <<>>
    BY <1>4, <1>5, <1>13, OneQueue
  <1>15. CASE t = CbTargets
    <2>1. ListPut(e)'
      BY <1>3, <1>4, <1>6, <1>7, <1>8, <1>10, <1>13, <1>14, <1>15 DEF ListPut, Holds, NotSending
    <2> QED  BY <1>1, <1>3, <1>10, <1>13, <2>1 DEF GivesOn, Giving, Still, Bare, o
  <1>16. CASE t # CbTargets
    <2>1. TextPut(e)'
      BY <1>3, <1>4, <1>6, <1>7, <1>8, <1>9, <1>10, <1>13, <1>14, <1>16 DEF TextPut, Holds
    <2> QED  BY <1>1, <1>3, <1>10, <1>13, <2>1 DEF GivesOn, Giving, Still, Bare, o
  <1> QED  BY <1>15, <1>16

\* The list has come, and the text is asked for.
LEMMA GiverListed ==
  ASSUME CbInv, NEW e \in CbEnds, Bare(e), cbX[e].owner = "prog", ListPut(e), SelectionReceiveTargets(e)
  PROVE  GivesOn(e, CbOther(e))
  <1> DEFINE o == CbOther(e)
             X == [cbX[e] EXCEPT !.prop = CbNoProp]
  <1>1. o \in CbEnds /\ o # e
    BY TwoEnds
  <1>2. ~cbE[e].caps /\ cbX[e].prop.k = "targets" /\ ~cbE[e].incr.on
    BY DEF Bare, ListPut, NotSending
  <1>3. ConvertSelection(e, cbE[e], 1) /\ UNCHANGED <<cbNet, cbPeer, cbXt, cbRd, cbPaste, cbLeft>>
    BY <1>2 DEF SelectionReceiveTargets
  <1>4. cbEv' = [cbEv EXCEPT ![e] = SelfRequest(e, cbE[e], 1, Tail(cbEv[e]))]
    <2>1. CbFunctions
      BY DEF CbInv
    <2> QED  BY <1>2, <2>1 DEF SelectionReceiveTargets, CbFunctions
  <1>5. cbX' = [cbX EXCEPT ![e] = X]
    BY DEF SelectionReceiveTargets
  <1>6. CbFunctions /\ cbE[e] \in Fields(e) /\ cbX[e] \in Displays(e)
    BY EndValues DEF EndTyped
  <1>7. 1 \in 0..CbAtoms
    BY CbAssumption
  <1>8. X.owner = "prog" /\ X.text = cbX[e].text /\ X.send = cbX[e].send
    BY <1>6 DEF Displays
  <1> HIDE DEF X, o
  <1>9. /\ \A d \in CbEnds : d # e => cbE'[d] = cbE[d] /\ cbAsk'[d] = cbAsk[d]
        /\ cbE'[e].caps = cbE[e].caps /\ ~cbE'[e].incr.on /\ cbE'[e].target = 1 /\ cbAsk'[e] = Append(cbAsk[e], 1)
    BY <1>2, <1>3, <1>6, <1>7, ConvertedAnew
  <1>10. /\ cbX'[e] = X /\ cbEv'[e] = Tail(cbEv[e])
         /\ \A d \in CbEnds : d # e => cbX'[d] = cbX[d] /\ cbEv'[d] = cbEv[d]
    BY <1>4, <1>5, <1>6 DEF SelfRequest, CbFunctions
  <1>11. cbEv'[e] = <<>> /\ cbAsk'[e] = <<1>>
    BY <1>9, <1>10, OneQueue DEF ListPut, Holds
  <1>12. TextAsked(e)'
    BY <1>8, <1>9, <1>10, <1>11 DEF ListPut, TextAsked, Holds, NotSending
  <1> QED  BY <1>1, <1>3, <1>8, <1>9, <1>10, <1>12 DEF GivesOn, Giving, Still, Bare, o

\* The text has come, and is sent to the peer; or its transfer begins.
LEMMA GiverNotified ==
  ASSUME CbInv, NEW e \in CbEnds, Bare(e), cbX[e].owner = "prog", cbX[e].text # <<>>, TextPut(e), SelectionNotify(e)
  PROVE  GivesOn(e, CbOther(e))
  <1> DEFINE o == CbOther(e)
             X == [cbX[e] EXCEPT !.prop = CbNoProp]
             i == [on |-> TRUE, target |-> 1, buf |-> <<>>]
  <1>1. o \in CbEnds /\ o # e
    BY TwoEnds
  <1>2. ~cbE[e].caps /\ cbE[e].target = 1 /\ Head(cbEv[e]).t = 1 /\ Tail(cbEv[e]) = <<>> /\ cbAsk[e] = <<>>
    BY OneQueue DEF Bare, TextPut, Holds, Event
  <1>3. CbFunctions /\ cbE[e] \in Fields(e) /\ cbX[e] \in Displays(e)
    BY EndValues DEF EndTyped
  <1>4. /\ cbX' = [cbX EXCEPT ![e] = X] /\ cbEv' = [cbEv EXCEPT ![e] = Tail(cbEv[e])]
        /\ UNCHANGED <<cbPeer, cbAsk, cbXt, cbRd, cbPaste, cbLeft>>
    BY <1>3 DEF SelectionNotify, CbHandled, CbFunctions
  <1>5. X.owner = "prog" /\ X.text = cbX[e].text /\ X.send = cbX[e].send /\ X.prop = CbNoProp
    BY <1>3 DEF Displays
  <1>6. ASSUME cbX[e].prop.k = "incr" PROVE cbE' = [cbE EXCEPT ![e].incr = i] /\ cbNet' = cbNet
    BY <1>2, <1>6 DEF SelectionNotify
  <1>7. ASSUME cbX[e].prop.k = "data", cbX[e].prop.text = cbX[e].text
        PROVE  cbE' = [cbE EXCEPT ![e] = cbE[e]] /\ CbTell(o, CbMsg("text", cbX[e].text))
    BY <1>2, <1>7 DEF SelectionNotify, SelectionReceiveData
  <1> HIDE DEF X, i, o
  <1>8. /\ cbX'[e] = X /\ cbEv'[e] = <<>>
        /\ \A d \in CbEnds : d # e => cbX'[d] = cbX[d] /\ cbEv'[d] = cbEv[d]
    BY <1>2, <1>3, <1>4 DEF CbFunctions
  <1>9. CASE cbX[e].prop.k = "incr" /\ cbX[e].send = Append(cbX[e].text, CbEnd)
    <2>1. cbE' = [cbE EXCEPT ![e].incr = i] /\ cbNet' = cbNet
      BY <1>6, <1>9
    <2>2. cbE'[e].incr = i /\ cbE'[e].caps = cbE[e].caps /\ \A d \in CbEnds : d # e => cbE'[d] = cbE[d]
      BY <1>3, <2>1 DEF CbFunctions, Fields
    <2>3. i.on /\ i.buf = <<>>
      BY DEF i
    <2>4. Rest(<<>>, cbX[e].send, cbX[e].text) /\ cbX[e].send # <<>>
      BY <1>9, RestBegun, EndValues
    <2>5. PieceTaken(e)'
      BY <1>2, <1>4, <1>5, <1>8, <2>2, <2>3, <2>4 DEF PieceTaken, Holds
    <2> QED  BY <1>1, <1>4, <1>5, <1>8, <2>1, <2>2, <2>5 DEF GivesOn, Giving, Still, Bare, o
  <1>10. CASE cbX[e].prop.k = "data" /\ cbX[e].prop.text = cbX[e].text /\ cbX[e].send = <<>>
    <2>1. cbE' = [cbE EXCEPT ![e] = cbE[e]] /\ CbTell(o, CbMsg("text", cbX[e].text))
      BY <1>7, <1>10
    <2>2. cbE'[e] = cbE[e] /\ \A d \in CbEnds : d # e => cbE'[d] = cbE[d]
      BY <1>3, <2>1 DEF CbFunctions
    <2>3. cbNet'[o] = Append(cbNet[o], CbMsg("text", cbX[e].text)) /\ cbNet'[e] = cbNet[e]
      BY <1>1, <1>3, <2>1 DEF CbTell, CbFunctions
    <2>4. Given(e)'
      BY <1>2, <1>4, <1>5, <1>8, <1>10 DEF Given, Holds
    <2> QED  BY <1>1, <1>4, <1>5, <1>8, <2>2, <2>3, <2>4 DEF GivesOn, Still, Bare, o
  <1> QED  BY <1>9, <1>10 DEF TextPut

\* The property is deleted, and the next piece put there.
LEMMA GiverSends ==
  ASSUME CbInv, NEW e \in CbEnds, Bare(e), cbX[e].owner = "prog", PieceTaken(e), ProgramSendsPiece(e)
  PROVE  GivesOn(e, CbOther(e))
  <1> DEFINE o == CbOther(e)
             h == Head(cbX[e].send)
             r == Tail(cbX[e].send)
             prop == [k |-> "piece", text |-> IF h = CbEnd THEN <<>> ELSE <<h>>]
             X == [cbX[e] EXCEPT !.prop = prop, !.send = r]
             buf == cbE[e].incr.buf
  <1>1. o \in CbEnds /\ o # e
    BY TwoEnds
  <1>2. CbFunctions /\ cbE[e] \in Fields(e) /\ cbX[e] \in Displays(e)
    BY EndValues DEF EndTyped
  <1>3. /\ cbX' = [cbX EXCEPT ![e].prop = prop, ![e].send = r]
        /\ cbEv' = [cbEv EXCEPT ![e] = Append(cbEv[e], [k |-> "piece", t |-> 0, who |-> "self"])]
        /\ UNCHANGED <<cbPeer, cbAsk, cbE, cbXt, cbRd, cbNet, cbPaste, cbLeft>>
    BY <1>2 DEF ProgramSendsPiece, CbFunctions
  <1>4. IF h = CbEnd THEN r = <<>> /\ buf = cbX[e].text
        ELSE r # <<>> /\ Rest(buf \o <<h>>, r, cbX[e].text)
    <2>1. cbX[e].send # <<>> /\ Rest(buf, cbX[e].send, cbX[e].text)
      BY DEF PieceTaken
    <2>2. cbX[e].send \in Seq(Pieces(e) \union {CbEnd}) /\ buf \in Seq(Pieces(e)) /\ cbX[e].text \in Seq(Pieces(e))
      BY EndValues
    <2>3. IF Head(cbX[e].send) = CbEnd THEN Tail(cbX[e].send) = <<>> /\ buf = cbX[e].text
          ELSE Tail(cbX[e].send) # <<>> /\ Rest(buf \o <<Head(cbX[e].send)>>, Tail(cbX[e].send), cbX[e].text)
      <3> DEFINE s == cbX[e].send
                 x == cbX[e].text
      <3>1. s # <<>> /\ Rest(buf, s, x) /\ s \in Seq(Pieces(e) \union {CbEnd}) /\ buf \in Seq(Pieces(e)) /\ x \in Seq(Pieces(e))
        BY <2>1, <2>2
      <3> HIDE DEF buf, s, x
      <3>2. IF Head(s) = CbEnd THEN Tail(s) = <<>> /\ buf = x
            ELSE Tail(s) # <<>> /\ Head(s) \in Pieces(e) /\ Rest(buf \o <<Head(s)>>, Tail(s), x)
        BY <3>1, RestTaken
      <3> QED  BY <3>2 DEF s, x
    <2> QED  BY <2>3
  <1>5. prop.text = IF h = CbEnd THEN <<>> ELSE <<h>>
    OBVIOUS
  <1>6. <<h>> # <<>>
    BY OneQueue
  <1> HIDE DEF h, r, prop, o
  <1>7. X.owner = "prog" /\ X.text = cbX[e].text /\ X.prop = prop /\ X.send = r
    BY <1>2 DEF Displays
  <1>8. cbX' = [cbX EXCEPT ![e] = X]
    BY <1>2, <1>3 DEF Displays
  <1> HIDE DEF X
  <1>9. /\ cbX'[e] = X /\ cbEv'[e] = Append(cbEv[e], Event("piece", 0))
        /\ \A d \in CbEnds : d # e => cbX'[d] = cbX[d] /\ cbEv'[d] = cbEv[d]
    BY <1>2, <1>3, <1>8 DEF CbFunctions, Event
  <1>10. cbEv'[e] = <<Event("piece", 0)>> /\ cbAsk[e] = <<>>
    BY <1>9, OneQueue DEF PieceTaken, Holds
  <1>11. PiecePut(e)'
    <2>1. Holds(e, <<Event("piece", 0)>>, <<>>)'
      BY <1>3, <1>10 DEF Holds
    <2>2. cbE'[e].incr.on /\ cbE'[e].incr.buf = buf
      BY <1>3 DEF PieceTaken
    <2> HIDE DEF buf
    <2>3. CASE h = CbEnd
      BY <1>4, <1>5, <1>7, <1>9, <2>1, <2>2, <2>3 DEF PiecePut
    <2>4. CASE h # CbEnd
      BY <1>4, <1>5, <1>6, <1>7, <1>9, <2>1, <2>2, <2>4 DEF PiecePut
    <2> QED  BY <2>3, <2>4
  <1> QED  BY <1>1, <1>3, <1>7, <1>9, <1>11 DEF GivesOn, Giving, Still, Bare, o

\* A piece is taken; after the last the text is sent to the peer.
LEMMA GiverTakes ==
  ASSUME CbInv, NEW e \in CbEnds, Bare(e), cbX[e].owner = "prog", cbX[e].text # <<>>, PiecePut(e), CopyPropertyNotify(e)
  PROVE  GivesOn(e, CbOther(e))
  <1> DEFINE o == CbOther(e)
             X == [cbX[e] EXCEPT !.prop = CbNoProp]
             buf == cbE[e].incr.buf
             p == cbX[e].prop.text
             F(b) == [cbE[e] EXCEPT !.incr = [cbE[e].incr EXCEPT !.buf = b]]
  <1>1. o \in CbEnds /\ o # e
    BY TwoEnds
  <1>2. ~cbE[e].caps /\ cbE[e].incr.on /\ Tail(cbEv[e]) = <<>> /\ cbAsk[e] = <<>>
    BY OneQueue DEF Bare, PiecePut, Holds
  <1>3. CbFunctions /\ cbE[e] \in Fields(e) /\ cbX[e] \in Displays(e)
    BY EndValues DEF EndTyped
  <1>4. /\ cbX' = [cbX EXCEPT ![e] = X] /\ cbEv' = [cbEv EXCEPT ![e] = Tail(cbEv[e])]
        /\ UNCHANGED <<cbPeer, cbAsk, cbXt, cbRd, cbPaste, cbLeft>>
    BY <1>2, <1>3 DEF CopyPropertyNotify, CbHandled, CbFunctions
  <1>5. X.owner = "prog" /\ X.text = cbX[e].text /\ X.send = cbX[e].send /\ X.prop = CbNoProp
    BY <1>3 DEF Displays
  <1>6. \A b : F(b).caps = cbE[e].caps /\ F(b).incr.on /\ F(b).incr.buf = b
    <2>1. cbE[e].incr \in [on : {TRUE, FALSE}, target : 0..CbAtoms, buf : Seq(Pieces(e))]
      BY <1>3 DEF Fields
    <2> TAKE b
    <2> DEFINE j == [cbE[e].incr EXCEPT !.buf = b]
    <2>2. j.on /\ j.buf = b
      BY <1>2, <2>1
    <2> HIDE DEF j
    <2>3. [cbE[e] EXCEPT !.incr = j].incr = j /\ [cbE[e] EXCEPT !.incr = j].caps = cbE[e].caps
      BY <1>3 DEF Fields
    <2> QED  BY <2>2, <2>3 DEF j
  <1>7. ASSUME p # <<>> PROVE cbE' = [cbE EXCEPT ![e] = F(buf \o p)] /\ cbNet' = cbNet
    BY <1>2, <1>3, <1>7 DEF CopyPropertyNotify, Joined
  <1>8. ASSUME p = <<>>, buf = cbX[e].text
        PROVE  cbE' = [cbE EXCEPT ![e] = F(<<>>)] /\ CbTell(o, CbMsg("text", cbX[e].text))
    <2>1. SelectionReceiveData(e, F(<<>>), buf)
      BY <1>2, <1>8 DEF CopyPropertyNotify
    <2> HIDE DEF F
    <2> QED  BY <1>2, <1>6, <1>8, <2>1 DEF SelectionReceiveData
  <1> HIDE DEF X, o, F
  <1>9. /\ cbX'[e] = X /\ cbEv'[e] = <<>>
        /\ \A d \in CbEnds : d # e => cbX'[d] = cbX[d] /\ cbEv'[d] = cbEv[d]
    BY <1>2, <1>3, <1>4 DEF CbFunctions
  <1>10. CASE p # <<>> /\ cbX[e].send # <<>> /\ Rest(buf \o p, cbX[e].send, cbX[e].text)
    <2>1. cbE' = [cbE EXCEPT ![e] = F(buf \o p)] /\ cbNet' = cbNet
      BY <1>7, <1>10
    <2>2. cbE'[e] = F(buf \o p) /\ \A d \in CbEnds : d # e => cbE'[d] = cbE[d]
      BY <1>3, <2>1 DEF CbFunctions
    <2>3. PieceTaken(e)'
      BY <1>2, <1>4, <1>5, <1>6, <1>9, <1>10, <2>2 DEF PieceTaken, Holds
    <2> QED  BY <1>1, <1>4, <1>5, <1>6, <1>9, <2>1, <2>2, <2>3 DEF GivesOn, Giving, Still, Bare, o
  <1>11. CASE p = <<>> /\ cbX[e].send = <<>> /\ buf = cbX[e].text
    <2>1. cbE' = [cbE EXCEPT ![e] = F(<<>>)] /\ CbTell(o, CbMsg("text", cbX[e].text))
      BY <1>8, <1>11
    <2>2. cbE'[e] = F(<<>>) /\ \A d \in CbEnds : d # e => cbE'[d] = cbE[d]
      BY <1>3, <2>1 DEF CbFunctions
    <2>3. cbNet'[o] = Append(cbNet[o], CbMsg("text", cbX[e].text)) /\ cbNet'[e] = cbNet[e]
      BY <1>1, <1>3, <2>1 DEF CbTell, CbFunctions
    <2>4. Given(e)'
      BY <1>2, <1>4, <1>5, <1>9, <1>11 DEF Given, Holds
    <2> QED  BY <1>1, <1>4, <1>5, <1>6, <1>9, <2>2, <2>3, <2>4 DEF GivesOn, Still, Bare, o
  <1> QED  BY <1>10, <1>11 DEF PiecePut

\* Events of the kinds an end gets that gives nothing.
Passive(q) == \A i \in 1..Len(q) : q[i].k \in {"owner", "request"}
LEMMA PassiveQueue ==
  ASSUME NEW q \in Seq(Events), Passive(q)
  PROVE  /\ \A v \in Events : v.k \in {"owner", "request"} => Passive(Append(q, v)) /\ Append(q, v) \in Seq(Events)
         /\ q # <<>> => Passive(Tail(q)) /\ Tail(q) \in Seq(Events) /\ Head(q) \in Events /\ Head(q).k \in {"owner", "request"}
  <1>1. ASSUME NEW v \in Events, v.k \in {"owner", "request"} PROVE Passive(Append(q, v)) /\ Append(q, v) \in Seq(Events)
    <2>1. /\ Append(q, v) \in Seq(Events) /\ Len(Append(q, v)) = Len(q) + 1 /\ Append(q, v)[Len(q) + 1] = v
          /\ \A i \in 1..Len(q) : Append(q, v)[i] = q[i]
          /\ Len(q) \in Nat
      BY AppendProperties, LenProperties
    <2>2. \A i \in 1..Len(Append(q, v)) : i \in 1..Len(q) \/ i = Len(q) + 1
      BY <2>1
    <2> QED  BY <1>1, <2>1, <2>2 DEF Passive
  <1>2. ASSUME q # <<>> PROVE Passive(Tail(q)) /\ Tail(q) \in Seq(Events) /\ Head(q) \in Events /\ Head(q).k \in {"owner", "request"}
    <2>1. /\ Tail(q) \in Seq(Events) /\ Len(Tail(q)) = Len(q) - 1 /\ Head(q) \in Events /\ Head(q) = q[1]
          /\ \A i \in 1..Len(Tail(q)) : Tail(q)[i] = q[i + 1]
          /\ Len(q) \in Nat \ {0}
      BY <1>2, HeadTailProperties, EmptySeq
    <2>2. \A i \in 1..Len(Tail(q)) : i + 1 \in 1..Len(q)
      BY <2>1
    <2>3. 1 \in 1..Len(q)
      BY <2>1
    <2> QED  BY <2>1, <2>2, <2>3 DEF Passive
  <1> QED  BY <1>1, <1>2

\* The peer's text comes and takes the selection, which is an event like any other.
LEMMA TakerReceives ==
  ASSUME CbInv, NEW e \in CbEnds, Bare(e), Taking(e), RecvCutText(e)
  PROVE  TakesOn(e, CbOther(e))
  <1> DEFINE o == CbOther(e)
             X == [cbX[e] EXCEPT !.owner = "ltsm", !.text = <<>>]
             v == [k |-> "owner", t |-> 0, who |-> "self"]
             F == [cbE[e] EXCEPT !.clip = Head(cbNet[e]).text]
  <1>1. o \in CbEnds /\ o # e
    BY TwoEnds
  <1>2. CbFunctions /\ cbE[e] \in Fields(e) /\ cbX[e] \in Displays(e) /\ cbEv[e] \in Seq(Events)
    BY EndValues DEF EndTyped
  <1>3. /\ cbX' = [cbX EXCEPT ![e] = X] /\ cbEv' = [cbEv EXCEPT ![e] = Append(cbEv[e], v)]
        /\ cbAsk' = [cbAsk EXCEPT ![e] = <<>>] /\ cbE' = [cbE EXCEPT ![e] = F]
        /\ cbNet' = [cbNet EXCEPT ![e] = Tail(cbNet[e])]
        /\ cbNet[e] # <<>> /\ UNCHANGED <<cbPeer, cbXt, cbRd, cbPaste, cbLeft>>
    <2>1. cbX' = [cbX EXCEPT ![e].owner = "ltsm", ![e].text = <<>>]
      BY DEF RecvCutText, SetSelectionOwner
    <2>2. cbX' = [cbX EXCEPT ![e] = X]
      BY <1>2, <2>1 DEF Displays
    <2> HIDE DEF X
    <2> QED  BY <1>2, <2>2 DEF RecvCutText, SetSelectionOwner, CbTakes, CbTaken, CbFunctions
  <1>4. X.owner = "ltsm" /\ X.send = cbX[e].send
    BY <1>2 DEF Displays
  <1>5. F.caps = cbE[e].caps /\ F.incr = cbE[e].incr /\ F.clip = Head(cbNet[e]).text
    BY <1>2 DEF Fields
  <1>6. v \in Events /\ v.k = "owner"
    BY CbAssumption DEF Events
  <1> HIDE DEF X, F, v, o
  <1>7. /\ cbX'[e] = X /\ cbEv'[e] = Append(cbEv[e], v) /\ cbAsk'[e] = <<>> /\ cbE'[e] = F /\ cbNet'[e] = Tail(cbNet[e])
        /\ \A d \in CbEnds : d # e => /\ cbX'[d] = cbX[d] /\ cbEv'[d] = cbEv[d] /\ cbAsk'[d] = cbAsk[d]
                                      /\ cbE'[d] = cbE[d] /\ cbNet'[d] = cbNet[d]
    BY <1>2, <1>3 DEF CbFunctions
  <1>8. Passive(cbEv'[e])
    BY <1>2, <1>6, <1>7, PassiveQueue DEF Taking, Passive
  <1>9. Taking(e)'
    BY <1>4, <1>5, <1>7, <1>8 DEF Taking, Passive, NotSending
  <1> QED  BY <1>1, <1>3, <1>4, <1>5, <1>7, <1>9 DEF TakesOn, Still, Bare, o

\* What else an end does that gives nothing.
LEMMA TakerAsks ==
  ASSUME CbInv, NEW e \in CbEnds, Bare(e), Taking(e), XfixesSetSelectionOwner(e)
  PROVE  TakesOn(e, CbOther(e))
  <1> DEFINE f == [cbE[e] EXCEPT !.incr.on = FALSE, !.incr.buf = <<>>]
             o == CbOther(e)
             v == [k |-> "request", t |-> CbTargets, who |-> "self"]
  <1>1. o \in CbEnds /\ o # e
    BY TwoEnds
  <1>2. f \in Fields(e) /\ ~f.incr.on /\ f.caps = cbE[e].caps /\ f.clip = cbE[e].clip
    <2> DEFINE i == [[cbE[e].incr EXCEPT !.on = FALSE] EXCEPT !.buf = <<>>]
    <2>1. cbE[e] \in Fields(e)
      BY EndValues DEF EndTyped
    <2>2. cbE[e].incr \in [on : {TRUE, FALSE}, target : 0..CbAtoms, buf : Seq(Pieces(e))]
      BY <2>1 DEF Fields
    <2>3. <<>> \in Seq(Pieces(e))
      BY EmptySeq
    <2>4. i \in [on : {TRUE, FALSE}, target : 0..CbAtoms, buf : Seq(Pieces(e))] /\ ~i.on
      BY <2>2, <2>3
    <2>5. f = [cbE[e] EXCEPT !.incr = i]
      BY <2>1 DEF Fields
    <2> HIDE DEF i, f
    <2> QED  BY <2>1, <2>4, <2>5 DEF Fields
  <1>3. ConvertSelection(e, f, CbTargets)
    BY DEF XfixesSetSelectionOwner
  <1>4. cbEv' = [cbEv EXCEPT ![e] = SelfRequest(e, f, CbTargets, Tail(cbEv[e]))]
    BY EndValues DEF XfixesSetSelectionOwner, CbFunctions
  <1>5. UNCHANGED <<cbPeer, cbX, cbXt, cbRd, cbNet, cbPaste, cbLeft>> /\ cbEv[e] # <<>>
    BY DEF XfixesSetSelectionOwner, CbEvent
  <1> HIDE DEF f, o
  <1>6. CbFunctions /\ CbTargets \in 0..CbAtoms
    <2>1. CbFunctions
      BY DEF CbInv
    <2>2. CbTargets \in 0..CbAtoms
      BY CbAssumption DEF CbTargets
    <2> QED  BY <2>1, <2>2
  <1>7. /\ \A d \in CbEnds : d # e => cbE'[d] = cbE[d] /\ cbAsk'[d] = cbAsk[d]
        /\ cbE'[e].caps = cbE[e].caps /\ ~cbE'[e].incr.on /\ cbE'[e].clip = cbE[e].clip
        /\ cbAsk'[e] = cbAsk[e]
    BY <1>2, <1>3, <1>6, ConvertedAnew DEF Taking
  <1>8. cbEv'[e] = Tail(cbEv[e]) \/ cbEv'[e] = Append(Tail(cbEv[e]), v)
    BY <1>4, <1>6 DEF SelfRequest, CbFunctions
  <1>9. \A d \in CbEnds : d # e => cbEv'[d] = cbEv[d]
    BY <1>4, <1>6 DEF CbFunctions
  <1>10. v \in Events /\ v.k = "request"
    BY <1>6 DEF Events
  <1> HIDE DEF v
  <1>11. Passive(cbEv'[e])
    <2>1. Passive(cbEv[e]) /\ cbEv[e] \in Seq(Events)
      BY EndValues DEF Taking, Passive
    <2>2. Passive(Tail(cbEv[e])) /\ Tail(cbEv[e]) \in Seq(Events)
      BY <1>5, <2>1, PassiveQueue
    <2>3. Passive(Append(Tail(cbEv[e]), v))
      BY <1>10, <2>2, PassiveQueue
    <2> QED  BY <1>8, <2>2, <2>3
  <1>12. Taking(e)'
    BY <1>5, <1>7, <1>11 DEF Taking, Passive, NotSending
  <1> QED  BY <1>1, <1>5, <1>7, <1>9, <1>12 DEF TakesOn, Still, Bare, o

LEMMA TakerPastes ==
  ASSUME CbInv, NEW e \in CbEnds, Bare(e), Taking(e), ProgramPastes(e) \/ SelectionRequest(e)
  PROVE  TakesOn(e, CbOther(e))
  <1> DEFINE o == CbOther(e)
             v == [k |-> "request", t |-> 1, who |-> "prog"]
  <1>1. o \in CbEnds /\ o # e
    BY TwoEnds
  <1>2. CbFunctions /\ cbEv[e] \in Seq(Events) /\ Passive(cbEv[e])
    BY EndValues DEF Taking, Passive
  <1>3. CASE ProgramPastes(e)
    <2>1. cbEv' = [cbEv EXCEPT ![e] = Append(cbEv[e], v)] /\ UNCHANGED <<cbPeer, cbX, cbAsk, cbE, cbXt, cbRd, cbNet>>
      BY <1>2, <1>3 DEF ProgramPastes, CbFunctions
    <2>2. cbLeft'.id = cbLeft.id
      BY <1>2, <1>3 DEF ProgramPastes, CbFunctions
    <2>3. v \in Events /\ v.k = "request"
      BY CbAssumption DEF Events, CbTargets
    <2> HIDE DEF v, o
    <2>4. cbEv'[e] = Append(cbEv[e], v) /\ \A d \in CbEnds : d # e => cbEv'[d] = cbEv[d]
      BY <1>2, <2>1 DEF CbFunctions
    <2>5. Passive(cbEv'[e])
      BY <1>2, <2>3, <2>4, PassiveQueue
    <2> QED  BY <1>1, <2>1, <2>2, <2>4, <2>5 DEF TakesOn, Still, Bare, Taking, Passive, NotSending, o
  <1>4. CASE SelectionRequest(e)
    <2> DEFINE r == Head(cbEv[e])
    <2>1. cbEv[e] # <<>> /\ UNCHANGED <<cbPeer, cbAsk, cbRd, cbLeft>> /\ ~cbE[e].caps
      BY <1>4 DEF SelectionRequest, CbEvent, Bare
    <2>2. cbEv' = [cbEv EXCEPT ![e] = Tail(cbEv[e])] /\ UNCHANGED <<cbX, cbE, cbNet, cbXt>>
      <3>1. CASE Skipped(r.who) \/ cbX[e].owner # "ltsm"
        BY <1>2, <1>4, <3>1 DEF SelectionRequest, Discard, CbHandled, CbFunctions
      <3>2. CASE ~Skipped(r.who) /\ cbX[e].owner = "ltsm" /\ r.t = CbTargets
        BY <1>2, <1>4, <3>2 DEF SelectionRequest, PutSelection, Skipped, CbHandled, CbFunctions
      <3>3. CASE ~Skipped(r.who) /\ cbX[e].owner = "ltsm" /\ r.t # CbTargets
        BY <1>2, <1>4, <2>1, <3>3 DEF SelectionRequest, PutSelection, Discard, Skipped, CbHandled, CbFunctions
      <3> QED  BY <3>1, <3>2, <3>3
    <2> HIDE DEF o
    <2>3. cbEv'[e] = Tail(cbEv[e]) /\ \A d \in CbEnds : d # e => cbEv'[d] = cbEv[d]
      BY <1>2, <2>2 DEF CbFunctions
    <2>4. Passive(cbEv'[e])
      BY <1>2, <2>1, <2>3, PassiveQueue
    <2> QED  BY <1>1, <2>1, <2>2, <2>3, <2>4 DEF TakesOn, Still, Bare, Taking, Passive, NotSending, o
  <1> QED  BY <1>3, <1>4

-----------------------------------------------------------------------------
\* The capabilities stay, and so does the number of copies made.
CapsStay == \A d \in CbEnds : cbE'[d].caps = cbE[d].caps \/ cbE'[d].caps

LEMMA CapsStayAt ==
  ASSUME CbInv, NEW e \in CbEnds, NEW h, cbE' = [cbE EXCEPT ![e] = h], h.caps = cbE[e].caps \/ h.caps
  PROVE  CapsStay
  <1>1. CbFunctions
    BY DEF CbInv
  <1>2. cbE'[e] = h /\ \A d \in CbEnds : d # e => cbE'[d] = cbE[d]
    BY <1>1 DEF CbFunctions
  <1> QED  BY <1>2 DEF CapsStay

LEMMA CapsStayConverted ==
  ASSUME CbInv, NEW e \in CbEnds, NEW f \in Fields(e), f.caps = cbE[e].caps, NEW t \in 0..CbAtoms, ConvertSelection(e, f, t)
  PROVE  CapsStay
  <1>1. CbFunctions
    BY DEF CbInv
  <1>2. cbE'[e].caps = cbE[e].caps /\ \A d \in CbEnds : d # e => cbE'[d] = cbE[d]
    BY <1>1, Converted
  <1> QED  BY <1>2 DEF CapsStay

LEMMA CapsStayNext == CbInv /\ CbNext => CapsStay
  <1> SUFFICES ASSUME CbInv, CbNext PROVE CapsStay
    OBVIOUS
  <1>0. CbFunctions
    BY DEF CbInv
  <1>1. \A d \in CbEnds : cbE[d] \in Fields(d)
    BY DEF CbInv, EndTyped
  <1>2. CbTargets \in 0..CbAtoms /\ 1 \in 0..CbAtoms /\ <<>> = <<>>
    BY CbAssumption DEF CbTargets
  <1>3. ASSUME UNCHANGED cbE PROVE CapsStay
    BY <1>3 DEF CapsStay
  <1>4. ASSUME NEW e \in CbEnds,
               \/ ProgramCopies(e) \/ ProgramAnswers(e) \/ ProgramSendsPiece(e) \/ ProgramPastes(e)
               \/ SelectionSourceWaited(e) \/ PastePropertyNotify(e) \/ SelectionClear(e) \/ RecvExtClipboardInvalid(e)
        PROVE  CapsStay
    <2>1. UNCHANGED cbE
      BY <1>4 DEF ProgramCopies, ProgramAnswers, ProgramSendsPiece, ProgramPastes, SelectionSourceWaited,
         PastePropertyNotify, SelectionClear, RecvExtClipboardInvalid
    <2> QED  BY <1>3, <2>1
  <1>5. ASSUME NEW e \in CbEnds, XfixesSetSelectionOwner(e) PROVE CapsStay
    <2> DEFINE f == [cbE[e] EXCEPT !.incr.on = FALSE, !.incr.buf = <<>>]
    <2>1. f \in Fields(e) /\ f.caps = cbE[e].caps
      <3>1. <<>> \in Seq(Pieces(e))
        BY EmptySeq
      <3>2. f \in Fields(e)
        BY <1>1, <3>1, IncrFits
      <3> QED  BY <1>1, <3>2 DEF Fields
    <2>2. ConvertSelection(e, f, CbTargets)
      BY <1>5 DEF XfixesSetSelectionOwner
    <2> HIDE DEF f
    <2> QED  BY <1>2, <2>1, <2>2, CapsStayConverted
  <1>6. ASSUME NEW e \in CbEnds, SelectionReceiveTargets(e) PROVE CapsStay
    <2>1. \/ ConvertSelection(e, cbE[e], 1)
          \/ \E b : cbE' = [cbE EXCEPT ![e].local = b]
          \/ UNCHANGED cbE
      BY <1>6 DEF SelectionReceiveTargets
    <2>2. ASSUME NEW b, cbE' = [cbE EXCEPT ![e].local = b] PROVE CapsStay
      <3>1. [cbE[e] EXCEPT !.local = b].caps = cbE[e].caps
        BY <1>1 DEF Fields
      <3> QED  BY <2>2, <3>1, CapsStayAt
    <2> QED  BY <1>1, <1>2, <1>3, <2>1, <2>2, CapsStayConverted
  <1>7. ASSUME NEW e \in CbEnds, NEW f, f.caps = cbE[e].caps, NEW text, SelectionReceiveData(e, f, text), f \in Fields(e)
        PROVE  CapsStay
    <2>1. cbE' = [cbE EXCEPT ![e] = [f EXCEPT !.clip = text]] \/ cbE' = [cbE EXCEPT ![e] = f]
      BY <1>7 DEF SelectionReceiveData, SelectionReceived
    <2>2. [f EXCEPT !.clip = text].caps = f.caps
      BY <1>7 DEF Fields
    <2> QED  BY <1>7, <2>1, <2>2, CapsStayAt
  <1>8. ASSUME NEW e \in CbEnds, SelectionNotify(e) PROVE CapsStay
    <2>1. \/ UNCHANGED cbE
          \/ \E i : cbE' = [cbE EXCEPT ![e].incr = i]
          \/ SelectionReceiveData(e, cbE[e], cbX[e].prop.text)
      BY <1>8 DEF SelectionNotify
    <2>2. ASSUME NEW i, cbE' = [cbE EXCEPT ![e].incr = i] PROVE CapsStay
      <3>1. [cbE[e] EXCEPT !.incr = i].caps = cbE[e].caps
        BY <1>1 DEF Fields
      <3> QED  BY <2>2, <3>1, CapsStayAt
    <2> QED  BY <1>1, <1>3, <1>7, <2>1, <2>2
  <1>9. ASSUME NEW e \in CbEnds, CopyPropertyNotify(e) PROVE CapsStay
    <2>1. \/ UNCHANGED cbE
          \/ \E b : cbE' = [cbE EXCEPT ![e].incr.buf = b]
          \/ SelectionReceiveData(e, [cbE[e] EXCEPT !.incr.buf = <<>>], cbE[e].incr.buf)
      BY <1>9 DEF CopyPropertyNotify
    <2>2. ASSUME NEW b, cbE' = [cbE EXCEPT ![e].incr.buf = b] PROVE CapsStay
      <3>1. [cbE[e] EXCEPT !.incr.buf = b].caps = cbE[e].caps
        BY <1>1 DEF Fields
      <3>2. cbE' = [cbE EXCEPT ![e] = [cbE[e] EXCEPT !.incr.buf = b]]
        BY <2>2
      <3> QED  BY <3>1, <3>2, CapsStayAt
    <2>3. [cbE[e] EXCEPT !.incr.buf = <<>>] \in Fields(e) /\ [cbE[e] EXCEPT !.incr.buf = <<>>].caps = cbE[e].caps
      <3>1. <<>> \in Seq(Pieces(e))
        BY EmptySeq
      <3>2. [cbE[e] EXCEPT !.incr.buf = <<>>] \in Fields(e)
        BY <1>1, <3>1, IncrFits
      <3> QED  BY <1>1, <3>2 DEF Fields
    <2> QED  BY <1>3, <1>7, <2>1, <2>2, <2>3
  <1>10. ASSUME NEW e \in CbEnds, SelectionRequest(e) PROVE CapsStay
    <2>1. UNCHANGED cbE \/ cbE' = [cbE EXCEPT ![e] = [cbE[e] EXCEPT !.clip = <<>>, !.provide = TRUE]]
      BY <1>10 DEF SelectionRequest, SelectionSourceReady
    <2>2. [cbE[e] EXCEPT !.clip = <<>>, !.provide = TRUE].caps = cbE[e].caps
      BY <1>1 DEF Fields
    <2> QED  BY <1>3, <2>1, <2>2, CapsStayAt
  <1>11. ASSUME NEW e \in CbEnds, RecvExtClipboardCaps(e) \/ RecvCutText(e) \/ RecvExtClipboardNotify(e) \/ RecvExtClipboardProvide(e)
         PROVE  CapsStay
    <2>1. \/ cbE' = [cbE EXCEPT ![e] = [cbE[e] EXCEPT !.caps = TRUE]]
          \/ \E text : cbE' = [cbE EXCEPT ![e] = [cbE[e] EXCEPT !.clip = text]]
          \/ \E b : cbE' = [cbE EXCEPT ![e] = [cbE[e] EXCEPT !.remote = b]]
          \/ \E text : cbE' = [cbE EXCEPT ![e] = [cbE[e] EXCEPT !.clip = text, !.provide = FALSE]]
          \/ UNCHANGED cbE
      BY <1>11 DEF RecvExtClipboardCaps, RecvCutText, RecvExtClipboardNotify, RecvExtClipboardProvide
    <2>2. /\ [cbE[e] EXCEPT !.caps = TRUE].caps
          /\ \A text : [cbE[e] EXCEPT !.clip = text].caps = cbE[e].caps
          /\ \A b : [cbE[e] EXCEPT !.remote = b].caps = cbE[e].caps
          /\ \A text : [cbE[e] EXCEPT !.clip = text, !.provide = FALSE].caps = cbE[e].caps
      BY <1>1 DEF Fields
    <2> QED  BY <1>3, <2>1, <2>2, CapsStayAt
  <1>12. ASSUME NEW e \in CbEnds, NEW a \in 0..CbAtoms, LocalDataAtom(e, a) PROVE CapsStay
    <2> DEFINE f == [cbE[e] EXCEPT !.clip = <<>>]
    <2>1. f \in Fields(e) /\ f.caps = cbE[e].caps
      <3>1. <<>> \in Seq(Pieces(e))
        BY EmptySeq
      <3> QED  BY <1>1, <3>1 DEF Fields
    <2>2. ConvertSelection(e, f, a)
      BY <1>12 DEF LocalDataAtom
    <2> HIDE DEF f
    <2> QED  BY <1>12, <2>1, <2>2, CapsStayConverted
  <1>13. ASSUME NEW e \in CbEnds, RecvExtClipboardRequest(e) \/ LocalDataWaited(e) PROVE CapsStay
    <2>1. cbRd[e] \in 0..CbAtoms
      BY DEF CbInv, EndTyped
    <2>2. \/ UNCHANGED cbE \/ LocalDataAtom(e, 1)
          \/ MoreAtoms(cbRd[e]) /\ LocalDataAtom(e, cbRd[e] + 1)
      BY <1>13 DEF RecvExtClipboardRequest, LocalDataWaited
    <2>3. MoreAtoms(cbRd[e]) => cbRd[e] + 1 \in 0..CbAtoms
      BY <2>1, CbAssumption DEF MoreAtoms
    <2> QED  BY <1>2, <1>3, <1>12, <2>2, <2>3
  <1> QED  BY <1>4, <1>5, <1>6, <1>8, <1>9, <1>10, <1>11, <1>13 DEF CbNext

LEMMA CopiesCounted ==
  ASSUME CbInv, NEW e \in CbEnds
  PROVE  /\ ProgramCopies(e) => cbLeft'.id = cbLeft.id + 1
         /\ CbNext => cbLeft'.id \in {cbLeft.id, cbLeft.id + 1}
  <1>1. CbFunctions
    BY DEF CbInv
  <1>2. ASSUME NEW d \in CbEnds, ProgramCopies(d) PROVE cbLeft'.id = cbLeft.id + 1
    BY <1>1, <1>2 DEF ProgramCopies, CbFunctions
  <1>3. ASSUME NEW d \in CbEnds, ProgramPastes(d) PROVE cbLeft'.id = cbLeft.id
    BY <1>1, <1>3 DEF ProgramPastes, CbFunctions
  <1>4. ASSUME CbNext PROVE cbLeft'.id \in {cbLeft.id, cbLeft.id + 1}
    <2>1. (\E d \in CbEnds : ProgramCopies(d) \/ ProgramPastes(d)) \/ UNCHANGED cbLeft
      BY <1>4 DEF CbNext, ProgramAnswers, ProgramSendsPiece, XfixesSetSelectionOwner, SelectionReceiveTargets,
         SelectionNotify, CopyPropertyNotify, SelectionRequest, SelectionSourceWaited, PastePropertyNotify,
         SelectionClear, RecvExtClipboardCaps, RecvCutText, RecvExtClipboardNotify, RecvExtClipboardRequest,
         LocalDataWaited, RecvExtClipboardProvide, RecvExtClipboardInvalid
    <2> QED  BY <1>2, <1>3, <2>1
  <1> QED  BY <1>2, <1>4

-----------------------------------------------------------------------------
\* What does not change at an end.
LEMMA StillSame ==
  ASSUME NEW d, Still(d)
  PROVE  /\ Bare(d) => Bare(d)'
         /\ Taking(d) => Taking(d)'
         /\ Giving(d) => Giving(d)'
         /\ Given(d) => Given(d)'
  <1>1. (Bare(d) => Bare(d)') /\ (Taking(d) => Taking(d)') /\ (Given(d) => Given(d)')
    BY DEF Still, Bare, Taking, Given, NotSending, Holds
  <1>2. (Announced(d) => Announced(d)') /\ (ListAsked(d) => ListAsked(d)') /\ (ListPut(d) => ListPut(d)')
    BY DEF Still, Announced, ListAsked, ListPut, NotSending, Holds
  <1>3. (TextAsked(d) => TextAsked(d)') /\ (TextPut(d) => TextPut(d)')
    BY DEF Still, TextAsked, TextPut, NotSending, Holds
  <1>4. (PieceTaken(d) => PieceTaken(d)') /\ (PiecePut(d) => PiecePut(d)')
    BY DEF Still, PieceTaken, PiecePut, Holds
  <1> QED  BY <1>1, <1>2, <1>3, <1>4 DEF Giving

LEMMA SingleSame ==
  ASSUME Single, UNCHANGED <<cbX, cbAsk, cbEv, cbE, cbXt, cbRd, cbNet, cbLeft>>
  PROVE  Single'
  <1>1. \A d \in CbEnds : Still(d)
    BY DEF Still
  <1>2. \A d \in CbEnds : Bare(d)'
    BY <1>1, StillSame DEF Single
  <1>3. CASE cbLeft.id = 0
    <2>1. \A d \in CbEnds : Untouched(d)'
      BY <1>1, <1>3, StillSame DEF Single, Untouched
    <2> QED  BY <1>2, <1>3, <2>1 DEF Single
  <1>4. CASE cbLeft.id = 1
    <2>1. PICK e \in CbEnds : OneCopy(e, CbOther(e))
      BY <1>4 DEF Single
    <2>2. CbOther(e) \in CbEnds
      BY TwoEnds
    <2>3. OneCopy(e, CbOther(e))'
      BY <1>1, <2>1, <2>2, StillSame DEF OneCopy
    <2> QED  BY <1>2, <1>4, <2>3 DEF Single
  <1> QED  BY <1>3, <1>4 DEF Single

LEMMA SingleGives ==
  ASSUME \A d \in CbEnds : Bare(d), cbLeft.id = 1, NEW e \in CbEnds, OneCopy(e, CbOther(e)),
         cbNet[CbOther(e)] = <<>>, GivesOn(e, CbOther(e))
  PROVE  Single'
  <1> DEFINE o == CbOther(e)
  <1>1. o \in CbEnds /\ \A d \in CbEnds : d = e \/ d = o
    BY TwoEnds
  <1>2. \A d \in CbEnds : Bare(d)'
    BY <1>1, StillSame DEF GivesOn
  <1>3. Taking(o)' /\ cbLeft'.id = 1
    BY StillSame DEF GivesOn, OneCopy
  <1>4. cbX[e].text # <<>> /\ cbNet[e] = <<>>
    BY DEF OneCopy
  <1>5. cbX'[e].owner = "prog" /\ cbX'[e].text = cbX[e].text /\ cbNet'[e] = cbNet[e]
    BY DEF GivesOn
  <1>6. CASE Giving(e)' /\ cbNet'[o] = cbNet[o]
    BY <1>3, <1>4, <1>5, <1>6, <1>2 DEF OneCopy, Single
  <1>7. CASE Given(e)' /\ cbNet'[o] = Append(cbNet[o], CbMsg("text", cbX[e].text))
    <2>1. cbNet'[o] = <<CbMsg("text", cbX[e].text)>>
      BY <1>7, OneQueue
    <2>2. CbMsg("text", cbX[e].text)' = CbMsg("text", cbX[e].text)
      BY <1>5 DEF CbMsg
    <2> QED  BY <1>2, <1>3, <1>4, <1>5, <1>7, <2>1, <2>2 DEF OneCopy, Single
  <1> QED  BY <1>6, <1>7 DEF GivesOn

LEMMA SingleTakes ==
  ASSUME \A d \in CbEnds : Bare(d), cbLeft.id = 1, NEW e \in CbEnds, OneCopy(e, CbOther(e)), TakesOn(CbOther(e), e)
  PROVE  Single'
  <1> DEFINE o == CbOther(e)
  <1>1. o \in CbEnds /\ \A d \in CbEnds : d = e \/ d = o
    BY TwoEnds
  <1>2. Still(e) /\ Bare(o)' /\ Taking(o)' /\ cbLeft'.id = cbLeft.id /\ cbNet'[e] = cbNet[e]
    BY DEF TakesOn
  <1>3. \A d \in CbEnds : Bare(d)'
    BY <1>1, <1>2, StillSame
  <1>4. (Giving(e) => Giving(e)') /\ (Given(e) => Given(e)') /\ cbX'[e] = cbX[e]
    BY <1>2, StillSame DEF Still
  <1>5. CASE cbNet'[o] = cbNet[o] /\ cbX'[o].owner = cbX[o].owner /\ cbE'[o].clip = cbE[o].clip
    <2>1. OneCopy(e, o)'
      BY <1>2, <1>4, <1>5 DEF OneCopy
    <2> QED  BY <1>2, <1>3, <2>1 DEF Single
  <1>6. CASE cbNet[o] # <<>> /\ cbNet'[o] = Tail(cbNet[o]) /\ cbX'[o].owner = "ltsm" /\ cbE'[o].clip = Head(cbNet[o]).text
    <2>1. Given(e) /\ cbNet[o] = <<CbMsg("text", cbX[e].text)>>
      BY <1>6 DEF OneCopy
    <2>2. cbNet'[o] = <<>> /\ Head(cbNet[o]).text = cbX[e].text
      BY <1>6, <2>1, OneQueue DEF CbMsg
    <2>3. OneCopy(e, o)'
      BY <1>2, <1>4, <1>6, <2>1, <2>2 DEF OneCopy
    <2> QED  BY <1>2, <1>3, <2>3 DEF Single
  <1> QED  BY <1>5, <1>6 DEF TakesOn

\* The steps that nothing can take part in without the extension.
Silent(e) ==
    \/ SelectionSourceWaited(e) \/ SelectionClear(e) \/ RecvExtClipboardCaps(e) \/ RecvExtClipboardNotify(e)
    \/ RecvExtClipboardRequest(e) \/ LocalDataWaited(e) \/ RecvExtClipboardProvide(e) \/ RecvExtClipboardInvalid(e)
LEMMA SilentNever ==
  ASSUME NEW e, Bare(e), cbNet[e] = <<>> \/ (\E m : cbNet[e] = <<m>> /\ m.op = "text"),
         cbEv[e] # <<>> => Head(cbEv[e]).k # "clear"
  PROVE  ~Silent(e)
  <1>1. \A op : CbTakes(e, op) => op = "text"
    BY OneQueue DEF CbTakes
  <1>2. cbXt[e] # "wait" /\ cbRd[e] = 0
    BY DEF Bare
  <1> QED  BY <1>1, <1>2 DEF Silent, SelectionSourceWaited, SelectionClear, CbEvent, RecvExtClipboardCaps,
           RecvExtClipboardNotify, RecvExtClipboardRequest, LocalDataWaited, RecvExtClipboardProvide, RecvExtClipboardInvalid

\* The steps at the end that gives: each is the next of the series.
LEMMA GiverSteps ==
  ASSUME CbInv, NEW e \in CbEnds, Bare(e), OneCopy(e, CbOther(e)),
         \/ ProgramAnswers(e) \/ ProgramSendsPiece(e) \/ ProgramPastes(e) \/ XfixesSetSelectionOwner(e)
         \/ SelectionReceiveTargets(e) \/ SelectionNotify(e) \/ CopyPropertyNotify(e) \/ SelectionRequest(e)
         \/ RecvCutText(e) \/ Silent(e)
  PROVE  cbNet[CbOther(e)] = <<>> /\ GivesOn(e, CbOther(e))
  <1> DEFINE o == CbOther(e)
  <1>1. cbX[e].owner = "prog" /\ cbX[e].text # <<>> /\ cbNet[e] = <<>>
    BY DEF OneCopy
  <1>2. (Giving(e) /\ cbNet[o] = <<>>) \/ Given(e)
    BY DEF OneCopy
  <1>3. cbEv[e] # <<>> =>
            /\ cbNet[o] = <<>>
            /\ \/ Announced(e) /\ Head(cbEv[e]) = Event("owner", 0)
               \/ ListPut(e) /\ Head(cbEv[e]) = Event("notify", CbTargets)
               \/ TextPut(e) /\ Head(cbEv[e]) = Event("notify", 1)
               \/ PiecePut(e) /\ Head(cbEv[e]) = Event("piece", 0)
    BY <1>2, OneQueue DEF Giving, Given, Holds, Announced, ListAsked, ListPut, TextAsked, TextPut, PieceTaken, PiecePut
  <1>4. \A k, t : Event(k, t).k = k /\ Event(k, t).t = t
    BY DEF Event
  <1>5. cbAsk[e] # <<>> => cbNet[o] = <<>> /\ (ListAsked(e) \/ TextAsked(e))
    BY <1>2 DEF Giving, Given, Holds, Announced, ListPut, TextPut, PieceTaken, PiecePut
  <1>6. ~Silent(e) /\ ~RecvCutText(e)
    <2>1. cbEv[e] # <<>> => Head(cbEv[e]).k # "clear"
      BY <1>3, <1>4
    <2>2. ~RecvCutText(e)
      BY <1>1 DEF RecvCutText, CbTakes
    <2> QED  BY <1>1, <2>1, <2>2, SilentNever
  <1>7. CASE ProgramAnswers(e)
    <2>1. cbAsk[e] # <<>>
      BY <1>7 DEF ProgramAnswers
    <2> QED  BY <1>1, <1>5, <1>7, <2>1, GiverAnswers
  <1>8. CASE ProgramSendsPiece(e)
    <2>1. cbX[e].send # <<>> /\ cbX[e].prop = CbNoProp
      BY <1>8 DEF ProgramSendsPiece
    <2>2. CbNoProp.k = "none" /\ CbNoProp.text = <<>>
      BY DEF CbNoProp
    <2>3. PieceTaken(e) /\ cbNet[o] = <<>>
      BY <1>2, <2>1, <2>2 DEF Giving, Given, Announced, ListAsked, ListPut, TextAsked, TextPut, PiecePut, NotSending
    <2> QED  BY <1>1, <1>8, <2>3, GiverSends
  <1>9. CASE ProgramPastes(e) \/ SelectionRequest(e)
    <2>1. FALSE
      BY <1>1, <1>3, <1>4, <1>9 DEF ProgramPastes, SelectionRequest, CbEvent
    <2> QED  BY <2>1
  <1>10. CASE XfixesSetSelectionOwner(e)
    <2>1. cbEv[e] # <<>> /\ Head(cbEv[e]).k = "owner"
      BY <1>10 DEF XfixesSetSelectionOwner, CbEvent
    <2>2. Announced(e) /\ cbNet[o] = <<>>
      BY <1>3, <1>4, <2>1
    <2> QED  BY <1>1, <1>10, <2>2, GiverAnnounced
  <1>11. CASE SelectionReceiveTargets(e)
    <2>1. cbEv[e] # <<>> /\ Head(cbEv[e]).k = "notify" /\ Head(cbEv[e]).t = CbTargets
      BY <1>11 DEF SelectionReceiveTargets, CbEvent
    <2>2. ListPut(e) /\ cbNet[o] = <<>>
      BY <1>3, <1>4, <2>1 DEF CbTargets
    <2> QED  BY <1>1, <1>11, <2>2, GiverListed
  <1>12. CASE SelectionNotify(e)
    <2>1. cbEv[e] # <<>> /\ Head(cbEv[e]).k = "notify" /\ Head(cbEv[e]).t # CbTargets
      BY <1>12 DEF SelectionNotify, CbEvent
    <2>2. TextPut(e) /\ cbNet[o] = <<>>
      BY <1>3, <1>4, <2>1
    <2> QED  BY <1>1, <1>12, <2>2, GiverNotified
  <1>13. CASE CopyPropertyNotify(e)
    <2>1. cbEv[e] # <<>> /\ Head(cbEv[e]).k = "piece"
      BY <1>13 DEF CopyPropertyNotify, CbEvent
    <2>2. PiecePut(e) /\ cbNet[o] = <<>>
      BY <1>3, <1>4, <2>1
    <2> QED  BY <1>1, <1>13, <2>2, GiverTakes
  <1> QED  BY <1>6, <1>7, <1>8, <1>9, <1>10, <1>11, <1>12, <1>13

LEMMA TakerSteps ==
  ASSUME CbInv, NEW o \in CbEnds, Bare(o), Taking(o),
         cbNet[o] = <<>> \/ (\E m : cbNet[o] = <<m>> /\ m.op = "text"),
         \/ ProgramAnswers(o) \/ ProgramSendsPiece(o) \/ ProgramPastes(o) \/ XfixesSetSelectionOwner(o)
         \/ SelectionReceiveTargets(o) \/ SelectionNotify(o) \/ CopyPropertyNotify(o) \/ SelectionRequest(o)
         \/ RecvCutText(o) \/ Silent(o)
  PROVE  TakesOn(o, CbOther(o))
  <1>1. cbEv[o] # <<>> => Head(cbEv[o]).k \in {"owner", "request"}
    <2>1. cbEv[o] \in Seq(Events) /\ Passive(cbEv[o])
      BY EndValues DEF Taking, Passive
    <2> QED  BY <2>1, PassiveQueue
  <1>2. ~Silent(o)
    BY <1>1, SilentNever
  <1>3. ~ProgramAnswers(o) /\ ~ProgramSendsPiece(o)
    BY DEF Taking, NotSending, ProgramAnswers, ProgramSendsPiece
  <1>4. ~SelectionReceiveTargets(o) /\ ~SelectionNotify(o) /\ ~CopyPropertyNotify(o)
    BY <1>1 DEF SelectionReceiveTargets, SelectionNotify, CopyPropertyNotify, CbEvent
  <1> QED  BY <1>2, <1>3, <1>4, TakerReceives, TakerAsks, TakerPastes

\* The first copy begins the series.
LEMMA FirstCopy ==
  ASSUME CbInv, Single, cbLeft.id = 0, NEW e \in CbEnds, ProgramCopies(e)
  PROVE  Single'
  <1> DEFINE o == CbOther(e)
             v == [k |-> "owner", t |-> 0, who |-> "self"]
  <1>1. o \in CbEnds /\ o # e /\ CbFunctions /\ cbX[e] \in Displays(e)
    BY TwoEnds, EndValues DEF EndTyped
  <1>2. (\A d \in CbEnds : Bare(d)) /\ Untouched(e) /\ Untouched(o)
    BY <1>1 DEF Single
  <1>3. PICK n \in CbSizes : cbX' = [cbX EXCEPT ![e].owner = "prog", ![e].text = [i \in 1 .. n |-> [by |-> e, id |-> cbLeft.id + 1]]]
    BY DEF ProgramCopies
  <1> DEFINE text == [i \in 1 .. n |-> [by |-> e, id |-> cbLeft.id + 1]]
             X == [cbX[e] EXCEPT !.owner = "prog", !.text = text]
  <1>4. text # <<>>
    <2>1. n \in Nat \ {0}
      BY CbAssumption
    <2>2. DOMAIN text = 1..n
      OBVIOUS
    <2>3. text \in Seq({[by |-> e, id |-> cbLeft.id + 1]})
      BY <2>1, SeqDef
    <2> HIDE DEF text
    <2>4. Len(text) = n /\ Len(<<>>) = 0
      BY <2>1, <2>2, <2>3, LenProperties, EmptySeq
    <2> QED  BY <2>1, <2>4
  <1> HIDE DEF text, o
  <1>5. X.owner = "prog" /\ X.text = text /\ X.send = cbX[e].send
    BY <1>1 DEF Displays
  <1>6. cbX' = [cbX EXCEPT ![e] = X]
    BY <1>1, <1>3 DEF Displays, text
  <1> HIDE DEF X
  <1>7. cbEv' = [cbEv EXCEPT ![e] = <<v>>]
    <2>1. cbEv[e] = <<>> /\ cbX[e].owner # "ltsm"
      BY <1>2 DEF Untouched
    <2>2. <<>> \o <<>> \o <<v>> = <<v>>
      OBVIOUS
    <2>3. cbEv' = [cbEv EXCEPT ![e] = cbEv[e] \o <<>> \o <<v>>]
      BY <2>1 DEF ProgramCopies
    <2> QED  BY <2>1, <2>2, <2>3
  <1>8. v = Event("owner", 0)
    BY DEF Event
  <1> HIDE DEF v
  <1>9. cbAsk' = [cbAsk EXCEPT ![e] = <<>>] /\ UNCHANGED <<cbE, cbXt, cbRd, cbNet>>
    BY DEF ProgramCopies
  <1>10. /\ cbX'[e] = X /\ cbEv'[e] = <<Event("owner", 0)>> /\ cbAsk'[e] = <<>>
         /\ \A d \in CbEnds : d # e => cbX'[d] = cbX[d] /\ cbEv'[d] = cbEv[d] /\ cbAsk'[d] = cbAsk[d]
    BY <1>1, <1>6, <1>7, <1>8, <1>9 DEF CbFunctions
  <1>11. Still(o)
    BY <1>1, <1>9, <1>10 DEF Still
  <1>12. \A d \in CbEnds : Bare(d)'
    BY <1>2, <1>9 DEF Bare
  <1>13. Taking(o)' /\ cbNet[o] = <<>> /\ cbNet[e] = <<>>
    BY <1>2, <1>11, StillSame DEF Untouched
  <1>14. Announced(e)'
    BY <1>2, <1>5, <1>9, <1>10 DEF Announced, Holds, NotSending, Untouched, Taking
  <1>15. OneCopy(e, o)'
    BY <1>4, <1>5, <1>9, <1>10, <1>13, <1>14 DEF OneCopy, Giving
  <1>16. cbLeft'.id = 1
    BY CopiesCounted
  <1> QED  BY <1>12, <1>15, <1>16 DEF Single, o

\* Without a copy nothing moves but what an earlier paste may still do.
LEMMA UntouchedSteps ==
  ASSUME NEW e, Bare(e), Untouched(e),
         \/ ProgramAnswers(e) \/ ProgramSendsPiece(e) \/ ProgramPastes(e) \/ XfixesSetSelectionOwner(e)
         \/ SelectionReceiveTargets(e) \/ SelectionNotify(e) \/ CopyPropertyNotify(e) \/ SelectionRequest(e)
         \/ RecvCutText(e) \/ Silent(e)
  PROVE  FALSE
  <1>1. cbEv[e] = <<>> /\ cbNet[e] = <<>> /\ cbX[e].owner = "none" /\ cbAsk[e] = <<>> /\ cbX[e].send = <<>>
    BY DEF Untouched, Taking, NotSending
  <1>2. ~Silent(e)
    BY <1>1, SilentNever
  <1> QED  BY <1>1, <1>2 DEF ProgramAnswers, ProgramSendsPiece, ProgramPastes, XfixesSetSelectionOwner, SelectionReceiveTargets,
           SelectionNotify, CopyPropertyNotify, SelectionRequest, RecvCutText, CbEvent, CbTakes

LEMMA SingleNext ==
  ASSUME CbInv, Single, CbNext, cbLeft'.id \in {0, 1}
  PROVE  Single'
  <1>0. \A d \in CbEnds : Bare(d)
    BY DEF Single
  <1>1. PICK d \in CbEnds :
            \/ ProgramCopies(d) \/ PastePropertyNotify(d)
            \/ ProgramAnswers(d) \/ ProgramSendsPiece(d) \/ ProgramPastes(d) \/ XfixesSetSelectionOwner(d)
            \/ SelectionReceiveTargets(d) \/ SelectionNotify(d) \/ CopyPropertyNotify(d) \/ SelectionRequest(d)
            \/ RecvCutText(d) \/ Silent(d)
    BY DEF CbNext, Silent
  <1>2. CASE PastePropertyNotify(d)
    <2>1. UNCHANGED <<cbX, cbAsk, cbEv, cbE, cbXt, cbRd, cbNet, cbLeft>>
      BY <1>2 DEF PastePropertyNotify
    <2> QED  BY <2>1, SingleSame
  <1>3. CASE ProgramCopies(d)
    <2>1. cbLeft'.id = cbLeft.id + 1
      BY <1>3, CopiesCounted
    <2>2. cbLeft.id = 0
      BY <2>1 DEF Single
    <2> QED  BY <1>3, <2>2, FirstCopy
  <1>4. CASE /\ ~ProgramCopies(d) /\ ~PastePropertyNotify(d)
             /\ cbLeft.id = 0 /\ \A e \in CbEnds : Untouched(e)
    BY <1>0, <1>1, <1>4, UntouchedSteps
  <1>5. ASSUME ~ProgramCopies(d), ~PastePropertyNotify(d), cbLeft.id = 1, NEW e \in CbEnds, OneCopy(e, CbOther(e))
        PROVE  Single'
    <2>1. CASE d = e
      <3>1. cbNet[CbOther(e)] = <<>> /\ GivesOn(e, CbOther(e))
        BY <1>0, <1>1, <1>5, <2>1, GiverSteps
      <3> QED  BY <1>0, <1>5, <3>1, SingleGives
    <2>2. CASE d = CbOther(e)
      <3>1. Taking(d) /\ (cbNet[d] = <<>> \/ \E m : cbNet[d] = <<m>> /\ m.op = "text")
        <4>1. cbNet[d] = <<>> \/ cbNet[d] = <<CbMsg("text", cbX[e].text)>>
          BY <1>5, <2>2 DEF OneCopy
        <4>2. CbMsg("text", cbX[e].text).op = "text"
          BY DEF CbMsg
        <4> QED  BY <1>5, <2>2, <4>1, <4>2 DEF OneCopy
      <3>2. TakesOn(d, CbOther(d))
        BY <1>0, <1>1, <1>5, <3>1, TakerSteps
      <3>3. CbOther(d) = e
        BY <2>2, TwoEnds
      <3> QED  BY <1>0, <1>5, <2>2, <3>2, <3>3, SingleTakes
    <2> QED  BY <2>1, <2>2, TwoEnds
  <1> QED  BY <1>2, <1>3, <1>4, <1>5 DEF Single

LEMMA CopyInvNext == CopyInv /\ [CbNext]_cbVars => CopyInv'
  <1> SUFFICES ASSUME CopyInv, [CbNext]_cbVars PROVE CopyInv'
    OBVIOUS
  <1>1. CbInv /\ CbInv' /\ cbLeft.id \in Nat
    BY CbInvNext DEF CopyInv, CbInv, CbFunctions
  <1>2. CASE UNCHANGED cbVars
    <2>1. UNCHANGED <<cbX, cbAsk, cbEv, cbE, cbXt, cbRd, cbNet, cbLeft>>
      BY <1>2 DEF cbVars
    <2> QED  BY <1>1, <2>1, SingleSame DEF CopyInv
  <1>3. CASE CbNext
    <2>1. "srv" \in CbEnds
      BY DEF CbEnds
    <2>2. CASE cbE["srv"].caps
      BY <1>1, <1>3, <2>1, <2>2, CapsStayNext DEF CapsStay, CopyInv
    <2>3. cbLeft'.id \in {cbLeft.id, cbLeft.id + 1}
      BY <1>1, <1>3, <2>1, CopiesCounted
    <2>4. CASE cbLeft.id > 1
      BY <1>1, <2>3, <2>4 DEF CopyInv
    <2>5. CASE Single
      <3>1. cbLeft'.id \in {0, 1} \/ cbLeft'.id > 1
        BY <2>3, <2>5 DEF Single
      <3>2. CASE cbLeft'.id \in {0, 1}
        BY <1>1, <1>3, <2>5, <3>2, SingleNext DEF CopyInv
      <3> QED  BY <1>1, <3>1, <3>2 DEF CopyInv
    <2> QED  BY <2>2, <2>4, <2>5 DEF CopyInv
  <1> QED  BY <1>2, <1>3

LEMMA CopyInvInit == CbInit => CopyInv
  <1> SUFFICES ASSUME CbInit PROVE CopyInv
    OBVIOUS
  <1>1. PICK ext \in CbExtended :
            /\ cbE = [e \in CbEnds |-> [caps |-> ext /\ e = "srv", clip |-> <<>>, local |-> FALSE, remote |-> FALSE,
                                        provide |-> FALSE, target |-> CbTargets,
                                        incr |-> [on |-> FALSE, target |-> 0, buf |-> <<>>]]]
            /\ cbNet = [e \in CbEnds |-> IF ext /\ e = "cli" THEN <<CbMsg("caps", <<>>)>> ELSE <<>>]
    BY DEF CbInit
  <1>2. CASE ext
    <2>1. cbE["srv"].caps
      BY <1>1, <1>2 DEF CbEnds
    <2> QED  BY <2>1, CbInvInit DEF CopyInv
  <1>3. CASE ~ext
    <2>1. ASSUME NEW e \in CbEnds PROVE Bare(e) /\ Untouched(e)
      <3>1. cbX[e].owner = "none" /\ cbX[e].send = <<>> /\ cbAsk[e] = <<>> /\ cbEv[e] = <<>> /\ cbXt[e] = "loop" /\ cbRd[e] = 0
        BY DEF CbInit
      <3>2. ~cbE[e].caps /\ ~cbE[e].incr.on /\ cbNet[e] = <<>>
        BY <1>1, <1>3
      <3>3. Len(cbEv[e]) = 0
        BY <3>1, EmptySeq
      <3> QED  BY <3>1, <3>2, <3>3 DEF Bare, Untouched, Taking, NotSending
    <2>2. cbLeft.id = 0
      BY DEF CbInit
    <2> QED  BY <2>1, <2>2, CbInvInit DEF CopyInv, Single
  <1> QED  BY <1>2, <1>3

\* At rest the series is over, and at its end the text has come.
LEMMA CopyInvGives == CopyInv => CbDelivered
  <1> SUFFICES ASSUME CopyInv, CbQuiet, cbLeft.id = 1, NEW e \in CbEnds,
                      cbX[e].owner = "prog", ~cbE[e].caps, ~cbE[CbOther(e)].caps
               PROVE  cbX[CbOther(e)].owner = "ltsm" /\ cbE[CbOther(e)].clip = cbX[e].text
    BY DEF CbDelivered
  <1>1. ~cbE["srv"].caps
    BY DEF CbEnds, CbOther
  <1>2. PICK d \in CbEnds : OneCopy(d, CbOther(d))
    BY <1>1 DEF CopyInv, Single
  <1>3. CbOther(d) \in CbEnds /\ cbX[CbOther(d)].owner # "prog"
    BY <1>2, TwoEnds DEF OneCopy, Taking
  <1>4. d = e
    BY <1>3, TwoEnds
  <1>5. cbEv[e] = <<>> /\ cbAsk[e] = <<>> /\ cbNet[CbOther(e)] = <<>> /\ cbX[e].send = <<>>
    BY <1>3, <1>4 DEF CbQuiet
  <1>6. ~Giving(e)
    BY <1>5, OneQueue DEF Giving, Holds, Announced, ListAsked, ListPut, TextAsked, TextPut, PieceTaken, PiecePut
  <1> QED  BY <1>2, <1>4, <1>5, <1>6, OneQueue DEF OneCopy

(* A text that is copied once reaches the other end whole: asked for when  *)
(* the copy is announced, given at once or in pieces by INCR and joined in *)
(* their order, sent as cut text and put where the programs there paste    *)
(* it; for any length of the text and whatever is pasted meanwhile         *)
(* (XCB::ModuleCopySelection, X11Server and X11Client without the          *)
(* extension).                                                             *)
THEOREM CopyDelivered == CbSpec => []CbDelivered
  <1>1. CbInit => CopyInv
    BY CopyInvInit
  <1>2. CopyInv /\ [CbNext]_cbVars => CopyInv'
    BY CopyInvNext
  <1>3. CopyInv => CbDelivered
    BY CopyInvGives
  <1> QED  BY <1>1, <1>2, <1>3, PTL DEF CbSpec
=============================================================================
