------------------------------ MODULE Clipboard ------------------------------
(***************************************************************************)
(* The clipboard between the session's display and the client's:           *)
(* RFB::ExtClip (src/librfb/librfb_extclip.cpp), its two users X11Server   *)
(* and X11Client, and XCB::ModulePasteSelection and ModuleCopySelection    *)
(* (src/common/ltsm_xcb_wrapper.cpp).                                      *)
(*                                                                         *)
(* Both ends run the same code in two threads: one handles X events, the   *)
(* other the peer's messages, and both block in waits with a time limit.   *)
(* One program at each end copies and pastes.  A text is a sequence of     *)
(* pieces, each named for the copy it belongs to; one piece fits in an X   *)
(* request, longer texts are moved by INCR.                                *)
(***************************************************************************)
EXTENDS Naturals, Sequences, FiniteSets

CONSTANTS
    CbExtended,  \* whether the client runs with --extclip: a set of Booleans
    CbPeers,     \* the client: "ltsm", or "viewer", another program's
    CbSizes,     \* pieces in a text
    CbAtoms,     \* atoms of the text type
    CbCopies,    \* copies in a behaviour
    CbPastes     \* pastes in a behaviour

ASSUME CbAssumption == CbAtoms \in Nat \ {0} /\ CbSizes \subseteq Nat \ {0} /\ CbPeers \subseteq {"ltsm", "viewer"}

CbEnds == {"srv", "cli"}
CbOther(e) == IF e = "srv" THEN "cli" ELSE "srv"

VARIABLES
    cbPeer,   \* who the client is
    cbX,      \* each display: owner of the selection, the owner's text, the property of our window
    cbAsk,    \* conversions the owning program has not answered
    cbEv,     \* X events the end has not handled
    cbE,      \* fields of X11Server and X11Client
    cbXt,     \* the X thread: "loop", or "wait" in selectionSourceReady
    cbRd,     \* the reading thread: 0, or the atom extClipboardLocalData waits for
    cbNet,    \* messages on their way to the end
    cbPaste,  \* the program's paste: its state and what it got
    cbLeft    \* copies and pastes left, and the last copy's number
cbVars == <<cbPeer, cbX, cbAsk, cbEv, cbE, cbXt, cbRd, cbNet, cbPaste, cbLeft>>

CbTargets == 0
CbEnd == [by |-> "none", id |-> 0]
CbNoProp == [k |-> "none", text |-> <<>>]
CbTell(e, m) == cbNet' = [cbNet EXCEPT ![e] = Append(@, m)]
CbMsg(op, text) == [op |-> op, text |-> text]

(* recvSetEncodings: with the client's ExtendedClipboard the server sets   *)
(* its flags and sends its capabilities.                                   *)
CbInit ==
    /\ cbX = [e \in CbEnds |-> [owner |-> "none", text |-> <<>>, prop |-> CbNoProp, send |-> <<>>]]
    /\ cbAsk = [e \in CbEnds |-> <<>>] /\ cbEv = [e \in CbEnds |-> <<>>]
    /\ \E ext \in CbExtended :
        /\ cbPeer \in IF ext THEN CbPeers ELSE {"ltsm"}
        /\ cbE = [e \in CbEnds |-> [caps |-> ext /\ e = "srv", clip |-> <<>>, local |-> FALSE, remote |-> FALSE,
                                    provide |-> FALSE, target |-> CbTargets,
                                    incr |-> [on |-> FALSE, target |-> 0, buf |-> <<>>]]]
        /\ cbNet = [e \in CbEnds |-> IF ext /\ e = "cli" THEN <<CbMsg("caps", <<>>)>> ELSE <<>>]
    /\ cbXt = [e \in CbEnds |-> "loop"] /\ cbRd = [e \in CbEnds |-> 0]
    /\ cbPaste = [e \in CbEnds |-> [st |-> "idle", got |-> <<>>]]
    /\ cbLeft = [copy |-> CbCopies, paste |-> CbPastes, id |-> 0]
-----------------------------------------------------------------------------
(* ModuleCopySelection::convertSelection.  x is what it starts from, the   *)
(* result the fields, the conversions asked for and the events.  An        *)
(* incremental transfer of that atom, finished or not, is delivered as it  *)
(* is; one of another atom is given up.  The X server hands a conversion   *)
(* to the owner: a program, or our own paste window.                       *)
SelectionReceived(f, text) == [f EXCEPT !.clip = text]
ConvertSelection(e, f, t) ==
    LET g == [f EXCEPT !.target = t]
        cached == g.incr.on /\ t = g.incr.target
        h == IF cached THEN [SelectionReceived(g, g.incr.buf) EXCEPT !.incr.buf = <<>>]
             ELSE IF t = CbTargets THEN g ELSE [g EXCEPT !.incr.on = FALSE, !.incr.buf = <<>>]
    IN /\ cbE' = [cbE EXCEPT ![e] = h]
       /\ cbAsk' = IF ~cached /\ cbX[e].owner = "prog" THEN [cbAsk EXCEPT ![e] = Append(@, t)] ELSE cbAsk

(* The event queue after it: a conversion of our own selection comes back. *)
SelfRequest(e, f, t, q) ==
    IF cbX[e].owner = "ltsm" /\ ~(f.incr.on /\ t = f.incr.target)
    THEN Append(q, [k |-> "request", t |-> t, who |-> "self"]) ELSE q
-----------------------------------------------------------------------------
(* The program at e copies.  The X server tells the old owner and whoever  *)
(* selected for changes of the owner.                                      *)
ProgramCopies(e) ==
    /\ cbLeft.copy > 0 /\ cbLeft' = [cbLeft EXCEPT !.copy = @ - 1, !.id = @ + 1]
    /\ \E n \in CbSizes :
        cbX' = [cbX EXCEPT ![e].owner = "prog", ![e].text = [i \in 1 .. n |-> [by |-> e, id |-> cbLeft.id + 1]]]
    /\ cbAsk' = [cbAsk EXCEPT ![e] = <<>>]
    /\ cbEv' = [cbEv EXCEPT ![e] = @ \o (IF cbX[e].owner = "ltsm" THEN <<[k |-> "clear", t |-> 0, who |-> "self"]>> ELSE <<>>)
                                     \o <<[k |-> "owner", t |-> 0, who |-> "self"]>>]
    /\ UNCHANGED <<cbPeer, cbE, cbXt, cbRd, cbNet, cbPaste>>

(* The program answers a conversion, while it owns the selection.          *)
ProgramAnswers(e) ==
    /\ cbAsk[e] # <<>>
    /\ LET t == Head(cbAsk[e])
           k == IF t = CbTargets THEN "targets" ELSE IF Len(cbX[e].text) > 1 THEN "incr" ELSE "data"
       IN /\ cbX' = [cbX EXCEPT ![e].prop = [k |-> k, text |-> IF k = "data" THEN cbX[e].text ELSE <<>>],
                                ![e].send = IF k = "incr" THEN Append(cbX[e].text, CbEnd) ELSE @]
          /\ cbEv' = [cbEv EXCEPT ![e] = Append(@, [k |-> "notify", t |-> t, who |-> "self"])]
    /\ cbAsk' = [cbAsk EXCEPT ![e] = Tail(@)]
    /\ UNCHANGED <<cbPeer, cbE, cbXt, cbRd, cbNet, cbPaste, cbLeft>>

(* The program sends the next piece of an incremental transfer once the    *)
(* property is deleted, and an empty one at the end.                       *)
ProgramSendsPiece(e) ==
    /\ cbX[e].send # <<>> /\ cbX[e].prop = CbNoProp
    /\ LET h == Head(cbX[e].send) IN
        cbX' = [cbX EXCEPT ![e].prop = [k |-> "piece", text |-> IF h = CbEnd THEN <<>> ELSE <<h>>], ![e].send = Tail(@)]
    /\ cbEv' = [cbEv EXCEPT ![e] = Append(@, [k |-> "piece", t |-> 0, who |-> "self"])]
    /\ UNCHANGED <<cbPeer, cbAsk, cbE, cbXt, cbRd, cbNet, cbPaste, cbLeft>>

(* The program pastes: it asks our window for the text.                    *)
ProgramPastes(e) ==
    /\ cbLeft.paste > 0 /\ cbLeft' = [cbLeft EXCEPT !.paste = @ - 1]
    /\ cbX[e].owner = "ltsm" /\ cbPaste[e].st \in {"idle", "done", "refused"}
    /\ cbPaste' = [cbPaste EXCEPT ![e] = [st |-> "asked", got |-> <<>>]]
    /\ cbEv' = [cbEv EXCEPT ![e] = Append(@, [k |-> "request", t |-> 1, who |-> "prog"])]
    /\ UNCHANGED <<cbPeer, cbX, cbAsk, cbE, cbXt, cbRd, cbNet>>
-----------------------------------------------------------------------------
(* RootDisplay::pollEvent in the X thread.                                 *)
CbEvent(e, k) == cbXt[e] = "loop" /\ cbEv[e] # <<>> /\ Head(cbEv[e]).k = k
CbHandled(e) == cbEv' = [cbEv EXCEPT ![e] = Tail(@)]

(* xfixesSetSelectionOwnerEvent, selectionChangedEvent: what can the new   *)
(* owner give?                                                             *)
XfixesSetSelectionOwner(e) ==
    /\ CbEvent(e, "owner")
    /\ LET f == [cbE[e] EXCEPT !.incr.on = FALSE, !.incr.buf = <<>>] IN
        /\ ConvertSelection(e, f, CbTargets)
        /\ cbEv' = [cbEv EXCEPT ![e] = SelfRequest(e, f, CbTargets, Tail(@))]
    /\ UNCHANGED <<cbPeer, cbX, cbXt, cbRd, cbNet, cbPaste, cbLeft>>

(* selectionReceiveTargets: the peer is told, or, without the extension,   *)
(* the text is converted at once.                                          *)
SelectionReceiveTargets(e) ==
    /\ CbEvent(e, "notify") /\ Head(cbEv[e]).t = CbTargets
    /\ cbX' = [cbX EXCEPT ![e].prop = CbNoProp]
    /\ LET has == cbX[e].prop.k = "targets" IN
       IF cbE[e].caps
       THEN /\ cbE' = [cbE EXCEPT ![e].local = has] /\ CbTell(CbOther(e), CbMsg(IF has THEN "notify" ELSE "notify none", <<>>))
            /\ CbHandled(e) /\ UNCHANGED cbAsk
       ELSE /\ UNCHANGED cbNet
            /\ IF has THEN ConvertSelection(e, cbE[e], 1) /\ cbEv' = [cbEv EXCEPT ![e] = SelfRequest(e, cbE[e], 1, Tail(@))]
               ELSE CbHandled(e) /\ UNCHANGED <<cbE, cbAsk>>
    /\ UNCHANGED <<cbPeer, cbXt, cbRd, cbPaste, cbLeft>>

(* selectionReceiveData: the text waits for extClipboardLocalData, or is   *)
(* sent as cut text.                                                       *)
SelectionReceiveData(e, f, text) ==
    IF f.caps THEN cbE' = [cbE EXCEPT ![e] = SelectionReceived(f, text)] /\ UNCHANGED cbNet
    ELSE cbE' = [cbE EXCEPT ![e] = f] /\ IF text = <<>> THEN UNCHANGED cbNet ELSE CbTell(CbOther(e), CbMsg("text", text))

(* ModuleCopySelection::selectionNotifyEvent with a text: only of the atom *)
(* asked for last.                                                         *)
SelectionNotify(e) ==
    /\ CbEvent(e, "notify") /\ Head(cbEv[e]).t # CbTargets
    /\ CbHandled(e) /\ cbX' = [cbX EXCEPT ![e].prop = CbNoProp]
    /\ LET f == cbE[e]  p == cbX[e].prop  t == Head(cbEv[e]).t IN
       CASE f.target # t -> UNCHANGED <<cbE, cbNet>>
         [] f.target = t /\ p.k = "incr" ->
                cbE' = [cbE EXCEPT ![e].incr = [on |-> TRUE, target |-> t, buf |-> <<>>]] /\ UNCHANGED cbNet
         [] f.target = t /\ p.k = "data" -> SelectionReceiveData(e, f, p.text)
         [] OTHER -> UNCHANGED <<cbE, cbNet>>
    /\ UNCHANGED <<cbPeer, cbAsk, cbXt, cbRd, cbPaste, cbLeft>>

(* ModuleCopySelection::propertyNotifyEvent: a piece, or the end.          *)
FaultJoined(buf, piece) == piece
Joined(buf, piece) == buf \o piece
CopyPropertyNotify(e) ==
    /\ CbEvent(e, "piece") /\ CbHandled(e)
    /\ LET f == cbE[e]  p == cbX[e].prop IN
       IF ~f.incr.on THEN UNCHANGED <<cbX, cbE, cbNet>>
       ELSE /\ cbX' = [cbX EXCEPT ![e].prop = CbNoProp]
            /\ IF p.text # <<>>
               THEN cbE' = [cbE EXCEPT ![e].incr.buf = Joined(@, p.text)] /\ UNCHANGED cbNet
               ELSE SelectionReceiveData(e, [f EXCEPT !.incr.buf = <<>>], f.incr.buf)
    /\ UNCHANGED <<cbPeer, cbAsk, cbXt, cbRd, cbPaste, cbLeft>>

(* setSelectionOwner: our paste window takes the selection.                *)
SetSelectionOwner(e) ==
    /\ cbX' = [cbX EXCEPT ![e].owner = "ltsm", ![e].text = <<>>]
    /\ cbAsk' = [cbAsk EXCEPT ![e] = <<>>]
    /\ cbEv' = [cbEv EXCEPT ![e] = Append(@, [k |-> "owner", t |-> 0, who |-> "self"])]

(* The text is put into the requestor's property, or INCR is begun; to our *)
(* own copy window the answer is an event of its own.                      *)
PutSelection(e, who, t) ==
    LET f == cbE[e] IN
    IF who = "self"
    THEN /\ cbX' = [cbX EXCEPT ![e].prop = [k |-> IF t = CbTargets THEN "targets" ELSE "data", text |-> IF t = CbTargets THEN <<>> ELSE f.clip]]
         /\ cbEv' = [cbEv EXCEPT ![e] = Append(Tail(@), [k |-> "notify", t |-> t, who |-> "self"])]
         /\ UNCHANGED cbPaste
    ELSE /\ cbPaste' = [cbPaste EXCEPT ![e] = IF Len(f.clip) > 1 THEN [st |-> "incr", got |-> <<>>] ELSE [st |-> "done", got |-> f.clip]]
         /\ CbHandled(e) /\ UNCHANGED cbX

(* sendNotifyDiscard.                                                      *)
Discard(e) ==
    /\ cbPaste' = IF Head(cbEv[e]).who = "prog" THEN [cbPaste EXCEPT ![e].st = "refused"] ELSE cbPaste
    /\ CbHandled(e)

(* selectionSourceReady, sendExtClipboardRequest: the text is asked for    *)
(* and waited for; not while an earlier request is unanswered.             *)
FaultSelectionSourceReady(e) ==
    /\ cbE' = [cbE EXCEPT ![e].provide = TRUE]
    /\ IF cbE[e].provide THEN UNCHANGED cbNet ELSE CbTell(CbOther(e), CbMsg("request", <<>>))
    /\ cbXt' = [cbXt EXCEPT ![e] = "wait"]
SelectionSourceReady(e) ==
    /\ cbE' = [cbE EXCEPT ![e].clip = <<>>, ![e].provide = TRUE]
    /\ IF cbE[e].provide THEN UNCHANGED cbNet ELSE CbTell(CbOther(e), CbMsg("request", <<>>))
    /\ cbXt' = [cbXt EXCEPT ![e] = "wait"]

(* ModulePasteSelection::selectionRequestEvent.  Our own copy window is    *)
(* refused: setSkipRequestor.                                              *)
FaultSkipped(who) == FALSE
Skipped(who) == who = "self"
SelectionRequest(e) ==
    /\ CbEvent(e, "request")
    /\ LET r == Head(cbEv[e]) IN
       CASE Skipped(r.who) \/ cbX[e].owner # "ltsm" -> Discard(e) /\ UNCHANGED <<cbX, cbE, cbNet, cbXt>>
         [] ~Skipped(r.who) /\ cbX[e].owner = "ltsm" /\ r.t = CbTargets -> PutSelection(e, r.who, r.t) /\ UNCHANGED <<cbE, cbNet, cbXt>>
         [] ~Skipped(r.who) /\ cbX[e].owner = "ltsm" /\ r.t # CbTargets /\ cbE[e].caps ->
                IF cbE[e].remote THEN SelectionSourceReady(e) /\ UNCHANGED <<cbX, cbPaste, cbEv>>
                ELSE Discard(e) /\ UNCHANGED <<cbX, cbE, cbNet, cbXt>>
         [] OTHER -> /\ IF cbE[e].clip = <<>> THEN Discard(e) /\ UNCHANGED cbX ELSE PutSelection(e, r.who, r.t)
                     /\ UNCHANGED <<cbE, cbNet, cbXt>>
    /\ UNCHANGED <<cbPeer, cbAsk, cbRd, cbLeft>>

(* The wait in selectionSourceReady ends: with the text, or after 3 s.     *)
SelectionSourceWaited(e) ==
    /\ cbXt[e] = "wait" /\ cbXt' = [cbXt EXCEPT ![e] = "loop"]
    /\ LET r == Head(cbEv[e]) IN
       \/ cbE[e].clip # <<>> /\ PutSelection(e, r.who, r.t)
       \/ Discard(e) /\ UNCHANGED cbX
    /\ UNCHANGED <<cbPeer, cbAsk, cbE, cbRd, cbNet, cbLeft>>

(* ModulePasteSelection::propertyNotifyEvent: the program has taken a      *)
(* piece, the next is read from clientClipboard as it is now.              *)
PastePropertyNotify(e) ==
    /\ cbXt[e] = "loop" /\ cbPaste[e].st = "incr"
    /\ LET clip == cbE[e].clip  got == cbPaste[e].got  off == Len(got) IN
        cbPaste' = [cbPaste EXCEPT ![e] =
            IF clip = <<>> \/ off = Len(clip) THEN [@ EXCEPT !.st = "done"]
            ELSE IF off > Len(clip) THEN [@ EXCEPT !.st = "refused"]
            ELSE [@ EXCEPT !.got = Append(got, clip[off + 1])]]
    /\ UNCHANGED <<cbPeer, cbX, cbAsk, cbEv, cbE, cbXt, cbRd, cbNet, cbLeft>>

(* selectionClearEvent: a program took the selection; incremental pastes   *)
(* are given up.                                                           *)
SelectionClear(e) ==
    /\ CbEvent(e, "clear") /\ CbHandled(e)
    /\ cbPaste' = IF cbPaste[e].st = "incr" THEN [cbPaste EXCEPT ![e].st = "refused"] ELSE cbPaste
    /\ UNCHANGED <<cbPeer, cbX, cbAsk, cbE, cbXt, cbRd, cbNet, cbLeft>>
-----------------------------------------------------------------------------
(* recvCutText, recvExtClipboardCapsEvent in the reading thread.           *)
CbTakes(e, op) == cbRd[e] = 0 /\ cbNet[e] # <<>> /\ Head(cbNet[e]).op = op
CbTaken(e) == cbNet' = [cbNet EXCEPT ![e] = Tail(@)]

RecvExtClipboardCaps(e) ==
    /\ CbTakes(e, "caps") /\ CbTaken(e)
    /\ cbE' = [cbE EXCEPT ![e].caps = TRUE]
    /\ UNCHANGED <<cbPeer, cbX, cbAsk, cbEv, cbXt, cbRd, cbPaste, cbLeft>>

RecvCutText(e) ==
    /\ CbTakes(e, "text") /\ CbTaken(e)
    /\ cbE' = [cbE EXCEPT ![e].clip = Head(cbNet[e]).text]
    /\ SetSelectionOwner(e)
    /\ UNCHANGED <<cbPeer, cbXt, cbRd, cbPaste, cbLeft>>

(* recvExtClipboardNotify, extClipboardRemoteTypesEvent.                   *)
RecvExtClipboardNotify(e) ==
    /\ CbTakes(e, "notify") \/ CbTakes(e, "notify none")
    /\ CbTaken(e)
    /\ cbE' = [cbE EXCEPT ![e].remote = Head(cbNet[e]).op = "notify"]
    /\ SetSelectionOwner(e)
    /\ UNCHANGED <<cbPeer, cbXt, cbRd, cbPaste, cbLeft>>

(* recvExtClipboardRequest, extClipboardLocalData: each atom of the type   *)
(* is converted and waited for, 100 ms.                                    *)
LocalDataAtom(e, a) ==
    LET f == [cbE[e] EXCEPT !.clip = <<>>] IN
    /\ ConvertSelection(e, f, a)
    /\ cbEv' = [cbEv EXCEPT ![e] = SelfRequest(e, f, a, @)]
    /\ cbRd' = [cbRd EXCEPT ![e] = a]
RecvExtClipboardRequest(e) ==
    /\ CbTakes(e, "request") /\ CbTaken(e)
    /\ LocalDataAtom(e, 1)
    /\ UNCHANGED <<cbPeer, cbX, cbXt, cbPaste, cbLeft>>

(* sendExtClipboardProvide: the message begins with the length of the      *)
(* compressed data, where the peer reads the flags.  Another program's     *)
(* message begins with the flags.                                          *)
SendExtClipboardProvide(e, text) ==
    CbMsg(IF e = "cli" /\ cbPeer = "viewer" THEN "provide" ELSE "length", text)
FaultMoreAtoms(a) == a <= CbAtoms
MoreAtoms(a) == a < CbAtoms
LocalDataWaited(e) ==
    /\ cbRd[e] # 0
    /\ \/ /\ cbE[e].clip # <<>>
          /\ cbRd' = [cbRd EXCEPT ![e] = 0]
          /\ CbTell(CbOther(e), SendExtClipboardProvide(e, cbE[e].clip))
          /\ UNCHANGED <<cbE, cbAsk, cbEv>>
       \/ MoreAtoms(cbRd[e]) /\ LocalDataAtom(e, cbRd[e] + 1) /\ UNCHANGED cbNet
       \/ /\ ~MoreAtoms(cbRd[e]) /\ cbRd' = [cbRd EXCEPT ![e] = 0]
          /\ CbTell(CbOther(e), SendExtClipboardProvide(e, <<>>))
          /\ UNCHANGED <<cbE, cbAsk, cbEv>>
    /\ UNCHANGED <<cbPeer, cbX, cbXt, cbPaste, cbLeft>>

(* recvExtClipboardProvide; a message without one operation is ignored.    *)
RecvExtClipboardProvide(e) ==
    /\ CbTakes(e, "provide") /\ CbTaken(e)
    /\ cbE' = IF cbE[e].provide THEN [cbE EXCEPT ![e].clip = Head(cbNet[e]).text, ![e].provide = FALSE] ELSE cbE
    /\ UNCHANGED <<cbPeer, cbX, cbAsk, cbEv, cbXt, cbRd, cbPaste, cbLeft>>
RecvExtClipboardInvalid(e) ==
    /\ CbTakes(e, "length") /\ CbTaken(e)
    /\ UNCHANGED <<cbPeer, cbX, cbAsk, cbEv, cbE, cbXt, cbRd, cbPaste, cbLeft>>

CbNext == \E e \in CbEnds :
    \/ ProgramCopies(e) \/ ProgramAnswers(e) \/ ProgramSendsPiece(e) \/ ProgramPastes(e)
    \/ XfixesSetSelectionOwner(e) \/ SelectionReceiveTargets(e) \/ SelectionNotify(e) \/ CopyPropertyNotify(e)
    \/ SelectionRequest(e) \/ SelectionSourceWaited(e) \/ PastePropertyNotify(e) \/ SelectionClear(e)
    \/ RecvExtClipboardCaps(e) \/ RecvCutText(e) \/ RecvExtClipboardNotify(e) \/ RecvExtClipboardRequest(e)
    \/ LocalDataWaited(e) \/ RecvExtClipboardProvide(e) \/ RecvExtClipboardInvalid(e)
CbSpec == CbInit /\ [][CbNext]_cbVars
-----------------------------------------------------------------------------
(* The kinds of value each variable takes.                                 *)
CbTypeOK ==
    /\ \A e \in CbEnds :
        /\ cbX[e].owner \in {"none", "prog", "ltsm"}
        /\ cbXt[e] \in {"loop", "wait"} /\ cbRd[e] \in 0 .. CbAtoms
        /\ cbE[e].target \in 0 .. CbAtoms
        /\ \A i \in 1 .. Len(cbE[e].clip) : cbE[e].clip[i].by \in CbEnds
        /\ cbPaste[e].st \in {"idle", "asked", "incr", "done", "refused"}
        /\ cbXt[e] = "wait" => cbEv[e] # <<>> /\ Head(cbEv[e]).k = "request"

(* A text that came from the other end is never sent back there, although  *)
(* our own paste window's taking the selection is an event like any other  *)
(* program's copy: the two ends do not throw a text to and fro.            *)
CbNoEcho == \A e \in CbEnds : \A i \in 1 .. Len(cbNet[e]) :
    \A j \in 1 .. Len(cbNet[e][i].text) : cbNet[e][i].text[j].by # e

(* What a program pastes was copied at the other end: clientClipboard,     *)
(* where the own program's text waits for the peer and the peer's text for *)
(* the own programs, does not mix up the two.  Only with the extension     *)
(* (README, section 5): without it three quick copies can leave the own    *)
(* text there, from a transfer by INCR that was cut short.                 *)
CbPasteIsRemote == \A e \in CbEnds : cbE[e].caps =>
    \A j \in 1 .. Len(cbPaste[e].got) : cbPaste[e].got[j].by # e

(* A text goes over once and in one direction: the peer is not told of its *)
(* own text, and a program that pastes gets the peer's.                    *)
CbOwnText == CbTypeOK /\ CbNoEcho /\ CbPasteIsRemote

CbQuiet == \A e \in CbEnds :
    cbEv[e] = <<>> /\ cbAsk[e] = <<>> /\ cbNet[e] = <<>> /\ cbRd[e] = 0 /\ cbXt[e] = "loop" /\ cbX[e].send = <<>>

(* Without the extension a single copy reaches the other end whole, by     *)
(* INCR too, and its program can paste it.                                 *)
CbDelivered == (CbQuiet /\ cbLeft.id = 1) => \A e \in CbEnds :
    (cbX[e].owner = "prog" /\ ~cbE[e].caps /\ ~cbE[CbOther(e)].caps) =>
        cbX[CbOther(e)].owner = "ltsm" /\ cbE[CbOther(e)].clip = cbX[e].text

(* A request for the text is answered with the text ("The recipient should *)
(* respond with a PROVIDE message", recvExtClipboardRequest): once all     *)
(* messages are handled nothing is awaited any more, and the next paste    *)
(* asks again.                                                             *)
(* The code does not keep it (README, section 5).                          *)
CbProvided == (\A e \in CbEnds : cbNet[e] = <<>> /\ cbRd[e] = 0) => \A e \in CbEnds : ~cbE[e].provide

(* What is pasted is one text, however it is cut up.                       *)
(* The code does not keep it (README, section 5).                          *)
CbPasteWhole == \A e \in CbEnds : cbPaste[e].st = "done" =>
    \A i, j \in 1 .. Len(cbPaste[e].got) : cbPaste[e].got[i] = cbPaste[e].got[j]
=============================================================================
