----------------------------- MODULE LoginHelper ----------------------------
(***************************************************************************)
(* The login screen and its smart cards: the window of qt_helper           *)
(* (ltsm_helperwindow.cpp), its thread that talks to the reader            *)
(* (Pkcs11Client, ltsm_pkcs11_session.cpp), and at the other end of the    *)
(* channel the client program (client/pkcs11/ltsm_pkcs11_client.cpp) with  *)
(* the token library (common/ltsm_pkcs11_wrapper.cpp).                     *)
(*                                                                         *)
(* The window's thread waits for every answer in std::future::get, so a    *)
(* call that is never answered stops the whole screen.  The answers are    *)
(* read from a stream without frames: a unit below is a field or a         *)
(* structure of the stream.                                                *)
(***************************************************************************)
EXTENDS Naturals, Integers, Sequences, FiniteSets, AsyncMutex

CONSTANTS HpTokens,     \* the tokens there are, in the order of model and serial
          HpSlots,      \* the slots of the reader
          HpCerts,      \* the tokens that hold a certificate with its key
          HpExpired,    \* those whose certificate has expired
          HpAttempts,   \* attempts of Pkcs11Client::clientHandler
          HpSeconds,    \* login:timeout:sec
          HpComplete,   \* the values of login:autocomplete
          HpEvents      \* bound: what people and failures do

ASSUME HpAssumption ==
    /\ HpTokens \in Seq(STRING) /\ HpSlots \subseteq Nat \ {0} /\ IsFiniteSet(HpSlots)
    /\ HpAttempts \in Nat \ {0} /\ HpSeconds \in Nat \ {0} /\ HpEvents \in Nat

VARIABLES hpCard,    \* the token in each slot
          hpUp,      \* requests on their way to the client
          hpLast,    \* ConnectorClientPkcs11::last
          hpDown,    \* answers the helper has not read
          hpLink,    \* the socket: "none", "ready", "open", "closed"
          hpThread,  \* Pkcs11Client::clientHandler: its place and attempts
          hpMutex,   \* send_lock_
          hpList,    \* Pkcs11Client::tokens
          hpCall,    \* the call the window's thread waits for
          hpQueue,   \* queued signals of the window
          hpWin,     \* the window
          hpLeft,    \* events left
          hpOpen,    \* history: requests sent and not carried out
          hpPolled,  \* history: the tokens of the last list read
          hpOdd,     \* history: failures that leave the stream unusable
          hpHash     \* history: what loginClicked made of a decrypted hash

hpLinkVars == <<hpUp, hpLast, hpDown, hpLink, hpOpen>>
hpVars == <<hpCard, hpUp, hpLast, hpDown, hpLink, hpThread, hpMutex, hpList,
            hpCall, hpQueue, hpWin, hpLeft, hpOpen, hpPolled, hpOdd, hpHash>>

HpNone == "none"
HpTokenSet == {HpTokens[i] : i \in DOMAIN HpTokens}
HpEntries == [t : HpTokenSet \cup {HpNone}, slot : HpSlots]
Unit(kind, val) == <<kind, val>>
Units(s) == {s[i] : i \in DOMAIN s}
Arg(slot) == [slot |-> slot, pin |-> FALSE, t |-> HpNone]
NoCall == [op |-> "none", arg |-> Arg(0), at |-> "none"]
NoUsers == [kind |-> "empty", slot |-> 0, t |-> HpNone]
Names == [NoUsers EXCEPT !.kind = "names"]

(* A list of tokens in the order of Pkcs11Token::operator<: by model and   *)
(* serial number, the slot plays no part.                                  *)
Rank(t) == IF t = HpNone THEN 0 ELSE CHOOSE i \in DOMAIN HpTokens : HpTokens[i] = t
Rows(S) ==
    LET n == Cardinality(S)
    IN  CHOOSE f \in [1..n -> S] : \A i, j \in 1..n :
            i < j => f[i] # f[j] /\ Rank(f[i].t) <= Rank(f[j].t)
SameTokens(S, T) == {e.t : e \in S} = {e.t : e \in T}

Spend == hpLeft > 0 /\ hpLeft' = hpLeft - 1
-----------------------------------------------------------------------------
(* The token library at the client.                                        *)

(* Slot::getTokenInfo: a token pulled out after the list of slots was made *)
(* leaves a slot whose token is not valid.                                 *)
GetTokenInfo(s, pulled) == IF s \in pulled THEN HpNone ELSE hpCard[s]

(* PKCS11::getSlots(true): the slots with a token.                         *)
GetSlots == {s \in HpSlots : hpCard[s] # HpNone}

(* Session::Session opens a session only on a slot with a token.           *)
SessionOpen(s) == hpCard[s] # HpNone

(* The certificates of the token; a token has at most one here, named for  *)
(* the token.  Not logged in, the private key is not looked for.           *)
FindTokenObjects(s) == {hpCard[s]}
FindPublicKey(t) == t \in HpCerts
FindPrivateKey(s, t) == hpCard[s] = t
GetCertificates(s) == {t \in FindTokenObjects(s) : FindPublicKey(t)}

(* Session::login tells of a wrong pin by its result, which is not looked  *)
(* at; Session::decryptData then refuses a session that is not logged in.  *)
Login(req) == req.pin
DecryptData(req) ==
    IF Login(req) /\ FindPrivateKey(req.slot, req.t) THEN <<"hash">> ELSE <<>>
-----------------------------------------------------------------------------
(* PKCS11::loadLibrary throws without a library, or one that does not      *)
(* start.                                                                  *)
LoadLibrary == {TRUE} \cup {hpLeft = 0}

(* ConnectorClientPkcs11: one answer, or none, for each request.           *)

Pkcs11Init(loaded) == <<Unit("cmd", "init"), Unit("info", loaded)>>

Pkcs11GetSlots(pulled) ==
    <<Unit("cmd", "slots"),
      Unit("slots", {[t |-> GetTokenInfo(s, pulled), slot |-> s] : s \in GetSlots})>>

Pkcs11GetSlotCertificates(s) ==
    IF SessionOpen(s)
    THEN <<Unit("cmd", "certs"), Unit("certs", GetCertificates(s))>>
    ELSE <<>>

(* The length and the data, without the command.                           *)
Pkcs11DecryptData(req) ==
    LET data == DecryptData(req)
    IN  IF ~SessionOpen(req.slot) THEN <<>>
        ELSE IF data = <<>> THEN <<Unit("len", 0)>>
        ELSE <<Unit("len", 32), Unit("data", "hash")>>

Request(cmd, arg) == <<Unit("cmd", cmd), Unit("arg", arg)>>

(* What the client sends for a request; a choice where the library or the  *)
(* reader may fail.                                                        *)
Answers(buf) ==
    LET cmd == buf[1][2]
        arg == buf[2][2]
    IN  CASE cmd = "init" -> {Pkcs11Init(loaded) : loaded \in LoadLibrary}
          [] cmd = "slots" -> {Pkcs11GetSlots(pulled) : pulled \in
                                {{}} \cup {{s} : s \in {x \in GetSlots : hpLeft > 0}}}
          [] cmd = "certs" -> {Pkcs11GetSlotCertificates(arg.slot)}
          [] cmd = "decrypt" -> {Pkcs11DecryptData(arg)}

(* A failure has been drawn: it is one of the bounded events.              *)
Pulled(answer) ==
    UNION {{e.slot : e \in {x \in u[2] : x.t = HpNone}} : u \in {y \in Units(answer) : y[1] = "slots"}}
Drawn(answer) == Unit("info", FALSE) \in Units(answer) \/ Pulled(answer) # {}

(* FAULT: the part of the buffer already carried out is kept as well.      *)
FaultKept(buf) == IF Len(buf) = 2 THEN buf ELSE IF Len(buf) % 2 = 1 THEN buf ELSE <<>>

(* What pushData keeps for the next call: after an underflow, all from the *)
(* beginning of the last packet it looked at.                              *)
Kept(buf) == IF Len(buf) % 2 = 1 THEN buf ELSE <<>>

(* pushData: a piece of the stream arrives.                                *)
PushData ==
    /\ hpLink = "open" /\ hpUp # <<>>
    /\ \E n \in 1..Len(hpUp) :
          LET buf == hpLast \o SubSeq(hpUp, 1, n)
          IN  /\ Len(buf) <= 3
              /\ hpUp' = SubSeq(hpUp, n + 1, Len(hpUp))
              /\ hpLast' = Kept(buf)
              /\ IF Len(buf) < 2
                 THEN UNCHANGED <<hpDown, hpOpen, hpOdd, hpLeft, hpCard>>
                 ELSE \E answer \in Answers(buf) :
                        /\ hpDown' = hpDown \o answer
                        /\ hpOpen' = hpOpen - 1
                        /\ hpLeft' = IF Drawn(answer) THEN hpLeft - 1 ELSE hpLeft
                        /\ hpCard' = [s \in HpSlots |-> IF s \in Pulled(answer) THEN HpNone ELSE hpCard[s]]
                        /\ hpOdd' = hpOdd \cup (IF answer = <<>> \/ answer = <<Unit("len", 0)>>
                                                THEN {"silent"} ELSE {})
    /\ UNCHANGED <<hpLink, hpThread, hpMutex, hpList, hpCall, hpQueue, hpWin, hpPolled, hpHash>>
-----------------------------------------------------------------------------
(* Pkcs11Client: the coroutines of one thread.                             *)

Send(cmd, arg) ==
    /\ hpUp' = hpUp \o Request(cmd, arg)
    /\ hpOpen' = hpOpen + 1
    /\ UNCHANGED <<hpLast, hpDown, hpLink>>

(* The first field of the next answer, and what is left when it is not the *)
(* command that was asked: the fields read are gone, a hash stays in part. *)
Answered(cmd) == Head(hpDown) = Unit("cmd", cmd)
Misread == IF Head(hpDown)[1] = "data" THEN hpDown
           ELSE IF Len(hpDown) = 1 THEN <<>> ELSE Tail(hpDown)
Rest == Tail(Tail(hpDown))
Value == hpDown[2][2]

At(place) == [hpThread EXCEPT !.at = place]
IocRuns == hpThread.at \notin {"none", "ended"}
Granted(c) == \A i \in DOMAIN hpMutex.wait : hpMutex.wait[i] # c

(* FAULT: a failed attempt is always followed by another one.              *)
FaultRetryConnect ==
    /\ hpThread.at = "connect"
    /\ IF hpLink = "ready"
       THEN hpLink' = "open" /\ hpThread' = At("hello")
       ELSE hpLink' = hpLink /\ hpThread' = [hpThread EXCEPT !.try = @ + 1]
    /\ UNCHANGED <<hpCard, hpUp, hpLast, hpDown, hpMutex, hpList, hpCall, hpQueue,
                   hpWin, hpLeft, hpOpen, hpPolled, hpOdd, hpHash>>

(* retryConnect: after the last attempt the handler ends in silence.       *)
RetryConnect ==
    /\ hpThread.at = "connect"
    /\ IF hpLink = "ready"
       THEN hpLink' = "open" /\ hpThread' = At("hello")
       ELSE /\ hpLink' = hpLink
            /\ hpThread' = IF hpThread.try = HpAttempts THEN At("failed")
                           ELSE [hpThread EXCEPT !.try = @ + 1]
    /\ UNCHANGED <<hpCard, hpUp, hpLast, hpDown, hpMutex, hpList, hpCall, hpQueue,
                   hpWin, hpLeft, hpOpen, hpPolled, hpOdd, hpHash>>

(* remoteHandshake, the request.                                           *)
HandshakeSend ==
    /\ hpThread.at = "hello" /\ hpLink = "open"
    /\ Send("init", Arg(0))
    /\ hpThread' = At("init")
    /\ UNCHANGED <<hpCard, hpMutex, hpList, hpCall, hpQueue, hpWin, hpLeft, hpPolled, hpOdd, hpHash>>

(* remoteHandshake, the answer: an error of the library is thrown, and the *)
(* handler posts stop.                                                     *)
RemoteHandshake ==
    /\ hpThread.at = "init" /\ hpDown # <<>>
    /\ hpDown' = Rest
    /\ hpThread' = IF Answered("init") /\ Value THEN At("pause") ELSE At("stopping")
    /\ UNCHANGED <<hpCard, hpUp, hpLast, hpLink, hpMutex, hpList, hpCall, hpQueue,
                   hpWin, hpLeft, hpOpen, hpPolled, hpOdd, hpHash>>

(* updateTokensTimer: after the pause, the lock.                           *)
UpdateTokensTimer ==
    /\ hpThread.at = "pause"
    /\ hpMutex' = MutexEnter(hpMutex, "timer")
    /\ hpThread' = At("lock")
    /\ UNCHANGED <<hpCard, hpLinkVars, hpList, hpCall, hpQueue, hpWin, hpLeft, hpPolled, hpOdd, hpHash>>

(* updateTokens, the request.                                              *)
UpdateTokensSend ==
    /\ hpThread.at = "lock" /\ Granted("timer") /\ hpLink = "open"
    /\ Send("slots", Arg(0))
    /\ hpThread' = At("slots")
    /\ UNCHANGED <<hpCard, hpMutex, hpList, hpCall, hpQueue, hpWin, hpLeft, hpPolled, hpOdd, hpHash>>

(* FAULT: lists of the same length are taken for the same.                 *)
FaultTokensDiffer(S, T) == Cardinality(S) # Cardinality(T)

(* The two set_difference: some token removed or added.                    *)
TokensDiffer(S, T) == ~SameTokens(S, T)

(* FAULT: the lock is given back only when the list has changed.           *)
FaultUpdateTokens ==
    /\ hpThread.at = "slots" /\ hpDown # <<>>
    /\ IF Answered("slots")
       THEN /\ hpDown' = Rest
            /\ hpPolled' = {e.t : e \in Value}
            /\ hpList' = IF TokensDiffer(hpList, Value) THEN Value ELSE hpList
            /\ hpQueue' = IF TokensDiffer(hpList, Value)
                          THEN Append(hpQueue, <<"tokens">>) ELSE hpQueue
            /\ hpMutex' = IF TokensDiffer(hpList, Value) THEN MutexLeave(hpMutex) ELSE hpMutex
            /\ hpThread' = At("pause")
       ELSE /\ hpDown' = Misread
            /\ hpThread' = At("stopping")
            /\ UNCHANGED <<hpPolled, hpList, hpQueue, hpMutex>>
    /\ UNCHANGED <<hpCard, hpUp, hpLast, hpLink, hpCall, hpWin, hpLeft, hpOpen, hpOdd, hpHash>>

(* updateTokens, the answer; a wrong command is thrown with the lock held. *)
UpdateTokens ==
    /\ hpThread.at = "slots" /\ hpDown # <<>>
    /\ IF Answered("slots")
       THEN /\ hpDown' = Rest
            /\ hpPolled' = {e.t : e \in Value}
            /\ hpList' = IF TokensDiffer(hpList, Value) THEN Value ELSE hpList
            /\ hpQueue' = IF TokensDiffer(hpList, Value)
                          THEN Append(hpQueue, <<"tokens">>) ELSE hpQueue
            /\ hpMutex' = MutexLeave(hpMutex)
            /\ hpThread' = At("pause")
       ELSE /\ hpDown' = Misread
            /\ hpThread' = At("stopping")
            /\ UNCHANGED <<hpPolled, hpList, hpQueue, hpMutex>>
    /\ UNCHANGED <<hpCard, hpUp, hpLast, hpLink, hpCall, hpWin, hpLeft, hpOpen, hpOdd, hpHash>>

(* A broken socket ends the handler; the lock stays as it is, and the work *)
(* guard keeps the thread running.                                         *)
HandlerFails ==
    /\ hpLink = "closed" /\ hpDown = <<>>
    /\ \/ hpThread.at \in {"hello", "init", "slots"}
       \/ hpThread.at = "lock" /\ Granted("timer")
    /\ hpThread' = At("failed")
    /\ UNCHANGED <<hpCard, hpLinkVars, hpMutex, hpList, hpCall, hpQueue, hpWin, hpLeft,
                   hpPolled, hpOdd, hpHash>>

(* stop and the end of run: the thread ends once no coroutine waits.       *)
StopThread ==
    /\ hpThread.at = "stopping"
    /\ hpCall.op = "none"
    /\ hpThread' = At("ended")
    /\ UNCHANGED <<hpCard, hpLinkVars, hpMutex, hpList, hpCall, hpQueue, hpWin, hpLeft,
                   hpPolled, hpOdd, hpHash>>
-----------------------------------------------------------------------------
(* The window.  Its thread serves one event at a time, and none while it   *)
(* waits for a call.                                                       *)

GuiFree == hpWin.open = "open" /\ hpCall.op = "none"
Spawn(op, arg) == hpCall' = [op |-> op, arg |-> arg, at |-> "spawned"]

(* close, or the end of the program: ~Pkcs11Client ends the thread.        *)
CloseWindow(how) ==
    /\ hpWin' = [hpWin EXCEPT !.open = how]
    /\ hpThread' = At("ended")
    /\ hpQueue' = <<>>
    /\ hpCall' = NoCall

(* pkcs11ListennerCallback: the client is made once.                       *)
Pkcs11ListennerCallback ==
    /\ GuiFree /\ hpThread.at = "none"
    /\ hpThread' = At("connect")
    /\ hpLink' = "ready"
    /\ UNCHANGED <<hpCard, hpUp, hpLast, hpDown, hpMutex, hpList, hpCall, hpQueue, hpWin,
                   hpLeft, hpOpen, hpPolled, hpOdd, hpHash>>

(* The coroutine of a call asks for the lock.                              *)
CallEnter ==
    /\ hpCall.at = "spawned" /\ IocRuns
    /\ hpMutex' = MutexEnter(hpMutex, "gui")
    /\ hpCall' = [hpCall EXCEPT !.at = "lock"]
    /\ UNCHANGED <<hpCard, hpLinkVars, hpThread, hpList, hpQueue, hpWin, hpLeft, hpPolled,
                   hpOdd, hpHash>>

(* loadCertificates and loadDecryptData, the request.                      *)
CallSend ==
    /\ hpCall.at = "lock" /\ Granted("gui") /\ hpLink = "open"
    /\ hpCall.op \in {"certs", "decrypt"}
    /\ Send(hpCall.op, hpCall.arg)
    /\ hpCall' = [hpCall EXCEPT !.at = "asked"]
    /\ UNCHANGED <<hpCard, hpThread, hpMutex, hpList, hpQueue, hpWin, hpLeft, hpPolled,
                   hpOdd, hpHash>>

(* reloadUsersList and, around it, switchLoginMode: the first name added   *)
(* to the empty list is chosen, which queues usernameIndexChanged.         *)
SwitchLoginMode(w) == [w EXCEPT !.token = FALSE, !.users = Names, !.button = TRUE]

(* tokensChanged with the rows of the new list; the first is chosen.       *)
TokenRows(w, list) ==
    [w EXCEPT !.token = TRUE, !.rows = Rows(list), !.cur = 1, !.users = NoUsers]

(* getTokens returns to tokensChanged.                                     *)
TokensChanged ==
    /\ hpCall.op = "tokens" /\ hpCall.at = "lock" /\ Granted("gui")
    /\ hpMutex' = MutexLeave(hpMutex)
    /\ hpCall' = NoCall
    /\ IF hpList = {}
       THEN /\ hpWin' = SwitchLoginMode(hpWin)
            /\ hpQueue' = Append(hpQueue, <<"user", 1>>)
       ELSE /\ hpWin' = TokenRows(hpWin, hpList)
            /\ hpQueue' = Append(hpQueue, <<"domain", 1>>)
    /\ UNCHANGED <<hpCard, hpLinkVars, hpThread, hpList, hpLeft, hpPolled, hpOdd, hpHash>>

(* FAULT: the certificates shown stay until others are there.              *)
FaultDomainIndexChanged(w) == w

(* domainIndexChanged up to getCertificates: the list is emptied first.    *)
DomainIndexChanged(w) == [w EXCEPT !.users = NoUsers]

(* getCertificates returns to domainIndexChanged.                          *)
GotCertificates ==
    /\ hpCall.op = "certs" /\ hpCall.at = "asked" /\ hpDown # <<>>
    /\ LET certs == IF Answered("certs") THEN Value ELSE {}
       IN  /\ hpDown' = IF Answered("certs") THEN Rest ELSE Misread
           /\ IF certs = {}
              THEN /\ hpWin' = [hpWin EXCEPT !.button = FALSE]
                   /\ hpQueue' = hpQueue
              ELSE /\ hpWin' = [hpWin EXCEPT !.button = TRUE, !.users =
                         [kind |-> "certs", slot |-> hpCall.arg.slot, t |-> CHOOSE t \in certs : TRUE]]
                   /\ hpQueue' = Append(hpQueue, <<"user", 1>>)
    /\ hpMutex' = MutexLeave(hpMutex)
    /\ hpCall' = NoCall
    /\ UNCHANGED <<hpCard, hpUp, hpLast, hpLink, hpThread, hpList, hpLeft, hpOpen, hpPolled,
                   hpOdd, hpHash>>

(* returnInvalidCert and loginFailureCallback: the inputs are given back.  *)
GiveBack(w) == [w EXCEPT !.button = TRUE, !.inputs = TRUE]

(* decryptData returns to loginClicked: loadDecryptData reads a command    *)
(* and a length, six bytes in all, and without its command no data.        *)
Decrypted ==
    /\ hpCall.op = "decrypt" /\ hpCall.at = "asked"
    /\ hpDown # <<>> /\ (Head(hpDown)[1] = "data" \/ Len(hpDown) > 1)
    /\ hpDown' = IF Answered("decrypt") THEN Rest ELSE Misread
    /\ hpHash' = IF Answered("decrypt") THEN "equal" ELSE "differs"
    /\ hpOdd' = hpOdd \cup {"decrypt"}
    /\ hpMutex' = MutexLeave(hpMutex)
    /\ hpCall' = NoCall
    /\ hpWin' = IF Answered("decrypt") THEN [hpWin EXCEPT !.asked = TRUE] ELSE GiveBack(hpWin)
    /\ UNCHANGED <<hpCard, hpUp, hpLast, hpLink, hpThread, hpList, hpQueue, hpLeft, hpOpen, hpPolled>>

(* A broken socket is an exception of the future: loginClicked catches it, *)
(* domainIndexChanged does not.  The lock is not given back.               *)
CallFails ==
    /\ hpLink = "closed" /\ hpDown = <<>>
    /\ \/ hpCall.at = "asked"
       \/ hpCall.at = "lock" /\ Granted("gui") /\ hpCall.op # "tokens"
    /\ IF hpCall.op = "decrypt"
       THEN /\ hpWin' = GiveBack(hpWin)
            /\ hpCall' = NoCall
            /\ UNCHANGED <<hpQueue, hpThread>>
       ELSE CloseWindow("crashed")
    /\ UNCHANGED <<hpCard, hpLinkVars, hpMutex, hpList, hpLeft, hpPolled, hpOdd, hpHash>>

(* usernameIndexChanged: the item holds the bytes of a Pkcs11Cert that has *)
(* been freed; read again they are the certificate or anything else.       *)
UsernameIndexChanged ==
    \/ /\ hpWin.token /\ hpWin.users.kind = "certs"
       /\ \E b \in {FALSE, hpWin.users.t \notin HpExpired} :
             hpWin' = [hpWin EXCEPT !.button = b]
    \/ /\ hpWin.token /\ hpWin.users.kind # "certs"
       /\ hpWin' = hpWin
    \/ /\ ~hpWin.token
       /\ \E b \in BOOLEAN : hpWin' = [hpWin EXCEPT !.button = b]

(* The next queued signal.                                                 *)
Queued ==
    /\ GuiFree /\ hpQueue # <<>>
    /\ hpQueue' = Tail(hpQueue)
    /\ LET ev == Head(hpQueue)
       IN  \/ /\ ev[1] = "tokens"
              /\ Spawn("tokens", Arg(0)) /\ hpWin' = hpWin
           \/ /\ ev[1] = "domain"
              /\ IF hpWin.token /\ ev[2] \in DOMAIN hpWin.rows
                 THEN /\ Spawn("certs", Arg(hpWin.rows[ev[2]].slot))
                      /\ hpWin' = DomainIndexChanged(hpWin)
                 ELSE UNCHANGED <<hpCall, hpWin>>
           \/ /\ ev[1] = "user"
              /\ UsernameIndexChanged /\ hpCall' = hpCall
    /\ UNCHANGED <<hpCard, hpLinkVars, hpThread, hpMutex, hpList, hpLeft, hpPolled, hpOdd, hpHash>>

hpGuiRest == <<hpCard, hpLinkVars, hpMutex, hpList, hpPolled, hpOdd, hpHash>>

(* Another token is chosen in the window.                                  *)
PickToken ==
    /\ GuiFree /\ hpWin.token /\ Spend
    /\ \E i \in DOMAIN hpWin.rows \ {hpWin.cur} :
          /\ hpWin' = [hpWin EXCEPT !.cur = i]
          /\ hpQueue' = Append(hpQueue, <<"domain", i>>)
    /\ UNCHANGED <<hpGuiRest, hpCall, hpThread>>

(* passwordChanged: the button follows what is typed.                      *)
PasswordChanged ==
    /\ GuiFree /\ hpWin.inputs
    /\ \E b \in BOOLEAN : hpWin' = [hpWin EXCEPT !.button = b]
    /\ UNCHANGED <<hpGuiRest, hpCall, hpThread, hpQueue, hpLeft>>

Disabled(w) == [w EXCEPT !.button = FALSE, !.inputs = FALSE]

(* gnutlsEncryptData gives a value only for a certificate.                 *)
GnutlsEncryptData == hpWin.users.kind = "certs"

(* loginClicked: a password goes to the service; with a token a random     *)
(* value is encrypted with the certificate, whose bytes are again read     *)
(* after they were freed (gnutlsEncryptData throws when they are no        *)
(* certificate), and given to the token.                                   *)
LoginClicked ==
    \/ /\ ~hpWin.token
       /\ hpWin' = [Disabled(hpWin) EXCEPT !.asked = TRUE]
       /\ UNCHANGED <<hpCall, hpThread, hpQueue>>
    \/ /\ ~hpWin.token
       /\ CloseWindow("closed")
    \/ /\ hpWin.token /\ GnutlsEncryptData
       /\ \E pin \in BOOLEAN :
             Spawn("decrypt", [slot |-> hpWin.rows[hpWin.cur].slot, pin |-> pin, t |-> hpWin.users.t])
       /\ hpWin' = Disabled(hpWin)
       /\ UNCHANGED <<hpThread, hpQueue>>
    \/ /\ hpWin.token
       /\ hpWin' = GiveBack(hpWin)
       /\ UNCHANGED <<hpCall, hpThread, hpQueue>>
    \/ /\ hpWin.token
       /\ CloseWindow("crashed")

ClickLogin ==
    /\ GuiFree /\ hpWin.button /\ Spend
    /\ LoginClicked
    /\ UNCHANGED hpGuiRest

(* setLoginPasswordCallback with autologin clicks whatever is shown.       *)
SetLoginPasswordCallback ==
    /\ GuiFree /\ Spend
    /\ LoginClicked
    /\ UNCHANGED hpGuiRest

(* loginFailureCallback.                                                   *)
LoginFailureCallback ==
    /\ GuiFree /\ hpWin.asked
    /\ hpWin' = [GiveBack(hpWin) EXCEPT !.asked = FALSE]
    /\ UNCHANGED <<hpGuiRest, hpCall, hpThread, hpQueue, hpLeft>>

(* loginSuccessCallback and shutdownConnectorCallback.                     *)
ClosedByService ==
    /\ GuiFree
    /\ \/ hpWin.asked /\ hpLeft' = hpLeft
       \/ Spend
    /\ CloseWindow("closed")
    /\ UNCHANGED hpGuiRest

(* FAULT: the last second does not close the window.                       *)
FaultTimerOneSec ==
    /\ GuiFree /\ hpWin.time > 1
    /\ hpWin' = [hpWin EXCEPT !.time = @ - 1]
    /\ UNCHANGED <<hpGuiRest, hpCall, hpThread, hpQueue, hpLeft>>

(* timerEvent, the timer of one second.                                    *)
TimerOneSec ==
    /\ GuiFree /\ hpWin.time > 0
    /\ IF hpWin.time = 1
       THEN CloseWindow("closed")
       ELSE /\ hpWin' = [hpWin EXCEPT !.time = @ - 1]
            /\ UNCHANGED <<hpCall, hpThread, hpQueue>>
    /\ UNCHANGED <<hpGuiRest, hpLeft>>

(* timerEvent, the timer of three minutes: reloadUsersList in either mode. *)
TimerReloadUsers ==
    /\ GuiFree /\ hpWin.auto /\ Spend
    /\ hpWin' = [hpWin EXCEPT !.users = Names]
    /\ hpQueue' = Append(hpQueue, <<"user", 1>>)
    /\ UNCHANGED <<hpGuiRest, hpCall, hpThread>>
-----------------------------------------------------------------------------
(* People and failures.                                                    *)

InsertToken ==
    /\ hpWin.open = "open" /\ Spend
    /\ \E s \in HpSlots, t \in HpTokenSet :
          /\ hpCard[s] = HpNone /\ \A x \in HpSlots : hpCard[x] # t
          /\ hpCard' = [hpCard EXCEPT ![s] = t]
    /\ UNCHANGED <<hpLinkVars, hpThread, hpMutex, hpList, hpCall, hpQueue, hpWin, hpPolled, hpOdd, hpHash>>

RemoveToken ==
    /\ hpWin.open = "open" /\ Spend
    /\ \E s \in HpSlots : hpCard[s] # HpNone /\ hpCard' = [hpCard EXCEPT ![s] = HpNone]
    /\ UNCHANGED <<hpLinkVars, hpThread, hpMutex, hpList, hpCall, hpQueue, hpWin, hpPolled, hpOdd, hpHash>>

LoseLink ==
    /\ hpLink \in {"ready", "open"} /\ hpWin.open = "open" /\ Spend
    /\ hpLink' = "closed"
    /\ hpOdd' = hpOdd \cup {"lost"}
    /\ UNCHANGED <<hpCard, hpUp, hpLast, hpDown, hpThread, hpMutex, hpList, hpCall, hpQueue,
                   hpWin, hpOpen, hpPolled, hpHash>>

HpInit ==
    /\ hpCard \in {c \in [HpSlots -> HpTokenSet \cup {HpNone}] :
                     \A s, x \in HpSlots : c[s] = c[x] => s = x \/ c[s] = HpNone}
    /\ hpUp = <<>> /\ hpLast = <<>> /\ hpDown = <<>> /\ hpLink = "none" /\ hpOpen = 0
    /\ hpThread = [at |-> "none", try |-> 1]
    /\ hpMutex = MutexFree
    /\ hpList = {} /\ hpPolled = {}
    /\ hpCall = NoCall /\ hpQueue = <<>>
    /\ hpWin \in {[open |-> "open", token |-> FALSE, rows |-> <<>>, cur |-> 1, users |-> NoUsers,
                   inputs |-> TRUE, button |-> FALSE, asked |-> FALSE, time |-> HpSeconds,
                   auto |-> a] : a \in HpComplete}
    /\ hpLeft = HpEvents
    /\ hpOdd = {} /\ hpHash = HpNone

HpIoc == RetryConnect \/ HandshakeSend \/ RemoteHandshake \/ UpdateTokensTimer
         \/ UpdateTokensSend \/ UpdateTokens \/ HandlerFails \/ StopThread
HpCallStep == CallEnter \/ CallSend \/ TokensChanged \/ GotCertificates \/ Decrypted \/ CallFails
HpPeople == PickToken \/ PasswordChanged \/ ClickLogin \/ SetLoginPasswordCallback
            \/ LoginFailureCallback \/ ClosedByService \/ TimerReloadUsers
            \/ InsertToken \/ RemoveToken \/ LoseLink \/ Pkcs11ListennerCallback

HpNext == PushData \/ HpIoc \/ HpCallStep \/ Queued \/ TimerOneSec \/ HpPeople

(* The thread, the client and the window's loop run; the timer of a second *)
(* goes on.                                                                *)
HpFair == /\ WF_hpVars(HpIoc) /\ WF_hpVars(PushData) /\ WF_hpVars(HpCallStep)
          /\ WF_hpVars(Queued) /\ WF_hpVars(TimerOneSec)
HpSpec == HpInit /\ [][HpNext]_hpVars /\ HpFair
-----------------------------------------------------------------------------
(* The types of the state.                                                 *)
HpTypeOK ==
    /\ hpCard \in [HpSlots -> HpTokenSet \cup {HpNone}]
    /\ hpLink \in {"none", "ready", "open", "closed"}
    /\ hpThread.at \in {"none", "connect", "hello", "init", "pause", "lock", "slots", "failed",
                        "stopping", "ended"}
    /\ hpThread.try \in 1..HpAttempts
    /\ hpList \subseteq HpEntries
    /\ hpCall.op \in {"none", "tokens", "certs", "decrypt"}
    /\ hpWin.rows \in Seq(HpEntries)
    /\ hpWin.time \in 0..HpSeconds

(* Requests and answers stay paired although the timer's coroutine and the *)
(* window's calls share a stream without frames: a request is carried out  *)
(* once, only one is under way, and while the lock is free nothing is left *)
(* in either direction - until a failure leaves the stream unusable.       *)
HpOneRequest ==
    hpOdd = {} =>
        /\ hpOpen \in {0, 1}
        /\ hpMutex.n = 0 /\ hpThread.at = "pause" =>
              hpUp = <<>> /\ hpLast = <<>> /\ hpDown = <<>> /\ hpOpen = 0

(* The stream to the smart card client has one user at a time, in every    *)
(* state of the two threads.                                               *)
HpStreamShared == HpTypeOK /\ HpOneRequest

(* When nothing is queued any more, the window shows the tokens of the     *)
(* last list that was read: no change is missed, however the signals of    *)
(* the thread and the window's own queue interleave.                       *)
HpTokensShown ==
    GuiFree /\ hpQueue = <<>> =>
        /\ hpWin.token <=> hpPolled # {}
        /\ hpWin.token => {hpWin.rows[i].t : i \in DOMAIN hpWin.rows} = hpPolled

(* The certificates offered are those of the slot of the chosen token,     *)
(* which loginClicked will ask to decrypt, once the change of the token    *)
(* has been served.                                                        *)
HpCertsOfToken ==
    GuiFree /\ hpWin.token /\ hpWin.users.kind = "certs"
            /\ (\A i \in DOMAIN hpQueue : hpQueue[i][1] # "domain")
        => hpWin.rows[hpWin.cur].slot = hpWin.users.slot

(* The login window shows what is plugged in: the tokens, and for the one  *)
(* that is chosen its own certificates.                                    *)
HpShown == HpTokensShown /\ HpCertsOfToken

(* A call of the window returns: without a lost link, a token that is gone *)
(* or the reading of a decrypted value, nobody waits for the lock or for   *)
(* an answer for ever.                                                     *)
HpCallsReturn == [](hpOdd = {}) => (hpCall.op # "none" ~> hpCall.op = "none")

(* The login screen does not stay: unless a call of the token holds it,    *)
(* the window closes after login:timeout:sec.                              *)
HpScreenEnds == []<>(hpCall.op = "none") => <>(hpWin.open # "open")

(* Nothing blocks the window: its calls to the card return, and the screen *)
(* closes when its time is over.                                           *)
HpEnds == HpCallsReturn /\ HpScreenEnds

(* "client reply: cmd16, length32" (loadDecryptData): what the token has   *)
(* decrypted comes back to loginClicked.                                   *)
(* The code does not keep it (README, section 5).                          *)
HpDecrypted == hpHash # "differs"
=============================================================================
