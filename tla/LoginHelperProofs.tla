-------------------------- MODULE LoginHelperProofs -------------------------
(***************************************************************************)
(* Theorems about LoginHelper, for any tokens, certificates, finite set of *)
(* slots, attempts and events: the stream to the smart cards has one user  *)
(* at a time, and the window shows the tokens and certificates there are.  *)
(***************************************************************************)
EXTENDS LoginHelper, ProofLemmas, TLAPS
-----------------------------------------------------------------------------
(* qt_helper.  The rows of the window: a list of tokens can be sorted, so  *)
(* that Rows names each of its entries once.                               *)
Sorted(f, n) == \A i, j \in 1..n : i < j => f[i] # f[j] /\ Rank(f[i].t) <= Rank(f[j].t)

LEMMA RankIsNat ==
  ASSUME NEW e \in HpEntries
  PROVE  Rank(e.t) \in 0..Len(HpTokens)
  <1>1. e.t = HpNone \/ \E i \in DOMAIN HpTokens : HpTokens[i] = e.t
    BY DEF HpEntries, HpTokenSet
  <1>2. DOMAIN HpTokens = 1..Len(HpTokens) /\ Len(HpTokens) \in Nat
    BY HpAssumption, LenProperties
  <1>3. CASE e.t = HpNone
    BY <1>2, <1>3 DEF Rank
  <1>4. CASE e.t # HpNone
    <2>1. Rank(e.t) \in DOMAIN HpTokens
      BY <1>1, <1>4 DEF Rank
    <2> QED  BY <1>2, <2>1
  <1> QED  BY <1>3, <1>4

LEMMA LastOfList ==
  ASSUME NEW S, S \subseteq HpEntries, S # {}
  PROVE  \E e \in S : \A x \in S : Rank(x.t) <= Rank(e.t)
  <1> DEFINE M == Len(HpTokens)
             D == {M - Rank(x.t) : x \in S}
  <1>1. M \in Nat /\ \A x \in S : Rank(x.t) \in 0..M
    BY RankIsNat, HpAssumption, LenProperties
  <1>2. D \subseteq Nat /\ D # {}
    <2>1. \A x \in S : M - Rank(x.t) \in Nat
      BY <1>1
    <2> QED  BY <2>1
  <1>3. PICK d \in D : \A y \in D : d <= y
    <2> HIDE DEF D
    <2> QED  BY <1>2, NatLeast
  <1>4. PICK e \in S : d = M - Rank(e.t)
    BY <1>3
  <1>5. ASSUME NEW x \in S PROVE Rank(x.t) <= Rank(e.t)
    <2>1. M - Rank(e.t) <= M - Rank(x.t)
      BY <1>3, <1>4
    <2>2. Rank(x.t) \in 0..M /\ Rank(e.t) \in 0..M
      BY <1>1
    <2> HIDE DEF M
    <2> QED  BY <1>1, <2>1, <2>2
  <1> QED  BY <1>5

LEMMA SortExists ==
  ASSUME NEW S, S \subseteq HpEntries, IsFiniteSet(S)
  PROVE  \E f \in [1..Cardinality(S) -> S] : Sorted(f, Cardinality(S))
  <1> DEFINE T == {n \in Nat : \A R \in SUBSET HpEntries :
                       IsFiniteSet(R) /\ Cardinality(R) = n => \E f \in [1..n -> R] : Sorted(f, n)}
  <1>1. 0 \in T
    <2>1. ASSUME NEW R, Cardinality(R) = 0 PROVE \E f \in [1..0 -> R] : Sorted(f, 0)
      <3>1. [i \in 1..0 |-> i] \in [1..0 -> R]
        OBVIOUS
      <3>2. Sorted([i \in 1..0 |-> i], 0)
        BY DEF Sorted
      <3> QED  BY <3>1, <3>2
    <2> QED  BY <2>1
  <1>2. ASSUME NEW n \in Nat, n \in T PROVE n + 1 \in T
    <2>1. ASSUME NEW R \in SUBSET HpEntries, IsFiniteSet(R), Cardinality(R) = n + 1
          PROVE  \E f \in [1..(n + 1) -> R] : Sorted(f, n + 1)
      <3>1. R # {}
        BY <2>1, FS_EmptySet
      <3>2. PICK e \in R : \A x \in R : Rank(x.t) <= Rank(e.t)
        BY <3>1, LastOfList
      <3>3. IsFiniteSet(R \ {e}) /\ Cardinality(R \ {e}) = n
        <4>1. IsFiniteSet(R \ {e}) /\ Cardinality(R \ {e}) = Cardinality(R) - 1
          BY <2>1, FS_RemoveElement
        <4> QED  BY <2>1, <4>1
      <3>4. PICK f \in [1..n -> R \ {e}] : Sorted(f, n)
        BY <1>2, <3>3
      <3> DEFINE g == [i \in 1..(n + 1) |-> IF i = n + 1 THEN e ELSE f[i]]
      <3>5. \A i \in 1..n : g[i] = f[i] /\ f[i] \in R \ {e} /\ i \in 1..(n + 1)
        BY <3>4
      <3>6. g[n + 1] = e
        OBVIOUS
      <3>7. g \in [1..(n + 1) -> R]
        BY <3>4
      <3> HIDE DEF g
      <3>8. ASSUME NEW i \in 1..(n + 1), NEW j \in 1..(n + 1), i < j
            PROVE  g[i] # g[j] /\ Rank(g[i].t) <= Rank(g[j].t)
        <4>1. i \in 1..n
          BY <3>8
        <4>2. CASE j = n + 1
          BY <3>2, <3>5, <3>6, <4>1, <4>2
        <4>3. CASE j # n + 1
          <5>1. j \in 1..n
            BY <4>3
          <5> QED  BY <3>4, <3>5, <3>8, <4>1, <5>1 DEF Sorted
        <4> QED  BY <4>2, <4>3
      <3>9. Sorted(g, n + 1)
        BY <3>8 DEF Sorted
      <3> QED  BY <3>7, <3>9
    <2> QED  BY <2>1
  <1> HIDE DEF T
  <1>3. Cardinality(S) \in T
    <2>1. Nat \subseteq T
      BY <1>1, <1>2, SetInduction
    <2> QED  BY <2>1, FS_CardinalityType
  <1> QED  BY <1>3 DEF T

LEMMA RowsAre ==
  ASSUME NEW S, S \subseteq HpEntries, IsFiniteSet(S)
  PROVE  /\ Rows(S) \in Seq(HpEntries)
         /\ {Rows(S)[i] : i \in DOMAIN Rows(S)} = S
         /\ S # {} => 1 \in DOMAIN Rows(S)
  <1> DEFINE n == Cardinality(S)
             f == Rows(S)
  <1>1. n \in Nat
    BY FS_CardinalityType
  <1>2. f \in [1..n -> S] /\ Sorted(f, n)
    <2>1. \E g \in [1..n -> S] : \A i, j \in 1..n : i < j => g[i] # g[j] /\ Rank(g[i].t) <= Rank(g[j].t)
      BY SortExists DEF Sorted
    <2> QED  BY <2>1 DEF Rows, Sorted
  <1> HIDE DEF f
  <1>3. f \in Injection(1..n, S)
    <2>1. ASSUME NEW i \in 1..n, NEW j \in 1..n, f[i] = f[j] PROVE i = j
      <3>1. ~(i < j) /\ ~(j < i)
        BY <1>2, <2>1 DEF Sorted
      <3> QED  BY <1>1, <3>1
    <2> QED  BY <1>2, <2>1 DEF Injection, IsInjective
  <1>4. Cardinality(1..n) = n
    BY <1>1, FS_Interval
  <1>5. f \in Surjection(1..n, S)
    BY <1>3, <1>4, FS_Injection
  <1>6. \A x \in S : \E i \in 1..n : f[i] = x
    BY <1>5 DEF Surjection
  <1>7. DOMAIN f = 1..n /\ \A i \in 1..n : f[i] \in S
    BY <1>2
  <1>8. f \in Seq(HpEntries)
    <2>1. f \in [1..n -> HpEntries]
      BY <1>2
    <2> QED  BY <1>1, <2>1, SeqDef
  <1>9. {f[i] : i \in DOMAIN f} = S
    BY <1>6, <1>7
  <1>10. S # {} => 1 \in DOMAIN f
    BY <1>1, <1>6, <1>7
  <1> QED  BY <1>8, <1>9, <1>10 DEF f

-----------------------------------------------------------------------------
(* What the variables hold.                                                *)
HpCmds == {"init", "slots", "certs", "decrypt"}
HpArgs == [slot : Nat, pin : {TRUE, FALSE}, t : HpCerts \cup {HpNone}]
UpUnits == ({"cmd"} \X HpCmds) \cup ({"arg"} \X HpArgs)
SlotLists == {S \in SUBSET HpEntries : IsFiniteSet(S)}
DownUnits == ({"cmd"} \X {"init", "slots", "certs"}) \cup ({"info"} \X {TRUE, FALSE})
             \cup ({"slots"} \X SlotLists) \cup ({"certs"} \X SUBSET HpCerts)
             \cup ({"len"} \X Nat) \cup ({"data"} \X {"hash"})
EvKinds == {"tokens", "user", "domain"}
HpEvs == {<<"tokens">>, <<"user", 1>>} \cup ({"domain"} \X Nat)

\* requests on their way, after what is kept of the last packet: a command
\* and its argument by turns
KindAt(i) == IF i % 2 = 1 THEN "cmd" ELSE "arg"
UpFits(up, last) ==
    /\ up \in Seq(UpUnits) /\ last \in Seq(UpUnits) /\ Len(last) \in {0, 1, 3}
    /\ (Len(last) + Len(up)) % 2 = 0
    /\ \A i \in 1..Len(last) : last[i][1] = KindAt(i)
    /\ \A i \in 1..Len(up) : up[i][1] = KindAt(Len(last) + i)
\* an answer has its command, then its data
DataOf(cmd) == IF cmd = "init" THEN {"info"} \X {TRUE, FALSE}
               ELSE IF cmd = "slots" THEN {"slots"} \X SlotLists ELSE {"certs"} \X SUBSET HpCerts
DownFits(down) ==
    /\ down \in Seq(DownUnits)
    /\ \A i \in 1..Len(down) : down[i][1] = "cmd" =>
           i < Len(down) /\ down[i + 1] \in DataOf(down[i][2])

HpPlaces == {"none", "connect", "hello", "init", "pause", "lock", "slots", "failed", "stopping", "ended"}
ThreadFits(th) ==
    DOMAIN th = {"at", "try"} /\ th.try \in 1..HpAttempts /\ th.at \in HpPlaces
CallFits(c) ==
    /\ DOMAIN c = {"op", "arg", "at"}
    /\ c.op \in {"none", "tokens", "certs", "decrypt"} /\ c.arg \in HpArgs
    /\ c.at \in {"none", "spawned", "lock", "asked"}
    /\ c.op = "none" <=> c.at = "none"
    /\ c.at = "asked" => c.op # "tokens"
WinNames == {"open", "token", "rows", "cur", "users", "inputs", "button", "asked", "time", "auto"}
WinFits(w) ==
    /\ DOMAIN w = WinNames
    /\ w.open \in {"open", "closed", "crashed"} /\ w.token \in {TRUE, FALSE}
    /\ w.rows \in Seq(HpEntries) /\ w.cur \in Nat /\ w.time \in 0..HpSeconds
    /\ w.token = TRUE => w.cur \in DOMAIN w.rows
    /\ w.users \in [kind : {"empty", "names", "certs"}, slot : Nat, t : HpCerts \cup {HpNone}]
ListFits(list, polled) == list \in SlotLists /\ polled = {e.t : e \in list}

HpFits ==
    /\ hpCard \in [HpSlots -> HpTokenSet \cup {HpNone}]
    /\ hpLink \in {"none", "ready", "open", "closed"}
    /\ ThreadFits(hpThread) /\ CallFits(hpCall) /\ WinFits(hpWin)
    /\ hpQueue \in Seq(HpEvs)
    /\ ListFits(hpList, hpPolled)
    /\ UpFits(hpUp, hpLast) /\ DownFits(hpDown)

(* What the window shows.  The list of tokens it shows is the one that was *)
(* read, or a signal about it is on its way; the last choice of a token    *)
(* that is queued is the one shown; and certificates asked for or offered  *)
(* are those of its slot.                                                  *)
None(q, kind) == \A i \in 1..Len(q) : q[i][1] # kind
LastChoice(q, cur) ==
    \A i \in 1..Len(q) :
        q[i][1] = "domain" /\ (\A j \in 1..Len(q) : i < j => q[j][1] # "domain") => q[i] = <<"domain", cur>>
ListShown(w, list) ==
    /\ w.token = TRUE <=> list # {}
    /\ w.token = TRUE => {w.rows[i] : i \in DOMAIN w.rows} = list
CertsShown(w, c) ==
    /\ c.op = "certs" => w.token = TRUE /\ c.arg.slot = w.rows[w.cur].slot
    /\ w.token = TRUE /\ w.users.kind = "certs" => w.users.slot = w.rows[w.cur].slot
ShownFits(w, c, q, list) ==
    w.open = "open" =>
        /\ None(q, "tokens") /\ c.op # "tokens" => ListShown(w, list)
        /\ LastChoice(q, w.cur)
        /\ None(q, "domain") => CertsShown(w, c)

(* The stream: nothing under way, a request, or its answer.                *)
Quiet == hpUp = <<>> /\ hpLast = <<>> /\ hpDown = <<>> /\ hpOpen = 0
Asked(cmd) ==
    /\ hpOpen = 1 /\ hpDown = <<>>
    /\ \E u \in Units(hpUp) \cap ({"arg"} \X HpArgs) :
          \/ hpLast = <<>> /\ hpUp = <<Unit("cmd", cmd), u>>
          \/ hpLast = <<Unit("cmd", cmd)>> /\ hpUp = <<u>>
Told(cmd) ==
    /\ hpUp = <<>> /\ hpLast = <<>> /\ hpOpen = 0
    /\ IF cmd = "decrypt" THEN hpDown = <<Unit("len", 32), Unit("data", "hash")>>
       ELSE \E d \in DataOf(cmd) : hpDown = <<Unit("cmd", cmd), d>>
Serving(cmd) == Asked(cmd) \/ Told(cmd)

Lock(n, wait) == [n |-> n, wait |-> wait]
(* Before the first pause, and after a handler that gave up, the window    *)
(* knows of no tokens and calls nobody.                                    *)
Alone ==
    /\ hpWin.open = "open" /\ hpWin.token = FALSE /\ hpCall = NoCall /\ hpMutex = Lock(0, <<>>)
    /\ None(hpQueue, "tokens") /\ None(hpQueue, "domain")
(* The call beside the timer's coroutine: whether it is in the queue of    *)
(* the lock, and what the stream holds for it once it has the lock.        *)
CallOut == hpCall.at \in {"none", "spawned"}
CallHolds ==
    \/ hpCall.at = "lock" /\ Quiet
    \/ hpCall.at = "asked" /\ \E cmd \in HpCmds : hpCall.op = cmd /\ Serving(cmd)

WhenClosed ==
    /\ hpWin.open # "open" /\ hpThread.at = "ended" /\ hpCall = NoCall
    /\ Quiet \/ \E cmd \in HpCmds : Serving(cmd)
WhenAlone ==
    hpThread.at \in {"none", "connect", "hello", "failed", "stopping", "ended"} /\ Alone /\ Quiet
WhenGreeting == hpThread.at = "init" /\ Alone /\ Serving("init")
WhenPause ==
    /\ hpThread.at = "pause" /\ hpWin.open = "open"
    /\ \/ CallOut /\ hpMutex = Lock(0, <<>>) /\ Quiet
       \/ hpMutex = Lock(1, <<>>) /\ CallHolds
WhenLock ==
    /\ hpThread.at = "lock" /\ hpWin.open = "open"
    /\ \/ CallOut /\ hpMutex = Lock(1, <<>>) /\ Quiet
       \/ hpCall.at = "lock" /\ hpMutex = Lock(2, <<"gui">>) /\ Quiet
       \/ hpMutex = Lock(2, <<"timer">>) /\ CallHolds
WhenSlots ==
    /\ hpThread.at = "slots" /\ hpWin.open = "open"
    /\ \/ CallOut /\ hpMutex = Lock(1, <<>>) /\ Serving("slots")
       \/ hpCall.at = "lock" /\ hpMutex = Lock(2, <<"gui">>) /\ Serving("slots")
SharedFits == WhenClosed \/ WhenAlone \/ WhenGreeting \/ WhenPause \/ WhenLock \/ WhenSlots

(* Whatever happens to the link, the greeting comes first and alone.       *)
GreetingFits ==
    /\ hpThread.at \in {"none", "connect", "hello"} => Alone /\ Quiet
    /\ hpThread.at = "init" => Alone /\ Serving("init")

HpInv ==
    /\ HpFits
    /\ ShownFits(hpWin, hpCall, hpQueue, hpList)
    /\ GreetingFits
    /\ hpOdd = {} => SharedFits
    /\ hpLink = "closed" => "lost" \in hpOdd

LEMMA HpFitsGives == ASSUME HpFits PROVE HpTypeOK
  BY DEF HpFits, HpTypeOK, ThreadFits, HpPlaces, CallFits, WinFits, ListFits, SlotLists

-----------------------------------------------------------------------------
(* What the window's queue does to the conditions on it.                   *)
LEMMA QueueAppend ==
  ASSUME NEW q \in Seq(HpEvs), NEW e \in HpEvs, NEW cur
  PROVE  /\ Append(q, e) \in Seq(HpEvs)
         /\ \A k \in EvKinds : None(Append(q, e), k) <=> None(q, k) /\ e[1] # k
         /\ e = <<"domain", cur>> => LastChoice(Append(q, e), cur)
         /\ e[1] # "domain" /\ LastChoice(q, cur) => LastChoice(Append(q, e), cur)
  <1> DEFINE p == Append(q, e)
             n == Len(q)
  <1>1. n \in Nat /\ Len(p) = n + 1 /\ p[n + 1] = e /\ \A i \in 1..n : p[i] = q[i]
    OBVIOUS
  <1>2. p \in Seq(HpEvs)
    OBVIOUS
  <1> HIDE DEF p, n
  <1>3. \A i \in 1..(n + 1) : i = n + 1 \/ i \in 1..n
    BY <1>1
  <1>4. \A i \in 1..n : i \in 1..(n + 1) /\ i < n + 1
    BY <1>1
  <1>5. n + 1 \in 1..(n + 1)
    BY <1>1
  <1>6. \A k \in EvKinds : None(p, k) <=> None(q, k) /\ e[1] # k
    <2>1. ASSUME NEW k \in EvKinds, None(p, k) PROVE None(q, k) /\ e[1] # k
      BY <1>1, <1>4, <1>5, <2>1 DEF None, n
    <2>2. ASSUME NEW k \in EvKinds, None(q, k), e[1] # k PROVE None(p, k)
      BY <1>1, <1>3, <2>2 DEF None, n
    <2> QED  BY <2>1, <2>2
  <1>7. ASSUME e = <<"domain", cur>> PROVE LastChoice(p, cur)
    <2>1. ASSUME NEW i \in 1..(n + 1), i # n + 1, \A j \in 1..(n + 1) : i < j => p[j][1] # "domain" PROVE FALSE
      BY <1>1, <1>3, <1>4, <1>5, <1>7, <2>1
    <2> QED  BY <1>1, <1>7, <2>1 DEF LastChoice
  <1>8. ASSUME e[1] # "domain", LastChoice(q, cur) PROVE LastChoice(p, cur)
    <2>1. ASSUME NEW i \in 1..(n + 1), p[i][1] = "domain", \A j \in 1..(n + 1) : i < j => p[j][1] # "domain"
          PROVE  p[i] = <<"domain", cur>>
      <3>1. i \in 1..n
        BY <1>1, <1>3, <1>8, <2>1
      <3>2. \A j \in 1..n : i < j => q[j][1] # "domain"
        BY <1>1, <1>4, <2>1
      <3> QED  BY <1>1, <1>8, <2>1, <3>1, <3>2 DEF LastChoice, n
    <2> QED  BY <1>1, <2>1 DEF LastChoice
  <1> QED  BY <1>2, <1>6, <1>7, <1>8 DEF p

LEMMA QueueTail ==
  ASSUME NEW q \in Seq(HpEvs), q # <<>>, NEW cur
  PROVE  /\ Tail(q) \in Seq(HpEvs) /\ Head(q) \in HpEvs
         /\ \A k \in EvKinds : None(q, k) <=> None(Tail(q), k) /\ Head(q)[1] # k
         /\ LastChoice(q, cur) => LastChoice(Tail(q), cur)
         /\ LastChoice(q, cur) /\ None(Tail(q), "domain") /\ Head(q)[1] = "domain" => Head(q) = <<"domain", cur>>
  <1> DEFINE p == Tail(q)
             n == Len(q)
  <1>1. n \in Nat \ {0} /\ Len(p) = n - 1 /\ Head(q) = q[1] /\ (\A i \in 1..(n - 1) : p[i] = q[i + 1]) /\ q[1] \in HpEvs
    OBVIOUS
  <1>2. p \in Seq(HpEvs)
    OBVIOUS
  <1> HIDE DEF p, n
  <1>3. \A i \in 1..n : i = 1 \/ (i - 1 \in 1..(n - 1) /\ p[i - 1] = q[i])
    <2>1. \A i \in 1..n : i = 1 \/ (i - 1 \in 1..(n - 1) /\ i - 1 + 1 = i)
      BY <1>1
    <2> QED  BY <1>1, <2>1
  <1>4. \A i \in 1..(n - 1) : i + 1 \in 1..n /\ i + 1 # 1
    BY <1>1
  <1>5. \A k \in EvKinds : None(q, k) <=> None(p, k) /\ q[1][1] # k
    <2>0. 1 \in 1..n
      BY <1>1
    <2>1. ASSUME NEW k \in EvKinds, None(q, k) PROVE None(p, k) /\ q[1][1] # k
      BY <1>1, <1>4, <2>0, <2>1 DEF None, n
    <2>2. ASSUME NEW k \in EvKinds, None(p, k), q[1][1] # k PROVE None(q, k)
      BY <1>1, <1>3, <2>2 DEF None, n
    <2> QED  BY <2>1, <2>2
  <1>6. ASSUME LastChoice(q, cur) PROVE LastChoice(p, cur)
    <2>1. ASSUME NEW i \in 1..(n - 1), p[i][1] = "domain", \A j \in 1..(n - 1) : i < j => p[j][1] # "domain"
          PROVE  p[i] = <<"domain", cur>>
      <3>1. i + 1 \in 1..n /\ q[i + 1] = p[i]
        BY <1>1, <1>4
      <3>2. ASSUME NEW j \in 1..n, i + 1 < j PROVE q[j][1] # "domain"
        <4>1. j # 1 /\ i < j - 1
          BY <3>2
        <4> QED  BY <1>3, <2>1, <4>1
      <3> QED  BY <1>6, <2>1, <3>1, <3>2 DEF LastChoice, n
    <2> QED  BY <1>1, <2>1 DEF LastChoice
  <1>7. ASSUME LastChoice(q, cur), None(p, "domain"), q[1][1] = "domain" PROVE q[1] = <<"domain", cur>>
    <2>1. 1 \in 1..n
      BY <1>1
    <2>2. \A j \in 1..n : 1 < j => q[j][1] # "domain"
      BY <1>1, <1>3, <1>7 DEF None
    <2> QED  BY <1>7, <2>1, <2>2 DEF LastChoice, n
  <1> QED  BY <1>1, <1>2, <1>5, <1>6, <1>7 DEF p

LEMMA QueueEmpty ==
  <<>> \in Seq(HpEvs) /\ (\A k \in EvKinds : None(<<>>, k)) /\ \A cur : LastChoice(<<>>, cur)
  BY DEF None, LastChoice

-----------------------------------------------------------------------------
(* A piece of the stream arrives.                                          *)
Buf(up, last, n) == last \o SubSeq(up, 1, n)
After(up, n) == SubSeq(up, n + 1, Len(up))

LEMMA UpSplits ==
  ASSUME NEW up, NEW last, UpFits(up, last), NEW n \in 1..Len(up), Len(Buf(up, last, n)) <= 3
  PROVE  /\ Buf(up, last, n) \in Seq(UpUnits) /\ Len(Buf(up, last, n)) = Len(last) + n
         /\ Len(Buf(up, last, n)) \in 1..3
         /\ \A i \in 1..Len(Buf(up, last, n)) : Buf(up, last, n)[i][1] = KindAt(i)
         /\ UpFits(After(up, n), Kept(Buf(up, last, n)))
  <1> DEFINE b == Buf(up, last, n)
             a == After(up, n)
             h == SubSeq(up, 1, n)
  <1>1. up \in Seq(UpUnits) /\ last \in Seq(UpUnits) /\ n \in Nat \ {0} /\ Len(up) \in Nat /\ n <= Len(up)
        /\ Len(last) \in Nat
    BY DEF UpFits
  <1>2. h \in Seq(UpUnits) /\ Len(h) = n /\ \A i \in 1..n : h[i] = up[i]
    BY <1>1
  <1>3. a \in Seq(UpUnits) /\ Len(a) = Len(up) - n /\ \A i \in 1..(Len(up) - n) : a[i] = up[n + i]
    BY <1>1 DEF After
  <1>4. /\ b \in Seq(UpUnits) /\ Len(b) = Len(last) + n
        /\ \A i \in 1..Len(last) : b[i] = last[i]
        /\ \A i \in 1..n : b[Len(last) + i] = h[i]
    <2> HIDE DEF h
    <2>1. b = last \o h
      BY DEF Buf, h
    <2> HIDE DEF b
    <2> QED  BY <1>1, <1>2, <2>1
  <1> HIDE DEF h, a, b
  <1>5. \A i \in 1..Len(last) : b[i][1] = KindAt(i)
    BY <1>4 DEF UpFits
  <1>6. \A i \in 1..Len(up) : up[i][1] = KindAt(Len(last) + i)
    BY DEF UpFits
  <1>7. ASSUME NEW i \in 1..Len(b) PROVE b[i][1] = KindAt(i)
    <2>1. CASE i <= Len(last)
      BY <1>1, <1>5, <2>1
    <2>2. CASE ~(i <= Len(last))
      <3> DEFINE k == i - Len(last)
      <3>1. k \in 1..n /\ k \in 1..Len(up) /\ Len(last) + k = i
        BY <1>1, <1>4, <2>2
      <3> HIDE DEF k
      <3> QED  BY <1>2, <1>4, <1>6, <3>1
    <2> QED  BY <2>1, <2>2
  <1>8. Len(last) \in {0, 1, 3} /\ (Len(last) + Len(up)) % 2 = 0
    BY DEF UpFits
  <1>9. Len(b) \in 1..3
    BY <1>1, <1>4 DEF b
  <1>10. \A i \in 1..Len(a) : a[i][1] = KindAt(Len(b) + i)
    <2>1. ASSUME NEW i \in 1..Len(a) PROVE a[i][1] = KindAt(Len(b) + i)
      <3>1. n + i \in 1..Len(up) /\ Len(last) + (n + i) = Len(b) + i /\ i \in 1..(Len(up) - n)
        BY <1>1, <1>3, <1>4
      <3> QED  BY <1>3, <1>6, <3>1
    <2> QED  BY <2>1
  <1>11. (Len(b) + Len(a)) % 2 = 0 /\ Len(a) \in Nat
    <2>1. Len(b) + Len(a) = Len(last) + Len(up) /\ Len(a) \in Nat
      BY <1>1, <1>3, <1>4
    <2> QED  BY <1>8, <2>1
  <1>12. UpFits(a, Kept(b))
    <2>1. CASE Len(b) = 1 \/ Len(b) = 3
      <3>0. Len(b) % 2 = 1
        <4>1. 1 % 2 = 1 /\ 3 % 2 = 1
          OBVIOUS
        <4> QED  BY <2>1, <4>1
      <3>1. Kept(b) = b
        BY <3>0 DEF Kept
      <3> QED  BY <1>3, <1>4, <1>7, <1>10, <1>11, <2>1, <3>1 DEF UpFits
    <2>2. CASE Len(b) = 2
      <3>1. Kept(b) = <<>>
        BY <2>2 DEF Kept
      <3>2. Len(<<>>) = 0 /\ <<>> \in Seq(UpUnits)
        OBVIOUS
      <3>3. (0 + Len(a)) % 2 = 0
        BY <1>11, <2>2
      <3>4. \A i \in 1..Len(a) : a[i][1] = KindAt(0 + i)
        <4>1. \A i \in 1..Len(a) : (2 + i) % 2 = (0 + i) % 2
          BY <1>11
        <4> QED  BY <1>10, <2>2, <4>1 DEF KindAt
      <3> QED  BY <1>3, <3>1, <3>2, <3>3, <3>4 DEF UpFits
    <2> QED  BY <1>9, <2>1, <2>2
  <1> QED  BY <1>4, <1>7, <1>9, <1>12 DEF a, b

LEMMA ConcatParts ==
  ASSUME NEW S, NEW s \in Seq(S), NEW t \in Seq(S)
  PROVE  /\ s \o t \in Seq(S) /\ Len(s \o t) = Len(s) + Len(t) /\ Len(s) \in Nat
         /\ \A i \in 1..Len(s) : (s \o t)[i] = s[i]
         /\ \A i \in 1..Len(t) : (s \o t)[Len(s) + i] = t[i]
  OBVIOUS

LEMMA PairAppended ==
  ASSUME NEW S, NEW s \in Seq(S), NEW t \in Seq(S), Len(t) = 2
  PROVE  /\ s \o t \in Seq(S) /\ Len(s \o t) = Len(s) + 2
         /\ \A i \in 1..Len(s) : (s \o t)[i] = s[i]
         /\ (s \o t)[Len(s) + 1] = t[1] /\ (s \o t)[Len(s) + 2] = t[2]
  <1>1. 1 \in 1..Len(t) /\ 2 \in 1..Len(t)
    OBVIOUS
  <1> QED  BY <1>1, ConcatParts

LEMMA UpGrows ==
  ASSUME NEW up, NEW last, UpFits(up, last), NEW c \in HpCmds, NEW a \in HpArgs
  PROVE  UpFits(up \o Request(c, a), last)
  <1> DEFINE r == Request(c, a)
             v == up \o r
  <1>1. r \in Seq(UpUnits) /\ Len(r) = 2 /\ r[1][1] = "cmd" /\ r[2][1] = "arg"
    BY DEF Request, Unit, UpUnits
  <1>2. up \in Seq(UpUnits) /\ Len(up) \in Nat /\ Len(last) \in {0, 1, 3} /\ (Len(last) + Len(up)) % 2 = 0
    BY DEF UpFits
  <1> HIDE DEF r
  <1>3. /\ v \in Seq(UpUnits) /\ Len(v) = Len(up) + 2
        /\ (\A i \in 1..Len(up) : v[i] = up[i]) /\ v[Len(up) + 1] = r[1] /\ v[Len(up) + 2] = r[2]
    <2>1. up \in Seq(UpUnits) /\ r \in Seq(UpUnits) /\ Len(r) = 2
      BY <1>1, <1>2
    <2> QED  BY <2>1, PairAppended DEF v
  <1> HIDE DEF v
  <1>4. \A i \in 1..Len(up) : up[i][1] = KindAt(Len(last) + i)
    BY DEF UpFits
  <1>5. ASSUME NEW i \in 1..Len(v) PROVE v[i][1] = KindAt(Len(last) + i)
    <2>1. CASE i \in 1..Len(up)
      BY <1>3, <1>4, <2>1
    <2>2. CASE i = Len(up) + 1
      <3>1. KindAt(Len(last) + i) = "cmd"
        BY <1>2, <2>2 DEF KindAt
      <3> QED  BY <1>1, <1>3, <2>2, <3>1
    <2>3. CASE i = Len(up) + 2
      <3>1. KindAt(Len(last) + i) = "arg"
        BY <1>2, <2>3 DEF KindAt
      <3> QED  BY <1>1, <1>3, <2>3, <3>1
    <2> QED  BY <1>2, <1>3, <2>1, <2>2, <2>3
  <1>6. (Len(last) + Len(v)) % 2 = 0
    BY <1>2, <1>3
  <1> QED  BY <1>3, <1>5, <1>6 DEF UpFits, v, r

-----------------------------------------------------------------------------
(* The answers.                                                            *)
LEMMA DownJoins ==
  ASSUME NEW d, NEW a, DownFits(d), DownFits(a)
  PROVE  DownFits(d \o a)
  <1> DEFINE e == d \o a
  <1>1. d \in Seq(DownUnits) /\ a \in Seq(DownUnits) /\ Len(d) \in Nat /\ Len(a) \in Nat
    BY DEF DownFits
  <1>2. /\ e \in Seq(DownUnits) /\ Len(e) = Len(d) + Len(a)
        /\ (\A i \in 1..Len(d) : e[i] = d[i]) /\ \A i \in 1..Len(a) : e[Len(d) + i] = a[i]
    BY <1>1
  <1> HIDE DEF e
  <1>3. ASSUME NEW i \in 1..Len(e), e[i][1] = "cmd" PROVE i < Len(e) /\ e[i + 1] \in DataOf(e[i][2])
    <2>1. CASE i \in 1..Len(d)
      <3>1. i < Len(d) /\ d[i + 1] \in DataOf(d[i][2])
        BY <1>2, <1>3, <2>1 DEF DownFits
      <3>2. i + 1 \in 1..Len(d)
        BY <1>1, <2>1, <3>1
      <3> QED  BY <1>1, <1>2, <2>1, <3>1, <3>2
    <2>2. CASE i \notin 1..Len(d)
      <3> DEFINE k == i - Len(d)
      <3>1. k \in 1..Len(a) /\ Len(d) + k = i /\ Len(d) + (k + 1) = i + 1
        BY <1>1, <1>2, <2>2
      <3> HIDE DEF k
      <3>2. k < Len(a) /\ a[k + 1] \in DataOf(a[k][2])
        BY <1>2, <1>3, <3>1 DEF DownFits
      <3>3. k + 1 \in 1..Len(a)
        BY <1>1, <3>1, <3>2
      <3> QED  BY <1>1, <1>2, <3>1, <3>2, <3>3
    <2> QED  BY <2>1, <2>2
  <1> QED  BY <1>2, <1>3 DEF DownFits, e

LEMMA DownDrops ==
  ASSUME NEW d, DownFits(d), d # <<>>
  PROVE  /\ DownFits(Tail(d)) /\ Head(d) = d[1] /\ Head(d) \in DownUnits
         /\ Head(d)[1] = "cmd" => Tail(d) # <<>> /\ DownFits(Tail(Tail(d))) /\ d[2] \in DataOf(Head(d)[2])
  <1>1. ASSUME NEW x, DownFits(x), x # <<>>
        PROVE  DownFits(Tail(x)) /\ Len(Tail(x)) = Len(x) - 1 /\ x \in Seq(DownUnits) /\ Len(x) \in Nat \ {0}
    <2> DEFINE t == Tail(x)
    <2>1. x \in Seq(DownUnits)
      BY <1>1 DEF DownFits
    <2>2. Len(x) \in Nat \ {0} /\ t \in Seq(DownUnits) /\ Len(t) = Len(x) - 1 /\ \A i \in 1..Len(t) : t[i] = x[i + 1]
      BY <1>1, <2>1
    <2> HIDE DEF t
    <2>3. ASSUME NEW i \in 1..Len(t), t[i][1] = "cmd" PROVE i < Len(t) /\ t[i + 1] \in DataOf(t[i][2])
      <3>1. i + 1 \in 1..Len(x)
        BY <2>2
      <3>2. i + 1 < Len(x) /\ x[i + 2] \in DataOf(x[i + 1][2])
        BY <1>1, <2>2, <2>3, <3>1 DEF DownFits
      <3>3. i + 1 \in 1..Len(t) /\ i + 1 + 1 = i + 2
        BY <2>2, <3>2
      <3> QED  BY <2>2, <3>2, <3>3
    <2> QED  BY <2>1, <2>2, <2>3 DEF DownFits, t
  <1>2. Head(d) = d[1] /\ d[1] \in DownUnits /\ 1 \in 1..Len(d)
    BY <1>1
  <1>3. ASSUME d[1][1] = "cmd" PROVE 1 < Len(d) /\ d[1 + 1] \in DataOf(d[1][2])
    BY <1>2, <1>3 DEF DownFits
  <1>4. ASSUME d[1][1] = "cmd" PROVE Tail(d) # <<>>
    <2>1. Len(Tail(d)) = Len(d) - 1 /\ 1 < Len(d) /\ Len(d) \in Nat
      BY <1>1, <1>3, <1>4
    <2>2. Len(<<>>) = 0
      OBVIOUS
    <2>3. Len(Tail(d)) # 0
      BY <2>1
    <2> QED  BY <2>2, <2>3
  <1>5. 1 + 1 = 2
    OBVIOUS
  <1>6. DownFits(Tail(d))
    BY <1>1
  <1>7. ASSUME d[1][1] = "cmd" PROVE DownFits(Tail(Tail(d))) /\ d[2] \in DataOf(d[1][2])
    BY <1>1, <1>3, <1>4, <1>5, <1>6, <1>7
  <1> QED  BY <1>2, <1>4, <1>6, <1>7

LEMMA MisreadFits ==
  ASSUME DownFits(hpDown), hpDown # <<>>
  PROVE  DownFits(Misread)
  <1>1. DownFits(<<>>)
    BY DEF DownFits
  <1> QED  BY <1>1, DownDrops DEF Misread

(* What a request can be answered with.                                    *)
AnswerTo(c) ==
    IF c = "decrypt" THEN {<<>>, <<Unit("len", 0)>>, <<Unit("len", 32), Unit("data", "hash")>>}
    ELSE (IF c = "certs" THEN {<<>>} ELSE {}) \cup {<<Unit("cmd", c), d>> : d \in DataOf(c)}

LEMMA AnswersFit ==
  ASSUME HpFits, NEW buf, NEW c \in HpCmds, buf[1] = Unit("cmd", c), NEW answer \in Answers(buf)
  PROVE  answer \in AnswerTo(c) /\ DownFits(answer)
  <1>1. buf[1][2] = c
    BY DEF Unit
  <1>2. answer \in AnswerTo(c)
    <2>1. CASE c = "init"
      <3>1. PICK loaded \in {TRUE, FALSE} : answer = Pkcs11Init(loaded)
        BY <1>1, <2>1 DEF Answers, LoadLibrary
      <3> QED  BY <2>1, <3>1 DEF AnswerTo, Pkcs11Init, DataOf, Unit
    <2>2. CASE c = "slots"
      <3>1. PICK pulled : answer = Pkcs11GetSlots(pulled)
        BY <1>1, <2>2 DEF Answers
      <3> DEFINE S == {[t |-> GetTokenInfo(s, pulled), slot |-> s] : s \in GetSlots}
      <3>2. S \in SlotLists
        <4>1. IsFiniteSet(GetSlots) /\ GetSlots \subseteq HpSlots
          BY HpAssumption, FS_Subset DEF GetSlots
        <4>2. IsFiniteSet(S)
          <5> DEFINE f == [s \in GetSlots |-> [t |-> GetTokenInfo(s, pulled), slot |-> s]]
          <5>1. f \in Surjection(GetSlots, S)
            BY DEF Surjection
          <5> QED  BY <4>1, <5>1, FS_Surjection
        <4>3. \A s \in HpSlots : GetTokenInfo(s, pulled) \in HpTokenSet \cup {HpNone}
          BY DEF GetTokenInfo, HpFits
        <4>4. S \subseteq HpEntries
          BY <4>1, <4>3 DEF HpEntries
        <4> QED  BY <4>2, <4>4 DEF SlotLists
      <3>3. answer = <<Unit("cmd", "slots"), Unit("slots", S)>>
        BY <3>1 DEF Pkcs11GetSlots
      <3> HIDE DEF S
      <3> QED  BY <2>2, <3>2, <3>3 DEF AnswerTo, DataOf, Unit
    <2>3. CASE c = "certs"
      <3>1. answer = Pkcs11GetSlotCertificates(buf[2][2].slot)
        BY <1>1, <2>3 DEF Answers
      <3>2. GetCertificates(buf[2][2].slot) \subseteq HpCerts
        BY DEF GetCertificates, FindPublicKey
      <3> QED  BY <2>3, <3>1, <3>2 DEF AnswerTo, DataOf, Unit, Pkcs11GetSlotCertificates
    <2>4. CASE c = "decrypt"
      <3>1. answer = Pkcs11DecryptData(buf[2][2])
        BY <1>1, <2>4 DEF Answers
      <3> QED  BY <2>4, <3>1 DEF AnswerTo, Pkcs11DecryptData
    <2> QED  BY <2>1, <2>2, <2>3, <2>4 DEF HpCmds
  <1>3. DownFits(<<>>)
    BY DEF DownFits
  <1>4. ASSUME c # "decrypt", NEW d \in DataOf(c) PROVE DownFits(<<Unit("cmd", c), d>>)
    <2> DEFINE u == Unit("cmd", c)
               a == <<u, d>>
    <2>1. Len(a) = 2 /\ a[1] = u /\ a[2] = d
      OBVIOUS
    <2>2. u \in DownUnits /\ u[1] = "cmd" /\ u[2] = c
      BY <1>4 DEF DownUnits, Unit, HpCmds
    <2>3. d \in DownUnits /\ d[1] # "cmd"
      BY <1>4 DEF DataOf, DownUnits
    <2> HIDE DEF u
    <2>4. a \in Seq(DownUnits)
      BY <2>2, <2>3
    <2> HIDE DEF a
    <2>5. ASSUME NEW i \in 1..Len(a), a[i][1] = "cmd" PROVE i < Len(a) /\ a[i + 1] \in DataOf(a[i][2])
      <3>1. i = 1 \/ i = 2
        BY <2>1
      <3> QED  BY <2>1, <2>2, <2>3, <2>5, <3>1, <1>4
    <2> QED  BY <2>4, <2>5 DEF DownFits, a, u
  <1>5. DownFits(<<Unit("len", 0)>>)
    <2>1. Unit("len", 0) \in DownUnits /\ Unit("len", 0)[1] # "cmd"
      BY DEF DownUnits, Unit
    <2> QED  BY <2>1 DEF DownFits
  <1>6. DownFits(<<Unit("len", 32), Unit("data", "hash")>>)
    <2>1. Unit("len", 32) \in DownUnits /\ Unit("data", "hash") \in DownUnits
          /\ Unit("len", 32)[1] # "cmd" /\ Unit("data", "hash")[1] # "cmd"
      BY DEF DownUnits, Unit
    <2> QED  BY <2>1 DEF DownFits
  <1> QED  BY <1>2, <1>3, <1>4, <1>5, <1>6 DEF AnswerTo

-----------------------------------------------------------------------------
(* The steps of the window that do not touch its tokens: it closes, or     *)
(* goes on with the tokens it has.                                         *)
WinKept(w, v) ==
    /\ v.open = w.open /\ v.token = w.token /\ v.rows = w.rows /\ v.cur = w.cur
    /\ v.users = w.users \/ v.users.kind # "certs"
Closes ==
    /\ \E how \in {"closed", "crashed"} : hpWin' = [hpWin EXCEPT !.open = how]
    /\ hpThread' = At("ended") /\ hpCall' = NoCall /\ hpQueue' = <<>>
Decrypts(c) == c.op = "decrypt" /\ c.at = "spawned" /\ c.arg \in HpArgs /\ DOMAIN c = {"op", "arg", "at"}
GoesOn ==
    /\ WinFits(hpWin') /\ WinKept(hpWin, hpWin') /\ hpThread' = hpThread
    /\ hpCall' = hpCall \/ (Decrypts(hpCall') /\ hpWin.token = TRUE)
    /\ hpQueue' = hpQueue \/ hpQueue' = Append(hpQueue, <<"user", 1>>)

LEMMA WinSame ==
  ASSUME NEW w, WinFits(w), NEW v,
         /\ DOMAIN v = WinNames /\ v.open \in {w.open, "closed", "crashed"}
         /\ v.token = w.token /\ v.rows = w.rows /\ v.cur = w.cur
         /\ v.time = w.time /\ v.users \in {Names, NoUsers, w.users}
  PROVE  WinFits(v) /\ (v.open = w.open => WinKept(w, v))
  <1>1. NoUsers \in [kind : {"empty", "names", "certs"}, slot : Nat, t : HpCerts \cup {HpNone}] /\ NoUsers.kind # "certs"
    BY DEF NoUsers
  <1>2. Names \in [kind : {"empty", "names", "certs"}, slot : Nat, t : HpCerts \cup {HpNone}] /\ Names.kind # "certs"
    BY DEF Names, NoUsers
  <1> HIDE DEF NoUsers, Names
  <1>3. v.users \in [kind : {"empty", "names", "certs"}, slot : Nat, t : HpCerts \cup {HpNone}]
        /\ (v.users = w.users \/ v.users.kind # "certs")
    BY <1>1, <1>2 DEF WinFits
  <1>4. v.open = w.open => WinKept(w, v)
    BY <1>3 DEF WinKept
  <1>5. v.open \in {"open", "closed", "crashed"}
    BY DEF WinFits
  <1> QED  BY <1>3, <1>4, <1>5 DEF WinFits

LEMMA WinSets ==
  ASSUME NEW w, WinFits(w)
  PROVE  /\ \A b \in {TRUE, FALSE} : WinFits([w EXCEPT !.button = b]) /\ WinKept(w, [w EXCEPT !.button = b])
         /\ WinFits(GiveBack(w)) /\ WinKept(w, GiveBack(w))
         /\ WinFits(Disabled(w)) /\ WinKept(w, Disabled(w))
         /\ WinFits([Disabled(w) EXCEPT !.asked = TRUE]) /\ WinKept(w, [Disabled(w) EXCEPT !.asked = TRUE])
         /\ WinFits([GiveBack(w) EXCEPT !.asked = FALSE]) /\ WinKept(w, [GiveBack(w) EXCEPT !.asked = FALSE])
         /\ WinFits([w EXCEPT !.asked = TRUE]) /\ WinKept(w, [w EXCEPT !.asked = TRUE])
         /\ WinFits([w EXCEPT !.users = Names]) /\ WinKept(w, [w EXCEPT !.users = Names])
         /\ WinFits([w EXCEPT !.users = NoUsers]) /\ WinKept(w, [w EXCEPT !.users = NoUsers])
         /\ \A how \in {"closed", "crashed"} : WinFits([w EXCEPT !.open = how])
  <1> DEFINE Same(v) == /\ DOMAIN v = WinNames
                        /\ v.token = w.token /\ v.rows = w.rows /\ v.cur = w.cur /\ v.time = w.time
  <1>0. DOMAIN w = WinNames
    BY DEF WinFits
  <1>1. ASSUME NEW b \in {TRUE, FALSE}, NEW v, v = [w EXCEPT !.button = b]
        PROVE  Same(v) /\ v.open = w.open /\ v.users = w.users
    BY <1>0, <1>1 DEF WinNames
  <1>2. ASSUME NEW v, v = GiveBack(w) \/ v = Disabled(w)
        PROVE  Same(v) /\ v.open = w.open /\ v.users = w.users
    BY <1>0, <1>2 DEF WinNames, GiveBack, Disabled
  <1>3. ASSUME NEW v, v = [Disabled(w) EXCEPT !.asked = TRUE] \/ v = [GiveBack(w) EXCEPT !.asked = FALSE]
                      \/ v = [w EXCEPT !.asked = TRUE]
        PROVE  Same(v) /\ v.open = w.open /\ v.users = w.users
    BY <1>0, <1>3 DEF WinNames, GiveBack, Disabled
  <1>4. ASSUME NEW v, NEW u \in {Names, NoUsers}, v = [w EXCEPT !.users = u]
        PROVE  Same(v) /\ v.open = w.open /\ v.users = u
    BY <1>0, <1>4 DEF WinNames
  <1>5. ASSUME NEW how \in {"closed", "crashed"}, NEW v, v = [w EXCEPT !.open = how]
        PROVE  Same(v) /\ v.open = how /\ v.users = w.users
    BY <1>0, <1>5 DEF WinNames
  <1>6. ASSUME NEW v, Same(v), v.open \in {w.open, "closed", "crashed"}, v.users \in {w.users, Names, NoUsers}
        PROVE  WinFits(v) /\ (v.open = w.open => WinKept(w, v))
    BY <1>6, WinSame
  <1> HIDE DEF Same
  <1>7. \A b \in {TRUE, FALSE} : WinFits([w EXCEPT !.button = b]) /\ WinKept(w, [w EXCEPT !.button = b])
    BY <1>1, <1>6
  <1>8. WinFits(GiveBack(w)) /\ WinKept(w, GiveBack(w)) /\ WinFits(Disabled(w)) /\ WinKept(w, Disabled(w))
    BY <1>2, <1>6
  <1>9. /\ WinFits([Disabled(w) EXCEPT !.asked = TRUE]) /\ WinKept(w, [Disabled(w) EXCEPT !.asked = TRUE])
        /\ WinFits([GiveBack(w) EXCEPT !.asked = FALSE]) /\ WinKept(w, [GiveBack(w) EXCEPT !.asked = FALSE])
        /\ WinFits([w EXCEPT !.asked = TRUE]) /\ WinKept(w, [w EXCEPT !.asked = TRUE])
    BY <1>3, <1>6
  <1>10. /\ WinFits([w EXCEPT !.users = Names]) /\ WinKept(w, [w EXCEPT !.users = Names])
         /\ WinFits([w EXCEPT !.users = NoUsers]) /\ WinKept(w, [w EXCEPT !.users = NoUsers])
    BY <1>4, <1>6
  <1>11. \A how \in {"closed", "crashed"} : WinFits([w EXCEPT !.open = how])
    BY <1>5, <1>6
  <1> QED  BY <1>7, <1>8, <1>9, <1>10, <1>11

LEMMA ClosesHow ==
  ASSUME HpFits, NEW how \in {"closed", "crashed"}, CloseWindow(how)
  PROVE  Closes
  BY DEF CloseWindow, Closes

LEMMA LoginClickedMoves ==
  ASSUME HpFits, LoginClicked
  PROVE  Closes \/ GoesOn
  <1> USE DEF HpFits
  <1>1. CASE ~hpWin.token /\ hpWin' = [Disabled(hpWin) EXCEPT !.asked = TRUE] /\ UNCHANGED <<hpCall, hpThread, hpQueue>>
    BY <1>1, WinSets DEF GoesOn
  <1>2. CASE CloseWindow("closed") \/ CloseWindow("crashed")
    BY <1>2, ClosesHow
  <1>3. CASE /\ hpWin.token /\ GnutlsEncryptData
             /\ \E pin \in BOOLEAN :
                   Spawn("decrypt", [slot |-> hpWin.rows[hpWin.cur].slot, pin |-> pin, t |-> hpWin.users.t])
             /\ hpWin' = Disabled(hpWin)
             /\ UNCHANGED <<hpThread, hpQueue>>
    <2>1. PICK pin \in {TRUE, FALSE} :
              hpCall' = [op |-> "decrypt", arg |-> [slot |-> hpWin.rows[hpWin.cur].slot, pin |-> pin, t |-> hpWin.users.t],
                         at |-> "spawned"]
      BY <1>3 DEF Spawn
    <2>2. hpWin.token = TRUE
      BY <1>3 DEF WinFits
    <2>3. hpWin.rows[hpWin.cur] \in HpEntries /\ hpWin.users.t \in HpCerts \cup {HpNone}
      BY <2>2 DEF WinFits
    <2>4. hpWin.rows[hpWin.cur].slot \in Nat
      BY <2>3, HpAssumption DEF HpEntries
    <2>5. Decrypts(hpCall')
      BY <2>1, <2>3, <2>4 DEF Decrypts, HpArgs
    <2> QED  BY <1>3, <2>2, <2>5, WinSets DEF GoesOn
  <1>4. CASE hpWin.token /\ hpWin' = GiveBack(hpWin) /\ UNCHANGED <<hpCall, hpThread, hpQueue>>
    BY <1>4, WinSets DEF GoesOn
  <1> QED  BY <1>1, <1>2, <1>3, <1>4 DEF LoginClicked

LEMMA WindowMoves ==
  ASSUME HpFits,
         \/ PasswordChanged \/ ClickLogin \/ SetLoginPasswordCallback \/ LoginFailureCallback
         \/ ClosedByService \/ TimerReloadUsers \/ TimerOneSec
  PROVE  GuiFree /\ UNCHANGED hpGuiRest /\ (Closes \/ GoesOn)
  <1> USE DEF HpFits
  <1>1. CASE PasswordChanged
    <2>1. PICK b \in {TRUE, FALSE} : hpWin' = [hpWin EXCEPT !.button = b]
      BY <1>1 DEF PasswordChanged
    <2> QED  BY <1>1, <2>1, WinSets DEF PasswordChanged, GoesOn
  <1>2. CASE ClickLogin \/ SetLoginPasswordCallback
    BY <1>2, LoginClickedMoves DEF ClickLogin, SetLoginPasswordCallback
  <1>3. CASE LoginFailureCallback
    BY <1>3, WinSets DEF LoginFailureCallback, GoesOn
  <1>4. CASE ClosedByService
    BY <1>4, ClosesHow DEF ClosedByService
  <1>5. CASE TimerReloadUsers
    BY <1>5, WinSets DEF TimerReloadUsers, GoesOn
  <1>6. CASE TimerOneSec
    <2>1. CASE hpWin.time = 1
      BY <1>6, <2>1, ClosesHow DEF TimerOneSec
    <2>2. CASE hpWin.time # 1
      <3>1. hpWin' = [hpWin EXCEPT !.time = hpWin.time - 1] /\ UNCHANGED <<hpCall, hpThread, hpQueue>>
            /\ GuiFree /\ UNCHANGED hpGuiRest /\ hpWin.time > 0
        BY <1>6, <2>2 DEF TimerOneSec
      <3>2. hpWin.time - 1 \in 0..HpSeconds
        BY <3>1, HpAssumption DEF WinFits
      <3>3. WinFits(hpWin') /\ WinKept(hpWin, hpWin')
        BY <3>1, <3>2 DEF WinFits, WinNames, WinKept
      <3> QED  BY <3>1, <3>3 DEF GoesOn
    <2> QED  BY <2>1, <2>2
  <1> QED  BY <1>1, <1>2, <1>3, <1>4, <1>5, <1>6

-----------------------------------------------------------------------------
(* Every step keeps what the variables hold.                               *)
LEMMA AtFits ==
  ASSUME ThreadFits(hpThread), NEW p \in HpPlaces
  PROVE  ThreadFits(At(p)) /\ At(p).at = p
  BY DEF ThreadFits, At

LEMMA RecsFit ==
  /\ Arg(0) \in HpArgs /\ CallFits(NoCall)
  /\ \A op \in {"tokens", "certs", "decrypt"}, arg \in HpArgs :
        CallFits([op |-> op, arg |-> arg, at |-> "spawned"])
  /\ \A c : Decrypts(c) => CallFits(c)
  /\ \A e \in HpEntries : Arg(e.slot) \in HpArgs
  <1>1. ASSUME NEW n \in Nat PROVE Arg(n) \in HpArgs
    BY DEF Arg, HpArgs
  <1>2. CallFits(NoCall)
    BY <1>1 DEF CallFits, NoCall
  <1>3. ASSUME NEW op \in {"tokens", "certs", "decrypt"}, NEW arg \in HpArgs
        PROVE  CallFits([op |-> op, arg |-> arg, at |-> "spawned"])
    BY DEF CallFits
  <1>4. \A c : Decrypts(c) => CallFits(c)
    BY DEF Decrypts, CallFits
  <1>5. \A e \in HpEntries : e.slot \in Nat
    BY HpAssumption DEF HpEntries
  <1> QED  BY <1>1, <1>2, <1>3, <1>4, <1>5

LEMMA FitsWindow ==
  ASSUME HpFits,
         \/ PasswordChanged \/ ClickLogin \/ SetLoginPasswordCallback \/ LoginFailureCallback
         \/ ClosedByService \/ TimerReloadUsers \/ TimerOneSec
  PROVE  HpFits'
  <1> USE DEF HpFits
  <1>1. UNCHANGED <<hpCard, hpLink, hpUp, hpLast, hpDown, hpList, hpPolled>>
    BY WindowMoves DEF hpGuiRest, hpLinkVars
  <1>2. CASE Closes
    <2>1. WinFits(hpWin')
      <3>1. PICK how \in {"closed", "crashed"} : hpWin' = [hpWin EXCEPT !.open = how]
        BY <1>2 DEF Closes
      <3>2. WinFits([hpWin EXCEPT !.open = how])
        BY WinSets
      <3> QED  BY <3>1, <3>2
    <2>2. ThreadFits(hpThread')
      BY <1>2, AtFits DEF Closes, HpPlaces
    <2>3. CallFits(hpCall') /\ hpQueue' \in Seq(HpEvs)
      BY <1>2, RecsFit, QueueEmpty DEF Closes
    <2> QED  BY <1>1, <2>1, <2>2, <2>3
  <1>3. CASE GoesOn
    <2>1. CallFits(hpCall')
      BY <1>3, RecsFit DEF GoesOn
    <2>2. hpQueue' \in Seq(HpEvs)
      <3>1. <<"user", 1>> \in HpEvs
        BY DEF HpEvs
      <3> QED  BY <1>3, <3>1, QueueAppend DEF GoesOn
    <2> QED  BY <1>1, <1>3, <2>1, <2>2 DEF GoesOn
  <1> QED  BY <1>2, <1>3, WindowMoves

LEMMA FitsGui ==
  ASSUME HpFits, Queued \/ PickToken \/ Pkcs11ListennerCallback
  PROVE  HpFits'
  <1> USE DEF HpFits
  <1>1. CASE Queued
    <2>1. UNCHANGED <<hpCard, hpLink, hpUp, hpLast, hpDown, hpList, hpPolled, hpThread>>
      BY <1>1 DEF Queued, hpLinkVars
    <2>2. hpQueue' \in Seq(HpEvs)
      BY <1>1, QueueTail DEF Queued
    <2>3. CallFits(hpCall') /\ WinFits(hpWin')
      <3>1. CASE Spawn("tokens", Arg(0)) /\ hpWin' = hpWin
        BY <3>1, RecsFit DEF Spawn
      <3>2. CASE /\ hpWin.token /\ Head(hpQueue)[2] \in DOMAIN hpWin.rows
                 /\ Spawn("certs", Arg(hpWin.rows[Head(hpQueue)[2]].slot))
                 /\ hpWin' = DomainIndexChanged(hpWin)
        <4>1. hpWin.rows[Head(hpQueue)[2]] \in HpEntries
          BY <3>2 DEF WinFits
        <4> QED  BY <3>2, <4>1, RecsFit, WinSets DEF Spawn, DomainIndexChanged
      <3>3. CASE UNCHANGED <<hpCall, hpWin>>
        BY <3>3
      <3>4. CASE UsernameIndexChanged /\ hpCall' = hpCall
        <4>1. \E b \in {TRUE, FALSE} : hpWin' = hpWin \/ hpWin' = [hpWin EXCEPT !.button = b]
          BY <3>4 DEF UsernameIndexChanged
        <4>2. PICK b \in {TRUE, FALSE} : hpWin' = hpWin \/ hpWin' = [hpWin EXCEPT !.button = b]
          BY <4>1
        <4>3. WinFits([hpWin EXCEPT !.button = b])
          BY WinSets
        <4>4. WinFits(hpWin')
          BY <4>2, <4>3
        <4> QED  BY <3>4, <4>4
      <3> QED  BY <1>1, <3>1, <3>2, <3>3, <3>4 DEF Queued
    <2> QED  BY <2>1, <2>2, <2>3
  <1>2. CASE PickToken
    <2>1. UNCHANGED <<hpCard, hpLink, hpUp, hpLast, hpDown, hpList, hpPolled, hpThread, hpCall>>
      BY <1>2 DEF PickToken, hpGuiRest, hpLinkVars
    <2>2. PICK i \in DOMAIN hpWin.rows : hpWin' = [hpWin EXCEPT !.cur = i] /\ hpQueue' = Append(hpQueue, <<"domain", i>>)
      BY <1>2 DEF PickToken
    <2>3. i \in Nat
      BY <2>2 DEF WinFits
    <2>4. WinFits(hpWin')
      BY <2>2, <2>3 DEF WinFits, WinNames
    <2>5. hpQueue' \in Seq(HpEvs)
      <3>1. <<"domain", i>> \in HpEvs
        BY <2>3 DEF HpEvs
      <3> QED  BY <2>2, <3>1, QueueAppend
    <2> QED  BY <2>1, <2>4, <2>5
  <1>3. CASE Pkcs11ListennerCallback
    <2>1. UNCHANGED <<hpCard, hpUp, hpLast, hpDown, hpList, hpPolled, hpCall, hpQueue, hpWin>> /\ hpLink' = "ready"
      BY <1>3 DEF Pkcs11ListennerCallback
    <2>2. ThreadFits(hpThread')
      BY <1>3, AtFits DEF Pkcs11ListennerCallback, HpPlaces
    <2> QED  BY <2>1, <2>2
  <1> QED  BY <1>1, <1>2, <1>3

(* The answers that are read.                                              *)
LEMMA AnswerRead ==
  ASSUME DownFits(hpDown), hpDown # <<>>, NEW c, Answered(c)
  PROVE  c \in {"init", "slots", "certs"} /\ DownFits(Rest) /\ Value = hpDown[2][2] /\ hpDown[2] \in DataOf(c)
  <1>1. Head(hpDown)[1] = "cmd" /\ Head(hpDown)[2] = c
    BY DEF Answered, Unit
  <1>2. Head(hpDown) \in DownUnits /\ DownFits(Rest) /\ hpDown[2] \in DataOf(c)
    BY <1>1, DownDrops DEF Rest
  <1>3. c \in {"init", "slots", "certs"}
    BY <1>1, <1>2 DEF DownUnits
  <1> QED  BY <1>2, <1>3 DEF Value

LEMMA ValueIs ==
  ASSUME DownFits(hpDown), hpDown # <<>>
  PROVE  /\ Answered("slots") => Value \in SlotLists
         /\ Answered("certs") => Value \in SUBSET HpCerts
         /\ Answered("init") => Value \in {TRUE, FALSE}
  BY AnswerRead DEF DataOf

-----------------------------------------------------------------------------
LEMMA FitsIoc ==
  ASSUME HpInv, HpIoc
  PROVE  HpFits'
  <1> USE DEF HpFits, HpInv
  <1> DEFINE Rested == UNCHANGED <<hpCard, hpCall, hpWin>>
  <1>1. CASE RetryConnect
    <2>1. UNCHANGED <<hpCard, hpUp, hpLast, hpDown, hpList, hpPolled, hpCall, hpQueue, hpWin>>
          /\ hpLink' \in {hpLink, "open"}
      BY <1>1 DEF RetryConnect
    <2>2. ThreadFits(hpThread')
      <3>1. CASE hpThread' = At("hello") \/ hpThread' = At("failed")
        BY <3>1, AtFits DEF HpPlaces
      <3>2. CASE hpThread.try # HpAttempts /\ hpThread' = [hpThread EXCEPT !.try = hpThread.try + 1]
        <4>1. hpThread.try + 1 \in 1..HpAttempts
          BY <3>2, HpAssumption DEF ThreadFits
        <4> QED  BY <3>2, <4>1 DEF ThreadFits
      <3> QED  BY <1>1, <3>1, <3>2 DEF RetryConnect
    <2> QED  BY <2>1, <2>2
  <1>2. CASE HandshakeSend \/ UpdateTokensSend
    <2>1. UNCHANGED <<hpCard, hpList, hpPolled, hpCall, hpQueue, hpWin, hpLink, hpDown, hpLast>>
      BY <1>2 DEF HandshakeSend, UpdateTokensSend, Send
    <2>2. PICK c \in HpCmds : hpUp' = hpUp \o Request(c, Arg(0))
      BY <1>2 DEF HandshakeSend, UpdateTokensSend, Send, HpCmds
    <2>3. UpFits(hpUp', hpLast')
      BY <2>1, <2>2, RecsFit, UpGrows
    <2>4. ThreadFits(hpThread')
      BY <1>2, AtFits DEF HandshakeSend, UpdateTokensSend, HpPlaces
    <2> QED  BY <2>1, <2>3, <2>4
  <1>3. CASE RemoteHandshake
    <2>1. UNCHANGED <<hpCard, hpList, hpPolled, hpCall, hpQueue, hpWin, hpLink, hpUp, hpLast>>
      BY <1>3 DEF RemoteHandshake
    <2>2. ThreadFits(hpThread')
      BY <1>3, AtFits DEF RemoteHandshake, HpPlaces
    <2>3. DownFits(hpDown')
      <3>1. \E d \in DataOf("init") : hpDown = <<Unit("cmd", "init"), d>>
        BY <1>3 DEF RemoteHandshake, GreetingFits, Serving, Told, Asked
      <3>2. Answered("init")
        BY <3>1 DEF Answered
      <3> QED  BY <1>3, <3>2, AnswerRead DEF RemoteHandshake
    <2> QED  BY <2>1, <2>2, <2>3
  <1>4. CASE UpdateTokensTimer \/ HandlerFails \/ StopThread
    <2>1. UNCHANGED <<hpCard, hpLink, hpUp, hpLast, hpDown, hpList, hpPolled, hpCall, hpQueue, hpWin>>
      BY <1>4 DEF UpdateTokensTimer, HandlerFails, StopThread, hpLinkVars
    <2>2. ThreadFits(hpThread')
      BY <1>4, AtFits DEF UpdateTokensTimer, HandlerFails, StopThread, HpPlaces
    <2> QED  BY <2>1, <2>2
  <1>5. CASE UpdateTokens
    <2>1. UNCHANGED <<hpCard, hpLink, hpUp, hpLast, hpCall, hpWin>> /\ hpDown # <<>>
      BY <1>5 DEF UpdateTokens
    <2>2. ThreadFits(hpThread')
      BY <1>5, AtFits DEF UpdateTokens, HpPlaces
    <2>3. DownFits(hpDown')
      BY <1>5, AnswerRead, MisreadFits DEF UpdateTokens
    <2>4. CASE Answered("slots")
      <3>1. Value \in SlotLists
        BY <2>1, <2>4, ValueIs
      <3>2. ListFits(hpList', hpPolled')
        <4>1. hpPolled' = {e.t : e \in Value}
          BY <1>5, <2>4 DEF UpdateTokens
        <4>2. CASE TokensDiffer(hpList, Value)
          BY <1>5, <2>4, <3>1, <4>1, <4>2 DEF UpdateTokens, ListFits
        <4>3. CASE ~TokensDiffer(hpList, Value)
          <5>1. hpList' = hpList
            BY <1>5, <2>4, <4>3 DEF UpdateTokens
          <5>2. {e.t : e \in hpList} = {e.t : e \in Value}
            BY <4>3 DEF TokensDiffer, SameTokens
          <5> QED  BY <4>1, <5>1, <5>2 DEF ListFits
        <4> QED  BY <4>2, <4>3
      <3>3. hpQueue' \in Seq(HpEvs)
        <4>1. <<"tokens">> \in HpEvs
          BY DEF HpEvs
        <4>2. hpQueue' = hpQueue \/ hpQueue' = Append(hpQueue, <<"tokens">>)
          BY <1>5, <2>4 DEF UpdateTokens
        <4> QED  BY <4>1, <4>2, QueueAppend
      <3> QED  BY <2>1, <2>2, <2>3, <3>2, <3>3
    <2>5. CASE ~Answered("slots")
      <3>1. UNCHANGED <<hpPolled, hpList, hpQueue>>
        BY <1>5, <2>5 DEF UpdateTokens
      <3> QED  BY <2>1, <2>2, <2>3, <3>1
    <2> QED  BY <2>4, <2>5
  <1> QED  BY <1>1, <1>2, <1>3, <1>4, <1>5 DEF HpIoc

LEMMA FitsCall ==
  ASSUME HpFits, HpCallStep
  PROVE  HpFits'
  <1> USE DEF HpFits
  <1>1. CASE CallEnter
    <2>1. UNCHANGED <<hpCard, hpLink, hpUp, hpLast, hpDown, hpList, hpPolled, hpThread, hpQueue, hpWin>>
      BY <1>1 DEF CallEnter, hpLinkVars
    <2>2. CallFits(hpCall')
      BY <1>1 DEF CallEnter, CallFits
    <2> QED  BY <2>1, <2>2
  <1>2. CASE CallSend
    <2>1. UNCHANGED <<hpCard, hpLink, hpLast, hpDown, hpList, hpPolled, hpThread, hpQueue, hpWin>>
      BY <1>2 DEF CallSend, Send
    <2>2. CallFits(hpCall')
      BY <1>2 DEF CallSend, CallFits
    <2>3. hpUp' = hpUp \o Request(hpCall.op, hpCall.arg) /\ hpCall.op \in HpCmds /\ hpCall.arg \in HpArgs
      BY <1>2 DEF CallSend, Send, CallFits, HpCmds
    <2>4. UpFits(hpUp', hpLast')
      BY <2>1, <2>3, UpGrows
    <2> QED  BY <2>1, <2>2, <2>4
  <1>3. CASE TokensChanged
    <2>1. UNCHANGED <<hpCard, hpLink, hpUp, hpLast, hpDown, hpList, hpPolled, hpThread>> /\ hpCall' = NoCall
      BY <1>3 DEF TokensChanged, hpLinkVars
    <2>2. CASE hpList = {}
      <3>1. hpWin' = SwitchLoginMode(hpWin) /\ hpQueue' = Append(hpQueue, <<"user", 1>>)
        BY <1>3, <2>2 DEF TokensChanged
      <3>2. WinFits(hpWin')
        BY <3>1 DEF WinFits, WinNames, SwitchLoginMode, Names, NoUsers
      <3>3. hpQueue' \in Seq(HpEvs)
        <4>1. <<"user", 1>> \in HpEvs
          BY DEF HpEvs
        <4> QED  BY <3>1, <4>1, QueueAppend
      <3> QED  BY <2>1, <3>2, <3>3, RecsFit
    <2>3. CASE hpList # {}
      <3>1. hpWin' = TokenRows(hpWin, hpList) /\ hpQueue' = Append(hpQueue, <<"domain", 1>>)
        BY <1>3, <2>3 DEF TokensChanged
      <3>2. Rows(hpList) \in Seq(HpEntries) /\ 1 \in DOMAIN Rows(hpList)
        BY <2>3, RowsAre DEF ListFits, SlotLists
      <3>3. WinFits(hpWin')
        BY <3>1, <3>2 DEF WinFits, WinNames, TokenRows, NoUsers
      <3>4. hpQueue' \in Seq(HpEvs)
        <4>1. <<"domain", 1>> \in HpEvs
          BY DEF HpEvs
        <4> QED  BY <3>1, <4>1, QueueAppend
      <3> QED  BY <2>1, <3>3, <3>4, RecsFit
    <2> QED  BY <2>2, <2>3
  <1>4. CASE GotCertificates
    <2> DEFINE certs == IF Answered("certs") THEN Value ELSE {}
    <2>1. UNCHANGED <<hpCard, hpLink, hpUp, hpLast, hpList, hpPolled, hpThread>> /\ hpCall' = NoCall /\ hpDown # <<>>
      BY <1>4 DEF GotCertificates
    <2>2. DownFits(hpDown')
      BY <1>4, AnswerRead, MisreadFits DEF GotCertificates
    <2>3. certs \in SUBSET HpCerts
      BY <2>1, ValueIs
    <2>4. CASE certs = {}
      <3>1. hpWin' = [hpWin EXCEPT !.button = FALSE] /\ hpQueue' = hpQueue
        BY <1>4, <2>4 DEF GotCertificates
      <3>2. WinFits([hpWin EXCEPT !.button = FALSE])
        BY WinSets
      <3>3. WinFits(hpWin')
        BY <3>1, <3>2
      <3> QED  BY <2>1, <2>2, <3>1, <3>3, RecsFit
    <2>5. CASE certs # {}
      <3> DEFINE users == [kind |-> "certs", slot |-> hpCall.arg.slot, t |-> CHOOSE t \in certs : TRUE]
      <3>1. hpWin' = [hpWin EXCEPT !.button = TRUE, !.users = users] /\ hpQueue' = Append(hpQueue, <<"user", 1>>)
        BY <1>4, <2>5 DEF GotCertificates
      <3>2. users \in [kind : {"empty", "names", "certs"}, slot : Nat, t : HpCerts \cup {HpNone}]
        BY <2>3, <2>5 DEF CallFits, HpArgs
      <3> HIDE DEF users
      <3>3. WinFits(hpWin')
        BY <3>1, <3>2 DEF WinFits, WinNames
      <3>4. hpQueue' \in Seq(HpEvs)
        <4>1. <<"user", 1>> \in HpEvs
          BY DEF HpEvs
        <4> QED  BY <3>1, <4>1, QueueAppend
      <3> QED  BY <2>1, <2>2, <3>3, <3>4, RecsFit
    <2> QED  BY <2>4, <2>5
  <1>5. CASE Decrypted
    <2>1. UNCHANGED <<hpCard, hpLink, hpUp, hpLast, hpList, hpPolled, hpThread, hpQueue>> /\ hpCall' = NoCall /\ hpDown # <<>>
      BY <1>5 DEF Decrypted
    <2>2. DownFits(hpDown')
      BY <1>5, AnswerRead, MisreadFits DEF Decrypted
    <2>3. hpWin' = [hpWin EXCEPT !.asked = TRUE] \/ hpWin' = GiveBack(hpWin)
      BY <1>5 DEF Decrypted
    <2>4. WinFits([hpWin EXCEPT !.asked = TRUE]) /\ WinFits(GiveBack(hpWin))
      BY WinSets
    <2>5. WinFits(hpWin')
      BY <2>3, <2>4
    <2> QED  BY <2>1, <2>2, <2>5, RecsFit
  <1>6. CASE CallFails
    <2>1. UNCHANGED <<hpCard, hpLink, hpUp, hpLast, hpDown, hpList, hpPolled>>
      BY <1>6 DEF CallFails, hpLinkVars
    <2>2. CASE hpWin' = GiveBack(hpWin) /\ hpCall' = NoCall /\ UNCHANGED <<hpQueue, hpThread>>
      <3>1. WinFits(GiveBack(hpWin))
        BY WinSets
      <3>2. WinFits(hpWin')
        BY <2>2, <3>1
      <3> QED  BY <2>1, <2>2, <3>2, RecsFit
    <2>3. CASE CloseWindow("crashed")
      <3>1. WinFits([hpWin EXCEPT !.open = "crashed"])
        BY WinSets
      <3>2. WinFits(hpWin')
        BY <2>3, <3>1 DEF CloseWindow
      <3>3. ThreadFits(hpThread')
        BY <2>3, AtFits DEF CloseWindow, HpPlaces
      <3> QED  BY <2>1, <2>3, <3>2, <3>3, RecsFit, QueueEmpty DEF CloseWindow
    <2> QED  BY <1>6, <2>2, <2>3 DEF CallFails
  <1> QED  BY <1>1, <1>2, <1>3, <1>4, <1>5, <1>6 DEF HpCallStep

(* A request is carried out when its packet is whole.                      *)
Carries(n) ==
    LET buf == Buf(hpUp, hpLast, n)
    IN  /\ hpUp' = After(hpUp, n) /\ hpLast' = Kept(buf)
        /\ Len(buf) <= 3
        /\ \/ Len(buf) < 2 /\ UNCHANGED <<hpDown, hpOpen, hpOdd, hpCard>>
           \/ \E answer \in Answers(buf) :
                 /\ Len(buf) >= 2
                 /\ hpDown' = hpDown \o answer /\ hpOpen' = hpOpen - 1
                 /\ hpCard' \in [HpSlots -> HpTokenSet \cup {HpNone}]
                 /\ hpOdd' = hpOdd \cup (IF answer = <<>> \/ answer = <<Unit("len", 0)>> THEN {"silent"} ELSE {})

LEMMA PushCarries ==
  ASSUME HpFits, PushData
  PROVE  /\ UNCHANGED <<hpLink, hpThread, hpMutex, hpList, hpCall, hpQueue, hpWin, hpPolled>>
         /\ \E n \in 1..Len(hpUp) : Carries(n)
  <1>1. UNCHANGED <<hpLink, hpThread, hpMutex, hpList, hpCall, hpQueue, hpWin, hpPolled>>
    BY DEF PushData
  <1>2. PICK n \in 1..Len(hpUp) :
          LET buf == hpLast \o SubSeq(hpUp, 1, n)
          IN  /\ Len(buf) <= 3
              /\ hpUp' = SubSeq(hpUp, n + 1, Len(hpUp))
              /\ hpLast' = Kept(buf)
              /\ IF Len(buf) < 2
                 THEN UNCHANGED <<hpDown, hpOpen, hpOdd, hpLeft, hpCard>>
                 ELSE \E answer \in Answers(buf) :
                        /\ hpDown' = hpDown \o answer
                        /\ hpOpen' = hpOpen - 1
                        /\ hpLeft' = IF Drawn(answer) THEN hpLeft - 1 ELSE hpLeft
                        /\ hpCard' = [s \in HpSlots |-> IF s \in Pulled(answer) THEN HpNone ELSE hpCard[s]]
                        /\ hpOdd' = hpOdd \cup (IF answer = <<>> \/ answer = <<Unit("len", 0)>>
                                                THEN {"silent"} ELSE {})
    BY DEF PushData
  <1> DEFINE buf == Buf(hpUp, hpLast, n)
  <1>3. buf = hpLast \o SubSeq(hpUp, 1, n) /\ After(hpUp, n) = SubSeq(hpUp, n + 1, Len(hpUp))
    BY DEF Buf, After
  <1>4. Len(buf) <= 3 /\ hpUp' = After(hpUp, n) /\ hpLast' = Kept(buf)
    BY <1>2, <1>3
  <1>5. UpFits(hpUp, hpLast)
    BY DEF HpFits
  <1>6. Len(buf) \in 1..3
    BY <1>4, <1>5, UpSplits
  <1>7. CASE Len(buf) < 2
    <2>1. UNCHANGED <<hpDown, hpOpen, hpOdd, hpCard>>
      BY <1>2, <1>3, <1>7
    <2> QED  BY <1>1, <1>4, <1>7, <2>1 DEF Carries
  <1>8. CASE ~(Len(buf) < 2)
    <2>1. PICK answer \in Answers(buf) :
             /\ hpDown' = hpDown \o answer /\ hpOpen' = hpOpen - 1
             /\ hpCard' = [s \in HpSlots |-> IF s \in Pulled(answer) THEN HpNone ELSE hpCard[s]]
             /\ hpOdd' = hpOdd \cup (IF answer = <<>> \/ answer = <<Unit("len", 0)>> THEN {"silent"} ELSE {})
      BY <1>2, <1>3, <1>8
    <2>2. hpCard' \in [HpSlots -> HpTokenSet \cup {HpNone}]
      BY <2>1 DEF HpFits
    <2>3. Len(buf) >= 2
      BY <1>6, <1>8
    <2> QED  BY <1>1, <1>4, <2>1, <2>2, <2>3 DEF Carries
  <1> QED  BY <1>7, <1>8

LEMMA FitsPush ==
  ASSUME HpFits, PushData
  PROVE  HpFits'
  <1> USE DEF HpFits
  <1>1. UNCHANGED <<hpLink, hpThread, hpMutex, hpList, hpCall, hpQueue, hpWin, hpPolled>>
    BY PushCarries
  <1>2. PICK n \in 1..Len(hpUp) : Carries(n)
    BY PushCarries
  <1> DEFINE buf == Buf(hpUp, hpLast, n)
  <1>3. Len(buf) <= 3 /\ hpUp' = After(hpUp, n) /\ hpLast' = Kept(buf)
    BY <1>2 DEF Carries
  <1>4. /\ buf \in Seq(UpUnits) /\ Len(buf) \in 1..3
        /\ (\A i \in 1..Len(buf) : buf[i][1] = KindAt(i)) /\ UpFits(hpUp', hpLast')
    BY <1>3, UpSplits
  <1>5. hpCard' \in [HpSlots -> HpTokenSet \cup {HpNone}] /\ DownFits(hpDown')
    <2>1. CASE UNCHANGED <<hpDown, hpCard>>
      BY <2>1
    <2>2. CASE \E answer \in Answers(buf) :
                 /\ Len(buf) >= 2
                 /\ hpDown' = hpDown \o answer
                 /\ hpCard' \in [HpSlots -> HpTokenSet \cup {HpNone}]
      <3>1. PICK answer \in Answers(buf) : hpDown' = hpDown \o answer
        BY <2>2
      <3>2. \E c \in HpCmds : buf[1] = Unit("cmd", c)
        <4> HIDE DEF buf
        <4>1. 1 \in 1..Len(buf) /\ buf[1] \in UpUnits
          BY <1>4
        <4>2. buf[1][1] = "cmd"
          <5>1. KindAt(1) = "cmd"
            BY DEF KindAt
          <5> QED  BY <1>4, <4>1, <5>1
        <4> QED  BY <4>1, <4>2 DEF UpUnits, Unit
      <3>3. DownFits(answer)
        BY <3>1, <3>2, AnswersFit
      <3> QED  BY <2>2, <3>1, <3>3, DownJoins
    <2> QED  BY <1>2, <2>1, <2>2 DEF Carries
  <1> QED  BY <1>1, <1>4, <1>5

LEMMA FitsPeople ==
  ASSUME HpFits, InsertToken \/ RemoveToken \/ LoseLink
  PROVE  HpFits'
  <1> USE DEF HpFits
  <1>1. UNCHANGED <<hpUp, hpLast, hpDown, hpThread, hpList, hpCall, hpQueue, hpWin, hpPolled>>
    BY DEF InsertToken, RemoveToken, LoseLink, hpLinkVars
  <1>2. hpLink' \in {hpLink, "closed"}
    BY DEF InsertToken, RemoveToken, LoseLink, hpLinkVars
  <1>3. hpCard' \in [HpSlots -> HpTokenSet \cup {HpNone}]
    BY DEF InsertToken, RemoveToken, LoseLink
  <1> QED  BY <1>1, <1>2, <1>3

LEMMA HpFitsInit == HpInit => HpFits
  <1> SUFFICES ASSUME HpInit PROVE HpFits
    OBVIOUS
  <1> USE DEF HpInit
  <1>1. hpCard \in [HpSlots -> HpTokenSet \cup {HpNone}] /\ hpLink \in {"none", "ready", "open", "closed"}
    OBVIOUS
  <1>2. ThreadFits(hpThread)
    BY HpAssumption DEF ThreadFits, HpPlaces
  <1>3. WinFits(hpWin)
    <2>1. HpSeconds \in 0..HpSeconds
      BY HpAssumption
    <2>2. <<>> \in Seq(HpEntries)
      OBVIOUS
    <2>3. NoUsers \in [kind : {"empty", "names", "certs"}, slot : Nat, t : HpCerts \cup {HpNone}]
      BY DEF NoUsers
    <2> HIDE DEF NoUsers
    <2>4. PICK a : hpWin = [open |-> "open", token |-> FALSE, rows |-> <<>>, cur |-> 1, users |-> NoUsers,
                   inputs |-> TRUE, button |-> FALSE, asked |-> FALSE, time |-> HpSeconds, auto |-> a]
      OBVIOUS
    <2> QED  BY <2>1, <2>2, <2>3, <2>4 DEF WinFits, WinNames
  <1>4. ListFits(hpList, hpPolled)
    BY FS_EmptySet DEF ListFits, SlotLists
  <1>5. UpFits(hpUp, hpLast)
    <2>1. Len(<<>>) = 0 /\ <<>> \in Seq(UpUnits)
      OBVIOUS
    <2> QED  BY <2>1 DEF UpFits
  <1>6. DownFits(hpDown)
    BY DEF DownFits
  <1> QED  BY <1>1, <1>2, <1>3, <1>4, <1>5, <1>6, RecsFit, QueueEmpty DEF HpFits

LEMMA HpFitsKept ==
  ASSUME HpInv, [HpNext]_hpVars
  PROVE  HpFits'
  <1>1. HpFits
    BY DEF HpInv
  <1>2. CASE UNCHANGED hpVars
    BY <1>1, <1>2 DEF hpVars, HpFits
  <1>3. CASE HpNext
    BY <1>1, <1>3, FitsPush, FitsIoc, FitsCall, FitsGui, FitsWindow, FitsPeople DEF HpNext, HpPeople
  <1> QED  BY <1>2, <1>3

-----------------------------------------------------------------------------
(* Every step keeps what the window shows true to what was read.           *)
LEMMA ShownSame ==
  ASSUME NEW w, NEW v, NEW c, NEW d, NEW q \in Seq(HpEvs), NEW p, NEW list,
         ShownFits(w, c, q, list), WinKept(w, v),
         (d.op = c.op /\ d.arg = c.arg) \/ (d.op \notin {"tokens", "certs"} /\ c.op # "tokens"),
         p = q \/ p = Append(q, <<"user", 1>>) \/ (q # <<>> /\ Head(q) = <<"user", 1>> /\ p = Tail(q))
  PROVE  ShownFits(v, d, p, list)
  <1>1. /\ None(p, "tokens") <=> None(q, "tokens")
        /\ None(p, "domain") <=> None(q, "domain")
        /\ LastChoice(q, w.cur) => LastChoice(p, w.cur)
    <2> DEFINE e == <<"user", 1>>
    <2>1. e \in HpEvs /\ e[1] # "tokens" /\ e[1] # "domain" /\ "tokens" \in EvKinds /\ "domain" \in EvKinds
      BY DEF HpEvs, EvKinds
    <2> HIDE DEF e
    <2>2. CASE p = q
      BY <2>2
    <2>3. CASE p = Append(q, e)
      BY <2>1, <2>3, QueueAppend
    <2>4. CASE q # <<>> /\ Head(q) = e /\ p = Tail(q)
      BY <2>1, <2>4, QueueTail
    <2> QED  BY <2>2, <2>3, <2>4 DEF e
  <1>2. v.open = w.open /\ v.cur = w.cur
    BY DEF WinKept
  <1>3. ListShown(w, list) => ListShown(v, list)
    BY DEF WinKept, ListShown
  <1>4. CertsShown(w, c) => CertsShown(v, d)
    BY DEF WinKept, CertsShown
  <1>5. d.op # "tokens" => c.op # "tokens"
    OBVIOUS
  <1> QED  BY <1>1, <1>2, <1>3, <1>4, <1>5 DEF ShownFits

LEMMA ShownWindow ==
  ASSUME HpInv,
         \/ PasswordChanged \/ ClickLogin \/ SetLoginPasswordCallback \/ LoginFailureCallback
         \/ ClosedByService \/ TimerReloadUsers \/ TimerOneSec
  PROVE  ShownFits(hpWin, hpCall, hpQueue, hpList)'
  <1>0. HpFits /\ ShownFits(hpWin, hpCall, hpQueue, hpList)
    BY DEF HpInv
  <1>1. hpList' = hpList /\ hpCall.op = "none"
    BY <1>0, WindowMoves DEF hpGuiRest, GuiFree
  <1>2. CASE Closes
    <2>1. DOMAIN hpWin = WinNames
      BY <1>0 DEF HpFits, WinFits
    <2>2. hpWin'.open # "open"
      BY <1>2, <2>1 DEF Closes, WinNames
    <2> QED  BY <2>2 DEF ShownFits
  <1>3. CASE GoesOn
    <2>1. /\ WinKept(hpWin, hpWin')
          /\ hpCall' = hpCall \/ hpCall'.op = "decrypt"
          /\ hpQueue' = hpQueue \/ hpQueue' = Append(hpQueue, <<"user", 1>>)
      BY <1>3 DEF GoesOn, Decrypts
    <2>2. hpQueue \in Seq(HpEvs)
      BY <1>0 DEF HpFits
    <2>3. (hpCall'.op = hpCall.op /\ hpCall'.arg = hpCall.arg) \/ (hpCall'.op \notin {"tokens", "certs"} /\ hpCall.op # "tokens")
      BY <1>1, <2>1
    <2>4. ShownFits(hpWin', hpCall', hpQueue', hpList)
      BY <1>0, <2>1, <2>2, <2>3, ShownSame
    <2> QED  BY <1>1, <2>4
  <1> QED  BY <1>0, <1>2, <1>3, WindowMoves

LEMMA ShownGui ==
  ASSUME HpInv, Queued \/ PickToken \/ Pkcs11ListennerCallback
  PROVE  ShownFits(hpWin, hpCall, hpQueue, hpList)'
  <1>0. HpFits /\ ShownFits(hpWin, hpCall, hpQueue, hpList) /\ hpQueue \in Seq(HpEvs) /\ WinFits(hpWin) /\ CallFits(hpCall)
    BY DEF HpInv, HpFits
  <1>1. hpList' = hpList
    BY DEF Queued, PickToken, Pkcs11ListennerCallback, hpGuiRest
  <1>2. hpCall.op = "none" /\ hpWin.open = "open"
    BY DEF Queued, PickToken, Pkcs11ListennerCallback, GuiFree
  <1>3. "tokens" \in EvKinds /\ "domain" \in EvKinds
    BY DEF EvKinds
  <1>4. CASE Queued
    <2> DEFINE ev == Head(hpQueue)
    <2>1. hpQueue # <<>> /\ hpQueue' = Tail(hpQueue)
      BY <1>4 DEF Queued
    <2>2. /\ ev \in HpEvs
          /\ None(hpQueue, "tokens") <=> None(hpQueue', "tokens") /\ ev[1] # "tokens"
          /\ None(hpQueue, "domain") <=> None(hpQueue', "domain") /\ ev[1] # "domain"
          /\ LastChoice(hpQueue, hpWin.cur) => LastChoice(hpQueue', hpWin.cur)
          /\ LastChoice(hpQueue, hpWin.cur) /\ None(hpQueue', "domain") /\ ev[1] = "domain" => ev = <<"domain", hpWin.cur>>
      BY <1>0, <1>3, <2>1, QueueTail
    <2> HIDE DEF ev
    <2>3. LastChoice(hpQueue, hpWin.cur)
      BY <1>0, <1>2 DEF ShownFits
    <2>4. CASE ev[1] = "tokens" /\ hpCall' = [op |-> "tokens", arg |-> Arg(0), at |-> "spawned"] /\ hpWin' = hpWin
      <3>1. None(hpQueue', "domain") => CertsShown(hpWin, hpCall)
        BY <1>0, <1>2, <2>2, <2>4 DEF ShownFits
      <3>2. CertsShown(hpWin, hpCall) => CertsShown(hpWin', hpCall')
        BY <2>4 DEF CertsShown
      <3> QED  BY <2>2, <2>3, <2>4, <3>1, <3>2 DEF ShownFits
    <2>5. CASE ev[1] = "domain" /\ hpWin.token /\ ev[2] \in DOMAIN hpWin.rows
               /\ hpCall' = [op |-> "certs", arg |-> Arg(hpWin.rows[ev[2]].slot), at |-> "spawned"]
               /\ hpWin' = [hpWin EXCEPT !.users = NoUsers]
      <3>1. WinFits(hpWin') /\ WinKept(hpWin, hpWin')
        BY <1>0, <2>5, WinSets
      <3>2. hpWin.token = TRUE
        BY <1>0, <2>5 DEF WinFits
      <3>3. ListShown(hpWin, hpList) => ListShown(hpWin', hpList)
        BY <3>1 DEF WinKept, ListShown
      <3>4. hpWin'.users.kind # "certs"
        BY <1>0, <2>5 DEF WinFits, WinNames, NoUsers
      <3>5. hpCall'.op = "certs" /\ hpCall'.arg.slot = hpWin.rows[ev[2]].slot
        BY <2>5 DEF Arg
      <3>6. None(hpQueue', "domain") => ev[2] = hpWin.cur
        BY <2>2, <2>3, <2>5
      <3>7. None(hpQueue', "domain") => CertsShown(hpWin', hpCall')
        BY <3>1, <3>2, <3>4, <3>5, <3>6 DEF WinKept, CertsShown
      <3>8. None(hpQueue', "tokens") => ListShown(hpWin, hpList)
        BY <1>0, <1>2, <2>2, <2>5 DEF ShownFits
      <3> QED  BY <1>1, <2>2, <2>3, <3>1, <3>3, <3>5, <3>7, <3>8 DEF ShownFits, WinKept
    <2>6. CASE ev[1] = "domain" /\ ~(hpWin.token /\ ev[2] \in DOMAIN hpWin.rows) /\ UNCHANGED <<hpCall, hpWin>>
      <3>1. None(hpQueue', "domain") => hpWin.token = FALSE
        BY <1>0, <2>2, <2>3, <2>6 DEF WinFits
      <3>2. None(hpQueue', "domain") => CertsShown(hpWin, hpCall)
        BY <1>2, <3>1 DEF CertsShown
      <3>3. None(hpQueue', "tokens") => ListShown(hpWin, hpList)
        BY <1>0, <1>2, <2>2, <2>6 DEF ShownFits
      <3> QED  BY <1>1, <2>2, <2>3, <2>6, <3>2, <3>3 DEF ShownFits
    <2>7. CASE ev[1] = "user" /\ UsernameIndexChanged /\ hpCall' = hpCall
      <3>1. PICK b \in {TRUE, FALSE} : hpWin' = hpWin \/ hpWin' = [hpWin EXCEPT !.button = b]
        BY <2>7 DEF UsernameIndexChanged
      <3>2. WinKept(hpWin, [hpWin EXCEPT !.button = b]) /\ WinKept(hpWin, hpWin)
        BY <1>0, WinSets DEF WinKept
      <3>3. WinKept(hpWin, hpWin')
        BY <3>1, <3>2
      <3>4. ev = <<"user", 1>>
        BY <2>2, <2>7 DEF HpEvs
      <3>5. ShownFits(hpWin', hpCall', hpQueue', hpList)
        BY <1>0, <2>1, <2>7, <3>3, <3>4, ShownSame DEF ev
      <3> QED  BY <1>1, <3>5
    <2> QED  BY <1>4, <2>4, <2>5, <2>6, <2>7 DEF Queued, Spawn, DomainIndexChanged, ev
  <1>5. CASE PickToken
    <2>1. hpCall' = hpCall
      BY <1>5 DEF PickToken
    <2>2. PICK i \in DOMAIN hpWin.rows : hpWin' = [hpWin EXCEPT !.cur = i] /\ hpQueue' = Append(hpQueue, <<"domain", i>>)
      BY <1>5 DEF PickToken
    <2>3. i \in Nat
      BY <1>0, <2>2 DEF WinFits
    <2>4. <<"domain", i>> \in HpEvs
      BY <2>3 DEF HpEvs
    <2>5. /\ None(hpQueue', "tokens") <=> None(hpQueue, "tokens")
          /\ ~None(hpQueue', "domain") /\ LastChoice(hpQueue', i)
      BY <1>0, <1>3, <2>2, <2>4, QueueAppend
    <2>6. hpWin'.open = "open" /\ hpWin'.cur = i /\ hpWin'.token = hpWin.token /\ hpWin'.rows = hpWin.rows
      BY <1>0, <1>2, <2>2 DEF WinFits, WinNames
    <2>7. ListShown(hpWin, hpList) => ListShown(hpWin', hpList)
      BY <2>6 DEF ListShown
    <2> QED  BY <1>0, <1>1, <1>2, <2>1, <2>5, <2>6, <2>7 DEF ShownFits
  <1>6. CASE Pkcs11ListennerCallback
    <2>1. UNCHANGED <<hpWin, hpCall, hpQueue>>
      BY <1>6 DEF Pkcs11ListennerCallback
    <2> QED  BY <1>0, <1>1, <2>1
  <1> QED  BY <1>4, <1>5, <1>6

LEMMA ShownIoc ==
  ASSUME HpInv, HpIoc
  PROVE  ShownFits(hpWin, hpCall, hpQueue, hpList)'
  <1>0. HpFits /\ ShownFits(hpWin, hpCall, hpQueue, hpList) /\ hpQueue \in Seq(HpEvs)
    BY DEF HpInv, HpFits
  <1>1. CASE UNCHANGED <<hpWin, hpCall, hpQueue, hpList>>
    BY <1>0, <1>1
  <1>2. CASE UpdateTokens
    <2>1. UNCHANGED <<hpWin, hpCall>>
      BY <1>2 DEF UpdateTokens
    <2>2. CASE hpQueue' = Append(hpQueue, <<"tokens">>)
      <3>1. <<"tokens">> \in HpEvs /\ <<"tokens">>[1] = "tokens" /\ "tokens" \in EvKinds /\ "domain" \in EvKinds
        BY DEF HpEvs, EvKinds
      <3>2. /\ ~None(hpQueue', "tokens")
            /\ None(hpQueue', "domain") <=> None(hpQueue, "domain")
            /\ LastChoice(hpQueue, hpWin.cur) => LastChoice(hpQueue', hpWin.cur)
        <4> DEFINE e == <<"tokens">>
        <4>1. e \in HpEvs /\ e[1] # "domain" /\ ~(e[1] # "tokens")
          BY <3>1
        <4>2. hpQueue' = Append(hpQueue, e)
          BY <2>2
        <4> HIDE DEF e
        <4> QED  BY <1>0, <3>1, <4>1, <4>2, QueueAppend
      <3> QED  BY <1>0, <2>1, <3>2 DEF ShownFits
    <2>3. CASE hpQueue' = hpQueue /\ hpList' = hpList
      BY <1>0, <2>1, <2>3
    <2> QED  BY <1>2, <2>2, <2>3 DEF UpdateTokens
  <1> QED  BY <1>1, <1>2 DEF HpIoc, RetryConnect, HandshakeSend, RemoteHandshake, UpdateTokensTimer,
             UpdateTokensSend, HandlerFails, StopThread

LEMMA ShownCall ==
  ASSUME HpInv, HpCallStep
  PROVE  ShownFits(hpWin, hpCall, hpQueue, hpList)'
  <1>0. /\ HpFits /\ ShownFits(hpWin, hpCall, hpQueue, hpList) /\ hpQueue \in Seq(HpEvs)
        /\ WinFits(hpWin) /\ CallFits(hpCall) /\ hpList \in SlotLists
    BY DEF HpInv, HpFits, ListFits
  <1>1. hpList' = hpList
    BY DEF HpCallStep, CallEnter, CallSend, TokensChanged, GotCertificates, Decrypted, CallFails
  <1>2. NoCall.op = "none"
    BY DEF NoCall
  <1>3. "tokens" \in EvKinds /\ "domain" \in EvKinds /\ <<"user", 1>> \in HpEvs /\ <<"domain", 1>> \in HpEvs
    BY DEF EvKinds, HpEvs
  <1>4. WinKept(hpWin, hpWin)
    BY DEF WinKept
  <1>5. CASE CallEnter \/ CallSend
    <2>1. UNCHANGED <<hpWin, hpQueue>> /\ hpCall'.op = hpCall.op /\ hpCall'.arg = hpCall.arg
      BY <1>0, <1>5 DEF CallEnter, CallSend, CallFits
    <2>2. ShownFits(hpWin, hpCall', hpQueue, hpList)
      BY <1>0, <1>4, <2>1, ShownSame
    <2> QED  BY <1>1, <2>1, <2>2
  <1>6. CASE TokensChanged
    <2>1. hpCall.op = "tokens" /\ hpCall' = NoCall
      BY <1>6 DEF TokensChanged
    <2>2. CASE hpList = {}
      <3>1. hpWin' = SwitchLoginMode(hpWin) /\ hpQueue' = Append(hpQueue, <<"user", 1>>)
        BY <1>6, <2>2 DEF TokensChanged
      <3>2. hpWin'.open = hpWin.open /\ hpWin'.token = FALSE /\ hpWin'.cur = hpWin.cur
        BY <1>0, <3>1 DEF WinFits, WinNames, SwitchLoginMode
      <3>3. LastChoice(hpQueue, hpWin.cur) => LastChoice(hpQueue', hpWin.cur)
        <4> DEFINE e == <<"user", 1>>
        <4>1. e[1] # "domain"
          OBVIOUS
        <4> HIDE DEF e
        <4> QED  BY <1>0, <1>3, <3>1, <4>1, QueueAppend DEF e
      <3>4. ListShown(hpWin', hpList') /\ CertsShown(hpWin', hpCall')
        BY <1>1, <1>2, <2>1, <2>2, <3>2 DEF ListShown, CertsShown
      <3> QED  BY <1>0, <3>2, <3>3, <3>4 DEF ShownFits
    <2>3. CASE hpList # {}
      <3>1. hpWin' = TokenRows(hpWin, hpList) /\ hpQueue' = Append(hpQueue, <<"domain", 1>>)
        BY <1>6, <2>3 DEF TokensChanged
      <3>2. hpWin'.token = TRUE /\ hpWin'.cur = 1 /\ hpWin'.rows = Rows(hpList)
        BY <1>0, <3>1 DEF WinFits, WinNames, TokenRows
      <3>3. LastChoice(hpQueue', 1) /\ ~None(hpQueue', "domain")
        <4> DEFINE e == <<"domain", 1>>
        <4>1. e = <<"domain", 1>> /\ ~(e[1] # "domain") /\ hpQueue' = Append(hpQueue, e) /\ e \in HpEvs
          BY <1>3, <3>1
        <4> HIDE DEF e
        <4> QED  BY <1>0, <1>3, <4>1, QueueAppend
      <3>4. ListShown(hpWin', hpList')
        <4>1. {Rows(hpList)[i] : i \in DOMAIN Rows(hpList)} = hpList
          BY <1>0, RowsAre DEF SlotLists
        <4> QED  BY <1>1, <2>3, <3>2, <4>1 DEF ListShown
      <3> QED  BY <3>2, <3>3, <3>4 DEF ShownFits
    <2> QED  BY <2>2, <2>3
  <1>7. CASE GotCertificates
    <2> DEFINE certs == IF Answered("certs") THEN Value ELSE {}
    <2>1. hpCall.op = "certs" /\ hpCall' = NoCall
      BY <1>7 DEF GotCertificates
    <2>2. CASE certs = {}
      <3>1. hpWin' = [hpWin EXCEPT !.button = FALSE] /\ hpQueue' = hpQueue
        BY <1>7, <2>2 DEF GotCertificates
      <3>2. WinKept(hpWin, [hpWin EXCEPT !.button = FALSE])
        BY <1>0, WinSets
      <3>3. ShownFits(hpWin', hpCall', hpQueue', hpList)
        BY <1>0, <1>2, <2>1, <3>1, <3>2, ShownSame
      <3> QED  BY <1>1, <3>3
    <2>3. CASE certs # {}
      <3> DEFINE users == [kind |-> "certs", slot |-> hpCall.arg.slot, t |-> CHOOSE t \in certs : TRUE]
      <3>1. hpWin' = [hpWin EXCEPT !.button = TRUE, !.users = users] /\ hpQueue' = Append(hpQueue, <<"user", 1>>)
        BY <1>7, <2>3 DEF GotCertificates
      <3>2. users.slot = hpCall.arg.slot
        OBVIOUS
      <3> HIDE DEF users
      <3>3. /\ hpWin'.open = hpWin.open /\ hpWin'.token = hpWin.token /\ hpWin'.cur = hpWin.cur
            /\ hpWin'.rows = hpWin.rows /\ hpWin'.users = users
        BY <1>0, <3>1 DEF WinFits, WinNames
      <3>4. /\ None(hpQueue', "tokens") <=> None(hpQueue, "tokens")
            /\ None(hpQueue', "domain") <=> None(hpQueue, "domain")
            /\ LastChoice(hpQueue, hpWin.cur) => LastChoice(hpQueue', hpWin.cur)
        <4> DEFINE e == <<"user", 1>>
        <4>1. e[1] # "domain" /\ e[1] # "tokens" /\ hpQueue' = Append(hpQueue, e) /\ e \in HpEvs
          BY <1>3, <3>1
        <4> HIDE DEF e
        <4> QED  BY <1>0, <1>3, <4>1, QueueAppend
      <3>5. ListShown(hpWin, hpList) => ListShown(hpWin', hpList')
        BY <1>1, <3>3 DEF ListShown
      <3>6. CertsShown(hpWin, hpCall) => CertsShown(hpWin', hpCall')
        BY <1>2, <2>1, <3>2, <3>3 DEF CertsShown
      <3> QED  BY <1>0, <2>1, <3>3, <3>4, <3>5, <3>6 DEF ShownFits
    <2> QED  BY <2>2, <2>3
  <1>8. CASE Decrypted
    <2>1. UNCHANGED hpQueue /\ hpCall' = NoCall /\ hpCall.op = "decrypt"
      BY <1>8 DEF Decrypted
    <2>2. hpWin' = [hpWin EXCEPT !.asked = TRUE] \/ hpWin' = GiveBack(hpWin)
      BY <1>8 DEF Decrypted
    <2>3. WinKept(hpWin, [hpWin EXCEPT !.asked = TRUE]) /\ WinKept(hpWin, GiveBack(hpWin))
      BY <1>0, WinSets
    <2>4. WinKept(hpWin, hpWin')
      BY <2>2, <2>3
    <2>5. ShownFits(hpWin', hpCall', hpQueue', hpList)
      BY <1>0, <1>2, <2>1, <2>4, ShownSame
    <2> QED  BY <1>1, <2>5
  <1>9. CASE CallFails
    <2>1. CASE hpCall.op = "decrypt" /\ hpWin' = GiveBack(hpWin) /\ hpCall' = NoCall /\ hpQueue' = hpQueue
      <3>1. WinKept(hpWin, GiveBack(hpWin))
        BY <1>0, WinSets
      <3>2. ShownFits(hpWin', hpCall', hpQueue', hpList)
        BY <1>0, <1>2, <2>1, <3>1, ShownSame
      <3> QED  BY <1>1, <3>2
    <2>2. CASE CloseWindow("crashed")
      <3>1. hpWin'.open # "open"
        BY <1>0, <2>2 DEF WinFits, WinNames, CloseWindow
      <3> QED  BY <3>1 DEF ShownFits
    <2> QED  BY <1>9, <2>1, <2>2 DEF CallFails
  <1> QED  BY <1>5, <1>6, <1>7, <1>8, <1>9 DEF HpCallStep

LEMMA ShownKept ==
  ASSUME HpInv, [HpNext]_hpVars
  PROVE  ShownFits(hpWin, hpCall, hpQueue, hpList)'
  <1>1. CASE UNCHANGED <<hpWin, hpCall, hpQueue, hpList>>
    BY <1>1 DEF HpInv
  <1>2. CASE HpNext
    <2>1. CASE PushData \/ InsertToken \/ RemoveToken \/ LoseLink
      BY <1>1, <2>1 DEF PushData, InsertToken, RemoveToken, LoseLink
    <2> QED  BY <1>2, <2>1, ShownIoc, ShownCall, ShownGui, ShownWindow DEF HpNext, HpPeople
  <1> QED  BY <1>1, <1>2 DEF hpVars

LEMMA ShownGives ==
  ASSUME HpInv
  PROVE  HpShown
  <1>0. /\ ShownFits(hpWin, hpCall, hpQueue, hpList) /\ ListFits(hpList, hpPolled) /\ WinFits(hpWin)
        /\ hpQueue \in Seq(HpEvs) /\ hpList \subseteq HpEntries
    BY DEF HpInv, HpFits, ListFits, SlotLists
  <1>1. HpTokensShown
    <2>1. ASSUME GuiFree, hpQueue = <<>>
          PROVE  /\ hpWin.token <=> hpPolled # {}
                 /\ hpWin.token => {hpWin.rows[i].t : i \in DOMAIN hpWin.rows} = hpPolled
      <3>1. ListShown(hpWin, hpList)
        BY <1>0, <2>1, QueueEmpty DEF ShownFits, GuiFree, EvKinds
      <3>2. hpPolled = {e.t : e \in hpList} /\ hpWin.token \in {TRUE, FALSE}
        BY <1>0 DEF ListFits, WinFits
      <3>3. hpPolled # {} <=> hpList # {}
        BY <3>2
      <3>4. ASSUME hpWin.token = TRUE PROVE {hpWin.rows[i].t : i \in DOMAIN hpWin.rows} = hpPolled
        <4>1. {hpWin.rows[i] : i \in DOMAIN hpWin.rows} = hpList
          BY <3>1, <3>4 DEF ListShown
        <4> QED  BY <3>2, <4>1
      <3> QED  BY <3>1, <3>2, <3>3, <3>4 DEF ListShown
    <2> QED  BY <2>1 DEF HpTokensShown
  <1>2. HpCertsOfToken
    <2>1. ASSUME GuiFree, hpWin.token, hpWin.users.kind = "certs", \A i \in DOMAIN hpQueue : hpQueue[i][1] # "domain"
          PROVE  hpWin.rows[hpWin.cur].slot = hpWin.users.slot
      <3>1. None(hpQueue, "domain")
        <4>1. DOMAIN hpQueue = 1..Len(hpQueue)
          BY <1>0
        <4> QED  BY <2>1, <4>1 DEF None
      <3>2. hpWin.token = TRUE
        BY <1>0, <2>1 DEF WinFits
      <3> QED  BY <1>0, <2>1, <3>1, <3>2 DEF ShownFits, GuiFree, CertsShown
    <2> QED  BY <2>1 DEF HpCertsOfToken
  <1> QED  BY <1>1, <1>2 DEF HpShown

-----------------------------------------------------------------------------
(* The stream: how a request travels, is carried out and is read.          *)
LEMMA SingleIs ==
  ASSUME NEW S, NEW s \in Seq(S), Len(s) = 1, NEW x, s[1] = x
  PROVE  s = <<x>>
  <1>1. x \in S
    BY ElementOfSeq
  <1>2. <<x>> \in Seq(S) /\ Len(<<x>>) = 1 /\ <<x>>[1] = x
    BY <1>1
  <1>3. \A i \in 1..Len(s) : s[i] = <<x>>[i]
    BY <1>2
  <1> QED  BY <1>2, <1>3, SeqEqual

LEMMA PairIs ==
  ASSUME NEW S, NEW s \in Seq(S), Len(s) = 2, NEW x, NEW y, s[1] = x, s[2] = y
  PROVE  s = <<x, y>>
  <1>1. x \in S /\ y \in S
    BY ElementOfSeq
  <1>2. <<x, y>> \in Seq(S) /\ Len(<<x, y>>) = 2 /\ <<x, y>>[1] = x /\ <<x, y>>[2] = y
    BY <1>1
  <1>3. \A i \in 1..2 : i = 1 \/ i = 2
    OBVIOUS
  <1>4. \A i \in 1..Len(s) : s[i] = <<x, y>>[i]
    BY <1>2, <1>3
  <1> QED  BY <1>2, <1>4, SeqEqual

LEMMA PairParts ==
  ASSUME NEW x, NEW y
  PROVE  /\ SubSeq(<<x, y>>, 1, 1) = <<x>> /\ SubSeq(<<x, y>>, 2, 2) = <<y>>
         /\ SubSeq(<<x, y>>, 1, 2) = <<x, y>> /\ SubSeq(<<x, y>>, 3, 2) = <<>>
         /\ SubSeq(<<x>>, 1, 1) = <<x>> /\ SubSeq(<<x>>, 2, 1) = <<>>
         /\ <<>> \o <<x>> = <<x>> /\ <<x>> \o <<y>> = <<x, y>> /\ <<>> \o <<x, y>> = <<x, y>>
         /\ Len(<<x, y>>) = 2 /\ Len(<<x>>) = 1 /\ <<x, y>> # <<>> /\ <<x>> # <<>>
         /\ Tail(Tail(<<x, y>>)) = <<>> /\ Head(<<x, y>>) = x
  <1> DEFINE S == {x, y}
             p == <<x, y>>
             q == <<x>>
             r == <<y>>
  <1>0. /\ p \in Seq(S) /\ Len(p) = 2 /\ p[1] = x /\ p[2] = y
        /\ q \in Seq(S) /\ Len(q) = 1 /\ q[1] = x
        /\ r \in Seq(S) /\ Len(r) = 1 /\ r[1] = y
    OBVIOUS
  <1>1. SubSeq(<<x, y>>, 1, 1) = <<x>> /\ SubSeq(<<x, y>>, 2, 2) = <<y>>
    <2> HIDE DEF S, p
    <2>1. /\ SubSeq(p, 1, 1) \in Seq(S) /\ Len(SubSeq(p, 1, 1)) = 1 /\ SubSeq(p, 1, 1)[1] = x
          /\ SubSeq(p, 2, 2) \in Seq(S) /\ Len(SubSeq(p, 2, 2)) = 1 /\ SubSeq(p, 2, 2)[1] = y
      BY <1>0
    <2> DEFINE a == SubSeq(p, 1, 1)
               b == SubSeq(p, 2, 2)
    <2> HIDE DEF a, b
    <2>2. a \in Seq(S) /\ Len(a) = 1 /\ a[1] = x /\ b \in Seq(S) /\ Len(b) = 1 /\ b[1] = y
      BY <2>1 DEF a, b
    <2>3. a = <<x>> /\ b = <<y>>
      BY <2>2, SingleIs
    <2> QED  BY <2>3 DEF p, a, b
  <1>3. SubSeq(<<x, y>>, 1, 2) = <<x, y>>
    <2> HIDE DEF S, p
    <2>1. SubSeq(p, 1, Len(p)) = p
      BY <1>0, SubSeqFull
    <2> QED  BY <1>0, <2>1 DEF p
  <1>5. SubSeq(<<x>>, 1, 1) = <<x>>
    <2> HIDE DEF S, q
    <2>1. SubSeq(q, 1, Len(q)) = q
      BY <1>0, SubSeqFull
    <2> QED  BY <1>0, <2>1 DEF q
  <1>4. SubSeq(<<x, y>>, 3, 2) = <<>>
    OBVIOUS
  <1>6. SubSeq(<<x>>, 2, 1) = <<>>
    OBVIOUS
  <1>7. <<>> \o <<x>> = <<x>>
    OBVIOUS
  <1>8. <<x>> \o <<y>> = <<x, y>>
    <2> HIDE DEF S, q, r
    <2>1. q \o r \in Seq(S) /\ Len(q \o r) = 2 /\ (q \o r)[1] = x /\ (q \o r)[2] = y
      <3>0. q \o r \in Seq(S) /\ Len(q \o r) = Len(q) + Len(r)
            /\ \A i \in 1..(Len(q) + Len(r)) : (q \o r)[i] = IF i <= Len(q) THEN q[i] ELSE r[i - Len(q)]
        BY <1>0, ConcatProperties
      <3>1. q \o r \in Seq(S) /\ Len(q \o r) = 1 + 1
            /\ \A i \in 1..(1 + 1) : (q \o r)[i] = IF i <= 1 THEN q[i] ELSE r[i - 1]
        BY <1>0, <3>0
      <3>2. 1 \in 1..(1 + 1) /\ 2 \in 1..(1 + 1) /\ 2 - 1 = 1 /\ 1 + 1 = 2 /\ ~(2 <= 1) /\ 1 <= 1
        OBVIOUS
      <3>3. (q \o r)[1] = q[1] /\ (q \o r)[2] = r[1]
        BY <3>1, <3>2
      <3> QED  BY <1>0, <3>1, <3>3
    <2> DEFINE a == q \o r
    <2> HIDE DEF a
    <2>2. a \in Seq(S) /\ Len(a) = 2 /\ a[1] = x /\ a[2] = y
      BY <2>1 DEF a
    <2>3. a = <<x, y>>
      BY <2>2, PairIs
    <2> QED  BY <2>3 DEF q, r, a
  <1>9. <<>> \o <<x, y>> = <<x, y>>
    OBVIOUS
  <1>10. Len(<<x, y>>) = 2 /\ Len(<<x>>) = 1
    OBVIOUS
  <1>11. <<x, y>> # <<>> /\ <<x>> # <<>>
    OBVIOUS
  <1>12. Tail(<<x, y>>) = <<y>> /\ Tail(<<y>>) = <<>>
    OBVIOUS
  <1>13. Head(<<x, y>>) = x
    OBVIOUS
  <1> QED  BY <1>1, <1>3, <1>4, <1>5, <1>6, <1>7, <1>8, <1>9, <1>10, <1>11, <1>12, <1>13

LEMMA RequestSent ==
  ASSUME Quiet, NEW cmd \in HpCmds, NEW a \in HpArgs, Send(cmd, a)
  PROVE  Serving(cmd)'
  <1> DEFINE u == Unit("arg", a)
             c == Unit("cmd", cmd)
  <1>1. u \in {"arg"} \X HpArgs
    BY DEF Unit
  <1>2. hpUp' = <<>> \o <<c, u>> /\ hpOpen' = 0 + 1 /\ hpDown' = <<>> /\ hpLast' = <<>>
    BY DEF Send, Quiet, Request
  <1> HIDE DEF u
  <1>3. hpUp' = <<Unit("cmd", cmd), u>> /\ hpOpen' = 1
    BY <1>2, PairParts
  <1>4. u \in Units(hpUp')
    <2>1. 2 \in DOMAIN <<Unit("cmd", cmd), u>> /\ <<Unit("cmd", cmd), u>>[2] = u
      OBVIOUS
    <2> QED  BY <1>3, <2>1 DEF Units
  <1> QED  BY <1>1, <1>2, <1>3, <1>4 DEF Serving, Asked

LEMMA StreamPush ==
  ASSUME HpFits, PushData, NEW cmd \in HpCmds, Serving(cmd)
  PROVE  Serving(cmd)' \/ (cmd \notin {"init", "slots"} /\ "silent" \in hpOdd')
  <1>1. PICK n \in 1..Len(hpUp) : Carries(n)
    BY PushCarries
  <1>2. Asked(cmd)
    <2>1. hpUp # <<>>
      <3>1. Len(<<>>) = 0 /\ 1..0 = {}
        OBVIOUS
      <3> QED  BY <1>1, <3>1
    <2> QED  BY <2>1 DEF Serving, Told
  <1> DEFINE c == Unit("cmd", cmd)
             buf == Buf(hpUp, hpLast, n)
  <1>3. PICK u \in {"arg"} \X HpArgs : (hpLast = <<>> /\ hpUp = <<c, u>>) \/ (hpLast = <<c>> /\ hpUp = <<u>>)
    BY <1>2 DEF Asked
  <1> HIDE DEF c
  <1>4. hpOpen = 1 /\ hpDown = <<>>
    BY <1>2 DEF Asked
  <1>5. \/ hpLast = <<>> /\ hpUp = <<c, u>> /\ n = 1 /\ buf = <<c>> /\ After(hpUp, n) = <<u>>
        \/ buf = <<c, u>> /\ After(hpUp, n) = <<>>
    <2>1. CASE hpLast = <<>> /\ hpUp = <<c, u>>
      <3>1. n = 1 \/ n = 2
        BY <2>1, PairParts
      <3>2. CASE n = 1
        <4>1. Len(hpUp) = 2 /\ n + 1 = 2
          BY <2>1, <3>2, PairParts
        <4>2. buf = <<>> \o SubSeq(<<c, u>>, 1, 1) /\ After(hpUp, n) = SubSeq(<<c, u>>, 2, 2)
          BY <2>1, <3>2, <4>1 DEF Buf, After
        <4> QED  BY <2>1, <3>2, <4>2, PairParts
      <3>3. CASE n = 2
        <4>1. Len(hpUp) = 2 /\ n + 1 = 3
          BY <2>1, <3>3, PairParts
        <4>2. buf = hpLast \o SubSeq(hpUp, 1, n) /\ After(hpUp, n) = SubSeq(hpUp, n + 1, Len(hpUp))
          BY DEF Buf, After
        <4>3. SubSeq(hpUp, 1, n) = SubSeq(<<c, u>>, 1, 2) /\ SubSeq(hpUp, n + 1, Len(hpUp)) = SubSeq(<<c, u>>, 3, 2)
          BY <2>1, <3>3, <4>1
        <4>4. SubSeq(<<c, u>>, 1, 2) = <<c, u>> /\ SubSeq(<<c, u>>, 3, 2) = <<>> /\ <<>> \o <<c, u>> = <<c, u>>
          BY PairParts
        <4>5. buf = <<>> \o <<c, u>> /\ After(hpUp, n) = <<>>
          BY <2>1, <4>2, <4>3, <4>4
        <4> QED  BY <4>4, <4>5
      <3> QED  BY <3>1, <3>2, <3>3
    <2>2. CASE hpLast = <<c>> /\ hpUp = <<u>>
      <3>1. n = 1
        BY <2>2, PairParts
      <3>2. Len(hpUp) = 1 /\ n + 1 = 2
        BY <2>2, <3>1, PairParts
      <3>3. buf = hpLast \o SubSeq(hpUp, 1, n) /\ After(hpUp, n) = SubSeq(hpUp, n + 1, Len(hpUp))
        BY DEF Buf, After
      <3>4. SubSeq(hpUp, 1, n) = <<u>> /\ SubSeq(hpUp, n + 1, Len(hpUp)) = <<>>
        BY <2>2, <3>1, <3>2, PairParts
      <3> QED  BY <2>2, <3>3, <3>4, PairParts
    <2> QED  BY <1>3, <2>1, <2>2
  <1> HIDE DEF buf
  <1>6. hpUp' = After(hpUp, n) /\ hpLast' = Kept(buf)
    BY <1>1 DEF Carries, buf
  <1>7. CASE hpLast = <<>> /\ hpUp = <<c, u>> /\ n = 1 /\ buf = <<c>> /\ After(hpUp, n) = <<u>>
    <2>1. Len(buf) = 1 /\ Len(buf) % 2 = 1
      BY <1>7, PairParts
    <2>2. hpLast' = <<c>> /\ hpUp' = <<u>>
      BY <1>6, <1>7, <2>1 DEF Kept
    <2>3. UNCHANGED <<hpDown, hpOpen>>
      <3>1. ~(Len(buf) >= 2)
        BY <2>1
      <3> QED  BY <1>1, <3>1 DEF Carries, buf
    <2>4. u \in Units(hpUp')
      <3>1. 1 \in DOMAIN <<u>> /\ <<u>>[1] = u
        OBVIOUS
      <3> QED  BY <2>2, <3>1 DEF Units
    <2> QED  BY <1>4, <2>2, <2>3, <2>4 DEF Serving, Asked, c
  <1>8. CASE buf = <<c, u>> /\ After(hpUp, n) = <<>>
    <2>1. Len(buf) = 2 /\ Len(buf) % 2 # 1 /\ ~(Len(buf) < 2) /\ buf[1] = c
      BY <1>8, PairParts
    <2>2. hpLast' = <<>> /\ hpUp' = <<>>
      BY <1>6, <1>8, <2>1 DEF Kept
    <2>3. PICK answer \in Answers(buf) :
             /\ hpDown' = hpDown \o answer /\ hpOpen' = hpOpen - 1
             /\ hpOdd' = hpOdd \cup (IF answer = <<>> \/ answer = <<Unit("len", 0)>> THEN {"silent"} ELSE {})
      BY <1>1, <2>1 DEF Carries, buf
    <2>4. answer \in AnswerTo(cmd) /\ DownFits(answer)
      BY <2>1, <2>3, AnswersFit DEF c
    <2>5. hpDown' = answer /\ hpOpen' = 0
      <3>1. answer \in Seq(DownUnits)
        BY <2>4 DEF DownFits
      <3>2. <<>> \o answer = answer
        BY <3>1
      <3> QED  BY <1>4, <2>3, <3>2
    <2>6. CASE answer = <<>> \/ answer = <<Unit("len", 0)>>
      <3>1. "silent" \in hpOdd'
        BY <2>3, <2>6
      <3>2. cmd \notin {"init", "slots"}
        <4>1. \A x, y, z : <<x, y>> # <<>> /\ <<x, y>> # <<z>>
          OBVIOUS
        <4> QED  BY <2>4, <2>6, <4>1 DEF AnswerTo
      <3> QED  BY <3>1, <3>2
    <2>7. CASE ~(answer = <<>> \/ answer = <<Unit("len", 0)>>)
      BY <2>2, <2>4, <2>5, <2>7 DEF AnswerTo, Serving, Told
    <2> QED  BY <2>6, <2>7
  <1> QED  BY <1>5, <1>7, <1>8

LEMMA AnswerTaken ==
  ASSUME NEW cmd \in HpCmds, cmd # "decrypt", Serving(cmd), hpDown # <<>>
  PROVE  Answered(cmd) /\ Rest = <<>> /\ hpUp = <<>> /\ hpLast = <<>> /\ hpOpen = 0
  <1>1. Told(cmd)
    BY DEF Serving, Asked
  <1>2. PICK d \in DataOf(cmd) : hpDown = <<Unit("cmd", cmd), d>>
    BY <1>1 DEF Told
  <1>3. Answered(cmd) /\ Rest = <<>>
    BY <1>2, PairParts DEF Answered, Rest
  <1> QED  BY <1>1, <1>3 DEF Told

LEMMA StreamSame ==
  ASSUME UNCHANGED hpLinkVars \/ UNCHANGED <<hpUp, hpLast, hpDown, hpOpen>>
  PROVE  (Quiet => Quiet') /\ \A cmd : Serving(cmd) => Serving(cmd)'
  BY DEF hpLinkVars, Quiet, Serving, Asked, Told

LEMMA NothingToPush ==
  ASSUME Quiet, PushData
  PROVE  FALSE
  BY DEF Quiet, PushData

LEMMA LockMoves ==
  ASSUME NEW c
  PROVE  /\ MutexEnter(Lock(0, <<>>), c) = Lock(1, <<>>)
         /\ MutexEnter(Lock(1, <<>>), c) = Lock(2, <<c>>)
         /\ MutexLeave(Lock(1, <<>>)) = Lock(0, <<>>)
         /\ MutexLeave(Lock(2, <<c>>)) = Lock(1, <<>>)
         /\ hpMutex = Lock(2, <<c>>) => ~Granted(c)
         /\ MutexFree = Lock(0, <<>>)
  <1>0. Append(<<>>, c) = <<c>> /\ Tail(<<c>>) = <<>> /\ <<c>> # <<>>
    OBVIOUS
  <1>1. MutexEnter(Lock(0, <<>>), c) = Lock(1, <<>>)
    <2> DEFINE m == Lock(0, <<>>)
    <2>1. m.n = 0 /\ m.wait = <<>> /\ m = [n |-> 0, wait |-> <<>>]
      BY DEF Lock
    <2> HIDE DEF m
    <2>2. MutexEnter(m, c) = [m EXCEPT !.n = 1, !.wait = <<>>]
      BY <1>0, <2>1 DEF MutexEnter
    <2> DEFINE x == MutexEnter(m, c)
    <2>3. m = [n |-> 0, wait |-> <<>>] /\ x = [m EXCEPT !.n = 1, !.wait = <<>>]
      BY <2>1, <2>2
    <2> HIDE DEF x
    <2>4. x = Lock(1, <<>>)
      BY <2>3 DEF Lock
    <2> QED  BY <2>4 DEF x, m
  <1>2. MutexEnter(Lock(1, <<>>), c) = Lock(2, <<c>>)
    <2> DEFINE m == Lock(1, <<>>)
    <2>1. m.n = 1 /\ m.wait = <<>> /\ m = [n |-> 1, wait |-> <<>>]
      BY DEF Lock
    <2> HIDE DEF m
    <2>2. MutexEnter(m, c) = [m EXCEPT !.n = 2, !.wait = <<c>>]
      BY <1>0, <2>1 DEF MutexEnter
    <2> DEFINE x == MutexEnter(m, c)
    <2>3. m = [n |-> 1, wait |-> <<>>] /\ x = [m EXCEPT !.n = 2, !.wait = <<c>>]
      BY <2>1, <2>2
    <2> HIDE DEF x
    <2>4. x = Lock(2, <<c>>)
      BY <2>3 DEF Lock
    <2> QED  BY <2>4 DEF x, m
  <1>3. MutexLeave(Lock(1, <<>>)) = Lock(0, <<>>)
    <2> DEFINE m == Lock(1, <<>>)
    <2>1. m.n = 1 /\ m.wait = <<>> /\ m = [n |-> 1, wait |-> <<>>]
      BY DEF Lock
    <2> HIDE DEF m
    <2>2. MutexLeave(m) = [m EXCEPT !.n = 0, !.wait = <<>>]
      BY <1>0, <2>1 DEF MutexLeave
    <2> DEFINE x == MutexLeave(m)
    <2>3. m = [n |-> 1, wait |-> <<>>] /\ x = [m EXCEPT !.n = 0, !.wait = <<>>]
      BY <2>1, <2>2
    <2> HIDE DEF x
    <2>4. x = Lock(0, <<>>)
      BY <2>3 DEF Lock
    <2> QED  BY <2>4 DEF x, m
  <1>4. MutexLeave(Lock(2, <<c>>)) = Lock(1, <<>>)
    <2> DEFINE m == Lock(2, <<c>>)
    <2>1. m.n = 2 /\ m.wait = <<c>> /\ m = [n |-> 2, wait |-> <<c>>]
      BY DEF Lock
    <2> HIDE DEF m
    <2>2. MutexLeave(m) = [m EXCEPT !.n = 1, !.wait = <<>>]
      BY <1>0, <2>1 DEF MutexLeave
    <2> DEFINE x == MutexLeave(m)
    <2>3. m = [n |-> 2, wait |-> <<c>>] /\ x = [m EXCEPT !.n = 1, !.wait = <<>>]
      BY <2>1, <2>2
    <2> HIDE DEF x
    <2>4. x = Lock(1, <<>>)
      BY <2>3 DEF Lock
    <2> QED  BY <2>4 DEF x, m
  <1>5. ASSUME hpMutex = Lock(2, <<c>>) PROVE ~Granted(c)
    <2>1. hpMutex.wait = <<c>> /\ 1 \in DOMAIN <<c>> /\ <<c>>[1] = c
      BY <1>5 DEF Lock
    <2> QED  BY <2>1 DEF Granted
  <1> QED  BY <1>1, <1>2, <1>3, <1>4, <1>5 DEF MutexFree, Lock

-----------------------------------------------------------------------------
(* Every step keeps the stream shared, until a failure spoils it.          *)
WindowStep ==
    \/ Queued \/ PickToken \/ PasswordChanged \/ ClickLogin \/ SetLoginPasswordCallback
    \/ LoginFailureCallback \/ ClosedByService \/ TimerReloadUsers \/ TimerOneSec
StaysOpen ==
    /\ hpThread' = hpThread /\ hpWin'.open = "open" /\ CallOut'
    /\ Alone => Alone'

LEMMA AloneSays ==
  ASSUME Alone
  PROVE  hpCall.op = "none" /\ hpCall.at = "none" /\ hpWin.open = "open" /\ hpWin.token = FALSE
  BY DEF Alone, NoCall

LEMMA AloneStays ==
  ASSUME UNCHANGED <<hpWin, hpCall, hpMutex, hpQueue>>
  PROVE  Alone => Alone'
  BY DEF Alone

LEMMA QueuedStays ==
  ASSUME HpFits, Queued
  PROVE  StaysOpen
  <1>0. hpQueue \in Seq(HpEvs) /\ WinFits(hpWin) /\ CallFits(hpCall)
    BY DEF HpFits
  <1>1. hpThread' = hpThread /\ hpCall.op = "none" /\ hpCall.at = "none" /\ hpWin.open = "open"
    BY <1>0 DEF Queued, GuiFree, CallFits
  <1>2. hpWin'.open = "open"
    <2>1. hpWin' = hpWin \/ hpWin' = [hpWin EXCEPT !.users = NoUsers] \/ \E b : hpWin' = [hpWin EXCEPT !.button = b]
      BY DEF Queued, DomainIndexChanged, UsernameIndexChanged
    <2> QED  BY <1>0, <1>1, <2>1 DEF WinFits, WinNames
  <1>3. CallOut'
    <2>1. hpCall' = hpCall \/ hpCall'.at = "spawned"
      BY DEF Queued, Spawn
    <2> QED  BY <1>1, <2>1 DEF CallOut
  <1>4. ASSUME Alone PROVE Alone'
    <2> DEFINE ev == Head(hpQueue)
    <2>0. "tokens" \in EvKinds /\ "domain" \in EvKinds /\ hpQueue # <<>> /\ hpQueue' = Tail(hpQueue)
      BY DEF EvKinds, Queued
    <2>1. ev[1] # "tokens" /\ ev[1] # "domain" /\ None(hpQueue', "tokens") /\ None(hpQueue', "domain")
      BY <1>0, <1>4, <2>0, QueueTail DEF Alone
    <2>2. UsernameIndexChanged /\ hpCall' = hpCall /\ hpMutex' = hpMutex
      BY <2>1 DEF Queued
    <2>3. hpWin' = hpWin \/ \E b : hpWin' = [hpWin EXCEPT !.button = b]
      BY <2>2 DEF UsernameIndexChanged
    <2>4. hpWin'.token = FALSE
      BY <1>0, <1>4, <2>3 DEF Alone, WinFits, WinNames
    <2> HIDE DEF ev
    <2> QED  BY <1>2, <1>4, <2>1, <2>2, <2>4 DEF Alone
  <1> QED  BY <1>1, <1>2, <1>3, <1>4 DEF StaysOpen

LEMMA WindowStepMoves ==
  ASSUME HpFits, WindowStep
  PROVE  GuiFree /\ UNCHANGED hpGuiRest /\ hpCall.at = "none" /\ (Closes \/ StaysOpen)
  <1>0. hpQueue \in Seq(HpEvs) /\ WinFits(hpWin) /\ CallFits(hpCall)
    BY DEF HpFits
  <1>1. CASE Queued
    <2>1. GuiFree /\ UNCHANGED hpGuiRest
      BY <1>1 DEF Queued, hpGuiRest
    <2> QED  BY <1>0, <1>1, <2>1, QueuedStays DEF GuiFree, CallFits
  <1>2. CASE PickToken
    <2>1. /\ GuiFree /\ UNCHANGED hpGuiRest /\ hpThread' = hpThread /\ hpCall' = hpCall
          /\ hpWin.token = TRUE /\ \E i : hpWin' = [hpWin EXCEPT !.cur = i]
      BY <1>0, <1>2 DEF PickToken, WinFits
    <2>2. hpCall.at = "none" /\ hpWin.open = "open"
      BY <1>0, <2>1 DEF GuiFree, CallFits
    <2>3. hpWin'.open = "open"
      BY <1>0, <2>1, <2>2 DEF WinFits, WinNames
    <2>4. ~Alone
      BY <2>1 DEF Alone
    <2> QED  BY <2>1, <2>2, <2>3, <2>4 DEF StaysOpen, CallOut
  <1>3. CASE ~Queued /\ ~PickToken
    <2>1. GuiFree /\ UNCHANGED hpGuiRest /\ (Closes \/ GoesOn)
      BY <1>3, WindowMoves DEF WindowStep
    <2>2. hpCall.at = "none" /\ hpWin.open = "open"
      BY <1>0, <2>1 DEF GuiFree, CallFits
    <2>3. ASSUME GoesOn PROVE StaysOpen
      <3>1. hpThread' = hpThread /\ WinKept(hpWin, hpWin')
        BY <2>3 DEF GoesOn
      <3>2. CallOut'
        BY <2>2, <2>3 DEF GoesOn, CallOut, Decrypts
      <3>3. ASSUME Alone PROVE Alone'
        <4>1. hpWin'.token = FALSE /\ hpWin'.open = "open"
          BY <2>2, <3>1, <3>3 DEF Alone, WinKept
        <4>2. hpCall' = hpCall
          BY <2>3, <3>3 DEF GoesOn, Alone
        <4>3. None(hpQueue', "tokens") /\ None(hpQueue', "domain")
          <5> DEFINE e == <<"user", 1>>
          <5>1. e \in HpEvs /\ e[1] # "tokens" /\ e[1] # "domain" /\ "tokens" \in EvKinds /\ "domain" \in EvKinds
            BY DEF HpEvs, EvKinds
          <5>2. hpQueue' = hpQueue \/ hpQueue' = Append(hpQueue, e)
            BY <2>3 DEF GoesOn
          <5> HIDE DEF e
          <5> QED  BY <1>0, <3>3, <5>1, <5>2, QueueAppend DEF Alone
        <4> QED  BY <2>1, <3>3, <4>1, <4>2, <4>3 DEF Alone, hpGuiRest
      <3> QED  BY <2>2, <3>1, <3>2, <3>3 DEF StaysOpen, WinKept
    <2> QED  BY <2>1, <2>2, <2>3
  <1> QED  BY <1>1, <1>2, <1>3

LEMMA GreetingSame ==
  ASSUME GreetingFits, UNCHANGED <<hpThread, hpWin, hpCall, hpMutex, hpQueue>>,
         UNCHANGED <<hpUp, hpLast, hpDown, hpOpen>>
  PROVE  GreetingFits'
  BY AloneStays, StreamSame DEF GreetingFits, HpCmds

LEMMA GreetingPast ==
  ASSUME hpThread'.at \notin {"none", "connect", "hello", "init"}
  PROVE  GreetingFits'
  BY DEF GreetingFits

LEMMA GreetingBusy ==
  ASSUME GreetingFits, hpCall.at # "none", hpThread' = hpThread
  PROVE  GreetingFits'
  BY AloneSays DEF GreetingFits

LEMMA GreetingIoc ==
  ASSUME HpInv, HpIoc
  PROVE  GreetingFits'
  <1>0. HpFits /\ GreetingFits /\ ThreadFits(hpThread)
    BY DEF HpInv, HpFits
  <1>1. CASE RetryConnect
    <2>1. UNCHANGED <<hpWin, hpCall, hpMutex, hpQueue>> /\ UNCHANGED <<hpUp, hpLast, hpDown, hpOpen>>
      BY <1>1 DEF RetryConnect
    <2>2. Alone /\ Quiet
      BY <1>0, <1>1 DEF RetryConnect, GreetingFits
    <2>3. Alone' /\ Quiet'
      BY <2>1, <2>2, AloneStays, StreamSame
    <2>4. hpThread'.at # "init"
      <3>1. hpThread' \in {At("hello"), At("failed")} \/ hpThread' = [hpThread EXCEPT !.try = @ + 1]
        BY <1>1 DEF RetryConnect
      <3>2. hpThread.at = "connect"
        BY <1>1 DEF RetryConnect
      <3> QED  BY <1>0, <3>1, <3>2 DEF ThreadFits, At
    <2> QED  BY <2>3, <2>4 DEF GreetingFits
  <1>2. CASE HandshakeSend
    <2>1. UNCHANGED <<hpWin, hpCall, hpMutex, hpQueue>> /\ Send("init", Arg(0)) /\ hpThread' = At("init")
      BY <1>2 DEF HandshakeSend
    <2>2. Alone /\ Quiet
      BY <1>0, <1>2 DEF HandshakeSend, GreetingFits
    <2>3. Alone'
      BY <2>1, <2>2, AloneStays
    <2>4. Serving("init")'
      <3>1. "init" \in HpCmds
        BY DEF HpCmds
      <3> QED  BY <2>1, <2>2, <3>1, RequestSent, RecsFit
    <2>5. hpThread'.at = "init"
      BY <1>0, <2>1, AtFits DEF HpPlaces
    <2> QED  BY <2>3, <2>4, <2>5 DEF GreetingFits
  <1>3. CASE ~RetryConnect /\ ~HandshakeSend
    <2>1. hpThread' \in {At("pause"), At("stopping"), At("lock"), At("slots"), At("failed"), At("ended")}
      BY <1>3 DEF HpIoc, RemoteHandshake, UpdateTokensTimer, UpdateTokensSend, UpdateTokens, HandlerFails, StopThread
    <2>2. hpThread'.at \in {"pause", "stopping", "lock", "slots", "failed", "ended"}
      BY <1>0, <2>1, AtFits DEF HpPlaces
    <2> QED  BY <2>2, GreetingPast
  <1> QED  BY <1>1, <1>2, <1>3

LEMMA GreetingCall ==
  ASSUME HpInv, HpCallStep
  PROVE  GreetingFits'
  <1>0. HpFits /\ GreetingFits /\ ThreadFits(hpThread)
    BY DEF HpInv, HpFits
  <1>1. hpCall.at # "none"
    BY DEF HpCallStep, CallEnter, CallSend, TokensChanged, GotCertificates, Decrypted, CallFails
  <1>2. hpThread' = hpThread \/ hpThread' = At("ended")
    BY DEF HpCallStep, CallEnter, CallSend, TokensChanged, GotCertificates, Decrypted, CallFails, CloseWindow
  <1>3. CASE hpThread' = At("ended")
    <2>1. hpThread'.at = "ended"
      BY <1>0, <1>3, AtFits DEF HpPlaces
    <2> QED  BY <2>1, GreetingPast
  <1> QED  BY <1>0, <1>1, <1>2, <1>3, GreetingBusy

LEMMA GreetingWindow ==
  ASSUME HpInv, WindowStep
  PROVE  GreetingFits'
  <1>0. HpFits /\ GreetingFits /\ ThreadFits(hpThread)
    BY DEF HpInv, HpFits
  <1>1. UNCHANGED hpLinkVars
    BY <1>0, WindowStepMoves DEF hpGuiRest
  <1>2. CASE Closes
    <2>1. hpThread'.at = "ended"
      BY <1>0, <1>2, AtFits DEF HpPlaces, Closes
    <2> QED  BY <2>1, GreetingPast
  <1>3. CASE StaysOpen
    <2>1. (Quiet => Quiet') /\ (Serving("init") => Serving("init")')
      BY <1>1, StreamSame
    <2> QED  BY <1>0, <1>3, <2>1 DEF GreetingFits, StaysOpen
  <1> QED  BY <1>0, <1>2, <1>3, WindowStepMoves

LEMMA GreetingPush ==
  ASSUME HpInv, PushData
  PROVE  GreetingFits'
  <1>0. HpFits /\ GreetingFits
    BY DEF HpInv
  <1>1. UNCHANGED <<hpThread, hpWin, hpCall, hpMutex, hpQueue>>
    BY DEF PushData
  <1>2. ~Quiet
    BY NothingToPush
  <1>3. Serving("init") => Serving("init")'
    BY <1>0, StreamPush DEF HpCmds
  <1> QED  BY <1>0, <1>1, <1>2, <1>3, AloneStays DEF GreetingFits

LEMMA GreetingKept ==
  ASSUME HpInv, [HpNext]_hpVars
  PROVE  GreetingFits'
  <1>0. HpFits /\ GreetingFits /\ ThreadFits(hpThread)
    BY DEF HpInv, HpFits
  <1>1. CASE UNCHANGED hpVars \/ InsertToken \/ RemoveToken \/ LoseLink
    <2>1. UNCHANGED <<hpThread, hpWin, hpCall, hpMutex, hpQueue>> /\ UNCHANGED <<hpUp, hpLast, hpDown, hpOpen>>
      BY <1>1 DEF hpVars, InsertToken, RemoveToken, LoseLink, hpLinkVars
    <2> QED  BY <1>0, <2>1, GreetingSame
  <1>2. CASE Pkcs11ListennerCallback
    <2>1. UNCHANGED <<hpWin, hpCall, hpMutex, hpQueue>> /\ UNCHANGED <<hpUp, hpLast, hpDown, hpOpen>>
          /\ hpThread.at = "none" /\ hpThread' = At("connect")
      BY <1>2 DEF Pkcs11ListennerCallback
    <2>2. Alone' /\ Quiet'
      BY <1>0, <2>1, AloneStays, StreamSame DEF GreetingFits
    <2>3. hpThread'.at = "connect"
      BY <1>0, <2>1, AtFits DEF HpPlaces
    <2> QED  BY <2>2, <2>3 DEF GreetingFits
  <1>3. CASE HpNext /\ ~InsertToken /\ ~RemoveToken /\ ~LoseLink /\ ~Pkcs11ListennerCallback
    <2>1. PushData \/ HpIoc \/ HpCallStep \/ WindowStep
      BY <1>3 DEF HpNext, HpPeople, WindowStep
    <2> QED  BY <2>1, GreetingPush, GreetingIoc, GreetingCall, GreetingWindow
  <1> QED  BY <1>1, <1>2, <1>3

LEMMA SharedPush ==
  ASSUME HpInv, SharedFits, PushData, hpOdd' = {}
  PROVE  SharedFits'
  <1>0. HpFits
    BY DEF HpInv
  <1>1. UNCHANGED <<hpThread, hpWin, hpCall, hpMutex, hpQueue>>
    BY DEF PushData
  <1>2. ~Quiet
    BY NothingToPush
  <1>3. \A cmd \in HpCmds : Serving(cmd) => Serving(cmd)'
    BY <1>0, StreamPush
  <1>4. "init" \in HpCmds /\ "slots" \in HpCmds
    BY DEF HpCmds
  <1>5. Serving("init") => Serving("init")'
    BY <1>3, <1>4
  <1>6. Serving("slots") => Serving("slots")'
    BY <1>3, <1>4
  <1>7. CallHolds => CallHolds'
    BY <1>1, <1>2, <1>3 DEF CallHolds
  <1>8. Alone => Alone'
    BY <1>1, AloneStays
  <1>9. WhenClosed => WhenClosed'
    BY <1>1, <1>2, <1>3 DEF WhenClosed
  <1>10. WhenGreeting => WhenGreeting'
    BY <1>1, <1>5, <1>8 DEF WhenGreeting
  <1>11. ~WhenAlone
    BY <1>2 DEF WhenAlone
  <1>12. WhenPause => WhenPause'
    BY <1>1, <1>2, <1>7 DEF WhenPause
  <1>13. WhenLock => WhenLock'
    BY <1>1, <1>2, <1>7 DEF WhenLock
  <1>14. WhenSlots => WhenSlots'
    BY <1>1, <1>6 DEF WhenSlots, CallOut
  <1> QED  BY <1>9, <1>10, <1>11, <1>12, <1>13, <1>14 DEF SharedFits

\* which of the cases a place of the thread stands for
LEMMA PlaceSays ==
  ASSUME SharedFits
  PROVE  /\ hpThread.at = "init" => WhenGreeting
         /\ hpThread.at = "pause" => WhenPause
         /\ hpThread.at = "lock" => WhenLock
         /\ hpThread.at = "slots" => WhenSlots
         /\ hpThread.at \in {"none", "connect", "hello", "failed", "stopping"} => WhenAlone
         /\ hpThread.at = "ended" => WhenAlone \/ WhenClosed
  BY DEF SharedFits, WhenClosed, WhenAlone, WhenGreeting, WhenPause, WhenLock, WhenSlots

LEMMA SharedGreeting ==
  ASSUME HpInv, SharedFits, RetryConnect \/ HandshakeSend \/ RemoteHandshake \/ StopThread
  PROVE  SharedFits'
  <1>0. HpFits /\ ThreadFits(hpThread)
    BY DEF HpInv, HpFits
  <1>1. Alone => Alone'
    BY AloneStays DEF RetryConnect, HandshakeSend, RemoteHandshake, StopThread
  <1>2. CASE RetryConnect \/ StopThread
    <2>1. WhenAlone
      BY <1>2, PlaceSays DEF RetryConnect, StopThread
    <2>2. Quiet'
      BY <1>2, <2>1, StreamSame DEF WhenAlone, RetryConnect, StopThread
    <2>3. hpThread'.at \in {"connect", "hello", "failed", "ended"}
      <3>1. hpThread' \in {At("hello"), At("failed"), At("ended")}
            \/ (hpThread.at = "connect" /\ hpThread' = [hpThread EXCEPT !.try = @ + 1])
        BY <1>2 DEF RetryConnect, StopThread
      <3> QED  BY <1>0, <3>1 DEF ThreadFits, At
    <2> QED  BY <1>1, <2>1, <2>2, <2>3 DEF WhenAlone, SharedFits
  <1>3. CASE HandshakeSend
    <2>1. WhenAlone
      BY <1>3, PlaceSays DEF HandshakeSend
    <2>2. Serving("init")'
      <3>1. "init" \in HpCmds /\ Quiet /\ Send("init", Arg(0))
        BY <1>3, <2>1 DEF HpCmds, WhenAlone, HandshakeSend
      <3> QED  BY <3>1, RequestSent, RecsFit
    <2>3. hpThread'.at = "init"
      BY <1>0, <1>3, AtFits DEF HpPlaces, HandshakeSend
    <2> QED  BY <1>1, <2>1, <2>2, <2>3 DEF WhenAlone, WhenGreeting, SharedFits
  <1>4. CASE RemoteHandshake
    <2>1. WhenGreeting /\ hpDown # <<>>
      BY <1>4, PlaceSays DEF RemoteHandshake
    <2>2. Rest = <<>> /\ hpUp = <<>> /\ hpLast = <<>> /\ hpOpen = 0
      BY <2>1, AnswerTaken DEF WhenGreeting, HpCmds
    <2>3. Quiet'
      BY <1>4, <2>2 DEF RemoteHandshake, Quiet
    <2>4. hpThread'.at \in {"pause", "stopping"}
      <3>1. hpThread' \in {At("pause"), At("stopping")}
        BY <1>4 DEF RemoteHandshake
      <3> QED  BY <1>0, <3>1, AtFits DEF HpPlaces
    <2>5. Alone'
      BY <1>1, <2>1 DEF WhenGreeting
    <2>6. hpWin'.open = "open" /\ CallOut' /\ hpMutex' = Lock(0, <<>>)
      BY <2>5 DEF Alone, CallOut, NoCall
    <2> QED  BY <2>3, <2>4, <2>5, <2>6 DEF WhenAlone, WhenPause, SharedFits
  <1> QED  BY <1>2, <1>3, <1>4

LEMMA SharedTimer ==
  ASSUME HpInv, SharedFits, UpdateTokensTimer \/ UpdateTokensSend \/ UpdateTokens
  PROVE  SharedFits'
  <1>0. HpFits /\ ThreadFits(hpThread)
    BY DEF HpInv, HpFits
  <1>1. UNCHANGED <<hpWin, hpCall>>
    BY DEF UpdateTokensTimer, UpdateTokensSend, UpdateTokens
  <1>2. CASE UpdateTokensTimer
    <2>1. WhenPause /\ hpMutex' = MutexEnter(hpMutex, "timer") /\ UNCHANGED hpLinkVars
      BY <1>2, PlaceSays DEF UpdateTokensTimer
    <2>2. hpThread'.at = "lock"
      BY <1>0, <1>2, AtFits DEF HpPlaces, UpdateTokensTimer
    <2>3. (Quiet => Quiet') /\ (\A cmd : Serving(cmd) => Serving(cmd)')
      BY <2>1, StreamSame
    <2>4. CASE CallOut /\ hpMutex = Lock(0, <<>>) /\ Quiet
      <3>1. hpMutex' = Lock(1, <<>>)
        BY <2>1, <2>4, LockMoves
      <3> QED  BY <1>1, <2>1, <2>2, <2>3, <2>4, <3>1 DEF WhenPause, WhenLock, SharedFits, CallOut
    <2>5. CASE hpMutex = Lock(1, <<>>) /\ CallHolds
      <3>1. hpMutex' = Lock(2, <<"timer">>)
        BY <2>1, <2>5, LockMoves
      <3>2. CallHolds'
        BY <1>1, <2>3, <2>5 DEF CallHolds
      <3> QED  BY <1>1, <2>1, <2>2, <3>1, <3>2 DEF WhenPause, WhenLock, SharedFits
    <2> QED  BY <2>1, <2>4, <2>5 DEF WhenPause
  <1>3. CASE UpdateTokensSend
    <2>1. WhenLock /\ Granted("timer") /\ Send("slots", Arg(0)) /\ hpMutex' = hpMutex
      BY <1>3, PlaceSays DEF UpdateTokensSend
    <2>2. hpThread'.at = "slots"
      BY <1>0, <1>3, AtFits DEF HpPlaces, UpdateTokensSend
    <2>3. hpMutex # Lock(2, <<"timer">>)
      BY <2>1, LockMoves
    <2>4. Quiet => Serving("slots")'
      <3>1. "slots" \in HpCmds
        BY DEF HpCmds
      <3> QED  BY <2>1, <3>1, RequestSent, RecsFit
    <2> QED  BY <1>1, <2>1, <2>2, <2>3, <2>4 DEF WhenLock, WhenSlots, SharedFits, CallOut
  <1>4. CASE UpdateTokens
    <2>1. WhenSlots /\ hpDown # <<>>
      BY <1>4, PlaceSays DEF UpdateTokens
    <2>2. Answered("slots") /\ Rest = <<>> /\ hpUp = <<>> /\ hpLast = <<>> /\ hpOpen = 0
      BY <2>1, AnswerTaken DEF WhenSlots, HpCmds
    <2>3. hpDown' = Rest /\ hpMutex' = MutexLeave(hpMutex) /\ hpThread' = At("pause") /\ UNCHANGED <<hpUp, hpLast, hpOpen>>
      BY <1>4, <2>2 DEF UpdateTokens
    <2>4. Quiet'
      BY <2>2, <2>3 DEF Quiet
    <2>5. hpThread'.at = "pause"
      BY <1>0, <2>3, AtFits DEF HpPlaces
    <2>6. CASE CallOut /\ hpMutex = Lock(1, <<>>)
      <3>1. hpMutex' = Lock(0, <<>>)
        BY <2>3, <2>6, LockMoves
      <3> QED  BY <1>1, <2>1, <2>4, <2>5, <2>6, <3>1 DEF WhenSlots, WhenPause, SharedFits, CallOut
    <2>7. CASE hpCall.at = "lock" /\ hpMutex = Lock(2, <<"gui">>)
      <3>1. hpMutex' = Lock(1, <<>>)
        BY <2>3, <2>7, LockMoves
      <3>2. CallHolds'
        BY <1>1, <2>4, <2>7 DEF CallHolds
      <3> QED  BY <1>1, <2>1, <2>5, <3>1, <3>2 DEF WhenSlots, WhenPause, SharedFits
    <2> QED  BY <2>1, <2>6, <2>7 DEF WhenSlots
  <1> QED  BY <1>2, <1>3, <1>4

LEMMA SharedEnter ==
  ASSUME HpInv, SharedFits, CallEnter
  PROVE  SharedFits'
  <1>1. /\ hpCall.at = "spawned" /\ hpCall' = [hpCall EXCEPT !.at = "lock"] /\ hpMutex' = MutexEnter(hpMutex, "gui")
        /\ UNCHANGED <<hpThread, hpWin>> /\ UNCHANGED hpLinkVars
    BY DEF CallEnter
  <1>2. hpCall'.at = "lock"
    BY <1>1 DEF HpInv, HpFits, CallFits
  <1>3. (Quiet => Quiet') /\ (\A cmd : Serving(cmd) => Serving(cmd)')
    BY <1>1, StreamSame
  <1>4. ~CallHolds /\ ~Alone /\ ~WhenClosed
    BY <1>1 DEF CallHolds, Alone, NoCall, WhenClosed
  <1>5. WhenPause \/ WhenLock \/ WhenSlots
    BY <1>4 DEF SharedFits, WhenAlone, WhenGreeting
  <1>6. hpMutex = Lock(0, <<>>) => hpMutex' = Lock(1, <<>>)
    BY <1>1, LockMoves
  <1>7. hpMutex = Lock(1, <<>>) => hpMutex' = Lock(2, <<"gui">>)
    BY <1>1, LockMoves
  <1>8. CASE WhenPause
    <2>1. hpMutex' = Lock(1, <<>>) /\ CallHolds'
      BY <1>2, <1>3, <1>4, <1>6, <1>8 DEF WhenPause, CallHolds
    <2> QED  BY <1>1, <1>8, <2>1 DEF WhenPause, SharedFits
  <1>9. CASE WhenLock
    BY <1>1, <1>2, <1>3, <1>4, <1>7, <1>9 DEF WhenLock, SharedFits
  <1>10. CASE WhenSlots
    BY <1>1, <1>2, <1>3, <1>7, <1>10 DEF WhenSlots, SharedFits
  <1> QED  BY <1>5, <1>8, <1>9, <1>10

LEMMA SharedSend ==
  ASSUME HpInv, SharedFits, CallSend
  PROVE  SharedFits'
  <1>1. /\ hpCall.at = "lock" /\ Granted("gui") /\ hpCall.op \in {"certs", "decrypt"}
        /\ Send(hpCall.op, hpCall.arg) /\ hpCall' = [hpCall EXCEPT !.at = "asked"]
        /\ UNCHANGED <<hpThread, hpMutex, hpWin>>
    BY DEF CallSend
  <1>2. hpCall'.at = "asked" /\ hpCall'.op = hpCall.op /\ hpCall.arg \in HpArgs /\ hpCall.op \in HpCmds
    BY <1>1 DEF HpInv, HpFits, CallFits, HpCmds
  <1>3. ~CallOut /\ ~Alone /\ ~WhenClosed /\ hpMutex # Lock(2, <<"gui">>)
    BY <1>1, LockMoves DEF CallOut, Alone, NoCall, WhenClosed
  <1>4. (WhenPause \/ WhenLock) /\ CallHolds
    BY <1>3 DEF SharedFits, WhenAlone, WhenGreeting, WhenPause, WhenLock, WhenSlots
  <1>5. PICK op \in HpCmds : op = hpCall.op
    BY <1>2
  <1>6. CallHolds'
    <2>1. PICK arg \in HpArgs : Send(op, arg)
      BY <1>1, <1>2, <1>5
    <2>2. Serving(op)'
      <3>1. Quiet
        BY <1>1, <1>4 DEF CallHolds
      <3> QED  BY <2>1, <3>1, RequestSent
    <2> QED  BY <1>2, <1>5, <2>2 DEF CallHolds
  <1>7. CASE WhenPause
    BY <1>1, <1>3, <1>6, <1>7 DEF WhenPause, SharedFits
  <1>8. CASE WhenLock
    BY <1>1, <1>3, <1>6, <1>8 DEF WhenLock, SharedFits
  <1> QED  BY <1>4, <1>7, <1>8

\* a call returns to the window with the lock given back
LEMMA SharedReturn ==
  ASSUME SharedFits, hpCall' = NoCall, hpMutex' = MutexLeave(hpMutex), hpThread' = hpThread,
         hpWin'.open = hpWin.open, Quiet', WhenPause \/ WhenLock, ~CallOut, hpMutex # Lock(2, <<"gui">>)
  PROVE  SharedFits'
  <1>1. CallOut'
    BY DEF CallOut, NoCall
  <1>2. CASE WhenPause
    <2>1. hpMutex' = Lock(0, <<>>)
      BY <1>2, LockMoves DEF WhenPause
    <2> QED  BY <1>1, <1>2, <2>1 DEF WhenPause, SharedFits
  <1>3. CASE WhenLock
    <2>1. hpMutex' = Lock(1, <<>>)
      BY <1>3, LockMoves DEF WhenLock
    <2> QED  BY <1>1, <1>3, <2>1 DEF WhenLock, SharedFits
  <1> QED  BY <1>2, <1>3

LEMMA SharedCall ==
  ASSUME HpInv, SharedFits, HpCallStep, hpOdd' = {}
  PROVE  SharedFits'
  <1>0. WinFits(hpWin)
    BY DEF HpInv, HpFits
  <1>1. CASE TokensChanged
    <2>1. /\ hpCall.at = "lock" /\ Granted("gui") /\ hpMutex' = MutexLeave(hpMutex) /\ hpCall' = NoCall
          /\ hpThread' = hpThread /\ UNCHANGED hpLinkVars
          /\ hpWin' \in {SwitchLoginMode(hpWin), TokenRows(hpWin, hpList)}
      BY <1>1 DEF TokensChanged
    <2>2. ~CallOut /\ ~Alone /\ ~WhenClosed /\ hpMutex # Lock(2, <<"gui">>)
      BY <2>1, LockMoves DEF CallOut, Alone, NoCall, WhenClosed
    <2>3. (WhenPause \/ WhenLock) /\ CallHolds
      BY <2>2 DEF SharedFits, WhenAlone, WhenGreeting, WhenPause, WhenLock, WhenSlots
    <2>4. Quiet'
      BY <2>1, <2>3, StreamSame DEF CallHolds
    <2>5. hpWin'.open = hpWin.open
      BY <1>0, <2>1 DEF WinFits, WinNames, SwitchLoginMode, TokenRows
    <2> QED  BY <2>1, <2>2, <2>3, <2>4, <2>5, SharedReturn
  <1>2. CASE GotCertificates
    <2>1. /\ hpCall.at = "asked" /\ hpCall.op = "certs" /\ hpDown # <<>>
          /\ hpMutex' = MutexLeave(hpMutex) /\ hpCall' = NoCall
          /\ hpThread' = hpThread /\ UNCHANGED <<hpUp, hpLast, hpOpen>>
          /\ hpDown' = IF Answered("certs") THEN Rest ELSE Misread
      BY <1>2 DEF GotCertificates
    <2>2. ~CallOut /\ ~Alone /\ ~WhenClosed /\ hpCall.at # "lock"
      BY <2>1 DEF CallOut, Alone, NoCall, WhenClosed
    <2>3. (WhenPause \/ WhenLock) /\ CallHolds /\ hpMutex # Lock(2, <<"gui">>)
      <3>1. <<"gui">> # <<"timer">> /\ Lock(1, <<>>) # Lock(2, <<"gui">>) /\ Lock(2, <<"timer">>) # Lock(2, <<"gui">>)
        BY DEF Lock
      <3> QED  BY <2>2, <3>1 DEF SharedFits, WhenAlone, WhenGreeting, WhenPause, WhenLock, WhenSlots
    <2>4. Answered("certs") /\ Rest = <<>> /\ hpUp = <<>> /\ hpLast = <<>> /\ hpOpen = 0
      <3>1. Serving("certs")
        BY <2>1, <2>3 DEF CallHolds
      <3> QED  BY <2>1, <3>1, AnswerTaken DEF HpCmds
    <2>5. Quiet'
      BY <2>1, <2>4 DEF Quiet
    <2>6. hpWin'.open = hpWin.open
      <3> DEFINE certs == IF Answered("certs") THEN Value ELSE {}
                 users == [kind |-> "certs", slot |-> hpCall.arg.slot, t |-> CHOOSE t \in certs : TRUE]
      <3>1. hpWin' = [hpWin EXCEPT !.button = FALSE] \/ hpWin' = [hpWin EXCEPT !.button = TRUE, !.users = users]
        BY <1>2 DEF GotCertificates
      <3> HIDE DEF users
      <3> QED  BY <1>0, <3>1 DEF WinFits, WinNames
    <2> QED  BY <2>1, <2>2, <2>3, <2>5, <2>6, SharedReturn
  <1>3. ~Decrypted
    BY DEF Decrypted
  <1>4. ~CallFails
    <2>1. hpOdd = {}
      BY DEF HpCallStep, CallEnter, CallSend, TokensChanged, GotCertificates, Decrypted, CallFails
    <2> QED  BY <2>1 DEF CallFails, HpInv
  <1> QED  BY <1>1, <1>2, <1>3, <1>4, SharedEnter, SharedSend DEF HpCallStep

LEMMA SharedWindow ==
  ASSUME HpInv, SharedFits, WindowStep
  PROVE  SharedFits'
  <1>0. HpFits /\ WinFits(hpWin) /\ ThreadFits(hpThread)
    BY DEF HpInv, HpFits
  <1>1. /\ hpWin.open = "open" /\ hpCall.at = "none"
        /\ UNCHANGED hpLinkVars /\ hpMutex' = hpMutex /\ (Closes \/ StaysOpen)
    BY <1>0, WindowStepMoves DEF GuiFree, hpGuiRest
  <1>2. (Quiet => Quiet') /\ (\A cmd : Serving(cmd) => Serving(cmd)')
    BY <1>1, StreamSame
  <1>3. ~CallHolds /\ ~WhenClosed /\ CallOut /\ hpCall.at # "lock"
    BY <1>1 DEF CallHolds, WhenClosed, CallOut
  <1>4. CASE Closes
    <2>1. Quiet \/ \E cmd \in HpCmds : Serving(cmd)
      BY <1>3 DEF SharedFits, WhenAlone, WhenGreeting, WhenPause, WhenLock, WhenSlots, HpCmds
    <2>2. Quiet' \/ \E cmd \in HpCmds : Serving(cmd)'
      BY <1>2, <2>1
    <2>3. hpThread'.at = "ended" /\ hpCall' = NoCall
      BY <1>0, <1>4, AtFits DEF HpPlaces, Closes
    <2>4. hpWin'.open # "open"
      BY <1>0, <1>4 DEF Closes, WinFits, WinNames
    <2> QED  BY <2>2, <2>3, <2>4 DEF WhenClosed, SharedFits
  <1>5. CASE StaysOpen
    <2>0. hpThread' = hpThread /\ hpWin'.open = "open" /\ CallOut' /\ (Alone => Alone')
      BY <1>5 DEF StaysOpen
    <2>1. WhenAlone => WhenAlone'
      BY <1>2, <2>0 DEF WhenAlone
    <2>2. WhenGreeting => WhenGreeting'
      BY <1>2, <2>0 DEF WhenGreeting
    <2>3. WhenPause => WhenPause'
      BY <1>1, <1>2, <1>3, <2>0 DEF WhenPause
    <2>4. WhenLock => WhenLock'
      BY <1>1, <1>2, <1>3, <2>0 DEF WhenLock
    <2>5. WhenSlots => WhenSlots'
      BY <1>1, <1>2, <1>3, <2>0 DEF WhenSlots
    <2> QED  BY <1>3, <2>1, <2>2, <2>3, <2>4, <2>5 DEF SharedFits
  <1> QED  BY <1>1, <1>4, <1>5

LEMMA SharedSame ==
  ASSUME SharedFits, UNCHANGED <<hpThread, hpWin, hpCall, hpMutex, hpQueue>>,
         UNCHANGED <<hpUp, hpLast, hpDown, hpOpen>>
  PROVE  SharedFits'
  <1>1. (Quiet => Quiet') /\ (\A cmd : Serving(cmd) => Serving(cmd)')
    BY StreamSame
  <1>2. (Alone => Alone') /\ (CallOut => CallOut')
    BY AloneStays DEF CallOut
  <1>3. CallHolds => CallHolds'
    BY <1>1 DEF CallHolds
  <1>4. WhenClosed => WhenClosed'
    BY <1>1 DEF WhenClosed
  <1>5. WhenAlone => WhenAlone'
    BY <1>1, <1>2 DEF WhenAlone
  <1>6. WhenGreeting => WhenGreeting'
    BY <1>1, <1>2 DEF WhenGreeting
  <1>7. WhenPause => WhenPause'
    BY <1>1, <1>2, <1>3 DEF WhenPause
  <1>8. WhenLock => WhenLock'
    BY <1>1, <1>2, <1>3 DEF WhenLock
  <1>9. WhenSlots => WhenSlots'
    BY <1>1, <1>2 DEF WhenSlots
  <1> QED  BY <1>4, <1>5, <1>6, <1>7, <1>8, <1>9 DEF SharedFits

LEMMA SharedListener ==
  ASSUME HpInv, SharedFits, Pkcs11ListennerCallback
  PROVE  SharedFits'
  <1>0. ThreadFits(hpThread)
    BY DEF HpInv, HpFits
  <1>1. UNCHANGED <<hpWin, hpCall, hpMutex, hpQueue>> /\ UNCHANGED <<hpUp, hpLast, hpDown, hpOpen>>
        /\ hpThread.at = "none" /\ hpThread' = At("connect")
    BY DEF Pkcs11ListennerCallback
  <1>2. WhenAlone
    BY <1>1, PlaceSays
  <1>3. Alone' /\ Quiet'
    BY <1>1, <1>2, AloneStays, StreamSame DEF WhenAlone
  <1>4. hpThread'.at = "connect"
    BY <1>0, <1>1, AtFits DEF HpPlaces
  <1> QED  BY <1>3, <1>4 DEF WhenAlone, SharedFits

\* a failure is not forgotten, and a closed link is one
LEMMA OddKept ==
  ASSUME HpInv, [HpNext]_hpVars
  PROVE  (hpOdd' = {} => hpOdd = {}) /\ (hpLink' = "closed" => "lost" \in hpOdd')
  <1>0. hpLink = "closed" => "lost" \in hpOdd
    BY DEF HpInv
  <1>1. CASE UNCHANGED hpVars \/ InsertToken \/ RemoveToken \/ LoseLink \/ Pkcs11ListennerCallback
    BY <1>0, <1>1 DEF hpVars, InsertToken, RemoveToken, LoseLink, Pkcs11ListennerCallback, hpLinkVars
  <1>2. CASE WindowStep
    <2>1. UNCHANGED <<hpLink, hpOdd>>
      BY <1>2, WindowStepMoves DEF HpInv, hpGuiRest, hpLinkVars
    <2> QED  BY <1>0, <2>1
  <1>3. CASE PushData
    <2>1. hpLink' = hpLink /\ hpOdd \subseteq hpOdd'
      <3>1. PICK n \in 1..Len(hpUp) : Carries(n)
        BY <1>3, PushCarries DEF HpInv
      <3>2. hpLink' = hpLink
        BY <1>3 DEF PushData
      <3> QED  BY <3>1, <3>2 DEF Carries
    <2> QED  BY <1>0, <2>1
  <1>4. CASE HpIoc
    <2>1. UNCHANGED <<hpLink, hpOdd>> \/ (hpLink' = "open" /\ hpOdd' = hpOdd)
      BY <1>4 DEF HpIoc, RetryConnect, HandshakeSend, RemoteHandshake, UpdateTokensTimer, UpdateTokensSend,
           UpdateTokens, HandlerFails, StopThread, Send, hpLinkVars
    <2> QED  BY <1>0, <2>1
  <1>5. CASE HpCallStep
    <2>1. hpLink' = hpLink /\ hpOdd' \in {hpOdd, hpOdd \cup {"decrypt"}}
      BY <1>5 DEF HpCallStep, CallEnter, CallSend, TokensChanged, GotCertificates, Decrypted, CallFails, Send, hpLinkVars
    <2> QED  BY <1>0, <2>1
  <1> QED  BY <1>1, <1>2, <1>3, <1>4, <1>5 DEF HpNext, HpPeople, WindowStep

LEMMA SharedKept ==
  ASSUME HpInv, [HpNext]_hpVars, hpOdd' = {}
  PROVE  SharedFits'
  <1>0. SharedFits /\ hpLink # "closed"
    BY OddKept DEF HpInv
  <1>1. CASE UNCHANGED hpVars \/ InsertToken \/ RemoveToken
    <2>1. UNCHANGED <<hpThread, hpWin, hpCall, hpMutex, hpQueue>> /\ UNCHANGED <<hpUp, hpLast, hpDown, hpOpen>>
      BY <1>1 DEF hpVars, InsertToken, RemoveToken, hpLinkVars
    <2> QED  BY <1>0, <2>1, SharedSame
  <1>2. ~LoseLink
    BY DEF LoseLink
  <1>3. CASE HpIoc
    <2>1. ~HandlerFails
      BY <1>0 DEF HandlerFails
    <2> QED  BY <1>0, <1>3, <2>1, SharedGreeting, SharedTimer DEF HpIoc
  <1> QED  BY <1>0, <1>1, <1>2, <1>3, SharedPush, SharedCall, SharedWindow, SharedListener
         DEF HpNext, HpPeople, WindowStep

-----------------------------------------------------------------------------
LEMMA HpStarts == HpInit => HpInv
  <1> SUFFICES ASSUME HpInit PROVE HpInv
    OBVIOUS
  <1>1. /\ hpOdd = {} /\ hpLink = "none" /\ hpCall = NoCall /\ hpQueue = <<>> /\ hpList = {}
        /\ hpThread.at = "none" /\ hpMutex = MutexFree
        /\ hpWin.open = "open" /\ hpWin.token = FALSE /\ hpWin.users = NoUsers
    BY DEF HpInit
  <1>2. Quiet
    BY DEF HpInit, Quiet
  <1>3. Alone
    BY <1>1, QueueEmpty, LockMoves DEF Alone, EvKinds
  <1>4. GreetingFits /\ SharedFits
    BY <1>1, <1>2, <1>3 DEF GreetingFits, SharedFits, WhenAlone
  <1>5. ShownFits(hpWin, hpCall, hpQueue, hpList)
    BY <1>1, QueueEmpty DEF ShownFits, ListShown, CertsShown, NoCall, NoUsers
  <1> QED  BY <1>1, <1>4, <1>5, HpFitsInit DEF HpInv

LEMMA HpKept ==
  ASSUME HpInv, [HpNext]_hpVars
  PROVE  HpInv'
  BY HpFitsKept, ShownKept, GreetingKept, OddKept, SharedKept DEF HpInv

LEMMA SharedGives ==
  ASSUME HpInv
  PROVE  HpStreamShared
  <1>1. HpTypeOK
    BY HpFitsGives DEF HpInv
  <1>2. ASSUME hpOdd = {}
        PROVE  /\ hpOpen \in {0, 1}
               /\ hpMutex.n = 0 /\ hpThread.at = "pause" => Quiet
    <2>1. SharedFits
      BY <1>2 DEF HpInv
    <2>2. \A cmd : Serving(cmd) => hpOpen \in {0, 1}
      BY DEF Serving, Asked, Told
    <2>3. hpOpen \in {0, 1}
      BY <2>1, <2>2 DEF SharedFits, WhenClosed, WhenAlone, WhenGreeting, WhenPause, WhenLock, WhenSlots,
                        Quiet, CallHolds
    <2>4. ASSUME hpMutex.n = 0, hpThread.at = "pause" PROVE Quiet
      <3>1. hpMutex # Lock(1, <<>>)
        BY <2>4 DEF Lock
      <3> QED  BY <2>1, <2>4, <3>1, PlaceSays DEF WhenPause
    <2> QED  BY <2>3, <2>4
  <1> QED  BY <1>1, <1>2 DEF HpStreamShared, HpOneRequest, Quiet

(* The stream to the client of the smart cards has one user at a time: a   *)
(* request is carried out once, only one is under way, and while the lock  *)
(* is free nothing is left in either direction, until a failure spoils it  *)
(* - for any tokens, slots, certificates and attempts.                     *)
THEOREM StreamShared == HpSpec => []HpStreamShared
  <1>1. HpInit => HpInv
    BY HpStarts
  <1>2. HpInv /\ [HpNext]_hpVars => HpInv'
    BY HpKept
  <1>3. HpInv => HpStreamShared
    BY SharedGives
  <1> QED  BY <1>1, <1>2, <1>3, PTL DEF HpSpec

(* When its queue is empty the window shows the tokens of the last list    *)
(* read, and the certificates it offers are those of the slot of the token *)
(* that is chosen, however tokensChanged and domainIndexChanged interleave *)
(* with the thread of the reader and its failures.                         *)
THEOREM TokensTrue == HpSpec => []HpShown
  <1>1. HpInit => HpInv
    BY HpStarts
  <1>2. HpInv /\ [HpNext]_hpVars => HpInv'
    BY HpKept
  <1>3. HpInv => HpShown
    BY ShownGives
  <1> QED  BY <1>1, <1>2, <1>3, PTL DEF HpSpec

=============================================================================
