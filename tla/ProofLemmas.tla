----------------------------- MODULE ProofLemmas -----------------------------
(***************************************************************************)
(* The lemmas several proofs rest on: induction over the naturals, and     *)
(* what AsyncMutex gives to the coroutines that use it.                    *)
(***************************************************************************)
EXTENDS AsyncMutex, FiniteSetTheorems, SequenceTheorems, WellFoundedInduction, TLAPS

(* A set of naturals that is not empty has a least element.                *)
LEMMA NatLeast ==
  ASSUME NEW S, S \subseteq Nat, S # {}
  PROVE  \E n \in S : \A m \in S : n <= m
  <1> DEFINE R == OpToRel(<, Nat)
  <1>1. IsWellFoundedOn(R, Nat)
    BY NatLessThanWellFounded
  <1>2. \A x \in Nat, y \in Nat : y < x => <<y, x>> \in R
    BY DEF OpToRel
  <1> HIDE DEF R
  <1>3. PICK x \in S : \A y \in S : ~ (<<y, x>> \in R)
    BY <1>1, WFMin
  <1>4. \A m \in S : m \in Nat /\ x \in Nat /\ ~(m < x)
    BY <1>2, <1>3
  <1>5. \A m \in S : x <= m
    BY <1>4
  <1> QED  BY <1>5

(* Induction, over the set of the naturals a statement holds for.          *)
LEMMA SetInduction ==
  ASSUME NEW T, 0 \in T, \A n \in Nat : n \in T => n + 1 \in T
  PROVE  Nat \subseteq T
  <1> DEFINE S == Nat \ T
  <1>1. SUFFICES ASSUME S # {} PROVE FALSE
    OBVIOUS
  <1>2. S \subseteq Nat
    OBVIOUS
  <1> HIDE DEF S
  <1>3. PICK n \in S : \A m \in S : n <= m
    BY <1>1, <1>2, NatLeast
  <1>4. n \in Nat /\ n # 0 /\ n \notin T
    BY <1>3 DEF S
  <1>5. n - 1 \in Nat /\ (n - 1) + 1 = n /\ ~(n <= n - 1)
    BY <1>4
  <1>6. n - 1 \notin S
    BY <1>3, <1>5
  <1>7. n - 1 \in T
    BY <1>5, <1>6 DEF S
  <1> QED  BY <1>4, <1>5, <1>7

-----------------------------------------------------------------------------
(* AsyncMutex.  MutexFits relates the value of a lock to the coroutines    *)
(* that hold it and that wait for it; the lemmas say how it goes on        *)
(* fitting when one enters or leaves.                                      *)

\* one holder when the counter is not zero, every waiter in the queue once,
\* and nobody counted who is neither
MutexFits(m, holders, waiters) ==
    /\ DOMAIN m = {"n", "wait"} /\ m.n \in Nat /\ m.wait \in Seq(waiters)
    /\ \A i, j \in 1..Len(m.wait) : m.wait[i] = m.wait[j] => i = j
    /\ \A c \in waiters : \E i \in 1..Len(m.wait) : m.wait[i] = c
    /\ holders \cap waiters = {}
    /\ \/ m.n = 0 /\ m.wait = <<>> /\ holders = {}
       \/ m.n = Len(m.wait) + 1 /\ \E c \in holders : holders = {c}

\* A lock nobody has entered (the constructor of async_mutex).
LEMMA MutexFreeFits == MutexFits(MutexFree, {}, {})
  BY EmptySeq DEF MutexFits, MutexFree

\* Nobody holds or awaits a free lock, and a taken one has one holder.
LEMMA MutexHolder ==
  ASSUME NEW m, NEW H, NEW W, MutexFits(m, H, W)
  PROVE  /\ m.n = 0 <=> H = {}
         /\ m.n = 0 => W = {}
         /\ \A c, d \in H : c = d
  <1>1. Len(m.wait) \in Nat
    BY LenProperties DEF MutexFits
  <1>2. m.n = 0 => W = {}
    BY <1>1, EmptySeq DEF MutexFits
  <1> QED  BY <1>1, <1>2 DEF MutexFits

\* lock(): whoever comes to a free lock has it at once, and the others wait.
LEMMA MutexEnterFits ==
  ASSUME NEW m, NEW H, NEW W, MutexFits(m, H, W), NEW c, c \notin H, c \notin W
  PROVE  IF m.n = 0 THEN MutexFits(MutexEnter(m, c), {c}, W)
                    ELSE MutexFits(MutexEnter(m, c), H, W \union {c})
  <1> DEFINE e == MutexEnter(m, c)
  <1>1. CASE m.n = 0
    <2>1. m.wait = <<>> /\ W = {}
      BY <1>1, MutexHolder, LenProperties DEF MutexFits
    <2>2. e.n = 1 /\ e.wait = <<>> /\ DOMAIN e = {"n", "wait"}
      BY <1>1, <2>1 DEF MutexEnter, MutexFits
    <2>3. MutexFits(e, {c}, W)
      BY <2>1, <2>2, EmptySeq DEF MutexFits
    <2> QED  BY <1>1, <2>3
  <1>2. CASE m.n # 0
    <2>1. e.n = m.n + 1 /\ e.wait = Append(m.wait, c) /\ DOMAIN e = {"n", "wait"}
      BY <1>2 DEF MutexEnter, MutexFits
    <2>2. m.wait \in Seq(W \union {c}) /\ c \in W \union {c} /\ Len(m.wait) \in Nat
      BY SeqMonotonic, LenProperties DEF MutexFits
    <2>3. /\ e.wait \in Seq(W \union {c})
          /\ Len(e.wait) = Len(m.wait) + 1
          /\ \A i \in 1..Len(m.wait) : e.wait[i] = m.wait[i] /\ m.wait[i] \in W
          /\ e.wait[Len(m.wait) + 1] = c
      BY <2>1, <2>2, AppendProperties, ElementOfSeq DEF MutexFits
    <2> HIDE DEF e
    <2>4. \A i, j \in 1..Len(e.wait) : e.wait[i] = e.wait[j] => i = j
      <3> TAKE i, j \in 1..Len(e.wait)
      <3>1. i \in 1..Len(m.wait) \/ i = Len(m.wait) + 1
        BY <2>2, <2>3
      <3>2. j \in 1..Len(m.wait) \/ j = Len(m.wait) + 1
        BY <2>2, <2>3
      <3> QED  BY <3>1, <3>2, <2>3 DEF MutexFits
    <2>5. \A d \in W \union {c} : \E i \in 1..Len(e.wait) : e.wait[i] = d
      <3> TAKE d \in W \union {c}
      <3>1. CASE d \in W
        <4>1. PICK i \in 1..Len(m.wait) : m.wait[i] = d
          BY <3>1 DEF MutexFits
        <4> QED  BY <4>1, <2>2, <2>3
      <3>2. CASE d = c
        BY <3>2, <2>2, <2>3
      <3> QED  BY <3>1, <3>2
    <2>6. e.n = Len(e.wait) + 1 /\ e.n \in Nat /\ \E d \in H : H = {d}
      BY <1>2, <2>1, <2>2, <2>3 DEF MutexFits
    <2>7. H \cap (W \union {c}) = {}
      BY DEF MutexFits
    <2>8. MutexFits(e, H, W \union {c})
      BY <2>1, <2>3, <2>4, <2>5, <2>6, <2>7 DEF MutexFits
    <2> QED  BY <1>2, <2>8 DEF e
  <1> QED  BY <1>1, <1>2

\* unlock(): the lock passes to the one that has waited longest, or is free.
LEMMA MutexLeaveFits ==
  ASSUME NEW m, NEW H, NEW W, MutexFits(m, H, W), H # {}
  PROVE  /\ MutexFits(MutexLeave(m), MutexWoken(m), W \ MutexWoken(m))
         /\ \/ MutexWoken(m) = {} /\ W = {}
            \/ \E c \in W : MutexWoken(m) = {c}
  <1> DEFINE e == MutexLeave(m)
             D == MutexWoken(m)
  <1>1. m.n = Len(m.wait) + 1 /\ Len(m.wait) \in Nat
    BY LenProperties DEF MutexFits
  <1>2. CASE m.wait = <<>>
    <2>1. m.n = 1 /\ W = {}
      BY <1>1, <1>2, EmptySeq DEF MutexFits
    <2>2. D = {} /\ e.n = 0 /\ e.wait = <<>> /\ DOMAIN e = {"n", "wait"}
      BY <2>1, <1>2 DEF MutexWoken, MutexLeave, MutexFits
    <2>3. MutexFits(e, {}, {})
      BY <2>2, EmptySeq DEF MutexFits
    <2> QED  BY <2>1, <2>2, <2>3
  <1>3. CASE m.wait # <<>>
    <2> DEFINE c == Head(m.wait)
               s == m.wait
    <2>1. /\ c = s[1] /\ c \in W /\ Len(s) \in Nat \ {0}
          /\ Tail(s) \in Seq(W) /\ Len(Tail(s)) = Len(s) - 1
          /\ \A i \in 1..Len(Tail(s)) : Tail(s)[i] = s[i + 1]
      BY <1>3, HeadTailProperties, EmptySeq, ElementOfSeq DEF MutexFits
    <2>2. /\ D = {c} /\ e.n = m.n - 1 /\ e.wait = Tail(s)
          /\ DOMAIN e = {"n", "wait"}
      BY <1>1, <1>3, <2>1 DEF MutexWoken, MutexLeave, MutexFits
    <2>3. \A i \in 1..Len(Tail(s)) : Tail(s)[i] \in W \ {c} /\ i + 1 \in 1..Len(s)
      <3> TAKE i \in 1..Len(Tail(s))
      <3>1. i + 1 \in 1..Len(s) /\ 1 \in 1..Len(s) /\ i + 1 # 1
        BY <2>1
      <3>2. s[i + 1] # s[1] /\ s[i + 1] \in W
        BY <3>1, ElementOfSeq DEF MutexFits
      <3> QED  BY <3>1, <3>2, <2>1
    <2>4. Tail(s) \in Seq(W \ {c})
      <3>1. DOMAIN Tail(s) = 1..Len(Tail(s)) /\ Tail(s) \in [1..Len(Tail(s)) -> W]
            /\ Len(Tail(s)) \in Nat
        BY <2>1, LenProperties
      <3>2. Tail(s) \in [1..Len(Tail(s)) -> W \ {c}]
        BY <3>1, <2>3
      <3> QED  BY <3>1, <3>2, SeqDef
    <2>5. \A i, j \in 1..Len(Tail(s)) : Tail(s)[i] = Tail(s)[j] => i = j
      <3> TAKE i, j \in 1..Len(Tail(s))
      <3>1. i + 1 \in 1..Len(s) /\ j + 1 \in 1..Len(s)
        BY <2>3
      <3> QED  BY <3>1, <2>1 DEF MutexFits
    <2>6. \A d \in W \ {c} : \E i \in 1..Len(Tail(s)) : Tail(s)[i] = d
      <3> TAKE d \in W \ {c}
      <3>1. PICK i \in 1..Len(s) : s[i] = d
        BY DEF MutexFits
      <3>2. i # 1
        BY <3>1, <2>1
      <3>3. i - 1 \in 1..Len(Tail(s)) /\ (i - 1) + 1 = i
        BY <3>2, <2>1
      <3>4. Tail(s)[i - 1] = s[(i - 1) + 1]
        BY <3>3, <2>1
      <3> QED  BY <3>1, <3>3, <3>4
    <2>7. e.n = Len(e.wait) + 1 /\ e.n \in Nat
      BY <1>1, <2>1, <2>2
    <2>8. MutexFits(e, {c}, W \ {c})
      <3> HIDE DEF e, c, s
      <3> QED  BY <2>2, <2>4, <2>5, <2>6, <2>7 DEF MutexFits
    <2> QED  BY <2>1, <2>2, <2>8
  <1> QED  BY <1>2, <1>3

\* The counter of the lock is the number of coroutines that are in it.
LEMMA MutexCounts ==
  ASSUME NEW m, NEW H, NEW W, MutexFits(m, H, W)
  PROVE  IsFiniteSet(H \union W) /\ m.n = Cardinality(H \union W)
  <1>1. Len(m.wait) \in Nat /\ m.wait \in [1..Len(m.wait) -> W]
    BY LenProperties DEF MutexFits
  <1>2. m.wait \in Bijection(1..Len(m.wait), W)
    BY <1>1 DEF MutexFits, Bijection, Injection, Surjection, IsInjective
  <1>3. IsFiniteSet(1..Len(m.wait)) /\ Cardinality(1..Len(m.wait)) = Len(m.wait)
    <2>1. 1 \in Int /\ Len(m.wait) \in Int
      BY <1>1
    <2> DEFINE n == Len(m.wait)
    <2> HIDE DEF n
    <2>2. IsFiniteSet(1..n) /\ Cardinality(1..n) = IF 1 > n THEN 0 ELSE n - 1 + 1
      BY <2>1, FS_Interval DEF n
    <2> QED  BY <1>1, <2>1, <2>2 DEF n
  <1>4. IsFiniteSet(W) /\ Cardinality(W) = Len(m.wait)
    BY <1>2, <1>3, FS_Bijection DEF ExistsBijection
  <1>5. CASE m.n = 0
    BY <1>5, <1>4, <1>1, MutexHolder, FS_EmptySet
  <1>6. CASE m.n # 0
    <2>1. PICK c : H = {c}
      BY <1>6 DEF MutexFits
    <2>2. c \notin W
      BY <2>1 DEF MutexFits
    <2>3. H \union W = W \union {c}
      BY <2>1
    <2>4. IsFiniteSet(W \union {c}) /\ Cardinality(W \union {c}) = Cardinality(W) + 1
      BY <1>4, <2>2, FS_AddElement
    <2> QED  BY <1>4, <1>6, <2>3, <2>4 DEF MutexFits
  <1> QED  BY <1>5, <1>6

(* Erasing one place of a list without repetitions takes out what was      *)
(* there and nothing else.                                                 *)
LEMMA ListErased ==
  ASSUME NEW S, NEW s \in Seq(S), NEW i \in 1..Len(s), IsInjective(s)
  PROVE  LET r == SubSeq(s, 1, i - 1) \o SubSeq(s, i + 1, Len(s))
         IN  r \in Seq(S) /\ IsInjective(r) /\ Range(r) = Range(s) \ {s[i]}
  <1> DEFINE a == SubSeq(s, 1, i - 1)
             b == SubSeq(s, i + 1, Len(s))
             r == a \o b
  <1>1. Len(s) \in Nat /\ DOMAIN s = 1..Len(s) /\ \A j \in 1..Len(s) : s[j] \in S
    BY LenProperties, ElementOfSeq
  <1>2. a \in Seq(S) /\ Len(a) = i - 1 /\ \A j \in 1..(i - 1) : a[j] = s[j]
    <2> DEFINE n == i - 1
    <2>1. n \in Int /\ 0 <= n /\ n - 1 + 1 = n /\ \A j \in 1..n : s[j] \in S /\ 1 + j - 1 = j
      BY <1>1
    <2> HIDE DEF n
    <2>2. /\ SubSeq(s, 1, n) \in Seq(S)
          /\ Len(SubSeq(s, 1, n)) = IF 1 <= n THEN n - 1 + 1 ELSE 0
          /\ \A j \in 1..n - 1 + 1 : SubSeq(s, 1, n)[j] = s[1 + j - 1]
      BY <2>1, SubSeqProperties
    <2>3. Len(SubSeq(s, 1, n)) = n /\ \A j \in 1..n : SubSeq(s, 1, n)[j] = s[j]
      BY <2>1, <2>2
    <2> QED  BY <2>2, <2>3 DEF n
  <1>3. b \in Seq(S) /\ Len(b) = Len(s) - i /\ \A j \in 1..(Len(s) - i) : b[j] = s[i + j]
    <2> DEFINE m == i + 1
               n == Len(s)
    <2>1. /\ m \in Int /\ n \in Int /\ \A j \in m..n : s[j] \in S
          /\ n - m + 1 = n - i /\ \A j \in 1..(n - i) : m + j - 1 = i + j
          /\ m = i + 1 /\ i \in 1..n
      BY <1>1
    <2> HIDE DEF m, n
    <2>2. /\ SubSeq(s, m, n) \in Seq(S)
          /\ Len(SubSeq(s, m, n)) = IF m <= n THEN n - m + 1 ELSE 0
          /\ \A j \in 1..n - m + 1 : SubSeq(s, m, n)[j] = s[m + j - 1]
      BY <2>1, SubSeqProperties
    <2>3. Len(SubSeq(s, m, n)) = n - i
      <3>1. CASE m <= n
        BY <3>1, <2>1, <2>2
      <3>2. CASE ~(m <= n)
        BY <3>2, <2>1, <2>2
      <3> QED  BY <3>1, <3>2
    <2>4. \A j \in 1..(n - i) : SubSeq(s, m, n)[j] = s[i + j]
      BY <2>1, <2>2
    <2> QED  BY <2>2, <2>3, <2>4 DEF m, n
  <1>4. r = a \o b
    OBVIOUS
  <1> HIDE DEF a, b, r
  <1>5. /\ r \in Seq(S) /\ Len(r) = Len(s) - 1 /\ DOMAIN r = 1..(Len(s) - 1)
        /\ \A j \in 1..(Len(s) - 1) : r[j] = IF j <= i - 1 THEN a[j] ELSE b[j - (i - 1)]
    <2>1. /\ r \in Seq(S) /\ Len(r) = Len(a) + Len(b)
          /\ \A j \in 1..Len(a) + Len(b) : r[j] = IF j <= Len(a) THEN a[j] ELSE b[j - Len(a)]
      BY <1>2, <1>3, <1>4, ConcatProperties
    <2>2. Len(a) + Len(b) = Len(s) - 1
      BY <1>1, <1>2, <1>3
    <2> QED  BY <2>1, <2>2, <1>2, LenProperties
  <1>6. ASSUME NEW j \in DOMAIN r
        PROVE  /\ j < i => j \in DOMAIN s /\ r[j] = s[j]
               /\ ~(j < i) => j + 1 \in DOMAIN s /\ r[j] = s[j + 1]
    <2>1. CASE j < i
      <3>1. j \in 1..(i - 1) /\ j \in 1..(Len(s) - 1) /\ j <= i - 1
        BY <1>1, <1>5, <2>1
      <3> QED  BY <1>1, <1>2, <1>5, <2>1, <3>1
    <2>2. CASE ~(j < i)
      <3>1. /\ j - (i - 1) \in 1..(Len(s) - i) /\ j \in 1..(Len(s) - 1) /\ ~(j <= i - 1)
            /\ i + (j - (i - 1)) = j + 1 /\ j + 1 \in 1..Len(s)
        BY <1>1, <1>5, <2>2
      <3>2. r[j] = b[j - (i - 1)]
        BY <1>5, <3>1
      <3>3. b[j - (i - 1)] = s[i + (j - (i - 1))]
        BY <1>3, <3>1
      <3> QED  BY <1>1, <2>2, <3>1, <3>2, <3>3
    <2> QED  BY <2>1, <2>2
  <1>7. DOMAIN r \subseteq Int /\ i \in Int /\ \A j, k \in DOMAIN s : s[j] = s[k] => j = k
    BY <1>5, <1>1 DEF IsInjective
  <1>8. IsInjective(r)
    <2> SUFFICES ASSUME NEW j \in DOMAIN r, NEW k \in DOMAIN r, r[j] = r[k]  PROVE  j = k
      BY DEF IsInjective
    <2>1. CASE j < i /\ k < i
      BY <2>1, <1>6, <1>7
    <2>2. CASE j < i /\ ~(k < i)
      BY <2>2, <1>6, <1>7
    <2>3. CASE ~(j < i) /\ k < i
      BY <2>3, <1>6, <1>7
    <2>4. CASE ~(j < i) /\ ~(k < i)
      <3>1. j + 1 = k + 1
        BY <2>4, <1>6, <1>7
      <3> QED  BY <3>1, <1>7
    <2> QED  BY <2>1, <2>2, <2>3, <2>4
  <1>9. Range(r) \subseteq Range(s) \ {s[i]}
    <2> SUFFICES ASSUME NEW j \in DOMAIN r  PROVE  r[j] \in Range(s) /\ r[j] # s[i]
      BY DEF Range
    <2>1. CASE j < i
      <3>1. j \in DOMAIN s /\ r[j] = s[j] /\ j # i
        BY <2>1, <1>6, <1>7
      <3> QED  BY <3>1, <1>1, <1>7 DEF Range
    <2>2. CASE ~(j < i)
      <3>1. j + 1 \in DOMAIN s /\ r[j] = s[j + 1] /\ j + 1 # i
        BY <2>2, <1>6, <1>7
      <3> QED  BY <3>1, <1>1, <1>7 DEF Range
    <2> QED  BY <2>1, <2>2
  <1>10. Range(s) \ {s[i]} \subseteq Range(r)
    <2> SUFFICES ASSUME NEW k \in DOMAIN s, s[k] # s[i]  PROVE  s[k] \in Range(r)
      BY DEF Range
    <2>1. CASE k < i
      <3>1. k \in DOMAIN r
        BY <2>1, <1>1, <1>5
      <3> QED  BY <3>1, <2>1, <1>6 DEF Range
    <2>2. CASE ~(k < i)
      <3>1. k - 1 \in DOMAIN r /\ ~(k - 1 < i) /\ (k - 1) + 1 = k
        BY <2>2, <1>1, <1>5
      <3>2. r[k - 1] = s[(k - 1) + 1]
        BY <3>1, <1>6
      <3> QED  BY <3>1, <3>2 DEF Range
    <2> QED  BY <2>1, <2>2
  <1> QED  BY <1>5, <1>8, <1>9, <1>10 DEF r, a, b
=============================================================================
