---------------------------- MODULE DaemonProofs ----------------------------
(***************************************************************************)
(* What the daemons behind the channels of a session keep: the folders of  *)
(* FuseSession and the smart cards of PcscSession, which both share a      *)
(* stream under an async_mutex, and the sound of AudioSession, whose       *)
(* coroutines write one socket without.                                    *)
(***************************************************************************)
EXTENDS FuseSession, PcscSession, AudioSession, ProofLemmas

\* the specification the session_daemons run checks of this daemon
FuseSpec == FuseInit /\ [][FuseNext]_FuseVars

-----------------------------------------------------------------------------
(***************************************************************************)
(* The inductive invariant.                                                *)
(***************************************************************************)
StreamOps == {"open", "release", "read"}
Outstanding == {"lock", "sending", "sent"}

\* a request that needs the client is one of the stream, and names a
\* descriptor when it is about one
IsRequest(q) ==
    /\ DOMAIN q = {"st", "op", "ino", "fh", "off", "res"}
    /\ q.st \in {"free", "lock", "sending", "sent", "replied"}
    /\ q.ino \in Nat /\ q.fh \in Nat /\ q.off \in Nat
    /\ q.st \in Outstanding =>
          /\ q.op \in StreamOps /\ q.ino # 0
          /\ q.op \in {"read", "release"} => q.fh \in FuseFds

StreamCommand == [op : StreamOps, rid : FuseReqs, ino : Nat, fh : Nat, off : Nat]
StreamWord ==
    {a \in [w : {"head", "fh", "data"}, op : StreamOps, rid : FuseReqs, err : BOOLEAN, v : Nat] :
        a.w = "fh" => a.v \in FuseFds}

FuseTyped ==
    /\ fsRun \in {"run", "blocked", "ub", "stopped"}
    /\ fsLink \in {"none", "opened", "up", "eof"}
    /\ fsMount \in {"none", "mounted", "gone"}
    /\ fsRecv \in {"off", "wait", "lock", "head", "fh", "data", "dead"}
    /\ DOMAIN fsReq = FuseReqs /\ \A r \in FuseReqs : IsRequest(fsReq[r])
    /\ clFds \in [FuseFds -> Nat] /\ fsBig \in BOOLEAN
    /\ fsWire \in Seq(StreamCommand) /\ fsAnswers \in Seq(StreamWord)
    /\ knFds \subseteq FuseFds \X (Nat \ {0})

\* send_lock_ fits the places of the coroutines
LockHolders ==
    {r \in FuseReqs : fsReq[r].st = "sending"}
    \union (IF fsRecv \in {"head", "fh", "data", "dead"} THEN {Receiver} ELSE {})
LockWaiters ==
    {r \in FuseReqs : fsReq[r].st = "lock"}
    \union (IF fsRecv = "lock" THEN {Receiver} ELSE {})
SendLockFits == MutexFits(fsLock, LockHolders, LockWaiters)

\* nothing is asked or answered before the mount
BeforeMount ==
    fsLink \in {"none", "opened"} =>
        /\ fsMount = "none" /\ fsRecv = "off" /\ fsWire = <<>> /\ fsAnswers = <<>>
        /\ knFds = {} /\ \A r \in FuseReqs : fsReq[r].st = "free"

\* a command is of a request that waits for its answer, and it is there once
CommandsSent ==
    \A i \in 1..Len(fsWire) :
        LET m == fsWire[i] IN
        /\ fsReq[m.rid].st = "sent" /\ fsReq[m.rid].op = m.op
        /\ fsReq[m.rid].ino = m.ino /\ fsReq[m.rid].fh = m.fh
        /\ \A j \in 1..Len(fsWire) : fsWire[j].rid = m.rid => i = j

\* so is a word of an answer
OnWire(r) == \E i \in 1..Len(fsWire) : fsWire[i].rid = r
WordsSent ==
    \A i \in 1..Len(fsAnswers) :
        LET a == fsAnswers[i] IN
        /\ fsReq[a.rid].st = "sent" /\ fsReq[a.rid].op = a.op /\ ~OnWire(a.rid)
        /\ \A j \in 1..Len(fsAnswers) :
              a.w = "head" /\ fsAnswers[j].w = "head" /\ fsAnswers[j].rid = a.rid => i = j

\* the receiver works on a request whose header is gone from the stream
HeaderTaken ==
    fsRecv \in {"fh", "data"} =>
        /\ fsRid \in FuseReqs /\ fsReq[fsRid].st = "sent" /\ ~OnWire(fsRid)
        /\ fsReq[fsRid].op = IF fsRecv = "fh" THEN "open" ELSE "read"
        /\ \A i \in 1..Len(fsAnswers) : fsAnswers[i].w = "head" => fsAnswers[i].rid # fsRid

\* the grammar of the stream of answers: a payload follows its header, and a
\* header without error has its payload, but for a position that is too big
Payload(op) == IF op = "open" THEN "fh" ELSE "data"
PayloadLed ==
    \A i \in 1..Len(fsAnswers) : fsAnswers[i].w # "head" =>
        \/ /\ i - 1 \in 1..Len(fsAnswers)
           /\ fsAnswers[i - 1].w = "head" /\ ~fsAnswers[i - 1].err
           /\ fsAnswers[i - 1].rid = fsAnswers[i].rid
           /\ fsAnswers[i - 1].op # "release" /\ fsAnswers[i].w = Payload(fsAnswers[i - 1].op)
        \/ i = 1 /\ fsRecv = fsAnswers[i].w /\ fsRid = fsAnswers[i].rid
HeaderFollowed ==
    \A i \in 1..Len(fsAnswers) :
        LET a == fsAnswers[i] IN
        a.w = "head" /\ ~a.err /\ a.op # "release" =>
            \/ fsBig /\ a.op = "read"
            \/ i + 1 \in 1..Len(fsAnswers) /\ fsAnswers[i + 1].w = Payload(a.op)
PayloadThere ==
    fsRecv \in {"fh", "data"} =>
        \/ fsBig /\ fsRecv = "data"
        \/ 1 \in 1..Len(fsAnswers) /\ fsAnswers[1].w = fsRecv

\* a descriptor of the client belongs to one: a handle of the kernel, a word
\* on its way to become one, or a release on its way
Releasing(r) ==
    fsReq[r].op = "release" /\ (fsReq[r].st \in {"lock", "sending"} \/ OnWire(r))
FhWord(i) == i \in 1..Len(fsAnswers) /\ fsAnswers[i].w = "fh"
HandlesOpen == \A h \in knFds : clFds[h[1]] = h[2]
OpenedKept ==
    \A i \in 1..Len(fsAnswers) : fsAnswers[i].w = "fh" =>
        LET a == fsAnswers[i] IN
        /\ a.v \in FuseFds /\ clFds[a.v] = fsReq[a.rid].ino
        /\ \A h \in knFds : h[1] # a.v
        /\ \A j \in 1..Len(fsAnswers) : fsAnswers[j].w = "fh" /\ fsAnswers[j].v = a.v => i = j
ReleasesOwn ==
    \A r \in FuseReqs : Releasing(r) =>
        /\ clFds[fsReq[r].fh] # 0
        /\ \A h \in knFds : h[1] # fsReq[r].fh
        /\ \A i \in 1..Len(fsAnswers) : fsAnswers[i].w = "fh" => fsAnswers[i].v # fsReq[r].fh
        /\ \A s \in FuseReqs : Releasing(s) /\ fsReq[s].fh = fsReq[r].fh => r = s

StreamFramed ==
    /\ CommandsSent /\ WordsSent /\ HeaderTaken
    /\ PayloadLed /\ HeaderFollowed /\ PayloadThere
DescriptorsOwned == fsLink = "up" => HandlesOpen /\ OpenedKept /\ ReleasesOwn
HandlesHold == fsLink = "up" => HandlesOpen
FuseInv ==
    /\ FuseTyped /\ SendLockFits /\ HandlesHold
    /\ fsRun = "run" => BeforeMount /\ StreamFramed /\ DescriptorsOwned
    /\ fsRun = "ub" => fsBig

\* the tables are those of an empty mount, or those the client has sent
TablesServed ==
    \/ fsInodes = RootInodes /\ fsPathes = RootPathes
    \/ fsInodes = FilledInodes /\ fsPathes = FilledPathes
-----------------------------------------------------------------------------
(***************************************************************************)
(* The tables of names.                                                    *)
(***************************************************************************)
\* A path is the path of its folder with its own name (JoinPath undoes what
\* createDirBuf takes apart).
LEMMA PathParts ==
  ASSUME NEW S, NEW p \in Seq(S), p # <<>>
  PROVE  Append(Front(p), Last(p)) = p
  <1>1. Len(p) \in Nat \ {0}
    BY EmptySeq
  <1>2. /\ Front(p) \in Seq(S) /\ Len(Front(p)) = Len(p) - 1
        /\ \A i \in 1..Len(Front(p)) : Front(p)[i] = p[i]
    <2> DEFINE n == Len(p) - 1
    <2>1. n \in Int /\ 1 \in Int /\ \A i \in 1..n : p[i] \in S
      BY <1>1, ElementOfSeq
    <2>2. Front(p) = SubSeq(p, 1, n)
      BY DEF Front
    <2> HIDE DEF n
    <2>3. /\ SubSeq(p, 1, n) \in Seq(S)
          /\ Len(SubSeq(p, 1, n)) = IF 1 <= n THEN n - 1 + 1 ELSE 0
          /\ \A i \in 1..(n - 1 + 1) : SubSeq(p, 1, n)[i] = p[1 + i - 1]
      BY <2>1, SubSeqProperties
    <2>4. n \in Nat /\ n = Len(p) - 1
      BY <1>1 DEF n
    <2>5. Len(SubSeq(p, 1, n)) = n
      BY <2>3, <2>4
    <2>6. \A i \in 1..n : SubSeq(p, 1, n)[i] = p[i]
      BY <2>3, <2>4
    <2> QED  BY <2>2, <2>3, <2>4, <2>5, <2>6
  <1>3. Last(p) = p[Len(p)] /\ Last(p) \in S
    BY <1>1, ElementOfSeq DEF Last
  <1> DEFINE a == Append(Front(p), Last(p))
  <1>4. a \in Seq(S) /\ Len(a) = Len(p) /\ \A i \in 1..Len(a) : a[i] = p[i]
    BY <1>1, <1>2, <1>3, AppendProperties
  <1> QED  BY <1>4, SeqEqual

\* The client sends one item of an inode (Tree of replyWriteShareRootInfo),
\* under a name, and the inode is neither 0 nor, once entered, the root's.
LEMMA SentItems ==
  /\ \A x, y \in NewItems : x.ino = y.ino => x = y
  /\ \A x \in NewItems : x.ino \in Nat \ {0, 1} /\ x.path \in Seq(STRING) \ {<<>>}
  <1>1. \A x \in NewItems : \E j \in DOMAIN FuseItems :
           /\ x = FuseItems[j]
           /\ FuseItems[j].kind \in {"dir", "reg", "link"} /\ ReadSymLink(FuseItems[j])
           /\ \A k \in 1..(j - 1) :
                FuseItems[k].kind \in {"dir", "reg", "link"} /\ ReadSymLink(FuseItems[k])
                  => FuseItems[k].ino # FuseItems[j].ino
    BY DEF NewItems, ReplyWriteShareRootInfo
  <1>2. ASSUME NEW x \in NewItems, NEW y \in NewItems, x.ino = y.ino
        PROVE  x = y
    <2>1. PICK j \in DOMAIN FuseItems :
           /\ x = FuseItems[j]
           /\ FuseItems[j].kind \in {"dir", "reg", "link"} /\ ReadSymLink(FuseItems[j])
           /\ \A k \in 1..(j - 1) :
                FuseItems[k].kind \in {"dir", "reg", "link"} /\ ReadSymLink(FuseItems[k])
                  => FuseItems[k].ino # FuseItems[j].ino
      BY <1>1
    <2>2. PICK l \in DOMAIN FuseItems :
           /\ y = FuseItems[l]
           /\ FuseItems[l].kind \in {"dir", "reg", "link"} /\ ReadSymLink(FuseItems[l])
           /\ \A k \in 1..(l - 1) :
                FuseItems[k].kind \in {"dir", "reg", "link"} /\ ReadSymLink(FuseItems[k])
                  => FuseItems[k].ino # FuseItems[l].ino
      BY <1>1
    <2>3. j \in Nat \ {0} /\ l \in Nat \ {0}
      BY FuseAssumption
    <2>4. ~(j \in 1..(l - 1)) /\ ~(l \in 1..(j - 1))
      BY <1>2, <2>1, <2>2
    <2>5. j = l
      BY <2>3, <2>4
    <2> QED  BY <2>1, <2>2, <2>5
  <1>3. \A x \in NewItems : x.ino \in Nat \ {0, 1} /\ x.path \in Seq(STRING) \ {<<>>}
    BY <1>1, FuseAssumption DEF NewItems
  <1> QED  BY <1>2, <1>3

\* What the daemon enters for an item.
LEMMA FilledEntry ==
  ASSUME NEW it \in NewItems
  PROVE  /\ it.ino \in DOMAIN FilledInodes
         /\ FilledInodes[it.ino].path = it.path /\ FilledInodes[it.ino].st.ino = it.ino
  <1> DEFINE new == {x \in NewItems : x.ino \notin DOMAIN RootInodes}
             entry == CHOOSE x \in new : x.ino = it.ino
  <1>1. DOMAIN RootInodes = {1}
    BY DEF RootInodes
  <1>2. it \in new /\ it.ino \notin DOMAIN RootInodes
    BY <1>1, SentItems
  <1>3. entry \in new /\ entry.ino = it.ino
    BY <1>2
  <1>4. entry = it
    BY <1>3, SentItems
  <1>5. /\ it.ino \in DOMAIN FilledInodes
        /\ FilledInodes[it.ino] = [path |-> entry.path, st |-> RecvStatStruct(entry)]
    BY <1>1, <1>2 DEF FilledInodes
  <1> HIDE DEF entry, new
  <1> QED  BY <1>4, <1>5 DEF RecvStatStruct

\* No inode of the tables is 0 (findInode of the requests' numbers).
LEMMA InodesNumbered ==
  ASSUME TablesServed
  PROVE  DOMAIN fsInodes \subseteq Nat \ {0}
  <1>1. DOMAIN RootInodes = {1}
    BY DEF RootInodes
  <1>2. DOMAIN FilledInodes \subseteq Nat \ {0}
    BY <1>1, SentItems DEF FilledInodes
  <1> QED  BY <1>1, <1>2 DEF TablesServed

\* The tables of names resolve, whichever of the two they are.
LEMMA TablesResolve ==
  ASSUME TablesServed
  PROVE  FuseNamesResolve
  <1> SUFFICES ASSUME NEW i \in DOMAIN fsInodes, NEW e \in CreateDirBuf(fsInodes[i].path)
               PROVE  /\ ReplyLookup(i, e[1]) = <<"entry", e[2]>>
                      /\ fsInodes[e[2]].path = JoinPath(i, e[1])
    BY DEF FuseNamesResolve
  <1>1. PICK p \in DOMAIN fsPathes :
           /\ p # <<>> /\ Front(p) = fsInodes[i].path
           /\ e = <<Last(p), fsPathes[p].ino>>
    BY DEF CreateDirBuf
  <1>2. fsInodes = FilledInodes /\ fsPathes = FilledPathes
    BY <1>1 DEF TablesServed, RootPathes
  <1>3. p \in {x.path : x \in NewItems}
    BY <1>1, <1>2 DEF FilledPathes
  <1> DEFINE it == CHOOSE x \in NewItems : x.path = p
  <1>4. it \in NewItems /\ it.path = p
    BY <1>3
  <1>5. fsPathes[p] = FilledInodes[it.ino].st
    BY <1>1, <1>2 DEF FilledPathes
  <1> HIDE DEF it
  <1>6. e[1] = Last(p) /\ e[2] = it.ino
    BY <1>1, <1>4, <1>5, FilledEntry
  <1>7. JoinPath(i, e[1]) = p
    BY <1>1, <1>4, <1>6, PathParts, SentItems DEF JoinPath
  <1>8. FindChildStat(i, e[1]) = {fsPathes[p]}
    BY <1>1, <1>7 DEF FindChildStat, FindInode
  <1>9. ReplyLookup(i, e[1]) = <<"entry", fsPathes[p].ino>>
    BY <1>8 DEF ReplyLookup
  <1> QED  BY <1>1, <1>2, <1>4, <1>6, <1>7, <1>9, FilledEntry

\* Every step leaves the tables, fills them or takes them back (the mount
\* of fuseRemoteHandshake, stopSession).
LEMMA TablesStep ==
  ASSUME TablesServed, [FuseNext]_FuseVars
  PROVE  TablesServed'
  <1>1. UNCHANGED FuseTables => TablesServed'
    BY DEF FuseTables, TablesServed, RootInodes, RootPathes, RootStat, FilledInodes,
           FilledPathes, NewItems, ReplyWriteShareRootInfo, ReadSymLink, RecvStatStruct
  <1>2. CASE FuseRemoteHandshake
    <2>1. UNCHANGED FuseTables \/ (fsInodes' = FilledInodes /\ fsPathes' = FilledPathes)
      BY <1>2 DEF FuseRemoteHandshake
    <2> QED  BY <1>1, <2>1 DEF TablesServed
  <1>3. CASE StopSession
    BY <1>3 DEF StopSession, TablesServed
  <1>4. ASSUME NEW r \in FuseReqs,
               \/ CbTables(r) \/ CbOpen(r) \/ CbRelease(r) \/ CbRead(r)
               \/ SendOpen(r) \/ SendRelease(r) \/ SendRead(r) \/ KernelTakes(r)
        PROVE  UNCHANGED FuseTables
    BY <1>4 DEF CbTables, CbOpen, CbRelease, CbRead, SendOpen, SendRelease, SendRead,
                FuseSend, KernelTakes
  <1>5. CASE \/ MountPoint \/ FuseRetryConnect \/ FuseClientLeaves \/ FuseUnmounted
             \/ FusePushData \/ FuseCmdRecvReady \/ FuseCmdRecvHead \/ ReplyOpen
             \/ ReplyRead \/ FuseCmdRecvEof \/ UNCHANGED FuseVars
    <2>1. UNCHANGED FuseTables
      BY <1>5 DEF MountPoint, FuseRetryConnect, FuseClientLeaves, FuseUnmounted, FusePushData,
                  FuseCmdRecvReady, FuseCmdRecvHead, ReplyOpen, ReplyRead, FuseReplyPayload,
                  FuseCmdRecvEof, FuseVars
    <2> QED  BY <1>1, <2>1
  <1> QED  BY <1>1, <1>2, <1>3, <1>4, <1>5 DEF FuseNext

LEMMA TablesInvariant == FuseSpec => []TablesServed
  <1>1. FuseInit => TablesServed
    BY DEF FuseInit, TablesServed
  <1> QED  BY <1>1, TablesStep, PTL DEF FuseSpec

\* A name that readdir shows leads back to itself: its lookup gives an inode
\* whose path is that name (findChildStat, createDirBuf).
THEOREM NamesLeadBack == FuseSpec => []FuseNamesResolve
  BY TablesInvariant, TablesResolve, PTL
-----------------------------------------------------------------------------
(***************************************************************************)
(* The lock over the stream.                                               *)
(***************************************************************************)
\* A request queues for send_lock_ or is refused, and the others stay.
LEMMA QueueEffects ==
  ASSUME FuseTyped, SendLockFits, TablesServed,
         NEW r \in FuseReqs, fsReq[r].st = "free",
         NEW q, IsRequest(q), q.op \in StreamOps,
         q.op \in {"read", "release"} => q.fh \in FuseFds,
         FuseQueue(r, q), fsRecv' = fsRecv
  PROVE  /\ DOMAIN fsReq' = FuseReqs
         /\ \A s \in FuseReqs \ {r} : fsReq'[s] = fsReq[s]
         /\ IsRequest(fsReq'[r]) /\ fsReq'[r].st \in {"lock", "sending", "replied"}
         /\ fsReq'[r].op = q.op /\ fsReq'[r].fh = q.fh
         /\ SendLockFits'
  <1>1. DOMAIN fsReq = FuseReqs /\ Receiver # r /\ r \notin LockHolders /\ r \notin LockWaiters
    BY FuseAssumption DEF FuseTyped, Receiver, LockHolders, LockWaiters
  <1>2. CASE FindInode(q.ino) /\ fsInodes[q.ino].st.kind # "dir"
    <2>1. /\ fsLock' = MutexEnter(fsLock, r)
          /\ fsReq' = [fsReq EXCEPT ![r] = [q EXCEPT !.st = IF fsLock.n = 0 THEN "sending" ELSE "lock"]]
      BY <1>2 DEF FuseQueue
    <2>2. q.ino # 0
      BY <1>2, InodesNumbered DEF FindInode
    <2>3. /\ DOMAIN fsReq' = FuseReqs /\ \A s \in FuseReqs \ {r} : fsReq'[s] = fsReq[s]
          /\ fsReq'[r].st = IF fsLock.n = 0 THEN "sending" ELSE "lock"
          /\ fsReq'[r].op = q.op /\ fsReq'[r].fh = q.fh /\ IsRequest(fsReq'[r])
      BY <1>1, <2>1, <2>2 DEF IsRequest, Outstanding
    <2>4. CASE fsLock.n = 0
      <3>1. LockHolders = {} /\ MutexFits(fsLock', {r}, LockWaiters)
        BY <1>1, <2>1, <2>4, MutexEnterFits, MutexHolder DEF SendLockFits
      <3>2. LockHolders' = {r} /\ LockWaiters' = LockWaiters
        BY <1>1, <2>3, <2>4, <3>1 DEF LockHolders, LockWaiters
      <3> QED  BY <2>3, <3>1, <3>2 DEF SendLockFits
    <2>5. CASE fsLock.n # 0
      <3>1. MutexFits(fsLock', LockHolders, LockWaiters \union {r})
        BY <1>1, <2>1, <2>5, MutexEnterFits DEF SendLockFits
      <3>2. LockHolders' = LockHolders /\ LockWaiters' = LockWaiters \union {r}
        BY <1>1, <2>3, <2>5 DEF LockHolders, LockWaiters
      <3> QED  BY <2>3, <3>1, <3>2 DEF SendLockFits
    <2> QED  BY <2>4, <2>5, <2>3
  <1>3. CASE ~(FindInode(q.ino) /\ fsInodes[q.ino].st.kind # "dir")
    <2>1. fsReq' = [fsReq EXCEPT ![r] = Replied(q, <<"err">>)] /\ fsLock' = fsLock
      BY <1>3 DEF FuseQueue
    <2>2. /\ DOMAIN fsReq' = FuseReqs /\ \A s \in FuseReqs \ {r} : fsReq'[s] = fsReq[s]
          /\ fsReq'[r].st = "replied" /\ fsReq'[r].op = q.op /\ fsReq'[r].fh = q.fh
          /\ IsRequest(fsReq'[r])
      BY <1>1, <2>1 DEF IsRequest, Replied, Outstanding
    <2>3. LockHolders' = LockHolders /\ LockWaiters' = LockWaiters
      BY <1>1, <2>2 DEF LockHolders, LockWaiters
    <2> QED  BY <2>1, <2>2, <2>3 DEF SendLockFits
  <1> QED  BY <1>2, <1>3

\* Who leaves the lock hands it to one that waits, and nobody else moves.
LEMMA HandedOn ==
  ASSUME FuseTyped, SendLockFits, NEW c \in LockHolders,
         c = Receiver => fsRecv \in {"head", "fh", "data"},
         NEW reqs, DOMAIN reqs = FuseReqs, \A s \in FuseReqs : IsRequest(reqs[s]),
         \A s \in FuseReqs : s # c /\ fsReq[s].st \in {"lock", "sending"} => reqs[s].st = fsReq[s].st,
         \A s \in FuseReqs : reqs[s].st \in {"lock", "sending"} => s # c /\ reqs[s].st = fsReq[s].st,
         LockPassed(reqs)
  PROVE  /\ DOMAIN fsReq' = FuseReqs
         /\ \A s \in FuseReqs :
               /\ IsRequest(fsReq'[s])
               /\ fsReq'[s].op = reqs[s].op /\ fsReq'[s].ino = reqs[s].ino /\ fsReq'[s].fh = reqs[s].fh
               /\ \/ fsReq'[s].st = reqs[s].st
                  \/ fsReq'[s].st = "sending" /\ reqs[s].st = "lock"
         /\ SendLockFits'
         /\ fsRecv' \in {"off", "wait", "lock", "head"}
  <1> DEFINE D == MutexWoken(fsLock)
  <1> HIDE DEF D
  <1>1. /\ fsLock' = MutexLeave(fsLock)
        /\ fsReq' = [s \in FuseReqs |-> IF s \in D THEN [reqs[s] EXCEPT !.st = "sending"] ELSE reqs[s]]
        /\ fsRecv' = IF Receiver \in D THEN "head"
                     ELSE IF fsRecv \in {"head", "fh", "data"} THEN "wait" ELSE fsRecv
    BY DEF LockPassed, D
  <1>2. /\ MutexFits(fsLock', D, LockWaiters \ D) /\ D \subseteq LockWaiters
        /\ \A x \in LockHolders : x = c
    <2>1. LockHolders # {}
      OBVIOUS
    <2> QED  BY <1>1, <2>1, MutexLeaveFits, MutexHolder DEF SendLockFits, D
  <1>3. Receiver \notin FuseReqs
    BY FuseAssumption DEF Receiver
  <1>4. fsRecv # "dead"
    BY <1>2 DEF LockHolders
  <1>5. ASSUME NEW s \in FuseReqs
        PROVE  /\ IsRequest(fsReq'[s])
               /\ fsReq'[s].op = reqs[s].op /\ fsReq'[s].ino = reqs[s].ino /\ fsReq'[s].fh = reqs[s].fh
               /\ fsReq'[s].st = IF s \in D THEN "sending" ELSE reqs[s].st
               /\ s \in D => fsReq[s].st = "lock" /\ reqs[s].st = "lock"
    <2>1. s \in D => fsReq[s].st = "lock"
      BY <1>2, <1>3 DEF LockWaiters
    <2>2. s \in D => s # c
      BY <1>2, <2>1, <1>3 DEF LockHolders
    <2>3. s \in D => reqs[s].st = "lock"
      BY <2>1, <2>2
    <2>4. IsRequest(reqs[s])
      OBVIOUS
    <2>5. fsReq'[s] = IF s \in D THEN [reqs[s] EXCEPT !.st = "sending"] ELSE reqs[s]
      BY <1>1
    <2>6. CASE s \in D
      BY <2>1, <2>3, <2>4, <2>5, <2>6 DEF IsRequest, Outstanding
    <2>7. CASE s \notin D
      BY <2>4, <2>5, <2>7
    <2> QED  BY <2>6, <2>7
  <1>6. DOMAIN fsReq' = FuseReqs
    BY <1>1
  <1>7. fsRecv' \in {"off", "wait", "lock", "head"}
    BY <1>1, <1>4 DEF FuseTyped
  <1>8. LockHolders' = D
    <2>1. ASSUME NEW s \in FuseReqs
          PROVE  fsReq'[s].st = "sending" <=> s \in D
      <3>1. reqs[s].st # "sending"
        BY <1>2 DEF LockHolders
      <3> QED  BY <1>5, <3>1
    <2>2. fsRecv' \in {"head", "fh", "data", "dead"} <=> Receiver \in D
      BY <1>1, <1>4 DEF FuseTyped
    <2>3. D \subseteq FuseReqs \union {Receiver}
      BY <1>2 DEF LockWaiters
    <2> QED  BY <2>1, <2>2, <2>3, <1>3 DEF LockHolders
  <1>9. LockWaiters' = LockWaiters \ D
    <2>1. ASSUME NEW s \in FuseReqs
          PROVE  fsReq'[s].st = "lock" <=> fsReq[s].st = "lock" /\ s \notin D
      <3>1. s = c => fsReq[s].st = "sending"
        BY <1>3 DEF LockHolders
      <3> QED  BY <1>5, <3>1
    <2>2. fsRecv' = "lock" <=> fsRecv = "lock" /\ Receiver \notin D
      BY <1>1
    <2> QED  BY <2>1, <2>2, <1>3 DEF LockWaiters
  <1> QED  BY <1>2, <1>5, <1>6, <1>7, <1>8, <1>9 DEF SendLockFits
-----------------------------------------------------------------------------
(***************************************************************************)
(* The stream of commands and answers.                                     *)
(***************************************************************************)
\* Messages name requests, and their places are numbers.
LEMMA StreamShape ==
  ASSUME FuseTyped
  PROVE  /\ Len(fsWire) \in Nat /\ Len(fsAnswers) \in Nat
         /\ \A i \in 1..Len(fsWire) : fsWire[i] \in StreamCommand
         /\ \A i \in 1..Len(fsAnswers) : fsAnswers[i] \in StreamWord
  BY LenProperties, ElementOfSeq DEF FuseTyped

\* A step that leaves the stream, the requests that were sent and the
\* receiver's header alone leaves the stream framed.
SentKept ==
    \A r \in FuseReqs : fsReq[r].st = "sent" =>
        /\ fsReq'[r].st = "sent" /\ fsReq'[r].op = fsReq[r].op
        /\ fsReq'[r].ino = fsReq[r].ino /\ fsReq'[r].fh = fsReq[r].fh
HeaderKept ==
    \/ fsRecv' = fsRecv /\ fsRid' = fsRid
    \/ fsRecv \notin {"fh", "data"} /\ fsRecv' \notin {"fh", "data"}
LEMMA StreamKept ==
  ASSUME FuseTyped, StreamFramed, SentKept, HeaderKept,
         fsWire' = fsWire, fsAnswers' = fsAnswers, fsBig' = fsBig
  PROVE  StreamFramed'
  <1>1. \A i \in 1..Len(fsWire) : fsWire[i].rid \in FuseReqs
    BY StreamShape DEF StreamCommand
  <1>2. \A i \in 1..Len(fsAnswers) : fsAnswers[i].rid \in FuseReqs /\ fsAnswers[i].w \in {"head", "fh", "data"}
    BY StreamShape DEF StreamWord
  <1>3. \A r : OnWire(r)' <=> OnWire(r)
    BY DEF OnWire
  <1>4. CommandsSent'
    BY <1>1 DEF StreamFramed, CommandsSent, SentKept
  <1>5. WordsSent'
    BY <1>2, <1>3 DEF StreamFramed, WordsSent, SentKept
  <1>6. HeaderTaken'
    BY <1>3 DEF StreamFramed, HeaderTaken, SentKept, HeaderKept
  <1>7. PayloadLed'
    BY <1>2 DEF StreamFramed, PayloadLed, HeaderKept, Payload
  <1>8. HeaderFollowed' /\ PayloadThere'
    BY DEF StreamFramed, HeaderFollowed, PayloadThere, HeaderKept, Payload
  <1> QED  BY <1>4, <1>5, <1>6, <1>7, <1>8 DEF StreamFramed

\* A step that in addition brings no handle, descriptor or release leaves
\* every descriptor with its owner.
ReleasesKept ==
    \A r \in FuseReqs : fsReq'[r].op = "release" /\ fsReq'[r].st \in {"lock", "sending"} =>
        /\ fsReq[r].op = "release" /\ fsReq[r].st \in {"lock", "sending"}
        /\ fsReq'[r].fh = fsReq[r].fh
LEMMA DescriptorsKept ==
  ASSUME FuseTyped, StreamFramed, DescriptorsOwned, SentKept, ReleasesKept,
         fsWire' = fsWire, fsAnswers' = fsAnswers, clFds' = clFds,
         knFds' \subseteq knFds, fsLink' = "up" => fsLink = "up"
  PROVE  DescriptorsOwned'
  <1> SUFFICES ASSUME fsLink' = "up"
               PROVE  (HandlesOpen /\ OpenedKept /\ ReleasesOwn)'
    BY DEF DescriptorsOwned
  <1>1. HandlesOpen /\ OpenedKept /\ ReleasesOwn
    BY DEF DescriptorsOwned
  <1>2. \A i \in 1..Len(fsAnswers) : fsAnswers[i].rid \in FuseReqs
    BY StreamShape DEF StreamWord
  <1>3. \A r : OnWire(r)' <=> OnWire(r)
    BY DEF OnWire
  <1>4. \A r : OnWire(r) => r \in FuseReqs /\ fsReq[r].st = "sent"
    BY StreamShape DEF OnWire, StreamFramed, CommandsSent, StreamCommand
  <1>5. HandlesOpen'
    BY <1>1 DEF HandlesOpen
  <1>6. OpenedKept'
    BY <1>1, <1>2 DEF OpenedKept, StreamFramed, WordsSent, SentKept
  <1>7. ASSUME NEW r \in FuseReqs, Releasing(r)'
        PROVE  Releasing(r) /\ fsReq'[r].fh = fsReq[r].fh
    BY <1>7, <1>3, <1>4 DEF Releasing, SentKept, ReleasesKept
  <1>8. ReleasesOwn'
    BY <1>1, <1>7 DEF ReleasesOwn
  <1> QED  BY <1>5, <1>6, <1>8
-----------------------------------------------------------------------------
(***************************************************************************)
(* The steps that move the stream, one lemma each.                         *)
(***************************************************************************)
\* sendOpen, sendRelease, sendRead: the command goes out, or the kernel is
\* told of the error, and the lock is left.
LEMMA SendStep ==
  ASSUME FuseInv, fsRun = "run", NEW r \in FuseReqs, NEW op \in StreamOps, FuseSend(r, op)
  PROVE  FuseInv'
  <1>1. FuseTyped /\ SendLockFits /\ StreamFramed /\ DescriptorsOwned /\ HandlesHold
    BY DEF FuseInv
  <1>2. /\ fsReq[r].st = "sending" /\ fsReq[r].op = op /\ fsLink \in {"up", "eof"}
        /\ fsRun' = "run" /\ fsLink' = fsLink /\ fsMount' = fsMount /\ fsRid' = fsRid
        /\ fsAnswers' = fsAnswers /\ fsBig' = fsBig /\ clFds' = clFds /\ knFds' = knFds
    BY DEF FuseSend
  <1>3. r \in LockHolders /\ r # Receiver
    BY <1>2, FuseAssumption DEF LockHolders, Receiver
  <1>4. fsRecv \notin {"head", "fh", "data", "dead"}
    <2>1. Receiver \notin LockHolders
      BY <1>1, <1>3, MutexHolder DEF SendLockFits
    <2> QED  BY <2>1 DEF LockHolders
  <1>5. DOMAIN fsReq = FuseReqs /\ \A s \in FuseReqs : IsRequest(fsReq[s])
    BY <1>1 DEF FuseTyped
  <1>6. CASE fsLink = "up"
    <2> DEFINE m == [op |-> op, rid |-> r, ino |-> fsReq[r].ino, fh |-> fsReq[r].fh, off |-> fsReq[r].off]
               reqs == [fsReq EXCEPT ![r].st = "sent"]
    <2>1. fsWire' = Append(fsWire, m) /\ LockPassed(reqs)
      BY <1>2, <1>6 DEF FuseSend
    <2>2. DOMAIN reqs = FuseReqs /\ reqs[r].st = "sent" /\ reqs[r].op = fsReq[r].op
          /\ reqs[r].ino = fsReq[r].ino /\ reqs[r].fh = fsReq[r].fh
          /\ \A s \in FuseReqs \ {r} : reqs[s] = fsReq[s]
      BY <1>5 DEF IsRequest
    <2>3. \A s \in FuseReqs : IsRequest(reqs[s])
      BY <1>2, <1>5, <2>2 DEF IsRequest, Outstanding
    <2>4. m \in StreamCommand /\ m.rid = r /\ m.op = op /\ m.ino = fsReq[r].ino /\ m.fh = fsReq[r].fh
      BY <1>5 DEF StreamCommand, IsRequest
    <2> HIDE DEF m, reqs
    <2>5. /\ DOMAIN fsReq' = FuseReqs
          /\ \A s \in FuseReqs :
               /\ IsRequest(fsReq'[s])
               /\ fsReq'[s].op = reqs[s].op /\ fsReq'[s].ino = reqs[s].ino /\ fsReq'[s].fh = reqs[s].fh
               /\ \/ fsReq'[s].st = reqs[s].st
                  \/ fsReq'[s].st = "sending" /\ reqs[s].st = "lock"
          /\ SendLockFits' /\ fsRecv' \in {"off", "wait", "lock", "head"}
      <3>1. \A s \in FuseReqs : s # r /\ fsReq[s].st \in {"lock", "sending"} => reqs[s].st = fsReq[s].st
        BY <2>2
      <3>2. \A s \in FuseReqs : reqs[s].st \in {"lock", "sending"} => s # r /\ reqs[s].st = fsReq[s].st
        BY <2>2
      <3> QED  BY <1>1, <1>3, <2>1, <2>2, <2>3, <3>1, <3>2, HandedOn
    <2>6. /\ fsWire' \in Seq(StreamCommand) /\ Len(fsWire') = Len(fsWire) + 1
          /\ Len(fsWire) \in Nat
          /\ \A i \in 1..Len(fsWire) : fsWire'[i] = fsWire[i]
          /\ fsWire'[Len(fsWire) + 1] = m
      BY <1>1, <2>1, <2>4, AppendProperties, StreamShape DEF FuseTyped
    <2>7. \A i \in 1..Len(fsWire') : i \in 1..Len(fsWire) \/ i = Len(fsWire) + 1
      BY <2>6
    <2>8. FuseTyped'
      BY <1>1, <1>2, <2>5, <2>6 DEF FuseTyped
    <2>9. SentKept /\ HeaderKept
      BY <1>4, <2>2, <2>5 DEF SentKept, HeaderKept
    <2>10. \A i \in 1..Len(fsWire) : fsWire[i].rid \in FuseReqs /\ fsWire[i].rid # r
      BY <1>1, <1>2, StreamShape DEF StreamFramed, CommandsSent, StreamCommand
    <2>11. fsReq'[r].st = "sent" /\ fsReq'[r].op = op /\ fsReq'[r].ino = fsReq[r].ino /\ fsReq'[r].fh = fsReq[r].fh
      BY <1>2, <2>2, <2>5
    <2>12. \A s : OnWire(s)' => OnWire(s) \/ s = r
      BY <2>4, <2>6, <2>7 DEF OnWire
    <2>13. \A i \in 1..Len(fsAnswers) : fsAnswers[i].rid \in FuseReqs /\ fsAnswers[i].rid # r
      BY <1>1, <1>2, StreamShape DEF StreamFramed, WordsSent, StreamWord
    <2>14. CommandsSent'
      <3>1. CommandsSent
        BY <1>1 DEF StreamFramed
      <3>2. ASSUME NEW i \in 1..Len(fsWire')
            PROVE  /\ fsReq'[fsWire'[i].rid].st = "sent" /\ fsReq'[fsWire'[i].rid].op = fsWire'[i].op
                   /\ fsReq'[fsWire'[i].rid].ino = fsWire'[i].ino /\ fsReq'[fsWire'[i].rid].fh = fsWire'[i].fh
        <4>1. CASE i \in 1..Len(fsWire)
          BY <4>1, <2>6, <2>9, <2>10, <3>1 DEF CommandsSent, SentKept
        <4>2. CASE i = Len(fsWire) + 1
          BY <4>2, <2>4, <2>6, <2>11
        <4> QED  BY <2>7, <4>1, <4>2
      <3>3. ASSUME NEW i \in 1..Len(fsWire'), NEW j \in 1..Len(fsWire'), fsWire'[j].rid = fsWire'[i].rid
            PROVE  i = j
        <4>1. (i \in 1..Len(fsWire) /\ j \in 1..Len(fsWire)) => i = j
          BY <3>1, <3>3, <2>6 DEF CommandsSent
        <4>2. ~(i \in 1..Len(fsWire) /\ j = Len(fsWire) + 1)
          BY <3>3, <2>4, <2>6, <2>10
        <4>3. ~(j \in 1..Len(fsWire) /\ i = Len(fsWire) + 1)
          BY <3>3, <2>4, <2>6, <2>10
        <4> QED  BY <2>7, <4>1, <4>2, <4>3
      <3> QED  BY <3>2, <3>3 DEF CommandsSent
    <2>15. WordsSent'
      BY <1>1, <1>2, <2>9, <2>12, <2>13 DEF StreamFramed, WordsSent, SentKept
    <2>16. HeaderTaken' /\ PayloadThere'
      BY <1>4, <2>5 DEF HeaderTaken, PayloadThere
    <2>17. PayloadLed' /\ HeaderFollowed'
      <3>1. \A i \in 1..Len(fsAnswers) : fsAnswers[i].w \in {"head", "fh", "data"}
        BY <1>1, StreamShape DEF StreamWord
      <3> QED  BY <1>1, <1>2, <1>4, <3>1 DEF StreamFramed, PayloadLed, HeaderFollowed, Payload
    <2>18. DescriptorsOwned'
      <3>1. HandlesOpen /\ OpenedKept /\ ReleasesOwn
        BY <1>1, <1>6 DEF DescriptorsOwned
      <3>2. HandlesOpen'
        BY <1>2, <3>1 DEF HandlesOpen
      <3>3. OpenedKept'
        BY <1>1, <1>2, <2>9, <2>13, <3>1 DEF OpenedKept, StreamFramed, WordsSent, SentKept
      <3>4. \A s : OnWire(s) => s \in FuseReqs /\ fsReq[s].st = "sent"
        BY <1>1, StreamShape DEF OnWire, StreamFramed, CommandsSent, StreamCommand
      <3>5. ASSUME NEW s \in FuseReqs, Releasing(s)'
            PROVE  Releasing(s) /\ fsReq'[s].fh = fsReq[s].fh
        <4>1. fsReq'[s].fh = fsReq[s].fh /\ fsReq'[s].op = fsReq[s].op
          BY <2>2, <2>5
        <4>2. CASE s = r
          BY <1>2, <4>1, <4>2, <3>5 DEF Releasing
        <4>3. CASE s # r
          <5>1. fsReq'[s].st \in {"lock", "sending"} => fsReq[s].st \in {"lock", "sending"}
            BY <4>3, <2>2, <2>5
          <5> QED  BY <4>1, <4>3, <5>1, <3>5, <2>12 DEF Releasing
        <4> QED  BY <4>2, <4>3
      <3>6. ReleasesOwn'
        BY <1>2, <3>1, <3>5 DEF ReleasesOwn
      <3> QED  BY <3>2, <3>3, <3>6 DEF DescriptorsOwned
    <2>19. HandlesHold' /\ BeforeMount'
      BY <1>1, <1>2, <1>6 DEF HandlesHold, HandlesOpen, BeforeMount
    <2> QED  BY <1>2, <2>5, <2>8, <2>14, <2>15, <2>16, <2>17, <2>18, <2>19 DEF FuseInv, StreamFramed
  <1>7. CASE fsLink = "eof"
    <2> DEFINE reqs == [fsReq EXCEPT ![r] = Replied(@, <<"err">>)]
    <2>1. fsWire' = fsWire /\ LockPassed(reqs)
      BY <1>2, <1>7 DEF FuseSend
    <2>2. DOMAIN reqs = FuseReqs /\ reqs[r].st = "replied" /\ IsRequest(reqs[r])
          /\ \A s \in FuseReqs \ {r} : reqs[s] = fsReq[s]
      BY <1>5 DEF IsRequest, Replied, Outstanding
    <2> HIDE DEF reqs
    <2>3. \A s \in FuseReqs : IsRequest(reqs[s])
      BY <1>5, <2>2
    <2>4. /\ DOMAIN fsReq' = FuseReqs
          /\ \A s \in FuseReqs :
               /\ IsRequest(fsReq'[s])
               /\ fsReq'[s].op = reqs[s].op /\ fsReq'[s].ino = reqs[s].ino /\ fsReq'[s].fh = reqs[s].fh
               /\ \/ fsReq'[s].st = reqs[s].st
                  \/ fsReq'[s].st = "sending" /\ reqs[s].st = "lock"
          /\ SendLockFits' /\ fsRecv' \in {"off", "wait", "lock", "head"}
      <3>1. \A s \in FuseReqs : s # r /\ fsReq[s].st \in {"lock", "sending"} => reqs[s].st = fsReq[s].st
        BY <2>2
      <3>2. \A s \in FuseReqs : reqs[s].st \in {"lock", "sending"} => s # r /\ reqs[s].st = fsReq[s].st
        BY <2>2
      <3> QED  BY <1>1, <1>3, <2>1, <2>2, <2>3, <3>1, <3>2, HandedOn
    <2>5. FuseTyped'
      BY <1>1, <1>2, <2>1, <2>4 DEF FuseTyped
    <2>6. SentKept /\ HeaderKept
      BY <1>2, <1>4, <2>2, <2>4 DEF SentKept, HeaderKept
    <2>7. StreamFramed'
      BY <1>1, <1>2, <2>1, <2>6, StreamKept
    <2>8. DescriptorsOwned' /\ HandlesHold' /\ BeforeMount'
      BY <1>2, <1>7 DEF DescriptorsOwned, HandlesHold, BeforeMount
    <2> QED  BY <1>2, <2>4, <2>5, <2>7, <2>8 DEF FuseInv
  <1> QED  BY <1>2, <1>6, <1>7

\* The receiver takes a word from the stream.
LEMMA WordTaken ==
  ASSUME FuseTyped, fsAnswers # <<>>, fsAnswers' = Tail(fsAnswers)
  PROVE  /\ 1 \in 1..Len(fsAnswers) /\ Head(fsAnswers) = fsAnswers[1]
         /\ fsAnswers' \in Seq(StreamWord)
         /\ Len(fsAnswers') = Len(fsAnswers) - 1 /\ Len(fsAnswers) \in Nat
         /\ \A i \in 1..Len(fsAnswers') :
               i + 1 \in 1..Len(fsAnswers) /\ fsAnswers'[i] = fsAnswers[i + 1]
  <1>1. /\ Len(fsAnswers) \in Nat \ {0} /\ Head(fsAnswers) = fsAnswers[1]
        /\ Tail(fsAnswers) \in Seq(StreamWord) /\ Len(Tail(fsAnswers)) = Len(fsAnswers) - 1
        /\ \A i \in 1..Len(Tail(fsAnswers)) : Tail(fsAnswers)[i] = fsAnswers[i + 1]
    BY EmptySeq, HeadTailProperties DEF FuseTyped
  <1> QED  BY <1>1

\* The word that ends an answer: the kernel is told, the lock is left, and
\* what follows in the stream is about other requests.
LEMMA AnswerEnds ==
  ASSUME FuseInv, fsRun = "run", fsAnswers # <<>>, fsAnswers' = Tail(fsAnswers),
         fsRecv \in {"head", "fh", "data"},
         NEW r \in FuseReqs, fsReq[r].st = "sent", ~OnWire(r),
         \A i \in 1..Len(fsAnswers) : i # 1 => fsAnswers[i].rid # r,
         2 \in 1..Len(fsAnswers) => fsAnswers[2].w = "head",
         NEW res, LockPassed([fsReq EXCEPT ![r] = Replied(@, res)]),
         knFds' \subseteq knFds \union {<<fsAnswers[1].v, fsReq[r].ino>>},
         knFds' \subseteq knFds \/ (fsAnswers[1].w = "fh" /\ fsAnswers[1].rid = r),
         UNCHANGED <<fsRun, fsLink, fsMount, fsWire, fsBig, clFds>>
  PROVE  FuseInv'
  <1>1. FuseTyped /\ SendLockFits /\ StreamFramed /\ DescriptorsOwned /\ HandlesHold /\ BeforeMount
    BY DEF FuseInv
  <1>2. DOMAIN fsReq = FuseReqs /\ \A s \in FuseReqs : IsRequest(fsReq[s])
    BY <1>1 DEF FuseTyped
  <1> DEFINE reqs == [fsReq EXCEPT ![r] = Replied(@, res)]
  <1>3. DOMAIN reqs = FuseReqs /\ reqs[r].st = "replied" /\ IsRequest(reqs[r])
        /\ reqs[r].op = fsReq[r].op /\ reqs[r].fh = fsReq[r].fh
        /\ \A s \in FuseReqs \ {r} : reqs[s] = fsReq[s]
    BY <1>2 DEF IsRequest, Replied, Outstanding
  <1>4. LockPassed(reqs)
    OBVIOUS
  <1> HIDE DEF reqs
  <1>5. /\ DOMAIN fsReq' = FuseReqs
        /\ \A s \in FuseReqs :
             /\ IsRequest(fsReq'[s])
             /\ fsReq'[s].op = reqs[s].op /\ fsReq'[s].ino = reqs[s].ino /\ fsReq'[s].fh = reqs[s].fh
             /\ \/ fsReq'[s].st = reqs[s].st
                \/ fsReq'[s].st = "sending" /\ reqs[s].st = "lock"
        /\ SendLockFits' /\ fsRecv' \in {"off", "wait", "lock", "head"}
    <2>1. Receiver \in LockHolders /\ Receiver \notin FuseReqs
      BY FuseAssumption DEF LockHolders, Receiver
    <2>2. \A s \in FuseReqs : s # Receiver /\ fsReq[s].st \in {"lock", "sending"} => reqs[s].st = fsReq[s].st
      BY <1>3
    <2>3. \A s \in FuseReqs : reqs[s].st \in {"lock", "sending"} => s # Receiver /\ reqs[s].st = fsReq[s].st
      BY <1>3, <2>1
    <2>4. \A s \in FuseReqs : IsRequest(reqs[s])
      BY <1>2, <1>3
    <2> QED  BY <1>1, <1>3, <1>4, <2>1, <2>2, <2>3, <2>4, HandedOn
  <1>6. \A s \in FuseReqs \ {r} : fsReq[s].st = "sent" =>
            /\ fsReq'[s].st = "sent" /\ fsReq'[s].op = fsReq[s].op
            /\ fsReq'[s].ino = fsReq[s].ino /\ fsReq'[s].fh = fsReq[s].fh
    BY <1>3, <1>5
  <1>7. /\ 1 \in 1..Len(fsAnswers) /\ fsAnswers' \in Seq(StreamWord)
        /\ Len(fsAnswers') = Len(fsAnswers) - 1 /\ Len(fsAnswers) \in Nat
        /\ \A i \in 1..Len(fsAnswers') :
              /\ i + 1 \in 1..Len(fsAnswers) /\ fsAnswers'[i] = fsAnswers[i + 1]
              /\ fsAnswers[i + 1].rid \in FuseReqs \ {r} /\ fsAnswers[i + 1] \in StreamWord
    <2>1. /\ 1 \in 1..Len(fsAnswers) /\ fsAnswers' \in Seq(StreamWord)
          /\ Len(fsAnswers') = Len(fsAnswers) - 1 /\ Len(fsAnswers) \in Nat
          /\ \A i \in 1..Len(fsAnswers') :
                i + 1 \in 1..Len(fsAnswers) /\ fsAnswers'[i] = fsAnswers[i + 1]
      BY <1>1, WordTaken
    <2>2. \A i \in 1..Len(fsAnswers') : i + 1 # 1
      BY <2>1
    <2>3. \A i \in 1..Len(fsAnswers) : fsAnswers[i] \in StreamWord /\ fsAnswers[i].rid \in FuseReqs
      BY <1>1, StreamShape DEF StreamWord
    <2> QED  BY <2>1, <2>2, <2>3
  <1>8. \A i \in 1..Len(fsWire) : fsWire[i].rid \in FuseReqs \ {r}
    BY <1>1, StreamShape DEF OnWire, StreamCommand
  <1>9. \A s : OnWire(s)' <=> OnWire(s)
    BY DEF OnWire
  <1>10. FuseTyped'
    <2>1. <<fsAnswers[1].v, fsReq[r].ino>> \in FuseFds \X (Nat \ {0}) \/ knFds' \subseteq knFds
      BY <1>1, <1>2, <1>7, StreamShape DEF StreamWord, IsRequest, Outstanding
    <2>2. knFds' \subseteq FuseFds \X (Nat \ {0})
      BY <1>1, <2>1 DEF FuseTyped
    <2> QED  BY <1>1, <1>5, <1>7, <2>2 DEF FuseTyped
  <1>11. CommandsSent'
    BY <1>1, <1>6, <1>8 DEF StreamFramed, CommandsSent
  <1>12. WordsSent'
    <2>1. WordsSent
      BY <1>1 DEF StreamFramed
    <2>2. ASSUME NEW i \in 1..Len(fsAnswers')
          PROVE  /\ fsReq'[fsAnswers'[i].rid].st = "sent" /\ fsReq'[fsAnswers'[i].rid].op = fsAnswers'[i].op
                 /\ ~\E j \in 1..Len(fsWire) : fsWire[j].rid = fsAnswers'[i].rid
      BY <2>1, <1>6, <1>7 DEF WordsSent, OnWire
    <2>3. ASSUME NEW i \in 1..Len(fsAnswers'), NEW j \in 1..Len(fsAnswers'), fsAnswers'[i].w = "head",
                 fsAnswers'[j].w = "head", fsAnswers'[j].rid = fsAnswers'[i].rid
          PROVE  i = j
      <3>1. i + 1 = j + 1
        BY <2>1, <2>3, <1>7 DEF WordsSent
      <3> QED  BY <3>1
    <2> QED  BY <2>2, <2>3 DEF WordsSent, OnWire
  <1>13. HeaderTaken' /\ PayloadThere'
    BY <1>5 DEF HeaderTaken, PayloadThere
  <1>14. PayloadLed'
    <2>1. PayloadLed
      BY <1>1 DEF StreamFramed
    <2>2. ASSUME NEW i \in 1..Len(fsAnswers'), fsAnswers'[i].w # "head"
          PROVE  /\ i - 1 \in 1..Len(fsAnswers')
                 /\ fsAnswers'[i - 1].w = "head" /\ ~fsAnswers'[i - 1].err
                 /\ fsAnswers'[i - 1].rid = fsAnswers'[i].rid
                 /\ fsAnswers'[i - 1].op # "release" /\ fsAnswers'[i].w = Payload(fsAnswers'[i - 1].op)
      <3>1. i # 1 /\ i + 1 # 1 /\ (i + 1) - 1 = i /\ (i - 1) + 1 = i
        BY <2>2, <1>7
      <3>2. i - 1 \in 1..Len(fsAnswers') /\ fsAnswers'[i - 1] = fsAnswers[i]
        BY <3>1, <1>7
      <3>3. /\ fsAnswers[i].w = "head" /\ ~fsAnswers[i].err /\ fsAnswers[i].rid = fsAnswers[i + 1].rid
            /\ fsAnswers[i].op # "release" /\ fsAnswers[i + 1].w = Payload(fsAnswers[i].op)
        BY <2>1, <2>2, <3>1, <1>7 DEF PayloadLed
      <3> QED  BY <3>2, <3>3, <1>7
    <2> QED  BY <2>2 DEF PayloadLed
  <1>15. HeaderFollowed'
    <2>1. HeaderFollowed
      BY <1>1 DEF StreamFramed
    <2>2. ASSUME NEW i \in 1..Len(fsAnswers'), fsAnswers'[i].w = "head", ~fsAnswers'[i].err,
                 fsAnswers'[i].op # "release"
          PROVE  \/ fsBig' /\ fsAnswers'[i].op = "read"
                 \/ i + 1 \in 1..Len(fsAnswers') /\ fsAnswers'[i + 1].w = Payload(fsAnswers'[i].op)
      <3>1. \/ fsBig /\ fsAnswers[i + 1].op = "read"
            \/ (i + 1) + 1 \in 1..Len(fsAnswers) /\ fsAnswers[(i + 1) + 1].w = Payload(fsAnswers[i + 1].op)
        BY <2>1, <2>2, <1>7 DEF HeaderFollowed
      <3>2. (i + 1) + 1 \in 1..Len(fsAnswers) => i + 1 \in 1..Len(fsAnswers')
        BY <1>7
      <3> QED  BY <3>1, <3>2, <1>7
    <2> QED  BY <2>2 DEF HeaderFollowed
  <1>16. DescriptorsOwned' /\ HandlesHold'
    <2> SUFFICES ASSUME fsLink' = "up"
                 PROVE  (HandlesOpen /\ OpenedKept /\ ReleasesOwn)'
      BY DEF DescriptorsOwned, HandlesHold
    <2>1. HandlesOpen /\ OpenedKept /\ ReleasesOwn
      BY <1>1 DEF DescriptorsOwned
    <2> DEFINE h == <<fsAnswers[1].v, fsReq[r].ino>>
    <2>2. h[1] = fsAnswers[1].v /\ h[2] = fsReq[r].ino
      OBVIOUS
    <2> HIDE DEF h
    <2>3. knFds' \subseteq knFds \union {h}
      BY DEF h
    <2>4. \/ knFds' \subseteq knFds
          \/ fsAnswers[1].w = "fh" /\ fsAnswers[1].rid = r /\ clFds[h[1]] = h[2]
      BY <2>1, <2>2, <1>7 DEF OpenedKept
    <2>5. HandlesOpen'
      BY <2>1, <2>3, <2>4 DEF HandlesOpen
    <2>6. OpenedKept'
      <3>1. ASSUME NEW i \in 1..Len(fsAnswers'), fsAnswers'[i].w = "fh"
            PROVE  /\ fsAnswers'[i].v \in FuseFds
                   /\ clFds'[fsAnswers'[i].v] = fsReq'[fsAnswers'[i].rid].ino
                   /\ \A x \in knFds' : x[1] # fsAnswers'[i].v
        <4>1. fsAnswers[i + 1].w = "fh" /\ i + 1 # 1 /\ fsReq[fsAnswers[i + 1].rid].st = "sent"
          BY <3>1, <1>1, <1>7 DEF StreamFramed, WordsSent
        <4>2. /\ fsAnswers[i + 1].v \in FuseFds
              /\ clFds[fsAnswers[i + 1].v] = fsReq[fsAnswers[i + 1].rid].ino
              /\ \A x \in knFds : x[1] # fsAnswers[i + 1].v
              /\ fsAnswers[1].w = "fh" => fsAnswers[1].v # fsAnswers[i + 1].v
          BY <2>1, <4>1, <1>7 DEF OpenedKept
        <4>3. \A x \in knFds' : x[1] # fsAnswers[i + 1].v
          BY <2>2, <2>3, <2>4, <4>2
        <4> QED  BY <4>1, <4>2, <4>3, <1>6, <1>7
      <3>2. ASSUME NEW i \in 1..Len(fsAnswers'), NEW j \in 1..Len(fsAnswers'), fsAnswers'[i].w = "fh",
                   fsAnswers'[j].w = "fh", fsAnswers'[j].v = fsAnswers'[i].v
            PROVE  i = j
        <4>1. i + 1 = j + 1
          BY <2>1, <3>2, <1>7 DEF OpenedKept
        <4> QED  BY <4>1
      <3> QED  BY <3>1, <3>2 DEF OpenedKept
    <2>7. ASSUME NEW s \in FuseReqs, Releasing(s)'
          PROVE  Releasing(s) /\ fsReq'[s].fh = fsReq[s].fh
      <3>1. s # r
        BY <2>7, <1>3, <1>5, <1>9 DEF Releasing
      <3>2. /\ fsReq'[s].fh = fsReq[s].fh /\ fsReq'[s].op = fsReq[s].op
            /\ fsReq'[s].st \in {"lock", "sending"} => fsReq[s].st \in {"lock", "sending"}
        BY <3>1, <1>3, <1>5
      <3> QED  BY <2>7, <3>2, <1>9 DEF Releasing
    <2>8. ReleasesOwn'
      <3>1. ASSUME NEW s \in FuseReqs, Releasing(s)'
            PROVE  /\ clFds'[fsReq'[s].fh] # 0
                   /\ \A x \in knFds' : x[1] # fsReq'[s].fh
                   /\ \A i \in 1..Len(fsAnswers') : fsAnswers'[i].w = "fh" => fsAnswers'[i].v # fsReq'[s].fh
        <4>1. Releasing(s) /\ fsReq'[s].fh = fsReq[s].fh
          BY <3>1, <2>7
        <4>2. /\ clFds[fsReq[s].fh] # 0 /\ \A x \in knFds : x[1] # fsReq[s].fh
              /\ \A i \in 1..Len(fsAnswers) : fsAnswers[i].w = "fh" => fsAnswers[i].v # fsReq[s].fh
          BY <2>1, <4>1 DEF ReleasesOwn
        <4>3. \A x \in knFds' : x[1] # fsReq[s].fh
          BY <2>2, <2>3, <2>4, <4>2, <1>7
        <4> QED  BY <4>1, <4>2, <4>3, <1>7
      <3>2. ASSUME NEW s \in FuseReqs, NEW t \in FuseReqs, Releasing(s)', Releasing(t)',
                   fsReq'[t].fh = fsReq'[s].fh
            PROVE  s = t
        BY <3>2, <2>1, <2>7 DEF ReleasesOwn
      <3> QED  BY <3>1, <3>2 DEF ReleasesOwn
    <2> QED  BY <2>5, <2>6, <2>8
  <1>17. BeforeMount'
    BY <1>1 DEF BeforeMount
  <1> QED
    BY <1>5, <1>10, <1>11, <1>12, <1>13, <1>14, <1>15, <1>16, <1>17 DEF FuseInv, StreamFramed

\* A header that a payload follows makes the receiver go for the payload.
LEMMA HeaderRead ==
  ASSUME FuseInv, fsRun = "run", fsRecv = "head", fsAnswers # <<>>, fsAnswers' = Tail(fsAnswers),
         fsAnswers[1].w = "head", ~fsAnswers[1].err, fsAnswers[1].op \in {"open", "read"},
         fsRecv' = Payload(fsAnswers[1].op), fsRid' = fsAnswers[1].rid,
         UNCHANGED <<fsRun, fsLink, fsMount, fsReq, fsLock, fsWire, fsBig, clFds, knFds>>
  PROVE  FuseInv'
  <1>1. FuseTyped /\ SendLockFits /\ StreamFramed /\ DescriptorsOwned /\ HandlesHold /\ BeforeMount
    BY DEF FuseInv
  <1> DEFINE kind == Payload(fsAnswers[1].op)
             rid == fsAnswers[1].rid
  <1>2. /\ 1 \in 1..Len(fsAnswers) /\ fsAnswers' \in Seq(StreamWord)
        /\ Len(fsAnswers') = Len(fsAnswers) - 1 /\ Len(fsAnswers) \in Nat
        /\ \A i \in 1..Len(fsAnswers') :
              i + 1 \in 1..Len(fsAnswers) /\ fsAnswers'[i] = fsAnswers[i + 1] /\ i + 1 # 1
    BY <1>1, WordTaken
  <1>3. /\ rid \in FuseReqs /\ fsReq[rid].st = "sent" /\ fsReq[rid].op = fsAnswers[1].op /\ ~OnWire(rid)
    BY <1>1, <1>2, StreamShape DEF StreamFramed, WordsSent, StreamWord
  <1>4. kind \in {"fh", "data"} /\ (kind = "fh" <=> fsAnswers[1].op = "open")
    BY DEF Payload
  <1>5. \A s : OnWire(s)' <=> OnWire(s)
    BY DEF OnWire
  <1>6. FuseTyped'
    BY <1>1, <1>2, <1>4 DEF FuseTyped
  <1>7. SendLockFits'
    <2>1. LockHolders' = LockHolders /\ LockWaiters' = LockWaiters
      BY <1>4 DEF LockHolders, LockWaiters
    <2> QED  BY <1>1, <2>1 DEF SendLockFits
  <1>8. CommandsSent'
    BY <1>1 DEF StreamFramed, CommandsSent
  <1>9. WordsSent'
    <2>1. WordsSent
      BY <1>1 DEF StreamFramed
    <2>2. ASSUME NEW i \in 1..Len(fsAnswers')
          PROVE  /\ fsReq[fsAnswers'[i].rid].st = "sent" /\ fsReq[fsAnswers'[i].rid].op = fsAnswers'[i].op
                 /\ ~\E j \in 1..Len(fsWire) : fsWire[j].rid = fsAnswers'[i].rid
      BY <2>1, <1>2 DEF WordsSent, OnWire
    <2>3. ASSUME NEW i \in 1..Len(fsAnswers'), NEW j \in 1..Len(fsAnswers'), fsAnswers'[i].w = "head",
                 fsAnswers'[j].w = "head", fsAnswers'[j].rid = fsAnswers'[i].rid
          PROVE  i = j
      <3>1. i + 1 = j + 1
        BY <2>1, <2>3, <1>2 DEF WordsSent
      <3> QED  BY <3>1
    <2> QED  BY <2>2, <2>3 DEF WordsSent, OnWire
  <1>10. HeaderTaken'
    <2>1. \A i \in 1..Len(fsAnswers') : fsAnswers'[i].w = "head" => fsAnswers'[i].rid # rid
      BY <1>1, <1>2 DEF StreamFramed, WordsSent
    <2>2. fsReq[rid].op = IF kind = "fh" THEN "open" ELSE "read"
      BY <1>3, <1>4
    <2> QED  BY <1>3, <1>5, <2>1, <2>2 DEF HeaderTaken
  <1>11. PayloadLed'
    <2>1. PayloadLed
      BY <1>1 DEF StreamFramed
    <2>2. ASSUME NEW i \in 1..Len(fsAnswers'), fsAnswers'[i].w # "head"
          PROVE  \/ /\ i - 1 \in 1..Len(fsAnswers')
                    /\ fsAnswers'[i - 1].w = "head" /\ ~fsAnswers'[i - 1].err
                    /\ fsAnswers'[i - 1].rid = fsAnswers'[i].rid
                    /\ fsAnswers'[i - 1].op # "release" /\ fsAnswers'[i].w = Payload(fsAnswers'[i - 1].op)
                 \/ i = 1 /\ kind = fsAnswers'[i].w /\ rid = fsAnswers'[i].rid
      <3>1. /\ fsAnswers[i].w = "head" /\ ~fsAnswers[i].err /\ fsAnswers[i].rid = fsAnswers[i + 1].rid
            /\ fsAnswers[i].op # "release" /\ fsAnswers[i + 1].w = Payload(fsAnswers[i].op)
        <4>1. (i + 1) - 1 = i /\ i + 1 # 1 /\ fsAnswers[i + 1].w # "head" /\ i + 1 \in 1..Len(fsAnswers)
          BY <2>2, <1>2
        <4> QED  BY <2>1, <4>1 DEF PayloadLed
      <3>2. CASE i = 1
        BY <3>1, <3>2, <1>2
      <3>3. CASE i # 1
        <4>1. i - 1 \in 1..Len(fsAnswers') /\ (i - 1) + 1 = i
          BY <3>3, <1>2
        <4>2. fsAnswers'[i - 1] = fsAnswers[i]
          BY <4>1, <1>2
        <4> QED  BY <3>1, <4>1, <4>2, <1>2
      <3> QED  BY <3>2, <3>3
    <2> QED  BY <2>2 DEF PayloadLed
  <1>12. HeaderFollowed'
    <2>1. HeaderFollowed
      BY <1>1 DEF StreamFramed
    <2>2. ASSUME NEW i \in 1..Len(fsAnswers'), fsAnswers'[i].w = "head", ~fsAnswers'[i].err,
                 fsAnswers'[i].op # "release"
          PROVE  \/ fsBig /\ fsAnswers'[i].op = "read"
                 \/ i + 1 \in 1..Len(fsAnswers') /\ fsAnswers'[i + 1].w = Payload(fsAnswers'[i].op)
      <3>1. \/ fsBig /\ fsAnswers[i + 1].op = "read"
            \/ (i + 1) + 1 \in 1..Len(fsAnswers) /\ fsAnswers[(i + 1) + 1].w = Payload(fsAnswers[i + 1].op)
        BY <2>1, <2>2, <1>2 DEF HeaderFollowed
      <3>2. (i + 1) + 1 \in 1..Len(fsAnswers) => i + 1 \in 1..Len(fsAnswers')
        BY <1>2
      <3> QED  BY <3>1, <3>2, <1>2
    <2> QED  BY <2>2 DEF HeaderFollowed
  <1>13. PayloadThere'
    <2>1. \/ fsBig /\ fsAnswers[1].op = "read"
          \/ 1 + 1 \in 1..Len(fsAnswers) /\ fsAnswers[1 + 1].w = kind
      BY <1>1, <1>2 DEF StreamFramed, HeaderFollowed
    <2>2. 1 + 1 \in 1..Len(fsAnswers) => 1 \in 1..Len(fsAnswers')
      BY <1>2
    <2> QED  BY <2>1, <2>2, <1>2, <1>4 DEF PayloadThere
  <1>14. DescriptorsOwned' /\ HandlesHold'
    <2> SUFFICES ASSUME fsLink' = "up"
                 PROVE  (HandlesOpen /\ OpenedKept /\ ReleasesOwn)'
      BY DEF DescriptorsOwned, HandlesHold
    <2>1. HandlesOpen /\ OpenedKept /\ ReleasesOwn
      BY <1>1 DEF DescriptorsOwned
    <2>2. HandlesOpen'
      BY <2>1 DEF HandlesOpen
    <2>3. OpenedKept'
      <3>1. ASSUME NEW i \in 1..Len(fsAnswers'), fsAnswers'[i].w = "fh"
            PROVE  /\ fsAnswers'[i].v \in FuseFds
                   /\ clFds[fsAnswers'[i].v] = fsReq[fsAnswers'[i].rid].ino
                   /\ \A x \in knFds : x[1] # fsAnswers'[i].v
        BY <2>1, <3>1, <1>2 DEF OpenedKept
      <3>2. ASSUME NEW i \in 1..Len(fsAnswers'), NEW j \in 1..Len(fsAnswers'), fsAnswers'[i].w = "fh",
                   fsAnswers'[j].w = "fh", fsAnswers'[j].v = fsAnswers'[i].v
            PROVE  i = j
        <4>1. i + 1 = j + 1
          BY <2>1, <3>2, <1>2 DEF OpenedKept
        <4> QED  BY <4>1
      <3> QED  BY <3>1, <3>2 DEF OpenedKept
    <2>4. ReleasesOwn'
      <3>1. \A s \in FuseReqs : Releasing(s)' <=> Releasing(s)
        BY <1>5 DEF Releasing
      <3> QED  BY <2>1, <3>1, <1>2 DEF ReleasesOwn
    <2> QED  BY <2>2, <2>3, <2>4
  <1>15. BeforeMount'
    BY <1>1 DEF BeforeMount
  <1> QED
    BY <1>6, <1>7, <1>8, <1>9, <1>10, <1>11, <1>12, <1>13, <1>14, <1>15 DEF FuseInv, StreamFramed

\* fuseCmdRecv reads a header, and never takes another word for one.
LEMMA HeadStep ==
  ASSUME FuseInv, FuseCmdRecvHead
  PROVE  FuseInv'
  <1>1. FuseTyped /\ StreamFramed /\ fsRun = "run" /\ fsRecv = "head" /\ fsAnswers # <<>>
    BY DEF FuseInv, FuseCmdRecvHead
  <1>2. fsAnswers' = Tail(fsAnswers)
    BY DEF FuseCmdRecvHead
  <1>3. /\ 1 \in 1..Len(fsAnswers) /\ Head(fsAnswers) = fsAnswers[1] /\ Len(fsAnswers) \in Nat
        /\ fsAnswers[1] \in StreamWord
    BY <1>1, <1>2, WordTaken, StreamShape
  <1>4. fsAnswers[1].w = "head"
    <2>1. ~(1 - 1 \in 1..Len(fsAnswers))
      BY <1>3
    <2> QED  BY <1>1, <1>3, <2>1 DEF StreamFramed, PayloadLed
  <1>5. UNCHANGED <<fsLink, fsMount, fsWire, fsBig, clFds, knFds>>
    BY DEF FuseCmdRecvHead
  <1> DEFINE h == fsAnswers[1]
  <1>6. CASE /\ ~h.err /\ h.op \in {"open", "read"}
             /\ fsRecv' = IF h.op = "open" THEN "fh" ELSE "data"
             /\ fsRid' = h.rid /\ UNCHANGED <<fsRun, fsReq, fsLock>>
    BY <1>1, <1>2, <1>4, <1>5, <1>6, HeaderRead DEF Payload
  <1>7. CASE /\ h.err \/ h.op = "release"
             /\ LockPassed([fsReq EXCEPT ![h.rid] = Replied(@, IF h.err THEN <<"err">> ELSE <<"ok">>)])
             /\ UNCHANGED <<fsRun, fsRid>>
    <2>1. h.rid \in FuseReqs /\ fsReq[h.rid].st = "sent" /\ ~OnWire(h.rid)
      BY <1>1, <1>3 DEF StreamFramed, WordsSent, StreamWord
    <2>2. ASSUME NEW i \in 1..Len(fsAnswers), i # 1, fsAnswers[i].rid = h.rid
          PROVE  FALSE
      <3>1. fsAnswers[i].w # "head"
        BY <1>1, <1>3, <1>4, <2>2 DEF StreamFramed, WordsSent
      <3>2. /\ i - 1 \in 1..Len(fsAnswers) /\ fsAnswers[i - 1].w = "head" /\ ~fsAnswers[i - 1].err
            /\ fsAnswers[i - 1].op # "release" /\ fsAnswers[i - 1].rid = h.rid
        BY <1>1, <2>2, <3>1 DEF StreamFramed, PayloadLed
      <3>3. i - 1 = 1
        BY <1>1, <1>3, <1>4, <3>2 DEF StreamFramed, WordsSent
      <3> QED  BY <1>7, <3>2, <3>3
    <2>3. 2 \in 1..Len(fsAnswers) => fsAnswers[2].w = "head"
      <3> SUFFICES ASSUME NEW i \in 1..Len(fsAnswers), i = 2, fsAnswers[i].w # "head"
                   PROVE  FALSE
        OBVIOUS
      <3>1. i - 1 = 1 /\ i # 1
        OBVIOUS
      <3>2. ~fsAnswers[i - 1].err /\ fsAnswers[i - 1].op # "release"
        BY <1>1, <3>1 DEF StreamFramed, PayloadLed
      <3> QED  BY <1>7, <3>1, <3>2
    <2>4. /\ knFds' \subseteq knFds \union {<<fsAnswers[1].v, fsReq[h.rid].ino>>}
          /\ knFds' \subseteq knFds
      BY <1>5
    <2> DEFINE rid == h.rid
               res == IF h.err THEN <<"err">> ELSE <<"ok">>
    <2>5. LockPassed([fsReq EXCEPT ![rid] = Replied(@, res)])
      BY <1>7
    <2>6. /\ rid \in FuseReqs /\ fsReq[rid].st = "sent" /\ ~OnWire(rid)
          /\ \A i \in 1..Len(fsAnswers) : i # 1 => fsAnswers[i].rid # rid
          /\ knFds' \subseteq knFds \union {<<fsAnswers[1].v, fsReq[rid].ino>>}
      BY <2>1, <2>2, <2>4
    <2> HIDE DEF rid, res
    <2> QED  BY <1>1, <1>2, <1>5, <1>7, <2>3, <2>4, <2>5, <2>6, AnswerEnds
  <1> QED  BY <1>3, <1>4, <1>6, <1>7 DEF FuseCmdRecvHead

\* replyOpen, replyRead take a payload that is theirs, as long as no position
\* beyond INT_MAX was read.
LEMMA PayloadStep ==
  ASSUME FuseInv, NEW kind \in {"fh", "data"}, FuseReplyPayload(kind)
  PROVE  FuseInv'
  <1>1. FuseTyped /\ StreamFramed /\ fsRun = "run" /\ fsRecv = kind /\ fsAnswers # <<>>
    BY DEF FuseInv, FuseReplyPayload
  <1>2. fsAnswers' = Tail(fsAnswers)
    BY DEF FuseReplyPayload
  <1>3. /\ 1 \in 1..Len(fsAnswers) /\ Head(fsAnswers) = fsAnswers[1] /\ Len(fsAnswers) \in Nat
        /\ fsAnswers' \in Seq(StreamWord)
    BY <1>1, <1>2, WordTaken
  <1>4. UNCHANGED <<fsLink, fsMount, fsWire, fsBig, clFds>>
    BY DEF FuseReplyPayload
  <1>5. CASE fsAnswers[1].w = kind
    <2>1. /\ LockPassed([fsReq EXCEPT ![fsRid] = Replied(@, <<kind, fsAnswers[1].v>>)])
          /\ knFds' = IF kind = "fh" /\ fsMount = "mounted"
                      THEN knFds \union {<<fsAnswers[1].v, fsReq[fsRid].ino>>} ELSE knFds
          /\ fsRun' = fsRun
      BY <1>3, <1>5 DEF FuseReplyPayload
    <2>2. fsRid \in FuseReqs /\ fsReq[fsRid].st = "sent" /\ ~OnWire(fsRid)
      BY <1>1 DEF StreamFramed, HeaderTaken
    <2>3. fsAnswers[1].rid = fsRid
      <3>1. ~(1 - 1 \in 1..Len(fsAnswers)) /\ fsAnswers[1].w # "head"
        BY <1>3, <1>5
      <3> QED  BY <1>1, <1>3, <3>1 DEF StreamFramed, PayloadLed
    <2>4. ASSUME NEW i \in 1..Len(fsAnswers), i # 1, fsAnswers[i].rid = fsRid
          PROVE  FALSE
      <3>1. fsAnswers[i].w # "head"
        BY <1>1, <2>4 DEF StreamFramed, HeaderTaken
      <3>2. i - 1 \in 1..Len(fsAnswers) /\ fsAnswers[i - 1].w = "head" /\ fsAnswers[i - 1].rid = fsRid
        BY <1>1, <2>4, <3>1 DEF StreamFramed, PayloadLed
      <3> QED  BY <1>1, <3>2 DEF StreamFramed, HeaderTaken
    <2>5. 2 \in 1..Len(fsAnswers) => fsAnswers[2].w = "head"
      <3> SUFFICES ASSUME NEW i \in 1..Len(fsAnswers), i = 2, fsAnswers[i].w # "head"
                   PROVE  FALSE
        OBVIOUS
      <3>1. i - 1 = 1 /\ i # 1
        OBVIOUS
      <3>2. fsAnswers[i - 1].w = "head"
        BY <1>1, <3>1 DEF StreamFramed, PayloadLed
      <3> QED  BY <1>5, <3>1, <3>2
    <2>6. /\ knFds' \subseteq knFds \union {<<fsAnswers[1].v, fsReq[fsRid].ino>>}
          /\ knFds' \subseteq knFds \/ (fsAnswers[1].w = "fh" /\ fsAnswers[1].rid = fsRid)
      BY <1>5, <2>1, <2>3
    <2> QED  BY <1>1, <1>2, <1>4, <2>1, <2>2, <2>4, <2>5, <2>6, AnswerEnds
  <1>6. CASE fsAnswers[1].w # kind
    <2>1. fsRun' = "ub" /\ UNCHANGED <<fsReq, fsLock, fsRecv, fsRid, knFds>>
      BY <1>3, <1>6 DEF FuseReplyPayload
    <2>2. fsBig
      BY <1>1, <1>6 DEF StreamFramed, PayloadThere
    <2>3. FuseTyped'
      BY <1>1, <1>3, <1>4, <2>1 DEF FuseTyped
    <2>4. SendLockFits' /\ HandlesHold'
      BY <1>4, <2>1 DEF FuseInv, SendLockFits, LockHolders, LockWaiters, HandlesHold, HandlesOpen
    <2> QED  BY <1>4, <2>1, <2>2, <2>3, <2>4 DEF FuseInv
  <1> QED  BY <1>5, <1>6

\* Sequences of one and of two.
LEMMA OneWord ==
  ASSUME NEW S, NEW x \in S
  PROVE  <<x>> \in Seq(S) /\ Len(<<x>>) = 1 /\ <<x>>[1] = x
  OBVIOUS
LEMMA TwoWords ==
  ASSUME NEW S, NEW x \in S, NEW y \in S
  PROVE  <<x, y>> \in Seq(S) /\ Len(<<x, y>>) = 2 /\ <<x, y>>[1] = x /\ <<x, y>>[2] = y
  OBVIOUS

\* The words and the descriptors the client answers a command with: a header,
\* and its payload unless there is an error, nothing to send, or a position
\* that does not fit.
AnswerOf(m, o, big) ==
    /\ o.out \in Seq(StreamWord) /\ Len(o.out) \in {1, 2}
    /\ o.out[1].w = "head" /\ o.out[1].rid = m.rid /\ o.out[1].op = m.op
    /\ Len(o.out) = 2 =>
          /\ o.out[2].w = Payload(m.op) /\ o.out[2].rid = m.rid /\ o.out[2].op = m.op
          /\ ~o.out[1].err /\ m.op # "release"
    /\ Len(o.out) = 1 /\ ~o.out[1].err /\ m.op # "release" => big /\ m.op = "read"
    /\ \/ o.fds = clFds /\ m.op # "release" /\ (Len(o.out) = 2 => m.op = "read")
       \/ /\ m.op = "open" /\ Len(o.out) = 2 /\ o.out[2].v \in FuseFds
          /\ clFds[o.out[2].v] = 0 /\ o.fds = [clFds EXCEPT ![o.out[2].v] = m.ino]
       \/ /\ m.op = "release" /\ Len(o.out) = 1
          /\ o.fds = [clFds EXCEPT ![m.fh] = 0]

\* fuseOpOpen, fuseOpRelease and fuseOpRead answer so.
LEMMA ClientAnswers ==
  ASSUME FuseTyped, NEW m \in StreamCommand,
         m.op \in {"read", "release"} => m.fh \in FuseFds,
         NEW o \in CASE m.op = "open" -> FuseOpOpen(m)
                     [] m.op = "release" -> FuseOpRelease(m)
                     [] m.op = "read" -> FuseOpRead(m),
         NEW big, m.op = "read" /\ SeekFails(m.off) => big
  PROVE  AnswerOf(m, o, big)
  <1>1. /\ m.op \in StreamOps /\ m.rid \in FuseReqs /\ m.ino \in Nat /\ m.fh \in Nat
        /\ clFds \in [FuseFds -> Nat] /\ FuseFds \subseteq Nat
    BY FuseAssumption DEF StreamCommand, FuseTyped
  <1>2. ASSUME NEW err \in BOOLEAN, NEW out, out = <<Header(m, err)>>
        PROVE  /\ out \in Seq(StreamWord) /\ Len(out) = 1 /\ out[1].w = "head"
               /\ out[1].rid = m.rid /\ out[1].op = m.op /\ out[1].err = err
    <2>1. /\ Header(m, err) \in StreamWord /\ Header(m, err).w = "head"
          /\ Header(m, err).rid = m.rid /\ Header(m, err).op = m.op /\ Header(m, err).err = err
      BY <1>1 DEF Header, StreamWord
    <2> QED  BY <1>2, <2>1, OneWord
  <1>3. ASSUME NEW w \in {"fh", "data"}, NEW v \in Nat, w = "fh" => v \in FuseFds,
               NEW out, out = <<Header(m, FALSE), FuseWord(w, m, v)>>
        PROVE  /\ out \in Seq(StreamWord) /\ Len(out) = 2 /\ out[1].w = "head"
               /\ out[1].rid = m.rid /\ out[1].op = m.op /\ ~out[1].err
               /\ out[2].w = w /\ out[2].rid = m.rid /\ out[2].op = m.op /\ out[2].v = v
    <2>1. Header(m, FALSE) \in StreamWord /\ FuseWord(w, m, v) \in StreamWord
      BY <1>1, <1>3 DEF Header, FuseWord, StreamWord
    <2>2. /\ FuseWord(w, m, v).w = w /\ FuseWord(w, m, v).rid = m.rid
          /\ FuseWord(w, m, v).op = m.op /\ FuseWord(w, m, v).v = v
      BY DEF FuseWord
    <2>3. out \in Seq(StreamWord) /\ Len(out) = 2 /\ out[1] = Header(m, FALSE) /\ out[2] = FuseWord(w, m, v)
      BY <1>3, <2>1, TwoWords
    <2>4. out[1].w = "head" /\ out[1].rid = m.rid /\ out[1].op = m.op /\ ~out[1].err
      BY <2>3 DEF Header
    <2> QED  BY <2>2, <2>3, <2>4
  <1>4. CASE m.op = "open"
    <2>1. o \in FuseOpOpen(m)
      BY <1>4
    <2>2. CASE o = [fds |-> clFds, out |-> <<Header(m, TRUE)>>]
      <3>1. o.fds = clFds /\ o.out = <<Header(m, TRUE)>> /\ TRUE \in BOOLEAN
        BY <2>2
      <3>2. /\ o.out \in Seq(StreamWord) /\ Len(o.out) = 1 /\ o.out[1].w = "head"
            /\ o.out[1].rid = m.rid /\ o.out[1].op = m.op /\ o.out[1].err = TRUE
        BY <1>2, <3>1
      <3>3. m.op # "release" /\ o.fds = clFds
        BY <1>4, <3>1
      <3> QED  BY <3>2, <3>3 DEF AnswerOf
    <2>3. ASSUME NEW f \in FuseOpened(m),
                 o = [fds |-> [clFds EXCEPT ![f] = m.ino], out |-> <<Header(m, FALSE), FuseWord("fh", m, f)>>]
          PROVE  AnswerOf(m, o, big)
      <3>1. f \in FuseFds /\ f \in Nat /\ clFds[f] = 0
        BY <1>1 DEF FuseOpened, FreeFds
      <3>2. o.fds = [clFds EXCEPT ![f] = m.ino] /\ o.out = <<Header(m, FALSE), FuseWord("fh", m, f)>>
        BY <2>3
      <3>3. /\ o.out \in Seq(StreamWord) /\ Len(o.out) = 2 /\ o.out[1].w = "head"
            /\ o.out[1].rid = m.rid /\ o.out[1].op = m.op /\ ~o.out[1].err
            /\ o.out[2].w = "fh" /\ o.out[2].rid = m.rid /\ o.out[2].op = m.op /\ o.out[2].v = f
        <4>1. "fh" \in {"fh", "data"} /\ f \in Nat /\ f \in FuseFds
          BY <3>1
        <4>2. \A out : out = <<Header(m, FALSE), FuseWord("fh", m, f)>> =>
                /\ out \in Seq(StreamWord) /\ Len(out) = 2 /\ out[1].w = "head"
                /\ out[1].rid = m.rid /\ out[1].op = m.op /\ ~out[1].err
                /\ out[2].w = "fh" /\ out[2].rid = m.rid /\ out[2].op = m.op /\ out[2].v = f
          BY <4>1, <1>3
        <4> QED  BY <3>2, <4>2
      <3> QED  BY <1>2, <1>4, <3>1, <3>2, <3>3 DEF AnswerOf, Payload
    <2> QED  BY <2>1, <2>2, <2>3 DEF FuseOpOpen
  <1>5. CASE m.op = "release"
    <2>1. o = [fds |-> [clFds EXCEPT ![m.fh] = 0], out |-> <<Header(m, clFds[m.fh] = 0)>>]
      BY <1>5 DEF FuseOpRelease
    <2>2. (clFds[m.fh] = 0) \in BOOLEAN
      OBVIOUS
    <2> DEFINE err == (clFds[m.fh] = 0)
    <2>3. err \in BOOLEAN /\ o.out = <<Header(m, err)>> /\ o.fds = [clFds EXCEPT ![m.fh] = 0]
      BY <2>1, <2>2
    <2> HIDE DEF err
    <2>4. /\ o.out \in Seq(StreamWord) /\ Len(o.out) = 1 /\ o.out[1].w = "head"
          /\ o.out[1].rid = m.rid /\ o.out[1].op = m.op
      BY <1>2, <2>3
    <2> QED  BY <1>5, <2>3, <2>4 DEF AnswerOf
  <1>6. CASE m.op = "read"
    <2>1. o \in FuseOpRead(m)
      BY <1>6
    <2>2. ASSUME NEW err \in BOOLEAN, o = [fds |-> clFds, out |-> <<Header(m, err)>>], err \/ big
          PROVE  AnswerOf(m, o, big)
      <3>1. o.fds = clFds /\ o.out = <<Header(m, err)>>
        BY <2>2
      <3>2. /\ o.out \in Seq(StreamWord) /\ Len(o.out) = 1 /\ o.out[1].w = "head"
            /\ o.out[1].rid = m.rid /\ o.out[1].op = m.op /\ o.out[1].err = err
        BY <1>2, <3>1
      <3> QED  BY <1>6, <2>2, <3>1, <3>2 DEF AnswerOf
    <2>3. CASE o = [fds |-> clFds, out |-> <<Header(m, FALSE), FuseWord("data", m, clFds[m.fh])>>]
      <3>1. clFds[m.fh] \in Nat
        BY <1>1, <1>6
      <3>2. o.fds = clFds /\ o.out = <<Header(m, FALSE), FuseWord("data", m, clFds[m.fh])>>
        BY <2>3
      <3>3. /\ o.out \in Seq(StreamWord) /\ Len(o.out) = 2 /\ o.out[1].w = "head"
            /\ o.out[1].rid = m.rid /\ o.out[1].op = m.op /\ ~o.out[1].err
            /\ o.out[2].w = "data" /\ o.out[2].rid = m.rid /\ o.out[2].op = m.op
        <4>1. "data" \in {"fh", "data"} /\ clFds[m.fh] \in Nat
          BY <3>1
        <4>2. \A out : out = <<Header(m, FALSE), FuseWord("data", m, clFds[m.fh])>> =>
                /\ out \in Seq(StreamWord) /\ Len(out) = 2 /\ out[1].w = "head"
                /\ out[1].rid = m.rid /\ out[1].op = m.op /\ ~out[1].err
                /\ out[2].w = "data" /\ out[2].rid = m.rid /\ out[2].op = m.op /\ out[2].v = clFds[m.fh]
          BY <4>1, <1>3
        <4> QED  BY <3>2, <4>2
      <3> QED  BY <1>2, <1>6, <3>2, <3>3 DEF AnswerOf, Payload
    <2> QED  BY <1>6, <2>1, <2>2, <2>3 DEF FuseOpRead
  <1> QED  BY <1>1, <1>4, <1>5, <1>6 DEF StreamOps

\* The client carries out the oldest command and sends its answer whole.
LEMMA PushStep ==
  ASSUME FuseInv, FusePushData
  PROVE  FuseInv'
  <1>1. /\ FuseTyped /\ SendLockFits /\ StreamFramed /\ DescriptorsOwned /\ HandlesHold /\ BeforeMount
        /\ fsRun = "run" /\ fsLink = "up" /\ fsWire # <<>>
    BY DEF FuseInv, FusePushData
  <1>2. /\ UNCHANGED <<fsRun, fsLink, fsMount, fsReq, fsLock, fsRecv, fsRid, knFds>>
        /\ fsWire' = Tail(fsWire)
    BY DEF FusePushData
  <1> DEFINE m == fsWire[1]
             L == Len(fsAnswers)
  <1>3. /\ Head(fsWire) = m /\ 1 \in 1..Len(fsWire) /\ m \in StreamCommand
        /\ fsWire' \in Seq(StreamCommand)
        /\ Len(fsWire') = Len(fsWire) - 1 /\ Len(fsWire) \in Nat
        /\ \A i \in 1..Len(fsWire') :
              i + 1 \in 1..Len(fsWire) /\ fsWire'[i] = fsWire[i + 1] /\ i + 1 # 1
    <2>1. /\ Len(fsWire) \in Nat \ {0} /\ Head(fsWire) = fsWire[1]
          /\ Tail(fsWire) \in Seq(StreamCommand) /\ Len(Tail(fsWire)) = Len(fsWire) - 1
          /\ \A i \in 1..Len(Tail(fsWire)) : Tail(fsWire)[i] = fsWire[i + 1]
      BY <1>1, EmptySeq, HeadTailProperties DEF FuseTyped
    <2> QED  BY <1>1, <1>2, <2>1, StreamShape
  <1>4. /\ m.rid \in FuseReqs /\ fsReq[m.rid].st = "sent" /\ fsReq[m.rid].op = m.op
        /\ fsReq[m.rid].ino = m.ino /\ fsReq[m.rid].fh = m.fh /\ m.ino \in Nat \ {0}
        /\ m.op \in {"read", "release"} => m.fh \in FuseFds
        /\ OnWire(m.rid)
    <2>1. m.rid \in FuseReqs /\ fsReq[m.rid].st = "sent" /\ fsReq[m.rid].op = m.op
          /\ fsReq[m.rid].ino = m.ino /\ fsReq[m.rid].fh = m.fh
      BY <1>1, <1>3 DEF StreamFramed, CommandsSent, StreamCommand
    <2>2. IsRequest(fsReq[m.rid])
      BY <1>1, <2>1 DEF FuseTyped
    <2> QED  BY <1>3, <2>1, <2>2 DEF IsRequest, Outstanding, OnWire
  <1>5. PICK o \in CASE m.op = "open" -> FuseOpOpen(m)
                     [] m.op = "release" -> FuseOpRelease(m)
                     [] m.op = "read" -> FuseOpRead(m) :
            clFds' = o.fds /\ fsAnswers' = fsAnswers \o o.out
    BY <1>3 DEF FusePushData
  <1>6. fsBig' \in BOOLEAN /\ (fsBig => fsBig') /\ (m.op = "read" /\ SeekFails(m.off) => fsBig')
    BY <1>1, <1>3 DEF FusePushData, FuseTyped
  <1>7. AnswerOf(m, o, fsBig')
    BY <1>1, <1>3, <1>4, <1>6, ClientAnswers
  <1> DEFINE out == o.out
  <1>8. /\ L \in Nat /\ fsAnswers' \in Seq(StreamWord) /\ Len(fsAnswers') = L + Len(out)
        /\ \A i \in 1..L : fsAnswers'[i] = fsAnswers[i] /\ fsAnswers[i] \in StreamWord
                           /\ i \in 1..Len(fsAnswers')
        /\ fsAnswers'[L + 1] = out[1] /\ L + 1 \in 1..Len(fsAnswers')
        /\ Len(out) = 2 => fsAnswers'[L + 2] = out[2] /\ L + 2 \in 1..Len(fsAnswers')
        /\ \A i \in 1..Len(fsAnswers') : i \in 1..L \/ i = L + 1 \/ (i = L + 2 /\ Len(out) = 2)
    <2>1. out \in Seq(StreamWord) /\ Len(out) \in {1, 2} /\ fsAnswers \in Seq(StreamWord) /\ L \in Nat
      BY <1>1, <1>7, StreamShape DEF AnswerOf, FuseTyped
    <2>2. /\ fsAnswers' \in Seq(StreamWord) /\ Len(fsAnswers') = L + Len(out)
          /\ \A i \in 1..(L + Len(out)) :
                fsAnswers'[i] = IF i <= L THEN fsAnswers[i] ELSE out[i - L]
      BY <1>5, <2>1, ConcatProperties
    <2> HIDE DEF out, L
    <2> DEFINE k == Len(out)
    <2>3. k \in {1, 2} /\ L \in Nat
      BY <2>1
    <2> HIDE DEF k
    <2>4. /\ L + 1 \in 1..(L + k) /\ ~(L + 1 <= L) /\ (L + 1) - L = 1
          /\ k = 2 => L + 2 \in 1..(L + k) /\ ~(L + 2 <= L) /\ (L + 2) - L = 2
      BY <2>3
    <2>5. \A i \in 1..L : i \in 1..(L + k) /\ i <= L
      BY <2>3
    <2>6. \A i \in 1..(L + k) : i \in 1..L \/ i = L + 1 \/ (i = L + 2 /\ k = 2)
      BY <2>3
    <2>7. \A i \in 1..L : fsAnswers[i] \in StreamWord
      BY <1>1, StreamShape DEF L
    <2> QED  BY <2>1, <2>2, <2>4, <2>5, <2>6, <2>7 DEF k
  <1>9. /\ out[1].w = "head" /\ out[1].rid = m.rid /\ out[1].op = m.op
        /\ Len(out) = 2 => /\ out[2].w = Payload(m.op) /\ out[2].rid = m.rid /\ out[2].op = m.op
                           /\ ~out[1].err /\ m.op # "release"
        /\ Len(out) \in {1, 2}
        /\ Len(out) = 1 /\ ~out[1].err /\ m.op # "release" => fsBig' /\ m.op = "read"
    BY <1>7 DEF AnswerOf
  <1>10. /\ clFds' \in [FuseFds -> Nat]
         /\ \/ clFds' = clFds /\ m.op # "release" /\ (Len(out) = 2 => m.op = "read")
            \/ /\ m.op = "open" /\ Len(out) = 2 /\ out[2].v \in FuseFds
               /\ clFds[out[2].v] = 0 /\ clFds' = [clFds EXCEPT ![out[2].v] = m.ino]
            \/ /\ m.op = "release" /\ Len(out) = 1
               /\ clFds' = [clFds EXCEPT ![m.fh] = 0]
    <2>1. clFds \in [FuseFds -> Nat]
      BY <1>1 DEF FuseTyped
    <2>2. \/ clFds' = clFds /\ m.op # "release" /\ (Len(out) = 2 => m.op = "read")
          \/ /\ m.op = "open" /\ Len(out) = 2 /\ out[2].v \in FuseFds
             /\ clFds[out[2].v] = 0 /\ clFds' = [clFds EXCEPT ![out[2].v] = m.ino]
          \/ /\ m.op = "release" /\ Len(out) = 1
             /\ clFds' = [clFds EXCEPT ![m.fh] = 0]
      BY <1>5, <1>7 DEF AnswerOf
    <2>3. clFds' \in [FuseFds -> Nat]
      <3> HIDE DEF m, out
      <3> QED  BY <1>4, <2>1, <2>2
    <2> QED  BY <2>2, <2>3
  <1>11. \A s : OnWire(s)' => OnWire(s) /\ s # m.rid
    <2> SUFFICES ASSUME NEW i \in 1..Len(fsWire')
                 PROVE  OnWire(fsWire'[i].rid) /\ fsWire'[i].rid # m.rid
      BY DEF OnWire
    <2>1. fsWire[i + 1].rid # fsWire[1].rid
      BY <1>1, <1>3 DEF StreamFramed, CommandsSent
    <2> QED  BY <1>3, <2>1 DEF OnWire
  <1>12. \A i \in 1..L : fsAnswers[i].rid # m.rid
    BY <1>1, <1>4 DEF StreamFramed, WordsSent
  <1> HIDE DEF out, L, m
  <1>13. FuseTyped'
    BY <1>1, <1>2, <1>3, <1>6, <1>8, <1>10 DEF FuseTyped
  <1>14. SendLockFits'
    BY <1>1, <1>2 DEF SendLockFits, LockHolders, LockWaiters
  <1>15. CommandsSent'
    <2>1. CommandsSent
      BY <1>1 DEF StreamFramed
    <2>2. ASSUME NEW i \in 1..Len(fsWire')
          PROVE  /\ fsReq[fsWire'[i].rid].st = "sent" /\ fsReq[fsWire'[i].rid].op = fsWire'[i].op
                 /\ fsReq[fsWire'[i].rid].ino = fsWire'[i].ino /\ fsReq[fsWire'[i].rid].fh = fsWire'[i].fh
      BY <2>1, <1>3 DEF CommandsSent
    <2>3. ASSUME NEW i \in 1..Len(fsWire'), NEW j \in 1..Len(fsWire'), fsWire'[j].rid = fsWire'[i].rid
          PROVE  i = j
      <3>1. i + 1 = j + 1
        BY <2>1, <2>3, <1>3 DEF CommandsSent
      <3> QED  BY <3>1
    <2> QED  BY <2>2, <2>3, <1>2 DEF CommandsSent
  <1>16. WordsSent'
    <2>1. WordsSent
      BY <1>1 DEF StreamFramed
    <2>2. ASSUME NEW i \in 1..Len(fsAnswers')
          PROVE  /\ fsReq[fsAnswers'[i].rid].st = "sent" /\ fsReq[fsAnswers'[i].rid].op = fsAnswers'[i].op
                 /\ ~\E j \in 1..Len(fsWire') : fsWire'[j].rid = fsAnswers'[i].rid
      <3>1. CASE i \in 1..L
        <4>1. fsReq[fsAnswers[i].rid].st = "sent" /\ fsReq[fsAnswers[i].rid].op = fsAnswers[i].op
              /\ ~OnWire(fsAnswers[i].rid)
          BY <2>1, <3>1 DEF WordsSent, L
        <4>2. fsAnswers'[i] = fsAnswers[i]
          BY <3>1, <1>8
        <4>3. ASSUME NEW s, ~OnWire(s)
              PROVE  ~\E j \in 1..Len(fsWire') : fsWire'[j].rid = s
          BY <4>3, <1>11 DEF OnWire
        <4>4. ~\E j \in 1..Len(fsWire') : fsWire'[j].rid = fsAnswers[i].rid
          BY <4>1, <4>3
        <4> QED  BY <4>1, <4>2, <4>4
      <3>2. CASE i = L + 1 \/ (i = L + 2 /\ Len(out) = 2)
        <4>1. fsAnswers'[i].rid = m.rid /\ fsAnswers'[i].op = m.op
          BY <3>2, <1>8, <1>9
        <4> QED  BY <4>1, <1>4, <1>11 DEF OnWire
      <3> QED  BY <3>1, <3>2, <1>8
    <2>3. ASSUME NEW i \in 1..Len(fsAnswers'), NEW j \in 1..Len(fsAnswers'), fsAnswers'[i].w = "head",
                 fsAnswers'[j].w = "head", fsAnswers'[j].rid = fsAnswers'[i].rid
          PROVE  i = j
      <3>1. Len(out) = 2 => fsAnswers'[L + 2].w # "head"
        BY <1>8, <1>9 DEF Payload
      <3>2. (i \in 1..L \/ i = L + 1) /\ (j \in 1..L \/ j = L + 1)
        BY <2>3, <3>1, <1>8
      <3>3. CASE i \in 1..L /\ j \in 1..L
        BY <3>3, <2>1, <2>3, <1>8 DEF WordsSent, L
      <3>4. ~(i \in 1..L /\ j = L + 1) /\ ~(j \in 1..L /\ i = L + 1)
        BY <2>3, <1>8, <1>9, <1>12
      <3> QED  BY <3>2, <3>3, <3>4
    <2> QED  BY <2>2, <2>3, <1>2 DEF WordsSent, OnWire
  <1>17. HeaderTaken'
    <2> SUFFICES ASSUME fsRecv \in {"fh", "data"}
                 PROVE  /\ fsRid \in FuseReqs /\ fsReq[fsRid].st = "sent"
                        /\ ~\E j \in 1..Len(fsWire') : fsWire'[j].rid = fsRid
                        /\ fsReq[fsRid].op = IF fsRecv = "fh" THEN "open" ELSE "read"
                        /\ \A i \in 1..Len(fsAnswers') : fsAnswers'[i].w = "head" => fsAnswers'[i].rid # fsRid
      BY <1>2 DEF HeaderTaken, OnWire
    <2>1. /\ fsRid \in FuseReqs /\ fsReq[fsRid].st = "sent" /\ ~OnWire(fsRid)
          /\ fsReq[fsRid].op = IF fsRecv = "fh" THEN "open" ELSE "read"
          /\ \A i \in 1..L : fsAnswers[i].w = "head" => fsAnswers[i].rid # fsRid
      BY <1>1 DEF StreamFramed, HeaderTaken, L
    <2>2. fsRid # m.rid
      BY <2>1, <1>4
    <2>3. ASSUME NEW i \in 1..Len(fsAnswers'), fsAnswers'[i].w = "head"
          PROVE  fsAnswers'[i].rid # fsRid
      <3>1. CASE i \in 1..L
        BY <3>1, <2>1, <2>3, <1>8
      <3>2. CASE i = L + 1 \/ (i = L + 2 /\ Len(out) = 2)
        BY <3>2, <2>2, <1>8, <1>9
      <3> QED  BY <3>1, <3>2, <1>8
    <2> QED  BY <2>1, <2>3, <1>11 DEF OnWire
  <1>18. PayloadLed'
    <2>1. ASSUME NEW i \in 1..Len(fsAnswers'), fsAnswers'[i].w # "head"
          PROVE  \/ /\ i - 1 \in 1..Len(fsAnswers')
                    /\ fsAnswers'[i - 1].w = "head" /\ ~fsAnswers'[i - 1].err
                    /\ fsAnswers'[i - 1].rid = fsAnswers'[i].rid
                    /\ fsAnswers'[i - 1].op # "release" /\ fsAnswers'[i].w = Payload(fsAnswers'[i - 1].op)
                 \/ i = 1 /\ fsRecv = fsAnswers'[i].w /\ fsRid = fsAnswers'[i].rid
      <3>1. CASE i \in 1..L
        <4>1. \/ /\ i - 1 \in 1..L /\ fsAnswers[i - 1].w = "head" /\ ~fsAnswers[i - 1].err
                 /\ fsAnswers[i - 1].rid = fsAnswers[i].rid
                 /\ fsAnswers[i - 1].op # "release" /\ fsAnswers[i].w = Payload(fsAnswers[i - 1].op)
              \/ i = 1 /\ fsRecv = fsAnswers[i].w /\ fsRid = fsAnswers[i].rid
          BY <1>1, <2>1, <3>1, <1>8 DEF StreamFramed, PayloadLed, L
        <4> QED  BY <4>1, <3>1, <1>8
      <3>2. CASE i = L + 1
        BY <3>2, <2>1, <1>8, <1>9
      <3>3. CASE i = L + 2 /\ Len(out) = 2
        <4>1. i - 1 = L + 1
          BY <3>3, <1>8
        <4> QED  BY <4>1, <3>3, <1>8, <1>9
      <3> QED  BY <3>1, <3>2, <3>3, <1>8
    <2> QED  BY <2>1, <1>2 DEF PayloadLed
  <1>19. HeaderFollowed'
    <2>1. ASSUME NEW i \in 1..Len(fsAnswers'), fsAnswers'[i].w = "head", ~fsAnswers'[i].err,
                 fsAnswers'[i].op # "release"
          PROVE  \/ fsBig' /\ fsAnswers'[i].op = "read"
                 \/ i + 1 \in 1..Len(fsAnswers') /\ fsAnswers'[i + 1].w = Payload(fsAnswers'[i].op)
      <3>1. CASE i \in 1..L
        <4>1. \/ fsBig /\ fsAnswers[i].op = "read"
              \/ i + 1 \in 1..L /\ fsAnswers[i + 1].w = Payload(fsAnswers[i].op)
          BY <1>1, <2>1, <3>1, <1>8 DEF StreamFramed, HeaderFollowed, L
        <4> QED  BY <4>1, <3>1, <1>6, <1>8
      <3>2. CASE i = L + 1
        <4>1. (L + 1) + 1 = L + 2
          BY <1>8
        <4> QED  BY <4>1, <3>2, <2>1, <1>8, <1>9
      <3>3. CASE i = L + 2 /\ Len(out) = 2
        BY <3>3, <2>1, <1>8, <1>9 DEF Payload
      <3> QED  BY <3>1, <3>2, <3>3, <1>8
    <2> QED  BY <2>1 DEF HeaderFollowed
  <1>20. PayloadThere'
    <2>1. PayloadThere
      BY <1>1 DEF StreamFramed
    <2> QED  BY <2>1, <1>2, <1>6, <1>8 DEF PayloadThere, L
  <1>21. HandlesOpen /\ OpenedKept /\ ReleasesOwn
    BY <1>1 DEF DescriptorsOwned
  <1>22. clFds \in [FuseFds -> Nat] /\ knFds \subseteq FuseFds \X (Nat \ {0})
    BY <1>1 DEF FuseTyped
  <1>23. m.op = "release" => Releasing(m.rid)
    BY <1>4 DEF Releasing
  <1>24. \A i \in 1..L : fsAnswers[i].w = "fh" =>
            /\ fsAnswers[i].v \in FuseFds /\ clFds[fsAnswers[i].v] = fsReq[fsAnswers[i].rid].ino
            /\ clFds[fsAnswers[i].v] # 0 /\ \A h \in knFds : h[1] # fsAnswers[i].v
    <2> TAKE i \in 1..L
    <2> HAVE fsAnswers[i].w = "fh"
    <2>1. fsReq[fsAnswers[i].rid].st = "sent" /\ fsAnswers[i].rid \in FuseReqs
          /\ fsReq[fsAnswers[i].rid].op = fsAnswers[i].op
      BY <1>1, <1>8 DEF StreamFramed, WordsSent, L, StreamWord
    <2>2. fsReq[fsAnswers[i].rid].ino # 0
      BY <1>1, <2>1 DEF FuseTyped, IsRequest, Outstanding
    <2> QED  BY <1>21, <2>2 DEF OpenedKept, L
  <1>25. HandlesOpen'
    <2> SUFFICES ASSUME NEW h \in knFds
                 PROVE  clFds'[h[1]] = h[2]
      BY <1>2 DEF HandlesOpen
    <2>1. clFds[h[1]] = h[2] /\ h[1] \in FuseFds /\ h[2] # 0
      BY <1>21, <1>22 DEF HandlesOpen
    <2>2. m.op = "release" => h[1] # m.fh
      BY <1>4, <1>21, <1>23 DEF ReleasesOwn
    <2> QED  BY <2>1, <2>2, <1>10, <1>22
  <1>26. OpenedKept'
    <2>1. ASSUME NEW i \in 1..Len(fsAnswers'), fsAnswers'[i].w = "fh"
          PROVE  /\ fsAnswers'[i].v \in FuseFds
                 /\ clFds'[fsAnswers'[i].v] = fsReq[fsAnswers'[i].rid].ino
                 /\ \A x \in knFds : x[1] # fsAnswers'[i].v
      <3>1. CASE i \in 1..L
        <4>1. m.op = "release" => fsAnswers[i].v # m.fh
          <5>1. fsAnswers[i].w = "fh" /\ i \in 1..Len(fsAnswers)
            BY <3>1, <2>1, <1>8 DEF L
          <5> QED  BY <5>1, <1>4, <1>21, <1>23 DEF ReleasesOwn
        <4>2. fsAnswers'[i] = fsAnswers[i] /\ fsAnswers[i].w = "fh"
          BY <3>1, <2>1, <1>8
        <4>3. /\ fsAnswers[i].v \in FuseFds /\ clFds[fsAnswers[i].v] = fsReq[fsAnswers[i].rid].ino
              /\ clFds[fsAnswers[i].v] # 0 /\ \A h \in knFds : h[1] # fsAnswers[i].v
          BY <3>1, <4>2, <1>24
        <4>4. clFds'[fsAnswers[i].v] = clFds[fsAnswers[i].v]
          BY <4>1, <4>3, <1>10, <1>22
        <4> QED  BY <4>2, <4>3, <4>4
      <3>2. CASE i = L + 1
        BY <3>2, <2>1, <1>8, <1>9
      <3>3. CASE i = L + 2 /\ Len(out) = 2
        <4>1. out[2].w = "fh" /\ fsAnswers'[i] = out[2]
          BY <3>3, <2>1, <1>8
        <4>2. m.op # "read"
          BY <3>3, <4>1, <1>9 DEF Payload
        <4>3. out[2].v \in FuseFds /\ clFds[out[2].v] = 0 /\ clFds' = [clFds EXCEPT ![out[2].v] = m.ino]
          BY <3>3, <4>2, <1>9, <1>10
        <4>4. clFds'[out[2].v] = m.ino
          BY <4>3, <1>22
        <4>5. \A x \in knFds : x[1] # out[2].v
          BY <4>3, <1>21, <1>22 DEF HandlesOpen
        <4> QED  BY <3>3, <4>1, <4>3, <4>4, <4>5, <1>4, <1>9
      <3> QED  BY <3>1, <3>2, <3>3, <1>8
    <2>2. ASSUME NEW i \in 1..Len(fsAnswers'), NEW j \in 1..Len(fsAnswers'), fsAnswers'[i].w = "fh",
                 fsAnswers'[j].w = "fh", fsAnswers'[j].v = fsAnswers'[i].v
          PROVE  i = j
      <3>1. (i \in 1..L \/ (i = L + 2 /\ Len(out) = 2)) /\ (j \in 1..L \/ (j = L + 2 /\ Len(out) = 2))
        BY <2>2, <1>8, <1>9
      <3>2. Len(out) = 2 /\ fsAnswers'[L + 2].w = "fh" =>
                clFds[fsAnswers'[L + 2].v] = 0
        BY <1>8, <1>9, <1>10 DEF Payload
      <3>3. CASE i \in 1..L /\ j \in 1..L
        BY <3>3, <2>2, <1>8, <1>21 DEF OpenedKept, L
      <3>4. ~(i \in 1..L /\ j = L + 2 /\ Len(out) = 2) /\ ~(j \in 1..L /\ i = L + 2 /\ Len(out) = 2)
        BY <2>2, <3>2, <1>8, <1>24
      <3> QED  BY <3>1, <3>3, <3>4
    <2> QED  BY <2>1, <2>2, <1>2 DEF OpenedKept
  <1>27. ASSUME NEW s \in FuseReqs, Releasing(s)'
         PROVE  Releasing(s) /\ s # m.rid
    BY <1>2, <1>4, <1>11, <1>27 DEF Releasing
  <1>28. ReleasesOwn'
    <2>1. ASSUME NEW s \in FuseReqs, Releasing(s)'
          PROVE  /\ clFds'[fsReq[s].fh] # 0
                 /\ \A x \in knFds : x[1] # fsReq[s].fh
                 /\ \A i \in 1..Len(fsAnswers') : fsAnswers'[i].w = "fh" => fsAnswers'[i].v # fsReq[s].fh
      <3>1. Releasing(s) /\ s # m.rid
        BY <2>1, <1>27
      <3>2. /\ clFds[fsReq[s].fh] # 0 /\ \A x \in knFds : x[1] # fsReq[s].fh
            /\ \A i \in 1..L : fsAnswers[i].w = "fh" => fsAnswers[i].v # fsReq[s].fh
        BY <3>1, <1>21 DEF ReleasesOwn, L
      <3>3. fsReq[s].fh \in FuseFds
        <4>1. IsRequest(fsReq[s]) /\ fsReq[s].op = "release"
          BY <1>1, <3>1 DEF FuseTyped, Releasing
        <4>2. fsReq[s].st \in Outstanding
          <5>1. OnWire(s) => fsReq[s].st = "sent"
            BY <1>1 DEF StreamFramed, CommandsSent, OnWire
          <5> QED  BY <5>1, <3>1 DEF Releasing, Outstanding
        <4> QED  BY <4>1, <4>2 DEF IsRequest
      <3>4. m.op = "release" => fsReq[s].fh # m.fh
        BY <1>4, <1>21, <1>23, <3>1 DEF ReleasesOwn
      <3>5. clFds'[fsReq[s].fh] # 0
        BY <3>2, <3>3, <3>4, <1>4, <1>10, <1>22
      <3>6. ASSUME NEW i \in 1..Len(fsAnswers'), fsAnswers'[i].w = "fh"
            PROVE  fsAnswers'[i].v # fsReq[s].fh
        <4>1. CASE i \in 1..L
          BY <4>1, <3>2, <3>6, <1>8
        <4>2. CASE i = L + 1
          BY <4>2, <3>6, <1>8, <1>9
        <4>3. CASE i = L + 2 /\ Len(out) = 2
          <5>1. clFds[fsAnswers'[i].v] = 0
            BY <4>3, <3>6, <1>8, <1>9, <1>10 DEF Payload
          <5> QED  BY <5>1, <3>2
        <4> QED  BY <4>1, <4>2, <4>3, <1>8
      <3> QED  BY <3>2, <3>5, <3>6
    <2>2. ASSUME NEW s \in FuseReqs, NEW t \in FuseReqs, Releasing(s)', Releasing(t)',
                 fsReq[t].fh = fsReq[s].fh
          PROVE  s = t
      BY <2>2, <1>21, <1>27 DEF ReleasesOwn
    <2> QED  BY <2>1, <2>2, <1>2 DEF ReleasesOwn
  <1>29. DescriptorsOwned' /\ HandlesHold' /\ BeforeMount'
    BY <1>1, <1>2, <1>25, <1>26, <1>28 DEF DescriptorsOwned, HandlesHold, BeforeMount
  <1> QED
    BY <1>1, <1>2, <1>13, <1>14, <1>15, <1>16, <1>17, <1>18, <1>19, <1>20, <1>29
       DEF FuseInv, StreamFramed
-----------------------------------------------------------------------------
(***************************************************************************)
(* The other steps, and the theorems.                                      *)
(***************************************************************************)
\* A step of the kernel or the mount that leaves the lock and its places, the
\* stream and the descriptors alone.
LEMMA QuietStep ==
  ASSUME FuseInv, fsRun = "run", fsRun' = "run",
         FuseTyped', SendLockFits', BeforeMount', SentKept, ReleasesKept, HeaderKept,
         UNCHANGED <<fsWire, fsAnswers, fsBig, clFds>>,
         knFds' \subseteq knFds, fsLink' = "up" => fsLink = "up"
  PROVE  FuseInv'
  <1>1. FuseTyped /\ StreamFramed /\ DescriptorsOwned
    BY DEF FuseInv
  <1>2. StreamFramed'
    BY <1>1, StreamKept
  <1>3. DescriptorsOwned'
    BY <1>1, DescriptorsKept
  <1>4. HandlesHold'
    BY <1>3 DEF DescriptorsOwned, HandlesHold
  <1> QED  BY <1>2, <1>3, <1>4 DEF FuseInv

\* The mount: the session starts over an empty stream.
LEMMA MountSteps ==
  ASSUME FuseInv, MountPoint \/ FuseRetryConnect \/ FuseRemoteHandshake
  PROVE  FuseInv'
  <1>1. /\ FuseTyped /\ SendLockFits /\ BeforeMount /\ fsRun = "run" /\ fsRun' = "run"
        /\ fsLink \in {"none", "opened"}
        /\ UNCHANGED <<fsReq, fsLock, fsRid, FuseStream, knFds>>
    BY DEF FuseInv, MountPoint, FuseRetryConnect, FuseRemoteHandshake
  <1>2. /\ fsMount = "none" /\ fsRecv = "off" /\ fsWire = <<>> /\ fsAnswers = <<>>
        /\ knFds = {} /\ \A r \in FuseReqs : fsReq[r].st = "free"
    BY <1>1 DEF BeforeMount
  <1>3. \/ fsLink' \in {"none", "opened"} /\ fsMount' = fsMount /\ fsRecv' = fsRecv
        \/ fsLink' = "up" /\ fsMount' = "mounted" /\ fsRecv' = "wait"
    BY DEF MountPoint, FuseRetryConnect, FuseRemoteHandshake, StartSession
  <1>4. FuseTyped'
    BY <1>1, <1>3 DEF FuseTyped, FuseStream
  <1>5. SendLockFits'
    <2>1. LockHolders' = LockHolders /\ LockWaiters' = LockWaiters
      BY <1>1, <1>2, <1>3 DEF LockHolders, LockWaiters
    <2> QED  BY <1>1, <2>1 DEF SendLockFits
  <1>6. BeforeMount'
    BY <1>1, <1>2, <1>3 DEF BeforeMount, FuseStream
  <1>7. Len(fsWire) = 0 /\ Len(fsAnswers) = 0
    BY <1>2
  <1>8. StreamFramed'
    <2>1. SentKept /\ HeaderKept
      BY <1>1, <1>2, <1>3 DEF SentKept, HeaderKept
    <2> QED  BY <1>1, <2>1, StreamKept DEF FuseInv, FuseStream
  <1>9. DescriptorsOwned' /\ HandlesHold'
    <2>1. \A r \in FuseReqs : ~Releasing(r)'
      BY <1>1, <1>2, <1>7 DEF Releasing, OnWire, FuseStream
    <2> QED  BY <1>1, <1>2, <1>7, <2>1
             DEF DescriptorsOwned, HandlesHold, HandlesOpen, OpenedKept, ReleasesOwn, FuseStream
  <1> QED  BY <1>1, <1>4, <1>5, <1>6, <1>8, <1>9 DEF FuseInv

\* The client leaves: what it had opened is closed, and what it has sent can
\* still be read.
LEMMA LeaveStep ==
  ASSUME FuseInv, FuseClientLeaves
  PROVE  FuseInv'
  <1>1. /\ FuseTyped /\ SendLockFits /\ StreamFramed /\ fsRun = "run"
        /\ fsLink = "up" /\ fsLink' = "eof" /\ fsWire' = <<>> /\ clFds' = [f \in FuseFds |-> 0]
        /\ UNCHANGED <<fsRun, fsMount, fsReq, fsLock, fsRecv, fsRid, fsAnswers, fsBig, knFds>>
    BY DEF FuseInv, FuseClientLeaves
  <1>2. FuseTyped'
    <2>1. <<>> \in Seq(StreamCommand)
      BY EmptySeq
    <2> QED  BY <1>1, <2>1 DEF FuseTyped
  <1>3. SendLockFits'
    BY <1>1 DEF SendLockFits, LockHolders, LockWaiters
  <1>4. ~\E i \in 1..Len(fsWire') : TRUE
    BY <1>1
  <1>5. StreamFramed'
    BY <1>1, <1>4 DEF StreamFramed, CommandsSent, WordsSent, HeaderTaken, OnWire, PayloadLed,
                      HeaderFollowed, PayloadThere, Payload
  <1>6. BeforeMount' /\ DescriptorsOwned' /\ HandlesHold'
    BY <1>1 DEF BeforeMount, DescriptorsOwned, HandlesHold
  <1> QED  BY <1>1, <1>2, <1>3, <1>5, <1>6 DEF FuseInv

\* The point is unmounted by someone else: the kernel's handles are gone.
LEMMA UnmountStep ==
  ASSUME FuseInv, FuseUnmounted
  PROVE  FuseInv'
  <1>1. /\ FuseTyped /\ SendLockFits /\ BeforeMount /\ fsRun = "run" /\ fsMount = "mounted"
        /\ fsMount' = "gone" /\ knFds' = {}
        /\ UNCHANGED <<fsRun, fsLink, fsReq, fsLock, fsRecv, fsRid, fsWire, fsAnswers, fsBig, clFds>>
    BY DEF FuseInv, FuseUnmounted, FuseStream
  <1>2. FuseTyped' /\ SendLockFits' /\ BeforeMount'
    BY <1>1 DEF FuseTyped, SendLockFits, LockHolders, LockWaiters, BeforeMount
  <1>3. SentKept /\ ReleasesKept /\ HeaderKept
    BY <1>1 DEF SentKept, ReleasesKept, HeaderKept
  <1> QED  BY <1>1, <1>2, <1>3, QuietStep

\* Nothing is left of a session that is stopped.
LEMMA StopStep ==
  ASSUME StopSession
  PROVE  FuseInv'
  <1>1. /\ fsRun' \in {"blocked", "stopped"} /\ fsLink' = "none" /\ fsMount' = "none"
        /\ fsReq' = [r \in FuseReqs |-> FuseIdle] /\ fsLock' = MutexFree /\ fsRecv' = "off"
        /\ fsWire' = <<>> /\ fsAnswers' = <<>> /\ fsBig' = FALSE
        /\ clFds' = [f \in FuseFds |-> 0] /\ knFds' = {}
    BY DEF StopSession
  <1>2. FuseTyped'
    <2>1. <<>> \in Seq(StreamCommand) /\ <<>> \in Seq(StreamWord)
      BY EmptySeq
    <2>2. IsRequest(FuseIdle)
      BY DEF IsRequest, FuseIdle, Outstanding
    <2>3. \A r \in FuseReqs : IsRequest(fsReq'[r])
      BY <1>1, <2>2
    <2> QED  BY <1>1, <2>1, <2>3 DEF FuseTyped
  <1>3. SendLockFits'
    <2>1. LockHolders' = {} /\ LockWaiters' = {}
      BY <1>1 DEF LockHolders, LockWaiters, FuseIdle
    <2> QED  BY <1>1, <2>1, MutexFreeFits DEF SendLockFits
  <1> QED  BY <1>1, <1>2, <1>3 DEF FuseInv, HandlesHold

\* A request that comes, and one that is taken back answered.
LEMMA KernelStep ==
  ASSUME FuseInv, TablesServed, NEW r \in FuseReqs,
         CbTables(r) \/ CbOpen(r) \/ CbRelease(r) \/ CbRead(r) \/ KernelTakes(r)
  PROVE  FuseInv'
  <1>1. FuseTyped /\ SendLockFits /\ BeforeMount /\ fsRun = "run"
    BY DEF FuseInv, CbTables, CbOpen, CbRelease, CbRead, KernelTakes, KernelAsks
  <1>2. DOMAIN fsReq = FuseReqs /\ \A s \in FuseReqs : IsRequest(fsReq[s])
    BY <1>1 DEF FuseTyped
  <1>3. /\ UNCHANGED <<fsRun, fsLink, fsMount, fsRecv, fsRid, fsWire, fsAnswers, fsBig, clFds>>
        /\ fsReq[r].st \in {"free", "replied"}
    BY DEF CbTables, CbOpen, CbRelease, CbRead, KernelTakes, KernelAsks, FuseStream
  <1>4. fsMount # "mounted" => KernelTakes(r)
    BY DEF CbTables, CbOpen, CbRelease, CbRead, KernelAsks
  <1>5. fsLink \in {"none", "opened"} => FALSE
    BY <1>1, <1>4 DEF BeforeMount, KernelTakes
  <1>6. HeaderKept /\ BeforeMount'
    BY <1>3, <1>5 DEF HeaderKept, BeforeMount
  <1>7. CASE \/ CbTables(r) \/ KernelTakes(r)
    <2>1. fsLock' = fsLock /\ knFds' = knFds
      BY <1>7 DEF CbTables, KernelTakes
    <2>2. /\ DOMAIN fsReq' = FuseReqs /\ \A s \in FuseReqs \ {r} : fsReq'[s] = fsReq[s]
          /\ fsReq'[r].st \in {"free", "replied"} /\ IsRequest(fsReq'[r])
      <3>1. CASE KernelTakes(r)
        BY <1>2, <3>1 DEF KernelTakes, FuseIdle, IsRequest, Outstanding
      <3>2. CASE CbTables(r)
        <4>1. PICK i \in DOMAIN fsInodes \union {0}, op \in TableOps,
                   name \in {Last(p) : p \in DOMAIN fsPathes \ {<<>>}} :
                fsReq' = [fsReq EXCEPT ![r] = Replied([FuseIdle EXCEPT !.op = op, !.ino = i],
                    CASE op = "lookup" -> ReplyLookup(i, name)
                      [] op = "getattr" -> ReplyGetAttr(i)
                      [] op = "readlink" -> ReplyReadLink(i)
                      [] op = "access" -> ReplyAccess(i, "r")
                      [] op = "readdir" -> ReplyReadDir(i))]
          BY <3>2 DEF CbTables
        <4> DEFINE res == CASE op = "lookup" -> ReplyLookup(i, name)
                            [] op = "getattr" -> ReplyGetAttr(i)
                            [] op = "readlink" -> ReplyReadLink(i)
                            [] op = "access" -> ReplyAccess(i, "r")
                            [] op = "readdir" -> ReplyReadDir(i)
        <4>2. fsReq' = [fsReq EXCEPT ![r] = Replied([FuseIdle EXCEPT !.op = op, !.ino = i], res)]
          BY <4>1
        <4> HIDE DEF res
        <4>3. i \in Nat
          BY InodesNumbered
        <4> QED  BY <1>2, <4>2, <4>3 DEF Replied, FuseIdle, IsRequest, Outstanding
      <3> QED  BY <1>7, <3>1, <3>2
    <2>3. FuseTyped'
      BY <1>1, <1>2, <1>3, <2>1, <2>2 DEF FuseTyped
    <2>4. SendLockFits'
      <3>1. LockHolders' = LockHolders /\ LockWaiters' = LockWaiters
        BY <1>3, <2>2 DEF LockHolders, LockWaiters
      <3> QED  BY <1>1, <2>1, <3>1 DEF SendLockFits
    <2>5. SentKept /\ ReleasesKept
      BY <1>3, <2>2 DEF SentKept, ReleasesKept
    <2> QED  BY <1>1, <1>3, <1>6, <2>1, <2>3, <2>4, <2>5, QuietStep
  <1>8. ASSUME NEW q, IsRequest(q), q.op \in StreamOps, q.op \in {"read", "release"} => q.fh \in FuseFds,
               fsReq[r].st = "free", FuseQueue(r, q)
        PROVE  /\ DOMAIN fsReq' = FuseReqs
               /\ \A s \in FuseReqs \ {r} : fsReq'[s] = fsReq[s]
               /\ IsRequest(fsReq'[r]) /\ fsReq'[r].st \in {"lock", "sending", "replied"}
               /\ fsReq'[r].op = q.op /\ fsReq'[r].fh = q.fh
               /\ SendLockFits'
    BY <1>1, <1>3, <1>8, QueueEffects
  <1>9. CASE CbOpen(r)
    <2>1. PICK i \in DOMAIN fsInodes \union {0} : FuseQueue(r, [FuseIdle EXCEPT !.op = "open", !.ino = i])
      BY <1>9 DEF CbOpen
    <2> DEFINE q == [FuseIdle EXCEPT !.op = "open", !.ino = i]
    <2>2. IsRequest(q) /\ q.op = "open" /\ q.op \in StreamOps
      <3>1. i \in Nat
        BY InodesNumbered
      <3> QED  BY <3>1 DEF IsRequest, FuseIdle, Outstanding, StreamOps
    <2> HIDE DEF q
    <2>3. fsReq[r].st = "free" /\ FuseQueue(r, q) /\ knFds' = knFds
      BY <1>9, <2>1 DEF CbOpen, KernelAsks, q
    <2>4. /\ DOMAIN fsReq' = FuseReqs /\ \A s \in FuseReqs \ {r} : fsReq'[s] = fsReq[s]
          /\ IsRequest(fsReq'[r]) /\ fsReq'[r].op = "open" /\ SendLockFits'
      BY <1>8, <2>2, <2>3
    <2>5. FuseTyped'
      BY <1>1, <1>2, <1>3, <2>3, <2>4 DEF FuseTyped
    <2>6. SentKept /\ ReleasesKept
      BY <2>3, <2>4 DEF SentKept, ReleasesKept
    <2> QED  BY <1>1, <1>3, <1>6, <2>3, <2>4, <2>5, <2>6, QuietStep
  <1>10. CASE CbRead(r)
    <2>1. PICK h \in knFds, off \in FuseOffsets :
            FuseQueue(r, [FuseIdle EXCEPT !.op = "read", !.ino = h[2], !.fh = h[1], !.off = off])
      BY <1>10 DEF CbRead
    <2> DEFINE q == [FuseIdle EXCEPT !.op = "read", !.ino = h[2], !.fh = h[1], !.off = off]
    <2>2. IsRequest(q) /\ q.op = "read" /\ q.op \in StreamOps /\ q.fh \in FuseFds
      <3>1. h[1] \in FuseFds /\ h[1] \in Nat /\ h[2] \in Nat /\ h[2] # 0 /\ off \in Nat
        BY <1>1, FuseAssumption DEF FuseTyped
      <3> QED  BY <3>1 DEF IsRequest, FuseIdle, Outstanding, StreamOps
    <2> HIDE DEF q
    <2>3. fsReq[r].st = "free" /\ FuseQueue(r, q) /\ knFds' = knFds
      BY <1>10, <2>1 DEF CbRead, KernelAsks, q
    <2>4. /\ DOMAIN fsReq' = FuseReqs /\ \A s \in FuseReqs \ {r} : fsReq'[s] = fsReq[s]
          /\ IsRequest(fsReq'[r]) /\ fsReq'[r].op = "read" /\ SendLockFits'
      BY <1>8, <2>2, <2>3
    <2>5. FuseTyped'
      BY <1>1, <1>2, <1>3, <2>3, <2>4 DEF FuseTyped
    <2>6. SentKept /\ ReleasesKept
      BY <2>3, <2>4 DEF SentKept, ReleasesKept
    <2> QED  BY <1>1, <1>3, <1>6, <2>3, <2>4, <2>5, <2>6, QuietStep
  <1>11. CASE CbRelease(r)
    <2>1. PICK h \in knFds : /\ knFds' = knFds \ {h}
                             /\ FuseQueue(r, [FuseIdle EXCEPT !.op = "release", !.ino = h[2], !.fh = h[1]])
      BY <1>11 DEF CbRelease
    <2> DEFINE q == [FuseIdle EXCEPT !.op = "release", !.ino = h[2], !.fh = h[1]]
    <2>2. IsRequest(q) /\ q.op = "release" /\ q.op \in StreamOps /\ q.fh \in FuseFds /\ q.fh = h[1]
          /\ h[1] \in FuseFds /\ h[2] # 0
      <3>1. h[1] \in FuseFds /\ h[1] \in Nat /\ h[2] \in Nat /\ h[2] # 0
        BY <1>1, FuseAssumption DEF FuseTyped
      <3> QED  BY <3>1 DEF IsRequest, FuseIdle, Outstanding, StreamOps
    <2> HIDE DEF q
    <2>3. fsReq[r].st = "free" /\ FuseQueue(r, q)
      BY <1>11, <2>1 DEF CbRelease, KernelAsks, q
    <2>4. /\ DOMAIN fsReq' = FuseReqs /\ \A s \in FuseReqs \ {r} : fsReq'[s] = fsReq[s]
          /\ IsRequest(fsReq'[r]) /\ fsReq'[r].op = "release" /\ fsReq'[r].fh = h[1] /\ SendLockFits'
          /\ fsReq'[r].st # "sent"
      BY <1>8, <2>2, <2>3
    <2>5. FuseTyped'
      BY <1>1, <1>2, <1>3, <2>1, <2>4 DEF FuseTyped
    <2>6. SentKept
      BY <2>3, <2>4 DEF SentKept
    <2>7. StreamFramed'
      BY <1>1, <1>3, <1>6, <2>6, StreamKept DEF FuseInv
    <2>8. DescriptorsOwned'
      <3> SUFFICES ASSUME fsLink = "up"
                   PROVE  (HandlesOpen /\ OpenedKept /\ ReleasesOwn)'
        BY <1>3 DEF DescriptorsOwned
      <3>1. HandlesOpen /\ OpenedKept /\ ReleasesOwn /\ StreamFramed
        BY <1>1 DEF FuseInv, DescriptorsOwned
      <3>2. HandlesOpen'
        BY <3>1, <1>3, <2>1 DEF HandlesOpen
      <3>3. \A i \in 1..Len(fsAnswers) : fsAnswers[i].rid \in FuseReqs
        BY <1>1, StreamShape DEF StreamWord
      <3>4. OpenedKept'
        BY <3>1, <3>3, <1>3, <2>1, <2>6 DEF OpenedKept, StreamFramed, WordsSent, SentKept
      <3>5. \A s : OnWire(s) => s \in FuseReqs /\ fsReq[s].st = "sent"
        BY <1>1, <3>1, StreamShape DEF OnWire, StreamFramed, CommandsSent, StreamCommand
      <3>6. ASSUME NEW s \in FuseReqs, s # r, Releasing(s)'
            PROVE  Releasing(s) /\ fsReq'[s].fh = fsReq[s].fh
        BY <3>6, <1>3, <2>4 DEF Releasing, OnWire
      <3>7. clFds[h[1]] # 0 /\ clFds[h[1]] = h[2]
        BY <3>1, <2>2 DEF HandlesOpen
      <3>8. \A x \in knFds' : x[1] # h[1]
        BY <3>1, <2>1, <1>1 DEF HandlesOpen, FuseTyped
      <3>9. \A i \in 1..Len(fsAnswers) : fsAnswers[i].w = "fh" => fsAnswers[i].v # h[1]
        BY <3>1, <2>1 DEF OpenedKept
      <3>10. \A s \in FuseReqs : Releasing(s) => fsReq[s].fh # h[1]
        BY <3>1 DEF ReleasesOwn
      <3>11. ASSUME NEW s \in FuseReqs, Releasing(s)'
             PROVE  /\ clFds'[fsReq'[s].fh] # 0
                    /\ \A x \in knFds' : x[1] # fsReq'[s].fh
                    /\ \A i \in 1..Len(fsAnswers') : fsAnswers'[i].w = "fh" => fsAnswers'[i].v # fsReq'[s].fh
        <4>1. CASE s = r
          BY <4>1, <3>7, <3>8, <3>9, <1>3, <2>4
        <4>2. CASE s # r
          <5>1. Releasing(s) /\ fsReq'[s].fh = fsReq[s].fh
            BY <4>2, <3>6, <3>11
          <5> QED  BY <5>1, <3>1, <1>3, <2>1 DEF ReleasesOwn
        <4> QED  BY <4>1, <4>2
      <3>12. ASSUME NEW s \in FuseReqs, NEW t \in FuseReqs, Releasing(s)', Releasing(t)',
                    fsReq'[t].fh = fsReq'[s].fh
             PROVE  s = t
        <4>1. s # r /\ t # r => s = t
          BY <3>1, <3>6, <3>12 DEF ReleasesOwn
        <4>2. ~(s = r /\ t # r) /\ ~(t = r /\ s # r)
          BY <3>6, <3>10, <3>12, <2>4
        <4> QED  BY <4>1, <4>2
      <3>13. ReleasesOwn'
        BY <3>11, <3>12 DEF ReleasesOwn
      <3> QED  BY <3>2, <3>4, <3>13
    <2>9. HandlesHold'
      BY <2>8 DEF DescriptorsOwned, HandlesHold
    <2> QED  BY <1>1, <1>3, <1>6, <2>4, <2>5, <2>7, <2>8, <2>9 DEF FuseInv
  <1> QED  BY <1>7, <1>9, <1>10, <1>11

\* The receiver asks for the lock, and returns with it at the end.
LEMMA ReceiverStep ==
  ASSUME FuseInv, FuseCmdRecvReady \/ FuseCmdRecvEof
  PROVE  FuseInv'
  <1>1. FuseTyped /\ SendLockFits /\ BeforeMount /\ fsRun = "run"
    BY DEF FuseInv, FuseCmdRecvReady, FuseCmdRecvEof
  <1>2. Receiver \notin FuseReqs
    BY FuseAssumption DEF Receiver
  <1>3. UNCHANGED <<fsRun, fsLink, fsMount, fsReq, fsRid, fsWire, fsAnswers, fsBig, clFds, knFds>>
    BY DEF FuseCmdRecvReady, FuseCmdRecvEof, FuseStream
  <1>4. fsRecv # "off"
    BY DEF FuseCmdRecvReady, FuseCmdRecvEof
  <1>5. BeforeMount' /\ SentKept /\ ReleasesKept
    BY <1>1, <1>3, <1>4 DEF BeforeMount, SentKept, ReleasesKept
  <1>6. CASE FuseCmdRecvReady
    <2>1. /\ fsRecv = "wait" /\ fsLock' = MutexEnter(fsLock, Receiver)
          /\ fsRecv' = IF fsLock.n = 0 THEN "head" ELSE "lock"
      BY <1>6 DEF FuseCmdRecvReady
    <2>2. Receiver \notin LockHolders /\ Receiver \notin LockWaiters
      BY <1>2, <2>1 DEF LockHolders, LockWaiters
    <2>3. SendLockFits'
      <3>1. CASE fsLock.n = 0
        <4>1. LockHolders = {} /\ MutexFits(fsLock', {Receiver}, LockWaiters)
          BY <1>1, <2>1, <2>2, <3>1, MutexEnterFits, MutexHolder DEF SendLockFits
        <4>2. LockHolders' = {Receiver} /\ LockWaiters' = LockWaiters
          BY <1>3, <2>1, <3>1, <4>1 DEF LockHolders, LockWaiters
        <4> QED  BY <4>1, <4>2 DEF SendLockFits
      <3>2. CASE fsLock.n # 0
        <4>1. MutexFits(fsLock', LockHolders, LockWaiters \union {Receiver})
          BY <1>1, <2>1, <2>2, <3>2, MutexEnterFits DEF SendLockFits
        <4>2. LockHolders' = LockHolders /\ LockWaiters' = LockWaiters \union {Receiver}
          BY <1>3, <2>1, <3>2 DEF LockHolders, LockWaiters
        <4> QED  BY <4>1, <4>2 DEF SendLockFits
      <3> QED  BY <3>1, <3>2
    <2>4. FuseTyped' /\ HeaderKept
      BY <1>1, <1>3, <2>1 DEF FuseTyped, HeaderKept
    <2> QED  BY <1>1, <1>3, <1>5, <2>3, <2>4, QuietStep
  <1>7. CASE FuseCmdRecvEof
    <2>1. fsRecv \in {"head", "fh", "data"} /\ fsRecv' = "dead" /\ fsLock' = fsLock /\ fsLink = "eof"
      BY <1>7 DEF FuseCmdRecvEof
    <2>2. LockHolders' = LockHolders /\ LockWaiters' = LockWaiters
      BY <1>3, <2>1 DEF LockHolders, LockWaiters
    <2>3. SendLockFits' /\ FuseTyped'
      BY <1>1, <1>3, <2>1, <2>2 DEF SendLockFits, FuseTyped
    <2>4. StreamFramed'
      <3>1. fsAnswers = <<>> /\ Len(fsAnswers) = 0
        BY <1>7 DEF FuseCmdRecvEof
      <3>2. StreamFramed
        BY <1>1 DEF FuseInv
      <3> QED  BY <1>3, <2>1, <3>1, <3>2 DEF StreamFramed, CommandsSent, WordsSent, HeaderTaken,
                      PayloadLed, HeaderFollowed, PayloadThere
    <2>5. DescriptorsOwned' /\ HandlesHold'
      BY <1>3, <2>1 DEF DescriptorsOwned, HandlesHold
    <2> QED  BY <1>1, <1>3, <1>5, <2>3, <2>4, <2>5 DEF FuseInv
  <1> QED  BY <1>6, <1>7

\* The invariant is inductive.
LEMMA FuseInvStep ==
  ASSUME FuseInv, TablesServed, [FuseNext]_FuseVars
  PROVE  FuseInv'
  <1>1. ASSUME NEW r \in FuseReqs, SendOpen(r) \/ SendRelease(r) \/ SendRead(r)
        PROVE  FuseInv'
    <2>1. PICK op \in StreamOps : FuseSend(r, op)
      BY <1>1 DEF SendOpen, SendRelease, SendRead, StreamOps
    <2>2. fsRun = "run"
      BY <2>1 DEF FuseSend
    <2> QED  BY <2>1, <2>2, SendStep
  <1>2. ASSUME NEW r \in FuseReqs,
               CbTables(r) \/ CbOpen(r) \/ CbRelease(r) \/ CbRead(r) \/ KernelTakes(r)
        PROVE  FuseInv'
    BY <1>2, KernelStep
  <1>3. CASE ReplyOpen \/ ReplyRead
    BY <1>3, PayloadStep DEF ReplyOpen, ReplyRead
  <1>4. CASE UNCHANGED FuseVars
    <2>1. UNCHANGED <<fsRun, fsLink, fsMount, fsReq, fsLock, fsRecv, fsRid, fsWire, fsAnswers, fsBig, clFds, knFds>>
      BY <1>4 DEF FuseVars, FuseStream
    <2>2. (FuseTyped /\ SendLockFits /\ HandlesHold)'
      BY <2>1 DEF FuseInv, FuseTyped, SendLockFits, LockHolders, LockWaiters, HandlesHold, HandlesOpen
    <2>3. SentKept /\ ReleasesKept /\ HeaderKept
      BY <2>1 DEF SentKept, ReleasesKept, HeaderKept
    <2>4. fsRun = "run" => BeforeMount'
      BY <2>1 DEF FuseInv, BeforeMount
    <2>5. fsRun = "run" => FuseInv'
      BY <2>1, <2>2, <2>3, <2>4, QuietStep
    <2> QED  BY <2>1, <2>2, <2>5 DEF FuseInv
  <1> QED
    BY <1>1, <1>2, <1>3, <1>4, MountSteps, LeaveStep, UnmountStep, StopStep, PushStep, ReceiverStep,
       HeadStep DEF FuseNext

\* It says what FuseStreamSound says.
LEMMA FuseInvSound ==
  ASSUME FuseInv
  PROVE  FuseStreamSound
  <1>1. FuseTyped /\ SendLockFits /\ HandlesHold /\ Receiver \notin FuseReqs
    BY FuseAssumption DEF FuseInv, Receiver
  <1> DEFINE Q == {r \in FuseReqs : fsReq[r].st \in {"lock", "sending"}}
             in == fsRecv \in {"lock", "head", "fh", "data", "dead"}
             P == LockHolders \union LockWaiters
  <1>2. P = IF in THEN Q \union {Receiver} ELSE Q
    BY DEF LockHolders, LockWaiters
  <1>3. IsFiniteSet(P) /\ fsLock.n = Cardinality(P)
    BY <1>1, MutexCounts DEF SendLockFits
  <1>4. Receiver \notin Q
    BY <1>1
  <1>5. fsLock.n = Cardinality(Q) + (IF in THEN 1 ELSE 0)
    <2> HIDE DEF P, Q, in
    <2>1. CASE in
      <3>1. P = Q \union {Receiver}
        BY <1>2, <2>1
      <3>2. IsFiniteSet(Q)
        BY <1>3, <3>1, FS_Subset
      <3>3. Cardinality(Q \union {Receiver}) = Cardinality(Q) + 1
        BY <1>4, <3>2, FS_AddElement
      <3> QED  BY <1>3, <2>1, <3>1, <3>3
    <2>2. CASE ~in
      <3>1. P = Q
        BY <1>2, <2>2
      <3>2. Cardinality(Q) \in Nat
        BY <1>3, <3>1, FS_CardinalityType
      <3> QED  BY <1>3, <2>2, <3>1, <3>2
    <2> QED  BY <2>1, <2>2
  <1>6. FuseTypeOK
    BY <1>1, <1>5 DEF FuseTyped, IsRequest, FuseTypeOK
  <1>7. FuseLockHeld
    <2> SUFFICES ASSUME fsLock.n > 0, fsRecv # "dead"
                 PROVE  (\E r \in FuseReqs : fsReq[r].st = "sending") \/ fsRecv \in {"head", "fh", "data"}
      BY DEF FuseLockHeld
    <2>1. LockHolders # {}
      BY <1>1, MutexHolder DEF SendLockFits, MutexFits
    <2> QED  BY <2>1 DEF LockHolders
  <1>8. FuseFramesAligned /\ FuseHandleOpen
    BY <1>1 DEF FuseInv, FuseFramesAligned, FuseHandleOpen, HandlesHold, HandlesOpen
  <1> QED  BY <1>6, <1>7, <1>8 DEF FuseStreamSound

\* Types, the lock, the words of the stream and the kernel's handles: what
\* the session_daemons run checks, for any number of requests and files.
THEOREM StreamSound == FuseSpec => []FuseStreamSound
  <1>1. FuseInit => FuseInv
    <2> SUFFICES ASSUME FuseInit
                 PROVE  FuseInv
      OBVIOUS
    <2>1. FuseTyped
      <3>1. <<>> \in Seq(StreamCommand) /\ <<>> \in Seq(StreamWord)
        BY EmptySeq
      <3>2. IsRequest(FuseIdle)
        BY DEF IsRequest, FuseIdle, Outstanding
      <3>3. \A r \in FuseReqs : IsRequest(fsReq[r])
        BY <3>2 DEF FuseInit
      <3> QED  BY <3>1, <3>3 DEF FuseInit, FuseTyped
    <2>2. SendLockFits
      <3>1. LockHolders = {} /\ LockWaiters = {}
        BY DEF LockHolders, LockWaiters, FuseInit, FuseIdle
      <3> QED  BY <3>1, MutexFreeFits DEF FuseInit, SendLockFits
    <2>3. fsWire = <<>> /\ fsAnswers = <<>> /\ Len(fsWire) = 0 /\ Len(fsAnswers) = 0
      BY DEF FuseInit
    <2>4. BeforeMount /\ HandlesHold /\ DescriptorsOwned
      BY DEF FuseInit, FuseIdle, BeforeMount, HandlesHold, DescriptorsOwned
    <2>5. StreamFramed
      BY <2>3 DEF FuseInit, StreamFramed, CommandsSent, WordsSent, HeaderTaken, PayloadLed,
                  HeaderFollowed, PayloadThere
    <2> QED  BY <2>1, <2>2, <2>4, <2>5 DEF FuseInv, FuseInit
  <1> QED  BY <1>1, FuseInvStep, FuseInvSound, TablesInvariant, PTL DEF FuseSpec
-----------------------------------------------------------------------------
(***************************************************************************)
(* The smart cards.  While nothing went wrong, send_lock_ is held by the   *)
(* client whose request is in the stream, and by nobody else; who waits    *)
(* for trans_lock_ waits for nothing else.                                 *)
(***************************************************************************)
PcscSpec == PcscInit /\ [][PcscNext]_PcscVars

Speaking == {c \in PcscClients : psState[c] \in {"sendGot", "sent"}}
Queued == {c \in PcscClients : psState[c] = "sendWait"}
Barred == {c \in PcscClients : psState[c] = "transWait"}

\* a queue of waits: everyone once, and nobody who does not wait
WaitFits(q, W) ==
    /\ q \in Seq(W)
    /\ \A i, j \in 1..Len(q) : q[i] = q[j] => i = j

\* one request at most is in the stream, or its answer, and its client reads
RequestOf(q, r) == \E m : q = <<m>> /\ m.from = r
StreamFits ==
    \/ psWire = <<>> /\ psAnswers = <<>>
    \/ \E c \in PcscClients :
          /\ psState[c] = "sent"
          /\ \/ psWire = <<>> /\ RequestOf(psAnswers, c)
             \/ psAnswers = <<>> /\ RequestOf(psWire, c)

PsKept ==
    /\ psState \in [PcscClients -> PcscStates]
    /\ DOMAIN psTrans = {"n", "wait", "owner"} /\ WaitFits(psTrans.wait, Barred)
    /\ MutexFits(psSend, Speaking, Queued)
    /\ StreamFits
PsFlow == psRun = "run" /\ ~psError
PsInv == PsFlow => PsKept

\* an aborted wait is out of the queue, the others keep their order
LEMMA AbortFits ==
  ASSUME NEW m, "wait" \in DOMAIN m, NEW W, WaitFits(m.wait, W), NEW c
  PROVE  WaitFits(MutexAbort(m, c).wait, W \ {c}) /\ DOMAIN MutexAbort(m, c) = DOMAIN m
  <1> DEFINE q == m.wait
             n == Len(q)
  <1>1. q \in Seq(W) /\ n \in Nat /\ \A i \in 1..n : q[i] \in W
    BY LenProperties DEF WaitFits
  <1>2. \A i, j \in 1..n : q[i] = q[j] => i = j
    BY DEF WaitFits
  <1>3. CASE \E i \in 1..n : q[i] = c
    <2> DEFINE k == CHOOSE i \in 1..n : q[i] = c
               r == [i \in 1..n - 1 |-> q[IF i < k THEN i ELSE i + 1]]
    <2>1. k \in 1..n /\ q[k] = c
      BY <1>3
    <2>2. MutexAbort(m, c) = [m EXCEPT !.wait = r]
      BY <1>3 DEF MutexAbort
    <2> HIDE DEF k, q, n
    <2>3. \A i \in 1..n - 1 : /\ (IF i < k THEN i ELSE i + 1) \in 1..n
                              /\ (IF i < k THEN i ELSE i + 1) # k
      BY <1>1, <2>1
    <2>4. \A i \in 1..n - 1 : r[i] \in W \ {c}
      BY <1>1, <1>2, <2>1, <2>3
    <2>5. n - 1 \in Nat
      BY <1>1, <2>1
    <2>6. r \in [1..n - 1 -> W \ {c}]
      BY <2>4
    <2>7. r \in Seq(W \ {c}) /\ Len(r) = n - 1
      BY <2>5, <2>6, SeqDef, LenProperties
    <2>8. ASSUME NEW i \in 1..n - 1, NEW j \in 1..n - 1, r[i] = r[j] PROVE i = j
      <3>1. (IF i < k THEN i ELSE i + 1) = (IF j < k THEN j ELSE j + 1)
        BY <1>2, <2>3, <2>8
      <3> QED  BY <3>1, <1>1, <2>1
    <2> HIDE DEF r
    <2>9. WaitFits(r, W \ {c})
      BY <2>7, <2>8 DEF WaitFits
    <2> QED  BY <2>2, <2>9
  <1>4. CASE ~\E i \in 1..n : q[i] = c
    <2>1. MutexAbort(m, c) = m
      BY <1>4 DEF MutexAbort
    <2> HIDE DEF q, n
    <2>2. q \in [1..n -> W \ {c}]
      BY <1>1, <1>4, LenProperties DEF n
    <2>3. q \in Seq(W \ {c})
      BY <1>1, <2>2, SeqDef
    <2> QED  BY <2>1, <2>3 DEF WaitFits, q
  <1> QED  BY <1>3, <1>4

\* who leaves a lock wakes the first of its queue
LEMMA TailFits ==
  ASSUME NEW q, NEW W, WaitFits(q, W), q # <<>>
  PROVE  Head(q) \in W /\ WaitFits(Tail(q), W \ {Head(q)})
  <1>1. q \in Seq(W) /\ Len(q) \in Nat \ {0} /\ Head(q) = q[1] /\ q[1] \in W
    BY LenProperties, EmptySeq DEF WaitFits
  <1>2. Len(Tail(q)) = Len(q) - 1 /\ \A i \in 1..Len(q) - 1 : Tail(q)[i] = q[i + 1]
    BY <1>1
  <1>3. Tail(q) \in Seq(W)
    BY <1>1
  <1>4. \A i \in 1..Len(q) - 1 : q[i + 1] # q[1] /\ q[i + 1] \in W
    BY <1>1 DEF WaitFits
  <1>5. Tail(q) \in Seq(W \ {Head(q)})
    <2> DEFINE n == Len(q) - 1
               r == Tail(q)
               v == Head(q)
    <2>1. r \in [1..n -> W] /\ n \in Nat
      BY <1>1, <1>2, <1>3, LenProperties
    <2>2. \A i \in 1..n : r[i] \in W \ {v}
      BY <1>1, <1>2, <1>4
    <2> HIDE DEF n, r, v
    <2>3. r \in [1..n -> W \ {v}]
      BY <2>1, <2>2
    <2>4. r \in Seq(W \ {v})
      BY <2>1, <2>3, SeqDef
    <2> QED  BY <2>4 DEF r, v
  <1>6. ASSUME NEW i \in 1..Len(q) - 1, NEW j \in 1..Len(q) - 1, Tail(q)[i] = Tail(q)[j] PROVE i = j
    <2>1. i + 1 \in 1..Len(q) /\ j + 1 \in 1..Len(q) /\ q[i + 1] = q[j + 1]
      BY <1>1, <1>2, <1>6
    <2>2. i + 1 = j + 1
      BY <2>1 DEF WaitFits
    <2> QED  BY <2>2, <1>1
  <1> QED  BY <1>1, <1>2, <1>5, <1>6 DEF WaitFits

LEMMA TransLeaves ==
  ASSUME NEW t, DOMAIN t = {"n", "wait", "owner"}, NEW W, WaitFits(t.wait, W), NEW c
  PROVE  /\ DOMAIN TransLeave(t, c) = {"n", "wait", "owner"}
         /\ WaitFits(TransLeave(t, c).wait, W \ TransWoken(t, c))
         /\ TransWoken(t, c) \subseteq W
  <1>1. CASE t.owner = c /\ t.n > 1 /\ t.wait # <<>>
    <2>1. TransWoken(t, c) = {Head(t.wait)} /\ TransLeave(t, c).wait = Tail(t.wait)
          /\ DOMAIN TransLeave(t, c) = {"n", "wait", "owner"}
      BY <1>1 DEF TransWoken, TransLeave, MutexWoken, MutexLeave
    <2> QED  BY <1>1, <2>1, TailFits
  <1>2. CASE ~(t.owner = c /\ t.n > 1 /\ t.wait # <<>>)
    <2>1. TransWoken(t, c) = {} /\ TransLeave(t, c).wait = t.wait
          /\ DOMAIN TransLeave(t, c) = {"n", "wait", "owner"}
      BY <1>2 DEF TransWoken, TransLeave, MutexWoken, MutexLeave
    <2>2. W \ {} = W
      OBVIOUS
    <2> QED  BY <2>1, <2>2
  <1> QED  BY <1>1, <1>2


\* A step in which nobody's part in the stream changes: those that queue for
\* trans_lock_ may go on, or anybody may come or go who waits for nothing.
LEMMA StreamRests ==
  ASSUME PsKept, psState' \in [PcscClients -> PcscStates],
         DOMAIN psTrans' = {"n", "wait", "owner"}, WaitFits(psTrans'.wait, Barred'),
         \A d \in PcscClients : {psState[d], psState'[d]} \cap {"sendWait", "sendGot", "sent"} # {}
                                  => psState'[d] = psState[d],
         UNCHANGED <<psSend, psWire, psAnswers>>
  PROVE  PsKept'
  <1>1. Speaking' = Speaking /\ Queued' = Queued
    BY DEF Speaking, Queued
  <1>2. StreamFits'
    <2>1. \A d \in PcscClients : psState[d] = "sent" => psState'[d] = "sent"
      OBVIOUS
    <2> QED  BY <2>1 DEF PsKept, StreamFits
  <1> QED  BY <1>1, <1>2 DEF PsKept

\* c leaves trans_lock_ if it has it, and whoever was first in its queue goes on
Unlocks(c, s) ==
    /\ psState' = [d \in PcscClients |-> IF d = c THEN s
                                         ELSE IF d \in TransWoken(psTrans, c) THEN "transGot" ELSE psState[d]]
    /\ psTrans' = TransLeave(psTrans, c)
    /\ UNCHANGED <<psSend, psWire, psAnswers>>

LEMMA UnlocksKeep ==
  ASSUME PsKept, NEW c \in PcscClients, psState[c] \in {"idle", "ending"}, NEW s \in {"ending", "gone"},
         Unlocks(c, s)
  PROVE  PsKept'
  <1> DEFINE D == TransWoken(psTrans, c)
  <1>1. /\ DOMAIN psTrans' = {"n", "wait", "owner"} /\ WaitFits(psTrans'.wait, Barred \ D)
        /\ D \subseteq Barred
    BY TransLeaves DEF PsKept, Unlocks
  <1>2. psState' = [d \in PcscClients |-> IF d = c THEN s ELSE IF d \in D THEN "transGot" ELSE psState[d]]
    BY DEF Unlocks
  <1> HIDE DEF D
  <1>3. Barred' = Barred \ D
    BY <1>1, <1>2 DEF Barred
  <1>4. psState' \in [PcscClients -> PcscStates]
    BY <1>2 DEF PsKept, PcscStates
  <1>5. ASSUME NEW d \in PcscClients, {psState[d], psState'[d]} \cap {"sendWait", "sendGot", "sent"} # {}
        PROVE  psState'[d] = psState[d]
    BY <1>1, <1>2, <1>5 DEF Barred
  <1> QED  BY <1>1, <1>3, <1>4, <1>5, StreamRests DEF Unlocks

\* c asks for the stream: it has it at once, or it waits
AsksStream(c) ==
    /\ psSend' = MutexEnter(psSend, c)
    /\ psState' = [psState EXCEPT ![c] = IF psSend.n = 0 THEN "sendGot" ELSE "sendWait"]
    /\ psTrans'.wait = psTrans.wait /\ DOMAIN psTrans' = {"n", "wait", "owner"}
    /\ UNCHANGED <<psWire, psAnswers>>

LEMMA AsksStreamKeeps ==
  ASSUME PsKept, NEW c \in PcscClients, psState[c] \in {"idle", "transGot"}, AsksStream(c)
  PROVE  PsKept'
  <1>1. MutexFits(psSend, Speaking, Queued) /\ c \notin Speaking /\ c \notin Queued
    BY DEF PsKept, Speaking, Queued
  <1>2. psState \in [PcscClients -> PcscStates]
    BY DEF PsKept
  <1>3. psState' \in [PcscClients -> PcscStates]
    BY <1>2 DEF AsksStream, PcscStates
  <1>4. Barred' = Barred
    BY <1>2 DEF AsksStream, Barred
  <1>5. MutexFits(psSend', Speaking', Queued') /\ StreamFits'
    <2>1. CASE psSend.n = 0
      <3>1. Speaking = {} /\ MutexFits(psSend', {c}, Queued)
        BY <1>1, <2>1, MutexHolder, MutexEnterFits DEF AsksStream
      <3>2. psState' = [psState EXCEPT ![c] = "sendGot"]
        BY <2>1 DEF AsksStream
      <3>3. Speaking' = {c} /\ Queued' = Queued
        BY <1>1, <1>2, <3>1, <3>2 DEF Speaking, Queued
      <3>4. \A d \in PcscClients : psState[d] # "sent"
        BY <3>1 DEF Speaking
      <3>5. psWire = <<>> /\ psAnswers = <<>>
        BY <3>4 DEF PsKept, StreamFits
      <3> QED  BY <3>1, <3>3, <3>5 DEF StreamFits, AsksStream
    <2>2. CASE psSend.n # 0
      <3>1. MutexFits(psSend', Speaking, Queued \union {c})
        BY <1>1, <2>2, MutexEnterFits DEF AsksStream
      <3>2. psState' = [psState EXCEPT ![c] = "sendWait"]
        BY <2>2 DEF AsksStream
      <3>3. Speaking' = Speaking /\ Queued' = Queued \union {c}
        BY <1>1, <1>2, <3>2 DEF Speaking, Queued
      <3>4. \A d \in PcscClients : psState[d] = "sent" => psState'[d] = "sent"
        BY <1>2, <3>2
      <3>5. StreamFits'
        BY <3>4 DEF StreamFits, PsKept, AsksStream
      <3> QED  BY <3>1, <3>3, <3>5
    <2> QED  BY <2>1, <2>2
  <1> QED  BY <1>3, <1>4, <1>5 DEF PsKept, AsksStream

\* a command that is passed on: Connect and BeginTransaction enter trans_lock_ first
LEMMA AskKeeps ==
  ASSUME PsKept, NEW c \in PcscClients, psState[c] = "idle", NEW op, NEW arg, Ask(c, op, arg),
         UNCHANGED <<psWire, psAnswers>>
  PROVE  PsKept'
  <1>1. DOMAIN psTrans = {"n", "wait", "owner"} /\ psState \in [PcscClients -> PcscStates]
    BY DEF PsKept
  <1>2. CASE EnterSend(c)
    BY <1>1, <1>2, AsksStreamKeeps DEF AsksStream, EnterSend
  <1>3. CASE EnterTrans(c) /\ psTrans.n = 0
    <2>1. psTrans'.wait = psTrans.wait /\ DOMAIN psTrans' = {"n", "wait", "owner"}
      BY <1>1, <1>3 DEF EnterTrans, MutexEnter
    <2> QED  BY <1>3, <2>1, AsksStreamKeeps DEF AsksStream, EnterTrans
  <1>4. CASE EnterTrans(c) /\ psTrans.n # 0
    <2>1. psTrans'.wait = Append(psTrans.wait, c) /\ DOMAIN psTrans' = {"n", "wait", "owner"}
      BY <1>1, <1>4 DEF EnterTrans, MutexEnter
    <2>2. psState' = [psState EXCEPT ![c] = "transWait"] /\ psSend' = psSend
      BY <1>4 DEF EnterTrans
    <2>3. Barred' = Barred \union {c} /\ c \notin Barred
      BY <1>1, <2>2 DEF Barred
    <2>4. PICK q : q = psTrans.wait
      OBVIOUS
    <2>5. WaitFits(q, Barred)
      BY <2>4 DEF PsKept
    <2>6. WaitFits(Append(q, c), Barred \union {c})
      <3>1. q \in Seq(Barred) /\ Len(q) \in Nat /\ \A i \in 1..Len(q) : q[i] \in Barred
        BY <2>5, LenProperties DEF WaitFits
      <3>2. q \in Seq(Barred \union {c})
        BY <3>1
      <3>3. Append(q, c) \in Seq(Barred \union {c}) /\ Len(Append(q, c)) = Len(q) + 1
            /\ \A i \in 1..Len(q) + 1 : Append(q, c)[i] = IF i <= Len(q) THEN q[i] ELSE c
        BY <3>1, <3>2
      <3> QED  BY <2>3, <2>5, <3>1, <3>3 DEF WaitFits
    <2>7. psState' \in [PcscClients -> PcscStates]
      BY <1>1, <2>2 DEF PcscStates
    <2>8. ASSUME NEW d \in PcscClients, {psState[d], psState'[d]} \cap {"sendWait", "sendGot", "sent"} # {}
          PROVE  psState'[d] = psState[d]
      BY <1>1, <2>2, <2>8
    <2> QED  BY <2>1, <2>2, <2>3, <2>4, <2>6, <2>7, <2>8, StreamRests
  <1> QED  BY <1>2, <1>3, <1>4 DEF Ask


\* the request is written by the one client that has the stream
LEMMA SendRequestKeeps ==
  ASSUME PsKept, NEW c \in PcscClients, SendRequest(c)
  PROVE  PsKept'
  <1>1. psState[c] = "sendGot" /\ psState' = [psState EXCEPT ![c] = "sent"] /\ psState \in [PcscClients -> PcscStates]
    BY DEF SendRequest, PsKept
  <1>2. UNCHANGED <<psTrans, psSend, psAnswers>>
    BY DEF SendRequest, PcscLocks
  <1>3. Speaking' = Speaking /\ Queued' = Queued /\ Barred' = Barred
    BY <1>1 DEF Speaking, Queued, Barred
  <1>4. \A d \in PcscClients : psState[d] # "sent"
    <2>1. \A d \in Speaking : d = c
      BY <1>1, MutexHolder DEF PsKept, Speaking
    <2> QED  BY <1>1, <2>1 DEF Speaking
  <1>5. psWire = <<>> /\ psAnswers = <<>>
    BY <1>4 DEF PsKept, StreamFits
  <1>6. psWire' = <<[from |-> c, op |-> psCmd[c]]>>
    BY <1>5 DEF SendRequest
  <1>7. StreamFits'
    <2>1. psState'[c] = "sent"
      BY <1>1
    <2>2. RequestOf(psWire', c)
      BY <1>6 DEF RequestOf
    <2>3. psAnswers' = <<>>
      BY <1>2, <1>5
    <2> QED  BY <2>1, <2>2, <2>3 DEF StreamFits
  <1>8. psState' \in [PcscClients -> PcscStates]
    BY <1>1 DEF PcscStates
  <1> QED  BY <1>2, <1>3, <1>7, <1>8 DEF PsKept

\* An answer is read by the client whose request it answers, which leaves the
\* stream empty and send_lock_ to the next one.
LEMMA CompleteKeeps ==
  ASSUME PsKept, ~psError', NEW c \in PcscClients, NEW op, NEW ok, Answered(c, op, ok),
         NEW alive, NEW more, NEW arg, Complete(c, alive, more, arg)
  PROVE  PsKept'
  <1> DEFINE s == MutexLeave(psSend)
             D == MutexWoken(psSend)
             T == IF psCmd[c] \in {"connect", "end"} \/ ~alive THEN TransWoken(psTrans, c) ELSE {}
             to == IF more # "none" THEN IF s.n = 0 THEN "sendGot" ELSE "sendWait"
                   ELSE IF alive /\ ~psError' THEN "idle" ELSE "ending"
  <1>1. psState[c] = "sent" /\ psAnswers # <<>> /\ psAnswers' = Tail(psAnswers) /\ psWire' = psWire
    BY DEF Answered
  <1>2. psWire = <<>> /\ \E m : psAnswers = <<m>>
    BY <1>1 DEF PsKept, StreamFits, RequestOf
  <1>3. psWire' = <<>> /\ psAnswers' = <<>>
    BY <1>1, <1>2
  <1>4. Speaking = {c} /\ MutexFits(psSend, {c}, Queued)
    <2>1. c \in Speaking
      BY <1>1 DEF Speaking
    <2>2. \A d \in Speaking : d = c
      BY <2>1, MutexHolder DEF PsKept
    <2>3. Speaking = {c}
      BY <2>1, <2>2
    <2> QED  BY <2>3 DEF PsKept
  <1>5. /\ MutexFits(s, D, Queued \ D)
        /\ \/ D = {} /\ Queued = {}
           \/ \E w \in Queued : D = {w}
    <2>1. {c} # {}
      OBVIOUS
    <2> QED  BY <1>4, <2>1, MutexLeaveFits
  <1>6. /\ DOMAIN psTrans' = {"n", "wait", "owner"} /\ WaitFits(psTrans'.wait, Barred \ T)
        /\ T \subseteq Barred
    <2>1. CASE psCmd[c] \in {"connect", "end"} \/ ~alive
      BY <2>1, TransLeaves DEF PsKept, Complete
    <2>2. CASE ~(psCmd[c] \in {"connect", "end"} \/ ~alive)
      <3>1. psTrans' = psTrans /\ T = {}
        BY <2>2 DEF Complete
      <3>2. Barred \ {} = Barred
        OBVIOUS
      <3> QED  BY <3>1, <3>2 DEF PsKept
    <2> QED  BY <2>1, <2>2
  <1>7. psState' = [d \in PcscClients |-> IF d = c THEN to ELSE IF d \in D THEN "sendGot"
                                          ELSE IF d \in T THEN "transGot" ELSE psState[d]]
    BY DEF Complete
  <1>8. psSend' = IF more # "none" THEN MutexEnter(s, c) ELSE s
    BY DEF Complete
  <1>9. to \in {"sendGot", "sendWait", "idle", "ending"} /\ (more = "none" => to \in {"idle", "ending"})
        /\ (more # "none" => to = IF s.n = 0 THEN "sendGot" ELSE "sendWait")
    OBVIOUS
  <1> HIDE DEF s, D, T, to
  <1>10. psState' \in [PcscClients -> PcscStates]
    BY <1>7, <1>9 DEF PsKept, PcscStates
  <1>11. Barred' = Barred \ T
    BY <1>1, <1>5, <1>6, <1>7, <1>9 DEF Barred, Queued
  <1>12. c \notin D /\ c \notin Queued
    BY <1>1, <1>5 DEF Queued
  <1>13. \A d \in PcscClients : d # c /\ d \notin D => psState[d] \notin {"sent", "sendGot"}
    BY <1>4 DEF Speaking
  <1>14. MutexFits(psSend', Speaking', Queued')
    <2>1. CASE more = "none"
      <3>1. Speaking' = D
        BY <1>5, <1>6, <1>7, <1>9, <1>12, <1>13, <2>1 DEF Speaking, Queued, Barred
      <3>2. Queued' = Queued \ D
        BY <1>5, <1>6, <1>7, <1>9, <1>12, <2>1 DEF Queued, Barred
      <3> QED  BY <1>5, <1>8, <2>1, <3>1, <3>2
    <2>2. CASE more # "none" /\ s.n = 0
      <3>1. D = {} /\ MutexFits(psSend', {c}, Queued \ D)
        BY <1>5, <1>8, <1>12, <2>2, MutexHolder, MutexEnterFits
      <3>2. Speaking' = {c}
        BY <1>6, <1>7, <1>9, <1>13, <2>2, <3>1 DEF Speaking, Barred
      <3>3. Queued' = Queued \ D
        BY <1>6, <1>7, <1>9, <1>12, <2>2, <3>1 DEF Queued, Barred
      <3> QED  BY <3>1, <3>2, <3>3
    <2>3. CASE more # "none" /\ s.n # 0
      <3>1. MutexFits(psSend', D, (Queued \ D) \union {c})
        BY <1>5, <1>8, <1>12, <2>3, MutexEnterFits
      <3>2. Speaking' = D
        BY <1>5, <1>6, <1>7, <1>9, <1>12, <1>13, <2>3 DEF Speaking, Queued, Barred
      <3>3. Queued' = (Queued \ D) \union {c}
        BY <1>5, <1>6, <1>7, <1>9, <1>12, <2>3 DEF Queued, Barred
      <3> QED  BY <3>1, <3>2, <3>3
    <2> QED  BY <2>1, <2>2, <2>3
  <1> QED  BY <1>3, <1>6, <1>10, <1>11, <1>14 DEF PsKept, StreamFits

\* While no error is recorded a stop signal met a client outside the stream.
LEMMA StopSignalKeeps ==
  ASSUME PsKept, NEW p, StopSignal(p), ~psError'
  PROVE  PsKept'
  <1> DEFINE c == p.of
  <1>1. psState[c] \notin {"sendWait", "sendGot", "sent"}
    BY DEF StopSignal
  <1>2. /\ UNCHANGED <<psSend, psWire, psAnswers>>
        /\ psState' = [d \in PcscClients |-> IF d = c /\ psState[c] # "gone" THEN "ending" ELSE psState[d]]
    BY <1>1 DEF StopSignal, PcscStream
  <1>3. DOMAIN psTrans = {"n", "wait", "owner"} /\ WaitFits(psTrans.wait, Barred) /\ psState \in [PcscClients -> PcscStates]
    BY DEF PsKept
  <1>4. /\ DOMAIN psTrans' = {"n", "wait", "owner"}
        /\ WaitFits(psTrans'.wait, IF psState[c] = "transWait" THEN Barred \ {c} ELSE Barred)
    <2>1. WaitFits(MutexAbort(psTrans, c).wait, Barred \ {c}) /\ DOMAIN MutexAbort(psTrans, c) = {"n", "wait", "owner"}
      BY <1>3, AbortFits
    <2>2. CASE psState[c] \in {"transWait", "transGot"}
      <3>1. psTrans' = [MutexAbort(psTrans, c) EXCEPT !.owner = c]
        BY <2>2 DEF StopSignal
      <3>2. DOMAIN psTrans' = {"n", "wait", "owner"} /\ psTrans'.wait = MutexAbort(psTrans, c).wait
        BY <2>1, <3>1
      <3>3. psState[c] # "transWait" => Barred \ {c} = Barred
        BY DEF Barred
      <3> QED  BY <2>1, <3>2, <3>3
    <2>3. CASE psState[c] \notin {"transWait", "transGot"}
      <3>1. psTrans' = psTrans
        BY <2>3 DEF StopSignal
      <3> QED  BY <1>3, <2>3, <3>1
    <2> QED  BY <2>2, <2>3
  <1>5. CASE psState[c] = "transWait" /\ c \notin PcscClients
    <2>1. c \notin Barred
      BY <1>5 DEF Barred
    <2>2. Barred' = Barred \ {c} /\ psState' = psState
      BY <1>2, <1>3, <1>5, <2>1 DEF Barred
    <2> QED  BY <1>2, <1>3, <1>4, <1>5, <2>2, StreamRests
  <1>6. CASE ~(psState[c] = "transWait" /\ c \notin PcscClients)
    <2>1. Barred' = IF psState[c] = "transWait" THEN Barred \ {c} ELSE Barred
      BY <1>2, <1>6 DEF Barred
    <2>2. psState' \in [PcscClients -> PcscStates]
      BY <1>2, <1>3 DEF PcscStates
    <2>3. ASSUME NEW d \in PcscClients, {psState[d], psState'[d]} \cap {"sendWait", "sendGot", "sent"} # {}
          PROVE  psState'[d] = psState[d]
      BY <1>1, <1>2, <2>3
    <2> QED  BY <1>2, <1>4, <2>1, <2>2, <2>3, StreamRests
  <1> QED  BY <1>5, <1>6

\* the remote client: a request leaves the wire and its answer is under way
LEMMA PcscLiteKeeps ==
  ASSUME PsKept, NEW op, NEW ok, NEW names, PcscLite(op, ok, names)
  PROVE  PsKept'
  <1>1. UNCHANGED <<psState, psTrans, psSend>> /\ psWire # <<>>
    BY DEF PcscLite, PcscLocal, PcscLocks
  <1>2. PICK c \in PcscClients : psState[c] = "sent" /\ psAnswers = <<>> /\ RequestOf(psWire, c)
    BY <1>1 DEF PsKept, StreamFits
  <1>3. PICK m : psWire = <<m>> /\ m.from = c
    BY <1>2 DEF RequestOf
  <1>4. psWire' = <<>> /\ psAnswers' = <<[from |-> c, ok |-> ok, names |-> names]>>
    BY <1>2, <1>3 DEF PcscLite
  <1>5. RequestOf(psAnswers', c)
    BY <1>4 DEF RequestOf
  <1>6. StreamFits'
    BY <1>1, <1>2, <1>4, <1>5 DEF StreamFits
  <1>7. Speaking' = Speaking /\ Queued' = Queued /\ Barred' = Barred
    BY <1>1 DEF Speaking, Queued, Barred
  <1> QED  BY <1>1, <1>6, <1>7 DEF PsKept


\* what leaves the locks and the stream alone
LEMMA PcscStill ==
  ASSUME PsKept, UNCHANGED <<psState, psTrans, psSend, psWire, psAnswers>>
  PROVE  PsKept'
  <1>1. Speaking' = Speaking /\ Queued' = Queued /\ Barred' = Barred
    BY DEF Speaking, Queued, Barred
  <1>2. StreamFits'
    BY DEF PsKept, StreamFits
  <1> QED  BY <1>1, <1>2 DEF PsKept

LEMMA ChannelSteps ==
  ASSUME PsInv, PsFlow',
         \/ ConnectChannel \/ RemoteHandshake \/ DisconnectChannel \/ ChannelBreaks \/ PcscStop
         \/ \E p \in psStops : StopClientContext(p) \/ StopSignal(p)
         \/ UNCHANGED PcscVars
  PROVE  PsKept'
  <1>1. CASE ConnectChannel \/ RemoteHandshake \/ DisconnectChannel \/ ChannelBreaks
    <2>1. PsFlow /\ UNCHANGED <<psState, psTrans, psSend, psWire, psAnswers>>
      BY <1>1 DEF ConnectChannel, RemoteHandshake, DisconnectChannel, ChannelBreaks, PsFlow, PcscLocal, PcscLocks, PcscStream
    <2> QED  BY <2>1, PcscStill DEF PsInv
  <1>2. CASE PcscStop
    BY <1>2 DEF PcscStop, PsFlow
  <1>3. ASSUME NEW p \in psStops, StopClientContext(p) PROVE PsKept'
    <2>1. PsFlow /\ UNCHANGED <<psState, psTrans, psSend, psWire, psAnswers>>
      BY <1>3 DEF StopClientContext, PsFlow, PcscLocal, PcscLocks, PcscStream, PcscDaemon
    <2> QED  BY <2>1, PcscStill DEF PsInv
  <1>4. ASSUME NEW p \in psStops, StopSignal(p) PROVE PsKept'
    <2>1. psRun' = psRun \/ psRun' \in {"ub", "spin"}
      BY <1>4 DEF StopSignal
    <2>2. ~psError /\ ~psError'
      BY <1>4 DEF StopSignal, PsFlow
    <2>3. PsFlow
      BY <2>1, <2>2 DEF PsFlow
    <2> QED  BY <1>4, <2>2, <2>3, StopSignalKeeps DEF PsInv
  <1>5. CASE UNCHANGED PcscVars
    <2>1. PsFlow /\ UNCHANGED <<psState, psTrans, psSend, psWire, psAnswers>>
      BY <1>5 DEF PcscVars, PsFlow, PcscLocal, PcscLocks, PcscStream, PcscDaemon
    <2> QED  BY <2>1, PcscStill DEF PsInv
  <1> QED  BY <1>1, <1>2, <1>3, <1>4, <1>5

\* a command that is refused, answered on the spot, or passed on
LEMMA CommandSteps ==
  ASSUME PsInv, PsFlow', NEW c \in PcscClients, ClientAction(c)
  PROVE  PsKept'
  <1>1. \/ Refuse(c) \/ \E op, arg : Ask(c, op, arg)
        \/ UNCHANGED <<psRun, PcscLocal, PcscLocks>>
    BY DEF ClientAction, ProxyEstablishContext, ProxyReleaseContext, ProxyConnect, ProxyReconnect, ProxyDisconnect,
           ProxyBeginTransaction, ProxyEndTransaction, ProxyTransmit, ProxyStatus, ProxyControl, ProxyGetAttrib,
           ProxySetAttrib, ProxyCancel, ProxyGetVersion, ProxyGetReaderState, ProxyReaderStateChangeStart,
           ProxyReaderStateChangeStop, LocalAnswer, ProxyHandle
  <1>2. \E op : Command(c, op)
    BY DEF ClientAction, ProxyEstablishContext, ProxyReleaseContext, ProxyConnect, ProxyReconnect, ProxyDisconnect,
           ProxyBeginTransaction, ProxyEndTransaction, ProxyTransmit, ProxyStatus, ProxyControl, ProxyGetAttrib,
           ProxySetAttrib, ProxyCancel, ProxyGetVersion, ProxyGetReaderState, ProxyReaderStateChangeStart,
           ProxyReaderStateChangeStop, LocalAnswer, ProxyHandle
  <1>3. psRun = "run" /\ psState[c] = "idle" /\ UNCHANGED <<psError, psWire, psAnswers>>
    BY <1>2 DEF Command, PcscStream
  <1>4. PsKept
    BY <1>3 DEF PsInv, PsFlow
  <1>5. CASE Refuse(c)
    <2>1. Unlocks(c, "ending")
      BY <1>3, <1>5 DEF Refuse, Unlocks
    <2> QED  BY <1>3, <1>4, <2>1, UnlocksKeep
  <1>6. CASE \E op, arg : Ask(c, op, arg)
    BY <1>3, <1>4, <1>6, AskKeeps
  <1>7. CASE UNCHANGED <<psRun, PcscLocal, PcscLocks>>
    <2>1. UNCHANGED <<psState, psTrans, psSend>>
      BY <1>7 DEF PcscLocal, PcscLocks
    <2> QED  BY <1>3, <1>4, <2>1, PcscStill
  <1> QED  BY <1>1, <1>5, <1>6, <1>7

\* whatever was asked, the answer is read and the request completed
LEMMA AnswerSteps ==
  ASSUME PsInv, PsFlow', NEW c \in PcscClients, RemoteAnswer(c)
  PROVE  PsKept'
  <1>1. PICK op, ok : Answered(c, op, ok) /\ \E alive, more, arg : Complete(c, alive, more, arg)
    <2>1. ~psError' /\ psRun' # "ub"
      BY DEF PsFlow
    <2>2. CASE SendEstablishedContext(c) \/ SendReleaseContext(c)
      BY <2>2 DEF SendEstablishedContext, SendReleaseContext, Done
    <2>3. CASE SendListReaders(c)
      BY <2>1, <2>3 DEF SendListReaders, SyncNext, Done
    <2>4. CASE SyncReaderStatus(c)
      BY <2>4 DEF SyncReaderStatus, SyncNext, Done
    <2>5. CASE SendConnect(c) \/ SendDisconnect(c) \/ SendCancel(c)
      BY <2>5 DEF SendConnect, SendDisconnect, SendCancel, Done
    <2>6. CASE \E op : SendOnHandle(c, op)
      BY <2>6 DEF SendOnHandle, Done
    <2> QED  BY <2>2, <2>3, <2>4, <2>5, <2>6 DEF RemoteAnswer, SendReconnect, SendBeginTransaction,
                SendEndTransaction, SendTransmit, SendStatus, SendControl, SendGetAttrib, SendSetAttrib
  <1>2. PICK alive, more, arg : Complete(c, alive, more, arg)
    BY <1>1
  <1>3. psRun = "run"
    BY <1>2 DEF Complete, PsFlow
  <1>4. ~psError' /\ ~psError
    BY <1>1 DEF Answered, PsFlow
  <1>5. PsKept
    BY <1>3, <1>4 DEF PsInv, PsFlow
  <1> QED  BY <1>1, <1>2, <1>4, <1>5, CompleteKeeps

\* the coroutine of a client otherwise: it comes, goes on, leaves
LEMMA CoroutineSteps ==
  ASSUME PsInv, PsFlow', NEW c \in PcscClients,
         ListenerHandler(c) \/ ProgramLeaves(c) \/ TransactionLock(c) \/ SendRequest(c) \/ ClientStoppedHandler(c)
  PROVE  PsKept'
  <1>1. psError' = psError /\ (psRun' = psRun \/ psRun' \in {"ub", "spin"})
    BY DEF ListenerHandler, ProgramLeaves, TransactionLock, SendRequest, ClientStoppedHandler, PcscDaemon
  <1>2. PsKept
    BY <1>1 DEF PsInv, PsFlow
  <1>3. psState \in [PcscClients -> PcscStates] /\ DOMAIN psTrans = {"n", "wait", "owner"} /\ WaitFits(psTrans.wait, Barred)
    BY <1>2 DEF PsKept
  <1>4. CASE ListenerHandler(c) \/ ProgramLeaves(c)
    <2>1. PICK s \in {"idle", "ending"} : psState' = [psState EXCEPT ![c] = s]
      BY <1>4 DEF ListenerHandler, ProgramLeaves
    <2>2. psState[c] \in {"out", "idle"} /\ UNCHANGED <<psTrans, psSend, psWire, psAnswers>>
      BY <1>4 DEF ListenerHandler, ProgramLeaves, PcscLocks, PcscStream
    <2>3. psState' \in [PcscClients -> PcscStates] /\ Barred' = Barred
      BY <1>3, <2>1, <2>2 DEF PcscStates, Barred
    <2>4. ASSUME NEW d \in PcscClients, {psState[d], psState'[d]} \cap {"sendWait", "sendGot", "sent"} # {}
          PROVE  psState'[d] = psState[d]
      BY <1>3, <2>1, <2>2, <2>4
    <2> QED  BY <1>2, <1>3, <2>2, <2>3, <2>4, StreamRests
  <1>5. CASE TransactionLock(c)
    <2>1. psState[c] = "transGot" /\ AsksStream(c)
      BY <1>3, <1>5 DEF TransactionLock, AsksStream, PcscStream
    <2> QED  BY <1>2, <2>1, AsksStreamKeeps
  <1>6. CASE SendRequest(c)
    BY <1>2, <1>6, SendRequestKeeps
  <1>7. CASE ClientStoppedHandler(c)
    <2>1. psState[c] = "ending" /\ Unlocks(c, "gone")
      BY <1>7 DEF ClientStoppedHandler, Unlocks, PcscStream
    <2> QED  BY <1>2, <2>1, UnlocksKeep
  <1> QED  BY <1>4, <1>5, <1>6, <1>7

LEMMA DeviceSteps ==
  ASSUME PsInv, PsFlow', PcscLiteCommand
  PROVE  PsKept'
  <1>1. \E op, ok, names : PcscLite(op, ok, names)
    BY DEF PcscLiteCommand, PcscLiteEstablishContext, PcscLiteReleaseContext, PcscLiteListReaders,
           PcscLiteGetStatusChange, PcscLiteConnect, PcscLiteReconnect, PcscLiteDisconnect, PcscLiteBeginTransaction,
           PcscLiteEndTransaction, PcscLiteTransmit, PcscLiteStatus, PcscLiteControl, PcscLiteGetAttrib,
           PcscLiteSetAttrib, PcscLiteCancel, PcscLiteOther
  <1>2. PsFlow
    BY <1>1 DEF PcscLite, PcscDaemon, PsFlow
  <1> QED  BY <1>1, <1>2, PcscLiteKeeps DEF PsInv

LEMMA PcscStep == ASSUME PsInv, [PcscNext]_PcscVars PROVE PsInv'
  <1> SUFFICES ASSUME PsFlow' PROVE PsKept'
    BY DEF PsInv
  <1> QED  BY ChannelSteps, CommandSteps, AnswerSteps, CoroutineSteps, DeviceSteps DEF PcscNext

LEMMA PsStarts ==
  ASSUME PcscInit
  PROVE  PsInv
  <1>1. Speaking = {} /\ Queued = {} /\ Barred = {}
    BY DEF PcscInit, All, Speaking, Queued, Barred
  <1>2. psState \in [PcscClients -> PcscStates] /\ StreamFits
    BY DEF PcscInit, All, PcscStates, StreamFits
  <1>3. DOMAIN psTrans = {"n", "wait", "owner"} /\ psTrans.wait = <<>>
    BY DEF PcscInit, FreeTrans
  <1>4. WaitFits(psTrans.wait, Barred)
    BY <1>3, EmptySeq DEF WaitFits
  <1>5. MutexFits(psSend, Speaking, Queued)
    BY <1>1, MutexFreeFits DEF PcscInit, FreeSend
  <1> QED  BY <1>2, <1>3, <1>4, <1>5 DEF PsInv, PsKept

\* send_lock_ covers a request and its answer: while no error is recorded,
\* the one answer that is due is read by the program that asked, whatever the
\* others ask, however transactions, stops and the end of a client interleave
\* (PcscRemote::send..., async_mutex).
THEOREM AnswersMatch == PcscSpec => []PcscAnswersMatch
  <1>1. PcscInit => PsInv
    BY PsStarts
  <1>2. ASSUME PsInv PROVE PcscAnswersMatch
    <2> SUFFICES ASSUME PsFlow
                 PROVE  [i \in 1..Len(psAnswers \o psWire) |-> (psAnswers \o psWire)[i].from]
                          \in {<<>>} \union {<<c>> : c \in {d \in PcscClients : psState[d] = "sent"}}
      BY DEF PcscAnswersMatch, PsFlow
    <2>1. StreamFits
      BY <1>2 DEF PsInv, PsKept
    <2>2. CASE psWire = <<>> /\ psAnswers = <<>>
      <3>1. psAnswers \o psWire = <<>>
        BY <2>2
      <3> QED  BY <3>1
    <2>3. ASSUME NEW c \in PcscClients, psState[c] = "sent", NEW m, m.from = c, psAnswers \o psWire = <<m>>
          PROVE  [i \in 1..Len(psAnswers \o psWire) |-> (psAnswers \o psWire)[i].from] = <<c>>
      <3>1. [i \in 1..Len(<<m>>) |-> <<m>>[i].from] = <<m.from>>
        OBVIOUS
      <3> QED  BY <2>3, <3>1
    <2>4. ASSUME ~(psWire = <<>> /\ psAnswers = <<>>)
          PROVE  \E c \in PcscClients : psState[c] = "sent" /\ \E m : m.from = c /\ psAnswers \o psWire = <<m>>
      <3>1. \A m : <<m>> \o <<>> = <<m>> /\ <<>> \o <<m>> = <<m>>
        OBVIOUS
      <3> QED  BY <2>1, <2>4, <3>1 DEF StreamFits, RequestOf
    <2> QED  BY <2>2, <2>3, <2>4
  <1> QED  BY <1>1, <1>2, PcscStep, PTL DEF PcscSpec


-----------------------------------------------------------------------------
(***************************************************************************)
(* Whoever leaves, and however.  This holds whatever goes wrong: a lock    *)
(* counts at least those who wait for it or have been granted it, so that  *)
(* who leaves it finds it taken; a taken trans_lock_ has somebody who will *)
(* leave it; and, as long as nobody was stopped in a queue, the card is    *)
(* with the program that has trans_lock_, or with one that has left.       *)
(***************************************************************************)
TransType == [n : Nat, wait : Seq(PcscClients), owner : PcscClients \union {PcscNoOne}]
Claims(t) == IF t.owner = PcscNoOne THEN 0 ELSE 1

Waiting == {c \in PcscClients : psState[c] \in {"transWait", "transGot"}}
Using == {c \in PcscClients : psState[c] \in {"sendWait", "sendGot", "sent"}}
Served(c) == psState[c] \notin {"out", "gone"}
Leaving(c) == psState[c] \in {"ending", "gone"}

HdTrans ==
    /\ IsFiniteSet(Waiting)
    /\ psTrans.n >= Cardinality(Waiting) + Claims(psTrans)
    /\ WaitFits(psTrans.wait, Barred)
HdSend ==
    /\ IsFiniteSet(Using)
    /\ psSend.n >= Cardinality(Using)
    /\ WaitFits(psSend.wait, Queued)

\* clients_ has those that are served, and a stop signal is for one that was
HdClients ==
    /\ \A c \in PcscClients : Served(c) <=> \E i \in 1..Len(psClients) : psClients[i] = c
    /\ \A p \in psStops : ~p.find => p.of \in PcscClients /\ psState[p.of] # "out"

\* a request is made with the slot and the names it needs
IsArg(op, g) ==
    /\ op = "connect" => g.slot \in 1..PcscSlots
    /\ op = "change" => g.slot \in 1..PcscSlots /\ g.names \in Seq(PcscNames) /\ g.names # <<>>
PcscReplies == [from : PcscClients, ok : BOOLEAN, names : Seq(PcscNames)]
HdArgs ==
    /\ DOMAIN psArg = PcscClients
    /\ \A c \in PcscClients : IsArg(psCmd[c], psArg[c])
    /\ psAnswers \in Seq(PcscReplies)
    /\ psRun = "stopping" => psError

\* one program at a time has trans_lock_ or has been granted it
HdTurn ==
    /\ \A c, d \in PcscClients : psState[c] = "transGot" /\ psState[d] = "transGot" => c = d
    /\ \A c \in PcscClients : psState[c] = "transGot" => psTrans.owner = PcscNoOne
    /\ \A c \in Using : psCmd[c] \in TransOps => psTrans.owner = c

\* a transaction of the card is that of the program that has trans_lock_
HdCard ==
    /\ dvTxn \in PcscClients /\ ~Leaving(dvTxn) => psTrans.owner = dvTxn
    /\ \A c \in Using : psCmd[c] = "connect" => dvTxn # c
    /\ \A c \in Using : psCmd[c] = "begin" /\ psState[c] # "sent" => dvTxn # c

\* of the requests to begin one only the last can be of a program that is served
Begins(i) == psWire[i].op = "begin"
HdWire ==
    /\ \A i \in 1..Len(psWire) : Begins(i) =>
          \/ Leaving(psWire[i].from)
          \/ psState[psWire[i].from] = "sent" /\ psCmd[psWire[i].from] = "begin"
    /\ \A i, j \in 1..Len(psWire) : i < j /\ Begins(i) /\ Begins(j) => Leaving(psWire[i].from)
    /\ dvTxn \in PcscClients /\ ~Leaving(dvTxn)
          => \A i \in 1..Len(psWire) : Begins(i) => psWire[i].from = dvTxn

\* while nothing went wrong, an answer is to the request of its program
HdFlow ==
    /\ \A i \in 1..Len(psWire) : psState[psWire[i].from] = "sent" => psWire[i].op = psCmd[psWire[i].from]
    /\ \A c \in PcscClients : psState[c] = "sent" /\ psCmd[c] = "end" /\ psAnswers # <<>> => dvTxn # c

HdRest == ~psStolen => HdTurn /\ HdCard /\ HdWire /\ (PsFlow => HdFlow)

HdInv ==
    /\ PcscTypeOK /\ psWire \in Seq([from : PcscClients, op : RemoteOps \union {"none"}])
    /\ HdTrans /\ HdSend /\ HdClients /\ HdArgs
    /\ PcscReaderHeld /\ PcscLockNotLeaked /\ HdRest

-----------------------------------------------------------------------------
\* the counts

LEMMA OneMore ==
  ASSUME NEW S, IsFiniteSet(S), NEW c
  PROVE  /\ Cardinality(S) \in Nat /\ Cardinality(S \union {c}) \in Nat /\ IsFiniteSet(S \union {c})
         /\ Cardinality(S \union {c}) <= Cardinality(S) + 1
         /\ S = {} <=> Cardinality(S) = 0
  <1>1. Cardinality(S) \in Nat
    BY FS_CardinalityType
  <1>2. /\ IsFiniteSet(S \union {c})
        /\ Cardinality(S \union {c}) = IF c \in S THEN Cardinality(S) ELSE Cardinality(S) + 1
    BY FS_AddElement
  <1>3. S = {} <=> Cardinality(S) = 0
    BY FS_EmptySet
  <1> QED  BY <1>1, <1>2, <1>3

LEMMA OneLess ==
  ASSUME NEW S, IsFiniteSet(S), NEW c
  PROVE  /\ Cardinality(S) \in Nat /\ Cardinality(S \ {c}) \in Nat /\ IsFiniteSet(S \ {c})
         /\ Cardinality(S \ {c}) <= Cardinality(S)
         /\ c \in S => Cardinality(S \ {c}) = Cardinality(S) - 1
  <1>1. Cardinality(S) \in Nat
    BY FS_CardinalityType
  <1>2. /\ IsFiniteSet(S \ {c})
        /\ Cardinality(S \ {c}) = IF c \in S THEN Cardinality(S) - 1 ELSE Cardinality(S)
    BY FS_RemoveElement
  <1>3. Cardinality(S \ {c}) \in Nat
    BY <1>2, FS_CardinalityType
  <1> QED  BY <1>1, <1>2, <1>3

\* who comes to a queue stands at its end
LEMMA AppendFits ==
  ASSUME NEW W, NEW q, WaitFits(q, W), NEW c, c \notin W
  PROVE  WaitFits(Append(q, c), W \union {c})
  <1>1. q \in Seq(W) /\ Len(q) \in Nat /\ \A i \in 1..Len(q) : q[i] \in W
    BY LenProperties DEF WaitFits
  <1>2. q \in Seq(W \union {c})
    BY <1>1
  <1>3. Append(q, c) \in Seq(W \union {c}) /\ Len(Append(q, c)) = Len(q) + 1
        /\ \A i \in 1..Len(q) + 1 : Append(q, c)[i] = IF i <= Len(q) THEN q[i] ELSE c
    BY <1>1, <1>2
  <1> QED  BY <1>1, <1>3 DEF WaitFits

\* lock()
LEMMA SendEntered ==
  ASSUME NEW m \in PcscMutex, NEW W \in SUBSET PcscClients, WaitFits(m.wait, W), NEW c \in PcscClients, c \notin W,
         NEW U, IsFiniteSet(U), m.n >= Cardinality(U)
  PROVE  /\ MutexEnter(m, c) \in PcscMutex
         /\ MutexEnter(m, c).n >= Cardinality(U \union {c})
         /\ WaitFits(MutexEnter(m, c).wait, IF m.n = 0 THEN W ELSE W \union {c})
  <1> DEFINE e == MutexEnter(m, c)
             q == IF m.n = 0 THEN m.wait ELSE Append(m.wait, c)
  <1>1. m.n \in Nat /\ m.wait \in Seq(PcscClients)
    BY DEF PcscMutex
  <1>2. q \in Seq(PcscClients)
    BY <1>1
  <1>3. e = [m EXCEPT !.n = m.n + 1, !.wait = q]
    BY DEF MutexEnter, PcscMutex
  <1>4. WaitFits(q, IF m.n = 0 THEN W ELSE W \union {c})
    BY AppendFits
  <1> HIDE DEF q
  <1>5. m.n + 1 \in Nat /\ m.n + 1 >= Cardinality(U \union {c})
    <2>1. /\ Cardinality(U) \in Nat /\ Cardinality(U \union {c}) \in Nat
          /\ Cardinality(U \union {c}) <= Cardinality(U) + 1
      BY OneMore
    <2> QED  BY <1>1, <2>1
  <1>6. e \in PcscMutex /\ e.n = m.n + 1 /\ e.wait = q
    BY <1>1, <1>2, <1>3, <1>5 DEF PcscMutex
  <1> QED  BY <1>4, <1>5, <1>6

\* unlock(), by one of those the lock counts
LEMMA SendLeft ==
  ASSUME NEW m \in PcscMutex, NEW W \in SUBSET PcscClients, WaitFits(m.wait, W),
         NEW U, IsFiniteSet(U), m.n >= Cardinality(U), NEW c \in U
  PROVE  /\ MutexLeave(m) \in PcscMutex /\ IsFiniteSet(U \ {c})
         /\ MutexLeave(m).n >= Cardinality(U \ {c})
         /\ WaitFits(MutexLeave(m).wait, W \ MutexWoken(m))
         /\ MutexWoken(m) \subseteq W
  <1> DEFINE e == MutexLeave(m)
             q == IF m.n > 1 /\ m.wait # <<>> THEN Tail(m.wait) ELSE m.wait
  <1>1. m.n \in Nat /\ m.wait \in Seq(PcscClients)
    BY DEF PcscMutex
  <1>2. q \in Seq(PcscClients)
    BY <1>1
  <1>3. e = [m EXCEPT !.n = m.n - 1, !.wait = q]
    BY DEF MutexLeave, PcscMutex
  <1>4. WaitFits(q, W \ MutexWoken(m)) /\ MutexWoken(m) \subseteq W
    <2>1. CASE m.n > 1 /\ m.wait # <<>>
      BY <2>1, TailFits DEF MutexWoken
    <2>2. CASE ~(m.n > 1 /\ m.wait # <<>>)
      <3>1. MutexWoken(m) = {} /\ W \ {} = W /\ q = m.wait
        BY <2>2 DEF MutexWoken
      <3> QED  BY <3>1
    <2> QED  BY <2>1, <2>2
  <1> HIDE DEF q
  <1>5. m.n - 1 \in Nat /\ m.n - 1 >= Cardinality(U \ {c}) /\ IsFiniteSet(U \ {c})
    <2>1. /\ Cardinality(U) \in Nat /\ Cardinality(U \ {c}) \in Nat /\ IsFiniteSet(U \ {c})
          /\ Cardinality(U \ {c}) = Cardinality(U) - 1
      BY OneLess
    <2> QED  BY <1>1, <2>1
  <1>6. e \in PcscMutex /\ e.n = m.n - 1 /\ e.wait = q
    BY <1>1, <1>2, <1>3, <1>5 DEF PcscMutex
  <1> QED  BY <1>4, <1>5, <1>6

LEMMA TransEntered ==
  ASSUME psTrans \in TransType, HdTrans, NEW c \in PcscClients, c \notin Barred
  PROVE  LET e == MutexEnter(psTrans, c)
         IN  /\ e \in TransType /\ e.owner = psTrans.owner
             /\ e.n = psTrans.n + 1 /\ e.n >= Cardinality(Waiting \union {c}) + Claims(e)
             /\ WaitFits(e.wait, IF psTrans.n = 0 THEN Barred ELSE Barred \union {c})
             /\ psTrans.n = 0 => Waiting = {} /\ psTrans.owner = PcscNoOne
  <1> DEFINE m == psTrans
             e == MutexEnter(m, c)
             q == IF m.n = 0 THEN m.wait ELSE Append(m.wait, c)
  <1>1. m.n \in Nat /\ m.wait \in Seq(PcscClients) /\ m.owner \in PcscClients \union {PcscNoOne}
    BY DEF TransType
  <1>2. q \in Seq(PcscClients)
    BY <1>1
  <1>3. e = [m EXCEPT !.n = m.n + 1, !.wait = q]
    BY DEF MutexEnter, TransType
  <1>4. WaitFits(q, IF m.n = 0 THEN Barred ELSE Barred \union {c})
    BY AppendFits DEF HdTrans
  <1> HIDE DEF q
  <1>5. m.n + 1 \in Nat
    BY <1>1
  <1>6. e \in TransType /\ e.n = m.n + 1 /\ e.wait = q /\ e.owner = m.owner
    BY <1>1, <1>2, <1>3, <1>5 DEF TransType
  <1>7. /\ Cardinality(Waiting) \in Nat /\ Cardinality(Waiting \union {c}) \in Nat
        /\ Cardinality(Waiting \union {c}) <= Cardinality(Waiting) + 1
        /\ Waiting = {} <=> Cardinality(Waiting) = 0
    BY OneMore DEF HdTrans
  <1>8. m.n >= Cardinality(Waiting) + Claims(m) /\ Claims(m) \in {0, 1} /\ Claims(e) = Claims(m)
        /\ (Claims(m) = 0 => m.owner = PcscNoOne)
    BY <1>6 DEF HdTrans, Claims
  <1>9. m.n + 1 >= Cardinality(Waiting \union {c}) + Claims(e) /\ (m.n = 0 => Waiting = {} /\ m.owner = PcscNoOne)
    BY <1>1, <1>7, <1>8
  <1> QED  BY <1>4, <1>6, <1>9

\* transactionUnlock: only whoever has it leaves it, and the first that waits is next
LEMMA TransLeft ==
  ASSUME psTrans \in TransType, HdTrans, NEW c \in PcscClients
  PROVE  LET e == TransLeave(psTrans, c)
             T == TransWoken(psTrans, c)
         IN  /\ e \in TransType /\ T \subseteq Barred /\ \A d, f \in T : d = f
             /\ WaitFits(e.wait, Barred \ T)
             /\ e.n >= Cardinality(Waiting) + Claims(e)
             /\ psTrans.owner # c => e = psTrans /\ T = {}
             /\ psTrans.owner = c => e.owner = PcscNoOne /\ (e.n > 0 /\ ~TransSpins(psTrans, c) => T # {})
  <1> DEFINE m == psTrans
             e == TransLeave(m, c)
             T == TransWoken(m, c)
  <1>1. m.n \in Nat /\ m.wait \in Seq(PcscClients) /\ m.owner \in PcscClients \union {PcscNoOne}
        /\ DOMAIN m = {"n", "wait", "owner"}
    BY DEF TransType
  <1>2. WaitFits(e.wait, Barred \ T) /\ T \subseteq Barred
    BY <1>1, TransLeaves DEF HdTrans
  <1>3. \A d, f \in T : d = f
    BY DEF TransWoken, MutexWoken
  <1>4. CASE m.owner # c
    <2>1. e = m /\ T = {}
      BY <1>4 DEF TransLeave, TransWoken
    <2> QED  BY <1>2, <1>3, <1>4, <2>1 DEF HdTrans
  <1>5. CASE m.owner = c
    <2> DEFINE q == IF m.n > 1 /\ m.wait # <<>> THEN Tail(m.wait) ELSE m.wait
    <2>1. q \in Seq(PcscClients)
      BY <1>1
    <2>2. e = [m EXCEPT !.n = m.n - 1, !.wait = q, !.owner = PcscNoOne]
      BY <1>5 DEF TransLeave, MutexLeave, TransType
    <2> HIDE DEF q
    <2>3. Claims(m) = 1 /\ Cardinality(Waiting) \in Nat /\ m.n >= Cardinality(Waiting) + Claims(m)
      BY <1>5, PcscAssumption, FS_CardinalityType DEF HdTrans, Claims
    <2>4. m.n - 1 \in Nat /\ m.n - 1 >= Cardinality(Waiting)
      BY <1>1, <2>3
    <2>5. e \in TransType /\ e.n = m.n - 1 /\ e.owner = PcscNoOne
      BY <1>1, <2>1, <2>2, <2>4 DEF TransType
    <2>6. e.n >= Cardinality(Waiting) + Claims(e)
      BY <2>3, <2>4, <2>5 DEF Claims
    <2>7. e.n > 0 /\ ~TransSpins(m, c) => T # {}
      BY <1>1, <1>5, <2>5 DEF TransSpins, MutexSpins, TransWoken, MutexWoken
    <2> QED  BY <1>2, <1>3, <1>5, <2>5, <2>6, <2>7
  <1> QED  BY <1>4, <1>5

\* a wait that is given up, or granted without anybody having left: its place is taken over
LEMMA TransTaken ==
  ASSUME psTrans \in TransType, HdTrans, NEW c \in Waiting, NEW t \in TransType,
         t.n = psTrans.n, t.owner = c
  PROVE  t.n >= Cardinality(Waiting \ {c}) + Claims(t) /\ IsFiniteSet(Waiting \ {c})
  <1>1. c \in PcscClients /\ Claims(t) = 1 /\ Claims(psTrans) \in {0, 1} /\ psTrans.n \in Nat
    BY PcscAssumption DEF Claims, Waiting, TransType
  <1>2. /\ Cardinality(Waiting) \in Nat /\ Cardinality(Waiting \ {c}) \in Nat /\ IsFiniteSet(Waiting \ {c})
        /\ Cardinality(Waiting \ {c}) = Cardinality(Waiting) - 1
    BY OneLess DEF HdTrans
  <1>3. psTrans.n >= Cardinality(Waiting) + Claims(psTrans)
    BY DEF HdTrans
  <1> QED  BY <1>1, <1>2, <1>3

\* the searches find what they look for
LEMMA LeastFound ==
  ASSUME NEW S, S \subseteq Nat, S # {}
  PROVE  Least(S) \in S
  BY NatLeast DEF Least

-----------------------------------------------------------------------------
\* c goes to s, those of S have send_lock_ now, and those of T trans_lock_
Moves(c, s, S, T) ==
    psState' = [d \in PcscClients |-> IF d = c THEN s ELSE IF d \in S THEN "sendGot"
                                      ELSE IF d \in T THEN "transGot" ELSE psState[d]]

LEMMA MovesSets ==
  ASSUME PcscTypeOK, NEW c \in PcscClients, NEW s \in PcscStates, NEW S \in SUBSET (Queued \ {c}),
         NEW T \in SUBSET (Barred \ {c}), Moves(c, s, S, T)
  PROVE  /\ psState' \in [PcscClients -> PcscStates] /\ psState'[c] = s
         /\ \A d \in PcscClients \ {c} :
               \/ psState'[d] = psState[d] /\ d \notin T
               \/ psState'[d] = "sendGot" /\ psState[d] = "sendWait" /\ d \notin T
               \/ psState'[d] = "transGot" /\ psState[d] = "transWait" /\ d \in T
         /\ Waiting' = IF s \in {"transWait", "transGot"} THEN Waiting \union {c} ELSE Waiting \ {c}
         /\ Using' = IF s \in {"sendWait", "sendGot", "sent"} THEN Using \union {c} ELSE Using \ {c}
         /\ Barred' = IF s = "transWait" THEN (Barred \ T) \union {c} ELSE (Barred \ T) \ {c}
         /\ Queued' = IF s = "sendWait" THEN (Queued \ S) \union {c} ELSE (Queued \ S) \ {c}
  <1>1. psState \in [PcscClients -> PcscStates]
    BY DEF PcscTypeOK
  <1>2. psState' \in [PcscClients -> PcscStates]
    BY <1>1 DEF Moves, PcscStates
  <1>3. /\ psState'[c] = s
        /\ \A d \in PcscClients \ {c} :
               \/ psState'[d] = psState[d] /\ d \notin T /\ d \notin S
               \/ psState'[d] = "sendGot" /\ psState[d] = "sendWait" /\ d \notin T /\ d \in S
               \/ psState'[d] = "transGot" /\ psState[d] = "transWait" /\ d \in T /\ d \notin S
    BY DEF Moves, Queued, Barred
  <1>4. Waiting' = IF s \in {"transWait", "transGot"} THEN Waiting \union {c} ELSE Waiting \ {c}
    BY <1>3 DEF Waiting
  <1>5. Using' = IF s \in {"sendWait", "sendGot", "sent"} THEN Using \union {c} ELSE Using \ {c}
    BY <1>3 DEF Using
  <1>6. Barred' = IF s = "transWait" THEN (Barred \ T) \union {c} ELSE (Barred \ T) \ {c}
    BY <1>3 DEF Barred
  <1>7. Queued' = IF s = "sendWait" THEN (Queued \ S) \union {c} ELSE (Queued \ S) \ {c}
    BY <1>3 DEF Queued
  <1> QED  BY <1>2, <1>3, <1>4, <1>5, <1>6, <1>7

\* nobody moves and no lock is touched
LEMMA SetsStay ==
  ASSUME HdTrans, HdSend, UNCHANGED <<psState, psTrans, psSend>>
  PROVE  HdTrans' /\ HdSend'
  <1>1. Waiting' = Waiting /\ Using' = Using /\ Barred' = Barred /\ Queued' = Queued
    BY DEF Waiting, Using, Barred, Queued
  <1> QED  BY <1>1 DEF HdTrans, HdSend, Claims

LEMMA WireOfClients ==
  ASSUME HdInv
  PROVE  \A i \in 1..Len(psWire) : psWire[i].from \in PcscClients /\ psWire[i].op \in RemoteOps \union {"none"}
  <1>1. psWire \in Seq([from : PcscClients, op : RemoteOps \union {"none"}])
    BY DEF HdInv
  <1>2. \A i \in 1..Len(psWire) : psWire[i] \in [from : PcscClients, op : RemoteOps \union {"none"}]
    BY <1>1, ElementOfSeq
  <1> QED  BY <1>2

\* those that come, and those that are served and stay so
LEMMA ClientsStay ==
  ASSUME PcscTypeOK, HdClients, NEW c \in PcscClients, Served(c), NEW s \in PcscStates \ {"out", "gone"},
         NEW S \in SUBSET (Queued \ {c}), NEW T \in SUBSET (Barred \ {c}), Moves(c, s, S, T),
         psClients' = psClients, \A p \in psStops' : ~p.find => p \in psStops
  PROVE  HdClients'
  <1>1. /\ psState'[c] = s
        /\ \A d \in PcscClients \ {c} :
               \/ psState'[d] = psState[d] /\ d \notin T
               \/ psState'[d] = "sendGot" /\ psState[d] = "sendWait" /\ d \notin T
               \/ psState'[d] = "transGot" /\ psState[d] = "transWait" /\ d \in T
    BY MovesSets
  <1>2. \A d \in PcscClients : Served(d)' <=> Served(d)
    BY <1>1 DEF Served
  <1>3. \A d \in PcscClients : psState[d] # "out" => psState'[d] # "out"
    BY <1>1
  <1> QED  BY <1>2, <1>3 DEF HdClients

\* A request is made.  Connect and BeginTransaction have trans_lock_ when they
\* come to the stream.
LEMMA AskHolds ==
  ASSUME HdInv, NEW c \in PcscClients, NEW op \in RemoteOps, Command(c, op), NEW arg, IsArg(op, arg), Ask(c, op, arg)
  PROVE  HdInv'
  <1>typ. /\ psTrans \in TransType /\ psSend \in PcscMutex /\ psState \in [PcscClients -> PcscStates]
          /\ Barred \subseteq PcscClients /\ Queued \subseteq PcscClients
    BY DEF HdInv, PcscTypeOK, TransType, Barred, Queued
  <1>1. /\ psRun = "run" /\ psState[c] = "idle" /\ c \notin Waiting /\ c \notin Using
        /\ c \notin Barred /\ c \notin Queued
        /\ UNCHANGED <<psChannel, psError, psClients, psReaders, psMap, psStops, psWire, psAnswers, dvTxn, psStolen,
                       psRun, psContext, psHandle, psReader>>
        /\ psCmd' = [psCmd EXCEPT ![c] = op] /\ psArg' = [psArg EXCEPT ![c] = arg]
    BY DEF Command, Ask, PcscStream, Waiting, Using, Barred, Queued
  <1> DEFINE sent == IF psSend.n = 0 THEN "sendGot" ELSE "sendWait"
  <1>2. PICK s \in {"sendGot", "sendWait", "transWait"} :
          /\ Moves(c, s, {}, {}) /\ psTrans' \in TransType /\ psSend' \in PcscMutex
          /\ \/ s # "transWait" /\ psSend' = MutexEnter(psSend, c) /\ s = sent
             \/ s = "transWait" /\ psSend' = psSend
          /\ \/ s # "transWait" /\ psTrans' = psTrans /\ op \notin TransOps
             \/ /\ psTrans' = [MutexEnter(psTrans, c) EXCEPT !.owner = c] /\ s # "transWait"
                /\ psTrans.n = 0
             \/ s = "transWait" /\ psTrans' = MutexEnter(psTrans, c) /\ psTrans.n # 0
    <2>1. MutexEnter(psSend, c) \in PcscMutex
      BY <1>1, <1>typ, SendEntered DEF HdInv, HdSend
    <2>2. MutexEnter(psTrans, c) \in TransType /\ [MutexEnter(psTrans, c) EXCEPT !.owner = c] \in TransType
      <3>1. MutexEnter(psTrans, c) \in TransType
        BY <1>1, <1>typ, TransEntered DEF HdInv
      <3> QED  BY <3>1 DEF TransType
    <2>3. \A x : psState' = [psState EXCEPT ![c] = x] => Moves(c, x, {}, {})
      BY <1>typ DEF Moves
    <2>4. sent \in {"sendGot", "sendWait"}
      OBVIOUS
    <2>5. CASE op \in TransOps /\ psTrans.n = 0
      <3>1. psTrans' = [MutexEnter(psTrans, c) EXCEPT !.owner = c] /\ psSend' = MutexEnter(psSend, c)
            /\ psState' = [psState EXCEPT ![c] = sent]
        BY <2>5 DEF Ask, EnterTrans
      <3> HIDE DEF sent
      <3> sent \in {"sendGot", "sendWait", "transWait"}
        BY <2>4
      <3> WITNESS sent \in {"sendGot", "sendWait", "transWait"}
      <3> QED  BY <2>1, <2>2, <2>3, <2>4, <2>5, <3>1
    <2>6. CASE op \in TransOps /\ psTrans.n # 0
      <3>1. psTrans' = MutexEnter(psTrans, c) /\ psSend' = psSend /\ psState' = [psState EXCEPT ![c] = "transWait"]
        BY <2>6 DEF Ask, EnterTrans
      <3> WITNESS "transWait" \in {"sendGot", "sendWait", "transWait"}
      <3> QED  BY <1>typ, <2>2, <2>3, <2>6, <3>1
    <2>7. CASE op \notin TransOps
      <3>1. psTrans' = psTrans /\ psSend' = MutexEnter(psSend, c) /\ psState' = [psState EXCEPT ![c] = sent]
        BY <2>7 DEF Ask, EnterSend
      <3> HIDE DEF sent
      <3> sent \in {"sendGot", "sendWait", "transWait"}
        BY <2>4
      <3> WITNESS sent \in {"sendGot", "sendWait", "transWait"}
      <3> QED  BY <1>typ, <2>1, <2>3, <2>4, <2>7, <3>1
    <2> QED  BY <2>5, <2>6, <2>7
  <1>3. /\ psState' \in [PcscClients -> PcscStates] /\ psState'[c] = s
        /\ \A d \in PcscClients \ {c} : psState'[d] = psState[d]
        /\ Waiting' = IF s = "transWait" THEN Waiting \union {c} ELSE Waiting
        /\ Using' = IF s # "transWait" THEN Using \union {c} ELSE Using
        /\ Barred' = IF s = "transWait" THEN Barred \union {c} ELSE Barred
        /\ Queued' = IF s = "sendWait" THEN Queued \union {c} ELSE Queued
    <2>1. /\ psState' \in [PcscClients -> PcscStates] /\ psState'[c] = s
          /\ \A d \in PcscClients \ {c} : psState'[d] = psState[d]
      BY <1>2, <1>typ DEF Moves, PcscStates
    <2>2. Waiting' = IF s = "transWait" THEN Waiting \union {c} ELSE Waiting
      BY <1>1, <1>2, <2>1 DEF Waiting
    <2>3. Using' = IF s # "transWait" THEN Using \union {c} ELSE Using
      BY <1>1, <1>2, <2>1 DEF Using
    <2>4. Barred' = IF s = "transWait" THEN Barred \union {c} ELSE Barred
      BY <1>1, <1>2, <2>1 DEF Barred
    <2>5. Queued' = IF s = "sendWait" THEN Queued \union {c} ELSE Queued
      BY <1>1, <1>2, <2>1 DEF Queued
    <2> QED  BY <2>1, <2>2, <2>3, <2>4, <2>5
  <1>4. HdTrans' /\ (psTrans.n = 0 => Waiting = {} /\ psTrans.owner = PcscNoOne)
    <2> DEFINE e == MutexEnter(psTrans, c)
    <2>1. /\ e \in TransType /\ e.owner = psTrans.owner /\ e.n >= Cardinality(Waiting \union {c}) + Claims(e)
          /\ WaitFits(e.wait, IF psTrans.n = 0 THEN Barred ELSE Barred \union {c}) /\ e.n = psTrans.n + 1
          /\ psTrans.n = 0 => Waiting = {} /\ psTrans.owner = PcscNoOne
      BY <1>1, <1>typ, TransEntered DEF HdInv
    <2> HIDE DEF e
    <2>2. IsFiniteSet(Waiting')
      BY <1>3, OneMore DEF HdInv, HdTrans
    <2>3. CASE s # "transWait" /\ psTrans' = psTrans
      BY <1>3, <2>1, <2>3 DEF HdInv, HdTrans, Claims
    <2>4. CASE psTrans' = [e EXCEPT !.owner = c] /\ s # "transWait" /\ psTrans.n = 0
      <3>1. Cardinality(Waiting) = 0 /\ Waiting' = Waiting /\ Barred' = Barred
        BY <1>3, <2>1, <2>4, FS_EmptySet
      <3>2. psTrans'.n = 1 /\ psTrans'.wait = e.wait /\ psTrans'.owner = c
        BY <2>1, <2>4 DEF TransType
      <3>3. Claims(psTrans') = 1
        BY <3>2, PcscAssumption DEF Claims
      <3> QED  BY <2>1, <2>2, <2>4, <3>1, <3>2, <3>3 DEF HdTrans
    <2>5. CASE s = "transWait" /\ psTrans' = e /\ psTrans.n # 0
      BY <1>3, <2>1, <2>2, <2>5 DEF HdTrans, Claims
    <2> QED  BY <1>2, <2>1, <2>3, <2>4, <2>5 DEF e
  <1>5. HdSend'
    <2>1. CASE s = "transWait"
      BY <1>2, <1>3, <2>1 DEF HdInv, HdSend
    <2>2. CASE s # "transWait"
      <3>1. /\ MutexEnter(psSend, c).n >= Cardinality(Using \union {c})
            /\ WaitFits(MutexEnter(psSend, c).wait, IF psSend.n = 0 THEN Queued ELSE Queued \union {c})
        BY <1>1, <1>typ, SendEntered DEF HdInv, HdSend
      <3>2. IsFiniteSet(Using') /\ Using' = Using \union {c} /\ psSend' = MutexEnter(psSend, c)
        BY <1>2, <1>3, <2>2, OneMore DEF HdInv, HdSend
      <3>3. Queued' = IF psSend.n = 0 THEN Queued ELSE Queued \union {c}
        BY <1>2, <1>3, <2>2
      <3> QED  BY <3>1, <3>2, <3>3 DEF HdSend
    <2> QED  BY <2>1, <2>2
  <1>6. PcscTypeOK'
    <2>1. psCmd' \in [PcscClients -> RemoteOps \union {"none"}]
      BY <1>1 DEF HdInv, PcscTypeOK
    <2> QED  BY <1>1, <1>2, <1>3, <2>1 DEF HdInv, PcscTypeOK, TransType
  <1>7. HdClients'
    <2>1. \A d \in PcscClients : (Served(d)' <=> Served(d)) /\ (psState[d] # "out" => psState'[d] # "out")
      BY <1>1, <1>3 DEF Served
    <2> QED  BY <1>1, <2>1 DEF HdInv, HdClients
  <1>8. HdArgs' /\ PcscReaderHeld'
    <2>1. \A d \in PcscClients : IsArg(psCmd[d], psArg[d])'
      <3>0. DOMAIN psCmd = PcscClients /\ DOMAIN psArg = PcscClients
        BY DEF HdInv, PcscTypeOK, HdArgs
      <3> QED  BY <1>1, <3>0 DEF HdInv, HdArgs, IsArg
    <2> QED  BY <1>1, <2>1 DEF HdInv, HdArgs, PcscReaderHeld
  <1>9. PcscLockNotLeaked'
    <2> SUFFICES ASSUME psTrans'.n > 0
                 PROVE  \/ psTrans'.owner # PcscNoOne /\ psState'[psTrans'.owner] \notin {"out", "gone"}
                        \/ \E d \in PcscClients : psState'[d] = "transGot"
      BY DEF PcscLockNotLeaked
    <2>1. CASE psTrans' = [MutexEnter(psTrans, c) EXCEPT !.owner = c] /\ s # "transWait"
      <3>1. psTrans'.owner = c /\ c # PcscNoOne
        BY <1>2, <2>1, PcscAssumption DEF TransType, MutexEnter
      <3> QED  BY <1>2, <1>3, <3>1
    <2>2. CASE psTrans'.owner = psTrans.owner /\ psTrans.n > 0
      <3>1. \/ psTrans.owner # PcscNoOne /\ psState[psTrans.owner] \notin {"out", "gone"}
            \/ \E d \in PcscClients : psState[d] = "transGot"
        BY <1>1, <2>2 DEF HdInv, PcscLockNotLeaked
      <3>2. psTrans.owner \in PcscClients \union {PcscNoOne} /\ psState'[c] \notin {"out", "gone"}
        BY <1>2, <1>3, <1>typ DEF TransType
      <3> QED  BY <1>1, <1>3, <2>2, <3>1, <3>2
    <2>3. \/ psTrans'.owner = psTrans.owner /\ psTrans.n > 0
          \/ psTrans' = [MutexEnter(psTrans, c) EXCEPT !.owner = c] /\ s # "transWait"
      <3>1. psTrans.n \in Nat /\ MutexEnter(psTrans, c).owner = psTrans.owner
        BY <1>typ DEF TransType, MutexEnter
      <3>2. CASE psTrans' = psTrans
        BY <3>2
      <3>3. CASE psTrans' = MutexEnter(psTrans, c) /\ psTrans.n # 0
        BY <3>1, <3>3
      <3> QED  BY <1>2, <3>2, <3>3
    <2> QED  BY <2>1, <2>2, <2>3
  <1>10. HdRest'
    <2> SUFFICES ASSUME ~psStolen
                 PROVE  HdTurn' /\ HdCard' /\ HdWire' /\ (PsFlow' => HdFlow')
      BY <1>1 DEF HdRest
    <2>1. HdTurn /\ HdCard /\ HdWire /\ (PsFlow => HdFlow)
      BY <1>1 DEF HdInv, HdRest
    <2>2. /\ \A d \in PcscClients \ {c} : psCmd'[d] = psCmd[d] /\ psState'[d] = psState[d]
          /\ psCmd'[c] = op /\ psState'[c] = s /\ psState[c] = "idle"
      BY <1>1, <1>3 DEF HdInv, PcscTypeOK
    <2>3. \/ psTrans'.owner = psTrans.owner /\ (s # "transWait" => op \notin TransOps)
          \/ psTrans'.owner = c /\ psTrans.owner = PcscNoOne /\ Waiting = {} /\ s # "transWait"
      <3>1. MutexEnter(psTrans, c).owner = psTrans.owner
            /\ [MutexEnter(psTrans, c) EXCEPT !.owner = c].owner = c
        BY <1>typ DEF TransType, MutexEnter
      <3> QED  BY <1>2, <1>4, <3>1
    <2>4. HdTurn'
      BY <2>1, <2>2, <2>3, <1>2, PcscAssumption DEF HdTurn, Using, Waiting
    <2>5. HdCard'
      BY <1>1, <2>1, <2>2, <2>3, <1>2, PcscAssumption DEF HdCard, Using, Leaving, TransOps
    <2>wire. \A i \in 1..Len(psWire) : psWire[i].from \in PcscClients
      BY WireOfClients
    <2>6. HdWire'
      BY <1>1, <2>wire, <2>1, <2>2, <1>2 DEF HdInv, HdWire, Leaving, Begins
    <2>7. PsFlow' => HdFlow'
      BY <1>1, <2>wire, <2>1, <2>2, <1>2 DEF HdInv, HdFlow, PsFlow
    <2> QED  BY <2>4, <2>5, <2>6, <2>7
  <1> QED  BY <1>1, <1>4, <1>5, <1>6, <1>7, <1>8, <1>9, <1>10 DEF HdInv

LEMMA AnswersRest ==
  ASSUME HdArgs, psAnswers # <<>>
  PROVE  Tail(psAnswers) \in Seq(PcscReplies) /\ Head(psAnswers) \in PcscReplies
  BY DEF HdArgs

LEMMA NoneIsIn ==
  ASSUME NEW q, q = <<>>, NEW i \in 1..Len(q)
  PROVE  FALSE
  OBVIOUS

LEMMA TailOfOne ==
  ASSUME NEW q, NEW x, q = <<x>>
  PROVE  Tail(q) = <<>>
  OBVIOUS

LEMMA FlowRests ==
  ASSUME psWire' = <<>>, psAnswers' = <<>>
  PROVE  HdFlow'
  BY DEF HdFlow

LEMMA LeastOfSlots ==
  ASSUME NEW n \in Nat, NEW S, S \subseteq 1..n, S # {}
  PROVE  Least(S) \in 1..n
  <1>1. S \subseteq Nat
    OBVIOUS
  <1> QED  BY <1>1, LeastFound

LEMMA RestOfNames ==
  ASSUME NEW names \in Seq(PcscNames), NEW k \in 1..Len(names)
  PROVE  SubSeq(names, k, Len(names)) \in Seq(PcscNames) /\ SubSeq(names, k, Len(names)) # <<>>
  <1>1. Len(names) \in Nat
    BY LenProperties
  <1>2. SubSeq(names, k, Len(names)) \in Seq(PcscNames) /\ Len(SubSeq(names, k, Len(names))) = Len(names) - k + 1
    BY <1>1, SubSeqProperties
  <1>3. Len(names) - k + 1 # 0
    BY <1>1
  <1> QED  BY <1>2, <1>3, EmptySeq

LEMMA HeadOf ==
  ASSUME NEW X, NEW q \in Seq(X), q # <<>>
  PROVE  Head(q) \in X
  OBVIOUS

LEMMA TailOf ==
  ASSUME NEW X, NEW q \in Seq(X), q # <<>>
  PROVE  Tail(q) \in Seq(X)
  OBVIOUS

\* A client that ends, or is refused, gives trans_lock_ back if it has it.
LEMMA UnlockHolds ==
  ASSUME HdInv, NEW c \in PcscClients, psState[c] \in {"idle", "ending"}, NEW s \in {"ending", "gone"}, Unlocks(c, s),
         IF s = "ending" THEN UNCHANGED <<psClients, psCmd, psArg, psContext, psHandle, psReader>>
                         ELSE /\ psState[c] = "ending" /\ psClients' = EraseClient(c)
                              /\ psCmd' = [psCmd EXCEPT ![c] = "none"] /\ psArg' = [psArg EXCEPT ![c] = NoArg]
                              /\ psContext' = [psContext EXCEPT ![c] = FALSE]
                              /\ psHandle' = [psHandle EXCEPT ![c] = FALSE]
                              /\ psReader' = [psReader EXCEPT ![c] = 0],
         UNCHANGED <<psChannel, psError, psReaders, psMap, psStops, dvTxn, psStolen>>,
         psRun' \in {psRun, "spin", "ub"}, TransSpins(psTrans, c) => psRun' # "run"
  PROVE  HdInv'
  <1> DEFINE e == TransLeave(psTrans, c)
             T == TransWoken(psTrans, c)
  <1>typ. /\ psTrans \in TransType /\ psSend \in PcscMutex /\ psState \in [PcscClients -> PcscStates]
          /\ Barred \subseteq PcscClients /\ Queued \subseteq PcscClients
    BY DEF HdInv, PcscTypeOK, TransType, Barred, Queued
  <1>1. c \notin Waiting /\ c \notin Using /\ c \notin Barred /\ c \notin Queued
    BY DEF Waiting, Using, Barred, Queued
  <1>2. /\ e \in TransType /\ T \subseteq Barred /\ \A d, f \in T : d = f
        /\ WaitFits(e.wait, Barred \ T) /\ e.n >= Cardinality(Waiting) + Claims(e)
        /\ psTrans.owner # c => e = psTrans /\ T = {}
        /\ psTrans.owner = c => e.owner = PcscNoOne /\ (e.n > 0 /\ ~TransSpins(psTrans, c) => T # {})
    BY <1>typ, TransLeft DEF HdInv
  <1>3. /\ psTrans' = e /\ UNCHANGED <<psSend, psWire, psAnswers>>
        /\ psState' = [d \in PcscClients |-> IF d = c THEN s ELSE IF d \in T THEN "transGot" ELSE psState[d]]
    BY DEF Unlocks
  <1> HIDE DEF e, T
  <1>4. /\ psState' \in [PcscClients -> PcscStates] /\ psState'[c] = s
        /\ \A d \in PcscClients \ {c} :
              \/ psState'[d] = psState[d] /\ d \notin T
              \/ psState'[d] = "transGot" /\ psState[d] = "transWait" /\ d \in T
    BY <1>2, <1>3, <1>typ DEF PcscStates, Barred
  <1>5. Waiting' = Waiting /\ Using' = Using /\ Barred' = Barred \ T /\ Queued' = Queued
    <2>1. Waiting' = Waiting
      BY <1>1, <1>4 DEF Waiting
    <2>2. Using' = Using
      BY <1>1, <1>4 DEF Using
    <2>3. Barred' = Barred \ T
      BY <1>1, <1>4 DEF Barred
    <2>4. Queued' = Queued
      BY <1>1, <1>4 DEF Queued
    <2> QED  BY <2>1, <2>2, <2>3, <2>4
  <1>6. HdTrans' /\ HdSend'
    BY <1>2, <1>3, <1>5 DEF HdInv, HdTrans, HdSend, Claims
  <1>7. psClients' \in Seq(PcscClients) /\ IsInjective(psClients')
        /\ \A d \in PcscClients : Served(d)' <=> \E i \in 1..Len(psClients') : psClients'[i] = d
    <2>1. CASE s = "ending"
      <3>1. \A d \in PcscClients : Served(d)' <=> Served(d)
        BY <1>4, <2>1 DEF Served
      <3> QED  BY <2>1, <3>1 DEF HdInv, HdClients, PcscTypeOK
    <2>2. CASE s = "gone"
      <3>1. \A d \in PcscClients : Served(d)' <=> d # c /\ Served(d)
        BY <1>4, <2>2 DEF Served
      <3>2. PICK i \in 1..Len(psClients) : psClients[i] = c /\ psClients' = RemoveAt(psClients, i)
        <4>1. \E i \in 1..Len(psClients) : psClients[i] = c
          BY <2>2 DEF HdInv, HdClients, Served
        <4> QED  BY <2>2, <4>1 DEF EraseClient
      <3>3. /\ psClients' \in Seq(PcscClients) /\ IsInjective(psClients')
            /\ Range(psClients') = Range(psClients) \ {c}
        <4>1. psClients \in Seq(PcscClients) /\ IsInjective(psClients)
          BY DEF HdInv, PcscTypeOK
        <4> DEFINE r == SubSeq(psClients, 1, i - 1) \o SubSeq(psClients, i + 1, Len(psClients))
        <4>2. r \in Seq(PcscClients) /\ IsInjective(r) /\ Range(r) = Range(psClients) \ {psClients[i]}
          BY <4>1, ListErased
        <4>3. psClients' = r
          BY <3>2 DEF RemoveAt
        <4> HIDE DEF r
        <4> QED  BY <3>2, <4>2, <4>3
      <3>4. \A d \in PcscClients : d \in Range(psClients') <=> d # c /\ d \in Range(psClients)
        BY <3>3
      <3>5. DOMAIN psClients = 1..Len(psClients) /\ DOMAIN psClients' = 1..Len(psClients')
        BY <3>3, LenProperties DEF HdInv, PcscTypeOK
      <3>6. \A d \in PcscClients : (d \in Range(psClients) <=> Served(d)) /\ (d \in Range(psClients') <=> Served(d)')
        BY <3>1, <3>4, <3>5 DEF HdInv, HdClients, Range
      <3> QED  BY <3>3, <3>5, <3>6 DEF Range
    <2> QED  BY <2>1, <2>2
  <1>8. HdClients'
    BY <1>4, <1>7 DEF HdInv, HdClients
  <1>9. PcscTypeOK'
    <2>1. CASE s = "ending"
      BY <1>2, <1>3, <1>4, <1>7, <2>1 DEF HdInv, PcscTypeOK, TransType
    <2>2. CASE s = "gone"
      <3>1. psCmd' \in [PcscClients -> RemoteOps \union {"none"}] /\ psContext' \in [PcscClients -> BOOLEAN]
        BY <2>2 DEF HdInv, PcscTypeOK
      <3>2. psHandle' \in [PcscClients -> BOOLEAN]
        BY <2>2 DEF HdInv, PcscTypeOK
      <3>3. psReader' \in [PcscClients -> 0..PcscSlots]
        <4>1. psReader' = [psReader EXCEPT ![c] = 0]
          BY <2>2
        <4>2. psReader \in [PcscClients -> 0..PcscSlots]
          BY DEF HdInv, PcscTypeOK
        <4>3. 0 \in 0..PcscSlots
          BY PcscAssumption
        <4> QED  BY <4>1, <4>2, <4>3
      <3> QED  BY <1>2, <1>3, <1>4, <1>7, <3>1, <3>2, <3>3 DEF HdInv, PcscTypeOK, TransType
    <2> QED  BY <2>1, <2>2
  <1>10. HdArgs' /\ PcscReaderHeld'
    <2>0. /\ DOMAIN psCmd = PcscClients /\ DOMAIN psArg = PcscClients /\ DOMAIN psHandle = PcscClients
          /\ DOMAIN psReader = PcscClients
      BY DEF HdInv, PcscTypeOK, HdArgs
    <2>1. \A d \in PcscClients : IsArg(psCmd[d], psArg[d])' /\ (psHandle'[d] => psReader'[d] # 0)
      BY <2>0 DEF HdInv, HdArgs, IsArg, PcscReaderHeld
    <2> QED  BY <1>3, <2>0, <2>1 DEF HdInv, HdArgs, PcscReaderHeld
  <1>11. PcscLockNotLeaked'
    <2> SUFFICES ASSUME psTrans'.n > 0, psRun' = "run"
                 PROVE  \/ psTrans'.owner # PcscNoOne /\ psState'[psTrans'.owner] \notin {"out", "gone"}
                        \/ \E d \in PcscClients : psState'[d] = "transGot"
      BY DEF PcscLockNotLeaked
    <2>1. CASE psTrans.owner = c
      <3>1. PICK d \in T : TRUE
        BY <1>2, <1>3, <2>1
      <3>2. d \in PcscClients /\ d # c
        BY <1>1, <1>2, <1>typ, <3>1
      <3> QED  BY <1>4, <3>1, <3>2
    <2>2. CASE psTrans.owner # c
      <3>1. \/ psTrans.owner # PcscNoOne /\ psState[psTrans.owner] \notin {"out", "gone"}
            \/ \E d \in PcscClients : psState[d] = "transGot"
        BY <1>2, <1>3, <2>2 DEF HdInv, PcscLockNotLeaked
      <3>2. psTrans.owner \in PcscClients \union {PcscNoOne} /\ psTrans' = psTrans /\ T = {}
        BY <1>2, <1>3, <1>typ, <2>2 DEF TransType
      <3> QED  BY <1>4, <2>2, <3>1, <3>2
    <2> QED  BY <2>1, <2>2
  <1>12. HdRest'
    <2> SUFFICES ASSUME ~psStolen
                 PROVE  HdTurn' /\ HdCard' /\ HdWire' /\ (PsFlow' => HdFlow')
      BY DEF HdRest
    <2>1. HdTurn /\ HdCard /\ HdWire /\ (PsFlow => HdFlow)
      BY DEF HdInv, HdRest
    <2>2. \A d \in PcscClients \ {c} : psCmd'[d] = psCmd[d]
      BY DEF HdInv, PcscTypeOK
    <2>3. \/ psTrans.owner # c /\ T = {} /\ psTrans'.owner = psTrans.owner
          \/ psTrans.owner = c /\ psTrans'.owner = PcscNoOne
      BY <1>2, <1>3
    <2>4. c # PcscNoOne
      BY PcscAssumption
    <2>5. HdTurn'
      <3>1. \A d, f \in PcscClients : psState'[d] = "transGot" /\ psState'[f] = "transGot" => d = f
        BY <1>2, <1>4, <2>1, <2>3, <2>4 DEF HdTurn
      <3>2. \A d \in PcscClients : psState'[d] = "transGot" => psTrans'.owner = PcscNoOne
        BY <1>4, <2>1, <2>3 DEF HdTurn
      <3>3. \A d \in Using' : psCmd'[d] \in TransOps => psTrans'.owner = d
        <4>1. \A d \in Using : d \in PcscClients \ {c}
          BY <1>1 DEF Using
        <4> QED  BY <1>5, <2>1, <2>2, <2>3, <4>1 DEF HdTurn
      <3> QED  BY <3>1, <3>2, <3>3 DEF HdTurn
    <2>6. HdCard'
      <3>1. dvTxn' \in PcscClients /\ ~Leaving(dvTxn)' => psTrans'.owner = dvTxn'
        BY <1>4, <2>1, <2>3 DEF HdCard, Leaving
      <3>2. \A d \in Using : d \in PcscClients \ {c} /\ (psState'[d] = "sent" <=> psState[d] = "sent")
        BY <1>1, <1>4 DEF Using
      <3> QED  BY <1>5, <2>1, <2>2, <3>1, <3>2 DEF HdCard
    <2>wire. \A i \in 1..Len(psWire) : psWire[i].from \in PcscClients
      BY WireOfClients
    <2>7. \A d \in PcscClients : (Leaving(d) => Leaving(d)') /\ (~Leaving(d)' => ~Leaving(d))
                                 /\ (psState[d] = "sent" <=> psState'[d] = "sent")
      BY <1>4 DEF Leaving
    <2>8. HdWire'
      BY <1>3, <1>4, <2>wire, <2>1, <2>2, <2>7 DEF HdWire, Begins
    <2>9. PsFlow' => HdFlow'
      BY <1>3, <1>4, <2>wire, <2>1, <2>2, <2>7 DEF HdFlow, PsFlow
    <2> QED  BY <2>5, <2>6, <2>8, <2>9
  <1> QED  BY <1>3, <1>6, <1>8, <1>9, <1>10, <1>11, <1>12 DEF HdInv

\* A program that has been granted trans_lock_ takes it, and comes to the stream.
LEMMA LockHolds ==
  ASSUME HdInv, NEW c \in PcscClients, TransactionLock(c)
  PROVE  HdInv'
  <1> DEFINE s == IF psSend.n = 0 THEN "sendGot" ELSE "sendWait"
  <1>typ. /\ psTrans \in TransType /\ psSend \in PcscMutex /\ psState \in [PcscClients -> PcscStates]
          /\ Barred \subseteq PcscClients /\ Queued \subseteq PcscClients
    BY DEF HdInv, PcscTypeOK, TransType, Barred, Queued
  <1>1. /\ psState[c] = "transGot" /\ c \in Waiting /\ c \notin Using /\ c \notin Barred /\ c \notin Queued
        /\ UNCHANGED <<psRun, psChannel, psError, psClients, psCmd, psArg, psContext, psHandle, psReader, psReaders,
                       psMap, psStops, psWire, psAnswers, dvTxn, psStolen>>
        /\ psTrans' = [psTrans EXCEPT !.owner = c] /\ psSend' = MutexEnter(psSend, c)
        /\ psState' = [psState EXCEPT ![c] = s]
    BY DEF TransactionLock, PcscDaemon, PcscTables, PcscStream, Waiting, Using, Barred, Queued
  <1>2. s \in {"sendGot", "sendWait"} /\ (s = "sendGot" <=> psSend.n = 0)
    OBVIOUS
  <1> HIDE DEF s
  <1>3. /\ psState' \in [PcscClients -> PcscStates] /\ psState'[c] = s
        /\ \A d \in PcscClients \ {c} : psState'[d] = psState[d]
    BY <1>1, <1>2, <1>typ DEF PcscStates
  <1>4. /\ Waiting' = Waiting \ {c} /\ Using' = Using \union {c} /\ Barred' = Barred
        /\ Queued' = IF psSend.n = 0 THEN Queued ELSE Queued \union {c}
    <2>1. Waiting' = Waiting \ {c}
      BY <1>2, <1>3 DEF Waiting
    <2>2. Using' = Using \union {c}
      BY <1>2, <1>3 DEF Using
    <2>3. Barred' = Barred
      BY <1>1, <1>2, <1>3 DEF Barred
    <2>4. Queued' = IF psSend.n = 0 THEN Queued ELSE Queued \union {c}
      BY <1>1, <1>2, <1>3 DEF Queued
    <2> QED  BY <2>1, <2>2, <2>3, <2>4
  <1>5. psTrans' \in TransType /\ psTrans'.owner = c /\ psTrans'.n = psTrans.n /\ psTrans'.wait = psTrans.wait
        /\ c # PcscNoOne
    BY <1>1, <1>typ, PcscAssumption DEF TransType
  <1>6. HdTrans'
    <2>1. psTrans'.n >= Cardinality(Waiting \ {c}) + Claims(psTrans') /\ IsFiniteSet(Waiting \ {c})
      BY <1>1, <1>5, <1>typ, TransTaken DEF HdInv
    <2> QED  BY <1>4, <1>5, <2>1 DEF HdInv, HdTrans, Claims
  <1>7. HdSend' /\ psSend' \in PcscMutex
    <2>1. /\ MutexEnter(psSend, c).n >= Cardinality(Using \union {c})
          /\ WaitFits(MutexEnter(psSend, c).wait, IF psSend.n = 0 THEN Queued ELSE Queued \union {c})
          /\ MutexEnter(psSend, c) \in PcscMutex
      BY <1>1, <1>typ, SendEntered DEF HdInv, HdSend
    <2>2. IsFiniteSet(Using \union {c})
      BY OneMore DEF HdInv, HdSend
    <2> QED  BY <1>1, <1>4, <2>1, <2>2 DEF HdSend
  <1>8. PcscTypeOK'
    BY <1>1, <1>3, <1>5, <1>7 DEF HdInv, PcscTypeOK, TransType
  <1>9. HdClients'
    <2>1. \A d \in PcscClients : (Served(d)' <=> Served(d)) /\ (psState[d] # "out" => psState'[d] # "out")
      BY <1>1, <1>2, <1>3 DEF Served
    <2> QED  BY <1>1, <2>1 DEF HdInv, HdClients
  <1>10. HdArgs' /\ PcscReaderHeld'
    BY <1>1 DEF HdInv, HdArgs, IsArg, PcscReaderHeld
  <1>11. PcscLockNotLeaked'
    BY <1>2, <1>3, <1>5 DEF PcscLockNotLeaked
  <1>12. HdRest'
    <2> SUFFICES ASSUME ~psStolen
                 PROVE  HdTurn' /\ HdCard' /\ HdWire' /\ (PsFlow' => HdFlow')
      BY <1>1 DEF HdRest
    <2>1. HdTurn /\ HdCard /\ HdWire /\ (PsFlow => HdFlow)
      BY <1>1 DEF HdInv, HdRest
    <2>2. psTrans.owner = PcscNoOne /\ \A d \in PcscClients \ {c} : psState[d] # "transGot"
      BY <1>1, <2>1 DEF HdTurn
    <2>3. \A d \in Using : psCmd[d] \notin TransOps
      BY <1>5, <2>1, <2>2, PcscAssumption DEF HdTurn, Using
    <2>4. HdTurn'
      BY <1>1, <1>2, <1>3, <1>4, <1>5, <2>2, <2>3 DEF HdTurn
    <2>5. dvTxn \in PcscClients => Leaving(dvTxn) /\ dvTxn # c
      BY <1>1, <2>1, <2>2, PcscAssumption DEF HdCard, Leaving
    <2>6. \A d \in PcscClients : Leaving(d)' <=> Leaving(d)
      BY <1>1, <1>2, <1>3 DEF Leaving
    <2>7. HdCard'
      BY <1>1, <1>4, <1>5, <2>3, <2>5, <2>6 DEF HdCard, TransOps
    <2>wire. \A i \in 1..Len(psWire) : psWire[i].from \in PcscClients
      BY WireOfClients
    <2>8. \A d \in PcscClients : psState'[d] = "sent" <=> psState[d] = "sent"
      BY <1>1, <1>2, <1>3
    <2>9. HdWire'
      BY <1>1, <2>wire, <2>1, <2>6, <2>8 DEF HdWire, Begins
    <2>10. PsFlow' => HdFlow'
      BY <1>1, <2>wire, <2>1, <2>8 DEF HdFlow, PsFlow
    <2> QED  BY <2>4, <2>7, <2>9, <2>10
  <1> QED  BY <1>1, <1>6, <1>7, <1>8, <1>9, <1>10, <1>11, <1>12 DEF HdInv

\* The request goes out: the stream is that of its program, and only the
\* program that has trans_lock_ asks for a transaction.
LEMMA SendHolds ==
  ASSUME HdInv, PsInv', NEW c \in PcscClients, SendRequest(c)
  PROVE  HdInv'
  <1>typ. psState \in [PcscClients -> PcscStates] /\ psCmd \in [PcscClients -> RemoteOps \union {"none"}]
    BY DEF HdInv, PcscTypeOK
  <1> DEFINE m == [from |-> c, op |-> psCmd[c]]
             n == Len(psWire)
  <1>1. /\ psState[c] = "sendGot" /\ psState' = [psState EXCEPT ![c] = "sent"]
        /\ UNCHANGED <<psRun, psChannel, psError, psClients, psCmd, psArg, psContext, psHandle, psReader, psTrans, psSend,
                       psReaders, psMap, psStops, psAnswers, dvTxn, psStolen>>
        /\ psWire' = Append(psWire, m)
    BY DEF SendRequest, PcscDaemon, PcscTables, PcscLocks
  <1>2. /\ psState' \in [PcscClients -> PcscStates] /\ psState'[c] = "sent"
        /\ \A d \in PcscClients \ {c} : psState'[d] = psState[d]
    BY <1>1, <1>typ DEF PcscStates
  <1>3. Waiting' = Waiting /\ Using' = Using /\ Barred' = Barred /\ Queued' = Queued
    BY <1>1, <1>2 DEF Waiting, Using, Barred, Queued
  <1>4. /\ psWire' \in Seq([from : PcscClients, op : RemoteOps \union {"none"}])
        /\ n \in Nat /\ Len(psWire') = n + 1 /\ psWire'[n + 1] = m /\ m.from = c /\ m.op = psCmd[c]
        /\ \A i \in 1..n : psWire'[i] = psWire[i] /\ psWire[i].from \in PcscClients
        /\ \A i \in 1..(n + 1) : i \in 1..n \/ i = n + 1
    <2>1. m \in [from : PcscClients, op : RemoteOps \union {"none"}]
      BY <1>typ
    <2>2. psWire \in Seq([from : PcscClients, op : RemoteOps \union {"none"}])
      BY DEF HdInv
    <2>3. n \in Nat /\ m.from = c /\ m.op = psCmd[c] /\ \A i \in 1..n : psWire[i].from \in PcscClients
      BY <2>2, LenProperties, WireOfClients
    <2> HIDE DEF m
    <2>4. /\ psWire' \in Seq([from : PcscClients, op : RemoteOps \union {"none"}])
          /\ Len(psWire') = n + 1 /\ psWire'[n + 1] = m /\ \A i \in 1..n : psWire'[i] = psWire[i]
      BY <1>1, <2>1, <2>2, AppendProperties
    <2> HIDE DEF n
    <2>5. \A i \in 1..(n + 1) : i \in 1..n \/ i = n + 1
      BY <2>3
    <2> QED  BY <2>3, <2>4, <2>5
  <1> HIDE DEF m, n
  <1>5. HdTrans' /\ HdSend'
    BY <1>1, <1>3 DEF HdInv, HdTrans, HdSend, Claims
  <1>6. PcscTypeOK'
    BY <1>1, <1>2 DEF HdInv, PcscTypeOK
  <1>7. HdClients'
    <2>1. \A d \in PcscClients : (Served(d)' <=> Served(d)) /\ (psState[d] # "out" => psState'[d] # "out")
      BY <1>1, <1>2 DEF Served
    <2> QED  BY <1>1, <2>1 DEF HdInv, HdClients
  <1>8. HdArgs' /\ PcscReaderHeld'
    BY <1>1 DEF HdInv, HdArgs, IsArg, PcscReaderHeld
  <1>9. PcscLockNotLeaked'
    <2>1. psTrans.owner \in PcscClients \union {PcscNoOne}
      BY DEF HdInv, PcscTypeOK
    <2> QED  BY <1>1, <1>2, <2>1 DEF HdInv, PcscLockNotLeaked
  <1>10. HdRest'
    <2> SUFFICES ASSUME ~psStolen
                 PROVE  HdTurn' /\ HdCard' /\ HdWire' /\ (PsFlow' => HdFlow')
      BY <1>1 DEF HdRest
    <2>1. HdTurn /\ HdCard /\ HdWire /\ (PsFlow => HdFlow)
      BY <1>1 DEF HdInv, HdRest
    <2>2. \A d \in PcscClients : Leaving(d)' <=> Leaving(d)
      BY <1>1, <1>2 DEF Leaving
    <2>3. c \in Using /\ ~Leaving(c)
      BY <1>1 DEF Using, Leaving
    <2>4. HdTurn'
      BY <1>1, <1>2, <1>3, <2>1 DEF HdTurn
    <2>5. HdCard'
      BY <1>1, <1>2, <1>3, <2>1, <2>2 DEF HdCard, Using
    <2>6. \A i \in 1..n : Begins(i) =>
             \/ Leaving(psWire[i].from)
             \/ psWire[i].from # c /\ psState[psWire[i].from] = "sent" /\ psCmd[psWire[i].from] = "begin"
      BY <1>1, <2>1, <2>3 DEF HdWire, n
    <2>7. \A i \in 1..n : Begins(i) /\ psCmd[c] = "begin" => Leaving(psWire[i].from)
      <3> SUFFICES ASSUME NEW i \in 1..n, Begins(i), psCmd[c] = "begin", ~Leaving(psWire[i].from)
                   PROVE  FALSE
        OBVIOUS
      <3>1. psWire[i].from \in Using /\ psCmd[psWire[i].from] = "begin" /\ psWire[i].from # c
        BY <1>4, <2>6 DEF Using
      <3>2. psTrans.owner = psWire[i].from /\ psTrans.owner = c
        BY <2>1, <2>3, <3>1 DEF HdTurn, TransOps
      <3> QED  BY <3>1, <3>2
    <2>8. dvTxn \in PcscClients /\ ~Leaving(dvTxn) => psCmd[c] # "begin"
      <3> SUFFICES ASSUME dvTxn \in PcscClients, ~Leaving(dvTxn), psCmd[c] = "begin"
                   PROVE  FALSE
        OBVIOUS
      <3>1. psTrans.owner = dvTxn /\ psTrans.owner = c /\ dvTxn # c
        BY <1>1, <2>1, <2>3 DEF HdTurn, HdCard, TransOps
      <3> QED  BY <3>1
    <2>9. HdWire'
      <3>1. \A i \in 1..(n + 1) : Begins(i)' <=> IF i = n + 1 THEN psCmd[c] = "begin" ELSE Begins(i)
        BY <1>4 DEF Begins
      <3>2. \A i \in 1..(n + 1) : Begins(i)' =>
               \/ Leaving(psWire[i].from)'
               \/ psState'[psWire'[i].from] = "sent" /\ psCmd'[psWire'[i].from] = "begin"
        BY <1>1, <1>2, <1>4, <2>2, <2>6, <3>1
      <3>3. \A i, j \in 1..(n + 1) : i < j /\ Begins(i)' /\ Begins(j)' => Leaving(psWire[i].from)'
        <4> SUFFICES ASSUME NEW i \in 1..(n + 1), NEW j \in 1..(n + 1), i < j, Begins(i)', Begins(j)'
                     PROVE  Leaving(psWire[i].from)'
          OBVIOUS
        <4>1. i \in 1..n /\ psWire'[i] = psWire[i] /\ psWire[i].from \in PcscClients /\ Begins(i)
          BY <1>4, <3>1
        <4>2. CASE j = n + 1
          BY <2>2, <2>7, <3>1, <4>1, <4>2
        <4>3. CASE j \in 1..n
          <5>1. Begins(j)
            BY <1>4, <3>1, <4>3
          <5>2. Leaving(psWire[i].from)
            BY <2>1, <4>1, <4>3, <5>1 DEF HdWire, n
          <5> QED  BY <2>2, <4>1, <5>2
        <4> QED  BY <1>4, <4>2, <4>3
      <3>4. dvTxn' \in PcscClients /\ ~Leaving(dvTxn)'
               => \A i \in 1..(n + 1) : Begins(i)' => psWire'[i].from = dvTxn'
        <4> SUFFICES ASSUME dvTxn \in PcscClients, ~Leaving(dvTxn), NEW i \in 1..(n + 1), Begins(i)'
                     PROVE  psWire'[i].from = dvTxn
          BY <1>1, <2>2
        <4>1. i \in 1..n /\ Begins(i)
          BY <1>4, <2>8, <3>1
        <4> QED  BY <1>4, <2>1, <4>1 DEF HdWire, n
      <3> QED  BY <1>4, <3>2, <3>3, <3>4 DEF HdWire
    <2>10. ASSUME PsFlow' PROVE HdFlow'
      <3>1. StreamFits'
        BY <2>10 DEF PsInv, PsKept
      <3>2. PICK x : psWire' = <<x>> /\ psAnswers' = <<>>
        <4>1. psWire' # <<>>
          BY <1>4, EmptySeq
        <4> QED  BY <3>1, <4>1 DEF StreamFits, RequestOf
      <3>3. Len(psWire') = 1 /\ psWire'[1] = x
        BY <3>2
      <3>4. n \in Nat /\ n + 1 = 1
        BY <1>4, <3>3
      <3>5. psWire'[1] = m /\ m.from = c /\ m.op = psCmd[c]
        BY <1>4, <3>4
      <3> QED  BY <1>1, <1>2, <3>2, <3>3, <3>5 DEF HdFlow
    <2> QED  BY <2>4, <2>5, <2>9, <2>10
  <1> QED  BY <1>4, <1>5, <1>6, <1>7, <1>8, <1>9, <1>10 DEF HdInv

\* An answer ends its request: send_lock_ is left for the next one, and
\* trans_lock_ by the one that has it when it is connected, or at its end.
LEMMA CompleteHolds ==
  ASSUME HdInv, PsInv, NEW c \in PcscClients, NEW op \in RemoteOps, NEW ok, Answered(c, op, ok),
         NEW alive \in BOOLEAN, NEW more \in {"none", "list", "change"}, NEW arg, IsArg(more, arg),
         Complete(c, alive, more, arg),
         more # "none" => alive /\ op \in {"establish", "list", "change"},
         psContext' \in [PcscClients -> BOOLEAN], psHandle' \in [PcscClients -> BOOLEAN],
         psReader' \in [PcscClients -> 0..PcscSlots], PcscReaderHeld',
         psReaders' \in [1..PcscSlots -> PcscNames \union {""}], psMap' \subseteq PcscClients,
         \A p \in psStops' : ~p.find => p \in psStops
  PROVE  HdInv'
  <1> DEFINE leaves == op \in {"connect", "end"} \/ ~alive
             m == MutexLeave(psSend)
             S == MutexWoken(psSend)
             T == IF leaves THEN TransWoken(psTrans, c) ELSE {}
             e == IF leaves THEN TransLeave(psTrans, c) ELSE psTrans
             s == IF more # "none" THEN IF m.n = 0 THEN "sendGot" ELSE "sendWait"
                  ELSE IF alive /\ ~psError' THEN "idle" ELSE "ending"
  <1>typ. /\ psTrans \in TransType /\ psSend \in PcscMutex /\ psState \in [PcscClients -> PcscStates]
          /\ Barred \subseteq PcscClients /\ Queued \subseteq PcscClients /\ psError \in BOOLEAN
    BY DEF HdInv, PcscTypeOK, TransType, Barred, Queued
  <1>1. /\ psRun \in {"run", "stopping"} /\ psCmd[c] = op /\ psState[c] \in {"sent", "sendGot"}
        /\ psWire' = psWire /\ (psError => psError') /\ psError' \in BOOLEAN
        /\ \/ psAnswers # <<>> /\ psState[c] = "sent" /\ psAnswers' = Tail(psAnswers)
           \/ psAnswers' = psAnswers /\ psError'
    BY <1>typ DEF Answered, Running
  <1>2. c \notin Waiting /\ c \in Using /\ c \notin Barred /\ c \notin Queued
    BY <1>1 DEF Waiting, Using, Barred, Queued
  <1>3. /\ m \in PcscMutex /\ IsFiniteSet(Using \ {c}) /\ m.n >= Cardinality(Using \ {c})
        /\ WaitFits(m.wait, Queued \ S) /\ S \subseteq Queued
    BY <1>2, <1>typ, SendLeft DEF HdInv, HdSend
  <1>4. /\ e \in TransType /\ T \subseteq Barred /\ \A d, f \in T : d = f
        /\ WaitFits(e.wait, Barred \ T) /\ e.n >= Cardinality(Waiting) + Claims(e)
        /\ psTrans.owner # c \/ ~leaves => e = psTrans /\ T = {}
        /\ psTrans.owner = c /\ leaves
              => e.owner = PcscNoOne /\ (e.n > 0 /\ ~TransSpins(psTrans, c) => T # {})
    <2>1. CASE leaves
      BY <1>typ, <2>1, TransLeft DEF HdInv
    <2>2. CASE ~leaves
      <3>1. e = psTrans /\ T = {} /\ Barred \ T = Barred
        BY <2>2
      <3> QED  BY <1>typ, <2>2, <3>1 DEF HdInv, HdTrans
    <2> QED  BY <2>1, <2>2
  <1>5. /\ psSend' = IF more # "none" THEN MutexEnter(m, c) ELSE m
        /\ psTrans' = e /\ Moves(c, s, S, T)
        /\ psCmd' = [psCmd EXCEPT ![c] = more] /\ psArg' = [psArg EXCEPT ![c] = arg]
        /\ psRun' = IF MutexSpins(psSend) \/ (leaves /\ TransSpins(psTrans, c)) THEN "spin"
                    ELSE IF more = "none" /\ psChannel = "reset" THEN "ub"
                    ELSE IF more = "none" /\ psError' THEN "stopping"
                    ELSE psRun
        /\ UNCHANGED <<psChannel, psClients, dvTxn, psStolen>>
    BY <1>1 DEF Complete, Moves
  <1>6. /\ s \in {"sendGot", "sendWait", "idle", "ending"} /\ s \in PcscStates \ {"out", "gone"}
        /\ (more # "none" => s = IF m.n = 0 THEN "sendGot" ELSE "sendWait")
        /\ (more = "none" => s \in {"idle", "ending"}) /\ (~alive \/ psError' => more # "none" \/ s = "ending")
    BY DEF PcscStates
  <1>7. leaves <=> op \in {"connect", "end"} \/ ~alive
    OBVIOUS
  <1> HIDE DEF leaves, m, S, T, e, s
  <1>8. S \in SUBSET (Queued \ {c}) /\ T \in SUBSET (Barred \ {c}) /\ s \in PcscStates
    BY <1>2, <1>3, <1>4, <1>6
  <1>9. /\ psState' \in [PcscClients -> PcscStates] /\ psState'[c] = s
        /\ \A d \in PcscClients \ {c} :
              \/ psState'[d] = psState[d] /\ d \notin T
              \/ psState'[d] = "sendGot" /\ psState[d] = "sendWait" /\ d \notin T
              \/ psState'[d] = "transGot" /\ psState[d] = "transWait" /\ d \in T
        /\ Waiting' = IF s \in {"transWait", "transGot"} THEN Waiting \union {c} ELSE Waiting \ {c}
        /\ Using' = IF s \in {"sendWait", "sendGot", "sent"} THEN Using \union {c} ELSE Using \ {c}
        /\ Barred' = IF s = "transWait" THEN (Barred \ T) \union {c} ELSE (Barred \ T) \ {c}
        /\ Queued' = IF s = "sendWait" THEN (Queued \ S) \union {c} ELSE (Queued \ S) \ {c}
    <2>1. PICK s1, S1, T1 : s1 = s /\ S1 = S /\ T1 = T
      OBVIOUS
    <2>2. PcscTypeOK /\ Moves(c, s1, S1, T1)
      BY <1>5, <2>1 DEF HdInv, Moves
    <2>3. s1 \in PcscStates /\ S1 \in SUBSET (Queued \ {c}) /\ T1 \in SUBSET (Barred \ {c})
      BY <1>8, <2>1
    <2>4. /\ psState' \in [PcscClients -> PcscStates] /\ psState'[c] = s1
          /\ \A d \in PcscClients \ {c} :
                \/ psState'[d] = psState[d] /\ d \notin T1
                \/ psState'[d] = "sendGot" /\ psState[d] = "sendWait" /\ d \notin T1
                \/ psState'[d] = "transGot" /\ psState[d] = "transWait" /\ d \in T1
      BY <2>2, <2>3, MovesSets
    <2>5. Waiting' = IF s1 \in {"transWait", "transGot"} THEN Waiting \union {c} ELSE Waiting \ {c}
      BY <2>2, <2>3, MovesSets
    <2>6. Using' = IF s1 \in {"sendWait", "sendGot", "sent"} THEN Using \union {c} ELSE Using \ {c}
      BY <2>2, <2>3, MovesSets
    <2>7. Barred' = IF s1 = "transWait" THEN (Barred \ T1) \union {c} ELSE (Barred \ T1) \ {c}
      BY <2>2, <2>3, MovesSets
    <2>8. Queued' = IF s1 = "sendWait" THEN (Queued \ S1) \union {c} ELSE (Queued \ S1) \ {c}
      BY <2>2, <2>3, PcscAssumption DEF Moves, Queued, Barred
    <2> QED  BY <2>1, <2>4, <2>5, <2>6, <2>7, <2>8
  <1>10. /\ Waiting' = Waiting /\ Barred' = Barred \ T
         /\ Using' = IF more # "none" THEN (Using \ {c}) \union {c} ELSE Using \ {c}
         /\ Queued' = IF more # "none" /\ m.n # 0 THEN (Queued \ S) \union {c} ELSE Queued \ S
    BY <1>2, <1>6, <1>9
  <1>11. HdTrans'
    BY <1>4, <1>5, <1>10 DEF HdInv, HdTrans, Claims
  <1>12. HdSend' /\ psSend' \in PcscMutex
    <2>1. CASE more = "none"
      BY <1>3, <1>5, <1>10, <2>1 DEF HdSend
    <2>2. CASE more # "none"
      <3>1. Queued \ S \in SUBSET PcscClients /\ c \notin Queued \ S
        BY <1>2, <1>typ
      <3>2. /\ MutexEnter(m, c) \in PcscMutex /\ MutexEnter(m, c).n >= Cardinality((Using \ {c}) \union {c})
            /\ WaitFits(MutexEnter(m, c).wait, IF m.n = 0 THEN Queued \ S ELSE (Queued \ S) \union {c})
        BY <1>3, <3>1, SendEntered
      <3>3. IsFiniteSet((Using \ {c}) \union {c})
        BY <1>3, OneMore
      <3>4. Queued' = IF m.n = 0 THEN Queued \ S ELSE (Queued \ S) \union {c}
        BY <1>10, <2>2
      <3>5. psSend' = MutexEnter(m, c) /\ Using' = (Using \ {c}) \union {c}
        BY <1>5, <1>10, <2>2
      <3> QED  BY <3>2, <3>3, <3>4, <3>5 DEF HdSend
    <2> QED  BY <2>1, <2>2
  <1>13. PcscTypeOK'
    <2>1. psCmd' \in [PcscClients -> RemoteOps \union {"none"}]
      BY <1>5 DEF HdInv, PcscTypeOK, RemoteOps
    <2>2. psRun' \in {"run", "stopping", "spin", "ub", "stopped"}
      BY <1>1, <1>5
    <2> QED  BY <1>1, <1>4, <1>5, <1>9, <1>12, <2>1, <2>2 DEF HdInv, PcscTypeOK, TransType
  <1>14. HdClients'
    <2>1. Served(c)
      BY <1>1 DEF Served
    <2> QED  BY <1>5, <1>6, <1>8, <2>1, ClientsStay DEF HdInv
  <1>15. HdArgs'
    <2>0. DOMAIN psCmd = PcscClients /\ DOMAIN psArg = PcscClients
      BY DEF HdInv, PcscTypeOK, HdArgs
    <2>1. \A d \in PcscClients : IsArg(psCmd'[d], psArg'[d])
      BY <1>5, <2>0 DEF HdInv, HdArgs
    <2>2. psAnswers' \in Seq(PcscReplies)
      BY <1>1, AnswersRest DEF HdInv, HdArgs
    <2>3. psRun' = "stopping" => psError'
      BY <1>1, <1>5 DEF HdInv, HdArgs
    <2> QED  BY <1>5, <2>0, <2>1, <2>2, <2>3 DEF HdArgs, IsArg, PcscReplies
  <1>16. PcscLockNotLeaked'
    <2> SUFFICES ASSUME psTrans'.n > 0, psRun' = "run"
                 PROVE  \/ psTrans'.owner # PcscNoOne /\ psState'[psTrans'.owner] \notin {"out", "gone"}
                        \/ \E d \in PcscClients : psState'[d] = "transGot"
      BY DEF PcscLockNotLeaked
    <2>0. psRun = "run" /\ ~(leaves /\ TransSpins(psTrans, c))
      BY <1>1, <1>5
    <2>1. CASE psTrans.owner = c /\ leaves
      <3>1. PICK d \in T : TRUE
        BY <1>4, <1>5, <2>0, <2>1
      <3>2. d \in PcscClients /\ d # c
        BY <1>8, <1>typ, <3>1
      <3> QED  BY <1>9, <3>1, <3>2
    <2>2. CASE psTrans.owner # c \/ ~leaves
      <3>1. psTrans' = psTrans /\ T = {}
        BY <1>4, <1>5, <2>2
      <3>2. \/ psTrans.owner # PcscNoOne /\ psState[psTrans.owner] \notin {"out", "gone"}
            \/ \E d \in PcscClients : psState[d] = "transGot"
        BY <2>0, <3>1 DEF HdInv, PcscLockNotLeaked
      <3>3. psTrans.owner \in PcscClients \union {PcscNoOne}
        BY <1>typ DEF TransType
      <3> QED  BY <1>1, <1>6, <1>9, <3>1, <3>2, <3>3
    <2> QED  BY <2>1, <2>2
  <1>flow. ~psError' => PsFlow /\ psWire = <<>> /\ psAnswers # <<>> /\ psAnswers' = <<>> /\ psState[c] = "sent"
    <2> SUFFICES ASSUME ~psError'
                 PROVE  PsFlow /\ psWire = <<>> /\ psAnswers # <<>> /\ psAnswers' = <<>> /\ psState[c] = "sent"
      OBVIOUS
    <2>1. PsFlow
      BY <1>1 DEF PsFlow, HdInv, HdArgs
    <2>2. psAnswers # <<>> /\ psState[c] = "sent" /\ psAnswers' = Tail(psAnswers)
      BY <1>1
    <2>3. psWire = <<>> /\ \E x : psAnswers = <<x>>
      BY <2>1, <2>2 DEF PsInv, PsKept, StreamFits, RequestOf
    <2>4. psAnswers' = <<>>
      BY <2>2, <2>3, TailOfOne
    <2> QED  BY <2>1, <2>2, <2>3, <2>4
  <1>17. HdRest'
    <2> SUFFICES ASSUME ~psStolen
                 PROVE  HdTurn' /\ HdCard' /\ HdWire' /\ (PsFlow' => HdFlow')
      BY <1>5 DEF HdRest
    <2>1. HdTurn /\ HdCard /\ HdWire /\ (PsFlow => HdFlow)
      BY DEF HdInv, HdRest
    <2>2. /\ \A d \in PcscClients \ {c} : psCmd'[d] = psCmd[d]
          /\ psCmd'[c] = more /\ more \notin TransOps
      BY <1>5 DEF HdInv, PcscTypeOK, TransOps
    <2>3. \/ psTrans'.owner = psTrans.owner /\ T = {} /\ (psTrans.owner # c \/ ~leaves)
          \/ psTrans.owner = c /\ psTrans'.owner = PcscNoOne /\ leaves
      BY <1>4, <1>5
    <2>4. c # PcscNoOne
      BY PcscAssumption
    <2>5. HdTurn'
      <3>1. \A d, f \in PcscClients : psState'[d] = "transGot" /\ psState'[f] = "transGot" => d = f
        BY <1>4, <1>6, <1>9, <2>1, <2>3, <2>4 DEF HdTurn
      <3>2. \A d \in PcscClients : psState'[d] = "transGot" => psTrans'.owner = PcscNoOne
        BY <1>6, <1>9, <2>1, <2>3 DEF HdTurn
      <3>3. \A d \in Using' : psCmd'[d] \in TransOps => psTrans'.owner = d
        <4>1. \A d \in Using' : d \in Using /\ d \in PcscClients
          BY <1>2, <1>10 DEF Using
        <4>2. \A d \in Using : psCmd[d] \in TransOps => psTrans.owner = d
          BY <2>1 DEF HdTurn
        <4>3. ASSUME NEW d \in Using', psCmd'[d] \in TransOps PROVE psTrans'.owner = d
          <5>1. d # c /\ psCmd[d] \in TransOps /\ d \in Using
            BY <2>2, <4>1, <4>3
          <5> QED  BY <2>3, <4>2, <5>1
        <4> QED  BY <4>3
      <3> QED  BY <3>1, <3>2, <3>3 DEF HdTurn
    <2>6. \A d \in PcscClients : (Leaving(d) => Leaving(d)') /\ (d # c /\ psState[d] = "sent" => psState'[d] = "sent")
                                 /\ (psState'[d] = "sent" => d # c /\ psState[d] = "sent")
      BY <1>1, <1>6, <1>9 DEF Leaving
    <2>7. HdCard'
      <3>1. dvTxn \in PcscClients /\ ~Leaving(dvTxn)' => psTrans'.owner = dvTxn
        <4> SUFFICES ASSUME dvTxn \in PcscClients, ~Leaving(dvTxn)', psTrans'.owner # dvTxn
                     PROVE  FALSE
          OBVIOUS
        <4>1. psTrans.owner = dvTxn
          BY <1>5, <2>1, <2>6 DEF HdCard
        <4>2. dvTxn = c /\ leaves
          BY <2>3, <4>1
        <4>3. op # "connect"
          BY <1>1, <1>2, <2>1, <4>2 DEF HdCard
        <4>4. s # "ending"
          BY <1>5, <1>9, <4>2 DEF Leaving
        <4>5. alive /\ op = "end" /\ more = "none"
          BY <1>6, <1>7, <4>2, <4>3, <4>4
        <4>6. ~psError'
          BY <1>6, <4>4, <4>5
        <4> QED  BY <1>1, <1>flow, <2>1, <4>2, <4>5, <4>6 DEF HdFlow
      <3>2. \A d \in Using' : d = c \/ (d \in Using /\ d \in PcscClients \ {c} /\ (psState'[d] # "sent" => psState[d] # "sent"))
        BY <1>9, <1>10 DEF Using
      <3> QED  BY <1>5, <2>1, <2>2, <3>1, <3>2 DEF HdCard, TransOps
    <2>wire. \A i \in 1..Len(psWire) : psWire[i].from \in PcscClients
      BY WireOfClients
    <2>8. HdWire'
      <3>1. \A i \in 1..Len(psWire) : Begins(i) =>
               \/ Leaving(psWire[i].from)'
               \/ psState'[psWire[i].from] = "sent" /\ psCmd'[psWire[i].from] = "begin"
        <4> SUFFICES ASSUME NEW i \in 1..Len(psWire), Begins(i), ~Leaving(psWire[i].from)'
                     PROVE  psState'[psWire[i].from] = "sent" /\ psCmd'[psWire[i].from] = "begin"
          OBVIOUS
        <4>1. psState[psWire[i].from] = "sent" /\ psCmd[psWire[i].from] = "begin" /\ psWire[i].from \in PcscClients
          BY <1>1, <2>1, <2>6, <2>wire DEF HdWire
        <4>2. psWire[i].from # c
          <5> SUFFICES ASSUME psWire[i].from = c
                       PROVE  FALSE
            OBVIOUS
          <5>1. more = "none" /\ s # "ending"
            BY <1>1, <1>5, <1>9, <4>1 DEF Leaving
          <5>2. psWire = <<>>
            BY <1>6, <1>flow, <5>1
          <5> QED  BY <5>2, NoneIsIn
        <4> QED  BY <2>2, <2>6, <4>1, <4>2
      <3>2. \A i, j \in 1..Len(psWire) : i < j /\ Begins(i) /\ Begins(j) => Leaving(psWire[i].from)'
        BY <1>1, <2>1, <2>6, <2>wire DEF HdWire
      <3>3. dvTxn \in PcscClients /\ ~Leaving(dvTxn)' => \A i \in 1..Len(psWire) : Begins(i) => psWire[i].from = dvTxn
        BY <1>1, <1>5, <2>1, <2>6 DEF HdWire
      <3> QED  BY <1>1, <1>5, <3>1, <3>2, <3>3 DEF HdWire, Begins
    <2>9. PsFlow' => HdFlow'
      <3> SUFFICES ASSUME PsFlow' PROVE HdFlow'
        OBVIOUS
      <3>1. psWire' = <<>> /\ psAnswers' = <<>>
        BY <1>1, <1>flow DEF PsFlow
      <3> QED  BY <3>1, FlowRests
    <2> QED  BY <2>5, <2>7, <2>8, <2>9
  <1> QED  BY <1>1, <1>11, <1>12, <1>13, <1>14, <1>15, <1>16, <1>17 DEF HdInv

\* What moves nobody, in the daemon or the stream.
LEMMA StillHolds ==
  ASSUME HdInv,
         UNCHANGED <<psClients, psState, psCmd, psArg, psHandle, psReader, psTrans, psSend, psWire, psAnswers, dvTxn, psStolen>>,
         psRun' \in {"run", "stopping", "spin", "ub", "stopped"}, psRun' = "run" => psRun = "run",
         psRun' = "stopping" => psError', psError => psError', psError' \in BOOLEAN,
         psChannel' \in {"none", "opened", "up", "down", "reset"}, psContext' \in [PcscClients -> BOOLEAN],
         psReaders' \in [1..PcscSlots -> PcscNames \union {""}], psMap' \subseteq PcscClients,
         \A p \in psStops' : ~p.find => p \in psStops \/ (p.of \in PcscClients /\ psState[p.of] # "out")
  PROVE  HdInv'
  <1>1. HdTrans' /\ HdSend' /\ Using' = Using
    BY SetsStay DEF HdInv, Using
  <1>2. PcscTypeOK'
    BY DEF HdInv, PcscTypeOK
  <1>3. HdClients'
    BY DEF HdInv, HdClients, Served
  <1>4. HdArgs' /\ PcscReaderHeld' /\ PcscLockNotLeaked'
    BY DEF HdInv, HdArgs, IsArg, PcscReplies, PcscReaderHeld, PcscLockNotLeaked
  <1>5. HdRest'
    <2> SUFFICES ASSUME ~psStolen
                 PROVE  HdTurn' /\ HdCard' /\ HdWire' /\ (PsFlow' => HdFlow')
      BY DEF HdRest
    <2>1. HdTurn /\ HdCard /\ HdWire /\ (PsFlow => HdFlow)
      BY DEF HdInv, HdRest
    <2>2. HdTurn'
      BY <1>1, <2>1 DEF HdTurn
    <2>3. HdCard'
      BY <1>1, <2>1 DEF HdCard, Leaving
    <2>4. HdWire'
      BY <2>1 DEF HdWire, Leaving, Begins
    <2>5. PsFlow' => HdFlow'
      BY <2>1 DEF HdFlow, PsFlow
    <2> QED  BY <2>2, <2>3, <2>4, <2>5
  <1> QED  BY <1>1, <1>2, <1>3, <1>4, <1>5 DEF HdInv

\* A program that waits for nothing is asked to end.
LEMMA EndsHolds ==
  ASSUME HdInv, NEW c \in PcscClients, psState[c] \in {"idle", "ending"}, psState' = [psState EXCEPT ![c] = "ending"],
         UNCHANGED <<psRun, psChannel, psError, psClients, psCmd, psArg, psContext, psHandle, psReader, psTrans, psSend,
                     psReaders, psMap, psWire, psAnswers, dvTxn, psStolen>>,
         psStops' \subseteq psStops
  PROVE  HdInv'
  <1>1. /\ psState' \in [PcscClients -> PcscStates] /\ psState'[c] = "ending"
        /\ \A d \in PcscClients \ {c} : psState'[d] = psState[d]
    BY DEF HdInv, PcscTypeOK, PcscStates
  <1>2. Waiting' = Waiting /\ Using' = Using /\ Barred' = Barred /\ Queued' = Queued
    BY <1>1 DEF Waiting, Using, Barred, Queued
  <1>3. HdTrans' /\ HdSend'
    BY <1>2 DEF HdInv, HdTrans, HdSend, Claims
  <1>4. PcscTypeOK'
    BY <1>1 DEF HdInv, PcscTypeOK
  <1>5. HdClients'
    <2>1. \A d \in PcscClients : (Served(d)' <=> Served(d)) /\ (psState[d] # "out" => psState'[d] # "out")
      BY <1>1 DEF Served
    <2> QED  BY <2>1 DEF HdInv, HdClients
  <1>6. HdArgs' /\ PcscReaderHeld'
    BY DEF HdInv, HdArgs, IsArg, PcscReplies, PcscReaderHeld
  <1>7. PcscLockNotLeaked'
    <2>1. psTrans.owner \in PcscClients \union {PcscNoOne}
      BY DEF HdInv, PcscTypeOK
    <2> QED  BY <1>1, <2>1 DEF HdInv, PcscLockNotLeaked
  <1>8. HdRest'
    <2> SUFFICES ASSUME ~psStolen
                 PROVE  HdTurn' /\ HdCard' /\ HdWire' /\ (PsFlow' => HdFlow')
      BY DEF HdRest
    <2>1. HdTurn /\ HdCard /\ HdWire /\ (PsFlow => HdFlow)
      BY DEF HdInv, HdRest
    <2>2. \A d \in PcscClients : (Leaving(d) => Leaving(d)') /\ (psState'[d] = "sent" <=> psState[d] = "sent")
      BY <1>1 DEF Leaving
    <2>3. HdTurn'
      BY <1>1, <1>2, <2>1 DEF HdTurn
    <2>4. HdCard'
      BY <1>2, <2>1, <2>2 DEF HdCard, Using
    <2>wire. \A i \in 1..Len(psWire) : psWire[i].from \in PcscClients
      BY WireOfClients
    <2>5. HdWire'
      BY <2>1, <2>2, <2>wire DEF HdWire, Begins
    <2>6. PsFlow' => HdFlow'
      BY <2>1, <2>2, <2>wire DEF HdFlow, PsFlow
    <2> QED  BY <2>3, <2>4, <2>5, <2>6
  <1> QED  BY <1>3, <1>4, <1>5, <1>6, <1>7, <1>8 DEF HdInv

\* an aborted wait leaves the count alone
LEMMA AbortCounts ==
  ASSUME NEW m \in TransType \union PcscMutex, NEW c, NEW W, WaitFits(m.wait, W)
  PROVE  /\ WaitFits(MutexAbort(m, c).wait, W \ {c})
         /\ MutexAbort(m, c) = [m EXCEPT !.wait = MutexAbort(m, c).wait]
         /\ MutexAbort(m, c).wait \in Seq(W)
  <1>1. WaitFits(MutexAbort(m, c).wait, W \ {c})
    <2>1. "wait" \in DOMAIN m
      BY DEF TransType, PcscMutex
    <2> QED  BY <2>1, AbortFits
  <1>2. MutexAbort(m, c) = [m EXCEPT !.wait = MutexAbort(m, c).wait]
    <2>1. CASE \E i \in 1..Len(m.wait) : m.wait[i] = c
      <3>1. PICK q : MutexAbort(m, c) = [m EXCEPT !.wait = q]
        BY <2>1 DEF MutexAbort
      <3>2. MutexAbort(m, c).wait = q
        BY <3>1
      <3> QED  BY <3>1, <3>2
    <2>2. CASE ~\E i \in 1..Len(m.wait) : m.wait[i] = c
      <3>1. MutexAbort(m, c) = m
        BY <2>2 DEF MutexAbort
      <3>2. m = [m EXCEPT !.wait = m.wait]
        BY DEF TransType, PcscMutex
      <3> QED  BY <3>1, <3>2
    <2> QED  BY <2>1, <2>2
  <1>3. MutexAbort(m, c).wait \in Seq(W)
    <2>1. MutexAbort(m, c).wait \in Seq(W \ {c})
      BY <1>1 DEF WaitFits
    <2>2. W \ {c} \subseteq W
      OBVIOUS
    <2> QED  BY <2>1, <2>2, SeqMonotonic
  <1> QED  BY <1>1, <1>2, <1>3

\* A stop signal meets a program that waits for trans_lock_, or has just been
\* granted it: it has the lock in its hands now, and will leave it.
LEMMA StopTransHolds ==
  ASSUME HdInv, NEW c \in Waiting, psState' = [psState EXCEPT ![c] = "ending"],
         psTrans' = [MutexAbort(psTrans, c) EXCEPT !.owner = c],
         psStolen' = (psStolen \/ psState[c] = "transWait"),
         UNCHANGED <<psRun, psChannel, psError, psClients, psCmd, psArg, psContext, psHandle, psReader, psSend,
                     psReaders, psMap, psWire, psAnswers, dvTxn>>,
         psStops' \subseteq psStops
  PROVE  HdInv'
  <1> DEFINE a == MutexAbort(psTrans, c)
  <1>typ. /\ psTrans \in TransType /\ psState \in [PcscClients -> PcscStates]
          /\ Barred \subseteq PcscClients /\ psStolen \in BOOLEAN
    BY DEF HdInv, PcscTypeOK, TransType, Barred
  <1>0. c \in PcscClients /\ c # PcscNoOne /\ psState[c] \in {"transWait", "transGot"} /\ c \notin Using /\ c \notin Queued
    BY PcscAssumption DEF Waiting, Using, Queued
  <1>1. /\ psState' \in [PcscClients -> PcscStates] /\ psState'[c] = "ending"
        /\ \A d \in PcscClients \ {c} : psState'[d] = psState[d]
    BY <1>0, <1>typ DEF PcscStates
  <1>2. Waiting' = Waiting \ {c} /\ Using' = Using /\ Barred' = Barred \ {c} /\ Queued' = Queued
    BY <1>0, <1>1 DEF Waiting, Using, Barred, Queued
  <1>3. WaitFits(a.wait, Barred \ {c}) /\ a = [psTrans EXCEPT !.wait = a.wait] /\ a.wait \in Seq(PcscClients)
    <2>1. WaitFits(psTrans.wait, Barred)
      BY DEF HdInv, HdTrans
    <2>2. WaitFits(a.wait, Barred \ {c}) /\ a = [psTrans EXCEPT !.wait = a.wait] /\ a.wait \in Seq(Barred)
      BY <1>typ, <2>1, AbortCounts
    <2> QED  BY <1>typ, <2>2, SeqMonotonic
  <1> HIDE DEF a
  <1>4. /\ psTrans' \in TransType /\ psTrans'.owner = c /\ psTrans'.n = psTrans.n
        /\ WaitFits(psTrans'.wait, Barred \ {c})
    <2>1. PICK q \in Seq(PcscClients) : q = a.wait
      BY <1>3
    <2>2. a = [psTrans EXCEPT !.wait = q] /\ psTrans' = [a EXCEPT !.owner = c]
      BY <1>3, <2>1 DEF a
    <2>3. /\ psTrans' \in TransType /\ psTrans'.owner = c /\ psTrans'.n = psTrans.n /\ psTrans'.wait = q
      BY <1>0, <1>typ, <2>2 DEF TransType
    <2> QED  BY <1>3, <2>1, <2>3
  <1>5. HdTrans' /\ HdSend'
    <2>1. psTrans'.n >= Cardinality(Waiting \ {c}) + Claims(psTrans') /\ IsFiniteSet(Waiting \ {c})
      BY <1>4, <1>typ, TransTaken DEF HdInv
    <2> QED  BY <1>2, <1>4, <2>1 DEF HdInv, HdTrans, HdSend, Claims
  <1>6. PcscTypeOK'
    BY <1>1, <1>4, <1>typ DEF HdInv, PcscTypeOK, TransType
  <1>7. HdClients'
    <2>1. \A d \in PcscClients : (Served(d)' <=> Served(d)) /\ (psState[d] # "out" => psState'[d] # "out")
      BY <1>0, <1>1 DEF Served
    <2> QED  BY <2>1 DEF HdInv, HdClients
  <1>8. HdArgs' /\ PcscReaderHeld'
    BY DEF HdInv, HdArgs, IsArg, PcscReplies, PcscReaderHeld
  <1>9. PcscLockNotLeaked'
    BY <1>0, <1>1, <1>4 DEF PcscLockNotLeaked
  <1>10. HdRest'
    <2> SUFFICES ASSUME ~psStolen'
                 PROVE  HdTurn' /\ HdCard' /\ HdWire' /\ (PsFlow' => HdFlow')
      BY DEF HdRest
    <2>0. ~psStolen /\ psState[c] = "transGot"
      BY <1>0, <1>typ
    <2>1. HdTurn /\ HdCard /\ HdWire /\ (PsFlow => HdFlow)
      BY <2>0 DEF HdInv, HdRest
    <2>2. psTrans.owner = PcscNoOne /\ \A d \in PcscClients \ {c} : psState[d] # "transGot"
      BY <1>0, <2>0, <2>1 DEF HdTurn
    <2>3. \A d \in Using : psCmd[d] \notin TransOps
      BY <2>1, <2>2, PcscAssumption DEF HdTurn, Using
    <2>4. HdTurn'
      BY <1>1, <1>2, <2>2, <2>3 DEF HdTurn
    <2>5. \A d \in PcscClients : (Leaving(d) => Leaving(d)') /\ (psState'[d] = "sent" <=> psState[d] = "sent")
      BY <1>0, <1>1 DEF Leaving
    <2>6. dvTxn \in PcscClients => Leaving(dvTxn)
      BY <2>1, <2>2, PcscAssumption DEF HdCard
    <2>7. HdCard'
      BY <1>2, <2>3, <2>5, <2>6 DEF HdCard, TransOps
    <2>wire. \A i \in 1..Len(psWire) : psWire[i].from \in PcscClients
      BY WireOfClients
    <2>8. HdWire'
      BY <2>1, <2>5, <2>6, <2>wire DEF HdWire, Begins
    <2>9. PsFlow' => HdFlow'
      BY <2>1, <2>5, <2>wire DEF HdFlow, PsFlow
    <2> QED  BY <2>4, <2>7, <2>8, <2>9
  <1> QED  BY <1>5, <1>6, <1>7, <1>8, <1>9, <1>10 DEF HdInv

\* A stop signal meets a program that waits for the stream or uses it: the lock
\* is left, the first that waits for it goes on, and the stream is in error.
LEMMA StopSendHolds ==
  ASSUME HdInv, NEW c \in Using, NEW m, m = IF psState[c] = "sendWait" THEN MutexAbort(psSend, c) ELSE psSend,
         psSend' = MutexLeave(m),
         psState' = [d \in PcscClients |-> IF d = c THEN "ending" ELSE IF d \in MutexWoken(m) THEN "sendGot" ELSE psState[d]],
         psError' = TRUE, psStolen' = (psStolen \/ psState[c] = "sendWait"), psRun' \in {psRun, "spin"},
         UNCHANGED <<psChannel, psClients, psCmd, psArg, psContext, psHandle, psReader, psTrans,
                     psReaders, psMap, psWire, psAnswers, dvTxn>>,
         psStops' \subseteq psStops
  PROVE  HdInv'
  <1>typ. /\ psSend \in PcscMutex /\ psState \in [PcscClients -> PcscStates]
          /\ Queued \subseteq PcscClients /\ psStolen \in BOOLEAN
    BY DEF HdInv, PcscTypeOK, Queued
  <1>0. c \in PcscClients /\ c \notin Waiting /\ c \notin Barred /\ psState[c] \in {"sendWait", "sendGot", "sent"}
    BY DEF Waiting, Using, Barred
  <1>1. m \in PcscMutex /\ m.n = psSend.n /\ WaitFits(m.wait, Queued \ {c})
    <2>0. WaitFits(psSend.wait, Queued)
      BY DEF HdInv, HdSend
    <2>1. CASE psState[c] = "sendWait"
      <3>1. WaitFits(m.wait, Queued \ {c}) /\ m = [psSend EXCEPT !.wait = m.wait] /\ m.wait \in Seq(Queued)
        BY <1>typ, <2>0, <2>1, AbortCounts
      <3>2. m.wait \in Seq(PcscClients)
        BY <1>typ, <3>1, SeqMonotonic
      <3>3. PICK q \in Seq(PcscClients) : q = m.wait
        BY <3>2
      <3>4. m = [psSend EXCEPT !.wait = q]
        BY <3>1, <3>3
      <3>5. m \in PcscMutex /\ m.n = psSend.n
        BY <1>typ, <3>4 DEF PcscMutex
      <3> QED  BY <3>1, <3>5
    <2>2. CASE psState[c] # "sendWait"
      <3>1. m = psSend /\ Queued \ {c} = Queued
        BY <2>2 DEF Queued
      <3> QED  BY <1>typ, <2>0, <3>1
    <2> QED  BY <2>1, <2>2
  <1>2. /\ MutexLeave(m) \in PcscMutex /\ IsFiniteSet(Using \ {c}) /\ MutexLeave(m).n >= Cardinality(Using \ {c})
        /\ WaitFits(MutexLeave(m).wait, (Queued \ {c}) \ MutexWoken(m)) /\ MutexWoken(m) \subseteq Queued \ {c}
    <2>1. Queued \ {c} \in SUBSET PcscClients /\ IsFiniteSet(Using) /\ m.n >= Cardinality(Using)
      BY <1>1, <1>typ DEF HdInv, HdSend
    <2> QED  BY <1>1, <2>1, SendLeft
  <1>3. PICK S : S = MutexWoken(m)
    OBVIOUS
  <1>4. /\ psState' = [d \in PcscClients |-> IF d = c THEN "ending" ELSE IF d \in S THEN "sendGot" ELSE psState[d]]
        /\ S \subseteq Queued \ {c}
    BY <1>2, <1>3
  <1>5. /\ psState' \in [PcscClients -> PcscStates] /\ psState'[c] = "ending"
        /\ \A d \in PcscClients \ {c} :
              \/ psState'[d] = psState[d] /\ d \notin S
              \/ psState'[d] = "sendGot" /\ psState[d] = "sendWait" /\ d \in S
    BY <1>0, <1>4, <1>typ DEF PcscStates, Queued
  <1>6. Waiting' = Waiting /\ Using' = Using \ {c} /\ Barred' = Barred /\ Queued' = (Queued \ {c}) \ S
    <2>1. Waiting' = Waiting
      BY <1>0, <1>5 DEF Waiting
    <2>2. Using' = Using \ {c}
      BY <1>0, <1>5 DEF Using
    <2>3. Barred' = Barred
      BY <1>0, <1>5 DEF Barred
    <2>4. Queued' = (Queued \ {c}) \ S
      BY <1>0, <1>5 DEF Queued
    <2> QED  BY <2>1, <2>2, <2>3, <2>4
  <1>7. HdTrans' /\ HdSend'
    BY <1>2, <1>3, <1>6 DEF HdInv, HdTrans, HdSend, Claims
  <1>8. PcscTypeOK'
    BY <1>2, <1>5, <1>typ DEF HdInv, PcscTypeOK
  <1>9. HdClients'
    <2>1. \A d \in PcscClients : (Served(d)' <=> Served(d)) /\ (psState[d] # "out" => psState'[d] # "out")
      BY <1>0, <1>5 DEF Served
    <2> QED  BY <2>1 DEF HdInv, HdClients
  <1>10. HdArgs' /\ PcscReaderHeld'
    BY DEF HdInv, HdArgs, IsArg, PcscReplies, PcscReaderHeld
  <1>11. PcscLockNotLeaked'
    <2>1. psTrans.owner \in PcscClients \union {PcscNoOne} /\ (psRun' = "run" => psRun = "run")
      BY DEF HdInv, PcscTypeOK
    <2>2. \A d \in PcscClients : /\ psState[d] \notin {"out", "gone"} => psState'[d] \notin {"out", "gone"}
                                 /\ psState[d] = "transGot" => psState'[d] = "transGot"
      BY <1>0, <1>5
    <2> QED  BY <2>1, <2>2 DEF HdInv, PcscLockNotLeaked
  <1>12. HdRest'
    <2> SUFFICES ASSUME ~psStolen'
                 PROVE  HdTurn' /\ HdCard' /\ HdWire' /\ (PsFlow' => HdFlow')
      BY DEF HdRest
    <2>0. ~psStolen /\ psState[c] \in {"sendGot", "sent"}
      BY <1>0, <1>typ
    <2>1. HdTurn /\ HdCard /\ HdWire
      BY <2>0 DEF HdInv, HdRest
    <2>2. \A d \in PcscClients : /\ (Leaving(d) => Leaving(d)') /\ Leaving(c)'
                                 /\ (psState'[d] = "transGot" <=> psState[d] = "transGot")
                                 /\ (psState'[d] = "sent" => psState[d] = "sent")
                                 /\ (d # c /\ psState[d] = "sent" => psState'[d] = "sent")
      BY <1>0, <1>5 DEF Leaving
    <2>3. HdTurn'
      BY <1>6, <2>1, <2>2 DEF HdTurn
    <2>4. HdCard'
      <3>1. \A d \in Using : d \in PcscClients
        BY DEF Using
      <3> QED  BY <1>5, <1>6, <2>1, <2>2, <3>1 DEF HdCard
    <2>wire. \A i \in 1..Len(psWire) : psWire[i].from \in PcscClients
      BY WireOfClients
    <2>5. HdWire'
      BY <2>1, <2>2, <2>wire DEF HdWire, Begins
    <2> QED  BY <2>3, <2>4, <2>5 DEF PsFlow
  <1> QED  BY <1>7, <1>8, <1>9, <1>10, <1>11, <1>12 DEF HdInv

\* a stop signal, wherever its program is
LEMMA StopHolds ==
  ASSUME HdInv, NEW p \in psStops, StopSignal(p)
  PROVE  HdInv'
  <1> DEFINE c == p.of
  <1>typ. psState \in [PcscClients -> PcscStates] /\ psError \in BOOLEAN /\ psStolen \in BOOLEAN
          /\ psRun \in {"run", "stopping", "spin", "ub", "stopped"} /\ psContext \in [PcscClients -> BOOLEAN]
          /\ psChannel \in {"none", "opened", "up", "down", "reset"} /\ psMap \subseteq PcscClients
          /\ psReaders \in [1..PcscSlots -> PcscNames \union {""}]
    BY DEF HdInv, PcscTypeOK
  <1>1. /\ c \in PcscClients /\ psState[c] # "out" /\ psStops' \subseteq psStops
        /\ UNCHANGED <<psChannel, psClients, psCmd, psArg, psContext, psHandle, psReader, psReaders, psMap,
                       psWire, psAnswers, dvTxn>>
    <2>1. ~p.find
      BY DEF StopSignal
    <2>2. c \in PcscClients /\ psState[c] # "out"
      BY <2>1 DEF HdInv, HdClients
    <2>3. psStops' \subseteq psStops
      BY DEF StopSignal
    <2> QED  BY <2>2, <2>3 DEF StopSignal, PcscStream
  <1>2. CASE psState[c] = "gone"
    <2>1. psState' = psState
      BY <1>2, <1>typ DEF StopSignal
    <2>2. UNCHANGED <<psTrans, psSend, psError, psStolen>> /\ psRun' = "ub"
      BY <1>2, <1>typ DEF StopSignal
    <2> QED  BY <1>1, <1>typ, <2>1, <2>2, StillHolds
  <1>3. CASE psState[c] \in {"idle", "ending"}
    <2>1. psState' = [psState EXCEPT ![c] = "ending"]
      BY <1>1, <1>3, <1>typ DEF StopSignal
    <2>2. UNCHANGED <<psRun, psTrans, psSend, psError, psStolen>>
      BY <1>3, <1>typ DEF StopSignal
    <2> QED  BY <1>1, <1>3, <2>1, <2>2, EndsHolds
  <1>4. CASE psState[c] \in {"transWait", "transGot"}
    <2>0. c \in Waiting
      BY <1>1, <1>4 DEF Waiting
    <2>1. psState' = [psState EXCEPT ![c] = "ending"]
      BY <1>1, <1>4, <1>typ DEF StopSignal
    <2>2. /\ UNCHANGED <<psRun, psSend, psError>> /\ psStolen' = (psStolen \/ psState[c] = "transWait")
          /\ psTrans' = [MutexAbort(psTrans, c) EXCEPT !.owner = c]
      BY <1>4, <1>typ DEF StopSignal
    <2> HIDE DEF c
    <2> QED  BY <1>1, <2>0, <2>1, <2>2, StopTransHolds
  <1>5. CASE psState[c] \in {"sendWait", "sendGot", "sent"}
    <2> DEFINE m == IF psState[c] = "sendWait" THEN MutexAbort(psSend, c) ELSE psSend
    <2>0. c \in Using
      BY <1>1, <1>5 DEF Using
    <2>1. psState' = [d \in PcscClients |-> IF d = c THEN "ending" ELSE IF d \in MutexWoken(m) THEN "sendGot" ELSE psState[d]]
      BY <1>1, <1>5 DEF StopSignal
    <2>2. /\ psTrans' = psTrans /\ psSend' = MutexLeave(m) /\ psError' = TRUE
          /\ psStolen' = (psStolen \/ psState[c] = "sendWait") /\ psRun' \in {psRun, "spin"}
      BY <1>5, <1>typ DEF StopSignal
    <2>3. PICK m1 : m1 = m
      OBVIOUS
    <2> HIDE DEF c
    <2>4. m1 = IF psState[c] = "sendWait" THEN MutexAbort(psSend, c) ELSE psSend
      BY <2>3
    <2>5. /\ psSend' = MutexLeave(m1)
          /\ psState' = [d \in PcscClients |-> IF d = c THEN "ending" ELSE IF d \in MutexWoken(m1) THEN "sendGot" ELSE psState[d]]
      BY <2>1, <2>2, <2>3
    <2> HIDE DEF m
    <2> QED  BY <1>1, <2>0, <2>2, <2>4, <2>5, StopSendHolds
  <1>6. psState[c] \in PcscStates
    BY <1>1, <1>typ
  <1> QED  BY <1>1, <1>2, <1>3, <1>4, <1>5, <1>6 DEF PcscStates

\* stopClientContext: what it finds is a program that is served
LEMMA StopContextHolds ==
  ASSUME HdInv, NEW p \in psStops, StopClientContext(p)
  PROVE  HdInv'
  <1> DEFINE found == {i \in 1..Len(psClients) : psContext[psClients[i]] = (p.of # PcscNoOne)
                                                 /\ p.of \in {PcscNoOne, psClients[i]}}
  <1>1. UNCHANGED <<psRun, psChannel, psError, psClients, psState, psCmd, psArg, psContext, psHandle, psReader, psTrans,
                    psSend, psReaders, psMap, psWire, psAnswers, dvTxn, psStolen>>
    BY DEF StopClientContext, PcscDaemon, PcscLocal, PcscLocks, PcscStream
  <1>2. psStops' = (psStops \ {p}) \union
                     (IF found = {} THEN {} ELSE {[find |-> FALSE, of |-> psClients[Least(found)]]})
    BY DEF StopClientContext
  <1>3. ASSUME NEW q \in psStops', ~q.find PROVE q \in psStops \/ (q.of \in PcscClients /\ psState[q.of] # "out")
    <2> SUFFICES ASSUME q \notin psStops
                 PROVE  q.of \in PcscClients /\ psState[q.of] # "out"
      OBVIOUS
    <2>1. found # {} /\ q.of = psClients[Least(found)]
      BY <1>2
    <2>2. found \subseteq 1..Len(psClients) /\ psClients \in Seq(PcscClients)
      BY DEF HdInv, PcscTypeOK
    <2> HIDE DEF found
    <2>3. Least(found) \in 1..Len(psClients)
      <3>1. found \subseteq Nat
        BY <2>2
      <3> QED  BY <2>1, <2>2, <3>1, LeastFound
    <2>4. q.of \in PcscClients
      BY <2>1, <2>2, <2>3, ElementOfSeq
    <2>5. Served(q.of)
      BY <2>1, <2>3, <2>4 DEF HdInv, HdClients
    <2> QED  BY <2>4, <2>5 DEF Served
  <1>4. /\ psRun \in {"run", "stopping", "spin", "ub", "stopped"} /\ psContext \in [PcscClients -> BOOLEAN]
        /\ psChannel \in {"none", "opened", "up", "down", "reset"} /\ psMap \subseteq PcscClients
        /\ psReaders \in [1..PcscSlots -> PcscNames \union {""}] /\ psError \in BOOLEAN
        /\ (psRun = "stopping" => psError)
    BY DEF HdInv, PcscTypeOK, HdArgs
  <1> QED  BY <1>1, <1>3, <1>4, StillHolds

LEMMA ChannelHolds ==
  ASSUME HdInv, ConnectChannel \/ RemoteHandshake \/ DisconnectChannel \/ ChannelBreaks
  PROVE  HdInv'
  <1>1. UNCHANGED <<psError, psClients, psState, psCmd, psArg, psContext, psHandle, psReader, psTrans,
                    psSend, psReaders, psMap, psStops, psWire, psAnswers, dvTxn, psStolen>>
    BY DEF ConnectChannel, RemoteHandshake, DisconnectChannel, ChannelBreaks, PcscLocal, PcscLocks, PcscTables, PcscStream
  <1>2. psRun = "run" /\ psRun' \in {"run", "ub"} /\ psChannel' \in {"none", "opened", "up", "down", "reset"}
    BY DEF ConnectChannel, RetryConnect, RemoteHandshake, DisconnectChannel, ChannelBreaks
  <1>3. /\ psContext \in [PcscClients -> BOOLEAN] /\ psMap \subseteq PcscClients
        /\ psReaders \in [1..PcscSlots -> PcscNames \union {""}] /\ psError \in BOOLEAN
    BY DEF HdInv, PcscTypeOK
  <1> QED  BY <1>1, <1>2, <1>3, StillHolds

LEMMA ListenerHolds ==
  ASSUME HdInv, NEW c \in PcscClients, ListenerHandler(c)
  PROVE  HdInv'
  <1>1. /\ psState[c] = "out" /\ psState' = [psState EXCEPT ![c] = "idle"] /\ psClients' = Append(psClients, c)
        /\ UNCHANGED <<psRun, psChannel, psError, psCmd, psArg, psContext, psHandle, psReader, psTrans, psSend,
                       psReaders, psMap, psStops, psWire, psAnswers, dvTxn, psStolen>>
    BY DEF ListenerHandler, PcscLocks, PcscTables, PcscStream
  <1>2. /\ psState' \in [PcscClients -> PcscStates] /\ psState'[c] = "idle"
        /\ \A d \in PcscClients \ {c} : psState'[d] = psState[d]
    BY <1>1 DEF HdInv, PcscTypeOK, PcscStates
  <1>3. Waiting' = Waiting /\ Using' = Using /\ Barred' = Barred /\ Queued' = Queued
    BY <1>1, <1>2 DEF Waiting, Using, Barred, Queued
  <1>4. HdTrans' /\ HdSend'
    BY <1>1, <1>3 DEF HdInv, HdTrans, HdSend, Claims
  <1>5. /\ psClients' \in Seq(PcscClients) /\ IsInjective(psClients')
        /\ \A d \in PcscClients : (\E i \in 1..Len(psClients') : psClients'[i] = d)
                                    <=> d = c \/ \E i \in 1..Len(psClients) : psClients[i] = d
    <2> DEFINE n == Len(psClients)
    <2>1. psClients \in Seq(PcscClients) /\ n \in Nat /\ DOMAIN psClients = 1..n
      BY LenProperties DEF HdInv, PcscTypeOK
    <2>2. /\ psClients' \in Seq(PcscClients) /\ Len(psClients') = n + 1 /\ psClients'[n + 1] = c
          /\ \A i \in 1..n : psClients'[i] = psClients[i]
      BY <1>1, <2>1, AppendProperties
    <2>3. DOMAIN psClients' = 1..(n + 1)
      BY <2>2, LenProperties
    <2>4. \A i, j \in 1..n : psClients[i] = psClients[j] => i = j
      BY <2>1 DEF HdInv, PcscTypeOK, IsInjective
    <2>5. \A i \in 1..n : psClients[i] # c
      BY <1>1 DEF HdInv, HdClients, Served
    <2> HIDE DEF n
    <2>6. \A i \in 1..(n + 1) : i \in 1..n \/ i = n + 1
      BY <2>1
    <2>7. 1..n \subseteq 1..(n + 1) /\ n + 1 \in 1..(n + 1)
      BY <2>1
    <2>8. \A i, j \in 1..(n + 1) : psClients'[i] = psClients'[j] => i = j
      BY <2>2, <2>4, <2>5, <2>6
    <2>9. \A d \in PcscClients : (\E i \in 1..(n + 1) : psClients'[i] = d) <=> d = c \/ \E i \in 1..n : psClients[i] = d
      BY <2>2, <2>6, <2>7
    <2> QED  BY <2>2, <2>3, <2>8, <2>9 DEF IsInjective, n
  <1>6. HdClients'
    <2>1. \A d \in PcscClients : (Served(d)' <=> d = c \/ Served(d)) /\ (psState[d] # "out" => psState'[d] # "out")
      BY <1>1, <1>2 DEF Served
    <2> QED  BY <1>1, <1>5, <2>1 DEF HdInv, HdClients
  <1>7. PcscTypeOK'
    BY <1>1, <1>2, <1>5 DEF HdInv, PcscTypeOK
  <1>8. HdArgs' /\ PcscReaderHeld'
    BY <1>1 DEF HdInv, HdArgs, IsArg, PcscReplies, PcscReaderHeld
  <1>9. PcscLockNotLeaked'
    <2>1. psTrans.owner \in PcscClients \union {PcscNoOne}
      BY DEF HdInv, PcscTypeOK
    <2> QED  BY <1>1, <1>2, <2>1 DEF HdInv, PcscLockNotLeaked
  <1>10. HdRest'
    <2> SUFFICES ASSUME ~psStolen
                 PROVE  HdTurn' /\ HdCard' /\ HdWire' /\ (PsFlow' => HdFlow')
      BY <1>1 DEF HdRest
    <2>1. HdTurn /\ HdCard /\ HdWire /\ (PsFlow => HdFlow)
      BY DEF HdInv, HdRest
    <2>2. \A d \in PcscClients : (Leaving(d) <=> Leaving(d)') /\ (psState'[d] = "sent" <=> psState[d] = "sent")
      BY <1>1, <1>2 DEF Leaving
    <2>3. HdTurn'
      BY <1>1, <1>2, <1>3, <2>1 DEF HdTurn
    <2>4. HdCard'
      BY <1>1, <1>3, <2>1, <2>2 DEF HdCard, Using
    <2>wire. \A i \in 1..Len(psWire) : psWire[i].from \in PcscClients
      BY WireOfClients
    <2>5. HdWire'
      BY <1>1, <2>1, <2>2, <2>wire DEF HdWire, Begins
    <2>6. PsFlow' => HdFlow'
      BY <1>1, <2>1, <2>2, <2>wire DEF HdFlow, PsFlow
    <2> QED  BY <2>3, <2>4, <2>5, <2>6
  <1> QED  BY <1>1, <1>4, <1>6, <1>7, <1>8, <1>9, <1>10 DEF HdInv

\* The remote client takes the oldest request.  It begins a transaction only for
\* the program that has trans_lock_, and the answer to an end finds it ended.
LEMMA DeviceHolds ==
  ASSUME HdInv, PsInv, NEW op \in RemoteOps, NEW ok \in BOOLEAN, NEW names \in Seq(PcscNames), PcscLite(op, ok, names),
         \/ dvTxn' \in {dvTxn, PcscNoOne}
         \/ op = "begin" /\ dvTxn' = Asker,
         op = "end" => dvTxn' # Asker
  PROVE  HdInv'
  <1> DEFINE n == Len(psWire)
             r == [from |-> Asker, ok |-> ok, names |-> names]
  <1>1. /\ psWire # <<>> /\ psWire[1].op = op /\ Asker = psWire[1].from /\ psWire' = Tail(psWire)
        /\ psAnswers' = Append(psAnswers, r)
        /\ UNCHANGED <<psRun, psChannel, psError, psClients, psState, psCmd, psArg, psContext, psHandle, psReader,
                       psTrans, psSend, psReaders, psMap, psStops, psStolen>>
    <2>1. psWire \in Seq([from : PcscClients, op : RemoteOps \union {"none"}])
      BY DEF HdInv
    <2>2. psWire # <<>>
      BY DEF PcscLite
    <2>3. Head(psWire) = psWire[1]
      BY <2>1, <2>2
    <2> QED  BY <2>2, <2>3 DEF PcscLite, PcscDaemon, PcscLocal, PcscLocks, PcscTables, Asker
  <1>2. /\ n \in Nat /\ 1 \in 1..n /\ Asker \in PcscClients
        /\ psWire' \in Seq([from : PcscClients, op : RemoteOps \union {"none"}])
        /\ Len(psWire') = n - 1 /\ \A i \in 1..(n - 1) : i + 1 \in 1..n /\ psWire'[i] = psWire[i + 1]
        /\ \A i \in 1..n : psWire[i].from \in PcscClients
    <2>1. psWire \in Seq([from : PcscClients, op : RemoteOps \union {"none"}]) /\ n \in Nat
      BY LenProperties DEF HdInv
    <2>2. n # 0
      BY <1>1, <2>1, EmptySeq
    <2>3. 1 \in 1..n /\ \A i \in 1..(n - 1) : i + 1 \in 1..n
      BY <2>1, <2>2
    <2>4. /\ Tail(psWire) \in Seq([from : PcscClients, op : RemoteOps \union {"none"}])
          /\ Len(Tail(psWire)) = n - 1 /\ \A i \in 1..(n - 1) : Tail(psWire)[i] = psWire[i + 1]
      BY <1>1, <2>1
    <2>5. \A i \in 1..n : psWire[i].from \in PcscClients
      BY WireOfClients
    <2> HIDE DEF n
    <2> QED  BY <1>1, <2>1, <2>3, <2>4, <2>5
  <1>3. psAnswers' \in Seq(PcscReplies)
    <2>1. r \in PcscReplies
      BY <1>2 DEF PcscReplies
    <2> QED  BY <1>1, <2>1 DEF HdInv, HdArgs
  <1> HIDE DEF r
  <1>4. dvTxn' \in PcscClients \union {PcscNoOne}
    BY <1>2 DEF HdInv, PcscTypeOK
  <1>5. HdTrans' /\ HdSend' /\ Using' = Using
    BY <1>1, SetsStay DEF HdInv, Using
  <1>6. PcscTypeOK'
    BY <1>1, <1>4 DEF HdInv, PcscTypeOK
  <1>7. HdClients' /\ HdArgs' /\ PcscReaderHeld' /\ PcscLockNotLeaked'
    BY <1>1, <1>3 DEF HdInv, HdClients, Served, HdArgs, IsArg, PcscReplies, PcscReaderHeld, PcscLockNotLeaked
  <1>8. HdRest'
    <2> SUFFICES ASSUME ~psStolen
                 PROVE  HdTurn' /\ HdCard' /\ HdWire' /\ (PsFlow' => HdFlow')
      BY <1>1 DEF HdRest
    <2>1. HdTurn /\ HdCard /\ HdWire /\ (PsFlow => HdFlow)
      BY DEF HdInv, HdRest
    <2>2. HdTurn'
      BY <1>1, <1>5, <2>1 DEF HdTurn
    <2>3. \A d : Leaving(d)' <=> Leaving(d)
      BY <1>1 DEF Leaving
    <2>begin. op = "begin" /\ ~Leaving(Asker) =>
                /\ psState[Asker] = "sent" /\ psCmd[Asker] = "begin" /\ psTrans.owner = Asker
                /\ \A i \in 1..n : Begins(i) /\ 1 < i => FALSE
      <3> SUFFICES ASSUME op = "begin", ~Leaving(Asker)
                   PROVE  /\ psState[Asker] = "sent" /\ psCmd[Asker] = "begin" /\ psTrans.owner = Asker
                          /\ \A i \in 1..n : Begins(i) /\ 1 < i => FALSE
        OBVIOUS
      <3>1. Begins(1)
        BY <1>1 DEF Begins
      <3>2. psState[Asker] = "sent" /\ psCmd[Asker] = "begin"
        BY <1>1, <1>2, <2>1, <3>1 DEF HdWire
      <3>3. Asker \in Using
        BY <1>2, <3>2 DEF Using
      <3>4. psTrans.owner = Asker
        BY <2>1, <3>2, <3>3 DEF HdTurn, TransOps
      <3>5. \A i \in 1..n : Begins(i) /\ 1 < i => FALSE
        BY <1>1, <1>2, <2>1, <3>1 DEF HdWire
      <3> QED  BY <3>2, <3>4, <3>5
    <2>4. HdCard'
      <3>1. CASE dvTxn' = PcscNoOne
        BY <1>5, <3>1, PcscAssumption DEF HdCard, Using
      <3>2. CASE dvTxn' = dvTxn
        BY <1>1, <1>5, <2>1, <2>3, <3>2 DEF HdCard, Leaving
      <3>3. CASE op = "begin" /\ dvTxn' = Asker
        <4>1. ~Leaving(Asker) => psTrans'.owner = Asker
          BY <1>1, <2>begin, <3>3
        <4>2. \A d \in Using : d = Asker => psCmd[d] = "begin" /\ psState[d] = "sent"
          BY <2>begin, <3>3 DEF Using, Leaving
        <4>3. dvTxn' \in PcscClients /\ ~Leaving(dvTxn)' => psTrans'.owner = dvTxn'
          BY <1>1, <3>3, <4>1 DEF Leaving
        <4> QED  BY <1>1, <1>5, <3>3, <4>2, <4>3 DEF HdCard
      <3> QED  BY <3>1, <3>2, <3>3
    <2>5. \A i \in 1..(n - 1) : i + 1 \in 1..n /\ psWire'[i] = psWire[i + 1] /\ (Begins(i)' <=> Begins(i + 1))
      BY <1>2 DEF Begins
    <2>6. HdWire'
      <3>1. \A i \in 1..(n - 1) : Begins(i)' =>
               \/ Leaving(psWire[i].from)'
               \/ psState'[psWire'[i].from] = "sent" /\ psCmd'[psWire'[i].from] = "begin"
        BY <1>1, <2>1, <2>5 DEF HdWire, Leaving
      <3>2. \A i, j \in 1..(n - 1) : i < j /\ Begins(i)' /\ Begins(j)' => Leaving(psWire[i].from)'
        <4> SUFFICES ASSUME NEW i \in 1..(n - 1), NEW j \in 1..(n - 1), i < j, Begins(i)', Begins(j)'
                     PROVE  Leaving(psWire[i].from)'
          OBVIOUS
        <4>1. i + 1 \in 1..n /\ j + 1 \in 1..n /\ i + 1 < j + 1 /\ Begins(i + 1) /\ Begins(j + 1)
          BY <1>2, <2>5
        <4>2. Leaving(psWire[i + 1].from)
          BY <2>1, <4>1 DEF HdWire
        <4> QED  BY <1>1, <2>5, <4>2 DEF Leaving
      <3>3. dvTxn' \in PcscClients /\ ~Leaving(dvTxn)' => \A i \in 1..(n - 1) : Begins(i)' => psWire'[i].from = dvTxn'
        <4> SUFFICES ASSUME dvTxn' \in PcscClients, ~Leaving(dvTxn)', NEW i \in 1..(n - 1), Begins(i)'
                     PROVE  psWire'[i].from = dvTxn'
          OBVIOUS
        <4>1. i + 1 \in 1..n /\ psWire'[i] = psWire[i + 1] /\ Begins(i + 1) /\ 1 < i + 1
          BY <1>2, <2>5
        <4>2. dvTxn' # PcscNoOne
          BY PcscAssumption
        <4>3. CASE dvTxn' = dvTxn
          <5>1. dvTxn \in PcscClients /\ ~Leaving(dvTxn)
            BY <1>1, <4>3 DEF Leaving
          <5>2. psWire[i + 1].from = dvTxn
            BY <2>1, <4>1, <5>1 DEF HdWire
          <5> QED  BY <4>1, <4>3, <5>2
        <4>4. CASE op = "begin" /\ dvTxn' = Asker
          <5>1. ~Leaving(Asker)
            BY <1>1, <4>4 DEF Leaving
          <5> QED  BY <2>begin, <4>1, <4>4, <5>1
        <4> QED  BY <4>2, <4>3, <4>4
      <3>4. Len(psWire') = n - 1
        BY <1>2
      <3> QED  BY <3>1, <3>2, <3>3, <3>4 DEF HdWire
    <2>7. ASSUME PsFlow' PROVE HdFlow'
      <3>1. PsKept /\ HdFlow
        BY <1>1, <2>1, <2>7 DEF PsInv, PsFlow
      <3>2. psAnswers = <<>> /\ Len(psWire) = 1 /\ psState[Asker] = "sent"
        <4>1. PICK c \in PcscClients : psState[c] = "sent" /\ psAnswers = <<>> /\ RequestOf(psWire, c)
          BY <1>1, <3>1 DEF PsKept, StreamFits
        <4>2. PICK m : psWire = <<m>> /\ m.from = c
          BY <4>1 DEF RequestOf
        <4>3. Len(psWire) = 1 /\ psWire[1] = m
          BY <4>2
        <4> QED  BY <1>1, <4>1, <4>2, <4>3
      <3>3. psCmd[Asker] = op
        BY <1>1, <1>2, <3>1, <3>2 DEF HdFlow, n
      <3>4. \A d \in PcscClients : psState[d] = "sent" => d = Asker
        <4>1. Asker \in Speaking /\ MutexFits(psSend, Speaking, Queued)
          BY <1>2, <3>1, <3>2 DEF Speaking, PsKept
        <4>2. \A d \in Speaking : d = Asker
          BY <4>1, MutexHolder
        <4> QED  BY <4>2 DEF Speaking
      <3>5. Len(psWire') = 0
        BY <1>2, <3>2 DEF n
      <3>6. \A d \in PcscClients : psState'[d] = "sent" /\ psCmd'[d] = "end" => dvTxn' # d
        BY <1>1, <3>3, <3>4
      <3> QED  BY <3>5, <3>6 DEF HdFlow
    <2> QED  BY <2>2, <2>4, <2>6, <2>7
  <1> QED  BY <1>1, <1>2, <1>5, <1>6, <1>7, <1>8 DEF HdInv

\* the readers that are plugged in, in some order
LEMMA NamesInOrder ==
  ASSUME NEW S \in SUBSET PcscNames
  PROVE  SetToSeq(S) \in Seq(PcscNames)
  <1>1. IsFiniteSet(S)
    BY PcscAssumption, FS_Subset
  <1>2. Cardinality(S) \in Nat /\ ExistsBijection(1..Cardinality(S), S)
    BY <1>1, FS_CardinalityType
  <1>3. \E f \in [1..Cardinality(S) -> S] : IsInjective(f)
    BY <1>2 DEF ExistsBijection, Bijection, Injection
  <1>4. SetToSeq(S) \in [1..Cardinality(S) -> S]
    BY <1>3 DEF SetToSeq
  <1>5. SetToSeq(S) \in Seq(S)
    BY <1>2, <1>4, SeqDef
  <1> QED  BY <1>5, SeqMonotonic

LEMMA DeviceStep ==
  ASSUME HdInv, PsInv, PcscLiteCommand
  PROVE  HdInv'
  <1>0. <<>> \in Seq(PcscNames) /\ (psWire # <<>> => Asker \in PcscClients)
    <2>1. psWire \in Seq([from : PcscClients, op : RemoteOps \union {"none"}])
      BY DEF HdInv
    <2>2. <<>> \in Seq(PcscNames)
      OBVIOUS
    <2>3. psWire # <<>> => Head(psWire) \in [from : PcscClients, op : RemoteOps \union {"none"}]
      BY <2>1, HeadOf
    <2> QED  BY <2>2, <2>3 DEF Asker
  <1>1. CASE PcscLiteListReaders
    <2>1. PICK S \in SUBSET PcscNames : PcscLite("list", TRUE, SetToSeq(S)) /\ dvTxn' = dvTxn
      BY <1>1 DEF PcscLiteListReaders
    <2>2. SetToSeq(S) \in Seq(PcscNames)
      BY NamesInOrder
    <2> QED  BY <2>1, <2>2, DeviceHolds DEF RemoteOps
  <1>2. CASE PcscLiteEndTransaction
    <2>1. PICK ok \in BOOLEAN : PcscLite("end", ok, <<>>)
      BY <1>2 DEF PcscLiteEndTransaction
    <2>2. psWire # <<>> /\ dvTxn' = IF dvTxn = Asker THEN PcscNoOne ELSE dvTxn
      BY <1>2, <2>1 DEF PcscLiteEndTransaction, PcscLite
    <2>3. dvTxn' # Asker /\ dvTxn' \in {dvTxn, PcscNoOne}
      BY <1>0, <2>2, PcscAssumption
    <2> QED  BY <1>0, <2>1, <2>3, DeviceHolds DEF RemoteOps, HandleOps
  <1>3. CASE PcscLiteBeginTransaction
    <2>1. PICK ok \in BOOLEAN : PcscLite("begin", ok, <<>>) /\ dvTxn' = IF ok THEN Asker ELSE dvTxn
      BY <1>3 DEF PcscLiteBeginTransaction
    <2> QED  BY <1>0, <2>1, DeviceHolds DEF RemoteOps, HandleOps
  <1>4. CASE \E op \in RemoteOps \ {"end"}, ok \in BOOLEAN : PcscLite(op, ok, <<>>) /\ dvTxn' \in {dvTxn, PcscNoOne}
    BY <1>0, <1>4, DeviceHolds
  <1>5. \A op : PcscLiteOther(op) => \E ok \in BOOLEAN : PcscLite(op, ok, <<>>) /\ dvTxn' \in {dvTxn, PcscNoOne}
    BY DEF PcscLiteOther
  <1>6. ASSUME PcscLiteEstablishContext \/ PcscLiteReleaseContext \/ PcscLiteGetStatusChange \/ PcscLiteConnect
               \/ PcscLiteDisconnect
        PROVE  \E op \in RemoteOps \ {"end"}, ok \in BOOLEAN : PcscLite(op, ok, <<>>) /\ dvTxn' \in {dvTxn, PcscNoOne}
    <2>1. {"establish", "release", "change", "connect", "disconnect"} \subseteq RemoteOps \ {"end"}
      BY DEF RemoteOps, HandleOps
    <2> QED  BY <1>6, <2>1 DEF PcscLiteEstablishContext, PcscLiteReleaseContext, PcscLiteGetStatusChange,
                PcscLiteConnect, PcscLiteDisconnect
  <1>7. {"reconnect", "transmit", "status", "control", "getattrib", "setattrib", "cancel"} \subseteq RemoteOps \ {"end"}
    BY DEF RemoteOps, HandleOps
  <1> QED  BY <1>1, <1>2, <1>3, <1>4, <1>5, <1>6, <1>7 DEF PcscLiteCommand, PcscLiteReconnect, PcscLiteTransmit,
              PcscLiteStatus, PcscLiteControl, PcscLiteGetAttrib, PcscLiteSetAttrib, PcscLiteCancel

\* nobody is there
HdEmpty ==
    /\ psRun \in {"run", "stopped"} /\ psChannel = "none" /\ psError = FALSE /\ psClients = <<>>
    /\ psState = All("out") /\ psCmd = All("none") /\ psArg = All(NoArg)
    /\ psContext = All(FALSE) /\ psHandle = All(FALSE) /\ psReader = All(0)
    /\ psTrans = FreeTrans /\ psSend = FreeSend /\ psReaders = NoReaders /\ psMap = {} /\ psStops = {}
    /\ psWire = <<>> /\ psAnswers = <<>> /\ dvTxn = PcscNoOne /\ psStolen \in BOOLEAN

LEMMA EmptyHolds == HdEmpty => HdInv
  <1> SUFFICES ASSUME HdEmpty PROVE HdInv
    OBVIOUS
  <1> USE DEF HdEmpty
  <1>1. Waiting = {} /\ Using = {} /\ Barred = {} /\ Queued = {}
    BY DEF All, Waiting, Using, Barred, Queued
  <1>2. IsFiniteSet({}) /\ Cardinality({}) = 0
    BY FS_EmptySet
  <1>3. psTrans.n = 0 /\ psTrans.wait = <<>> /\ psTrans.owner = PcscNoOne /\ psTrans \in TransType
    BY DEF FreeTrans, TransType
  <1>4. psSend.n = 0 /\ psSend.wait = <<>> /\ psSend \in PcscMutex
    BY DEF FreeSend, MutexFree, PcscMutex
  <1>5. HdTrans /\ HdSend
    BY <1>1, <1>2, <1>3, <1>4, EmptySeq DEF HdTrans, HdSend, WaitFits, Claims
  <1>6. PcscTypeOK
    <2>1. psState \in [PcscClients -> PcscStates] /\ psCmd \in [PcscClients -> RemoteOps \union {"none"}]
          /\ psContext \in [PcscClients -> BOOLEAN] /\ psHandle \in [PcscClients -> BOOLEAN]
      BY DEF All, PcscStates
    <2>2. psReader \in [PcscClients -> 0..PcscSlots]
      <3>1. 0 \in 0..PcscSlots
        BY PcscAssumption
      <3> QED  BY <3>1 DEF All
    <2>3. psReaders \in [1..PcscSlots -> PcscNames \union {""}]
      BY DEF NoReaders
    <2>4. psClients \in Seq(PcscClients) /\ IsInjective(psClients)
      BY EmptySeq DEF IsInjective
    <2> QED  BY <1>3, <1>4, <2>1, <2>2, <2>3, <2>4 DEF PcscTypeOK, TransType
  <1>7. HdClients
    BY EmptySeq DEF HdClients, Served, All
  <1>8. HdArgs
    BY EmptySeq DEF HdArgs, All, IsArg
  <1>9. PcscReaderHeld /\ PcscLockNotLeaked
    BY <1>3 DEF PcscReaderHeld, PcscLockNotLeaked, All
  <1>10. HdRest
    <2>1. HdTurn /\ HdCard
      BY <1>1, PcscAssumption DEF HdTurn, HdCard, All
    <2>2. HdWire /\ HdFlow
      BY EmptySeq DEF HdWire, HdFlow, All
    <2> QED  BY <2>1, <2>2 DEF HdRest
  <1>11. psWire \in Seq([from : PcscClients, op : RemoteOps \union {"none"}])
    OBVIOUS
  <1> QED  BY <1>5, <1>6, <1>7, <1>8, <1>9, <1>10, <1>11 DEF HdInv

LEMMA EmptyAfter ==
  ASSUME HdEmpty'
  PROVE  HdInv'
  BY EmptyHolds, PTL

\* a command that is refused, answered on the spot, or passed on with what it needs
LEMMA CommandHolds ==
  ASSUME HdInv, NEW c \in PcscClients, ClientAction(c)
  PROVE  HdInv'
  <1>1. ASSUME NEW op, Command(c, op), Refuse(c) PROVE HdInv'
    <2>1. Unlocks(c, "ending") /\ psState[c] = "idle"
      BY <1>1 DEF Refuse, Command, Unlocks, PcscStream
    <2>2. UNCHANGED <<psClients, psCmd, psArg, psContext, psHandle, psReader, psChannel, psError, psReaders, psMap, psStops,
                      dvTxn, psStolen>>
      BY <1>1 DEF Refuse, Command
    <2>3. psRun' \in {psRun, "spin", "ub"} /\ (TransSpins(psTrans, c) => psRun' # "run")
      BY <1>1 DEF Refuse
    <2> QED  BY <2>1, <2>2, <2>3, UnlockHolds
  <1>2. ASSUME NEW op \in RemoteOps, Command(c, op), NEW arg, IsArg(op, arg), Ask(c, op, arg) PROVE HdInv'
    BY <1>2, AskHolds
  <1>3. ASSUME LocalAnswer(c) PROVE HdInv'
    <2>1. Command(c, "readers")
      BY <1>3 DEF LocalAnswer
    <2>2. CASE UNCHANGED <<psRun, PcscLocal, PcscLocks>>
      <3>1. UNCHANGED <<psRun, psChannel, psError, psClients, psState, psCmd, psArg, psContext, psHandle, psReader, psTrans,
                        psSend, psReaders, psMap, psStops, psWire, psAnswers, dvTxn, psStolen>>
        BY <2>1, <2>2 DEF Command, PcscLocal, PcscLocks, PcscStream
      <3>2. /\ psRun \in {"run", "stopping", "spin", "ub", "stopped"} /\ psContext \in [PcscClients -> BOOLEAN]
            /\ psChannel \in {"none", "opened", "up", "down", "reset"} /\ psMap \subseteq PcscClients
            /\ psReaders \in [1..PcscSlots -> PcscNames \union {""}] /\ psError \in BOOLEAN
            /\ (psRun = "stopping" => psError)
        BY DEF HdInv, PcscTypeOK, HdArgs
      <3> QED  BY <3>1, <3>2, StillHolds
    <2> QED  BY <1>1, <1>3, <2>1, <2>2 DEF LocalAnswer
  <1>4. ASSUME NEW op \in RemoteOps \ {"connect", "change"}, Command(c, op), NEW arg, Ask(c, op, arg) PROVE HdInv'
    BY <1>2, <1>4 DEF IsArg
  <1>5. {"establish", "release", "cancel"} \union HandleOps \subseteq RemoteOps \ {"connect", "change"}
    BY DEF RemoteOps, HandleOps
  <1>6. CASE ProxyConnect(c)
    <2>1. Command(c, "connect")
      BY <1>6 DEF ProxyConnect
    <2>2. ASSUME NEW name \in PcscNames, {s \in 1..PcscSlots : psReaders[s] = name} # {},
                 Ask(c, "connect", [NoArg EXCEPT !.slot = Least({s \in 1..PcscSlots : psReaders[s] = name})])
          PROVE  HdInv'
      <3> DEFINE slots == {s \in 1..PcscSlots : psReaders[s] = name}
      <3>1. slots \subseteq 1..PcscSlots /\ slots # {}
        BY <2>2
      <3> HIDE DEF slots
      <3>2. slots \subseteq Nat
        BY <3>1
      <3>3. Least(slots) \in 1..PcscSlots
        BY <3>1, <3>2, LeastFound
      <3>4. IsArg("connect", [NoArg EXCEPT !.slot = Least(slots)])
        BY <3>3 DEF IsArg, NoArg
      <3>5. "connect" \in RemoteOps
        BY DEF RemoteOps
      <3> QED  BY <1>2, <2>1, <2>2, <3>4, <3>5 DEF slots
    <2> QED  BY <1>1, <1>6, <2>1, <2>2 DEF ProxyConnect
  <1>7. CASE \E op \in HandleOps : ProxyHandle(c, op)
    BY <1>1, <1>4, <1>5, <1>7 DEF ProxyHandle
  <1>8. CASE ProxyEstablishContext(c)
    BY <1>1, <1>4, <1>5, <1>8 DEF ProxyEstablishContext
  <1>9. CASE ProxyReleaseContext(c)
    BY <1>1, <1>4, <1>5, <1>9 DEF ProxyReleaseContext
  <1>10. CASE ProxyCancel(c)
    BY <1>1, <1>4, <1>5, <1>10 DEF ProxyCancel
  <1>11. CASE ProxyGetVersion(c) \/ ProxyGetReaderState(c) \/ ProxyReaderStateChangeStart(c) \/ ProxyReaderStateChangeStop(c)
    BY <1>3, <1>11 DEF ProxyGetVersion, ProxyGetReaderState, ProxyReaderStateChangeStart, ProxyReaderStateChangeStop
  <1> QED  BY <1>6, <1>7, <1>8, <1>9, <1>10, <1>11 DEF ClientAction, HandleOps, ProxyReconnect, ProxyDisconnect,
              ProxyBeginTransaction, ProxyEndTransaction, ProxyTransmit, ProxyStatus, ProxyControl, ProxyGetAttrib,
              ProxySetAttrib

\* from one status to the next: the names that are left, and a slot for the first
LEMMA SyncHolds ==
  ASSUME HdInv, PsInv, NEW c \in PcscClients, NEW op \in {"list", "change"}, NEW ok, Answered(c, op, ok),
         NEW names \in Seq(PcscNames), SyncNext(c, names),
         psReaders' \in [1..PcscSlots -> PcscNames \union {""}],
         UNCHANGED <<psContext, psHandle, psReader, psMap, psStops, psCancels>>
  PROVE  HdInv'
  <1> DEFINE missing == {i \in 1..Len(names) : \A s \in 1..PcscSlots : psReaders'[s] # names[i]}
             unused == {s \in 1..PcscSlots : psReaders'[s] = ""}
             arg == [NoArg EXCEPT !.names = SubSeq(names, Least(missing), Len(names)), !.slot = Least(unused)]
  <1>1. /\ op \in RemoteOps /\ PcscReaderHeld' /\ psMap' \subseteq PcscClients /\ psStops' = psStops
        /\ psContext' \in [PcscClients -> BOOLEAN] /\ psHandle' \in [PcscClients -> BOOLEAN]
        /\ psReader' \in [PcscClients -> 0..PcscSlots]
    BY DEF HdInv, PcscTypeOK, PcscReaderHeld, RemoteOps
  <1>2. CASE Complete(c, TRUE, "none", NoArg)
    <2>1. IsArg("none", NoArg)
      BY DEF IsArg
    <2> QED  BY <1>1, <1>2, <2>1, CompleteHolds
  <1>3. CASE missing # {} /\ unused # {} /\ Complete(c, TRUE, "change", arg)
    <2>1. missing \subseteq 1..Len(names) /\ unused \subseteq 1..PcscSlots /\ Len(names) \in Nat
      BY LenProperties
    <2> HIDE DEF missing, unused
    <2>3. Least(missing) \in 1..Len(names) /\ Least(unused) \in 1..PcscSlots
      BY <1>3, <2>1, PcscAssumption, LeastOfSlots
    <2>4. PICK k \in 1..Len(names) : k = Least(missing)
      BY <2>3
    <2>5. SubSeq(names, k, Len(names)) \in Seq(PcscNames) /\ SubSeq(names, k, Len(names)) # <<>>
      BY RestOfNames
    <2>6. IsArg("change", arg)
      BY <2>3, <2>4, <2>5 DEF IsArg, NoArg
    <2> HIDE DEF arg
    <2>7. PICK g : g = arg
      OBVIOUS
    <2>8. IsArg("change", g) /\ Complete(c, TRUE, "change", g)
      BY <1>3, <2>6, <2>7
    <2> QED  BY <1>1, <2>8, CompleteHolds
  <1>4. \/ Complete(c, TRUE, "none", NoArg)
        \/ missing # {} /\ unused # {} /\ Complete(c, TRUE, "change", arg)
    BY DEF SyncNext, Done
  <1> QED  BY <1>2, <1>3, <1>4

\* what an answer is read for
LEMMA AnswerHolds ==
  ASSUME HdInv, PsInv, NEW c \in PcscClients, RemoteAnswer(c)
  PROVE  HdInv'
  <1>typ. /\ psContext \in [PcscClients -> BOOLEAN] /\ psHandle \in [PcscClients -> BOOLEAN] /\ PcscReaderHeld
          /\ psReader \in [PcscClients -> 0..PcscSlots] /\ psMap \subseteq PcscClients
          /\ psReaders \in [1..PcscSlots -> PcscNames \union {""}]
    BY DEF HdInv, PcscTypeOK
  <1>arg. IsArg("none", NoArg) /\ IsArg("list", NoArg)
    BY DEF IsArg
  <1>1. CASE SendEstablishedContext(c)
    <2>1. PICK ok \in BOOLEAN :
            /\ Answered(c, "establish", ok) /\ psContext' = [psContext EXCEPT ![c] = ok]
            /\ psMap' = (IF ok THEN psMap \union {c} ELSE psMap)
            /\ (Complete(c, TRUE, "list", NoArg) \/ Complete(c, FALSE, "none", NoArg))
            /\ UNCHANGED <<psHandle, psReader, psReaders, psStops>>
      BY <1>1 DEF SendEstablishedContext, MakeContext64, Done
    <2>2. psContext' \in [PcscClients -> BOOLEAN] /\ psMap' \subseteq PcscClients /\ PcscReaderHeld'
      BY <1>typ, <2>1 DEF PcscReaderHeld
    <2>3. "establish" \in RemoteOps
      BY DEF RemoteOps
    <2> QED  BY <1>typ, <1>arg, <2>1, <2>2, <2>3, CompleteHolds
  <1>2. CASE SendListReaders(c)
    <2>1. PICK ok \in BOOLEAN :
            /\ Answered(c, "list", ok) /\ UNCHANGED <<psContext, psHandle, psReader, psMap, psStops, psCancels>>
            /\ IF psChannel = "down"
               THEN \/ psReaders' = NoReaders /\ Done(c, TRUE)
                    \/ /\ psRun' = "ub"
                       /\ UNCHANGED <<psChannel, psClients, psState, psCmd, psArg, PcscLocks, psReaders, dvTxn, psStolen>>
               ELSE /\ psReaders' = ReadersSyncNotFound(Head(psAnswers).names)
                    /\ SyncNext(c, Head(psAnswers).names)
      BY <1>2 DEF SendListReaders
    <2>2. "list" \in RemoteOps /\ PcscReaderHeld'
      BY <1>typ, <2>1 DEF RemoteOps, PcscReaderHeld
    <2>3. CASE psReaders' = NoReaders /\ Done(c, TRUE)
      <3>1. psReaders' \in [1..PcscSlots -> PcscNames \union {""}]
        BY <2>3 DEF NoReaders
      <3>2. Complete(c, TRUE, "none", NoArg)
        BY <2>3 DEF Done
      <3> QED  BY <1>typ, <1>arg, <2>1, <2>2, <3>1, <3>2, CompleteHolds
    <2>4. CASE psChannel = "down" /\ psRun' = "ub"
               /\ UNCHANGED <<psChannel, psClients, psState, psCmd, psArg, PcscLocks, psReaders, dvTxn, psStolen>>
      <3>1. psError' = TRUE /\ UNCHANGED <<psWire, psAnswers>>
        BY <2>1, <2>4 DEF Answered
      <3>2. UNCHANGED <<psTrans, psSend>> /\ psChannel' = "down"
        BY <2>4 DEF PcscLocks
      <3> QED  BY <1>typ, <2>1, <2>4, <3>1, <3>2, StillHolds
    <2>5. CASE psChannel # "down" /\ psReaders' = ReadersSyncNotFound(Head(psAnswers).names)
               /\ SyncNext(c, Head(psAnswers).names)
      <3>1. psAnswers # <<>>
        BY <2>1, <2>5 DEF Answered
      <3>2. Head(psAnswers).names \in Seq(PcscNames)
        BY <3>1, AnswersRest DEF HdInv, PcscReplies
      <3>3. psReaders' \in [1..PcscSlots -> PcscNames \union {""}]
        BY <1>typ, <2>5 DEF ReadersSyncNotFound
      <3>4. PICK names \in Seq(PcscNames) : SyncNext(c, names)
        BY <2>5, <3>2
      <3> QED  BY <2>1, <3>3, <3>4, SyncHolds
    <2> QED  BY <2>1, <2>3, <2>4, <2>5
  <1>3. CASE SyncReaderStatus(c)
    <2>1. PICK ok \in BOOLEAN :
            /\ Answered(c, "change", ok)
            /\ psReaders' = IF ok THEN [psReaders EXCEPT ![psArg[c].slot] = Head(psArg[c].names)] ELSE psReaders
            /\ SyncNext(c, Tail(psArg[c].names))
            /\ UNCHANGED <<psContext, psHandle, psReader, psMap, psStops, psCancels>>
      BY <1>3 DEF SyncReaderStatus
    <2>2. psArg[c].names \in Seq(PcscNames) /\ psArg[c].names # <<>>
      BY <2>1 DEF HdInv, HdArgs, IsArg, Answered
    <2>3. Tail(psArg[c].names) \in Seq(PcscNames) /\ Head(psArg[c].names) \in PcscNames
      BY <2>2, HeadOf, TailOf
    <2>4. psReaders' \in [1..PcscSlots -> PcscNames \union {""}]
      BY <1>typ, <2>1, <2>3
    <2>5. PICK names \in Seq(PcscNames) : SyncNext(c, names)
      BY <2>1, <2>3
    <2> QED  BY <2>1, <2>4, <2>5, SyncHolds
  <1>4. CASE SendReleaseContext(c)
    <2>1. PICK ok \in BOOLEAN :
            /\ Answered(c, "release", ok) /\ psContext' = [psContext EXCEPT ![c] = FALSE]
            /\ psMap' = psMap \ {c} /\ Complete(c, FALSE, "none", NoArg)
            /\ UNCHANGED <<psHandle, psReader, psReaders, psStops>>
      BY <1>4 DEF SendReleaseContext, RemoveContext32, Done
    <2>2. psContext' \in [PcscClients -> BOOLEAN] /\ psMap' \subseteq PcscClients /\ PcscReaderHeld'
      BY <1>typ, <2>1 DEF PcscReaderHeld
    <2>3. "release" \in RemoteOps
      BY DEF RemoteOps
    <2> QED  BY <1>typ, <1>arg, <2>1, <2>2, <2>3, CompleteHolds
  <1>5. CASE SendConnect(c)
    <2>1. PICK ok \in BOOLEAN :
            /\ Answered(c, "connect", ok) /\ psHandle' = [psHandle EXCEPT ![c] = ok]
            /\ psReader' = [psReader EXCEPT ![c] = IF ok THEN psArg[c].slot ELSE psReader[c]]
            /\ Complete(c, ok, "none", NoArg)
            /\ UNCHANGED <<psContext, psReaders, psMap, psStops>>
      BY <1>5 DEF SendConnect, PcscTables, Done
    <2>2. psArg[c].slot \in 1..PcscSlots
      BY <2>1 DEF HdInv, HdArgs, IsArg, Answered
    <2>3. psArg[c].slot \in 0..PcscSlots /\ psArg[c].slot # 0
      BY <2>2, PcscAssumption
    <2>4. psReader' \in [PcscClients -> 0..PcscSlots] /\ psHandle' \in [PcscClients -> BOOLEAN]
      BY <1>typ, <2>1, <2>3
    <2>5. PcscReaderHeld'
      BY <1>typ, <2>1, <2>3 DEF PcscReaderHeld
    <2>6. "connect" \in RemoteOps
      BY DEF RemoteOps
    <2> QED  BY <1>typ, <1>arg, <2>1, <2>4, <2>5, <2>6, CompleteHolds
  <1>6. CASE SendDisconnect(c)
    <2>1. PICK ok \in BOOLEAN :
            /\ Answered(c, "disconnect", ok) /\ psHandle' = [psHandle EXCEPT ![c] = psHandle[c] /\ ~ok]
            /\ psReader' = [psReader EXCEPT ![c] = IF ok THEN 0 ELSE psReader[c]]
            /\ Complete(c, ok, "none", NoArg)
            /\ UNCHANGED <<psContext, psReaders, psMap, psStops>>
      BY <1>6 DEF SendDisconnect, PcscTables, Done
    <2>2. 0 \in 0..PcscSlots
      BY PcscAssumption
    <2>3. psReader' \in [PcscClients -> 0..PcscSlots] /\ psHandle' \in [PcscClients -> BOOLEAN]
      BY <1>typ, <2>1, <2>2
    <2>4. PcscReaderHeld'
      BY <1>typ, <2>1 DEF PcscReaderHeld
    <2>5. "disconnect" \in RemoteOps
      BY DEF RemoteOps, HandleOps
    <2> QED  BY <1>typ, <1>arg, <2>1, <2>3, <2>4, <2>5, CompleteHolds
  <1>7. CASE \E op \in HandleOps : SendOnHandle(c, op)
    <2>1. PICK op \in HandleOps, ok \in BOOLEAN : Answered(c, op, ok) /\ Complete(c, ok, "none", NoArg) /\ KeepLocal
      BY <1>7 DEF SendOnHandle, Done
    <2>2. op \in RemoteOps /\ UNCHANGED <<psContext, psHandle, psReader, psReaders, psMap, psStops>>
      BY <2>1 DEF RemoteOps, KeepLocal, PcscTables
    <2>3. PcscReaderHeld'
      BY <1>typ, <2>2 DEF PcscReaderHeld
    <2> QED  BY <1>typ, <1>arg, <2>1, <2>2, <2>3, CompleteHolds
  <1>8. CASE SendCancel(c)
    <2>1. PICK ok \in BOOLEAN :
            /\ Answered(c, "cancel", ok) /\ psStops' = psStops \union {[find |-> TRUE, of |-> psArg[c].of]}
            /\ Complete(c, TRUE, "none", NoArg)
            /\ UNCHANGED <<psContext, psHandle, psReader, psReaders, psMap>>
      BY <1>8 DEF SendCancel, Done
    <2>2. \A p \in psStops' : ~p.find => p \in psStops
      BY <2>1
    <2>3. PcscReaderHeld' /\ "cancel" \in RemoteOps
      BY <1>typ, <2>1 DEF PcscReaderHeld, RemoteOps
    <2> QED  BY <1>typ, <1>arg, <2>1, <2>2, <2>3, CompleteHolds
  <1> QED  BY <1>1, <1>2, <1>3, <1>4, <1>5, <1>6, <1>7, <1>8 DEF RemoteAnswer, HandleOps, SendReconnect,
              SendBeginTransaction, SendEndTransaction, SendTransmit, SendStatus, SendControl, SendGetAttrib,
              SendSetAttrib

LEMMA CoroutineHolds ==
  ASSUME HdInv, PsInv', NEW c \in PcscClients,
         ListenerHandler(c) \/ ProgramLeaves(c) \/ TransactionLock(c) \/ SendRequest(c) \/ ClientStoppedHandler(c)
  PROVE  HdInv'
  <1>1. CASE ProgramLeaves(c)
    <2>1. /\ psState[c] = "idle" /\ psState' = [psState EXCEPT ![c] = "ending"] /\ psStops' \subseteq psStops
          /\ UNCHANGED <<psRun, psChannel, psError, psClients, psCmd, psArg, psContext, psHandle, psReader, psTrans,
                         psSend, psReaders, psMap, psWire, psAnswers, dvTxn, psStolen>>
      BY <1>1 DEF ProgramLeaves, PcscDaemon, PcscLocks, PcscTables, PcscStream
    <2> QED  BY <2>1, EndsHolds
  <1>2. CASE ClientStoppedHandler(c)
    <2>1. psState[c] = "ending" /\ Unlocks(c, "gone")
      BY <1>2 DEF ClientStoppedHandler, Unlocks, PcscStream
    <2>2. /\ psClients' = EraseClient(c)
          /\ psCmd' = [psCmd EXCEPT ![c] = "none"] /\ psArg' = [psArg EXCEPT ![c] = NoArg]
          /\ psContext' = [psContext EXCEPT ![c] = FALSE] /\ psHandle' = [psHandle EXCEPT ![c] = FALSE]
          /\ psReader' = [psReader EXCEPT ![c] = 0]
          /\ UNCHANGED <<psChannel, psError, psReaders, psMap, psStops, dvTxn, psStolen>>
          /\ psRun' \in {psRun, "spin", "ub"} /\ (TransSpins(psTrans, c) => psRun' # "run")
      BY <1>2 DEF ClientStoppedHandler, PcscTables
    <2> QED  BY <2>1, <2>2, UnlockHolds
  <1> QED  BY <1>1, <1>2, ListenerHolds, LockHolds, SendHolds

LEMMA HdStep ==
  ASSUME HdInv, PsInv, PsInv', [PcscNext]_PcscVars
  PROVE  HdInv'
  <1>1. CASE PcscStop
    <2>1. psStolen' \in BOOLEAN
      BY <1>1 DEF PcscStop, HdInv, PcscTypeOK
    <2> QED  BY <1>1, <2>1, EmptyAfter DEF PcscStop, HdEmpty
  <1>2. CASE UNCHANGED PcscVars
    <2>1. UNCHANGED <<psRun, psChannel, psError, psClients, psState, psCmd, psArg, psContext, psHandle, psReader, psTrans,
                      psSend, psReaders, psMap, psStops, psWire, psAnswers, dvTxn, psStolen>>
      BY <1>2 DEF PcscVars, PcscDaemon, PcscLocal, PcscLocks, PcscTables, PcscStream
    <2>2. /\ psRun \in {"run", "stopping", "spin", "ub", "stopped"} /\ psContext \in [PcscClients -> BOOLEAN]
          /\ psChannel \in {"none", "opened", "up", "down", "reset"} /\ psMap \subseteq PcscClients
          /\ psReaders \in [1..PcscSlots -> PcscNames \union {""}] /\ psError \in BOOLEAN
          /\ (psRun = "stopping" => psError)
      BY DEF HdInv, PcscTypeOK, HdArgs
    <2> QED  BY <2>1, <2>2, StillHolds
  <1> QED  BY <1>1, <1>2, ChannelHolds, DeviceStep, ListenerHolds, CommandHolds, AnswerHolds, CoroutineHolds,
              StopContextHolds, StopHolds DEF PcscNext

\* who asks to begin a transaction finds none, its own, or that of a program that has left
LEMMA BeginsAlone ==
  ASSUME HdInv
  PROVE  PcscDeviceFree
  <1> SUFFICES ASSUME ~psStolen, psWire # <<>>, Head(psWire).op = "begin", dvTxn \notin {PcscNoOne, Head(psWire).from}
               PROVE  psState[dvTxn] \in {"ending", "gone"}
    BY DEF PcscDeviceFree
  <1>1. Len(psWire) \in Nat /\ 1 \in 1..Len(psWire) /\ Head(psWire) = psWire[1]
    <2>1. psWire \in Seq([from : PcscClients, op : RemoteOps \union {"none"}])
      BY DEF HdInv
    <2>2. Len(psWire) \in Nat /\ Len(psWire) # 0 /\ Head(psWire) = psWire[1]
      BY <2>1, EmptySeq, LenProperties
    <2> QED  BY <2>2
  <1>2. Begins(1)
    BY <1>1 DEF Begins
  <1>3. dvTxn \in PcscClients
    BY DEF HdInv, PcscTypeOK
  <1>4. Leaving(dvTxn)
    BY <1>1, <1>2, <1>3 DEF HdInv, HdRest, HdWire
  <1> QED  BY <1>4 DEF Leaving

\* A transaction of the card, the lock that guards it and the reader of an open
\* handle are with programs that are served, however programs are refused,
\* stopped in a queue or leave (Transaction::unlock, clientStoppedHandler,
\* stopClientContext): nobody leaves trans_lock_ taken behind, and the remote
\* readers' service is not asked to begin what would block it.
THEOREM HoldsAccounted == PcscSpec => []PcscHoldsAccounted
  <1>1. ASSUME PcscInit PROVE HdInv
    <2>1. psStolen \in BOOLEAN
      BY <1>1 DEF PcscInit
    <2> QED  BY <1>1, <2>1, EmptyHolds DEF PcscInit, HdEmpty
  <1>2. ASSUME HdInv PROVE PcscHoldsAccounted
    BY <1>2, BeginsAlone DEF PcscHoldsAccounted, HdInv
  <1>3. PcscInit => PsInv
    BY PsStarts
  <1> QED  BY <1>1, <1>2, <1>3, PcscStep, HdStep, PTL DEF PcscSpec

(***************************************************************************)
(* Sound.  The words on a socket fit together: after the packets begun so  *)
(* far a body follows its header, and what is left to write is the body of *)
(* the packet a coroutine is in.                                           *)
(***************************************************************************)
SoundWords == [w : {"silent", "head", "body"}, n : Nat \ {0}]
SoundJobs == {j \in [n : Nat \ {0}, todo : Seq({"silent", "data"}), half : {TRUE, FALSE}] : j.todo # <<>>}

Opens(m) == IF m.w = "head" THEN m.n ELSE 0
OpenAt(wire, need, i) == IF i = 1 THEN need ELSE Opens(wire[i - 1])
FramesFit(wire, need, left) ==
    /\ \A i \in 1..Len(wire) :
          IF OpenAt(wire, need, i) = 0 THEN wire[i].w # "body"
          ELSE wire[i].w = "body" /\ wire[i].n = OpenAt(wire, need, i)
    /\ OpenAt(wire, need, Len(wire) + 1) = left

\* what a connection's coroutines have still to write of the packet begun
HalfFits(jobs, left) ==
    \/ left = 0 /\ \A i \in 1..Len(jobs) : ~jobs[i].half
    \/ \E i \in 1..Len(jobs) :
          /\ jobs[i].half /\ left = jobs[i].n
          /\ \A j \in 1..Len(jobs) : jobs[j].half => j = i
SoundFits(k) == \E left \in Nat : FramesFit(auWire[k], cl[k].need, left) /\ HalfFits(auJobs[k], left)

SoundTyped ==
    /\ auRun \in {"run", "ub", "stopped"}
    /\ auConn \in [AudioConns -> {"none", "connecting", "shake", "engine", "live", "closed", "failed"}]
    /\ auEncoder \in [AudioConns -> {"OPUS", "PCM"}]
    /\ puWaiter \in AudioConns \union {AudioNone}
    /\ auList \subseteq AudioConns /\ auMade \in [AudioConns -> Nat]
    /\ auJobs \in [AudioConns -> Seq(SoundJobs)]
    /\ auWire \in [AudioConns -> Seq(SoundWords)]
    /\ cl \in [AudioConns -> [format : {"none", "OPUS", "PCM", "refused"}, need : Nat,
                              silent : {"no", "short", "long"}, bad : {TRUE, FALSE}]]

\* the player's buffers and its gathering
PlayerFits(p) ==
    /\ DOMAIN p = {"state", "queue", "done", "after", "since"}
    /\ p.state \in {"none", "initial", "playing", "stopped"}
    /\ p.queue \in Nat /\ p.done \in Nat /\ p.after \in Nat /\ p.done <= p.queue
    /\ p.state = "playing" => p.after = 0
PlayersFit == DOMAIN al = AudioConns /\ \A k \in AudioConns : PlayerFits(al[k])

\* a connection by its place: nothing is sent before the engine is there,
\* nothing is left when it has failed, and the format is agreed before
ByPlace(k) ==
    /\ auConn[k] # "live" => auWire[k] = <<>> /\ auJobs[k] = <<>>
    /\ auConn[k] \in {"none", "connecting", "shake", "engine"} => cl[k].need = 0 /\ ~cl[k].bad
    /\ auConn[k] \in {"none", "connecting", "shake"} => auEncoder[k] = "PCM"
    /\ auConn[k] \in {"engine", "live"} => cl[k].format = auEncoder[k]
    /\ auConn[k] = "live" /\ ~auOverlap => SoundFits(k)
    /\ cl[k].bad => auOverlap \/ cl[k].format = "refused"

\* the daemon's thread waits for a connection that waits for the engine
WaitFitsPlace ==
    puWaiter # AudioNone =>
        /\ auConn[puWaiter] = "engine"
        /\ ~puFailed => puOps # {} /\ (puId = "none" \/ puId \in puOps)

SoundInv ==
    /\ SoundTyped /\ PlayersFit /\ WaitFitsPlace
    /\ \A k \in AudioConns : ByPlace(k)

-----------------------------------------------------------------------------
\* A word that is taken leaves the rest fitting what the client needs next.
LEMMA WireTaken ==
  ASSUME NEW wire \in Seq(SoundWords), wire # <<>>, NEW need \in Nat, NEW left,
         FramesFit(wire, need, left)
  PROVE  /\ Tail(wire) \in Seq(SoundWords) /\ Head(wire) \in SoundWords
         /\ FramesFit(Tail(wire), Opens(Head(wire)), left)
         /\ IF need = 0 THEN Head(wire).w # "body"
            ELSE Head(wire).w = "body" /\ Head(wire).n = need
  <1> DEFINE q == Tail(wire)
             need2 == Opens(Head(wire))
  <1>1. /\ Head(wire) = wire[1] /\ Len(wire) \in Nat \ {0} /\ wire[1] \in SoundWords
        /\ q \in Seq(SoundWords) /\ Len(q) = Len(wire) - 1
        /\ \A i \in 1..Len(q) : q[i] = wire[i + 1]
    BY HeadTailProperties, EmptySeq, ElementOfSeq
  <1>2. \A i \in 1..Len(q) + 1 : OpenAt(q, need2, i) = OpenAt(wire, need, i + 1)
    <2> TAKE i \in 1..Len(q) + 1
    <2>1. CASE i = 1
      BY <2>1, <1>1 DEF OpenAt
    <2>2. CASE i # 1
      <3>1. i - 1 \in 1..Len(q) /\ (i - 1) + 1 = i /\ i + 1 # 1 /\ (i + 1) - 1 = i
        BY <2>2, <1>1
      <3>2. q[i - 1] = wire[i]
        BY <3>1, <1>1
      <3> QED  BY <3>1, <3>2, <2>2 DEF OpenAt
    <2> QED  BY <2>1, <2>2
  <1>3. ASSUME NEW i \in 1..Len(q)
        PROVE  IF OpenAt(q, need2, i) = 0 THEN q[i].w # "body"
               ELSE q[i].w = "body" /\ q[i].n = OpenAt(q, need2, i)
    <2>1. i + 1 \in 1..Len(wire) /\ i \in 1..Len(q) + 1
      BY <1>1
    <2> HIDE DEF q, need2
    <2> QED  BY <2>1, <1>1, <1>2 DEF FramesFit
  <1>4. OpenAt(q, need2, Len(q) + 1) = left
    <2>1. Len(q) + 1 \in 1..Len(q) + 1 /\ (Len(q) + 1) + 1 = Len(wire) + 1
      BY <1>1
    <2> HIDE DEF q, need2
    <2> QED  BY <2>1, <1>2 DEF FramesFit
  <1>5. OpenAt(wire, need, 1) = need /\ 1 \in 1..Len(wire)
    BY <1>1 DEF OpenAt
  <1> HIDE DEF q, need2
  <1>6. FramesFit(q, need2, left)
    BY <1>3, <1>4 DEF FramesFit
  <1> QED  BY <1>1, <1>5, <1>6 DEF FramesFit, q, need2

\* A word that continues what was left is written behind the others.
LEMMA WireMore ==
  ASSUME NEW wire \in Seq(SoundWords), NEW need, NEW left, FramesFit(wire, need, left),
         NEW m \in SoundWords, IF left = 0 THEN m.w # "body" ELSE m.w = "body" /\ m.n = left
  PROVE  Append(wire, m) \in Seq(SoundWords) /\ FramesFit(Append(wire, m), need, Opens(m))
  <1> DEFINE q == Append(wire, m)
             n == Len(wire)
  <1>1. /\ q \in Seq(SoundWords) /\ Len(q) = n + 1 /\ n \in Nat
        /\ \A i \in 1..n : q[i] = wire[i]
        /\ q[n + 1] = m
    BY AppendProperties, LenProperties
  <1>2. \A i \in 1..n + 1 : OpenAt(q, need, i) = OpenAt(wire, need, i)
    <2> TAKE i \in 1..n + 1
    <2>1. i = 1 \/ i - 1 \in 1..n
      BY <1>1
    <2> HIDE DEF q, n
    <2> QED  BY <2>1, <1>1 DEF OpenAt
  <1>3. OpenAt(q, need, n + 2) = Opens(m)
    <2>1. n + 2 # 1 /\ (n + 2) - 1 = n + 1
      BY <1>1
    <2> QED  BY <2>1, <1>1 DEF OpenAt
  <1>4. ASSUME NEW i \in 1..n + 1
        PROVE  IF OpenAt(q, need, i) = 0 THEN q[i].w # "body"
               ELSE q[i].w = "body" /\ q[i].n = OpenAt(q, need, i)
    <2>1. CASE i = n + 1
      <3>1. OpenAt(q, need, i) = left /\ q[i] = m
        BY <2>1, <1>1, <1>2 DEF FramesFit
      <3> QED  BY <3>1
    <2>2. CASE i \in 1..n
      <3>1. OpenAt(q, need, i) = OpenAt(wire, need, i) /\ q[i] = wire[i]
        BY <2>2, <1>1, <1>2
      <3> QED  BY <3>1, <2>2 DEF FramesFit
    <2> QED  BY <2>1, <2>2, <1>1
  <1>5. Len(q) = n + 1 /\ Len(q) + 1 = n + 2
    BY <1>1
  <1> HIDE DEF q, n
  <1>6. FramesFit(q, need, Opens(m))
    BY <1>3, <1>4, <1>5 DEF FramesFit
  <1> QED  BY <1>1, <1>6 DEF q

\* A coroutine that has sent a packet goes on with the next, or is gone; no
\* other one changes.
LEMMA JobOutFits ==
  ASSUME NEW jobs \in Seq(SoundJobs), NEW i \in 1..Len(jobs)
  PROVE  /\ JobOut(jobs, i) \in Seq(SoundJobs)
         /\ (\A j \in 1..Len(jobs) : jobs[j].half => j = i) => HalfFits(JobOut(jobs, i), 0)
  <1> DEFINE n == Len(jobs)
             todo == jobs[i].todo
             alone == \A j \in 1..n : jobs[j].half => j = i
  <1>1. /\ n \in Nat /\ \A j \in 1..n : jobs[j] \in SoundJobs
        /\ todo \in Seq({"silent", "data"}) /\ todo # <<>>
    <2>1. n \in Nat /\ \A j \in 1..n : jobs[j] \in SoundJobs
      BY LenProperties, ElementOfSeq
    <2>2. jobs[i] \in SoundJobs
      BY <2>1
    <2> QED  BY <2>1, <2>2 DEF SoundJobs
  <1>2. CASE Len(todo) = 1
    <2> DEFINE p == SubSeq(jobs, 1, i - 1)
               s == SubSeq(jobs, i + 1, n)
    <2>1. /\ p \in Seq(SoundJobs) /\ Len(p) = i - 1
          /\ \A j \in 1..i - 1 : p[j] = jobs[j]
      <3>1. 1 \in 1..n + 1 /\ i - 1 \in 0..n
        BY <1>1
      <3> QED  BY <1>1, <3>1, SubSeqProperties
    <2>2. /\ s \in Seq(SoundJobs) /\ Len(s) = n - i
          /\ \A j \in 1..n - i : s[j] = jobs[i + j]
      <3>1. i + 1 \in 1..n + 1 /\ n \in i..n
        BY <1>1
      <3> QED  BY <1>1, <3>1, SubSeqProperties
    <2>3. /\ p \o s \in Seq(SoundJobs) /\ Len(p \o s) = n - 1
          /\ \A j \in 1..n - 1 : (p \o s)[j] = IF j < i THEN p[j] ELSE s[j - i + 1]
      <3> HIDE DEF p, s
      <3>1. Len(p) + Len(s) = n - 1 /\ \A j \in 1..n - 1 : j <= Len(p) <=> j < i
        BY <2>1, <2>2, <1>1
      <3>2. p \o s \in Seq(SoundJobs) /\ Len(p \o s) = Len(p) + Len(s)
        BY <2>1, <2>2, ConcatProperties
      <3>3. \A j \in 1..Len(p) + Len(s) : (p \o s)[j] = IF j <= Len(p) THEN p[j] ELSE s[j - Len(p)]
        BY <2>1, <2>2, ConcatProperties
      <3>4. \A j \in 1..n - 1 : j - Len(p) = j - i + 1
        BY <2>1, <1>1
      <3> QED  BY <3>1, <3>2, <3>3, <3>4
    <2>4. alone => \A j \in 1..n - 1 : ~(p \o s)[j].half
      <3> HAVE alone
      <3> TAKE j \in 1..n - 1
      <3>1. CASE j < i
        <4>1. j \in 1..i - 1 /\ j \in 1..n /\ j # i
          BY <3>1, <1>1
        <4>2. (p \o s)[j] = jobs[j]
          BY <3>1, <4>1, <2>1, <2>3
        <4> QED  BY <4>1, <4>2
      <3>2. CASE ~(j < i)
        <4>1. j - i + 1 \in 1..n - i /\ i + (j - i + 1) = j + 1 /\ j + 1 \in 1..n /\ j + 1 # i
          BY <3>2, <1>1
        <4>2. (p \o s)[j] = jobs[j + 1]
          BY <3>2, <4>1, <2>2, <2>3
        <4> QED  BY <4>1, <4>2
      <3> QED  BY <3>1, <3>2
    <2>5. JobOut(jobs, i) = p \o s
      BY <1>2 DEF JobOut
    <2> HIDE DEF p, s
    <2> QED  BY <2>3, <2>4, <2>5, <1>1 DEF HalfFits
  <1>3. CASE Len(todo) # 1
    <2> DEFINE j0 == [jobs[i] EXCEPT !.todo = Tail(todo), !.half = FALSE]
               q == [jobs EXCEPT ![i] = j0]
    <2>1. Tail(todo) \in Seq({"silent", "data"}) /\ Tail(todo) # <<>>
      <3> HIDE DEF todo
      <3>1. /\ Tail(todo) \in Seq({"silent", "data"}) /\ Len(Tail(todo)) = Len(todo) - 1
            /\ Len(todo) \in Nat
        BY <1>1, HeadTailProperties, LenProperties
      <3>2. Len(Tail(todo)) # 0
        BY <3>1, <1>3
      <3> QED  BY <3>1, <3>2, EmptySeq
    <2>2. j0 \in SoundJobs /\ ~j0.half
      BY <2>1, <1>1 DEF SoundJobs
    <2>3. q \in Seq(SoundJobs) /\ Len(q) = n /\ \A j \in 1..n : q[j] = IF j = i THEN j0 ELSE jobs[j]
      <3> HIDE DEF j0
      <3> QED  BY <2>2, ExceptSeq, LenProperties
    <2>4. JobOut(jobs, i) = q
      BY <1>3 DEF JobOut
    <2> HIDE DEF j0, q
    <2> QED  BY <2>2, <2>3, <2>4 DEF HalfFits
  <1> QED  BY <1>2, <1>3

\* A coroutine's job that is new, or begun, is one of those that fit.
LEMMA JobMore ==
  ASSUME NEW jobs \in Seq(SoundJobs), NEW j \in SoundJobs, ~j.half, NEW left, HalfFits(jobs, left)
  PROVE  Append(jobs, j) \in Seq(SoundJobs) /\ HalfFits(Append(jobs, j), left)
  <1> DEFINE n == Len(jobs)
             q == Append(jobs, j)
  <1>1. /\ q \in Seq(SoundJobs) /\ Len(q) = n + 1 /\ n \in Nat
        /\ \A i \in 1..n : q[i] = jobs[i]
        /\ q[n + 1] = j
    BY AppendProperties, LenProperties
  <1>2. \A i \in 1..n + 1 : q[i].half => i \in 1..n /\ jobs[i].half
    BY <1>1
  <1>3. \A i \in 1..n : i \in 1..n + 1
    BY <1>1
  <1> HIDE DEF q, n
  <1> QED  BY <1>1, <1>2, <1>3 DEF HalfFits, q, n
LEMMA JobBegun ==
  ASSUME NEW jobs \in Seq(SoundJobs), NEW i \in 1..Len(jobs)
  PROVE  /\ [jobs EXCEPT ![i].half = TRUE] \in Seq(SoundJobs)
         /\ (\A j \in 1..Len(jobs) : ~jobs[j].half)
              => HalfFits([jobs EXCEPT ![i].half = TRUE], jobs[i].n)
  <1> DEFINE j0 == [jobs[i] EXCEPT !.half = TRUE]
             q == [jobs EXCEPT ![i] = j0]
  <1>0. jobs[i] \in SoundJobs
    BY ElementOfSeq
  <1>1. j0 \in SoundJobs /\ j0.half /\ j0.n = jobs[i].n
    BY <1>0 DEF SoundJobs
  <1>2. q \in Seq(SoundJobs) /\ Len(q) = Len(jobs) /\ \A j \in 1..Len(jobs) : q[j] = IF j = i THEN j0 ELSE jobs[j]
    <2> HIDE DEF j0
    <2> QED  BY <1>1, ExceptSeq, LenProperties
  <1> HIDE DEF j0
  <1>3. q \in Seq(SoundJobs) /\ ((\A j \in 1..Len(jobs) : ~jobs[j].half) => HalfFits(q, jobs[i].n))
    <2> HIDE DEF q
    <2> SUFFICES ASSUME \A j \in 1..Len(jobs) : ~jobs[j].half PROVE HalfFits(q, jobs[i].n)
      BY <1>2
    <2>1. q[i].half /\ jobs[i].n = q[i].n /\ \A j \in 1..Len(q) : q[j].half => j = i
      BY <1>1, <1>2
    <2> QED  BY <1>2, <2>1 DEF HalfFits
  <1> QED  BY <1>3 DEF j0

-----------------------------------------------------------------------------
\* A connection of which nothing changes stays in its place.
LEMMA PlaceKept ==
  ASSUME NEW k, ByPlace(k),
         auConn'[k] = auConn[k], auWire'[k] = auWire[k], auJobs'[k] = auJobs[k],
         cl'[k].need = cl[k].need, cl'[k].bad = cl[k].bad, cl'[k].format = cl[k].format,
         auEncoder'[k] = auEncoder[k], auOverlap => auOverlap'
  PROVE  ByPlace(k)'
  <1>1. SoundFits(k) => SoundFits(k)'
    BY DEF SoundFits
  <1> QED  BY <1>1 DEF ByPlace

LEMMA SoundInvGives == SoundInv => AudioSound
  <1> SUFFICES ASSUME SoundInv PROVE AudioSound
    OBVIOUS
  <1>1. AudioTypeOK
    BY DEF SoundInv, SoundTyped, PlayersFit, PlayerFits, AudioTypeOK
  <1>2. AudioFramed
    BY DEF SoundInv, ByPlace, AudioFramed
  <1>3. AudioSameFormat
    BY DEF SoundInv, ByPlace, SoundTyped, AudioSameFormat
  <1>4. PulseWaitHasCause
    BY DEF SoundInv, WaitFitsPlace, PulseWaitHasCause
  <1> QED  BY <1>1, <1>2, <1>3, <1>4 DEF AudioSound

\* At the beginning, and when the process has ended, there is nothing.
LEMMA NothingFits ==
  ASSUME auRun \in {"run", "ub", "stopped"}, auConn = Each("none"), auList = {},
         auEncoder = Each("PCM"), puWaiter = AudioNone, auJobs = Each(<<>>), auMade = Each(0),
         auWire = Each(<<>>), cl = Each(NoClient), al = Each(NoPlayer)
  PROVE  SoundInv
  <1>1. <<>> \in Seq(SoundJobs) /\ <<>> \in Seq(SoundWords)
    BY EmptySeq
  <1>2. SoundTyped
    BY <1>1 DEF SoundTyped, Each, NoClient
  <1>3. PlayersFit /\ WaitFitsPlace
    BY DEF PlayersFit, PlayerFits, WaitFitsPlace, Each, NoPlayer
  <1>4. \A k \in AudioConns : ByPlace(k)
    BY DEF ByPlace, Each, NoClient
  <1> QED  BY <1>2, <1>3, <1>4 DEF SoundInv

LEMMA EndsFit ==
  ASSUME SoundInv, puWaiter = AudioNone, NEW how \in {"ub", "stopped"}, AudioEnds(how)
  PROVE  SoundInv'
  <1>1. <<>> \in Seq(SoundJobs) /\ <<>> \in Seq(SoundWords)
    BY EmptySeq
  <1>2. SoundTyped'
    BY <1>1 DEF SoundTyped, Each, NoClient, AudioEnds
  <1>3. PlayersFit' /\ WaitFitsPlace'
    BY DEF PlayersFit, PlayerFits, WaitFitsPlace, Each, NoPlayer, AudioEnds
  <1>4. \A k \in AudioConns : ByPlace(k)'
    BY DEF ByPlace, Each, NoClient, AudioEnds
  <1> QED  BY <1>2, <1>3, <1>4 DEF SoundInv

\* A connection goes to another place before sound is sent, or gives up.
LEMMA PlacesKeep ==
  ASSUME SoundInv, NEW k \in AudioConns,
         NEW place \in {"connecting", "shake", "failed"},
         auConn' = [auConn EXCEPT ![k] = place],
         auConn[k] \in {"none", "connecting", "shake", "engine"},
         place # "failed" => auConn[k] # "engine",
         puWaiter = AudioNone,
         UNCHANGED <<auRun, auList, auEncoder, AudioPulse, AudioSend, AudioEnd>>
  PROVE  SoundInv'
  <1>1. SoundTyped'
    BY DEF SoundInv, SoundTyped, AudioPulse, AudioSend, AudioEnd
  <1>2. PlayersFit' /\ WaitFitsPlace'
    BY DEF SoundInv, PlayersFit, WaitFitsPlace, AudioPulse, AudioEnd
  <1>3. ASSUME NEW j \in AudioConns PROVE ByPlace(j)'
    <2>1. ByPlace(j)
      BY DEF SoundInv
    <2>2. CASE j = k
      <3>1. auConn'[k] = place
        BY DEF SoundInv, SoundTyped
      <3> QED  BY <2>1, <2>2, <3>1 DEF ByPlace, AudioSend, AudioEnd
    <2>3. CASE j # k
      <3>1. auConn'[j] = auConn[j]
        BY <2>3 DEF SoundInv, SoundTyped
      <3> QED  BY <2>1, <3>1, PlaceKept DEF AudioSend, AudioEnd
    <2> QED  BY <2>2, <2>3
  <1> QED  BY <1>1, <1>2, <1>3 DEF SoundInv

LEMMA ConnectSteps ==
  ASSUME SoundInv, NEW k \in AudioConns,
         \/ AudioConnectChannel(k) \/ AudioRetryConnect(k) \/ AudioConnectFails(k)
         \/ AudioDisconnectChannel(AudioPath[k])
  PROVE  SoundInv'
  <1>1. CASE AudioConnectChannel(k)
    <2>1. PICK place \in {"connecting", "failed"} : auConn' = [auConn EXCEPT ![k] = place]
      BY <1>1 DEF AudioConnectChannel
    <2> QED  BY <1>1, <2>1, PlacesKeep DEF AudioConnectChannel, AudioThread
  <1>2. CASE AudioRetryConnect(k)
    BY <1>2, PlacesKeep DEF AudioRetryConnect, AudioThread
  <1>3. CASE AudioConnectFails(k)
    BY <1>3, PlacesKeep DEF AudioConnectFails, AudioThread
  <1>4. CASE AudioDisconnectChannel(AudioPath[k])
    <2>1. CASE AudioEnds("stopped")
      BY <1>4, <2>1, EndsFit DEF AudioDisconnectChannel, AudioThread
    <2>2. CASE ~AudioEnds("stopped")
      <3>1. /\ auList' \subseteq auList
            /\ UNCHANGED <<auRun, auConn, auEncoder, AudioPulse, AudioSend, AudioEnd>>
        BY <1>4, <2>2 DEF AudioDisconnectChannel
      <3>2. SoundTyped'
        BY <3>1 DEF SoundInv, SoundTyped, AudioPulse, AudioSend, AudioEnd
      <3>3. PlayersFit' /\ WaitFitsPlace'
        BY <3>1 DEF SoundInv, PlayersFit, WaitFitsPlace, AudioPulse, AudioEnd
      <3>4. \A j \in AudioConns : ByPlace(j)'
        BY <3>1, PlaceKept DEF SoundInv, AudioSend, AudioEnd
      <3> QED  BY <3>2, <3>3, <3>4 DEF SoundInv
    <2> QED  BY <2>1, <2>2
  <1> QED  BY <1>1, <1>2, <1>3, <1>4

\* The handshake agrees on the format, or ends the connection.
LEMMA HandshakeStep ==
  ASSUME SoundInv, NEW k \in AudioConns, AudioRemoteHandshake(k)
  PROVE  SoundInv'
  <1>1. PICK fmt \in {"OPUS", "PCM", "refused"} :
          /\ AudioOpInit(k, fmt)
          /\ auEncoder' = [auEncoder EXCEPT ![k] = IF fmt = "OPUS" THEN "OPUS" ELSE @]
          /\ auConn' = [auConn EXCEPT ![k] = IF fmt = "refused" THEN "failed" ELSE "engine"]
    BY DEF AudioRemoteHandshake
  <1>2. /\ auConn[k] = "shake" /\ puWaiter = AudioNone
        /\ UNCHANGED <<auRun, auList, AudioPulse, AudioSend>>
        /\ cl' = [cl EXCEPT ![k].format = fmt, ![k].bad = (fmt = "refused")]
    BY <1>1 DEF AudioRemoteHandshake, AudioThread, AudioOpInit
  <1>3. ByPlace(k) /\ k \in DOMAIN cl
    BY DEF SoundInv, SoundTyped
  <1>4. SoundTyped'
    <2>1. cl' \in [AudioConns -> [format : {"none", "OPUS", "PCM", "refused"}, need : Nat,
                                  silent : {"no", "short", "long"}, bad : {TRUE, FALSE}]]
      <3> DEFINE R == [format : {"none", "OPUS", "PCM", "refused"}, need : Nat,
                       silent : {"no", "short", "long"}, bad : {TRUE, FALSE}]
                 c == [cl[k] EXCEPT !.format = fmt, !.bad = (fmt = "refused")]
      <3>1. cl[k] \in R
        BY DEF SoundInv, SoundTyped
      <3>2. c \in R
        BY <3>1
      <3>3. cl' = [cl EXCEPT ![k] = c]
        BY <1>2
      <3> HIDE DEF c
      <3> QED  BY <3>2, <3>3 DEF SoundInv, SoundTyped
    <2>2. /\ auConn' \in [AudioConns -> {"none", "connecting", "shake", "engine", "live", "closed", "failed"}]
          /\ auEncoder' \in [AudioConns -> {"OPUS", "PCM"}]
      BY <1>1 DEF SoundInv, SoundTyped
    <2> QED  BY <1>2, <2>1, <2>2 DEF SoundInv, SoundTyped, AudioPulse, AudioSend
  <1>5. PlayersFit'
    <2>1. PlayerFits([NoPlayer EXCEPT !.state = "initial", !.after = AudioPlayAfter])
      BY AudioAssumption DEF PlayerFits, NoPlayer
    <2>2. \/ al' = al
          \/ al' = [al EXCEPT ![k] = [NoPlayer EXCEPT !.state = "initial", !.after = AudioPlayAfter]]
      BY <1>1 DEF AudioOpInit
    <2> QED  BY <2>1, <2>2 DEF SoundInv, PlayersFit
  <1>6. WaitFitsPlace'
    BY <1>2 DEF WaitFitsPlace, AudioPulse
  <1>7. ASSUME NEW j \in AudioConns PROVE ByPlace(j)'
    <2>1. CASE j = k
      <3>1. /\ auConn'[k] = IF fmt = "refused" THEN "failed" ELSE "engine"
            /\ auEncoder'[k] = IF fmt = "OPUS" THEN "OPUS" ELSE auEncoder[k]
            /\ cl'[k].format = fmt /\ cl'[k].bad = (fmt = "refused") /\ cl'[k].need = cl[k].need
        BY <1>1, <1>2 DEF SoundInv, SoundTyped
      <3>2. auEncoder[k] = "PCM" /\ cl[k].need = 0 /\ auWire[k] = <<>> /\ auJobs[k] = <<>>
        BY <1>2, <1>3 DEF ByPlace
      <3>3. /\ auConn'[k] \in {"failed", "engine"} /\ auWire'[k] = <<>> /\ auJobs'[k] = <<>>
            /\ auConn'[k] = "engine" => fmt # "refused" /\ cl'[k].format = auEncoder'[k]
            /\ cl'[k].bad => cl'[k].format = "refused"
            /\ auConn'[k] = "engine" => cl'[k].need = 0 /\ ~cl'[k].bad
        BY <1>2, <3>1, <3>2 DEF AudioSend
      <3> QED  BY <2>1, <3>3 DEF ByPlace
    <2>2. CASE j # k
      <3>1. /\ auConn'[j] = auConn[j] /\ auEncoder'[j] = auEncoder[j] /\ cl'[j] = cl[j]
        BY <1>1, <1>2, <2>2 DEF SoundInv, SoundTyped
      <3> QED  BY <1>2, <3>1, PlaceKept DEF SoundInv, AudioSend
    <2> QED  BY <2>1, <2>2
  <1> QED  BY <1>4, <1>5, <1>6, <1>7 DEF SoundInv

\* The engine: the thread waits for what was asked, and the connection whose
\* engine is there can send.
LEMMA EngineSteps ==
  ASSUME SoundInv,
         \/ \E k \in AudioConns : EngineInit(k)
         \/ \E id \in {"context", "server", "stream"} : PulseNotify(id) \/ PulseWaitEnds(id)
         \/ PulseContextFails
  PROVE  SoundInv'
  <1>1. ASSUME NEW k \in AudioConns, EngineInit(k) PROVE SoundInv'
    <2>1. SoundTyped'
      BY <1>1 DEF SoundInv, SoundTyped, EngineInit, AudioDaemon, AudioSend, AudioEnd
    <2>2. PlayersFit' /\ WaitFitsPlace'
      BY <1>1 DEF SoundInv, PlayersFit, WaitFitsPlace, EngineInit, AudioDaemon, AudioEnd
    <2>3. \A j \in AudioConns : ByPlace(j)'
      BY <1>1, PlaceKept DEF SoundInv, EngineInit, AudioDaemon, AudioSend, AudioEnd
    <2> QED  BY <2>1, <2>2, <2>3 DEF SoundInv
  <1>2. ASSUME NEW id \in {"context", "server", "stream"}, PulseNotify(id) PROVE SoundInv'
    <2>1. SoundTyped'
      BY <1>2 DEF SoundInv, SoundTyped, PulseNotify, AudioDaemon, AudioSend, AudioEnd
    <2>2. PlayersFit' /\ WaitFitsPlace'
      BY <1>2 DEF SoundInv, PlayersFit, WaitFitsPlace, PulseNotify, AudioDaemon, AudioEnd
    <2>3. \A j \in AudioConns : ByPlace(j)'
      BY <1>2, PlaceKept DEF SoundInv, PulseNotify, AudioDaemon, AudioSend, AudioEnd
    <2> QED  BY <2>1, <2>2, <2>3 DEF SoundInv
  <1>3. CASE PulseContextFails
    <2>1. SoundTyped'
      BY <1>3 DEF SoundInv, SoundTyped, PulseContextFails, AudioDaemon, AudioSend, AudioEnd
    <2>2. PlayersFit' /\ WaitFitsPlace'
      BY <1>3 DEF SoundInv, PlayersFit, WaitFitsPlace, PulseContextFails, AudioDaemon, AudioEnd
    <2>3. \A j \in AudioConns : ByPlace(j)'
      BY <1>3, PlaceKept DEF SoundInv, PulseContextFails, AudioDaemon, AudioSend, AudioEnd
    <2> QED  BY <2>1, <2>2, <2>3 DEF SoundInv
  <1>4. ASSUME NEW id \in {"context", "server", "stream"}, PulseWaitEnds(id) PROVE SoundInv'
    <2>1. /\ puWaiter \in AudioConns /\ auConn[puWaiter] = "engine" /\ ByPlace(puWaiter)
          /\ UNCHANGED <<auRun, auEncoder, puFailed, AudioSend, AudioEnd>>
      BY <1>4 DEF PulseWaitEnds, SoundInv, SoundTyped, WaitFitsPlace
    <2>2. \/ UNCHANGED <<puWaiter, auConn, auList>> /\ puOps' = {PulseStep(id)} /\ puId' = "none"
          \/ /\ puWaiter' = AudioNone
             /\ auList' \in {auList, auList \union {puWaiter}}
             /\ \E place \in {"engine", "live"} : auConn' = [auConn EXCEPT ![puWaiter] = place]
      BY <1>4 DEF PulseWaitEnds
    <2>3. SoundTyped'
      BY <2>1, <2>2 DEF SoundInv, SoundTyped, AudioSend, AudioEnd
    <2>4. PlayersFit' /\ WaitFitsPlace'
      BY <2>1, <2>2 DEF SoundInv, PlayersFit, WaitFitsPlace, AudioEnd
    <2>5. ASSUME NEW j \in AudioConns PROVE ByPlace(j)'
      <3>1. CASE auConn'[j] = auConn[j]
        BY <2>1, <3>1, PlaceKept DEF SoundInv, AudioSend, AudioEnd
      <3>2. CASE auConn'[j] # auConn[j]
        <4>1. j = puWaiter /\ auConn'[j] = "live"
          BY <2>1, <2>2, <3>2 DEF SoundInv, SoundTyped
        <4>2. /\ auWire[j] = <<>> /\ auJobs[j] = <<>> /\ cl[j].need = 0 /\ ~cl[j].bad
              /\ cl[j].format = auEncoder[j]
          BY <2>1, <4>1 DEF ByPlace
        <4>3. FramesFit(<<>>, 0, 0) /\ HalfFits(<<>>, 0)
          BY EmptySeq DEF FramesFit, HalfFits, OpenAt
        <4>4. SoundFits(j)'
          BY <2>1, <4>2, <4>3 DEF SoundFits, AudioSend, AudioEnd
        <4> QED  BY <2>1, <4>1, <4>2, <4>4 DEF ByPlace, AudioSend, AudioEnd
      <3> QED  BY <3>1, <3>2
    <2> QED  BY <2>3, <2>4, <2>5 DEF SoundInv
  <1> QED  BY <1>1, <1>2, <1>3, <1>4

\* The player keeps its buffers counted, and plays only what was gathered.
LEMMA WriteFits ==
  ASSUME NEW p, PlayerFits(p)
  PROVE  PlayerFits(StreamWrite(p)) /\ PlayerFits(PlayStop(p))
  <1>1. PlayerFits(PlayStop(p))
    BY AudioAssumption DEF PlayerFits, PlayStop
  <1>2. CASE p.done = 0 /\ p.state = "playing"
    BY <1>1, <1>2 DEF StreamWrite
  <1>3. CASE ~(p.done = 0 /\ p.state = "playing")
    <2> DEFINE start == p.after = 1
               queued == IF p.done > 0 THEN p.queue ELSE p.queue + 1
               done == IF start THEN 0 ELSE IF p.state = "stopped" THEN queued
                       ELSE IF p.done > 0 THEN p.done - 1 ELSE 0
               after == IF p.after > 0 THEN p.after - 1 ELSE 0
               r == StreamWrite(p)
    <2>1. /\ DOMAIN r = {"state", "queue", "done", "after", "since"}
          /\ r.state = (IF start THEN "playing" ELSE p.state)
          /\ r.queue = queued /\ r.done = done /\ r.after = after
      BY <1>3 DEF StreamWrite
    <2>2. queued \in Nat /\ done \in Nat /\ after \in Nat /\ done <= queued
      BY DEF PlayerFits
    <2>3. (IF start THEN "playing" ELSE p.state) = "playing" => after = 0
      BY DEF PlayerFits
    <2>4. (IF start THEN "playing" ELSE p.state) \in {"none", "initial", "playing", "stopped"}
      BY DEF PlayerFits
    <2> HIDE DEF start, queued, done, after, r
    <2>5. PlayerFits(r)
      BY <2>1, <2>2, <2>3, <2>4 DEF PlayerFits
    <2> QED  BY <1>1, <2>5 DEF r
  <1> QED  BY <1>2, <1>3

\* The device plays and silence lasts: nothing is sent.
LEMMA PlayerSteps ==
  ASSUME SoundInv, NEW k \in AudioConns, BufferPlayed(k) \/ SilenceLasts(k)
  PROVE  SoundInv'
  <1>1. /\ UNCHANGED <<AudioDaemon, AudioPulse, AudioSend>>
        /\ cl' \in {cl, [cl EXCEPT ![k].silent = "long"]}
    BY DEF BufferPlayed, SilenceLasts
  <1> DEFINE R == [format : {"none", "OPUS", "PCM", "refused"}, need : Nat,
                   silent : {"no", "short", "long"}, bad : {TRUE, FALSE}]
  <1>6. /\ cl' \in [AudioConns -> R]
        /\ \A j \in AudioConns :
              cl'[j].need = cl[j].need /\ cl'[j].bad = cl[j].bad /\ cl'[j].format = cl[j].format
    <2> DEFINE c == [cl[k] EXCEPT !.silent = "long"]
    <2>1. cl \in [AudioConns -> R]
      BY DEF SoundInv, SoundTyped
    <2>2. cl[k] \in R
      BY <2>1
    <2>3. c \in R /\ c.need = cl[k].need /\ c.bad = cl[k].bad /\ c.format = cl[k].format
      BY <2>2
    <2>4. cl' = cl \/ cl' = [cl EXCEPT ![k] = c]
      BY <1>1
    <2> HIDE DEF c, R
    <2> QED  BY <2>1, <2>3, <2>4
  <1>2. SoundTyped'
    BY <1>1, <1>6 DEF SoundInv, SoundTyped, AudioDaemon, AudioPulse, AudioSend
  <1>3. PlayersFit'
    <2>1. CASE BufferPlayed(k)
      <3>1. PlayerFits(al[k]) /\ k \in DOMAIN al /\ DOMAIN al = AudioConns
        BY DEF SoundInv, PlayersFit
      <3> DEFINE p == [al[k] EXCEPT !.done = @ + 1, !.since = 0,
                         !.state = IF al[k].done + 1 = al[k].queue THEN "stopped" ELSE "playing"]
      <3>2. PlayerFits(p)
        BY <2>1, <3>1 DEF PlayerFits, BufferPlayed
      <3>3. al' = [al EXCEPT ![k] = p]
        BY <2>1 DEF BufferPlayed
      <3> HIDE DEF p
      <3> QED  BY <3>1, <3>2, <3>3 DEF SoundInv, PlayersFit
    <2>2. CASE SilenceLasts(k)
      BY <2>2 DEF SoundInv, PlayersFit, SilenceLasts
    <2> QED  BY <2>1, <2>2
  <1>4. WaitFitsPlace'
    BY <1>1 DEF SoundInv, WaitFitsPlace, AudioDaemon, AudioPulse
  <1>5. ASSUME NEW j \in AudioConns PROVE ByPlace(j)'
    <2> QED  BY <1>1, <1>6, PlaceKept DEF SoundInv, AudioDaemon, AudioSend
  <1> QED  BY <1>2, <1>3, <1>4, <1>5 DEF SoundInv

\* A block of sound becomes a coroutine's packets.
LEMMA BlockStep ==
  ASSUME SoundInv, NEW k \in AudioConns, DataReadyNotify(k)
  PROVE  SoundInv'
  <1>1. PICK pkts \in DataEncode(k) :
          /\ auMade' = [auMade EXCEPT ![k] = @ + 1]
          /\ auJobs' = IF pkts = <<>> THEN auJobs
                       ELSE [auJobs EXCEPT ![k] = Append(@, [n |-> auMade[k] + 1, todo |-> pkts, half |-> FALSE])]
    BY DEF DataReadyNotify
  <1>2. auConn[k] = "live" /\ UNCHANGED <<AudioDaemon, AudioPulse, auWire, auOverlap, AudioEnd>>
    BY DEF DataReadyNotify
  <1> DEFINE job == [n |-> auMade[k] + 1, todo |-> pkts, half |-> FALSE]
  <1>3. pkts # <<>> => job \in SoundJobs /\ ~job.half
    <2>1. pkts \in Seq({"silent", "data"})
      <3>1. <<"silent">> \in Seq({"silent", "data"}) /\ <<"data">> \in Seq({"silent", "data"})
        OBVIOUS
      <3>2. ASSUME NEW n \in Nat PROVE [i \in 1..n |-> "data"] \in Seq({"silent", "data"})
        <4>1. [i \in 1..n |-> "data"] \in [1..n -> {"silent", "data"}]
          OBVIOUS
        <4> QED  BY <4>1, SeqDef
      <3> QED  BY <3>1, <3>2, AudioAssumption DEF DataEncode
    <2>2. auMade[k] \in Nat
      BY DEF SoundInv, SoundTyped
    <2> QED  BY <2>1, <2>2 DEF SoundJobs
  <1>4. \A j \in AudioConns :
          /\ auJobs'[j] \in Seq(SoundJobs)
          /\ j # k => auJobs'[j] = auJobs[j]
          /\ \A left : HalfFits(auJobs[j], left) => HalfFits(auJobs'[j], left)
    <2>1. auJobs \in [AudioConns -> Seq(SoundJobs)]
      BY DEF SoundInv, SoundTyped
    <2>2. CASE pkts = <<>>
      BY <1>1, <2>1, <2>2
    <2>3. CASE pkts # <<>>
      <3> HIDE DEF job
      <3>1. auJobs' = [auJobs EXCEPT ![k] = Append(@, job)]
        BY <1>1, <2>3 DEF job
      <3> TAKE j \in AudioConns
      <3>2. CASE j = k
        <4>1. auJobs'[j] = Append(auJobs[j], job) /\ auJobs[j] \in Seq(SoundJobs)
          BY <2>1, <3>1, <3>2
        <4>2. Append(auJobs[j], job) \in Seq(SoundJobs)
          BY <1>3, <2>3, <4>1, AppendProperties
        <4>3. \A left : HalfFits(auJobs[j], left) => HalfFits(Append(auJobs[j], job), left)
          BY <1>3, <2>3, <4>1, JobMore
        <4> QED  BY <3>2, <4>1, <4>2, <4>3
      <3>3. CASE j # k
        <4>1. auJobs'[j] = auJobs[j]
          BY <2>1, <3>1, <3>3
        <4> QED  BY <2>1, <3>3, <4>1
      <3> QED  BY <3>2, <3>3
    <2> QED  BY <2>2, <2>3
  <1>5. DOMAIN auJobs' = AudioConns /\ auJobs' = [j \in AudioConns |-> auJobs'[j]]
    BY <1>1 DEF SoundInv, SoundTyped
  <1>6. SoundTyped'
    <2>1. auJobs' \in [AudioConns -> Seq(SoundJobs)] /\ auMade' \in [AudioConns -> Nat]
      <3>1. auJobs' \in [AudioConns -> Seq(SoundJobs)]
        BY <1>4, <1>5
      <3>2. auMade' \in [AudioConns -> Nat]
        BY <1>1 DEF SoundInv, SoundTyped
      <3> QED  BY <3>1, <3>2
    <2> QED  BY <1>2, <2>1 DEF SoundInv, SoundTyped, AudioDaemon, AudioPulse, AudioEnd
  <1>7. PlayersFit' /\ WaitFitsPlace'
    BY <1>2 DEF SoundInv, PlayersFit, WaitFitsPlace, AudioDaemon, AudioPulse, AudioEnd
  <1>8. ASSUME NEW j \in AudioConns PROVE ByPlace(j)'
    <2>1. CASE j # k
      BY <1>2, <1>4, <2>1, PlaceKept DEF SoundInv, AudioDaemon, AudioEnd
    <2>2. CASE j = k
      <3>1. ByPlace(k)
        BY DEF SoundInv
      <3>2. SoundFits(k) => SoundFits(k)'
        BY <1>2, <1>4 DEF SoundFits, AudioEnd
      <3> QED  BY <1>2, <2>2, <3>1, <3>2 DEF ByPlace, AudioDaemon, AudioEnd
    <2> QED  BY <2>1, <2>2
  <1> QED  BY <1>6, <1>7, <1>8 DEF SoundInv

\* A coroutine that writes alone leaves the stream fitting: a whole packet, the
\* beginning of one, or the rest of its own.
LEMMA PacketFits ==
  ASSUME NEW jobs \in Seq(SoundJobs), NEW wire \in Seq(SoundWords), NEW need \in Nat,
         NEW left \in Nat, FramesFit(wire, need, left), HalfFits(jobs, left),
         NEW i \in 1..Len(jobs), \A j \in 1..Len(jobs) : jobs[j].half => j = i,
         NEW wire2, NEW jobs2,
         \/ /\ ~jobs[i].half
            /\ wire2 = wire \o (IF Head(jobs[i].todo) = "silent" THEN <<Word("silent", jobs[i])>>
                                ELSE <<Word("head", jobs[i]), Word("body", jobs[i])>>)
            /\ jobs2 = JobOut(jobs, i)
         \/ /\ ~jobs[i].half
            /\ wire2 = Append(wire, Word("head", jobs[i]))
            /\ jobs2 = [jobs EXCEPT ![i].half = TRUE]
         \/ /\ jobs[i].half
            /\ wire2 = Append(wire, Word("body", jobs[i]))
            /\ jobs2 = JobOut(jobs, i)
  PROVE  \E l \in Nat : FramesFit(wire2, need, l) /\ HalfFits(jobs2, l)
  <1> DEFINE job == jobs[i]
             h == Word("head", job)
             b == Word("body", job)
             s == Word("silent", job)
  <1>1. job \in SoundJobs /\ job.n \in Nat \ {0}
    <2>1. job \in SoundJobs
      BY ElementOfSeq
    <2> QED  BY <2>1 DEF SoundJobs
  <1>2. /\ h \in SoundWords /\ b \in SoundWords /\ s \in SoundWords
        /\ h.w = "head" /\ b.w = "body" /\ s.w = "silent" /\ h.n = job.n /\ b.n = job.n
        /\ Opens(h) = job.n /\ Opens(b) = 0 /\ Opens(s) = 0
    BY <1>1 DEF Word, SoundWords, Opens
  <1>3. HalfFits(JobOut(jobs, i), 0)
    BY JobOutFits
  <1> HIDE DEF h, b, s, job
  <1>4. CASE ~job.half
    <2>1. left = 0 /\ \A j \in 1..Len(jobs) : ~jobs[j].half
      BY <1>4 DEF HalfFits, job
    <2>2. Append(wire, h) \in Seq(SoundWords) /\ FramesFit(Append(wire, h), need, job.n)
      BY <1>2, <2>1, WireMore
    <2>3. FramesFit(Append(wire, s), need, 0)
      BY <1>2, <2>1, WireMore
    <2>4. FramesFit(Append(Append(wire, h), b), need, 0)
      <3>1. IF job.n = 0 THEN b.w # "body" ELSE b.w = "body" /\ b.n = job.n
        BY <1>1, <1>2
      <3> QED  BY <1>2, <2>2, <3>1, WireMore
    <2>5. wire \o <<s>> = Append(wire, s)
      BY <1>2
    <2>6. wire \o <<h, b>> = Append(Append(wire, h), b)
      BY <1>2
    <2>7. HalfFits([jobs EXCEPT ![i].half = TRUE], job.n)
      BY <2>1, JobBegun DEF job
    <2>8. CASE jobs2 = JobOut(jobs, i) /\ wire2 \in {wire \o <<s>>, wire \o <<h, b>>}
      BY <1>3, <2>3, <2>4, <2>5, <2>6, <2>8
    <2>9. CASE jobs2 = [jobs EXCEPT ![i].half = TRUE] /\ wire2 = Append(wire, h)
      BY <1>1, <2>2, <2>7, <2>9
    <2> QED  BY <1>4, <2>8, <2>9 DEF h, b, s, job
  <1>5. CASE job.half
    <2>1. left = job.n
      BY <1>5 DEF HalfFits, job
    <2>2. FramesFit(Append(wire, b), need, 0)
      BY <1>1, <1>2, <2>1, WireMore
    <2> QED  BY <1>3, <1>5, <2>2 DEF b, job
  <1> QED  BY <1>4, <1>5

\* A packet goes out.
LEMMA PacketStep ==
  ASSUME SoundInv, NEW k \in AudioConns, NEW i \in 1..AudioMaxJobs[k], SendPacket(k, i)
  PROVE  SoundInv'
  <1> DEFINE jobs == auJobs[k]
             job == jobs[i]
             pkt == IF Head(job.todo) = "silent" THEN <<Word("silent", job)>>
                    ELSE <<Word("head", job), Word("body", job)>>
  <1>1. /\ auConn[k] = "live" /\ i \in DOMAIN jobs
        /\ auOverlap' = (auOverlap \/ Half(k) \ {i} # {})
        /\ UNCHANGED <<AudioDaemon, AudioPulse, auMade, AudioEnd>>
    BY DEF SendPacket
  <1>2. jobs \in Seq(SoundJobs) /\ auWire[k] \in Seq(SoundWords) /\ i \in 1..Len(jobs)
    <2>1. jobs \in Seq(SoundJobs) /\ auWire[k] \in Seq(SoundWords)
      BY DEF SoundInv, SoundTyped
    <2>2. DOMAIN jobs = 1..Len(jobs)
      BY <2>1, LenProperties
    <2> QED  BY <1>1, <2>1, <2>2
  <1>3. PICK wire2, jobs2 :
          /\ auWire' = [auWire EXCEPT ![k] = wire2] /\ auJobs' = [auJobs EXCEPT ![k] = jobs2]
          /\ \/ ~job.half /\ wire2 = auWire[k] \o pkt /\ jobs2 = JobOut(jobs, i)
             \/ ~job.half /\ wire2 = Append(auWire[k], Word("head", job))
                /\ jobs2 = [jobs EXCEPT ![i].half = TRUE]
             \/ job.half /\ wire2 = Append(auWire[k], Word("body", job)) /\ jobs2 = JobOut(jobs, i)
    BY DEF SendPacket
  <1>4. jobs2 \in Seq(SoundJobs) /\ wire2 \in Seq(SoundWords)
    <2>1. jobs2 \in Seq(SoundJobs)
      BY <1>2, <1>3, JobOutFits, JobBegun
    <2>2. job \in SoundJobs
      BY <1>2, ElementOfSeq
    <2>3. \A w \in {"silent", "head", "body"} : Word(w, job) \in SoundWords
      BY <2>2 DEF SoundJobs, SoundWords, Word
    <2>4. pkt \in Seq(SoundWords)
      BY <2>3
    <2>5. auWire[k] \o pkt \in Seq(SoundWords)
      <3> HIDE DEF pkt
      <3> QED  BY <1>2, <2>4, ConcatProperties
    <2>6. \A w \in {"head", "body"} : Append(auWire[k], Word(w, job)) \in Seq(SoundWords)
      BY <1>2, <2>3, AppendProperties
    <2> HIDE DEF pkt, job, jobs
    <2> QED  BY <1>3, <2>1, <2>5, <2>6
  <1>5. SoundTyped'
    <2>1. auJobs' \in [AudioConns -> Seq(SoundJobs)] /\ auWire' \in [AudioConns -> Seq(SoundWords)]
      BY <1>3, <1>4 DEF SoundInv, SoundTyped
    <2> QED  BY <1>1, <2>1 DEF SoundInv, SoundTyped, AudioDaemon, AudioPulse, AudioEnd
  <1>6. PlayersFit' /\ WaitFitsPlace'
    BY <1>1 DEF SoundInv, PlayersFit, WaitFitsPlace, AudioDaemon, AudioPulse, AudioEnd
  <1>7. ASSUME NEW j \in AudioConns PROVE ByPlace(j)'
    <2>1. CASE j # k
      <3>1. auWire'[j] = auWire[j] /\ auJobs'[j] = auJobs[j]
        BY <1>3, <2>1 DEF SoundInv, SoundTyped
      <3> QED  BY <1>1, <3>1, PlaceKept DEF SoundInv, AudioDaemon, AudioEnd
    <2>2. CASE j = k
      <3>1. ByPlace(k) /\ auWire'[k] = wire2 /\ auJobs'[k] = jobs2 /\ cl[k].need \in Nat
        BY <1>3 DEF SoundInv, SoundTyped
      <3>2. ASSUME ~auOverlap' PROVE SoundFits(k)'
        <4>1. ~auOverlap /\ \A l \in 1..Len(jobs) : jobs[l].half => l = i
          <5>1. DOMAIN jobs = 1..Len(jobs)
            BY <1>2, LenProperties
          <5> QED  BY <1>1, <3>2, <5>1 DEF Half
        <4>2. PICK left \in Nat : FramesFit(auWire[k], cl[k].need, left) /\ HalfFits(jobs, left)
          BY <1>1, <3>1, <4>1 DEF ByPlace, SoundFits
        <4>3. \E l \in Nat : FramesFit(wire2, cl[k].need, l) /\ HalfFits(jobs2, l)
          <5> DEFINE wire == auWire[k]
                     need == cl[k].need
          <5>1. /\ jobs \in Seq(SoundJobs) /\ wire \in Seq(SoundWords) /\ need \in Nat
                /\ FramesFit(wire, need, left) /\ HalfFits(jobs, left) /\ i \in 1..Len(jobs)
            BY <1>2, <3>1, <4>2
          <5>2. \/ /\ ~jobs[i].half
                   /\ wire2 = wire \o (IF Head(jobs[i].todo) = "silent" THEN <<Word("silent", jobs[i])>>
                                       ELSE <<Word("head", jobs[i]), Word("body", jobs[i])>>)
                   /\ jobs2 = JobOut(jobs, i)
                \/ /\ ~jobs[i].half
                   /\ wire2 = Append(wire, Word("head", jobs[i]))
                   /\ jobs2 = [jobs EXCEPT ![i].half = TRUE]
                \/ /\ jobs[i].half
                   /\ wire2 = Append(wire, Word("body", jobs[i]))
                   /\ jobs2 = JobOut(jobs, i)
            BY <1>3
          <5> HIDE DEF jobs, wire, need
          <5>3. \E l \in Nat : FramesFit(wire2, need, l) /\ HalfFits(jobs2, l)
            BY <4>1, <5>1, <5>2, PacketFits
          <5> QED  BY <5>3 DEF need
        <4> QED  BY <1>1, <3>1, <4>3 DEF SoundFits, AudioEnd
      <3> QED  BY <1>1, <2>2, <3>1, <3>2 DEF ByPlace, AudioDaemon, AudioEnd
    <2> QED  BY <2>1, <2>2
  <1> QED  BY <1>5, <1>6, <1>7 DEF SoundInv

\* A failed write closes the socket and ends what was being written.
LEMMA SendFailsStep ==
  ASSUME SoundInv, NEW k \in AudioConns, AudioSendFails(k)
  PROVE  SoundInv'
  <1>1. /\ auConn[k] = "live" /\ auConn' = [auConn EXCEPT ![k] = "closed"]
        /\ auJobs' = [auJobs EXCEPT ![k] = <<>>] /\ auWire' = [auWire EXCEPT ![k] = <<>>]
        /\ UNCHANGED <<auRun, auList, auEncoder, AudioPulse, auMade, auOverlap, AudioEnd>>
    BY DEF AudioSendFails
  <1>2. SoundTyped'
    <2>1. <<>> \in Seq(SoundJobs) /\ <<>> \in Seq(SoundWords)
      BY EmptySeq
    <2> QED  BY <1>1, <2>1 DEF SoundInv, SoundTyped, AudioPulse, AudioEnd
  <1>3. PlayersFit' /\ WaitFitsPlace'
    BY <1>1 DEF SoundInv, SoundTyped, PlayersFit, WaitFitsPlace, AudioPulse, AudioEnd
  <1>4. ASSUME NEW j \in AudioConns PROVE ByPlace(j)'
    <2>1. CASE j # k
      <3>1. auConn'[j] = auConn[j] /\ auWire'[j] = auWire[j] /\ auJobs'[j] = auJobs[j]
        BY <1>1, <2>1 DEF SoundInv, SoundTyped
      <3> QED  BY <1>1, <3>1, PlaceKept DEF SoundInv, AudioEnd
    <2>2. CASE j = k
      <3>1. auConn'[k] = "closed" /\ auWire'[k] = <<>> /\ auJobs'[k] = <<>> /\ ByPlace(k)
        BY <1>1 DEF SoundInv, SoundTyped
      <3> QED  BY <1>1, <2>2, <3>1 DEF ByPlace, AudioEnd
    <2> QED  BY <2>1, <2>2
  <1> QED  BY <1>2, <1>3, <1>4 DEF SoundInv

\* The client takes a word: it is what the one before led it to expect.
LEMMA PushStepSound ==
  ASSUME SoundInv, NEW k \in AudioConns, AudioPushData(k)
  PROVE  SoundInv'
  <1> DEFINE m == Head(auWire[k])
             need == cl[k].need
             c2 == cl'[k]
             R == [format : {"none", "OPUS", "PCM", "refused"}, need : Nat,
                   silent : {"no", "short", "long"}, bad : {TRUE, FALSE}]
  <1>1. /\ auWire[k] # <<>> /\ ~cl[k].bad /\ auWire' = [auWire EXCEPT ![k] = Tail(@)]
        /\ UNCHANGED <<AudioDaemon, AudioPulse, auJobs, auMade, auOverlap>>
    BY DEF AudioPushData
  <1>2. /\ auWire[k] \in Seq(SoundWords) /\ cl[k] \in R /\ cl \in [AudioConns -> R]
        /\ ByPlace(k) /\ PlayerFits(al[k]) /\ DOMAIN al = AudioConns
    BY DEF SoundInv, SoundTyped, PlayersFit
  <1>3. auConn[k] = "live" /\ m \in SoundWords /\ Tail(auWire[k]) \in Seq(SoundWords)
    <2>1. auConn[k] = "live"
      BY <1>1, <1>2 DEF ByPlace
    <2> QED  BY <1>1, <1>2, <2>1, HeadTailProperties
  <1>4. ASSUME ~auOverlap
        PROVE  /\ \E left \in Nat : FramesFit(Tail(auWire[k]), Opens(m), left) /\ HalfFits(auJobs[k], left)
               /\ IF need = 0 THEN m.w # "body" ELSE m.w = "body" /\ m.n = need
    <2>1. PICK left \in Nat : FramesFit(auWire[k], need, left) /\ HalfFits(auJobs[k], left)
      BY <1>2, <1>3, <1>4 DEF ByPlace, SoundFits
    <2>2. need \in Nat
      BY <1>2
    <2> HIDE DEF need
    <2> QED  BY <1>1, <1>2, <2>1, <2>2, WireTaken
  <1>5. \E c \in R :
          /\ cl' = [cl EXCEPT ![k] = c] /\ c.format = cl[k].format
          /\ \/ ~c.bad /\ c.need = Opens(m) /\ IF need = 0 THEN m.w # "body" ELSE m.w = "body" /\ m.n = need
             \/ c.bad /\ ~(IF need = 0 THEN m.w # "body" ELSE m.w = "body" /\ m.n = need)
    <2>1. m.w \in {"silent", "head", "body"} /\ m.n \in Nat \ {0}
      BY <1>3 DEF SoundWords
    <2>2. CASE need = 0 /\ m.w = "silent" /\ AudioOpSilent(k)
      <3> DEFINE c == [cl[k] EXCEPT !.silent = IF @ = "no" THEN "short" ELSE @]
      <3>1. c \in R /\ c.format = cl[k].format /\ ~c.bad /\ c.need = 0
        BY <1>1, <1>2, <2>2
      <3>2. cl' = [cl EXCEPT ![k] = c]
        BY <2>2 DEF AudioOpSilent
      <3> HIDE DEF c
      <3> QED  BY <2>2, <3>1, <3>2 DEF Opens
    <2>3. CASE need = 0 /\ m.w = "head" /\ cl' = [cl EXCEPT ![k].need = m.n]
      <3> DEFINE c == [cl[k] EXCEPT !.need = m.n]
      <3>1. c \in R /\ c.format = cl[k].format /\ ~c.bad /\ c.need = m.n
        BY <1>1, <1>2, <2>1
      <3>2. cl' = [cl EXCEPT ![k] = c]
        BY <2>3
      <3> HIDE DEF c
      <3> QED  BY <2>3, <3>1, <3>2 DEF Opens
    <2>4. CASE need # 0 /\ m.w = "body" /\ need = m.n /\ AudioOpData(k)
      <3> DEFINE c == [cl[k] EXCEPT !.silent = "no", !.need = 0]
      <3>1. c \in R /\ c.format = cl[k].format /\ ~c.bad /\ c.need = 0
        BY <1>1, <1>2
      <3>2. cl' = [cl EXCEPT ![k] = c]
        BY <2>4 DEF AudioOpData
      <3> HIDE DEF c
      <3> QED  BY <2>4, <3>1, <3>2 DEF Opens
    <2>5. CASE /\ IF need = 0 THEN m.w = "body" ELSE m.w # "body" \/ m.n # need
               /\ cl' = [cl EXCEPT ![k].bad = TRUE]
      <3> DEFINE c == [cl[k] EXCEPT !.bad = TRUE]
      <3>1. c \in R /\ c.format = cl[k].format /\ c.bad
        BY <1>2
      <3>2. cl' = [cl EXCEPT ![k] = c]
        BY <2>5
      <3> HIDE DEF c
      <3> QED  BY <2>5, <3>1, <3>2
    <2> QED  BY <2>2, <2>3, <2>4, <2>5 DEF AudioPushData
  <1>6. PICK c \in R :
          /\ cl' = [cl EXCEPT ![k] = c] /\ c.format = cl[k].format
          /\ \/ ~c.bad /\ c.need = Opens(m) /\ IF need = 0 THEN m.w # "body" ELSE m.w = "body" /\ m.n = need
             \/ c.bad /\ ~(IF need = 0 THEN m.w # "body" ELSE m.w = "body" /\ m.n = need)
    BY <1>5
  <1>7. SoundTyped'
    <2>1. auWire' \in [AudioConns -> Seq(SoundWords)] /\ cl' \in [AudioConns -> R]
      BY <1>1, <1>2, <1>3, <1>6 DEF SoundInv, SoundTyped
    <2> QED  BY <1>1, <2>1 DEF SoundInv, SoundTyped, AudioDaemon, AudioPulse
  <1>8. PlayersFit'
    <2>1. PICK p : PlayerFits(p) /\ al' \in {al, [al EXCEPT ![k] = p]}
      <3>1. CASE al' = al
        BY <1>2, <3>1
      <3>2. CASE al' = [al EXCEPT ![k] = StreamWrite(@)]
        BY <1>2, <3>2, WriteFits
      <3>3. CASE AudioOpSilent(k)
        <4>1. al' \in {al, [al EXCEPT ![k] = al[k]], [al EXCEPT ![k] = StreamWrite(al[k])],
                       [al EXCEPT ![k] = PlayStop(al[k])]}
          BY <3>3 DEF AudioOpSilent
        <4> QED  BY <1>2, <4>1, WriteFits
      <3> QED  BY <3>1, <3>2, <3>3 DEF AudioPushData, AudioOpData
    <2> QED  BY <1>2, <2>1 DEF SoundInv, PlayersFit
  <1>9. WaitFitsPlace'
    BY <1>1 DEF SoundInv, WaitFitsPlace, AudioDaemon, AudioPulse
  <1>10. ASSUME NEW j \in AudioConns PROVE ByPlace(j)'
    <2>1. CASE j # k
      <3>1. cl'[j] = cl[j] /\ auWire'[j] = auWire[j]
        BY <1>1, <1>2, <1>6, <2>1 DEF SoundInv, SoundTyped
      <3> QED  BY <1>1, <3>1, PlaceKept DEF SoundInv, AudioDaemon
    <2>2. CASE j = k
      <3>1. cl'[k] = c /\ auWire'[k] = Tail(auWire[k])
        BY <1>1, <1>2, <1>6 DEF SoundInv, SoundTyped
      <3>2. ASSUME ~auOverlap PROVE ~c.bad /\ SoundFits(k)'
        <4>1. ~c.bad /\ c.need = Opens(m)
          BY <1>4, <1>6, <3>2
        <4> QED  BY <1>1, <1>4, <3>1, <3>2, <4>1 DEF SoundFits
      <3> QED  BY <1>1, <1>2, <1>3, <1>6, <2>2, <3>1, <3>2 DEF ByPlace, AudioDaemon
    <2> QED  BY <2>1, <2>2
  <1> QED  BY <1>7, <1>8, <1>9, <1>10 DEF SoundInv

\* The daemon and the plugin by themselves, as the run session_daemons checks them.
AudioSpec == AudioInit /\ [][AudioNext]_AudioVars

LEMMA SoundInvStep == SoundInv /\ [AudioNext]_AudioVars => SoundInv'
  <1> SUFFICES ASSUME SoundInv, [AudioNext]_AudioVars PROVE SoundInv'
    OBVIOUS
  <1>1. CASE UNCHANGED AudioVars
    <2>1. UNCHANGED <<AudioDaemon, AudioPulse, AudioSend, AudioEnd>>
      BY <1>1 DEF AudioVars
    <2>2. SoundTyped'
      BY <2>1 DEF SoundInv, SoundTyped, AudioDaemon, AudioPulse, AudioSend, AudioEnd
    <2>3. PlayersFit' /\ WaitFitsPlace'
      BY <2>1 DEF SoundInv, PlayersFit, WaitFitsPlace, AudioDaemon, AudioPulse, AudioEnd
    <2>4. \A j \in AudioConns : ByPlace(j)'
      BY <2>1, PlaceKept DEF SoundInv, AudioDaemon, AudioSend, AudioEnd
    <2> QED  BY <2>2, <2>3, <2>4 DEF SoundInv
  <1>2. CASE AudioStop
    <2>1. PICK how \in {"ub", "stopped"} : AudioEnds(how)
      BY <1>2 DEF AudioStop
    <2> QED  BY <1>2, <2>1, EndsFit DEF AudioStop, AudioThread
  <1> QED  BY <1>1, <1>2, ConnectSteps, HandshakeStep, EngineSteps, BlockStep, PacketStep,
              SendFailsStep, PushStepSound, PlayerSteps DEF AudioNext

\* The path of a sound (session_audio, client/audio): the client takes no word
\* of one packet for another's unless two coroutines wrote at once, both ends
\* use one format, and the daemon's thread waits only for what can come.
THEOREM SoundKept == AudioSpec => []AudioSound
  <1>1. AudioInit => SoundInv
    BY NothingFits DEF AudioInit
  <1> QED  BY <1>1, SoundInvStep, SoundInvGives, PTL DEF AudioSpec
=============================================================================
