---------------------------- MODULE FuseSession ----------------------------
(***************************************************************************)
(* The shared folder of a session (src/session_fuse) with the plugin of    *)
(* the remote client that owns the files (src/client/fuse).                *)
(*                                                                         *)
(* At the mount the client sends its whole tree; names and attributes are  *)
(* answered from these tables for ever after.  Open, Release and Read go   *)
(* over one stream: a coroutine per request sends under send_lock_, and    *)
(* one receiver takes the same lock for every answer.  All coroutines of   *)
(* the daemon run in ONE thread.  A message is a header that names the     *)
(* kernel's request, and what follows it depends on the command.           *)
(***************************************************************************)
EXTENDS AsyncMutex, SequencesExt, FiniteSets

CONSTANTS
    FuseReqs,      \* requests the kernel has in flight
    FuseFds,       \* descriptors the client can open
    FuseItems,     \* the shared tree, in the order of readDir
    FuseOffsets,   \* read positions
    FuseIntMax,    \* INT_MAX of the client's build
    FuseLocalUid,  \* the user of the session
    FuseRemoteUid  \* the user of the client

(* An inode number of the client's file system is not 0, and a shared file *)
(* has a name; the receiver of answers is nobody's request.                *)
ASSUME FuseAssumption ==
    /\ FuseFds \subseteq Nat
    /\ FuseOffsets \subseteq Nat
    /\ "receiver" \notin FuseReqs
    /\ DOMAIN FuseItems \subseteq Nat \ {0}
    /\ \A i \in DOMAIN FuseItems : /\ FuseItems[i].ino \in Nat \ {0}
                                   /\ FuseItems[i].path \in Seq(STRING) \ {<<>>}

VARIABLES
    fsRun,     \* the daemon: "run", "blocked" (in fuse_wait_.get), "ub", "stopped"
    fsLink,    \* the socket of the mount: "none", "opened", "up", "eof"
    fsMount,   \* "none", "mounted", "gone" (unmounted by someone else)
    fsInodes,  \* inodes: inode -> [path, st]
    fsPathes,  \* pathes: path -> stat
    fsLinks,   \* symlinks
    fsReq,     \* the kernel's requests and the coroutine that serves each
    fsLock,    \* send_lock_
    fsRecv,    \* fuseCmdRecv: "off", "wait", "lock", "head", "fh", "data", "dead"
    fsRid,     \* the request named by the header the receiver works on
    fsWire,    \* commands the client has not handled
    fsAnswers, \* words of answers the daemon has not read
    fsBig,     \* history: a position beyond FuseIntMax was read
    clFds,     \* opens of the client: the inode behind each descriptor, 0 is closed
    knFds      \* handles the kernel has: <<fh, inode>>

FuseTables == <<fsInodes, fsPathes, fsLinks>>
FuseStream == <<fsWire, fsAnswers, clFds, fsBig>>
FuseVars == <<fsRun, fsLink, fsMount, FuseTables, fsReq, fsLock, fsRecv, fsRid,
              FuseStream, knFds>>

Receiver == "receiver"
FuseNoReq == "noreq"
TableOps == {"lookup", "getattr", "readlink", "access", "readdir"}
FuseIdle == [st |-> "free", op |-> "none", ino |-> 0, fh |-> 0, off |-> 0, res |-> ""]
-----------------------------------------------------------------------------
(***************************************************************************)
(* The tables.  A path is the sequence of its names below the mount point. *)
(***************************************************************************)
FuseTree == {FuseItems[i] : i \in DOMAIN FuseItems}
RootStat == [ino |-> 1, kind |-> "dir", uid |-> FuseLocalUid, mode |-> {<<"o", "r">>, <<"o", "x">>}]
RootInodes == [i \in {1} |-> [path |-> <<>>, st |-> RootStat]]
RootPathes == [p \in {<<>>} |-> RootStat]

(* A link is sent only when its target exists below the shared folder.     *)
ReadSymLink(it) == it.kind = "link" => it.to # 0

(* The client collects its tree by inode: the first name of an inode wins, *)
(* devices and broken links are skipped.                                   *)
ReplyWriteShareRootInfo ==
    LET Sent(i) == /\ FuseItems[i].kind \in {"dir", "reg", "link"}
                   /\ ReadSymLink(FuseItems[i])
    IN  {FuseItems[i] : i \in {j \in DOMAIN FuseItems :
            Sent(j) /\ \A k \in 1..(j-1) : Sent(k) => FuseItems[k].ino # FuseItems[j].ino}}

(* The owner is replaced: the client's user becomes the user of the        *)
(* session, everybody else becomes root.                                   *)
RecvStatStruct(it) ==
    [ino |-> it.ino, kind |-> it.kind, mode |-> it.mode,
     uid |-> IF it.uid # FuseRemoteUid THEN 0 ELSE FuseLocalUid]

(* emplace keeps the entry that is there: inode 1 is the mount point, and  *)
(* a remote file with that number is left out.                             *)
FaultNewItems == ReplyWriteShareRootInfo
NewItems == {it \in ReplyWriteShareRootInfo : it.ino # 1}
FilledInodes ==
    LET new == {it \in NewItems : it.ino \notin DOMAIN RootInodes} IN
    [i \in DOMAIN RootInodes \union {it.ino : it \in new} |->
        IF i \in DOMAIN RootInodes THEN RootInodes[i]
        ELSE LET it == CHOOSE x \in new : x.ino = i IN
             [path |-> it.path, st |-> RecvStatStruct(it)]]
FilledPathes ==
    [p \in {<<>>} \union {it.path : it \in NewItems} |->
        IF p = <<>> THEN RootStat
        ELSE FilledInodes[(CHOOSE x \in NewItems : x.path = p).ino].st]
FilledLinks == {<<it.ino, it.to>> : it \in {x \in FuseTree : x.kind = "link" /\ ReadSymLink(x)}}

FindInode(i) == i \in DOMAIN fsInodes
JoinPath(i, name) == Append(fsInodes[i].path, name)
FindChildStat(i, name) ==
    IF FindInode(i) /\ JoinPath(i, name) \in DOMAIN fsPathes
    THEN {fsPathes[JoinPath(i, name)]} ELSE {}
FindLink(i) == {l[2] : l \in {m \in fsLinks : m[1] = i}}
CreateDirBuf(dir) ==
    {<<Last(p), fsPathes[p].ino>> : p \in {q \in DOMAIN fsPathes : q # <<>> /\ Front(q) = dir}}

(* A permission is held by others, or by the owner: the owner's number is  *)
(* one of the session and is compared with one of the client.              *)
AccessBit(st, bit) ==
    \/ <<"o", bit>> \in st.mode
    \/ <<"u", bit>> \in st.mode /\ st.uid = FuseRemoteUid

ReplyLookup(i, name) ==
    IF FindChildStat(i, name) = {} THEN <<"err", "ENOENT">>
    ELSE <<"entry", (CHOOSE st \in FindChildStat(i, name) : TRUE).ino>>
ReplyGetAttr(i) == IF FindInode(i) THEN <<"attr", fsInodes[i].st.kind>> ELSE <<"err", "ENOENT">>
ReplyReadLink(i) ==
    IF ~FindInode(i) THEN <<"err", "ENOENT">>
    ELSE IF fsInodes[i].st.kind # "link" THEN <<"err", "EINVAL">>
    ELSE IF \A j \in FindLink(i) : ~FindInode(j) THEN <<"err", "ENOENT">>
    ELSE <<"path", fsInodes[CHOOSE j \in FindLink(i) : FindInode(j)].path>>
ReplyAccess(i, mask) ==
    IF i = 1 THEN <<"ok">>
    ELSE IF ~FindInode(i) THEN <<"err", "ENOENT">>
    ELSE IF mask = "F" \/ AccessBit(fsInodes[i].st, mask) THEN <<"ok">> ELSE <<"err", "EACCES">>
ReplyReadDir(i) ==
    IF ~FindInode(i) THEN <<"err", "ENOENT">>
    ELSE IF fsInodes[i].st.kind # "dir" THEN <<"err", "ENOTDIR">>
    ELSE <<"names", CreateDirBuf(fsInodes[i].path)>>
-----------------------------------------------------------------------------
(***************************************************************************)
(* Mount.                                                                  *)
(***************************************************************************)
FuseInit ==
    /\ fsRun = "run" /\ fsLink = "none" /\ fsMount = "none"
    /\ fsInodes = RootInodes /\ fsPathes = RootPathes /\ fsLinks = {}
    /\ fsReq = [r \in FuseReqs |-> FuseIdle] /\ fsLock = MutexFree
    /\ fsRecv = "off" /\ fsRid = FuseNoReq /\ fsWire = <<>> /\ fsAnswers = <<>>
    /\ fsBig = FALSE /\ clFds = [f \in FuseFds |-> 0] /\ knFds = {}

(* mountPoint is refused while the point is in the list with an open       *)
(* socket; the socket is tried five times.                                 *)
MountPoint ==
    /\ fsRun = "run" /\ fsLink = "none"
    /\ fsLink' = "opened"
    /\ UNCHANGED <<fsRun, fsMount, FuseTables, fsReq, fsLock, fsRecv, fsRid, FuseStream, knFds>>

FuseRetryConnect ==
    /\ fsRun = "run" /\ fsLink = "opened"
    /\ fsLink' = "none"
    /\ UNCHANGED <<fsRun, fsMount, FuseTables, fsReq, fsLock, fsRecv, fsRid, FuseStream, knFds>>

(* fuseOpInit: the client allows the point and sends its tree, or not.     *)
FuseOpInit == {"allowed", "refused"}

(* startSession mounts and starts the two coroutines.                      *)
StartSession ==
    \/ fsMount' = "mounted" /\ fsRecv' = "wait" /\ fsLink' = "up"
    \/ fsLink' = "none" /\ UNCHANGED <<fsMount, fsRecv>>

FuseRemoteHandshake ==
    /\ fsRun = "run" /\ fsLink = "opened"
    /\ \E reply \in FuseOpInit :
        \/ /\ reply = "refused" /\ fsLink' = "none"
           /\ UNCHANGED <<fsMount, fsRecv, FuseTables>>
        \/ /\ reply = "allowed"
           /\ StartSession
           /\ IF fsLink' = "none" THEN UNCHANGED FuseTables
              ELSE /\ fsInodes' = FilledInodes
                   /\ fsPathes' = FilledPathes
                   /\ fsLinks' = FilledLinks
    /\ UNCHANGED <<fsRun, fsReq, fsLock, fsRid, FuseStream, knFds>>

(* The client leaves: its connector is destroyed and closes all it opened; *)
(* what it has sent can still be read.                                     *)
FuseClientLeaves ==
    /\ fsRun = "run" /\ fsLink = "up"
    /\ fsLink' = "eof" /\ fsWire' = <<>> /\ clFds' = [f \in FuseFds |-> 0]
    /\ UNCHANGED <<fsRun, fsMount, FuseTables, fsReq, fsLock, fsRecv, fsRid,
                   fsAnswers, fsBig, knFds>>

(* Someone unmounts the point: fuseCmdSend ends, requests are dropped.     *)
FuseUnmounted ==
    /\ fsRun = "run" /\ fsMount = "mounted"
    /\ fsMount' = "gone" /\ knFds' = {}
    /\ UNCHANGED <<fsRun, fsLink, FuseTables, fsReq, fsLock, fsRecv, fsRid, FuseStream>>

(* stopSession (umountPoint, stop): emits the cancellation and waits for   *)
(* the two coroutines in the only thread that could run them.  Nothing     *)
(* moves after that, and the model drops the rest of the state.            *)
FuseWaits == fsMount = "mounted" \/ fsRecv \notin {"off", "dead"}
StopSession ==
    /\ fsRun = "run"
    /\ fsRun' = IF FuseWaits THEN "blocked" ELSE "stopped"
    /\ fsLink' = "none" /\ fsMount' = "none" /\ fsInodes' = RootInodes
    /\ fsPathes' = RootPathes /\ fsLinks' = {} /\ fsReq' = [r \in FuseReqs |-> FuseIdle]
    /\ fsLock' = MutexFree /\ fsRecv' = "off" /\ fsRid' = FuseNoReq /\ fsWire' = <<>>
    /\ fsAnswers' = <<>> /\ fsBig' = FALSE /\ clFds' = [f \in FuseFds |-> 0] /\ knFds' = {}
-----------------------------------------------------------------------------
(***************************************************************************)
(* Requests of the kernel.                                                 *)
(***************************************************************************)
KernelAsks(r) == fsRun = "run" /\ fsMount = "mounted" /\ fsReq[r].st = "free"
(* fuse_reply_*: the kernel gets an answer, kept here as its kind.         *)
Replied(q, res) == [q EXCEPT !.st = "replied", !.res = res[1]]

(* cbLookup, cbGetAttr, cbReadLink, cbAccess, cbReadDir: answered from the *)
(* tables, whatever became of the client.                                  *)
CbTables(r) ==
    /\ KernelAsks(r)
    /\ \E i \in DOMAIN fsInodes \union {0}, op \in TableOps, name \in {Last(p) : p \in DOMAIN fsPathes \ {<<>>}} :
        fsReq' = [fsReq EXCEPT ![r] = Replied([FuseIdle EXCEPT !.op = op, !.ino = i],
            CASE op = "lookup" -> ReplyLookup(i, name)
              [] op = "getattr" -> ReplyGetAttr(i)
              [] op = "readlink" -> ReplyReadLink(i)
              [] op = "access" -> ReplyAccess(i, "r")
              [] op = "readdir" -> ReplyReadDir(i))]
    /\ UNCHANGED <<fsRun, fsLink, fsMount, FuseTables, fsLock, fsRecv, fsRid, FuseStream, knFds>>

(* A request that needs the client queues for send_lock_; one about an     *)
(* unknown inode or a directory is refused at once.                        *)
FaultFuseQueue(r, q) ==
    IF FindInode(q.ino) /\ fsInodes[q.ino].st.kind # "dir"
    THEN fsReq' = [fsReq EXCEPT ![r] = [q EXCEPT !.st = "sending"]] /\ UNCHANGED fsLock
    ELSE fsReq' = [fsReq EXCEPT ![r] = Replied(q, <<"err">>)] /\ UNCHANGED fsLock
FuseQueue(r, q) ==
    IF FindInode(q.ino) /\ fsInodes[q.ino].st.kind # "dir"
    THEN /\ fsLock' = MutexEnter(fsLock, r)
         /\ fsReq' = [fsReq EXCEPT ![r] =
                [q EXCEPT !.st = IF fsLock.n = 0 THEN "sending" ELSE "lock"]]
    ELSE fsReq' = [fsReq EXCEPT ![r] = Replied(q, <<"err">>)] /\ UNCHANGED fsLock

CbOpen(r) ==
    /\ KernelAsks(r)
    /\ \E i \in DOMAIN fsInodes \union {0} :
        FuseQueue(r, [FuseIdle EXCEPT !.op = "open", !.ino = i])
    /\ UNCHANGED <<fsRun, fsLink, fsMount, FuseTables, fsRecv, fsRid, FuseStream, knFds>>

(* The kernel gives a handle back with its release.                        *)
CbRelease(r) ==
    /\ KernelAsks(r)
    /\ \E h \in knFds :
        /\ \A s \in FuseReqs : ~(fsReq[s].op = "read" /\ fsReq[s].fh = h[1] /\ fsReq[s].st # "replied")
        /\ knFds' = knFds \ {h}
        /\ FuseQueue(r, [FuseIdle EXCEPT !.op = "release", !.ino = h[2], !.fh = h[1]])
    /\ UNCHANGED <<fsRun, fsLink, fsMount, FuseTables, fsRecv, fsRid, FuseStream>>

CbRead(r) ==
    /\ KernelAsks(r)
    /\ \E h \in knFds, off \in FuseOffsets :
        FuseQueue(r, [FuseIdle EXCEPT !.op = "read", !.ino = h[2], !.fh = h[1], !.off = off])
    /\ UNCHANGED <<fsRun, fsLink, fsMount, FuseTables, fsRecv, fsRid, FuseStream, knFds>>

(* Who got the lock goes on: a request sends, the receiver reads.          *)
FaultLockPassed(reqs) ==
    /\ fsLock' = [fsLock EXCEPT !.n = @ - 1]
    /\ fsReq' = reqs
    /\ fsRecv' = IF fsRecv \in {"head", "fh", "data"} THEN "wait" ELSE fsRecv
LockPassed(reqs) ==
    /\ fsLock' = MutexLeave(fsLock)
    /\ LET woken == MutexWoken(fsLock) IN
       /\ fsReq' = [r \in FuseReqs |-> IF r \in woken THEN [reqs[r] EXCEPT !.st = "sending"] ELSE reqs[r]]
       /\ fsRecv' = IF Receiver \in woken THEN "head"
                    ELSE IF fsRecv \in {"head", "fh", "data"} THEN "wait" ELSE fsRecv

(* sendOpen, sendRelease, sendRead: the command goes out, or the write     *)
(* throws and the kernel is told EFAULT; the lock is left in both cases.   *)
FuseSend(r, op) ==
    /\ fsRun = "run" /\ fsReq[r].st = "sending" /\ fsReq[r].op = op
    /\ \/ /\ fsLink = "up"
          /\ fsWire' = Append(fsWire, [op |-> op, rid |-> r, ino |-> fsReq[r].ino,
                                       fh |-> fsReq[r].fh, off |-> fsReq[r].off])
          /\ LockPassed([fsReq EXCEPT ![r].st = "sent"])
       \/ /\ fsLink = "eof"
          /\ LockPassed([fsReq EXCEPT ![r] = Replied(@, <<"err">>)])
          /\ UNCHANGED fsWire
    /\ UNCHANGED <<fsRun, fsLink, fsMount, FuseTables, fsRid, fsAnswers, fsBig, clFds, knFds>>
SendOpen(r) == FuseSend(r, "open")
SendRelease(r) == FuseSend(r, "release")
SendRead(r) == FuseSend(r, "read")

KernelTakes(r) ==
    /\ fsRun = "run" /\ fsReq[r].st = "replied"
    /\ fsReq' = [fsReq EXCEPT ![r] = FuseIdle]
    /\ UNCHANGED <<fsRun, fsLink, fsMount, FuseTables, fsLock, fsRecv, fsRid, FuseStream, knFds>>
-----------------------------------------------------------------------------
(***************************************************************************)
(* The client: fuseOpOpen, fuseOpRelease, fuseOpRead.  Each gives the new  *)
(* descriptors and the words of the answer.                                *)
(***************************************************************************)
Header(m, err) == [w |-> "head", op |-> m.op, rid |-> m.rid, err |-> err, v |-> 0]
FuseWord(w, m, v) == [w |-> w, op |-> m.op, rid |-> m.rid, err |-> FALSE, v |-> v]
FreeFds == {f \in FuseFds : clFds[f] = 0}

(* open gives the lowest free descriptor, or an error and no handle.       *)
FuseOpened(m) == {f \in FreeFds : \A g \in FreeFds : f <= g}
FaultFuseOpOpen(m) ==
    {[fds |-> [clFds EXCEPT ![f] = m.ino], out |-> <<Header(m, FALSE), FuseWord("fh", m, f)>>]
        : f \in FuseOpened(m)}
    \union {[fds |-> clFds, out |-> <<Header(m, TRUE), FuseWord("fh", m, 0)>>]}
FuseOpOpen(m) ==
    {[fds |-> [clFds EXCEPT ![f] = m.ino], out |-> <<Header(m, FALSE), FuseWord("fh", m, f)>>]
        : f \in FuseOpened(m)}
    \union {[fds |-> clFds, out |-> <<Header(m, TRUE)>>]}
FuseOpRelease(m) ==
    {[fds |-> [clFds EXCEPT ![m.fh] = 0], out |-> <<Header(m, clFds[m.fh] = 0)>>]}

(* The position lseek returns is kept in an int: one beyond FuseIntMax     *)
(* looks like a failure, with the errno some earlier call left.            *)
SeekFails(off) == off > FuseIntMax
FaultFuseOpRead(m) ==
    {[fds |-> [clFds EXCEPT ![m.fh] = 0], out |-> <<Header(m, TRUE)>>],
     [fds |-> clFds, out |-> <<Header(m, FALSE), FuseWord("data", m, clFds[m.fh])>>]}
FuseOpRead(m) ==
    IF clFds[m.fh] = 0 THEN {[fds |-> clFds, out |-> <<Header(m, TRUE)>>]}
    ELSE IF SeekFails(m.off)
    THEN {[fds |-> clFds, out |-> <<Header(m, stale)>>] : stale \in BOOLEAN}
    ELSE {[fds |-> clFds, out |-> <<Header(m, TRUE)>>],
          [fds |-> clFds, out |-> <<Header(m, FALSE), FuseWord("data", m, clFds[m.fh])>>]}

FusePushData ==
    /\ fsRun = "run" /\ fsLink = "up" /\ fsWire # <<>>
    /\ LET m == Head(fsWire) IN
       /\ \E o \in CASE m.op = "open" -> FuseOpOpen(m)
                     [] m.op = "release" -> FuseOpRelease(m)
                     [] m.op = "read" -> FuseOpRead(m) :
            /\ clFds' = o.fds
            /\ fsAnswers' = fsAnswers \o o.out
       /\ fsBig' = (fsBig \/ (m.op = "read" /\ SeekFails(m.off)))
    /\ fsWire' = Tail(fsWire)
    /\ UNCHANGED <<fsRun, fsLink, fsMount, FuseTables, fsReq, fsLock, fsRecv, fsRid, knFds>>
-----------------------------------------------------------------------------
(***************************************************************************)
(* fuseCmdRecv.                                                            *)
(***************************************************************************)
FuseCmdRecvReady ==
    /\ fsRun = "run" /\ fsRecv = "wait" /\ (fsAnswers # <<>> \/ fsLink = "eof")
    /\ fsLock' = MutexEnter(fsLock, Receiver)
    /\ fsRecv' = IF fsLock.n = 0 THEN "head" ELSE "lock"
    /\ UNCHANGED <<fsRun, fsLink, fsMount, FuseTables, fsReq, fsRid, FuseStream, knFds>>

(* The header says which request is answered and what follows it.          *)
FuseCmdRecvHead ==
    /\ fsRun = "run" /\ fsRecv = "head" /\ fsAnswers # <<>>
    /\ fsAnswers' = Tail(fsAnswers)
    /\ LET h == Head(fsAnswers) IN
       \/ /\ h.w = "head" /\ ~h.err /\ h.op \in {"open", "read"}
          /\ fsRecv' = IF h.op = "open" THEN "fh" ELSE "data"
          /\ fsRid' = h.rid
          /\ UNCHANGED <<fsRun, fsReq, fsLock>>
       \/ /\ h.w = "head" /\ (h.err \/ h.op = "release")
          /\ LockPassed([fsReq EXCEPT ![h.rid] = Replied(@, IF h.err THEN <<"err">> ELSE <<"ok">>)])
          /\ UNCHANGED <<fsRun, fsRid>>
       \/ /\ h.w # "head" /\ fsRun' = "ub"
          /\ UNCHANGED <<fsReq, fsLock, fsRecv, fsRid>>
    /\ UNCHANGED <<fsLink, fsMount, FuseTables, fsWire, fsBig, clFds, knFds>>

(* replyOpen, replyRead: the payload is read with the lock held.  Words of *)
(* another message taken for it are undefined behaviour further on.        *)
FuseReplyPayload(kind) ==
    /\ fsRun = "run" /\ fsRecv = kind /\ fsAnswers # <<>>
    /\ fsAnswers' = Tail(fsAnswers)
    /\ LET p == Head(fsAnswers) IN
       \/ /\ p.w = kind
          /\ LockPassed([fsReq EXCEPT ![fsRid] = Replied(@, <<kind, p.v>>)])
          /\ knFds' = IF kind = "fh" /\ fsMount = "mounted"
                      THEN knFds \union {<<p.v, fsReq[fsRid].ino>>} ELSE knFds
          /\ fsRid' = FuseNoReq
          /\ UNCHANGED fsRun
       \/ /\ p.w # kind /\ fsRun' = "ub"
          /\ UNCHANGED <<fsReq, fsLock, fsRecv, fsRid, knFds>>
    /\ UNCHANGED <<fsLink, fsMount, FuseTables, fsWire, fsBig, clFds>>
ReplyOpen == FuseReplyPayload("fh")
ReplyRead == FuseReplyPayload("data")

(* At the end of the stream the receiver returns, with the lock.           *)
FuseCmdRecvEof ==
    /\ fsRun = "run" /\ fsRecv \in {"head", "fh", "data"}
    /\ fsLink = "eof" /\ fsAnswers = <<>>
    /\ fsRecv' = "dead"
    /\ UNCHANGED <<fsRun, fsLink, fsMount, FuseTables, fsReq, fsLock, fsRid, FuseStream, knFds>>

FuseNext ==
    \/ MountPoint \/ FuseRetryConnect \/ FuseRemoteHandshake
    \/ FuseClientLeaves \/ FuseUnmounted \/ StopSession
    \/ \E r \in FuseReqs :
        \/ CbTables(r) \/ CbOpen(r) \/ CbRelease(r) \/ CbRead(r)
        \/ SendOpen(r) \/ SendRelease(r) \/ SendRead(r) \/ KernelTakes(r)
    \/ FusePushData
    \/ FuseCmdRecvReady \/ FuseCmdRecvHead \/ ReplyOpen \/ ReplyRead \/ FuseCmdRecvEof
-----------------------------------------------------------------------------
(* Types: every coroutine is in one of its places, and the lock counts the *)
(* coroutines that are in it.                                              *)
FuseTypeOK ==
    /\ fsRun \in {"run", "blocked", "ub", "stopped"}
    /\ fsLink \in {"none", "opened", "up", "eof"}
    /\ fsMount \in {"none", "mounted", "gone"}
    /\ fsRecv \in {"off", "wait", "lock", "head", "fh", "data", "dead"}
    /\ \A r \in FuseReqs : fsReq[r].st \in {"free", "lock", "sending", "sent", "replied"}
    /\ fsLock.n = Cardinality({r \in FuseReqs : fsReq[r].st \in {"lock", "sending"}})
                  + (IF fsRecv \in {"lock", "head", "fh", "data", "dead"} THEN 1 ELSE 0)

(* The words of answers are taken for what they are: the receiver never    *)
(* reads a payload as a header or the other way round (fuseCmdRecv,        *)
(* replyOpen, replyRead against fuseOpOpen, fuseOpRead), as long as no     *)
(* position beyond INT_MAX was read.                                       *)
FuseFramesAligned == fsBig \/ fsRun # "ub"

(* A handle the kernel was given names an open descriptor of the same file *)
(* at the client while the client is there (replyOpen, fuseOpRelease).     *)
FuseHandleOpen == fsLink = "up" => \A h \in knFds : clFds[h[1]] = h[2]

(* send_lock_ held by nobody who will leave it: only after the receiver    *)
(* has returned at the end of the stream (fuseCmdRecv).                    *)
FuseLockHeld ==
    fsLock.n > 0 /\ fsRecv # "dead" =>
        \/ \E r \in FuseReqs : fsReq[r].st = "sending"
        \/ fsRecv \in {"head", "fh", "data"}

(* The stream of requests and answers: words are what they are taken for,  *)
(* the lock over it has a holder, and a handle names the file it is for.   *)
FuseStreamSound ==
    FuseTypeOK /\ FuseFramesAligned /\ FuseLockHeld /\ FuseHandleOpen

(* A name that readdir shows leads back to itself: lookup of it gives an   *)
(* inode whose path is that name (findChildStat, createDirBuf).            *)
FuseNamesResolve ==
    \A i \in DOMAIN fsInodes : fsInodes[i].st.kind = "dir" =>
        \A e \in CreateDirBuf(fsInodes[i].path) :
            /\ ReplyLookup(i, e[1]) = <<"entry", e[2]>>
            /\ fsInodes[e[2]].path = JoinPath(i, e[1])
=============================================================================
