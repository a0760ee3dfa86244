-------------------------- MODULE MCSessionDaemons ---------------------------
(***************************************************************************)
(* The daemons behind the channels of a session: smart cards               *)
(* (PcscSession), folders (FuseSession) and sound (AudioSession).  They    *)
(* are separate processes without a common socket, so a behaviour follows  *)
(* one of them while the others stand at their beginning.                  *)
(***************************************************************************)
EXTENDS PcscSession, FuseSession, AudioSession

CONSTANTS a, b, k1, k2
VARIABLE part

(* One program that calls everything, one that asks for transactions.      *)
McOps == (a :> {"establish", "release", "connect", "readers", "cancel"} \union HandleOps)
         @@ (b :> {"establish", "connect", "begin"})
McNames == {"r1"}

(* A folder, a file with a second name, a link to it, a file of another    *)
(* user with the inode of the root, a socket and a broken link.            *)
Item(ino, path, kind, uid, mode, to) ==
    [ino |-> ino, path |-> path, kind |-> kind, uid |-> uid, mode |-> {mode}, to |-> to]
McItems == <<Item(5, <<"d">>, "dir", 1000, <<"u", "r">>, 0),
             Item(6, <<"d", "f">>, "reg", 1000, <<"u", "r">>, 0),
             Item(7, <<"l">>, "link", 1000, <<"o", "r">>, 6),
             Item(6, <<"h">>, "reg", 1000, <<"u", "r">>, 0),
             Item(1, <<"m">>, "reg", 0, <<"o", "r">>, 0),
             Item(8, <<"s">>, "sock", 0, <<"o", "r">>, 0),
             Item(9, <<"x">>, "link", 0, <<"o", "r">>, 0)>>

(* Two connections of one path, the second without sound.                  *)
McPaths == [k \in AudioConns |-> "p"]
McJobs == k1 :> 2 @@ k2 :> 0
-----------------------------------------------------------------------------
McInit ==
    /\ part \in {"pcsc", "fuse", "audio"}
    /\ PcscInit /\ FuseInit /\ AudioInit
McNext ==
    /\ UNCHANGED part
    /\ \/ part = "pcsc" /\ PcscNext /\ UNCHANGED <<FuseVars, AudioVars>>
       \/ part = "fuse" /\ FuseNext /\ UNCHANGED <<PcscVars, AudioVars>>
       \/ part = "audio" /\ AudioNext /\ UNCHANGED <<PcscVars, FuseVars>>
McVars == <<part, PcscVars, FuseVars, AudioVars>>
McSpec == McInit /\ [][McNext]_McVars
=============================================================================
