--------------------------- MODULE MCFileTransfer ---------------------------
(***************************************************************************)
(* FileTransfer on a small instance: more files than channels in one drop, *)
(* one of them dropped again together with a file that is too large.       *)
(***************************************************************************)
EXTENDS FileTransfer

CONSTANTS f1, f2, f3, f4, f5

SmallFiles == {f1, f2, f3, f4, f5}
FewPlans == [f \in SmallFiles |-> IF f = f1 THEN 2 ELSE 1]
SmallDrops == {<<f1, f2, f3, f4>>, <<f1, f5>>}
=============================================================================
