--------------------------- MODULE MCLtsmService ----------------------------
(***************************************************************************)
(* LtsmService on small instances.                                         *)
(***************************************************************************)
EXTENDS LtsmService, TLC

Symmetry ==
    Permutations(Connectors) \union Permutations(Workers) \union Permutations(Users)
=============================================================================
