--------------------------- MODULE MCRelationView ---------------------------
(***************************************************************************)
(* Small instances of RelationView for TLC.                                *)
(***************************************************************************)
EXTENDS RelationView, TLC

Symmetry == Permutations(RequestId)
=============================================================================
