----------------------------- MODULE MCAvatars -----------------------------
(***************************************************************************)
(* Small instances of Avatars for TLC.                                     *)
(***************************************************************************)
EXTENDS Avatars, TLC

Symmetry == Permutations(Task) \cup Permutations(Name)
=============================================================================
