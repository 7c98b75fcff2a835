-------------------------- MODULE MCDirectMessages --------------------------
(***************************************************************************)
(* Small instances of DirectMessages for TLC.                              *)
(***************************************************************************)
EXTENDS DirectMessages, TLC

Symmetry == Permutations(Task)
=============================================================================
