------------------------- MODULE MCSocialRelations -------------------------
(***************************************************************************)
(* Small instances of SocialRelations for TLC.                             *)
(***************************************************************************)
EXTENDS SocialRelations, TLC

\* Tasks, users and request ids are interchangeable: the handlers only compare
\* them, and the order of the two ids of a pair matters to no one.
Symmetry == Permutations(Task) \cup Permutations(Account) \cup Permutations(RequestId)
=============================================================================
