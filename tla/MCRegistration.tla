--------------------------- MODULE MCRegistration ---------------------------
(***************************************************************************)
(* Small instances of Registration for TLC.  The run has liveness          *)
(* properties, so it declares no symmetry.                                 *)
(***************************************************************************)
EXTENDS Registration
=============================================================================
