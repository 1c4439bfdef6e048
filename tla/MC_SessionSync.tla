--------------------------- MODULE MC_SessionSync ---------------------------
(***************************************************************************)
(* Instances of SessionSync for TLC.                                       *)
(***************************************************************************)
EXTENDS SessionSync
=============================================================================
