---------------------------- MODULE MC_WarmCache ----------------------------
(***************************************************************************)
(* Instances of WarmCache for TLC.                                         *)
(***************************************************************************)
EXTENDS WarmCache
=============================================================================
