---------------------------- MODULE MC_AsyncJob -----------------------------
(***************************************************************************)
(* Instances of AsyncJob for TLC; every constant has its value in a .cfg.  *)
(***************************************************************************)
EXTENDS AsyncJob
=============================================================================
