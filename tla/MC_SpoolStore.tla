--------------------------- MODULE MC_SpoolStore ----------------------------
(***************************************************************************)
(* Instances of SpoolStore for TLC.                                        *)
(***************************************************************************)
EXTENDS SpoolStore, TLC

CONSTANTS j1, j2, r1, c1

TwoJobs == {j1, j2}
OneJob == {j1}
OneReader == {r1}
OneCleaner == {c1}
None == {}
=============================================================================
