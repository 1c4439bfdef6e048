-------------------------- MODULE MC_DatasetCache --------------------------
(***************************************************************************)
(* Instances of DatasetCache for TLC: two threads, each in a process.      *)
(***************************************************************************)
EXTENDS DatasetCache

CONSTANTS p1, p2, w1, w2

OneEach == [p \in Procs |-> IF p = p1 THEN w1 ELSE w2]
=============================================================================
