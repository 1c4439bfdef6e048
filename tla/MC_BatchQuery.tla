--------------------------- MODULE MC_BatchQuery ---------------------------
(***************************************************************************)
(* Instances of BatchQuery for TLC.                                        *)
(***************************************************************************)
EXTENDS BatchQuery, TLC

Symmetry == Permutations(Procs)

\* Bound: an overlap or a fault, not one within the other.
OneTrouble == mixed => faults = 0
=============================================================================
