---------------------------- MODULE MC_ChunkedJob ----------------------------
(***************************************************************************)
(* Instances of ChunkedJob for TLC: three chunks of two batches on a pool  *)
(* of two threads, so that a task waits while two run.                     *)
(***************************************************************************)
EXTENDS ChunkedJob

CONSTANTS k1, k2, k3

ThreeChunks == {k1, k2, k3}
TwoChunks == {k1, k2}
=============================================================================
