-------------------------- MODULE MC_CircuitBreaker --------------------------
(***************************************************************************)
(* Instances of CircuitBreaker for TLC: two threads with plain queries and *)
(* two with slow ones, which share one slow slot.                          *)
(***************************************************************************)
EXTENDS CircuitBreaker

CONSTANTS f1, f2, s1, s2

FastThreads == {f1, f2}
SlowThreads == {s1, s2}
=============================================================================
