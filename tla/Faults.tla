-------------------------------- MODULE Faults --------------------------------
(***************************************************************************)
(* What goes wrong from outside (a process is killed, Redis or a database  *)
(* fails, a step is late) is counted, so that TLC can bound it and a       *)
(* property can speak of the time before the first of it.                  *)
(***************************************************************************)
EXTENDS Naturals

CONSTANT MaxFaults     \* bound: how much goes wrong

ASSUME FaultsAssumption == MaxFaults \in Nat

VARIABLE faults

Fault == faults < MaxFaults /\ faults' = faults + 1
=============================================================================
