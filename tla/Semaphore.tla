------------------------------ MODULE Semaphore ------------------------------
(***************************************************************************)
(* What core/global_concurrency.py promises of the slots it grants: a      *)
(* counting semaphore. Who holds a slot got it when there was room, and    *)
(* may lose it at any time, by a release or because it is presumed dead.   *)
(* With one slot it is a mutex, the promise of the locks in Redis.         *)
(***************************************************************************)
EXTENDS Integers, FiniteSets

CONSTANTS Callers, MaxConcurrent

VARIABLE holders

NobodyHolds == holders = {}

Take(c) ==
    /\ c \notin holders
    /\ Cardinality(holders) < MaxConcurrent
    /\ holders' = holders \cup {c}

\* Any of the holders, several of them when time passes.
Lose == holders' \subseteq holders

Steps == (\E c \in Callers : Take(c)) \/ Lose

SemaphoreSpec == NobodyHolds /\ [][Steps]_holders
=============================================================================
