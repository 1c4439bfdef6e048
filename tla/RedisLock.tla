------------------------------ MODULE RedisLock ------------------------------
(***************************************************************************)
(* core/redis_client.py: try_acquire_lock (SET NX EX), release_lock        *)
(* (DELETE) and the code between them, for one lock name. The threads that *)
(* take such a lock: the cache updaters, the spool cleanup, the warmup     *)
(* leader election, the single flight of the yield-alert query.            *)
(***************************************************************************)
EXTENDS Integers, FiniteSets

CONSTANTS Procs,       \* the threads that want the lock
          None,        \* no key
          Ttl          \* ttl_seconds, in ticks

ASSUME LockAssumption ==
    /\ IsFiniteSet(Procs) /\ None \notin Procs
    /\ Ttl \in Nat \ {0}

VARIABLES key,     \* who set the key
          keyTtl,  \* what is left of its EX
          inside,  \* the threads between acquire and release
          lease,   \* ghost: what is left of the ttl a thread inside asked for
          overrun  \* ghost: a thread has been inside for longer than its ttl

vars == <<key, keyTtl, inside, lease, overrun>>

TypeOK ==
    /\ key \in Procs \cup {None}
    /\ keyTtl \in 0 .. Ttl
    /\ inside \subseteq Procs
    /\ lease \in [Procs -> 0 .. Ttl]
    /\ overrun \in BOOLEAN

Init ==
    /\ key = None /\ keyTtl = 0
    /\ inside = {}
    /\ lease = [p \in Procs |-> 0]
    /\ overrun = FALSE
-----------------------------------------------------------------------------
\* Mutant: SET without NX.
SetAnyway(p) == key' = p /\ keyTtl' = Ttl

\* Mutant: SET NX, and an EXPIRE that is never sent.
SetForever(p) == key = None /\ key' = p /\ UNCHANGED keyTtl

\* SET key pid NX EX ttl.
SetNxEx(p) == key = None /\ key' = p /\ keyTtl' = Ttl

Delete == key' = None /\ keyTtl' = 0

\* try_acquire_lock returns True. (False, when the key is held, changes nothing.)
Acquire(p) ==
    /\ p \notin inside
    /\ SetNxEx(p)
    /\ inside' = inside \cup {p}
    /\ lease' = [lease EXCEPT ![p] = Ttl]
    /\ UNCHANGED overrun

\* The reply is lost after Redis ran the SET: "closed" and "raise", the modes
\* the callers ask for, keep the caller out. (Without the SET nothing changes.)
AcquireFails(p) ==
    /\ p \notin inside
    /\ SetNxEx(p)
    /\ UNCHANGED <<inside, lease, overrun>>

Leave(ps) ==
    /\ ps # {} /\ ps \subseteq inside
    /\ inside' = inside \ ps
    /\ lease' = [p \in Procs |-> IF p \in ps THEN 0 ELSE lease[p]]
    /\ UNCHANGED overrun

\* release_lock: DELETE, whoever set the key.
Release(p) == Leave({p}) /\ Delete

\* Redis is away at the release (which is logged), or a process dies with the
\* threads ps of its own inside.
LeaveHeld(ps) == Leave(ps) /\ UNCHANGED <<key, keyTtl>>

Tick ==
    /\ keyTtl' = IF keyTtl > 0 THEN keyTtl - 1 ELSE 0
    /\ key' = IF keyTtl = 1 THEN None ELSE key
    /\ lease' = [p \in Procs |-> IF lease[p] > 0 THEN lease[p] - 1 ELSE 0]
    /\ overrun' = (overrun \/ \E p \in inside : lease[p] = 1)
    /\ UNCHANGED inside

Next ==
    \/ \E p \in Procs : Acquire(p) \/ AcquireFails(p) \/ Release(p)
    \/ \E ps \in SUBSET Procs : LeaveHeld(ps)
    \/ Tick

Spec == Init /\ [][Next]_vars
-----------------------------------------------------------------------------
\* At most one thread is in the protected code, over lost replies, lost
\* releases and dead holders, as long as nobody has stayed in it beyond its ttl.
Exclusion == ~overrun => Cardinality(inside) <= 1

\* A held lock becomes free although its holder died or its release was lost.
LockComesBack == key # None ~> key = None
=============================================================================
