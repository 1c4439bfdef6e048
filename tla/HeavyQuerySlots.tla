-------------------------- MODULE HeavyQuerySlots --------------------------
(***************************************************************************)
(* core/global_concurrency.py: the Redis sorted set that counts the heavy  *)
(* Oracle queries in flight, and the three kinds of code that take a slot. *)
(*                                                                         *)
(* Time is a Tick that ages everything, so no clock bound is needed: a     *)
(* member's score is kept relative to "now" (now + ttl is Ttl, the cutoff  *)
(* now - ttl is -Ttl) and saturates once it can only be stale.             *)
(***************************************************************************)
EXTENDS Integers, FiniteSets

CONSTANTS Callers,        \* RQ jobs and requests that run a heavy Oracle query
          Owners,         \* sorted-set members (owner_id)
          OwnerOf,        \* the owner_id a caller passes: not always its own
          StrictCallers,  \* callers that raise when refused; the others proceed
          MaxConcurrent,  \* HEAVY_QUERY_MAX_CONCURRENT
          Ttl             \* the ttl argument, in ticks

ASSUME SlotAssumption ==
    /\ IsFiniteSet(Callers) /\ IsFiniteSet(Owners)
    /\ OwnerOf \in [Callers -> Owners]
    /\ StrictCallers \subseteq Callers
    /\ MaxConcurrent \in Nat \ {0}
    /\ Ttl \in Nat \ {0}

\* What acquire_heavy_query_slot's docstring asks of its callers.
DistinctOwners == \A c, d \in Callers : OwnerOf[c] = OwnerOf[d] => c = d

VARIABLES members,   \* the members of the sorted set
          score,     \* their scores, relative to now (0 for a non-member)
          keyTtl,    \* what is left of the EXPIRE on the whole key
          running,   \* the callers inside their Oracle fetch
          acquired,  \* the callers whose local `acquired` flag is True
          granted,   \* the running callers the script itself said yes to
          age,       \* ticks since a running caller entered, up to 2 * Ttl
          leaked     \* owners whose slot outlived its caller

vars == <<members, score, keyTtl, running, acquired, granted, age, leaked>>

TypeOK ==
    /\ members \subseteq Owners
    /\ score \in [Owners -> -Ttl .. Ttl]
    /\ keyTtl \in 0 .. 2 * Ttl
    /\ running \subseteq Callers
    /\ acquired \subseteq running
    /\ granted \subseteq acquired
    /\ age \in [Callers -> 0 .. 2 * Ttl]
    /\ leaked \subseteq Owners

Init ==
    /\ members = {} /\ score = [o \in Owners |-> 0] /\ keyTtl = 0
    /\ running = {} /\ acquired = {} /\ granted = {}
    /\ age = [c \in Callers |-> 0]
    /\ leaked = {}
-----------------------------------------------------------------------------
\* Mutant: the score the module docstring describes, the time of acquisition.
NewScoreAcquiredAt == 0
NewScore == Ttl

\* Mutant: a cutoff that no score falls under.
CutoffNone == -Ttl - 1
Cutoff == -Ttl

\* ZREMRANGEBYSCORE key -inf cutoff: the members that survive it.
Live == {o \in members : score[o] > Cutoff}

\* The sorted set becomes M; a set left empty is a deleted key.
SetMembers(M, sc) ==
    /\ members' = M
    /\ score' = [o \in Owners |-> IF o \in M THEN sc[o] ELSE 0]

\* Mutant: an off-by-one in `active >= max_concurrent`.
HasRoomOffByOne == Cardinality(Live) <= MaxConcurrent

\* _LUA_ACQUIRE for owner o, atomic in Redis: purge, count, maybe add.
HasRoom == Cardinality(Live) < MaxConcurrent

ScriptAdds(o) ==
    /\ HasRoom
    /\ SetMembers(Live \cup {o}, [score EXCEPT ![o] = NewScore])
    /\ keyTtl' = 2 * Ttl
    /\ leaked' = (leaked \cap Live) \ {o}

ScriptRefuses ==
    /\ ~HasRoom
    /\ SetMembers(Live, score)
    /\ keyTtl' = keyTtl          \* Live # {} here, as MaxConcurrent > 0
    /\ leaked' = leaked \cap Live

RedisUntouched == UNCHANGED <<members, score, keyTtl, leaked>>

Enter(c) == 
    /\ running' = running \cup {c}
    /\ age' = [age EXCEPT ![c] = 0]

\* The script ran and its 1 came back.
Granted(c) ==
    /\ c \notin running
    /\ ScriptAdds(OwnerOf[c])
    /\ Enter(c)
    /\ acquired' = acquired \cup {c}
    /\ granted' = granted \cup {c}

\* The script ran and its 0 came back: query_production_history raises
\* heavy_query_overloaded, every other caller goes on without a slot.
Refused(c) ==
    /\ c \notin running
    /\ ScriptRefuses
    /\ \/ c \in StrictCallers /\ UNCHANGED <<running, age>>
       \/ c \notin StrictCallers /\ Enter(c)
    /\ UNCHANGED <<acquired, granted>>

\* No client, or the call raised: fail-open returns True. The script may have
\* run before the reply was lost.
FailOpen(c) ==
    /\ c \notin running
    /\ Enter(c)
    /\ acquired' = acquired \cup {c}
    /\ \/ RedisUntouched /\ UNCHANGED granted
       \/ ScriptRefuses /\ UNCHANGED granted
       \/ ScriptAdds(OwnerOf[c]) /\ granted' = granted \cup {c}

\* Mutant: a caller's flag survives into its next call.
LeaveKeepsFlag(c) ==
    /\ running' = running \ {c}
    /\ granted' = granted \ {c}
    /\ age' = [age EXCEPT ![c] = 0]
    /\ UNCHANGED acquired

\* The caller is out of its fetch.
Leave(c) ==
    /\ running' = running \ {c}
    /\ acquired' = acquired \ {c}
    /\ granted' = granted \ {c}
    /\ age' = [age EXCEPT ![c] = 0]

\* ZREM key owner.
Zrem(o) ==
    /\ SetMembers(members \ {o}, score)
    /\ keyTtl' = IF members \subseteq {o} THEN 0 ELSE keyTtl
    /\ leaked' = leaked \ {o}

\* The slot of a caller that is gone stays behind.
Leak(c) ==
    /\ leaked' = IF OwnerOf[c] \in members THEN leaked \cup {OwnerOf[c]} ELSE leaked
    /\ UNCHANGED <<members, score, keyTtl>>

\* Mutant: only a query that was refused nothing releases on the way out, as
\* if the release sat after the query and not in a finally.
FinishNoRelease(c) ==
    /\ c \in running
    /\ Leave(c)
    /\ IF c \in acquired
       THEN Zrem(OwnerOf[c]) \/ RedisUntouched
       ELSE RedisUntouched

\* `finally: if acquired: release_heavy_query_slot(owner)`, after the query
\* returned or raised.
Finish(c) ==
    /\ c \in running
    /\ Leave(c)
    /\ IF c \in acquired THEN Zrem(OwnerOf[c]) ELSE RedisUntouched

\* The same, with Redis away: release_heavy_query_slot swallows the error.
FinishReleaseLost(c) ==
    /\ c \in acquired
    /\ Leave(c)
    /\ Leak(c)

\* The worker process is killed: no finally runs.
Crash(c) ==
    /\ c \in running
    /\ Leave(c)
    /\ IF c \in acquired THEN Leak(c) ELSE RedisUntouched

\* get_active_slot_count, called by the monitor page (its 600 s is the default
\* ttl, which no caller overrides).
CountActive ==
    /\ SetMembers(Live, score)
    /\ keyTtl' = IF Live = {} THEN 0 ELSE keyTtl
    /\ leaked' = leaked \cap Live
    /\ UNCHANGED <<running, acquired, granted, age>>

\* Time passes; Redis deletes the key when its EXPIRE runs out.
Tick ==
    /\ keyTtl' = IF keyTtl = 0 THEN 0 ELSE keyTtl - 1
    /\ IF keyTtl = 1
       THEN SetMembers({}, score) /\ leaked' = {}
       ELSE /\ SetMembers(members,
                   [o \in Owners |-> IF score[o] = -Ttl THEN -Ttl ELSE score[o] - 1])
            /\ UNCHANGED leaked
    /\ age' = [c \in Callers |->
                 IF c \in running /\ age[c] < 2 * Ttl THEN age[c] + 1 ELSE age[c]]
    /\ UNCHANGED <<running, acquired, granted>>

Next ==
    \/ \E c \in Callers :
          Granted(c) \/ Refused(c) \/ FailOpen(c)
          \/ Finish(c) \/ FinishReleaseLost(c) \/ Crash(c)
    \/ CountActive
    \/ Tick

\* Time passes; nobody needs to do anything else.
Spec == Init /\ [][Next]_vars /\ WF_vars(Tick)
-----------------------------------------------------------------------------
\* Runners that a granted, still valid slot entitles to run.
Counted == {c \in granted : age[c] < 2 * Ttl}

\* A query the script admitted is counted until its slot may be presumed dead:
\* no purge, key expiry or other caller's release takes its member away early
\* (the ttl arithmetic of _LUA_ACQUIRE and its EXPIRE).
RunnersAreCounted == DistinctOwners => \A c \in Counted : OwnerOf[c] \in Live

\* A slot that counts against the limit belongs to a query in flight, or to
\* one that died or lost Redis before its release: no path through the context
\* manager or the try/finally callers forgets the release.
EverySlotExplained ==
    DistinctOwners => \A o \in Live : o \in leaked \/ \E c \in acquired : OwnerOf[c] = o

\* The slot of a caller that died, or whose release was lost, does not count for ever,
\* though every acquisition of another renews the EXPIRE of the whole key.
LeaksEnd == \A o \in Owners : []<>(o \notin leaked \cap Live)

\* The sorted set, its two expiries, its purges and its failures come to a counting
\* semaphore for the queries it admitted: nobody is admitted while MaxConcurrent
\* others are counted. (Callers that share an owner_id are not told apart by it.)
Slots == INSTANCE Semaphore WITH holders <- Counted

ImplementsSemaphore == Slots!SemaphoreSpec
=============================================================================
