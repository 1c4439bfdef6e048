---------------------------- MODULE DatasetCache ----------------------------
(***************************************************************************)
(* services/yield_alert_dataset_cache.py for one query id: the cache of    *)
(* each process, the linkage key in Redis, the registered spool file, and  *)
(* execute_primary_query, which lets one thread at a time run the Oracle   *)
(* query under a Redis lock (RedisLock, whose steps are part of the steps  *)
(* here) while the others poll the cache.                                  *)
(***************************************************************************)
EXTENDS RedisLock, Faults

CONSTANTS Workers,     \* the processes
          Home,        \* the process of each thread
          MaxPolls,    \* rounds of the wait loop
          MaxDb        \* bound: versions of the source rows

ASSUME DatasetAssumption ==
    /\ Home \in [Procs -> Workers]
    /\ MaxPolls \in Nat \ {0}
    /\ MaxDb \in Nat

VARIABLES pc,       \* where each thread is
          caller,   \* on whose behalf it looks the dataset up
          snap,     \* the version of the rows it has read
          polls,    \* how often it has polled
          db,       \* the version of the rows in Oracle, 0 when there are none
          spool,    \* the version in the registered spool file, 0 for no file
          link,     \* whether the linkage key is there
          l1,       \* the entry of each process cache: none, or by the flags of the
                    \* payload "empty" (empty_result) or "ready" (spool_ready)
          best      \* ghost: the newest version ever registered

dvars == <<pc, caller, snap, polls, db, spool, link, l1, faults, best>>

\* Between try_acquire_lock and release_lock.
Locked == {"begin", "empty", "register", "payload", "release"}

DatasetTypeOK ==
    /\ pc \in [Procs -> Locked \cup {"idle", "look", "redis", "linked", "unlinked",
                                     "lock", "sleep", "extract", "compute"}]
    /\ caller \in [Procs -> {"query", "wait", "other"}]
    /\ snap \in [Procs -> 0 .. MaxDb]
    /\ polls \in [Procs -> 0 .. MaxPolls - 1]
    /\ {db, spool, best} \subseteq 0 .. MaxDb
    /\ link \in BOOLEAN
    /\ l1 \in [Workers -> {"none", "empty", "ready"}]
    /\ faults \in 0 .. MaxFaults

DatasetInit ==
    /\ Init
    /\ pc = [p \in Procs |-> "idle"]
    /\ caller = [p \in Procs |-> "query"]
    /\ snap = [p \in Procs |-> 0]
    /\ polls = [p \in Procs |-> 0]
    /\ db \in 0 .. MaxDb
    /\ spool = 0 /\ link = FALSE
    /\ l1 = [w \in Workers |-> "none"]
    /\ faults = 0 /\ best = 0
-----------------------------------------------------------------------------
Goto(p, from, to) == pc[p] = from /\ pc' = [pc EXCEPT ![p] = to]

Remember(p, k) == l1' = [l1 EXCEPT ![Home[p]] = k]

\* What a thread of its own keeps between its steps.
local == <<caller, snap, polls>>

Forget(p) == snap' = [snap EXCEPT ![p] = 0]

\* What all threads share, but for the lock.
shared == <<db, spool, link, l1, best>>

\* A read of Redis finds what is there, or fails and is taken for a miss.
Reads(found, there) ==
    \/ found = there /\ UNCHANGED faults
    \/ there /\ ~found /\ Fault

\* A request comes: execute_primary_query, or another that needs the payload.
Request(p, c) ==
    /\ Goto(p, "idle", "look")
    /\ caller' = [caller EXCEPT ![p] = c]
    /\ UNCHANGED <<vars, snap, polls, shared, faults>>

\* _get_cached_payload returned a payload of kind k. Only execute_linkage_query
\* goes on with it, unless it is empty; the others (apply_view) change nothing more.
AfterHit(p, k) ==
    {"idle"} \cup IF caller[p] = "other" /\ k = "ready" THEN {"extract"} ELSE {}

\* Mutant: one round more.
LastPollLate(p) == polls[p] = MaxPolls

\* It returned None. The wait loop goes round MaxPolls times.
LastPoll(p) == polls[p] + 1 = MaxPolls

AfterMiss(p) ==
    CASE caller[p] = "query" -> "lock"
      [] caller[p] = "wait" /\ ~LastPoll(p) -> "sleep"
      [] OTHER -> "idle"

\* The process cache has a usable payload.
HitL1(p) ==
    LET k == l1[Home[p]] IN
    /\ \/ k = "empty" /\ UNCHANGED faults
       \/ k = "ready" /\ Reads(TRUE, spool # 0)
    /\ \E to \in AfterHit(p, k) : Goto(p, "look", to)
    /\ polls' = [polls EXCEPT ![p] = 0]
    /\ caller' = [caller EXCEPT ![p] = "query"]
    /\ UNCHANGED <<vars, snap, shared>>

\* redis_load_df.
ReadLinkage(p, from) ==
    /\ \/ Goto(p, from, "linked") /\ Reads(TRUE, link)
       \/ Goto(p, from, "unlinked") /\ Reads(FALSE, link)
    /\ UNCHANGED <<vars, local, shared>>

\* The process cache has no entry.
MissL1(p) == l1[Home[p]] = "none" /\ ReadLinkage(p, "look")

\* It has one, whose spool file is missing.
StaleL1(p) ==
    /\ l1[Home[p]] = "ready" /\ Reads(FALSE, spool # 0)
    /\ Goto(p, "look", "redis")
    /\ UNCHANGED <<vars, local, shared>>

Promoted(seen) == IF seen THEN "ready" ELSE "empty"

\* Mutant: the promotion goes through _store_payload, which writes the linkage.
PromoteStores(p) ==
    \E seen \in BOOLEAN :
        /\ Reads(seen, spool # 0)
        /\ seen \/ pc[p] = "linked"
        /\ pc[p] \in {"linked", "unlinked"}
        /\ \E to \in AfterHit(p, Promoted(seen)) : pc' = [pc EXCEPT ![p] = to]
        /\ Remember(p, Promoted(seen))
        /\ link' = (link \/ pc[p] = "linked")
        /\ polls' = [polls EXCEPT ![p] = 0]
        /\ caller' = [caller EXCEPT ![p] = "query"]
        /\ UNCHANGED <<vars, snap, db, spool, best>>

\* Either of the two is enough: the payload is promoted to the process cache,
\* as an empty result when only the linkage is there.
Promote(p) ==
    \E seen \in BOOLEAN :
        /\ Reads(seen, spool # 0)
        /\ seen \/ pc[p] = "linked"
        /\ pc[p] \in {"linked", "unlinked"}
        /\ \E to \in AfterHit(p, Promoted(seen)) : pc' = [pc EXCEPT ![p] = to]
        /\ Remember(p, Promoted(seen))
        /\ polls' = [polls EXCEPT ![p] = 0]
        /\ caller' = [caller EXCEPT ![p] = "query"]
        /\ UNCHANGED <<vars, snap, db, spool, link, best>>

MissAll(p) ==
    /\ Reads(FALSE, spool # 0)
    /\ Goto(p, "unlinked", AfterMiss(p))
    /\ polls' = [polls EXCEPT ![p] =
                    IF AfterMiss(p) = "sleep" THEN polls[p] + 1 ELSE 0]
    /\ caller' = [caller EXCEPT ![p] = "query"]
    /\ UNCHANGED <<vars, snap, shared>>
-----------------------------------------------------------------------------
TakeLock(p) ==
    /\ Goto(p, "lock", "begin")
    /\ Acquire(p)
    /\ UNCHANGED <<local, shared, faults>>

\* try_acquire_lock is False: the lock is held, or Redis fails (and may have set it).
NoLock(p) ==
    /\ Goto(p, "lock", "sleep")
    /\ \/ key # None /\ UNCHANGED <<vars, faults>>
       \/ UNCHANGED vars /\ Fault
       \/ AcquireFails(p) /\ Fault
    /\ UNCHANGED <<local, shared>>

\* time.sleep(2) and look again. Nothing tries the lock again.
Poll(p) ==
    /\ Goto(p, "sleep", "look")
    /\ caller' = [caller EXCEPT ![p] = "wait"]
    /\ UNCHANGED <<vars, snap, polls, shared, faults>>

\* The statement starts and reads the rows as they are now. Streaming them to
\* the temporary file ends at the next step, which is of the one kind or the
\* other by whether there were rows.
Stream(p) ==
    /\ Goto(p, "begin", IF db = 0 THEN "empty" ELSE "register")
    /\ snap' = [snap EXCEPT ![p] = db]
    /\ UNCHANGED <<vars, caller, polls, shared, faults>>

StoreEmpty(p) ==
    /\ Goto(p, "empty", "release")
    /\ Remember(p, "empty")
    /\ UNCHANGED <<vars, local, db, spool, link, best, faults>>

Newest(v) == IF v > best THEN v ELSE best

\* Mutant: the lock is released before the spool file is registered.
RegisterUnlocked(p) ==
    /\ pc[p] = "register"
    /\ \/ Release(p) /\ UNCHANGED <<pc, spool, best>>
       \/ /\ p \notin inside
          /\ pc' = [pc EXCEPT ![p] = "idle"]
          /\ spool' = snap[p] /\ best' = Newest(snap[p])
          /\ UNCHANGED vars
    /\ UNCHANGED <<local, db, link, l1, faults>>

\* register_spool_file (SpoolStore) without cas_field.
Register(p) ==
    /\ Goto(p, "register", "payload")
    /\ spool' = snap[p]
    /\ best' = Newest(snap[p])
    /\ Forget(p)
    /\ UNCHANGED <<vars, caller, polls, db, link, l1, faults>>

\* The linkage of a new payload is empty, so it does not go to Redis.
StorePayload(p) ==
    /\ Goto(p, "payload", "release")
    /\ Remember(p, "ready")
    /\ UNCHANGED <<vars, local, db, spool, link, best, faults>>

\* The stream or the registration fails: SpoolWriteError through the finally.
QueryFails(p) ==
    /\ Goto(p, "empty", "release") \/ Goto(p, "register", "release")
    /\ Forget(p)
    /\ Fault
    /\ UNCHANGED <<vars, caller, polls, shared>>

\* The finally.
Unlock(p) ==
    /\ Goto(p, "release", "idle")
    /\ \/ Release(p) /\ UNCHANGED faults
       \/ LeaveHeld({p}) /\ Fault
    /\ UNCHANGED <<local, shared>>
-----------------------------------------------------------------------------
\* execute_linkage_query with a payload that is not empty: the work orders are
\* read from the spool file, if it is still there.
Extract(p) ==
    /\ \/ Goto(p, "extract", "compute") /\ Reads(TRUE, spool # 0)
       \/ Goto(p, "extract", "idle") /\ Reads(FALSE, spool # 0)
    /\ UNCHANGED <<vars, local, shared>>

\* Reject rows are queried and _store_payload keeps the result: in Redis too,
\* unless it is empty or the SETEX fails.
StoreLinkage(p) ==
    /\ Goto(p, "compute", "idle")
    /\ Remember(p, "ready")
    /\ link' \in {TRUE, link}
    /\ UNCHANGED <<vars, local, db, spool, best, faults>>

LinkageFails(p) ==
    /\ Goto(p, "compute", "idle")
    /\ UNCHANGED <<vars, local, shared, faults>>
-----------------------------------------------------------------------------
\* Rows are added or corrected in Oracle.
RowsChange ==
    /\ db < MaxDb /\ db' = db + 1
    /\ UNCHANGED <<vars, pc, local, spool, link, l1, faults, best>>

\* The spool file expires, is cleaned up or cleared.
SpoolGone ==
    /\ spool # 0 /\ spool' = 0
    /\ UNCHANGED <<vars, pc, local, db, link, l1, faults, best>>

\* The linkage key expires.
LinkGone ==
    /\ link /\ link' = FALSE
    /\ UNCHANGED <<vars, pc, local, db, spool, l1, faults, best>>

\* An entry of a process cache expires, gives way to another query id, or is
\* cleared by the memory guard.
Evict(w) ==
    /\ l1[w] # "none"
    /\ l1' = [l1 EXCEPT ![w] = "none"]
    /\ UNCHANGED <<vars, pc, local, db, spool, link, faults, best>>

Threads(w) == {p \in Procs : Home[p] = w}

\* A worker process is killed, and comes back with an empty cache.
Die(w) ==
    /\ Fault
    /\ pc' = [p \in Procs |-> IF p \in Threads(w) THEN "idle" ELSE pc[p]]
    /\ snap' = [p \in Procs |-> IF p \in Threads(w) THEN 0 ELSE snap[p]]
    /\ polls' = [p \in Procs |-> IF p \in Threads(w) THEN 0 ELSE polls[p]]
    /\ caller' = [p \in Procs |-> IF p \in Threads(w) THEN "query" ELSE caller[p]]
    /\ l1' = [l1 EXCEPT ![w] = "none"]
    /\ \/ Threads(w) \cap inside = {} /\ UNCHANGED vars
       \/ LeaveHeld(Threads(w) \cap inside)
    /\ UNCHANGED <<db, spool, link, best>>

Pass == Tick /\ UNCHANGED dvars

Step(p) ==
    \/ HitL1(p) \/ MissL1(p) \/ StaleL1(p) \/ ReadLinkage(p, "redis") \/ Promote(p) \/ MissAll(p)
    \/ TakeLock(p) \/ NoLock(p) \/ Poll(p)
    \/ Stream(p) \/ StoreEmpty(p) \/ Register(p)
    \/ StorePayload(p) \/ QueryFails(p) \/ Unlock(p)
    \/ Extract(p) \/ StoreLinkage(p) \/ LinkageFails(p)

DatasetNext ==
    \/ \E p \in Procs : Step(p) \/ \E c \in {"query", "other"} : Request(p, c)
    \/ \E w \in Workers : Evict(w) \/ Die(w)
    \/ RowsChange \/ SpoolGone \/ LinkGone \/ Pass

DatasetSpec == DatasetInit /\ [][DatasetNext]_<<vars, dvars>>

\* Threads run, somebody asks for the dataset again and again, time passes, and
\* what has a TTL that reading does not prolong expires.
FairDatasetSpec ==
    /\ DatasetSpec
    /\ \A p \in Procs : WF_<<vars, dvars>>(Step(p))
    /\ SF_<<vars, dvars>>(\E p \in Procs : Request(p, "query"))
    /\ \A w \in Workers : WF_<<vars, dvars>>(Evict(w))
    /\ WF_<<vars, dvars>>(LinkGone) /\ WF_<<vars, dvars>>(Pass)
-----------------------------------------------------------------------------
\* register_spool_file compares nothing here, so only the lock keeps an older
\* query from replacing the file of a newer one: none does until a query has
\* outlived the lock's ttl.
SpoolMovesForward ==
    [][spool' \notin {0, spool} => overrun \/ spool' >= best]_<<vars, dvars>>

\* A dataset with rows whose spool file went away is queried again, although a
\* linkage key that outlived the file makes the lookups take it for empty, and
\* the query that was to bring it back may fail or die with the lock.
DatasetReturns == (spool = 0 /\ db > 0) ~> spool # 0
=============================================================================
