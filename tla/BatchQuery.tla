----------------------------- MODULE BatchQuery -----------------------------
(***************************************************************************)
(* services/batch_query_engine.py and its most careful user, the reject    *)
(* query of services/reject_dataset_cache.py, for one query id: a range of *)
(* days is cut into chunks, the chunks are queried and kept in Redis,      *)
(* merged to a spool file and cleared, and a flag beside the spool says    *)
(* when some are missing. One thread at a time does this, under a lock in  *)
(* Redis whose value is its owner; the others wait for the spool. A job of *)
(* workers/reject_history_worker.py writes the same file without the lock. *)
(***************************************************************************)
EXTENDS Integers, FiniteSets, Faults

CONSTANTS Procs,      \* threads that ask for the query, each in a process of its own
          None,       \* no owner
          Days,       \* how many days the range has
          Grain,      \* _REJECT_ENGINE_GRAIN_DAYS
          Parallel,   \* _REJECT_ENGINE_PARALLEL
          Cuts        \* bound: what a truncated chunk may be left with, as sets of days

ASSUME BatchAssumption ==
    /\ None \notin Procs
    /\ {Days, Grain, Parallel} \subseteq Nat \ {0}

AllDays == 1 .. Days

\* Mutant: the next chunk begins with the day the last one ended with.
CursorTwice(i) == IF i = 0 THEN 1 ELSE i * Grain

\* decompose_by_time_range: the i-th cursor is i grains after the first day.
Cursor(i) == i * Grain + 1

ChunkEnd(i) == IF Cursor(i) + Grain - 1 < Days THEN Cursor(i) + Grain - 1 ELSE Days

\* Mutant: the last chunk is as long as the others.
ChunkLong(i) == Cursor(i) .. Cursor(i) + Grain - 1

Chunk(i) == Cursor(i) .. ChunkEnd(i)

\* The cursors that are not beyond the last day.
Total == (Days + Grain - 1) \div Grain

Chunks == 0 .. Total - 1

VARIABLES pc,      \* where each thread is
          lock,    \* the owner in the key reject_dataset:<id>:inflight
          inside,  \* the threads with has_query_lock
          todo,    \* the chunks a run has not queried yet
          failed,  \* whether a chunk of the run failed
          at,      \* the chunk the merge looks for next
          got,     \* the days merged so far
          marked,  \* whether the thread's response says "partial"
          kept,    \* the days with rows in each chunk in Redis, none without the chunk
          meta,    \* the progress hash: absent, or has_partial_failure
          spool,   \* the days with rows in the registered spool file, none for no file
          flag,    \* the partial-failure flag beside it: "old" if it was set before
                   \* the registration, whose TTL then ends after the flag's
          l1,      \* the marker in each process's _dataset_cache
          copied,  \* the days in that file which the job is to register, none for no job
          late,    \* ghost: threads inside whose lock expired, or never was theirs
          mixed    \* ghost: two runs, or a run and the job, have worked at once since a run
                   \* last began alone

\* faults counts the records of runs that are lost: Redis is away, or evicts.
vars == <<pc, lock, inside, todo, failed, at, got, marked, kept, meta, spool, copied,
          flag, l1, faults, late, mixed>>

\* The chunks in Redis.
chunks == {c \in Chunks : kept[c] # {}}

\* From the first redis_clear_batch to the flag.
Working == {"clear", "start", "query", "total", "merge", "report", "wipe", "abort",
            "register", "flag"}

States == Working \cup {"idle", "lock", "wait", "relock", "relook", "release"}

TypeOK ==
    /\ pc \in [Procs -> States]
    /\ lock \in Procs \cup {None}
    /\ inside \subseteq Procs /\ late \subseteq inside
    /\ todo \in [Procs -> SUBSET Chunks]
    /\ failed \in [Procs -> BOOLEAN] /\ marked \in [Procs -> BOOLEAN]
    /\ at \in [Procs -> Chunks]
    /\ got \in [Procs -> SUBSET AllDays]
    /\ kept \in [Chunks -> SUBSET AllDays] /\ \A c \in Chunks : kept[c] \subseteq Chunk(c)
    /\ meta \in {"absent", "whole", "partial"}
    /\ spool \subseteq AllDays /\ copied \subseteq AllDays
    /\ flag \in {"none", "set", "old"} /\ mixed \in BOOLEAN
    /\ l1 \in [Procs -> BOOLEAN]
    /\ faults \in 0 .. MaxFaults

Init ==
    /\ pc = [p \in Procs |-> "idle"]
    /\ lock = None /\ inside = {} /\ late = {}
    /\ todo = [p \in Procs |-> {}]
    /\ failed = [p \in Procs |-> FALSE] /\ marked = [p \in Procs |-> FALSE]
    /\ at = [p \in Procs |-> 0]
    /\ got = [p \in Procs |-> {}]
    /\ kept = [c \in Chunks |-> {}] /\ meta = "absent"
    /\ spool = {} /\ copied = {} /\ flag = "none"
    /\ l1 = [p \in Procs |-> FALSE]
    /\ faults = 0 /\ mixed = FALSE
-----------------------------------------------------------------------------
Goto(p, from, to) == pc[p] = from /\ pc' = [pc EXCEPT ![p] = to]

locking == <<lock, inside, late>>
run == <<todo, failed, at, got>>
batch == <<kept, meta, mixed>>
store == <<spool, copied>>
stored == <<store, flag, l1>>

\* _has_cached_df.
Cached(p) == l1[p] \/ spool # {}

\* execute_primary_query is called, by a route, a job or the warmup, and misses. (With
\* a hit it answers at once, which changes no state.)
Miss(p) ==
    /\ ~Cached(p)
    /\ Goto(p, "idle", "lock")
    /\ UNCHANGED <<locking, run, marked, batch, stored, faults>>

\* _build_response_from_spool: the spool file has come while the thread waited for it
\* or for the lock. It reads the flag and the file, or raises RuntimeError without one.
Hit(p) ==
    /\ Cached(p)
    /\ Goto(p, "wait", "idle") \/ Goto(p, "relook", "release")
    /\ UNCHANGED <<locking, run, marked, batch, stored, faults>>

\* A run or the job is under way.
Overlap == copied # {} \/ \E q \in Procs : pc[q] \in Working

\* Mutant: who has waited for the lock does not look again.
MissAgainUnseen(p) ==
    /\ Goto(p, "relook", "clear")
    /\ mixed' = Overlap
    /\ UNCHANGED <<locking, run, marked, kept, meta, stored, faults>>

\* The run begins: alone, as a rule, and then nothing is left of an overlap before it.
MissAgain(p) ==
    /\ ~Cached(p)
    /\ Goto(p, "relook", "clear")
    /\ mixed' = Overlap
    /\ UNCHANGED <<locking, run, marked, kept, meta, stored, faults>>

Enter(p) == inside' = inside \cup {p}

\* _acquire_query_lock: SET NX EX, and open when Redis is away, which may have
\* set the key.
TakeLock(p) ==
    /\ Goto(p, "lock", "relook") \/ Goto(p, "relock", "relook")
    /\ Enter(p)
    /\ \/ lock = None /\ lock' = p /\ UNCHANGED late
       \/ late' = late \cup {p} /\ UNCHANGED lock
    /\ UNCHANGED <<run, marked, batch, stored, faults>>

\* The second time it is held, RejectPrimaryQueryOverloadError.
NoLock(p) ==
    /\ lock # None
    /\ Goto(p, "lock", "wait") \/ Goto(p, "relock", "idle")
    /\ UNCHANGED <<locking, run, marked, batch, stored, faults>>

\* _wait_for_inflight_query_result: the owner is gone, or the wait has been too long.
StopWaiting(p) ==
    /\ ~Cached(p)
    /\ \/ lock = None /\ Goto(p, "wait", "relock")
       \/ Goto(p, "wait", "idle")
    /\ UNCHANGED <<locking, run, marked, batch, stored, faults>>

\* Mutant: DEL, whoever owns the lock.
Delete(p) == lock' = None

\* _RELEASE_LOCK_SCRIPT.
DeleteOwn(p) == lock' = IF lock = p THEN None ELSE lock

\* The finally. The script may not get through.
Release(p) ==
    /\ Goto(p, "release", "idle")
    /\ DeleteOwn(p) \/ UNCHANGED lock
    /\ inside' = inside \ {p} /\ late' = late \ {p}
    /\ marked' = [marked EXCEPT ![p] = FALSE]
    /\ UNCHANGED <<run, batch, stored, faults>>
-----------------------------------------------------------------------------
\* redis_clear_batch, when Redis is there.
Clears == kept' = [c \in Chunks |-> {}] /\ meta' = "absent"

\* _update_progress, whose failure is logged.
Progress(v) ==
    \/ meta' = v /\ UNCHANGED faults
    \/ UNCHANGED meta /\ Fault

Clear(p) ==
    /\ Goto(p, "clear", "start")
    /\ \/ Clears /\ UNCHANGED faults
       \/ UNCHANGED <<kept, meta>> /\ Fault
    /\ UNCHANGED <<locking, run, marked, mixed, stored>>

\* execute_plan starts.
Start(p) ==
    /\ Goto(p, "start", "query")
    /\ todo' = [todo EXCEPT ![p] = Chunks]
    /\ Progress("whole")
    /\ UNCHANGED <<locking, failed, at, got, marked, kept, mixed, stored>>

Found(bad) == IF bad THEN "partial" ELSE "whole"

\* A chunk in Redis with the rows of these days, or as it was if there are none.
Keep(c, days) == kept' = IF days = {} THEN kept ELSE [kept EXCEPT ![c] = days]

\* What the query of a chunk can come to: all its rows, none as it failed, or what is
\* left at the row limit of _run_reject_chunk.
Outcomes(c) == {Chunk(c), {}} \cup {days \in Cuts : days \subseteq Chunk(c)}

\* _execute_single_chunk, in the pool's order, and what execute_plan notes of it: a
\* failed chunk (the second time, if the first was transient) may be there all the same,
\* when the reply of Redis is lost; a truncated one is logged and counts as a success.
Query(p, c, days) ==
    /\ pc[p] = "query" /\ c \in todo[p]
    /\ Cardinality({d \in todo[p] : d < c}) < Parallel
    /\ todo' = [todo EXCEPT ![p] = @ \ {c}]
    /\ Keep(c, days) \/ (days = {} /\ Keep(c, Chunk(c)))
    /\ failed' = [failed EXCEPT ![p] = @ \/ days = {}]
    /\ Progress(Found(failed'[p]))
    /\ UNCHANGED <<pc, locking, at, got, marked, mixed, stored>>

\* The final status. Its failures are those of the chunks.
Finish(p) ==
    /\ todo[p] = {}
    /\ Goto(p, "query", "total")
    /\ failed' = [failed EXCEPT ![p] = FALSE]
    /\ Progress(Found(failed[p]))
    /\ UNCHANGED <<locking, todo, at, got, marked, kept, mixed, stored>>

\* The merge goes on with chunk i, or is over.
MergeAt(p, from, i) ==
    /\ Goto(p, from, IF i = Total THEN "report" ELSE "merge")
    /\ at' = [at EXCEPT ![p] = IF i = Total THEN 0 ELSE i]

\* merge_chunks_to_spool: iterate_chunks learns from the hash how many there are,
\* and takes a hash it cannot read for an empty one.
ReadTotal(p) ==
    /\ \/ MergeAt(p, "total", IF meta = "absent" THEN Total ELSE 0) /\ UNCHANGED faults
       \/ MergeAt(p, "total", Total) /\ Fault
    /\ UNCHANGED <<locking, todo, failed, got, marked, batch, stored>>

\* A chunk that is missing, or cannot be loaded, is skipped.
Merge(p) ==
    /\ MergeAt(p, "merge", at[p] + 1)
    /\ \/ got' = [got EXCEPT ![p] = @ \cup kept[at[p]]] /\ UNCHANGED faults
       \/ UNCHANGED got /\ Fault
    /\ UNCHANGED <<locking, todo, failed, marked, batch, stored>>

\* ChunkSchemaMismatch, or the disk is full: nothing is kept.
MergeFails(p) ==
    /\ Goto(p, "merge", "abort")
    /\ at' = [at EXCEPT ![p] = 0]
    /\ got' = [got EXCEPT ![p] = {}]
    /\ UNCHANGED <<locking, todo, failed, marked, batch, stored, faults>>
-----------------------------------------------------------------------------
\* Mutant: the batch is cleared first.
ReportCleared(p) ==
    /\ Goto(p, "report", "wipe")
    /\ Clears
    /\ marked' = [marked EXCEPT ![p] = meta' = "partial"]
    /\ UNCHANGED <<locking, run, mixed, stored, faults>>

\* "read progress BEFORE redis_clear_batch"
Report(p) ==
    /\ Goto(p, "report", "wipe")
    /\ \/ marked' = [marked EXCEPT ![p] = meta = "partial"] /\ UNCHANGED faults
       \/ UNCHANGED marked /\ Fault
    /\ UNCHANGED <<locking, run, batch, stored>>

Wipe(p) ==
    /\ Goto(p, "wipe", IF got[p] = {} THEN "flag" ELSE "register") \/ Goto(p, "abort", "release")
    /\ \/ Clears /\ UNCHANGED faults
       \/ UNCHANGED <<kept, meta>> /\ Fault
    /\ UNCHANGED <<locking, run, marked, mixed, stored>>

\* The canonical file is replaced, for readers if it is registered and for the job.
\* (A file without metadata, or metadata without a file, is as good as none: SpoolStore
\* is about these.)
Replace(days) ==
    /\ spool' = IF spool = {} THEN {} ELSE days
    /\ copied' = IF copied = {} THEN {} ELSE days

\* Its metadata is written, with a TTL of its own.
Renew == flag' = IF flag = "set" THEN "old" ELSE flag

\* register_spool_file, which replaces the file and writes the metadata; or
\* _store_query_result with the rows of the temporary file, if that has not been moved,
\* which sets the marker even if it stores nothing.
Register(p) ==
    /\ Goto(p, "register", "flag")
    /\ \/ /\ spool' = got[p] /\ copied' = (IF copied = {} THEN {} ELSE got[p]) /\ Renew
          /\ l1' = [l1 EXCEPT ![p] = TRUE] /\ UNCHANGED faults
       \/ /\ Replace(got[p]) \/ UNCHANGED store
          /\ l1' \in {l1, [l1 EXCEPT ![p] = TRUE]} /\ Fault /\ UNCHANGED flag
    /\ got' = [got EXCEPT ![p] = {}]
    /\ UNCHANGED <<locking, todo, failed, at, marked, batch>>

\* _store_partial_failure_flag, _clear_partial_failure_flag. Then the response, if
\* the caller wants one.
Flag(p) ==
    /\ Goto(p, "flag", "release")
    /\ \/ flag' = (IF marked[p] THEN "set" ELSE "none") /\ UNCHANGED faults
       \/ UNCHANGED flag /\ Fault
    /\ UNCHANGED <<locking, run, marked, batch, store, l1>>
-----------------------------------------------------------------------------
\* The key expires, the run of its owner under way or not.
LockExpires ==
    /\ lock # None /\ lock' = None
    /\ late' = late \cup ({lock} \cap inside)
    /\ UNCHANGED <<pc, inside, run, marked, batch, stored, faults>>

\* The keys of the batch expire or are evicted.
ChunkGone(c) ==
    /\ Fault
    /\ c \in chunks /\ kept' = [kept EXCEPT ![c] = {}]
    /\ UNCHANGED <<pc, locking, run, marked, meta, mixed, stored>>

\* The metadata of the spool expires, or the file is cleaned up or cleared.
SpoolGone ==
    /\ spool # {} /\ spool' = {} /\ copied' \in {copied, {}}
    /\ UNCHANGED <<pc, locking, run, marked, batch, flag, l1, faults>>

\* The flag's TTL begins after the spool's, unless that was registered again.
FlagGone ==
    /\ flag = "old" \/ (flag = "set" /\ spool = {})
    /\ flag' = "none"
    /\ UNCHANGED <<pc, locking, run, marked, batch, store, l1, faults>>

\* RejectHistoryJob.post_aggregate, which all chunks precede: a failed one fails the
\* job. It neither takes the lock nor looks for a spool, and copies its rows over the
\* canonical file,
JobWrites ==
    /\ copied = {} /\ copied' = AllDays
    /\ spool' = IF spool = {} THEN {} ELSE AllDays
    /\ mixed' = (mixed \/ \E p \in Procs : pc[p] \in Working)
    /\ UNCHANGED <<pc, locking, run, marked, kept, meta, flag, l1, faults>>

\* then registers whatever is there by now, unless Redis is away, the file is gone or
\* the job is killed. The flag is left as it is.
JobRegisters ==
    /\ copied # {} /\ copied' = {}
    /\ (spool' = copied /\ Renew) \/ UNCHANGED <<spool, flag>>
    /\ UNCHANGED <<pc, locking, run, marked, batch, l1, faults>>

Evict(p) ==
    /\ l1[p] /\ l1' = [l1 EXCEPT ![p] = FALSE]
    /\ UNCHANGED <<pc, locking, run, marked, batch, store, flag, faults>>

\* A process is killed: between the spool and its flag, the flag is lost.
Die(p) ==
    /\ pc[p] # "idle" /\ pc' = [pc EXCEPT ![p] = "idle"]
    /\ IF pc[p] = "flag" THEN Fault ELSE UNCHANGED faults
    /\ inside' = inside \ {p} /\ late' = late \ {p}
    /\ l1' = [l1 EXCEPT ![p] = FALSE]
    /\ todo' = [todo EXCEPT ![p] = {}] /\ got' = [got EXCEPT ![p] = {}]
    /\ failed' = [failed EXCEPT ![p] = FALSE] /\ marked' = [marked EXCEPT ![p] = FALSE]
    /\ at' = [at EXCEPT ![p] = 0]
    /\ UNCHANGED <<lock, batch, store, flag>>

Step(p) ==
    \/ Miss(p) \/ Hit(p) \/ MissAgain(p) \/ TakeLock(p) \/ NoLock(p) \/ StopWaiting(p)
    \/ Clear(p) \/ Start(p) \/ Finish(p)
    \/ (\E c \in Chunks : \E days \in Outcomes(c) : Query(p, c, days))
    \/ ReadTotal(p) \/ Merge(p) \/ MergeFails(p) \/ Report(p) \/ Wipe(p)
    \/ Register(p) \/ Flag(p) \/ Release(p)

Next ==
    \/ \E p \in Procs : Step(p) \/ Evict(p) \/ Die(p)
    \/ \E c \in Chunks : ChunkGone(c)
    \/ LockExpires \/ SpoolGone \/ FlagGone \/ JobWrites \/ JobRegisters

Spec == Init /\ [][Next]_vars
-----------------------------------------------------------------------------
\* Of the threads that believe to have the lock, those whose lock has not expired
\* exclude each other, whatever late ones release: the release compares the owner.
InTimeExclude == Cardinality(inside \ late) <= 1

\* Every chunk has rows among these days.
Whole(days) == \A c \in Chunks : Chunk(c) \cap days # {}

\* A spool file without the rows of some chunk has its flag, but for the moment before
\* it is written: whichever chunks failed or were truncated, whoever died in the
\* middle of a run and left its chunks behind, however the lock changed hands, and
\* though the job renews the registration and not the flag: unless two runs, or a run
\* and the job, overlapped or a record was lost. (A truncated chunk lacks rows, and
\* whole days, with no flag.)
MissingIsFlagged ==
    ~mixed /\ faults = 0 /\ spool # {} /\ ~Whole(spool) =>
        flag # "none" \/ \E p \in Procs : pc[p] = "flag"

\* Nobody who waited for the spool, found the lock free or took it without Redis
\* replaces it by a poorer one: until two runs, or a run and the job, overlap, a spool
\* loses no day while it is there, whatever chunks fail, are truncated or are lost.
SpoolStays == [][~mixed' => spool' = {} \/ spool \subseteq spool']_vars

\* The merge never writes the rows of a day twice.
NoDayTwice ==
    [][\A p \in Procs : Merge(p) => kept[at[p]] \cap got[p] = {}]_vars
=============================================================================
