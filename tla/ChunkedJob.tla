----------------------------- MODULE ChunkedJob -----------------------------
(***************************************************************************)
(* core/base_chunked_duckdb_job.py: run() of one RQ job, over its retries. *)
(* A run fetches the chunks of a query from Oracle with a pool of threads, *)
(* collects the batches in a temporary place that is named after the job   *)
(* id, writes the result parquet from what it finds there, and deletes the *)
(* temporary place in a finally.                                           *)
(*                                                                         *)
(* Two kinds of temporary place: the reduction jobs INSERT every batch into *)
(* a table of {job_id}.duckdb, the append jobs write a batch to a parquet  *)
(* file {job_id}/chunk-<chunk>-<batch>.parquet.                            *)
(***************************************************************************)
EXTENDS Integers, FiniteSets

CONSTANTS Chunks,       \* what pre_query cuts the query into
          Batches,      \* RecordBatches per chunk, the same in every attempt
          MaxParallel,  \* CHUNKED_JOB_MAX_PARALLEL is at most this
          MaxRetries    \* Retry(max=...) of the RQ job

ASSUME ChunkAssumption ==
    /\ IsFiniteSet(Chunks)
    /\ Batches \in Nat
    /\ MaxParallel \in Nat \ {0}
    /\ MaxRetries \in Nat

VARIABLES
    reduction, \* the job's requires_cross_chunk_reduction
    parallel,  \* its max_parallel
    run,       \* where run() is
    retries,   \* retries RQ has left
    raised,    \* TRUE: an exception is on its way out of run()
    opened,    \* TRUE: job_duckdb_path is set, or the job appends
    thread,    \* per chunk: what became of its task in this attempt
    fetched,   \* per chunk: batches fetched in this attempt
    copies,    \* per batch: how often it is in the temporary place
    spool,     \* per batch: how often it is in the parquet written last
    written,   \* TRUE: a parquet was written
    survivor,  \* ghost: a kill or a failed deletion left something behind
    reused     \* ghost: a reduction began with what another attempt left

attempt == <<raised, opened, thread, fetched>>
output == <<spool, written>>
class == <<reduction, parallel>>
ghosts == <<survivor, reused>>
vars == <<class, run, retries, attempt, copies, output, ghosts>>

AllBatches == Chunks \X (1 .. Batches)
Nothing == [b \in AllBatches |-> 0]

TypeOK ==
    /\ reduction \in BOOLEAN
    /\ parallel \in 1 .. MaxParallel
    /\ run \in {"queued", "pre_query", "fan_out", "aggregate", "finally", "over"}
    /\ retries \in 0 .. MaxRetries
    /\ raised \in BOOLEAN
    /\ opened \in BOOLEAN
    /\ thread \in [Chunks -> {"waiting", "fetching", "done", "failed"}]
    /\ fetched \in [Chunks -> 0 .. Batches]
    /\ copies \in [AllBatches -> Nat]
    /\ spool \in [AllBatches -> Nat]
    /\ written \in BOOLEAN
    /\ survivor \in BOOLEAN
    /\ reused \in BOOLEAN

Init ==
    /\ reduction \in BOOLEAN
    /\ parallel \in 1 .. MaxParallel
    /\ run = "queued"
    /\ retries = MaxRetries
    /\ raised = FALSE /\ opened = FALSE
    /\ thread = [c \in Chunks |-> "waiting"]
    /\ fetched = [c \in Chunks |-> 0]
    /\ copies = Nothing
    /\ spool = Nothing /\ written = FALSE
    /\ survivor = FALSE /\ reused = FALSE
-----------------------------------------------------------------------------
In(st) == {c \in Chunks : thread[c] = st}

\* `effective <= 1 or len(chunks) <= 1`: a plain loop, without a pool.
Sequential == parallel = 1 \/ Cardinality(Chunks) <= 1

\* RQ hands the job to a work horse, which begins anew with the same job id.
Dequeue ==
    /\ run = "queued"
    /\ run' = "pre_query"
    /\ raised' = FALSE /\ opened' = ~reduction
    /\ reused' = (reused \/ (reduction /\ copies # Nothing))
    /\ thread' = [c \in Chunks |-> "waiting"]
    /\ fetched' = [c \in Chunks |-> 0]
    /\ UNCHANGED <<retries, copies, output, survivor, class>>

\* pre_query, heavy_query_slot (which lets the job pass whatever it answers)
\* and _make_job_duckdb_path.
PreQuery ==
    /\ run = "pre_query"
    /\ \/ run' = "fan_out" /\ opened' = TRUE /\ UNCHANGED raised
       \/ run' = "finally" /\ raised' = TRUE /\ UNCHANGED opened
    /\ UNCHANGED <<retries, thread, fetched, copies, output, ghosts, class>>
-----------------------------------------------------------------------------
(***************************************************************************)
(* The fan-out.                                                            *)
(***************************************************************************)
\* A failed task of the pool does not stop the others, nor keep the waiting
\* ones from being started; the loop ends with its first failure.
MayStart(c) ==
    /\ thread[c] = "waiting"
    /\ Cardinality(In("fetching")) < parallel
    /\ Sequential => In("failed") = {}

StartChunk(c) ==
    /\ run = "fan_out"
    /\ MayStart(c)
    /\ thread' = [thread EXCEPT ![c] = "fetching"]
    /\ UNCHANGED <<run, retries, raised, opened, fetched, copies, output, ghosts, class>>

\* Mutant: the append job numbers its files over all attempts.
KeepAppends(b) == copies' = [copies EXCEPT ![b] = @ + 1]

\* INSERT INTO raw, or a file of that chunk and batch.
Keep(b) == copies' = [copies EXCEPT ![b] = IF reduction THEN @ + 1 ELSE 1]

Fetch(c) ==
    /\ thread[c] = "fetching" /\ fetched[c] < Batches
    /\ fetched' = [fetched EXCEPT ![c] = @ + 1]
    /\ Keep(<<c, fetched[c] + 1>>)
    /\ UNCHANGED <<run, retries, raised, opened, thread, output, ghosts, class>>

ChunkDone(c) ==
    /\ thread[c] = "fetching" /\ fetched[c] = Batches
    /\ thread' = [thread EXCEPT ![c] = "done"]
    /\ UNCHANGED <<run, retries, raised, opened, fetched, copies, output, ghosts, class>>

\* Oracle, DuckDB or the disk raises, after any number of batches.
ChunkFails(c) ==
    /\ thread[c] = "fetching"
    /\ thread' = [thread EXCEPT ![c] = "failed"]
    /\ UNCHANGED <<run, retries, raised, opened, fetched, copies, output, ghosts, class>>

FanOutDone ==
    /\ run = "fan_out"
    /\ \A c \in Chunks : thread[c] = "done"
    /\ run' = "aggregate"
    /\ UNCHANGED <<retries, attempt, copies, output, ghosts, class>>

\* Mutant: the pool is left without waiting for its threads.
FanOutRaisesAtOnce ==
    /\ run = "fan_out"
    /\ In("failed") # {}
    /\ run' = "finally"
    /\ raised' = TRUE
    /\ UNCHANGED <<retries, opened, thread, fetched, copies, output, ghosts, class>>

\* Mutant: the exception of a future is looked at by nobody.
FanOutSwallows ==
    /\ run = "fan_out"
    /\ In("failed") # {} /\ In("fetching") = {}
    /\ run' = "aggregate"
    /\ UNCHANGED <<retries, attempt, copies, output, ghosts, class>>

\* Mutant: the plain loop, too, waits for the chunks that it will not start.
MayRaiseLate == In("failed") # {} /\ In("fetching") = {} /\ In("waiting") = {}

\* The pool's __exit__ waits for all its tasks, the loop has only one.
MayRaise ==
    /\ In("failed") # {} /\ In("fetching") = {}
    /\ Sequential \/ In("waiting") = {}

\* `raise exc`.
FanOutRaises ==
    /\ run = "fan_out"
    /\ MayRaise
    /\ run' = "finally"
    /\ raised' = TRUE
    /\ UNCHANGED <<retries, opened, thread, fetched, copies, output, ghosts, class>>
-----------------------------------------------------------------------------
\* post_aggregate: COPY of all it finds in the temporary place.
Aggregate ==
    /\ run = "aggregate"
    /\ spool' = copies /\ written' = TRUE
    /\ run' = "finally"
    /\ UNCHANGED <<retries, attempt, copies, ghosts, class>>

\* It raises before its COPY, or with the parquet written.
AggregateRaises ==
    /\ run = "aggregate"
    /\ UNCHANGED output \/ (spool' = copies /\ written' = TRUE)
    /\ run' = "finally"
    /\ raised' = TRUE
    /\ UNCHANGED <<retries, opened, thread, fetched, copies, ghosts, class>>

\* Mutant: an off-by-one in the count of retries.
RetryOrEndOffByOne ==
    IF retries >= 0 THEN run' = "queued" /\ retries' = retries - 1
    ELSE run' = "over" /\ UNCHANGED retries

\* RQ puts a failed job back into its queue while it has retries left.
RetryOrEnd ==
    IF retries > 0 THEN run' = "queued" /\ retries' = retries - 1
    ELSE run' = "over" /\ UNCHANGED retries

LeaveFiles == UNCHANGED copies /\ survivor' = (survivor \/ copies # Nothing)

\* _cleanup_job_duckdb or _cleanup_chunk_parquet_dir; an error is logged.
Delete ==
    \/ copies' = Nothing /\ survivor' = FALSE
    \/ LeaveFiles

EndRun == IF raised THEN RetryOrEnd ELSE run' = "over" /\ UNCHANGED retries

\* The finally of run(): without a job_duckdb_path there is nothing to delete.
CleanUp ==
    /\ run = "finally"
    /\ IF opened THEN Delete ELSE UNCHANGED <<copies, survivor>>
    /\ EndRun
    /\ UNCHANGED <<attempt, output, reused, class>>

\* The work horse is killed (out of memory, a deploy) and no finally runs. RQ
\* takes it for a failure.
Killed ==
    /\ run \notin {"queued", "over"}
    /\ thread' = [c \in Chunks |-> "waiting"]
    /\ LeaveFiles
    /\ RetryOrEnd
    /\ UNCHANGED <<raised, opened, fetched, output, reused, class>>

Task(c) == StartChunk(c) \/ Fetch(c) \/ ChunkDone(c) \/ ChunkFails(c)

RunStep ==
    \/ Dequeue \/ PreQuery \/ FanOutDone \/ FanOutRaises
    \/ Aggregate \/ AggregateRaises \/ CleanUp

Next == RunStep \/ (\E c \in Chunks : Task(c)) \/ Killed

Spec == Init /\ [][Next]_vars

\* RQ starts what is queued, and run() and its threads do their next step.
FairSpec == Spec /\ WF_vars(RunStep) /\ \A c \in Chunks : WF_vars(Task(c))
-----------------------------------------------------------------------------
\* A parquet holds every batch of every chunk: no failed, unfinished or never
\* started chunk of the pool is missing from a result, at any interleaving.
NothingMissing == written => \A b \in AllBatches : spool[b] > 0

\* A parquet holds no batch twice, although the attempts share their temporary
\* place by the job id: what a killed append job left is overwritten, and no
\* reduction job but the retry of a killed one finds a file there.
NothingTwice == ~reused => \A b \in AllBatches : spool[b] <= 1

\* What a run leaves in the temporary place is the doing of a kill or of the
\* disk: whatever raised, no thread of the pool writes there after the finally.
OnlyKillsLeaveFiles == run \in {"queued", "over"} /\ copies # Nothing => survivor

\* RQ and run() end: no failure, in the loop or in the pool, at whatever point,
\* leaves a run waiting for a task that nobody will finish.
JobEnds == <>(run = "over")

\* contracts/data/data-shape-contract.md: "Each row appears in exactly one
\* chunk", and the failed leave "no orphaned rows". A retry inserts none again.
EachRowOnce == \A b \in AllBatches : spool[b] <= 1
=============================================================================
