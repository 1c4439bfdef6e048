------------------------------ MODULE AsyncJob ------------------------------
(***************************************************************************)
(* One asynchronous query job: the route that enqueues it, RQ, the worker  *)
(* function, the abandon route, scripts/reap_orphan_jobs.py and a client   *)
(* that polls. They share the Redis hash {prefix}:job:{job_id}:meta, which *)
(* each of them writes with HSET and none compares before it writes.       *)
(*                                                                         *)
(* Every Redis call is a step. HSET on a key that has expired makes a new  *)
(* hash, without the fields of the old one and without a TTL.              *)
(***************************************************************************)
EXTENDS Integers

CONSTANTS
    MaxRetries,  \* Retry(max=...)
    Ttl,         \* result_ttl, in ticks
    OrphanAge    \* ORPHAN_JOB_AGE_SECONDS, in ticks

ASSUME JobAssumption ==
    /\ MaxRetries \in Nat
    /\ Ttl \in Nat \ {0}
    /\ OrphanAge \in Nat \ {0}

VARIABLES
    meta,      \* the hash: status, whether it has created_at and owner, TTL
    route,     \* where enqueue_job is
    rq,        \* what RQ makes of the job
    retries,   \* retries RQ has left
    worker,    \* where the worker function is
    abandon,   \* where the abandon route is
    reaper,    \* where the reaper is
    client,    \* what the polling client has concluded
    age        \* ticks since the job was created, up to OrphanAge

vars == <<meta, route, rq, retries, worker, abandon, reaper, client, age>>

Active == {"queued", "running", "started"}
Terminal == {"completed", "failed", "abandoned"}

Forever == -1
Gone == [status |-> "gone", known |-> FALSE, ttl |-> 0]
Exists == meta.status # "gone"

TypeOK ==
    /\ meta \in [status : Active \cup Terminal \cup {"gone", "unknown"},
                 known : BOOLEAN, ttl : -1 .. Ttl]
    /\ route \in {"idle", "expire", "push", "refuse", "done", "dead"}
    /\ rq \in {"none", "queued", "started", "scheduled", "finished", "failed"}
    /\ retries \in 0 .. MaxRetries
    /\ worker \in {"idle", "begin", "report", "query", "store", "written",
                   "complete", "fail", "returned", "raised"}
    /\ abandon \in {"idle", "write", "done"}
    /\ reaper \in {"idle", "write"}
    /\ client \in {"waiting", "polling", "done", "error"}
    /\ age \in 0 .. OrphanAge

Init ==
    /\ meta = Gone
    /\ route = "idle"
    /\ rq = "none"
    /\ retries = MaxRetries
    /\ worker = "idle"
    /\ abandon = "idle"
    /\ reaper = "idle"
    /\ client = "waiting"
    /\ age = 0
-----------------------------------------------------------------------------
\* HSET of fields that include status, and of fields that do not.
Hset(s) ==
    meta' = IF Exists THEN [meta EXCEPT !.status = s]
            ELSE [status |-> s, known |-> FALSE, ttl |-> Forever]

HsetNoStatus ==
    meta' = IF Exists THEN meta
            ELSE [status |-> "unknown", known |-> FALSE, ttl |-> Forever]

\* update_job_progress, complete_job and the reaper log an error of Redis and
\* go on.
WorkerHset(s) == Hset(s) \/ UNCHANGED meta

\* Some workers report a status, some a percentage only.
Progress(s) == WorkerHset(s) \/ HsetNoStatus
-----------------------------------------------------------------------------
(***************************************************************************)
(* enqueue_job: HSET, EXPIRE, and the push to RQ's queue.                  *)
(***************************************************************************)
WriteMeta ==
    /\ route = "idle"
    /\ meta' = [status |-> "queued", known |-> TRUE, ttl |-> Forever]
    /\ route' = "expire"
    /\ UNCHANGED <<rq, retries, worker, abandon, reaper, client, age>>

\* Mutant: EXPIRE with a longer TTL than result_ttl.
ExpireLonger ==
    /\ route = "expire"
    /\ meta' = [meta EXCEPT !.ttl = Ttl + 1]
    /\ route' = "push"
    /\ UNCHANGED <<rq, retries, worker, abandon, reaper, client, age>>

\* Mutant: the metadata is given no TTL.
NeverExpire ==
    /\ route = "expire"
    /\ route' = "push"
    /\ UNCHANGED <<meta, rq, retries, worker, abandon, reaper, client, age>>

Expire ==
    /\ route = "expire"
    /\ meta' = [meta EXCEPT !.ttl = Ttl]
    /\ route' = "push"
    /\ UNCHANGED <<rq, retries, worker, abandon, reaper, client, age>>

\* The response of 202 carries the status_url that the client polls.
Push ==
    /\ route = "push"
    /\ rq' = "queued"
    /\ route' = "done"
    /\ client' = "polling"
    /\ UNCHANGED <<meta, retries, worker, abandon, reaper, age>>

\* queue.enqueue raises: the job may be in the queue all the same.
PushFails ==
    /\ route = "push"
    /\ rq' \in {rq, "queued"}
    /\ route' = "refuse"
    /\ UNCHANGED <<meta, retries, worker, abandon, reaper, client, age>>

Refuse ==
    /\ route = "refuse"
    /\ WorkerHset("failed")
    /\ route' = "done"
    /\ UNCHANGED <<rq, retries, worker, abandon, reaper, client, age>>

\* The web process dies inside enqueue_job.
RouteStops ==
    /\ route \in {"expire", "push", "refuse"}
    /\ route' = "dead"
    /\ UNCHANGED <<meta, rq, retries, worker, abandon, reaper, client, age>>

RouteStep == WriteMeta \/ Expire \/ Push \/ PushFails \/ Refuse
-----------------------------------------------------------------------------
(***************************************************************************)
(* RQ and the worker function.                                             *)
(***************************************************************************)
Dequeue ==
    /\ rq = "queued"
    /\ rq' = "started"
    /\ worker' = "begin"
    /\ UNCHANGED <<meta, route, retries, abandon, reaper, client, age>>

\* Some workers look for the result first and query no more if some of its
\* caches answers, which says nothing of a spool file.
Begin ==
    /\ worker = "begin"
    /\ Progress("started")
    /\ worker' \in {"report", "complete"}
    /\ UNCHANGED <<route, rq, retries, abandon, reaper, client, age>>

\* Mutant: a thread of the worker still reports when the worker has had its
\* last word.
ReportLate ==
    /\ worker \in {"report", "returned", "raised"}
    /\ Progress("running")
    /\ worker' = IF worker = "report" THEN "query" ELSE worker
    /\ UNCHANGED <<route, rq, retries, abandon, reaper, client, age>>

Report ==
    /\ worker = "report"
    /\ Progress("running")
    /\ worker' = "query"
    /\ UNCHANGED <<route, rq, retries, abandon, reaper, client, age>>

\* Oracle, DuckDB and the parquet; any of them may raise.
Query ==
    /\ worker = "query"
    /\ worker' \in {"store", "fail"}
    /\ UNCHANGED <<meta, route, rq, retries, abandon, reaper, client, age>>

\* The merge may raise. What register_spool_file returns is ignored by all
\* workers but yield-alert's, which raises on FALSE: to the others a failed
\* registration is as good as a successful one.
Store ==
    /\ worker = "store"
    /\ worker' \in {"written", "fail"}
    /\ UNCHANGED <<meta, route, rq, retries, abandon, reaper, client, age>>

Written ==
    /\ worker = "written"
    /\ Progress("running")
    /\ worker' = "complete"
    /\ UNCHANGED <<route, rq, retries, abandon, reaper, client, age>>

Complete ==
    /\ worker = "complete"
    /\ WorkerHset("completed")
    /\ worker' = "returned"
    /\ UNCHANGED <<route, rq, retries, abandon, reaper, client, age>>

\* Most workers raise the error again, so that RQ sees it; some return.
Fail ==
    /\ worker = "fail"
    /\ WorkerHset("failed")
    /\ worker' \in {"raised", "returned"}
    /\ UNCHANGED <<route, rq, retries, abandon, reaper, client, age>>

Returned ==
    /\ worker = "returned"
    /\ worker' = "idle"
    /\ rq' = "finished"
    /\ UNCHANGED <<meta, route, retries, abandon, reaper, client, age>>

\* handle_job_failure: the job is put off and tried again while retries last.
Retry ==
    IF retries > 0
    THEN rq' = "scheduled" /\ retries' = retries - 1
    ELSE rq' = "failed" /\ UNCHANGED retries

Raised ==
    /\ worker = "raised"
    /\ worker' = "idle"
    /\ Retry
    /\ UNCHANGED <<meta, route, abandon, reaper, client, age>>

\* The work horse is killed (out of memory, a restart): no except clause runs,
\* and RQ's worker takes it for a failure.
Killed ==
    /\ worker # "idle"
    /\ worker' = "idle"
    /\ Retry
    /\ UNCHANGED <<meta, route, abandon, reaper, client, age>>

RetryDue ==
    /\ rq = "scheduled"
    /\ rq' = "queued"
    /\ UNCHANGED <<meta, route, retries, worker, abandon, reaper, client, age>>

WorkerStep ==
    \/ Begin \/ Report \/ Query \/ Store \/ Written \/ Complete \/ Fail
    \/ Returned \/ Raised
RqStep == Dequeue \/ RetryDue
-----------------------------------------------------------------------------
(***************************************************************************)
(* Abandon, reap, poll: read the hash, judge, and (the first two) write.   *)
(***************************************************************************)
\* 404 without the hash, 403 without an owner in it, 409 once terminal.
AbandonReads ==
    /\ abandon = "idle" /\ client = "polling"
    /\ meta.known /\ meta.status \notin Terminal
    /\ abandon' = "write"
    /\ UNCHANGED <<meta, route, rq, retries, worker, reaper, client, age>>

AbandonWrites ==
    /\ abandon = "write"
    /\ WorkerHset("abandoned")
    /\ abandon' = "done"
    /\ UNCHANGED <<route, rq, retries, worker, reaper, client, age>>

\* A hash without created_at is taken to be infinitely old.
LooksOrphaned == meta.status \in Active /\ (meta.known => age >= OrphanAge)

ReaperReads ==
    /\ reaper = "idle"
    /\ LooksOrphaned
    /\ reaper' = "write"
    /\ UNCHANGED <<meta, route, rq, retries, worker, abandon, client, age>>

ReaperWrites ==
    /\ reaper = "write"
    /\ WorkerHset("failed")
    /\ reaper' = "idle"
    /\ UNCHANGED <<route, rq, retries, worker, abandon, client, age>>

\* pollJobUntilComplete; a 404 is an error of the request.
Poll ==
    /\ client = "polling"
    /\ client' = CASE meta.status = "completed" -> "done"
                   [] meta.status \in {"failed", "gone"} -> "error"
                   [] OTHER -> "polling"
    /\ UNCHANGED <<meta, route, rq, retries, worker, abandon, reaper, age>>

\* JOB_POLL_TIMEOUT, an abort, or a request that failed.
StopPolling ==
    /\ client = "polling"
    /\ client' = "error"
    /\ UNCHANGED <<meta, route, rq, retries, worker, abandon, reaper, age>>
-----------------------------------------------------------------------------
Tick ==
    /\ Exists
    /\ meta' = CASE meta.ttl = Forever -> meta
                 [] meta.ttl = 1 -> Gone
                 [] OTHER -> [meta EXCEPT !.ttl = @ - 1]
    /\ age' = IF age < OrphanAge THEN age + 1 ELSE age
    /\ UNCHANGED <<route, rq, retries, worker, abandon, reaper, client>>

Next ==
    \/ RouteStep \/ RouteStops \/ RqStep \/ WorkerStep \/ Killed
    \/ AbandonReads \/ AbandonWrites \/ ReaperReads \/ ReaperWrites
    \/ Poll \/ StopPolling \/ Tick

Spec == Init /\ [][Next]_vars

\* Time passes; nobody need do anything else.
FairSpec == Spec /\ WF_vars(Tick)
-----------------------------------------------------------------------------
\* A job that enqueue_job answered for is not shown as active for ever: if the
\* worker does not say how it ended (it was killed for good, its HSET was lost),
\* the hash expires, which no HSET puts off.
StatusSettles ==
    route = "done" /\ meta.known /\ meta.status \in Active ~> meta.status \notin Active

\* What becomes of an attempt, for JobLifecycle.
Attempt ==
    CASE rq = "none" -> "none"
      [] rq \in {"finished", "failed"} -> "over"
      [] worker \in {"returned", "raised"} -> "said"
      [] OTHER -> "runs"

\* Who has found the job unfinished and has yet to write it.
Doubts ==
    {j \in {"route", "abandon", "reaper"} :
        \/ j = "route" /\ route = "refuse"
        \/ j = "abandon" /\ abandon = "write"
        \/ j = "reaper" /\ reaper = "write"}

\* Through retries, kills, lost HSETs, late verdicts and expiry, a job is a
\* JobLifecycle: an attempt's last word is undone by nothing but one of the
\* bounded retries, a verdict of somebody who had found the job unfinished,
\* or the TTL, and only an attempt says completed.
Lifecycle == INSTANCE JobLifecycle
    WITH status <- meta.status, attempt <- Attempt, doubts <- Doubts
ImplementsLifecycle == Lifecycle!Spec
=============================================================================
