# Verification of the MES dashboard's shared-state core

The dashboard (`src/src/mes_dashboard`) is a Flask application, served by several gunicorn
workers, that runs long Oracle queries in RQ worker processes, keeps their results as parquet
files on disk and coordinates everything through Redis. Request handlers, RQ workers, schedulers,
cleanup threads and a reaper script share Redis keys and files, mostly without locks. This project
models that coordination in TLA+, checks it with TLC and proves the main results with TLAPS.
SQL, data frames and rendering are not modelled.

Paths below are relative to `src/src/mes_dashboard` unless they begin with `src/`.

## 1. Inventory

| Component | State | Operations | Interacts with | Hard behaviour | What makes it correct |
|---|---|---|---|---|---|
| Heavy-query semaphore `core/global_concurrency.py` | Redis sorted set of owner ids with scores, EXPIRE on the key | acquire (Lua), release, context manager, count | RQ jobs, dataset caches, chunked jobs | killed holders, lost ZREM, Redis down, shared owner ids | admitted holders are counted and bounded; leaks end |
| Query spool store `core/query_spool_store.py` | parquet file and metadata key per (namespace, query id), stage files, inflight keys | register (with or without compare), read, load, clear, cleanup | jobs, routes, cleanup thread | two stores without a transaction, TTL, stale reads, crash between steps | no live file is swept, orphans and dangling keys go away, the newest query wins |
| Async jobs `services/async_query_job_service.py`, `routes/job_routes.py`, `src/scripts/reap_orphan_jobs.py` | Redis hash per job | enqueue, report, complete, abandon, reap, poll | RQ, workers, browser | unconditional HSETs by four parties, retries, kills, expiry | an attempt's last word stands but for a retry, a verdict or the TTL; the status settles |
| Circuit breaker `core/circuit_breaker.py`, `core/database.py` | state, sliding window, open time, per process | allow, record success, record failure | every Oracle query | late answers, lazy transition | opens on fresh failures, admits only after recovery, recovers |
| Redis lock `core/redis_client.py` | one key per lock | SET NX EX, DELETE | schedulers, caches, cleanup | overrun of the TTL, dead holders, lost replies | exclusion, the lock comes back |
| Chunked jobs `core/base_chunked_duckdb_job.py` and `workers/*` | temporary DuckDB file or parquet directory named after the job | pre_query, fan-out, post_aggregate, cleanup | Oracle, thread pool, RQ retry, spool store | one chunk of several fails, kills, retries on leftovers | a result has every batch once, files are deleted |
| Production achievement cache `services/production_achievement_daily_cache.py` | spools of today and yesterday, inflight marker | ensure loaded, warm, force refresh | spool store, warmup queue, users' requests | staleness by age, a marker anybody clears, rows that arrive after midnight | today follows the rows, a day becomes complete |
| Warmup scheduler `core/spool_warmup_scheduler.py` | leader lock, cooldown key, one thread per gunicorn worker | run_warmup_cycle, restart | Redis lock, RQ | claim and die, clocks of their own, restarts | one beat for all |
| Yield-alert dataset `services/yield_alert_dataset_cache.py` | process cache, linkage key, spool | execute_primary_query, linkage query, wait loop | Redis lock, spool store | three caches that expire apart, lock shorter than the query, waiters that never try again | newer rows stay, what is gone comes back |
| Batch engine and reject dataset `services/batch_query_engine.py`, `services/reject_dataset_cache.py` | chunks and progress hash in Redis, spool and its flag, owner lock | decompose, execute plan, merge, flag | Oracle, thread pool, spool store | failed and truncated chunks, dead runs' leftovers, late owners, a job that writes the same file without the lock | a spool that lacks a chunk is flagged, no day is merged twice, no spool becomes poorer |
| Session store and sync worker `core/login_session_store.py`, `core/sync_worker.py` | SQLite rows with `synced`, MySQL table | login, heartbeat, logout, shutdown, sync cycle | every gunicorn worker | look and write of a login apart, writes while a copy is under way, lost replies, deaths | what is marked is copied, nothing is deleted unseen |
| Cache updater, filter caches, watchdog, memory guards, rate limit | process caches, restart budget, reservations | see `PROJECT.json` | | | |

`PROJECT.json` lists every component with its status, and the hazards at their lines. The
subsystems chosen first are those every other one is built on.

## 2. Modules

| Module | Models |
|---|---|
| `Semaphore` | abstract: a counting semaphore, with one slot a mutex |
| `HeavyQuerySlots` | the heavy-query semaphore; implements `Semaphore` |
| `SpoolStore` | one (namespace, query id) of the spool store |
| `JobLifecycle` | abstract: what may follow what in the status of a job |
| `AsyncJob` | one job with all that write its hash; implements `JobLifecycle` |
| `CircuitBreaker` | the breaker and its two callers in `database.py` |
| `RedisLock` | one lock name |
| `ChunkedJob` | `run()` of one chunked job over its RQ retries |
| `Faults` | the count of what goes wrong from outside; extended by the four below |
| `WarmCache` | the warmup schedulers and the spool of one day; extends `RedisLock` (the election) and implements it |
| `DatasetCache` | the yield-alert dataset of one query id; extends `RedisLock` (the single flight) and implements it |
| `BatchQuery` | one query id of the reject dataset over the batch engine, and the job that writes the same spool |
| `SessionSync` | the session table, its logins and its sync workers |
| `<M>_proofs` | the theorems about `<M>`; `RedisLock_proofs` has those of its users `DatasetCache` and `WarmCache` too |
| `MC_<M>` | the sets and functions of TLC's instances of `<M>` |

Common conventions. A Redis call is one step, and so is a block of code that holds a lock or makes
only local or file-system calls; anything may happen in between. Time is `Tick`, which ages what
the code compares with a clock; ages are capped where the code no longer tells them apart, so the
caps lose nothing. A process that dies is an action that drops its program counter without its
`finally`. Definitions marked *Mutant* are faulty forms of the definition after them: each shows
that some property of a passing run fails if the code is changed so.

### HeavyQuerySlots

`members`, `score` and `keyTtl` are the sorted set (scores relative to now) and the key's EXPIRE;
`running`, `acquired`, `granted` describe the callers, `age` and `leaked` are history.
`Granted`/`Refused`/`FailOpen` are the three outcomes of `acquire_heavy_query_slot`: the script
adds, the script refuses (and the caller proceeds unless it is one of `StrictCallers`, which give
up), Redis fails (the script may or may not have run). `Finish`, `FinishReleaseLost` and `Crash`
end a fetch. The score is `now + ttl` and the cutoff `now - ttl`: that is why a slot counts for
twice its ttl, and why the properties speak of callers younger than `2 * Ttl` (`Counted`).

`Semaphore` is the promise: a caller takes a slot when fewer than `MaxConcurrent` hold one, and may lose it
at any time. The refinement mapping shows it the callers in `Counted` as holders; those that go on without
a slot are not among them. With one slot it is what `RedisLock` implements until somebody overruns, and
the lock of `BatchQuery` for those in time; both have a theorem for it, `MutexCorrect`.

### SpoolStore

A file is represented by the version of the query it holds; `ptr` is the version the metadata key
points to and `life` its TTL, of which the last tick is the time when `expires_at` has passed and
Redis has not dropped the key. `Check`, `Skip`, `Move`, `Register` are the steps of
`register_spool_file`, with the compare in `Check` and the SETEX in `Register`; jobs in
`InPlaceJobs` write the canonical path themselves before they call it, as the production
achievement worker does. Readers read or clear (`ForceRefresh`, `ClearReads`, ...). A cleaner goes
`TakeNow`, `ScanKeys`, `Judge`, `DeleteKey`, `Sweep`; `ScanFails` is the swallowed exception, after
which the sweep goes on; `CleanerStops` the death of the process.

`RegisterTakesLessThanGrace` guards `Tick`: between the write of its parquet and the metadata a job
lets less than the grace period (600 s) pass. The sweep's comment and the grace period presuppose it;
without it a slow registration loses its file.

### AsyncJob and JobLifecycle

`meta` is the hash: its status, whether it has the fields `enqueue_job` wrote (`known`) and its TTL. `Hset`
on a vanished hash makes one without those fields and without a TTL. The route is `WriteMeta`, `Expire`,
`Push` (or `PushFails`, `Refuse`); RQ is `Dequeue`, `Retry`, `RetryDue`, `Killed`; the worker's steps are
those of the yield-alert and production-history jobs, with the differences between workers as choices (a
progress report with or without a status, an error that is raised again or returned from). What a worker
stores is not part of it: nearly all of them go on to `complete_job` whatever became of the registration, and
a worker that finds a payload in a cache (`Begin`) goes straight there. `AbandonReads`/`AbandonWrites` and
`ReaperReads`/`ReaperWrites` read and write in two Redis calls. `Poll`/`StopPolling` are `pollJobUntilComplete`.
`WorkerHset` lets any HSET but the first be lost, since an error of Redis is logged and ignored there.
`RouteStops` is a web process that dies inside `enqueue_job`.

`JobLifecycle` says which words may follow which, for everybody who writes the hash. An attempt ends with its last
word (`Say`: completed, failed, or nothing if it is lost), and no report of that attempt comes after it. The word
stands until RQ begins the next of the bounded attempts (`Again`), until the hash is forgotten, or until somebody
gives a verdict: the abandon route, the reaper, or `enqueue_job` itself when its push has raised. Who gives one
must have found the job unfinished before (`doubts`), though the job may have completed since: nobody compares
again. Nothing but an attempt says completed. The refinement mapping reads `status` from the hash, `Attempt`
from RQ and the worker, and `Doubts` from the program counters of those who have read and not yet written.

### CircuitBreaker

`allow_request`, `record_success` and `record_failure` hold the breaker's lock and are one step each; a
query runs between them. A fast request goes from `AllowFast` to `Succeed` or `Fail`, a slow one waits for a
permit in between (`AcquireSlow`, or `GiveUp` after 60 s). The transition from OPEN to HALF_OPEN happens
inside `Allow`, as the property `state` does it. `quiet` and `fresh` are history. Not modelled: `reset()`,
which only tests call, and `read_sql_df_slow_iter`, which does not ask the breaker.

### RedisLock

`key`/`keyTtl` are the Redis key. `Acquire` is SET NX EX; `AcquireFails` is the reply that is lost,
after which the fail modes "closed" and "raise" keep the caller out (no caller under `src/` but the
tests asks for "open", so it is not modelled); `Release` is the unconditional DELETE; `LeaveHeld` a
release that failed or a holder that died. `lease` (what remains of the TTL a thread was granted)
and `overrun` (a thread has stayed inside beyond it) are history.

### ChunkedJob

`copies` counts how often a batch is in the temporary place: INSERT adds one, the file of an append job is
overwritten. `reduction` and `parallel` are attributes of the job's class, chosen in `Init` and never
changed. `thread` and `fetched` are the tasks of the loop or the pool, of which at most `parallel` run.
`MayStart` and `MayRaise` are when the loop or the pool starts a task and when it raises the exception of a
failed one: the loop at once, the pool when the others have ended; `CleanUp` is the `finally`; `Killed`
skips it and leaves the files. `survivor` and `reused` are history: something was left behind, and a
reduction began with it. `RetryOrEnd` is RQ's `Retry(max=2)` with the same job id. Batches per chunk are the
same in every attempt, as the query is.

### WarmCache

One day D: `phase` is today, then the night in which its last shift still runs (until 07:30) and its
rows arrive, then over. `daySpool.data` is what was queried: how long ago, and in which phase. Each gunicorn
worker's scheduler (`sched`, `timer`) has a clock of its own from its own start, so `WarmInit` lets the clocks
lie at any distance; a gunicorn restart (`Restart`: `max_requests`) sets one back to a full interval
at any time it sleeps, and is not a fault. A scheduler wakes, is elected (`Elected` is `RedisLock`'s `Acquire`),
claims the cooldown (`Claim`, SET NX EX, and open when Redis is away), enqueues and releases. So jobs are
enqueued every interval at best, and in the worst case a restart just before the cooldown ends puts the next
enqueue off by nearly an interval (`Beat`). The warmup worker
takes a job (`Dequeue`), looks at the spool (`Check`, with `Stale` for today and mere existence for
yesterday), at the inflight marker (`Guard`), and builds (`StartBuild`, `EndBuild`). A user's request
builds without looking at the marker, and both clear it at their end, whoever set it. `Registers` is
`register_spool_file` with the compare, in one step; its interleavings are `SpoolStore`'s. `TimePasses`
is time: free of charge only when everybody who could act has acted and no build exceeds `MaxBuild`, else it
counts as one of the `faults`, as do failures and deaths (`WorkerDies`, in the middle of a cycle).

### DatasetCache

Each thread goes through `_get_cached_payload`: its process cache (`l1`), the linkage key (`link`), the
registered file (`spool`, represented by the version of the Oracle rows it holds). On a miss it takes the
lock or waits: `NoLock`, `Poll`, `LastPoll`. The holder goes `Stream`, `Register`, `StorePayload`, `Unlock`,
or `StoreEmpty` when there are no rows. `Promote` keeps a payload in the process cache when either the key
or the file is found, as an empty one when it is only the key. The linkage query is `Extract`,
`StoreLinkage`, `LinkageFails`. `Die` is a process with all its threads; `RowsChange` is Oracle.

### BatchQuery

`Chunk(i)` is `decompose_by_time_range`. A run, `clear` to `flag`, is `redis_clear_batch`, `execute_plan`
(`Query` in the order of the pool), the merge, which learns from the progress hash how many chunks there are
(`ReadTotal`), the reading of the partial-failure mark before the batch is cleared (`Report`, `Wipe`), the spool
and its flag (`Register`, `Flag`). Rows are told apart by their day, and each day has some: `kept[c]` are the
days with rows in the chunk that is in Redis. A chunk comes to one of three ends (`Outcomes`): all its rows; none,
because it failed, which `execute_plan` notes (it may be in Redis all the same); or, cut at the row limit, some
of its days and no note but a warning in the log. `Cuts` bounds what a cut may leave in the run and is
unrestricted in the theorems. The answers to requests change no state and are left out.

The lock's value is its owner and the release compares it (`DeleteOwn`), other than in `RedisLock`; it may expire
at any time (`LockExpires`). The reject history job (`workers/reject_history_worker.py`, on by default) has the
same namespace and query id: `JobWrites` copies its rows over the canonical file, without lock, look or flag,
and `JobRegisters` registers whatever lies there by then. A failed chunk fails that job, so it writes all days.
A spool file and its metadata appear together here (`spool`), a file that is written and not yet registered is
`copied`; `SpoolStore` is about what lies between. DuckDB writes a COPY to a temporary file first where the
target exists, so a COPY is one step. The flag's TTL begins after that of the spool, and before the TTL of a
later registration of the same file: then it is "old", and may be gone first (`Renew`, `FlagGone`).

Lost records are `faults`; `late` are threads whose lock has expired or, with Redis away, never was theirs;
`mixed` says that two runs, or a run and the job, have worked at once since a run last began alone: such a run
finds no spool, clears the chunks, and owes nothing to the overlap before it.

### SessionSync

A row of the table is its state, a count of its writes, its `synced` column and its age (8 and 24 hours are what
the code compares with). All statements that write rows are actions. `_write_lock` is a lock of the process, so
`create_session` is two steps that those of another gunicorn worker may come between: `LookUp` finds the session
of the user, or none; `Resume` writes the row it has found, deleted or closed meanwhile or not, `Login` closes
the user's rows and inserts one. Two logins at once may leave one user two open sessions. `Free` says that
nobody of the process holds its lock. `Heartbeat`, `Logout`, `Shutdown` and `Orphans` are one statement each.
A sync thread goes `Read` (a batch), `Copy` (REPLACE INTO), `Mark`, `Orphans`, `Cleanup`; `raced` holds the rows
whose last write fell while some worker had them in its batch.

## 3. Runs

Each passing run has, for each of its properties, a mutant in `PROJECT.json`. `CHECK_DEADLOCK FALSE` is set
where a job ends (`AsyncJob`, `ChunkedJob`) or the writes to the rows are used up (`SessionSync`); all other
models run for ever.

| Run | Shows |
|---|---|
| `slots_own` | granted callers are counted; each member is a running caller's or a leak; admitted callers see a counting semaphore of `MaxConcurrent` slots; a leaked slot comes back, though every acquisition renews the key's EXPIRE |
| `spool` | after a complete scan the sweep spares registered files and files about to be registered; orphans are collected and dangling keys repaired |
| `job` | with kills, retries, lost HSETs, expiry, abandon, reaper and a push that raises, the status of a job implements `JobLifecycle`; a job with a TTL is not shown active for ever |
| `breaker` | what opening and admission need; the breaker closes once failures stop |
| `chunks` | a result has every batch, and once unless a reduction reuses a file; only kills and the disk leave files; the job ends |
| `warm` | schedulers with clocks of their own, restarted at any time, enqueue once in a cooldown and within an interval after it; the spool of today is never older than that beat and two builds explain; a day that is over is complete in the end, whatever failed before; the leader lock excludes and comes back |
| `dataset` | no older query replaces the file of a newer one until one outlives the lock; a dataset whose file went away is queried again |
| `batch` | who has the lock in time has it alone; a spool without the rows of a chunk is flagged; no day is merged twice; a spool is not replaced by a poorer one: with chunks that fail or are cut, deaths anywhere, and the job without the lock |
| `sessions` | a row marked as synced has been copied as it is, unless its last write fell into a copy; none is deleted unseen; the last write arrives, with the same exception |

Runs with `expect: violation` check a sentence of the repository's own documentation against the
code, and TLC refutes it. `findings` in `PROJECT.json` quotes each sentence; the counterexamples in short:

| Run | Counterexample |
|---|---|
| `spool_newest` | old job compares, new job writes, old job writes |
| `chunks_killed` | a retry inserts into the killed attempt's table |
| `daily_closed` | yesterday's spool is built at 03:00, while its last shift runs until 07:30; after that the warmup finds it and takes it for final |

Other differences between code and words that the models contain, without a run of their own:

* Two production-history jobs that share an owner id have one slot, and the first release frees it for both
  (`services/production_history_service.py:519`; `core/global_concurrency.py:94` asks for a "Unique
  identifier for this job"). `DistinctOwners` excludes it.
* A caller that is refused a slot runs its query all the same (`Refused`), so
  `HEAVY_QUERY_MAX_CONCURRENT` bounds the admitted queries and not all of them
  (`core/global_concurrency.py:4`), and a leaked slot counts for twice its ttl (`:95`).
* A job in `InPlaceJobs` has replaced the canonical file before its registration is skipped as stale
  (`core/query_spool_store.py:527` says the parquet is left untouched).
* The cleanup deletes the file of a registration that came between its reading of an expired record and
  its deletion, and after a failed scan the sweep trusts the part it has seen
  (`core/query_spool_store.py:803`, `:828`). `SweepSparesRegistered` speaks of completed scans.
* A completed job promises nothing about its spool: the workers ignore what `register_spool_file` returns, or
  log it (`workers/production_history_worker.py:183`, `workers/production_achievement_worker.py:271`,
  `workers/production_achievement_moveout_worker.py:236`, `workers/reject_history_worker.py:259`,
  `workers/resource_history_base_worker.py:170`, `workers/resource_history_oee_worker.py:204`,
  `workers/uph_performance_worker.py:548`, `workers/eap_alarm_worker.py:580`, `services/material_trace_service.py:894`,
  `services/material_trace_duckdb_runtime.py:426`, `services/wip_query_job_service.py:266`,
  `services/job_query_service.py:284`, `services/production_history_service.py:679`, and the hold and resource
  caches). Only the yield-alert query (`services/yield_alert_dataset_cache.py:542`) and the reject query look.
  And a yield-alert job that finds the payload in a cache completes though there is no spool file
  (`services/yield_alert_job_service.py:134-139`). No property of `AsyncJob` speaks of the result.
* Terminal states are not final: a failed job that RQ retries (`services/async_query_job_service.py:128`) is
  shown started again, and an abandoned one (`routes/job_routes.py:39`) completed, since nobody compares
  (`services/async_query_job_service.py:283`). `JobLifecycle` says how far this goes.
* An HSET after the hash expired makes one without a TTL, which stays unless the reaper ends it, and which the
  reaper takes for infinitely old (`src/scripts/reap_orphan_jobs.py:145`); `StatusSettles` speaks of
  hashes that have what `enqueue_job` wrote.
* HALF_OPEN admits every request (`core/circuit_breaker.py:157`), and a slow query that was
  admitted while CLOSED may start while OPEN (`core/database.py:803`).
* Nothing sweeps the DuckDB files of a job that was killed for good
  (`contracts/data/data-shape-contract.md:1304` speaks of a TTL cleanup).
* `release_lock` deletes the key of whoever has it (`core/redis_client.py:335`): after an overrun, which
  `overrun` records, two threads may be inside. The reject query compares the owner and does not have this.
* A payload whose spool file is gone and whose linkage key is not is promoted as an empty result
  (`services/yield_alert_dataset_cache.py:402-409`), and the waiters take it for the answer; `DatasetReturns`
  says that this passes.
* Between the spool and its flag a request answers from a partial spool without a mark
  (`services/reject_dataset_cache.py:1199`, the flag at `:1256`), for good if the process dies there (one of the
  `faults`), and two runs of which one is late clear each other's chunks, so that a partial spool may stay
  unmarked (`mixed`).
* A chunk cut at `_REJECT_ENGINE_MAX_ROWS_PER_CHUNK` counts as a success (`services/reject_dataset_cache.py:1163-1169`):
  the spool lacks its rows, whole days among them, and has no flag. `MissingIsFlagged` speaks of spools without
  any row of some chunk.
* The reject history job shares file, metadata and query id with the reject query
  (`workers/reject_history_worker.py:106-122`, `:237-262`): where it overlaps a run, the flag of one may lie beside
  the file of the other, and a partial file of the run may be registered by the job (`mixed`). After it has
  renewed the registration of a flagged spool, the flag expires first; the file is whole by then.
* `mark_synced` marks by id (`core/login_session_store.py:427`): a heartbeat or logout between the
  reading and the marking of its row does not reach MySQL until the row is written again (`raced`), and
  the worker that read the row before it may put the older state over the newer one
  (`core/sync_worker.py:478`).
* Two gunicorn workers that log in one user at once leave two open sessions (`core/login_session_store.py:165`:
  the lock is the process's), and a resumed session may have been closed since it was found.

### Bounds

* Semaphore: three callers, limit 2, ttl 2 ticks: the least with one caller refused, and ages up to
  `2 * Ttl` in which a slot is fresh, past its ttl, and purged.
* Spool: two jobs (the older and the newer, one of them writing in place), one reader, one cleaner, two
  queries, TTL and grace of 2 ticks: either may run out first, since the key's TTL starts at the
  registration and the file's age at its write. One cleaner in the run: the periodic ones hold a Redis lock
  (`core/query_spool_store.py:901`), which may expire under them, and the cleanups at the start of a process
  (`:917`) and for want of room (`:253`) do without it; the theorem covers any number of cleaners at once.
* Jobs: one job, as jobs share nothing here; 2 retries (the code's number), TTL 3 ticks, so that the
  hash expires at any point, reaper age 5, longer than one TTL.
* Breaker: two fast and two slow threads, one permit, window of 3, threshold 2, recovery 2 ticks: the
  window wraps, and late answers of both kinds meet every state.
* Chunked job: three chunks of two batches, in the loop and on two threads, so that one task waits; two
  retries. `chunks_killed` needs two chunks and one retry.
* Warm cache: two schedulers, interval 2 ticks (a tick is half an hour: the real interval is 3600 s), cooldown
  2 (5 s less than the interval, rounded up), clocks at any distance within the interval (one of them at its end,
  as the model's time begins), restarts at any point, today's threshold and builds of at most 1 tick, the leader's
  lock 1 tick (120 s), the inflight marker less than one (300 s). One fault: each of the failures, deaths and
  delays by itself, at any point. `daily_closed` needs none. `DayGoesOn` asks that the night (07:30
  hours) outlasts the builds and spools of the day before, as the spool's TTL (10800 s) and the timeouts see to.
* Dataset: two threads, each in a process of its own, so that process caches differ; TTL of 2 ticks,
  so that a holder is late or in time; one poll; rows change twice; one fault. A third thread or a second
  poll adds waiters, which do nothing but look.
* Batch: two threads, three days in chunks of two, so that the last chunk is shorter; both in parallel; a cut
  leaves day 1 (`Cuts`); one job between its copy and its registration at a time, again and again (two at once
  would write and register the same days); one fault, and not within an overlap (`OneTrouble`, the
  run's state constraint: without it the run passes too, in more than twice the time). The threads are interchangeable (symmetry; no liveness is checked there).
* Sessions: one user (users meet only in `Shutdown`, which writes all), two rows, two gunicorn workers, batches of
  one row, so that a row waits for its turn; three writes per row; one fault. A login is not begun, or given up,
  where these bounds leave no room for it (`Spare`, `Room`).

### Fairness

* `job`: time passes (WF of `Tick`), and nothing else: a hash with a TTL expires whatever the
  route, RQ, the worker and the client do, as no HSET of theirs puts it off.
* `spool`: the cleanup thread of `_worker_loop` comes round for ever (WF on its start), and is not
  killed in every round at the same step (SF). Neither jobs nor time need go on.
* `breaker`: requests keep arriving, calls and waits end by their timeouts, time passes.
* `chunks`: RQ starts what is queued, `run()` and each thread take their next step. Kills may happen at any
  point; retries bound them.
* `warm`: each scheduler thread and the warmup worker take their next step (a killed gunicorn worker
  is replaced and begins anew), users' builds end, the spool's TTL runs out, time passes. Users need not ask.
* `dataset`: threads take their next step, what has a TTL that reading does not prolong expires (the linkage
  key, entries of the process caches), time passes, and somebody asks for the dataset again and again (SF,
  because a thread is free to ask only now and then).
* `sessions`: each gunicorn worker's sync thread goes round, and a login that has begun ends. Nobody need write or
  log in.
* `slots_own`: time passes (WF of `Tick`), and nobody need do anything else.
* `batch` and the violations check safety only.

Faults are bounded (`MaxFaults`), so what these properties say is: after the last failure the code
gets back by itself.

## 4. Theorems

All are proved by `tlapm` for every value of the constants allowed by the modules' ASSUMEs.
The theorems `TypeCorrect`, `DatasetTypeCorrect` and `WarmTypeCorrect` are type correctness of each module.
Every safety property of the passing runs, invariant or action property, is a theorem. Some theorems state
what no run checks on its own: `SemaphoreCorrect` (`AdmittedBounded`, which `ImplementsSemaphore` implies),
`KeyCorrect` (`KeyOutlivesMembers`, a part of the invariant), `NeverStuckCorrect` and `ProgressCorrect` (the
safety part of `JobEnds`), and the refinements `ImplementsLock`, `WarmImplementsLock` and `MutexCorrect`.

* `HeavyQuerySlots_proofs!RunnersCorrect`, `SemaphoreCorrect` and `KeyCorrect`, from `DistinctOwners`.
  `AdmittedBounded` says nothing of the sorted set, so it is not inductive. The invariant adds that a granted
  caller's member has a score that lies as far in the future as its age allows (`GrantedScore`), that the key's
  EXPIRE outlives every live member, and that live members are at most `MaxConcurrent`. A caller younger than
  `2 * Ttl` is then live, its owner is its own, and the bound follows by an injection. `SlotsExplained`, from
  the same, is inductive with the types alone. `RefinementCorrect`, from `DistinctOwners`: a grant found
  the script's count below the limit, and callers counted are no more than live members (`CountedBelowLive`),
  so it is a `Take`; every other step takes nobody in, so it is a `Lose`.
* `SpoolStore_proofs!SweepCorrect`, without assumptions beyond the guard of `Tick`; it speaks of the
  sweep after a scan that came to its end (section 3 says why). The invariant relates
  versions, the age of a file a job is registering (less than the grace period), what a cleaner took
  for old at its `now_ts`, and what it found referenced.
* `AsyncJob_proofs!LifecycleCorrect`, without assumptions: every step, also of a job that is retried, killed,
  abandoned, reaped or forgotten, maps to a step of `JobLifecycle` or a stutter. The invariant ties the phases of
  route, RQ and worker together (`PhaseInv`: a worker runs only while RQ has the job
  started, RQ has nothing before the push, and before the route nobody has read a hash).
* `CircuitBreaker_proofs!RecoveryCorrect` and `OpeningCorrect`, without assumptions: the window
  holds only results recorded since the breaker was last closed (`WindowIsFresh`), and the time since
  it opened is what `openAge` says (`Timed`).
* `ChunkedJob_proofs!ResultComplete` and `OnlyKillsCorrect`, without assumptions: what is fetched is in the
  temporary place (`Collected`), the fan-out is done only when each task is, and before the job opens that place
  nothing is there but what was left (`Unopened`). `ResultSingle`, without assumptions:
  until a reduction reuses a file (`chunks_killed` shows what happens then), an unfetched batch is not
  there yet. `NeverStuckCorrect` and `ProgressCorrect`, without assumptions, are the part of `JobEnds` that
  needs no fairness: a fan-out always has a task to start or to wait for, or goes on, and each step goes
  forward in the order of retries left, phase of the run, and progress of the tasks (`GoesForward`).
* `RedisLock_proofs!ExclusionCorrect`, of `RedisLock`, without assumptions: until somebody overruns, a
  thread inside has the key, with its lease on it (`HolderHasKey`). So an `Acquire` finds nobody inside, and
  `RedisLock` implements `Semaphore` with one slot (`MutexCorrect`). `ImplementsLock`: each step of
  `DatasetCache` is a step of `RedisLock` or a stutter of its variables, so that invariant holds there too.
  `ForwardCorrect` uses it: who is between the query and the registration is inside (`LockedInside`), alone,
  so what it has read is not older than what has been registered (`ReadLast`).
* `RedisLock_proofs!WarmImplementsLock`: so do the schedulers. `BeatCorrect`, from `WarmAssumption` (there is
  a scheduler; the cooldown and today's threshold are no longer than the interval), until the first fault, for
  clocks at any distance and any restarts: no tick passes while a scheduler is in its cycle, so nobody overruns and
  the key is gone when its holder is (`KeyIsHeld`); the cooldown is what the time since the last enqueue leaves of it
  (`CooldownTells`), and some scheduler sees to the next beat (`InTime`): it sleeps until then at the latest, is at
  it, or has just found the cooldown claimed (`SeesTo`, `JustClaimed`). A restart sleeps a whole interval, but
  the one who claims next is another, or the cooldown was not over: hence `Cooldown - 1 + Interval`.
  `FollowCorrect`, from that: the age of today's spool is explained by a build no longer than `MaxBuild`
  that found it fresh, by the beat, or by a job or build the beat has made (`AgeExplained`), which needs
  that the inflight marker belongs to a build that goes on (`MarkedByBuild`).
* `BatchQuery_proofs!LockCorrect` and `MutexCorrect`: a thread inside and in time is the lock's owner.
  `MergeCorrect`: the chunks of any range and grain begin after the one before ends, and what is merged lies
  before the next chunk, whatever other runs left. `StaysCorrect`: as long as nothing overlaps (an
  overlap ends with the next run that begins alone, `BeginsAlone`), whatever is
  lost, there is one run at most (`Single`), it registers in the absence of a spool (`NoSpoolYet`), which the
  second look under the lock sees to, and a job between its copy and its registration has written all days and no
  run works beside it (`JobAlone`). `FlagCorrect` needs besides that no record is lost: the
  hash says "partial" unless every chunk queried so far is in Redis, cut or not (`Accounted`), the merge, the mark
  and the flag carry over what the hash said (`Carried`), and a flag that expires before its spool is none that
  is needed (`FlagHeld`).
* `SessionSync_proofs!SyncCorrect` and `CleanupCorrect`, without assumptions: nobody holds an old version of
  a row that has not been raced since its last write (`Current`), and what is marked, about to be marked or
  deleted has been copied (`Seen`).

Only model-checked: everything under fairness (`LeaksEnd`, `OrphansCollected`, `DanglingRepaired`,
`StatusSettles`, `RecoversWhenFailuresStop`, `LockComesBack`, `JobEnds`, `DayCompletes`, `DatasetReturns`,
`LastWriteArrives`), because TLAPS has no backend here for ENABLED and fairness. Of `JobEnds` the safety part
is proved. No module uses a RECURSIVE operator and no proof needs induction over data.

## 5. Not modelled

The repository is mostly SQL, data frames and pages; the models cover the files that coordinate.

* Spool store: stage spools and their index, the shared `.tmp` of `store_spooled_df`, capacity,
  `update_spool_status`. Its inflight keys are in `WarmCache`.
* Jobs: the result and its TTL, the queue-depth and RQ health caches, the registry's
  feature flags. Database access: connection pools, keep-alive.
* Warm cache: the move-out twin, which has the same code for other keys, the kill switch, the other datasets'
  warmup jobs, the maps of the response.
* Dataset caches: the yield alert's path without streaming, the hold and resource datasets, views computed from
  a spool.
* Batch engine: decomposition by ids and by row count, `skip_cached` (the reject query clears
  first), its other users, rows that a cut takes from a day without taking all; the heavy-query slot around it is `HeavyQuerySlots`.
* Session sync: the same loop for logs and metrics, whose rows are never changed, the creation and migration
  of the MySQL tables.
* Cache updater and filter caches, anomaly scheduler, worker watchdog, rate limit, trace jobs: not
  reached; `PROJECT.json` has a note on each.
* The interactive memory guard decides by measured memory, which a model could only choose freely.
* SQL text, data frames, DuckDB runtimes, AI services, pages: data, I/O or external services.
* Request-local checks (permissions, CSRF) and counters that nothing decides upon.

## 6. Plan

Built, in this order: `HeavyQuerySlots`, `SpoolStore`, `AsyncJob` with `JobLifecycle`,
`CircuitBreaker`, `RedisLock`, `ChunkedJob`, `WarmCache`, `DatasetCache`, `BatchQuery`, `SessionSync`; last
`Semaphore` and the theorems about the two users of the lock. What could follow:

1. `CacheUpdater`: refresh under `RedisLock`, versioned publish, readers with a stale version.
2. `WorkerRecovery`: restart budget, cooldown and the watchdog's flag file; `RateLimit`.
3. `SpoolStore` extended: stage spools and index, `.tmp`, `update_spool_status`; an abstract
   store (result present or absent) that readers see, with the trace jobs as its users.
4. Theorems: what an abstract store (3) promises its readers; the safety part of `DayCompletes` and
   `DatasetReturns`, as for `JobEnds`.
