----------------------------- MODULE SpoolStore -----------------------------
(***************************************************************************)
(* core/query_spool_store.py for one (namespace, query_id): a parquet file *)
(* at the canonical path, a Redis metadata key that points to it, the jobs *)
(* that write both, the requests that read or clear them, and the cleanup  *)
(* that collects what expired.                                             *)
(*                                                                         *)
(* Grain of atomicity: every Redis call is a step, and so is a run of      *)
(* file-system calls with no Redis call in between. Between two steps of   *)
(* one process anything else may happen.                                   *)
(*                                                                         *)
(* A file is the version of the query it holds (query_started_at, 0 for no *)
(* file). Time is a Tick that ages what has an age.                        *)
(***************************************************************************)
EXTENDS Integers, FiniteSets

CONSTANTS Jobs,         \* RQ jobs that compute this query and register it
          CasJobs,      \* those that pass cas_field/cas_value
          InPlaceJobs,  \* those whose src_path is the canonical path itself
          Readers,      \* requests
          Cleaners,     \* cleanup_expired_spool runs, of several processes
          MaxQueries,   \* bound: queries started in a behaviour
          Ttl,          \* ttl_seconds, in ticks
          Grace         \* QUERY_SPOOL_ORPHAN_GRACE_SECONDS, in ticks

ASSUME SpoolAssumption ==
    /\ IsFiniteSet(Jobs)
    /\ CasJobs \in {{}, Jobs}      \* a namespace's jobs all compare, or none
    /\ InPlaceJobs \subseteq Jobs
    /\ Readers \cap Cleaners = {}
    /\ MaxQueries \in Nat
    /\ Ttl \in Nat \ {0}
    /\ Grace \in Nat \ {0}

VARIABLES
    started,   \* queries started so far; the next one's version is one more
    version,   \* a job's query_started_at
    jpc,       \* where a job is
    jobAge,    \* ticks since a job wrote its parquet
    file,      \* the version in the canonical file
    fileAge,   \* its age since mtime, up to Grace
    ptr,       \* the version the metadata key points to
    life,      \* ticks until Redis drops the key; 1: expires_at has passed
    pc,        \* where a reader or a cleaner is
    saw,       \* the version in the metadata a reader read
    wasOld,    \* per cleaner: at its now_ts, today's file was Grace old
    wasExpired,\* per cleaner: at its now_ts, today's key had passed expires_at
    kept,      \* the cleaners with the file in referenced_paths
    best       \* ghost: newest version registered since the key last vanished

jobVars == <<started, version, jpc, jobAge>>
fileVars == <<file, fileAge, wasOld>>
ptrVars == <<ptr, life, wasExpired, best>>
procVars == <<pc, saw, kept>>
vars == <<jobVars, fileVars, ptrVars, procVars>>

JobPc == {"idle", "querying", "written", "checked", "moved", "done"}
ReaderPc == {"idle", "got", "path", "clear", "unlink", "delete"}
CleanerPc == {"idle", "scan", "stale", "got", "delete", "sweep", "partial"}

TypeOK ==
    /\ started \in Nat
    /\ version \in [Jobs -> Nat]
    /\ jpc \in [Jobs -> JobPc]
    /\ jobAge \in [Jobs -> 0 .. Grace]
    /\ file \in Nat
    /\ fileAge \in 0 .. Grace
    /\ ptr \in Nat
    /\ life \in 0 .. Ttl + 1
    /\ pc \in [Readers \cup Cleaners -> ReaderPc \cup CleanerPc]
    /\ saw \in [Readers -> Nat]
    /\ wasOld \in [Cleaners -> BOOLEAN]
    /\ wasExpired \in [Cleaners -> BOOLEAN]
    /\ kept \subseteq Cleaners
    /\ best \in Nat

Init ==
    /\ started = 0
    /\ version = [j \in Jobs |-> 0]
    /\ jpc = [j \in Jobs |-> "idle"]
    /\ jobAge = [j \in Jobs |-> 0]
    /\ file = 0 /\ fileAge = 0
    /\ ptr = 0 /\ life = 0 /\ best = 0
    /\ pc = [p \in Readers \cup Cleaners |-> "idle"]
    /\ saw = [r \in Readers |-> 0]
    /\ wasOld = [c \in Cleaners |-> FALSE]
    /\ wasExpired = [c \in Cleaners |-> FALSE]
    /\ kept = {}
-----------------------------------------------------------------------------
(***************************************************************************)
(* The file and the key.                                                   *)
(***************************************************************************)
\* A new file at the canonical path, with the mtime it was written at: it is
\* younger than Grace at any now_ts a cleaner has taken.
PutFile(v, age) ==
    /\ file' = v
    /\ fileAge' = age
    /\ wasOld' = [c \in Cleaners |-> FALSE]

RemoveFile == PutFile(0, 0)

\* Mutant: the SETEX has a longer TTL than the expires_at it stores.
SetPtrLonger(v) ==
    /\ ptr' = v
    /\ life' = Ttl + 2
    /\ wasExpired' = [c \in Cleaners |-> FALSE]
    /\ best' = IF best < v THEN v ELSE best

\* SETEX of the metadata. expires_at, cut to a second and taken before the
\* SETEX, passes a little before Redis drops the key.
SetPtr(v) ==
    /\ ptr' = v
    /\ life' = Ttl + 1
    /\ wasExpired' = [c \in Cleaners |-> FALSE]
    /\ best' = IF best < v THEN v ELSE best

\* The key is deleted, or runs out.
DropPtr ==
    /\ ptr' = 0 /\ life' = 0 /\ best' = 0
    /\ wasExpired' = [c \in Cleaners |-> FALSE]

Expired == life = 1

\* All processes but p stay where they are.
Goto(p, to) == pc' = [pc EXCEPT ![p] = to]
JobGoto(j, to) == jpc' = [jpc EXCEPT ![j] = to]
-----------------------------------------------------------------------------
(***************************************************************************)
(* Jobs: pre_query, the fetch and post_aggregate, then register_spool_file *)
(* in three steps: the CAS read, the move, the SETEX.                      *)
(***************************************************************************)
StartQuery(j) ==
    /\ jpc[j] \in {"idle", "done"}
    /\ started < MaxQueries
    /\ started' = started + 1
    /\ version' = [version EXCEPT ![j] = started + 1]
    /\ JobGoto(j, "querying")
    /\ UNCHANGED <<jobAge, fileVars, ptrVars, procVars>>

\* post_aggregate writes the parquet: to a path of the job's own, or, for the
\* production-achievement jobs, straight to the canonical one (COPY TO replaces
\* the file as a whole).
Write(j) ==
    /\ jpc[j] = "querying"
    /\ jobAge' = [jobAge EXCEPT ![j] = 0]
    /\ JobGoto(j, "written")
    /\ IF j \in InPlaceJobs THEN PutFile(version[j], 0) ELSE UNCHANGED fileVars
    /\ UNCHANGED <<started, version, ptrVars, procVars>>

StaleWrite(j) == j \in CasJobs /\ ptr > version[j]

\* The CAS read finds nothing newer (or there is no CAS).
Check(j) ==
    /\ jpc[j] = "written"
    /\ ~StaleWrite(j)
    /\ JobGoto(j, "checked")
    /\ UNCHANGED <<started, version, jobAge, fileVars, ptrVars, procVars>>

\* The CAS read finds a newer version: register_spool_file returns False.
Skip(j) ==
    /\ jpc[j] = "written"
    /\ StaleWrite(j)
    /\ JobGoto(j, "done")
    /\ UNCHANGED <<started, version, jobAge, fileVars, ptrVars, procVars>>

\* _move_into_place keeps the mtime of the source. In place it does nothing,
\* or, if a cleaner or reader has removed the file meanwhile, raises.
Move(j) ==
    /\ jpc[j] = "checked"
    /\ IF j \in InPlaceJobs
       THEN /\ UNCHANGED fileVars
            /\ JobGoto(j, IF file = 0 THEN "done" ELSE "moved")
       ELSE PutFile(version[j], jobAge[j]) /\ JobGoto(j, "moved")
    /\ UNCHANGED <<started, version, jobAge, ptrVars, procVars>>

Register(j) ==
    /\ jpc[j] = "moved"
    /\ SetPtr(version[j])
    /\ JobGoto(j, "done")
    /\ UNCHANGED <<started, version, jobAge, fileVars, procVars>>

\* The job raises, is killed, or finds Redis away: what it wrote stays.
JobStops(j) ==
    /\ jpc[j] \notin {"idle", "done"}
    /\ JobGoto(j, "done")
    /\ UNCHANGED <<started, version, jobAge, fileVars, ptrVars, procVars>>

JobStep(j) == Write(j) \/ Check(j) \/ Skip(j) \/ Move(j) \/ Register(j) \/ JobStops(j)
-----------------------------------------------------------------------------
(***************************************************************************)
(* Requests: get_spool_file_path or load_spooled_df, and the read of the   *)
(* file they lead to; clear_spooled_df.                                    *)
(***************************************************************************)
ReadMetadata(r) ==
    /\ pc[r] = "idle" /\ ptr # 0
    /\ saw' = [saw EXCEPT ![r] = ptr]
    /\ Goto(r, IF Expired THEN "clear" ELSE "got")
    /\ UNCHANGED <<jobVars, fileVars, ptrVars, kept>>

\* A dangling pointer is deleted, without a look at the metadata.
ResolvePath(r) ==
    /\ pc[r] = "got"
    /\ Goto(r, IF file = 0 THEN "delete" ELSE "path")
    /\ UNCHANGED <<jobVars, fileVars, ptrVars, saw, kept>>

\* The columns of another version's file may or may not hash to what the
\* metadata says; load_spooled_df clears a mismatch, and an unreadable file.
OpenFile(r) ==
    /\ pc[r] = "path"
    /\ \/ file # 0 /\ Goto(r, "idle")
       \/ file # saw[r] /\ Goto(r, "clear")
       \/ file = 0 /\ Goto(r, "idle")     \* a caller of get_spool_file_path
    /\ UNCHANGED <<jobVars, fileVars, ptrVars, saw, kept>>

\* force_refresh=true calls clear_spooled_df before it enqueues.
ForceRefresh(r) ==
    /\ pc[r] = "idle"
    /\ Goto(r, "clear")
    /\ UNCHANGED <<jobVars, fileVars, ptrVars, saw, kept>>

\* clear_spooled_df reads the metadata again: no metadata, no unlink.
ClearReads(r) ==
    /\ pc[r] = "clear"
    /\ Goto(r, IF ptr = 0 THEN "delete" ELSE "unlink")
    /\ UNCHANGED <<jobVars, fileVars, ptrVars, saw, kept>>

ClearUnlinks(r) ==
    /\ pc[r] = "unlink"
    /\ RemoveFile
    /\ Goto(r, "delete")
    /\ UNCHANGED <<jobVars, ptrVars, saw, kept>>

ClearDeletes(r) ==
    /\ pc[r] = "delete"
    /\ DropPtr
    /\ Goto(r, "idle")
    /\ UNCHANGED <<jobVars, fileVars, saw, kept>>

ReaderStep(r) ==
    \/ ReadMetadata(r) \/ ResolvePath(r) \/ OpenFile(r) \/ ForceRefresh(r)
    \/ ClearReads(r) \/ ClearUnlinks(r) \/ ClearDeletes(r)
-----------------------------------------------------------------------------
(***************************************************************************)
(* cleanup_expired_spool: take now_ts, scan the keys, sweep the files.     *)
(***************************************************************************)
TakeNow(c) ==
    /\ pc[c] = "idle"
    /\ wasOld' = [wasOld EXCEPT ![c] = file # 0 /\ fileAge >= Grace]
    /\ wasExpired' = [wasExpired EXCEPT ![c] = ptr # 0 /\ Expired]
    /\ kept' = kept \ {c}
    /\ Goto(c, "scan")
    /\ UNCHANGED <<jobVars, file, fileAge, ptr, life, best, saw>>

ScanKeys(c) ==
    /\ pc[c] = "scan"
    /\ Goto(c, IF ptr = 0 THEN "sweep" ELSE IF wasExpired[c] THEN "stale" ELSE "got")
    /\ UNCHANGED <<jobVars, fileVars, ptrVars, saw, kept>>

\* No client, or a Redis error, which is logged: the sweep goes on with the
\* referenced paths found so far.
ScanFails(c) ==
    /\ pc[c] \in {"scan", "delete"}
    /\ Goto(c, "partial")
    /\ UNCHANGED <<jobVars, fileVars, ptrVars, saw, kept>>

\* Mutant: a missing file is not looked for.
JudgeExpiredOnly(c) ==
    /\ \/ pc[c] = "stale" /\ RemoveFile /\ Goto(c, "delete") /\ UNCHANGED kept
       \/ pc[c] = "got" /\ UNCHANGED fileVars /\ Goto(c, "sweep") /\ kept' = kept \cup {c}
    /\ UNCHANGED <<jobVars, ptrVars, saw>>

\* `expired or missing`: unlink what is there, then delete the key; otherwise
\* the path is referenced.
Judge(c) ==
    /\ \/ /\ (pc[c] = "stale" \/ (pc[c] = "got" /\ file = 0))
          /\ RemoveFile /\ Goto(c, "delete") /\ UNCHANGED kept
       \/ /\ pc[c] = "got" /\ file # 0
          /\ UNCHANGED fileVars /\ Goto(c, "sweep") /\ kept' = kept \cup {c}
    /\ UNCHANGED <<jobVars, ptrVars, saw>>

DeleteKey(c) ==
    /\ pc[c] = "delete"
    /\ DropPtr
    /\ Goto(c, "sweep")
    /\ UNCHANGED <<jobVars, fileVars, saw, kept>>

\* Mutant: the orphan sweep has no grace period.
SweepNoGrace(c) ==
    /\ pc[c] \in {"sweep", "partial"}
    /\ IF c \notin kept /\ file # 0 THEN RemoveFile ELSE UNCHANGED fileVars
    /\ Goto(c, "idle")
    /\ UNCHANGED <<jobVars, ptrVars, saw, kept>>

\* Mutant: every file found is taken for a referenced one.
SweepNothing(c) ==
    /\ pc[c] \in {"sweep", "partial"}
    /\ Goto(c, "idle")
    /\ UNCHANGED <<jobVars, fileVars, ptrVars, saw, kept>>

\* The files, after a scan of all the keys or of those before the failure.
Sweep(c) ==
    /\ pc[c] \in {"sweep", "partial"}
    /\ IF c \notin kept /\ wasOld[c] THEN RemoveFile ELSE UNCHANGED fileVars
    /\ Goto(c, "idle")
    /\ UNCHANGED <<jobVars, ptrVars, saw, kept>>

\* The process that runs the cleanup thread dies.
CleanerStops(c) ==
    /\ pc[c] # "idle"
    /\ Goto(c, "idle")
    /\ UNCHANGED <<jobVars, fileVars, ptrVars, saw, kept>>

CleanerStep(c) ==
    TakeNow(c) \/ ScanKeys(c) \/ ScanFails(c) \/ Judge(c) \/ DeleteKey(c) \/ Sweep(c)
-----------------------------------------------------------------------------
\* The assumption behind the grace period: from the write of its parquet a job
\* takes less than Grace to register it.
InRegister(j) == jpc[j] \in {"written", "checked", "moved"}
RegisterTakesLessThanGrace == \A j \in Jobs : InRegister(j) => jobAge[j] < Grace - 1

Older(age) == IF age < Grace THEN age + 1 ELSE age

Tick ==
    /\ RegisterTakesLessThanGrace
    /\ jobAge' = [j \in Jobs |-> IF InRegister(j) THEN jobAge[j] + 1 ELSE jobAge[j]]
    /\ fileAge' = IF file = 0 THEN 0 ELSE Older(fileAge)
    /\ IF life <= 1 THEN DropPtr ELSE life' = life - 1 /\ UNCHANGED <<ptr, wasExpired, best>>
    /\ UNCHANGED <<started, version, jpc, file, wasOld, procVars>>

Next ==
    \/ \E j \in Jobs : StartQuery(j) \/ JobStep(j)
    \/ \E r \in Readers : ReaderStep(r)
    \/ \E c \in Cleaners : CleanerStep(c) \/ CleanerStops(c)
    \/ Tick

Spec == Init /\ [][Next]_vars

\* The cleanup thread keeps coming round, and is not killed in every round.
CleanupRuns == \A c \in Cleaners :
    /\ WF_vars(TakeNow(c))
    /\ SF_vars(ScanKeys(c)) /\ SF_vars(Judge(c))
    /\ SF_vars(DeleteKey(c)) /\ SF_vars(Sweep(c))

SpecCleanup == Spec /\ CleanupRuns
-----------------------------------------------------------------------------
\* The orphan sweep spares the file a live pointer names and the file a job has
\* moved into place and is about to register, if its scan of the keys came to an
\* end. This is what QUERY_SPOOL_ORPHAN_GRACE_SECONDS is for: the sweep looks at
\* the keys and at the files at different times.
SweepSparesRegistered ==
    [][\A c \in Cleaners : Sweep(c) /\ pc[c] = "sweep" /\ file' # file =>
          /\ file # ptr
          /\ \A j \in Jobs : InRegister(j) => version[j] # file]_vars

\* A parquet no key points to and no job is about to register is deleted once it
\* is Grace old: killed jobs, expired keys and lost races do not fill the disk.
OldOrphan == file # 0 /\ fileAge = Grace /\ ptr = 0 /\ \A j \in Jobs : ~InRegister(j)
OrphansCollected == OldOrphan ~> ~OldOrphan

\* A pointer whose file is gone does not stay until its TTL: the cleanup's
\* `missing` branch deletes it if no request does.
Dangling == ptr # 0 /\ file = 0
DanglingRepaired == Dangling ~> ~Dangling

\* register_spool_file's docstring on the CAS: the job whose query started
\* later "must win the write regardless of which one happens to CALL this
\* function last".
NewestQueryWins == ptr # 0 => best <= ptr
=============================================================================
