------------------------------ MODULE WarmCache ------------------------------
(***************************************************************************)
(* core/spool_warmup_scheduler.py and the cache it keeps warm that is      *)
(* hardest to keep so, services/production_achievement_daily_cache.py, for *)
(* the spool of one day D: today at first, yesterday after midnight, its   *)
(* last shift still running until the next morning. The election of the    *)
(* scheduler is RedisLock, whose steps are part of the steps here.         *)
(***************************************************************************)
EXTENDS RedisLock, Faults

CONSTANTS Interval,    \* WARMUP_INTERVAL_SECONDS, in ticks
          Cooldown,    \* WARMUP_ENQUEUE_COOLDOWN_SECONDS, rounded up to ticks
          Threshold,   \* _today_stale_threshold_seconds(), in ticks
          MaxBuild     \* ticks a build takes, unless something goes wrong

ASSUME WarmAssumption ==
    /\ Procs # {}
    /\ {Interval, Cooldown, Threshold} \subseteq Nat \ {0}
    /\ Cooldown <= Interval /\ Threshold <= Interval
    /\ MaxBuild \in Nat

VARIABLES sched,     \* where the scheduler thread of each gunicorn worker is
          timer,     \* until it wakes
          cooldown,  \* what is left of the key warmup:last_enqueued_at
          queue,     \* the kinds of achievement job in the warmup queue
          phase,     \* of the day: D is today, D was yesterday with its last
                     \* shift running and its rows arriving, D is over
          daySpool,  \* the registered spool of D
          inflight,  \* the inflight key of D, which does not last a tick
          warm,      \* the warmup job that looks after D
          user,      \* a job that a user's request started for D
          sinceEnqueue  \* ghost: ticks since jobs were enqueued last, as
                     \* long as there is no fault

wvars == <<sched, timer, cooldown, queue, phase, daySpool, inflight, warm, user,
           faults, sinceEnqueue>>

\* The longest that jobs are not enqueued: a worker that starts just before the
\* cooldown ends finds it taken and sleeps for a whole Interval.
Beat == Cooldown - 1 + Interval

\* No build of a spool is older than this: how long the day's rows may take to
\* be seen, see TodayFollows.
MaxAge == Threshold - 1 + Beat + 2 * MaxBuild

Ages == 0 .. MaxAge + 1

Phases == {"today", "night", "over"}

\* The day's rows as they were queried: how long ago, and in which phase. Only
\* when D is over are all of them there.
Data == [age : Ages, of : Phases]

NoData == [age |-> 0, of |-> "today"]

\* since: ticks since created_at, as far as the code tells them apart.
NoSpool == [there |-> FALSE, since |-> 0, data |-> NoData]

WarmTyped ==
    /\ sched \in [Procs -> {"wait", "claim", "enqueue", "release"}]
    /\ timer \in [Procs -> 0 .. Interval]
    /\ cooldown \in 0 .. Cooldown
    /\ queue \subseteq {"today", "yesterday"}
    /\ phase \in Phases
    /\ daySpool \in [there : BOOLEAN, since : 0 .. Interval, data : Data]
    /\ inflight \in BOOLEAN
    /\ warm \in [at : {"idle", "check", "guard", "start", "write"},
                 isToday : BOOLEAN, data : Data]
    /\ user \in [at : {"idle", "write"}, data : Data]
    /\ faults \in 0 .. MaxFaults
    /\ sinceEnqueue \in 0 .. Beat + 1

WarmTypeOK == TypeOK /\ WarmTyped

Idle == [at |-> "idle", isToday |-> FALSE, data |-> NoData]

\* A worker that starts runs a cycle at once, and has its own clock from then on:
\* one is about to, the others start later or have started before it.
WarmInit ==
    /\ Init
    /\ sched = [p \in Procs |-> "wait"]
    /\ timer \in [Procs -> 0 .. Interval] /\ \E p \in Procs : timer[p] = 0
    /\ cooldown = 0 /\ queue = {} /\ phase = "today"
    /\ daySpool = NoSpool /\ inflight = FALSE
    /\ warm = Idle /\ user = [at |-> "idle", data |-> NoData]
    /\ faults = 0 /\ sinceEnqueue = Interval
-----------------------------------------------------------------------------
Move(p, from, to) == sched[p] = from /\ sched' = [sched EXCEPT ![p] = to]

\* The end of a cycle: _STOP_EVENT.wait(WARMUP_INTERVAL_SECONDS).
Sleep(p, from) ==
    /\ Move(p, from, "wait")
    /\ timer' = [timer EXCEPT ![p] = Interval]

day == <<phase, daySpool, inflight, warm, user>>

\* The wait is over: run_warmup_cycle.
Elected(p) ==
    /\ timer[p] = 0 /\ Move(p, "wait", "claim")
    /\ Acquire(p)
    /\ UNCHANGED <<timer, cooldown, queue, day, faults, sinceEnqueue>>

\* The lock is held, or LockUnavailableError.
NotElected(p) ==
    /\ timer[p] = 0 /\ Sleep(p, "wait")
    /\ \/ key # None /\ UNCHANGED <<vars, faults>>
       \/ UNCHANGED vars /\ Fault
       \/ AcquireFails(p) /\ Fault
    /\ UNCHANGED <<cooldown, queue, day, sinceEnqueue>>

\* Mutant: the cooldown is read and set, but not NX.
ClaimAnyway(p) ==
    /\ Move(p, "claim", "enqueue")
    /\ cooldown' = Cooldown
    /\ UNCHANGED <<vars, timer, queue, day, faults, sinceEnqueue>>

\* Mutant: the margin is added to the interval, not subtracted.
ClaimLonger(p) ==
    /\ cooldown = 0 /\ cooldown' = Cooldown + 1
    /\ Move(p, "claim", "enqueue")
    /\ UNCHANGED <<vars, timer, queue, day, faults, sinceEnqueue>>

\* _claim_enqueue_cooldown: SET NX EX, and open when Redis is away.
Claim(p) ==
    /\ \/ /\ cooldown = 0 /\ cooldown' = Cooldown
          /\ Move(p, "claim", "enqueue") /\ UNCHANGED faults
       \/ /\ cooldown > 0 /\ UNCHANGED cooldown
          /\ Move(p, "claim", "release") /\ UNCHANGED faults
       \/ Move(p, "claim", "enqueue") /\ UNCHANGED cooldown /\ Fault
    /\ UNCHANGED <<vars, timer, queue, day, sinceEnqueue>>

\* _enqueue_warmup_jobs: any of the jobs may not get into the queue. Jobs of one
\* kind that wait together are one: the second finds what the first has done.
Enqueue(p) ==
    /\ Move(p, "enqueue", "release")
    /\ \/ queue' = {"today", "yesterday"} /\ UNCHANGED faults
       \/ (\E ks \in {{}, {"today"}, {"yesterday"}} : queue' = queue \cup ks) /\ Fault
    /\ sinceEnqueue' = 0
    /\ UNCHANGED <<vars, timer, cooldown, day>>

\* The finally.
EndCycle(p) ==
    /\ Sleep(p, "release")
    /\ \/ Release(p) /\ UNCHANGED faults
       \/ LeaveHeld({p}) /\ Fault
    /\ UNCHANGED <<cooldown, queue, day, sinceEnqueue>>

\* gunicorn replaces a worker after max_requests, and the new one runs
\* init_warmup_scheduler: nothing has gone wrong. It takes a worker a tick at least
\* to serve so many.
Restart(p) ==
    /\ sched[p] = "wait" /\ timer[p] \in 1 .. Interval - 1
    /\ timer' = [timer EXCEPT ![p] = 0]
    /\ UNCHANGED <<vars, sched, cooldown, queue, day, faults, sinceEnqueue>>

\* A gunicorn worker is killed in the middle of its cycle, and replaced.
WorkerDies(p) ==
    /\ sched[p] # "wait" /\ Fault
    /\ sched' = [sched EXCEPT ![p] = "wait"]
    /\ timer' = [timer EXCEPT ![p] = 0]
    /\ LeaveHeld({p})
    /\ UNCHANGED <<cooldown, queue, day, sinceEnqueue>>
-----------------------------------------------------------------------------
schedule == <<vars, sched, timer, cooldown, sinceEnqueue>>

\* A day D that is not the job's day is none of this module's.
Concerns(kind) == IF kind = "today" THEN phase = "today" ELSE phase # "today"

\* The warmup worker takes a job: ensure_today_loaded, ensure_yesterday_loaded.
Dequeue ==
    /\ warm.at = "idle"
    /\ \E kind \in queue :
        /\ queue' = queue \ {kind}
        /\ warm' = IF Concerns(kind)
                   THEN [Idle EXCEPT !.at = "check", !.isToday = (kind = "today")]
                   ELSE Idle
    /\ UNCHANGED <<schedule, phase, daySpool, inflight, user, faults>>

\* Mutant: the raw interval, without the margin.
StaleLate == daySpool.since >= Interval

\* _is_today_spool_stale.
Stale == daySpool.since >= Threshold

\* _ensure_day_loaded: yesterday's spool is fresh because it exists.
Fresh == daySpool.there /\ ~(warm.isToday /\ Stale)

Check ==
    /\ warm.at = "check"
    /\ warm' = IF Fresh THEN Idle ELSE [Idle EXCEPT !.at = "guard"]
    /\ UNCHANGED <<schedule, queue, phase, daySpool, inflight, user, faults>>

\* get_inflight_state: a job for D runs already.
Guard ==
    /\ warm.at = "guard"
    /\ warm' = IF inflight THEN Idle ELSE [warm EXCEPT !.at = "start"]
    /\ UNCHANGED <<schedule, queue, phase, daySpool, inflight, user, faults>>

Snapshot == [age |-> 0, of |-> phase]

\* ProductionAchievementJob.pre_query, and the chunks with the closing one.
StartBuild ==
    /\ warm.at = "start"
    /\ inflight' = TRUE
    /\ warm' = [warm EXCEPT !.at = "write", !.data = Snapshot]
    /\ UNCHANGED <<schedule, queue, phase, daySpool, user, faults>>

\* register_spool_file with cas_field: the later query wins (SpoolStore). Ages
\* are in ticks, so of two queries in one tick either may be the later.
Registers(d) ==
    \/ /\ daySpool.there => daySpool.data.age >= d.age
       /\ daySpool' = [there |-> TRUE, since |-> 0, data |-> d]
    \/ /\ daySpool.there /\ daySpool.data.age <= d.age
       /\ UNCHANGED daySpool

\* post_aggregate; clear_inflight_state, whoever has set the key.
EndBuild ==
    /\ warm.at = "write"
    /\ Registers(warm.data)
    /\ inflight' = FALSE
    /\ warm' = Idle
    /\ UNCHANGED <<schedule, queue, phase, user, faults>>

\* The build fails, or the worker is killed; nothing tries it again.
BuildFails ==
    /\ warm.at # "idle"
    /\ warm' = Idle
    /\ Fault
    /\ UNCHANGED <<schedule, queue, phase, daySpool, inflight, user>>

\* A request misses the spool or forces a refresh (routes/production_achievement_routes.py).
UserStarts ==
    /\ user.at = "idle"
    /\ user' = [at |-> "write", data |-> Snapshot]
    /\ inflight' = TRUE
    /\ UNCHANGED <<schedule, queue, phase, daySpool, warm, faults>>

UserEnds ==
    /\ user.at = "write"
    /\ Registers(user.data)
    /\ inflight' = FALSE
    /\ user' = [at |-> "idle", data |-> NoData]
    /\ UNCHANGED <<schedule, queue, phase, warm, faults>>

UserFails ==
    /\ user.at = "write" /\ Fault
    /\ user' = [at |-> "idle", data |-> NoData]
    /\ UNCHANGED <<schedule, queue, phase, daySpool, inflight, warm>>
-----------------------------------------------------------------------------
\* Midnight, and the end of the last shift at 07:30: the night is longer than
\* any build and the spool's TTL, and what was queried before it is gone.
DayGoesOn ==
    \/ phase = "today" /\ phase' = "night"
    \/ /\ phase = "night" /\ phase' = "over"
       /\ \A d \in {daySpool.data, warm.data, user.data} : d = NoData \/ d.of = "night"

\* The spool of D expires, is cleared or cleaned up.
DaySpoolGone ==
    /\ daySpool.there /\ daySpool' = NoSpool
    /\ UNCHANGED <<schedule, queue, phase, inflight, warm, user, faults>>

Older(d) == IF d.age > MaxAge THEN d ELSE [d EXCEPT !.age = @ + 1]

Later(job) == IF job.at = "write" THEN [job EXCEPT !.data = Older(@)] ELSE job

\* Everybody who could take a step at once has taken it, and builds take no
\* longer than MaxBuild.
Prompt ==
    /\ \A p \in Procs : sched[p] = "wait" /\ timer[p] > 0
    /\ queue = {}
    /\ warm.at \in {"idle", "write"}
    /\ \A job \in {warm, user} : job.at = "write" => job.data.age < MaxBuild

Less(n) == IF n > 0 THEN n - 1 ELSE 0

\* Mutant: the key is set without a TTL.
InflightStays == UNCHANGED inflight

\* SETEX with 300 seconds.
InflightExpires == inflight' = FALSE

TimePasses ==
    /\ Tick
    /\ \/ Prompt /\ UNCHANGED faults
       \/ ~Prompt /\ Fault
    /\ timer' = [p \in Procs |-> Less(timer[p])]
    /\ cooldown' = Less(cooldown)
    /\ sinceEnqueue' = IF faults' = 0 /\ sinceEnqueue <= Beat THEN sinceEnqueue + 1 ELSE 0
    /\ daySpool' = IF daySpool.there
                THEN [daySpool EXCEPT !.since = IF @ < Interval THEN @ + 1 ELSE @,
                                   !.data = Older(@)]
                ELSE daySpool
    /\ InflightExpires
    /\ warm' = Later(warm) /\ user' = Later(user)
    /\ UNCHANGED phase \/ DayGoesOn
    /\ UNCHANGED <<sched, queue>>

CycleStep(p) ==
    Elected(p) \/ NotElected(p) \/ Claim(p) \/ Enqueue(p) \/ EndCycle(p)

WarmStep == Dequeue \/ Check \/ Guard \/ StartBuild \/ EndBuild \/ BuildFails

WarmNext ==
    \/ \E p \in Procs : CycleStep(p) \/ Restart(p) \/ WorkerDies(p)
    \/ WarmStep
    \/ UserStarts \/ UserEnds \/ UserFails
    \/ DaySpoolGone \/ TimePasses

WarmSpec == WarmInit /\ [][WarmNext]_<<vars, wvars>>

\* Threads and workers run, builds end, time passes and a spool expires.
FairWarmSpec ==
    /\ WarmSpec
    /\ \A p \in Procs : WF_<<vars, wvars>>(CycleStep(p))
    /\ WF_<<vars, wvars>>(WarmStep) /\ WF_<<vars, wvars>>(UserEnds)
    /\ WF_<<vars, wvars>>(DaySpoolGone) /\ WF_<<vars, wvars>>(TimePasses)
-----------------------------------------------------------------------------
\* Any number of schedulers, each with a clock of its own that starts anew when
\* its worker does, make one beat: jobs are enqueued no sooner than Cooldown after
\* the last time, and no later than Beat, unless something goes wrong.
OneBeat ==
    [][faults' = 0 => /\ (\E p \in Procs : Enqueue(p)) => sinceEnqueue >= Cooldown
                      /\ sinceEnqueue' <= Beat]_<<vars, wvars>>

\* What the page of today shows is never older than the beat explains: stale
\* just too late to be seen, one beat, and two builds (the one that made the
\* spool and the one that replaces it).
TodayFollows ==
    faults = 0 /\ phase = "today" /\ daySpool.there => daySpool.data.age <= MaxAge

\* When D is over, all of its rows are in the spool sooner or later: the spool
\* that was built too early expires, and one of the next cycles builds it again,
\* whatever failed or died before.
DayCompletes == phase = "over" ~> daySpool.there /\ daySpool.data.of = "over"

\* production_achievement_daily_cache's docstring: "a closed day never needs a
\* rebuild once cached". The warmup job takes a cached spool of a day that is
\* over for good only if all the day's rows are in it.
CachedMeansComplete ==
    [][Check /\ Fresh /\ phase = "over" => daySpool.data.of = "over"]_<<vars, wvars>>
=============================================================================
