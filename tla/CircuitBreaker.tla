--------------------------- MODULE CircuitBreaker ---------------------------
(***************************************************************************)
(* core/circuit_breaker.py and the two functions of core/database.py that  *)
(* ask it: read_sql_df and read_sql_df_slow. One breaker per process,      *)
(* shared by its threads; allow_request and record_* hold its lock, and a  *)
(* query runs between them without it.                                     *)
(*                                                                         *)
(* A request that is refused raises DatabaseCircuitOpenError and leaves no *)
(* trace, so it has no action.                                             *)
(***************************************************************************)
EXTENDS Integers, FiniteSets, Sequences

CONSTANTS Fast,             \* threads in read_sql_df
          Slow,             \* threads in read_sql_df_slow
          SlowLimit,        \* DB_SLOW_MAX_CONCURRENT
          FailureThreshold, \* CIRCUIT_BREAKER_FAILURE_THRESHOLD
          RatePercent,      \* CIRCUIT_BREAKER_FAILURE_RATE, as a percentage
          WindowSize,       \* CIRCUIT_BREAKER_WINDOW_SIZE
          Recovery          \* CIRCUIT_BREAKER_RECOVERY_TIMEOUT, in ticks

ASSUME BreakerAssumption ==
    /\ IsFiniteSet(Fast) /\ IsFiniteSet(Slow) /\ Fast \cap Slow = {}
    /\ SlowLimit \in Nat \ {0}
    /\ FailureThreshold \in Nat \ {0}
    /\ RatePercent \in 0 .. 100
    /\ WindowSize \in Nat \ {0}
    /\ Recovery \in Nat

Requests == Fast \cup Slow

VARIABLES state,    \* _state
          results,  \* _results: TRUE for a success
          openAge,  \* ticks since _open_time, up to Recovery
          pc,       \* where a request is
          quiet,    \* ghost: ticks since the breaker last opened, up to Recovery
          fresh     \* ghost: failures recorded since it was last closed anew

breaker == <<state, results, openAge>>
ghosts == <<quiet, fresh>>
vars == <<breaker, pc, ghosts>>

TypeOK ==
    /\ state \in {"CLOSED", "OPEN", "HALF_OPEN"}
    /\ results \in Seq(BOOLEAN) /\ Len(results) <= WindowSize
    /\ openAge \in 0 .. Recovery
    /\ pc \in [Requests -> {"idle", "waiting", "running"}]
    /\ quiet \in 0 .. Recovery
    /\ fresh \in 0 .. FailureThreshold

Init ==
    /\ state = "CLOSED"
    /\ results = <<>>
    /\ openAge = 0
    /\ pc = [r \in Requests |-> "idle"]
    /\ quiet = Recovery
    /\ fresh = 0
-----------------------------------------------------------------------------
\* Mutant: the deque has no maxlen.
PushUnbounded(ok) == Append(results, ok)

\* append to the deque, whose maxlen drops the oldest result.
Push(ok) == Append(IF Len(results) = WindowSize THEN Tail(results) ELSE results, ok)

Failures(w) == Cardinality({i \in DOMAIN w : ~w[i]})

\* _check_and_open_locked.
ShouldOpen(w) ==
    /\ Len(w) >= FailureThreshold
    /\ Failures(w) >= FailureThreshold
    /\ Failures(w) * 100 >= RatePercent * Len(w)

\* _transition_to_locked(OPEN) and _transition_to_locked(CLOSED). Only the
\* latter clears the window.
Open ==
    /\ state' = "OPEN"
    /\ openAge' = 0
    /\ quiet' = 0

\* Mutant: the window is not cleared.
CloseKeepsResults(w) ==
    /\ state' = "CLOSED"
    /\ results' = w
    /\ openAge' = 0
    /\ fresh' = 0
    /\ UNCHANGED quiet

Close(w) ==
    /\ state' = "CLOSED"
    /\ results' = <<>>
    /\ openAge' = 0
    /\ fresh' = 0
    /\ UNCHANGED quiet

\* Mutant: a success closes the breaker whatever its state.
RecordSuccessAlwaysCloses ==
    IF state # "CLOSED" THEN Close(Push(TRUE))
    ELSE results' = Push(TRUE) /\ UNCHANGED <<state, openAge, quiet, fresh>>

\* Mutant: a success of a trial only counts in the window.
RecordSuccessNeverCloses ==
    results' = Push(TRUE) /\ UNCHANGED <<state, openAge, quiet, fresh>>

RecordSuccess ==
    IF state = "HALF_OPEN" THEN Close(Push(TRUE))
    ELSE results' = Push(TRUE) /\ UNCHANGED <<state, openAge, quiet, fresh>>

RecordFailure ==
    /\ results' = Push(FALSE)
    /\ fresh' = IF fresh < FailureThreshold THEN fresh + 1 ELSE fresh
    /\ IF state = "HALF_OPEN" \/ (state = "CLOSED" /\ ShouldOpen(results'))
       THEN Open
       ELSE UNCHANGED <<state, openAge, quiet>>
-----------------------------------------------------------------------------
Running(S) == {r \in S : pc[r] = "running"}

\* allow_request says yes; the `state` property makes OPEN a HALF_OPEN once
\* recovery_timeout has passed.
Allow(r, to) ==
    /\ pc[r] = "idle"
    /\ state = "OPEN" => openAge >= Recovery
    /\ state' = IF state = "OPEN" THEN "HALF_OPEN" ELSE state
    /\ pc' = [pc EXCEPT ![r] = to]
    /\ UNCHANGED <<results, openAge, quiet, fresh>>

AllowFast(r) == r \in Fast /\ Allow(r, "running")
AllowSlow(r) == r \in Slow /\ Allow(r, "waiting")

\* A slow query has asked the breaker before it waits for the semaphore, and
\* does not ask again.
AcquireSlow(r) ==
    /\ pc[r] = "waiting"
    /\ Cardinality(Running(Slow)) < SlowLimit
    /\ pc' = [pc EXCEPT ![r] = "running"]
    /\ UNCHANGED <<breaker, ghosts>>

Leave(r) == pc' = [pc EXCEPT ![r] = "idle"]

\* sem.acquire(timeout=60) returns False: the query raises, and records nothing.
GiveUp(r) ==
    /\ pc[r] = "waiting"
    /\ Cardinality(Running(Slow)) >= SlowLimit
    /\ Leave(r)
    /\ UNCHANGED <<breaker, quiet, fresh>>

Succeed(r) == pc[r] = "running" /\ Leave(r) /\ RecordSuccess

\* Oracle, the pool or the SQL raised.
Fail(r) == pc[r] = "running" /\ Leave(r) /\ RecordFailure

Older(age) == IF age < Recovery THEN age + 1 ELSE age

Tick ==
    /\ openAge' = IF state = "CLOSED" THEN openAge ELSE Older(openAge)
    /\ quiet' = Older(quiet)
    /\ UNCHANGED <<state, results, pc, fresh>>

Next ==
    \/ \E r \in Requests :
          AllowFast(r) \/ AllowSlow(r) \/ AcquireSlow(r) \/ GiveUp(r)
          \/ Succeed(r) \/ Fail(r)
    \/ Tick

Spec == Init /\ [][Next]_vars

\* Requests keep arriving, a query comes to an end (its call timeout), and so
\* does the wait for the semaphore; time passes.
Fairness ==
    /\ WF_vars(\E r \in Requests : AllowFast(r) \/ AllowSlow(r))
    /\ \A r \in Requests :
          /\ WF_vars(AcquireSlow(r) \/ GiveUp(r))
          /\ WF_vars(Succeed(r) \/ Fail(r))
    /\ WF_vars(Tick)

FairSpec == Spec /\ Fairness
-----------------------------------------------------------------------------
\* From the moment it opens, the breaker lets no request through until the
\* recovery timeout has passed, whatever the queries that were already in
\* flight report in the meantime.
AdmitsOnlyAfterRecovery ==
    [][\A r \in Requests : AllowFast(r) \/ AllowSlow(r) => quiet = Recovery]_vars

\* A breaker that has recovered opens only on failure_threshold failures that
\* were recorded since: what it saw before the outage is forgotten.
OpensOnFreshFailures ==
    [][state = "CLOSED" /\ state' = "OPEN" => fresh' >= FailureThreshold]_vars

\* If failures stop and requests go on, the breaker closes and stays closed:
\* no mix of late results and trials leaves it open or half open.
RecoversWhenFailuresStop ==
    <>[][\A r \in Requests : ~Fail(r)]_vars => <>[](state = "CLOSED")
=============================================================================
