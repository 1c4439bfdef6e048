-------------------------- MODULE AsyncJob_proofs --------------------------
(***************************************************************************)
(* Theorems about AsyncJob for every TTL, grace period and number of       *)
(* retries: its types, and that a job goes through a JobLifecycle whoever  *)
(* else writes its hash.                                                   *)
(***************************************************************************)
EXTENDS AsyncJob, TLAPS

USE DEF Active, Terminal, Exists, Forever, Gone

\* HSET leaves a well-formed hash.
LEMMA HsetTyped ==
  ASSUME TypeOK, NEW s \in Active \cup Terminal, Hset(s)
  PROVE  /\ meta' \in [status : Active \cup Terminal \cup {"gone", "unknown"},
                       known : BOOLEAN, ttl : -1 .. Ttl]
         /\ meta'.status = s
  BY JobAssumption DEF TypeOK, Hset

LEMMA HsetNoStatusTyped ==
  ASSUME TypeOK, HsetNoStatus
  PROVE  /\ meta' \in [status : Active \cup Terminal \cup {"gone", "unknown"},
                       known : BOOLEAN, ttl : -1 .. Ttl]
         /\ meta'.status = IF Exists THEN meta.status ELSE "unknown"
  BY JobAssumption DEF TypeOK, HsetNoStatus

\* A progress report shows one of the active states, or changes no status.
LEMMA ProgressTyped ==
  ASSUME TypeOK, NEW s \in Active, Progress(s)
  PROVE  /\ meta' \in [status : Active \cup Terminal \cup {"gone", "unknown"},
                       known : BOOLEAN, ttl : -1 .. Ttl]
         /\ meta'.status \in {s, meta.status, "unknown"}
         /\ Exists => meta'.status \in {s, meta.status}
  BY HsetTyped, HsetNoStatusTyped DEF TypeOK, Progress, WorkerHset

LEMMA TypeInit == Init => TypeOK
<1> SUFFICES ASSUME Init PROVE TypeOK
  OBVIOUS
<1> USE JobAssumption DEF Init
<1>1. 0 \in -1 .. Ttl
  OBVIOUS
<1>2. meta \in [status : Active \cup Terminal \cup {"gone", "unknown"},
               known : BOOLEAN, ttl : -1 .. Ttl]
  BY <1>1
<1>3. retries \in 0 .. MaxRetries /\ age \in 0 .. OrphanAge
  OBVIOUS
<1> QED BY <1>2, <1>3 DEF TypeOK

LEMMA TypeStep == TypeOK /\ [Next]_vars => TypeOK'
<1> SUFFICES ASSUME TypeOK, [Next]_vars PROVE TypeOK'
  OBVIOUS
<1> USE JobAssumption
<1>1. CASE WriteMeta
  BY <1>1 DEF WriteMeta, TypeOK
<1>2. CASE Expire
  BY <1>2 DEF Expire, TypeOK
<1>3. CASE Push \/ PushFails \/ RouteStops
  BY <1>3 DEF Push, PushFails, RouteStops, TypeOK
<1>4. CASE Refuse
  BY <1>4, HsetTyped DEF Refuse, WorkerHset, TypeOK
<1>5. CASE Dequeue \/ RetryDue
  BY <1>5 DEF Dequeue, RetryDue, TypeOK
<1>6. CASE Begin
  BY <1>6, ProgressTyped DEF Begin, TypeOK
<1>7. CASE Report
  BY <1>7, ProgressTyped DEF Report, TypeOK
<1>8. CASE Query \/ Store
  BY <1>8 DEF Query, Store, TypeOK
<1>9. CASE Written
  BY <1>9, ProgressTyped DEF Written, TypeOK
<1>10. CASE Complete
  BY <1>10, HsetTyped DEF Complete, WorkerHset, TypeOK
<1>11. CASE Fail
  BY <1>11, HsetTyped DEF Fail, WorkerHset, TypeOK
<1>12. CASE Returned
  BY <1>12 DEF Returned, TypeOK
<1>13. CASE Raised \/ Killed
  <2>1. rq' \in {"scheduled", "failed"} /\ retries' \in 0 .. MaxRetries
    BY <1>13 DEF Raised, Killed, Retry, TypeOK
  <2> QED BY <1>13, <2>1 DEF Raised, Killed, TypeOK
<1>14. CASE AbandonReads \/ ReaperReads
  BY <1>14 DEF AbandonReads, ReaperReads, TypeOK
<1>15. CASE AbandonWrites \/ ReaperWrites
  BY <1>15, HsetTyped DEF AbandonWrites, ReaperWrites, WorkerHset, TypeOK
<1>16. CASE Poll \/ StopPolling
  <2>1. client' \in {"done", "error", "polling"}
    BY <1>16 DEF Poll, StopPolling
  <2> QED BY <1>16, <2>1 DEF Poll, StopPolling, TypeOK
<1>17. CASE Tick
  BY <1>17 DEF Tick, TypeOK
<1>18. CASE UNCHANGED vars
  BY <1>18 DEF vars, TypeOK
<1> QED
  BY <1>1, <1>2, <1>3, <1>4, <1>5, <1>6, <1>7, <1>8, <1>9, <1>10, <1>11, <1>12,
     <1>13, <1>14, <1>15, <1>16, <1>17, <1>18
  DEF Next, RouteStep, RqStep, WorkerStep

\* The hash, the route, RQ, the worker and all others keep their types.
THEOREM TypeCorrect == Spec => []TypeOK
BY TypeInit, TypeStep, PTL DEF Spec
-----------------------------------------------------------------------------
(***************************************************************************)
(* The refinement. The route is first, and the worker function runs when   *)
(* RQ has started it; nothing else is needed of the phases.                *)
(***************************************************************************)
Phases ==
    /\ route = "idle" => meta = Gone /\ abandon = "idle" /\ reaper = "idle"
    /\ route \in {"idle", "expire", "push"} => rq = "none"
    /\ worker # "idle" <=> rq = "started"

PhaseInv == TypeOK /\ Phases

LEMMA PhaseInit == Init => PhaseInv
  BY TypeInit DEF Init, PhaseInv, Phases

LEMMA PhaseStep == PhaseInv /\ [Next]_vars => PhaseInv'
<1> SUFFICES ASSUME TypeOK, Phases, [Next]_vars PROVE Phases'
  BY TypeStep DEF PhaseInv
<1> USE DEF Phases
<1>1. CASE RouteStep \/ RouteStops
  BY <1>1 DEF RouteStep, RouteStops, WriteMeta, Expire, Push, PushFails, Refuse
<1>2. CASE RqStep
  BY <1>2 DEF RqStep, Dequeue, RetryDue
<1>3. CASE WorkerStep \/ Killed
  <2>1. CASE Begin \/ Report \/ Query \/ Store \/ Written \/ Complete \/ Fail
    BY <2>1 DEF Begin, Report, Query, Store, Written, Complete, Fail
  <2>2. CASE Returned
    BY <2>2 DEF Returned
  <2>3. CASE Raised \/ Killed
    BY <2>3 DEF Raised, Killed, Retry
  <2> QED BY <1>3, <2>1, <2>2, <2>3 DEF WorkerStep
<1>4. CASE AbandonReads \/ ReaperReads \/ Poll \/ StopPolling
  BY <1>4 DEF AbandonReads, ReaperReads, LooksOrphaned, Poll, StopPolling
<1>5. CASE AbandonWrites \/ ReaperWrites
  BY <1>5 DEF AbandonWrites, ReaperWrites
<1>6. CASE Tick
  BY <1>6 DEF Tick
<1>7. CASE UNCHANGED vars
  BY <1>7 DEF vars
<1> QED BY <1>1, <1>2, <1>3, <1>4, <1>5, <1>6, <1>7 DEF Next

\* Who may yet give a verdict changes only where the models say so.
LEMMA DoubtsKept ==
  ASSUME route' = "refuse" <=> route = "refuse",
         abandon' = "write" <=> abandon = "write",
         reaper' = "write" <=> reaper = "write"
  PROVE  Doubts' = Doubts
BY DEF Doubts

\* A worker function at work is an attempt that runs, or has said how it ends.
LEMMA WorkerAttempts ==
  ASSUME Phases, worker # "idle"
  PROVE  Attempt = IF worker \in {"returned", "raised"} THEN "said" ELSE "runs"
BY DEF Phases, Attempt

\* Every step of whoever has to do with the job is a step of its lifecycle, or
\* none.
LEMMA LifecycleStep ==
  PhaseInv /\ [Next]_vars => [Lifecycle!Next]_<<meta.status, Attempt, retries, Doubts>>
<1> SUFFICES ASSUME PhaseInv, [Next]_vars
             PROVE  [Lifecycle!Next]_<<meta.status, Attempt, retries, Doubts>>
  OBVIOUS
<1> USE DEF PhaseInv, Lifecycle!Next
<1>0. TypeOK /\ Phases /\ Phases'
  BY PhaseStep
<1>1. CASE WriteMeta
  <2>1. Attempt = "none" /\ Attempt' = Attempt /\ Doubts' = Doubts
    BY <1>0, <1>1, DoubtsKept DEF WriteMeta, Phases, Attempt
  <2> QED BY <1>0, <1>1, <2>1 DEF WriteMeta, Phases, Lifecycle!Accept
<1>2. CASE Expire
  <2>1. Attempt' = Attempt /\ Doubts' = Doubts
    BY <1>2, DoubtsKept DEF Expire, Attempt
  <2> QED BY <1>0, <1>2, <2>1 DEF Expire, TypeOK
<1>3. CASE Push
  <2>1. Attempt = "none" /\ Attempt' = "runs" /\ Doubts' = Doubts
    BY <1>0, <1>3, DoubtsKept DEF Push, Phases, Attempt
  <2> QED BY <1>3, <2>1 DEF Push, Lifecycle!Begin
<1>4. CASE PushFails
  <2>1. Attempt = "none" /\ Attempt' \in {"none", "runs"}
    BY <1>0, <1>4 DEF PushFails, Phases, Attempt
  <2>2. Doubts' = Doubts \cup {"route"}
    BY <1>4 DEF PushFails, Doubts
  <2> QED BY <1>4, <2>1, <2>2
          DEF PushFails, Lifecycle!Begin, Lifecycle!Doubt, Lifecycle!Judges
<1>5. CASE Refuse \/ RouteStops
  <2>1. Attempt' = Attempt
    BY <1>5 DEF Refuse, RouteStops, Attempt
  <2>2. meta'.status \in {meta.status, "failed"} /\ UNCHANGED retries
    BY <1>5, <1>0, HsetTyped DEF Refuse, RouteStops, WorkerHset
  <2>3. CASE route = "refuse"
    <3>1. "route" \in Doubts /\ Doubts' = Doubts \ {"route"}
      BY <1>5, <2>3 DEF Refuse, RouteStops, Doubts
    <3> QED BY <2>1, <2>2, <3>1 DEF Lifecycle!Verdict, Lifecycle!Judges
  <2>4. CASE route # "refuse"
    BY <1>5, <2>1, <2>4, DoubtsKept DEF Refuse, RouteStops
  <2> QED BY <2>3, <2>4
<1>6. CASE RqStep
  <2>1. Attempt' = Attempt /\ Doubts' = Doubts
    BY <1>0, <1>6, DoubtsKept DEF RqStep, Dequeue, RetryDue, Attempt, Phases
  <2> QED BY <1>6, <2>1 DEF RqStep, Dequeue, RetryDue
<1>7. CASE Begin \/ Report \/ Query \/ Store \/ Written
  <2>1. worker # "idle" /\ worker \notin {"returned", "raised"}
    BY <1>7 DEF Begin, Report, Query, Store, Written
  <2>2. worker' # "idle" /\ worker' \notin {"returned", "raised"}
    BY <1>7 DEF Begin, Report, Query, Store, Written
  <2>3. Attempt = "runs" /\ Attempt' = Attempt
    BY <1>0, <2>1, <2>2 DEF Attempt, Phases
  <2>4. Doubts' = Doubts /\ UNCHANGED retries
    BY <1>7, DoubtsKept DEF Begin, Report, Query, Store, Written
  <2>5. meta'.status \in {meta.status, "started", "running", "unknown"}
    BY <1>0, <1>7, ProgressTyped DEF Begin, Report, Query, Store, Written
  <2> QED BY <2>3, <2>4, <2>5 DEF Lifecycle!Work, Lifecycle!Unfinished
<1>8. CASE Complete \/ Fail
  <2>1. worker # "idle" /\ worker \notin {"returned", "raised"}
    BY <1>8 DEF Complete, Fail
  <2>2. worker' \in {"returned", "raised"}
    BY <1>8 DEF Complete, Fail
  <2>3. Attempt = "runs" /\ Attempt' = "said"
    BY <1>0, <2>1, <2>2 DEF Attempt, Phases
  <2>4. Doubts' = Doubts /\ UNCHANGED retries
    BY <1>8, DoubtsKept DEF Complete, Fail
  <2>5. meta'.status \in {meta.status, "completed", "failed"}
    BY <1>0, <1>8, HsetTyped DEF Complete, Fail, WorkerHset
  <2> QED BY <2>3, <2>4, <2>5 DEF Lifecycle!Say
<1>9. CASE Returned
  <2>1. Attempt = "said" /\ Attempt' = "over" /\ Doubts' = Doubts
    BY <1>0, <1>9, DoubtsKept DEF Returned, Attempt, Phases
  <2> QED BY <1>9, <2>1 DEF Returned, Lifecycle!Over
<1>10. CASE Raised \/ Killed
  <2>1. Attempt \in {"runs", "said"}
    BY <1>0, <1>10 DEF Raised, Killed, Attempt, Phases
  <2>2. Doubts' = Doubts /\ UNCHANGED meta /\ worker' = "idle"
    BY <1>10, DoubtsKept DEF Raised, Killed
  <2>3. CASE retries > 0
    <3>1. Attempt' = "runs" /\ retries' = retries - 1
      BY <1>10, <2>2, <2>3 DEF Raised, Killed, Retry, Attempt
    <3> QED BY <2>1, <2>2, <2>3, <3>1 DEF Lifecycle!Again
  <2>4. CASE ~(retries > 0)
    <3>1. Attempt' = "over" /\ UNCHANGED retries /\ retries = 0
      BY <1>0, <1>10, <2>2, <2>4, JobAssumption
      DEF Raised, Killed, Retry, Attempt, TypeOK
    <3> QED BY <2>1, <2>2, <3>1 DEF Lifecycle!Over
  <2> QED BY <2>3, <2>4
<1>11. CASE AbandonReads \/ ReaperReads
  <2>1. UNCHANGED <<meta, retries>> /\ Attempt' = Attempt
    BY <1>11 DEF AbandonReads, ReaperReads, Attempt
  <2>2. meta.status \notin Terminal
    BY <1>11 DEF AbandonReads, ReaperReads, LooksOrphaned
  <2>3. \E j \in {"abandon", "reaper"} : Doubts' = Doubts \cup {j}
    <3>1. AbandonReads => Doubts' = Doubts \cup {"abandon"}
      BY DEF AbandonReads, Doubts
    <3>2. ReaperReads => Doubts' = Doubts \cup {"reaper"}
      BY DEF ReaperReads, Doubts
    <3> QED BY <1>11, <3>1, <3>2
  <2> QED BY <2>1, <2>2, <2>3 DEF Lifecycle!Doubt, Lifecycle!Judges, Lifecycle!Terminal
<1>12. CASE AbandonWrites \/ ReaperWrites
  <2>1. UNCHANGED retries /\ Attempt' = Attempt
    BY <1>12 DEF AbandonWrites, ReaperWrites, Attempt
  <2>2. meta'.status \in {meta.status, "failed", "abandoned"}
    BY <1>0, <1>12, HsetTyped DEF AbandonWrites, ReaperWrites, WorkerHset
  <2>3. \E j \in {"abandon", "reaper"} : j \in Doubts /\ Doubts' = Doubts \ {j}
    <3>1. AbandonWrites => "abandon" \in Doubts /\ Doubts' = Doubts \ {"abandon"}
      BY DEF AbandonWrites, Doubts
    <3>2. ReaperWrites => "reaper" \in Doubts /\ Doubts' = Doubts \ {"reaper"}
      BY DEF ReaperWrites, Doubts
    <3> QED BY <1>12, <3>1, <3>2
  <2> QED BY <2>1, <2>2, <2>3 DEF Lifecycle!Verdict, Lifecycle!Judges
<1>13. CASE Poll \/ StopPolling
  <2>1. Attempt' = Attempt /\ Doubts' = Doubts
    BY <1>13, DoubtsKept DEF Poll, StopPolling, Attempt
  <2> QED BY <1>13, <2>1 DEF Poll, StopPolling
<1>14. CASE Tick
  <2>1. Attempt' = Attempt /\ Doubts' = Doubts /\ UNCHANGED retries
    BY <1>14, DoubtsKept DEF Tick, Attempt
  <2>2. meta'.status \in {meta.status, "gone"}
    BY <1>0, <1>14 DEF Tick, TypeOK
  <2> QED BY <2>1, <2>2 DEF Lifecycle!Forget
<1>15. CASE UNCHANGED vars
  <2>1. Attempt' = Attempt /\ Doubts' = Doubts
    BY <1>15, DoubtsKept DEF vars, Attempt
  <2> QED BY <1>15, <2>1 DEF vars
<1> QED
  BY <1>1, <1>2, <1>3, <1>4, <1>5, <1>6, <1>7, <1>8, <1>9, <1>10, <1>11, <1>12,
     <1>13, <1>14, <1>15
  DEF Next, RouteStep, WorkerStep

\* A job is a JobLifecycle, whoever retries, kills, abandons, reaps or polls it
\* and whatever Redis loses: the last word of an attempt is undone by a retry,
\* by a verdict of somebody who found the job unfinished, or by the TTL only.
THEOREM LifecycleCorrect == Spec => ImplementsLifecycle
<1>1. PhaseInv /\ [Next]_vars => PhaseInv'
  BY PhaseStep
<1>2. PhaseInv /\ [Next]_vars
      => [Lifecycle!Next]_<<meta.status, Attempt, retries, Doubts>>
  BY LifecycleStep
<1>3. Init => Lifecycle!Init
  BY JobAssumption DEF Init, Lifecycle!Init, Attempt, Doubts
<1> QED
  BY PhaseInit, <1>1, <1>2, <1>3, PTL
  DEF Spec, ImplementsLifecycle, Lifecycle!Spec, Lifecycle!vars
=============================================================================
