-------------------------- MODULE RedisLock_proofs --------------------------
(***************************************************************************)
(* The lock and its two users. First the lock, for any number of threads   *)
(* and any ttl: until a thread has overrun its ttl, no two are in the      *)
(* protected code at once. Then the single flight built on it: DatasetCache*)
(* implements RedisLock, and so never replaces the spool file of a newer   *)
(* query by that of an older one. Then the leader election: WarmCache      *)
(* implements RedisLock, its schedulers make one beat, and the spool of    *)
(* today is no further behind the rows than that beat explains.            *)
(***************************************************************************)
EXTENDS WarmCache, DatasetCache, FiniteSetTheorems, TLAPS

\* Until somebody has overrun, who is inside set the key, and has as much of its
\* lease left as the key has of its TTL. So the key cannot go before it does.
HolderHasKey ==
    ~overrun => \A p \in inside : key = p /\ keyTtl = lease[p] /\ lease[p] > 0

IInv == TypeOK /\ HolderHasKey

LEMMA InitTyped == Init => TypeOK
<1> SUFFICES ASSUME Init PROVE TypeOK
  OBVIOUS
<1>1. overrun \in BOOLEAN
  BY DEF Init
<1> QED BY <1>1, LockAssumption DEF Init, TypeOK

THEOREM TypeCorrect == Spec => []TypeOK
<1>1. Init => TypeOK
  BY InitTyped
<1>2. TypeOK /\ [Next]_vars => TypeOK'
  <2> SUFFICES ASSUME TypeOK, [Next]_vars PROVE TypeOK'
    OBVIOUS
  <2> USE LockAssumption DEF TypeOK
  <2>1. ASSUME NEW p \in Procs, Acquire(p) PROVE TypeOK'
    BY <2>1 DEF Acquire, SetNxEx
  <2>2. ASSUME NEW p \in Procs, AcquireFails(p) PROVE TypeOK'
    BY <2>2 DEF AcquireFails, SetNxEx
  <2>3. ASSUME NEW p \in Procs, Release(p) PROVE TypeOK'
    BY <2>3 DEF Release, Leave, Delete
  <2>4. ASSUME NEW ps \in SUBSET Procs, LeaveHeld(ps) PROVE TypeOK'
    BY <2>4 DEF LeaveHeld, Leave
  <2>5. CASE Tick
    BY <2>5 DEF Tick
  <2>6. CASE UNCHANGED vars
    BY <2>6 DEF vars
  <2> QED BY <2>1, <2>2, <2>3, <2>4, <2>5, <2>6 DEF Next
<1> QED
  BY <1>1, <1>2, PTL DEF Spec

\* The step that matters: what is inside keeps its key.
LEMMA HolderStep ==
  ASSUME IInv, [Next]_vars
  PROVE  HolderHasKey'
<1> USE LockAssumption DEF IInv, TypeOK, HolderHasKey
<1>1. ASSUME NEW p \in Procs, Acquire(p) PROVE HolderHasKey'
  \* The key was free, so nobody was inside.
  BY <1>1 DEF Acquire, SetNxEx
<1>2. ASSUME NEW p \in Procs, AcquireFails(p) PROVE HolderHasKey'
  BY <1>2 DEF AcquireFails, SetNxEx
<1>3. ASSUME NEW p \in Procs, Release(p) PROVE HolderHasKey'
  \* p had the key, so nobody else was inside.
  BY <1>3 DEF Release, Leave, Delete
<1>4. ASSUME NEW ps \in SUBSET Procs, LeaveHeld(ps) PROVE HolderHasKey'
  BY <1>4 DEF LeaveHeld, Leave
<1>5. CASE Tick
  \* A lease about to run out with its thread inside is an overrun.
  <2> SUFFICES ASSUME ~overrun', NEW p \in inside
               PROVE  key' = p /\ keyTtl' = lease'[p] /\ lease'[p] > 0
    BY <1>5 DEF Tick
  <2>1. ~overrun /\ lease[p] # 1
    BY <1>5 DEF Tick
  <2> QED BY <1>5, <2>1 DEF Tick
<1>6. CASE UNCHANGED vars
  BY <1>6 DEF vars
<1> QED
  BY <1>1, <1>2, <1>3, <1>4, <1>5, <1>6 DEF Next

LEMMA LockInvariant == Spec => []IInv
<1>1. Init => IInv
  BY InitTyped DEF Init, IInv, HolderHasKey
<1>2. IInv /\ [Next]_vars => HolderHasKey'
  BY HolderStep
<1> QED
  BY <1>1, <1>2, TypeCorrect, PTL DEF Spec, IInv

\* try_acquire_lock with fail_mode "closed" or "raise" excludes, as long as the
\* work it protects ends within ttl_seconds.
THEOREM ExclusionCorrect == Spec => []Exclusion
<1>1. IInv => Exclusion
  <2> SUFFICES ASSUME IInv, ~overrun PROVE Cardinality(inside) <= 1
    BY DEF Exclusion
  <2>1. inside \in SUBSET {key}
    BY DEF IInv, HolderHasKey
  <2>2. IsFiniteSet({key}) /\ Cardinality({key}) = 1
    BY FS_Singleton
  <2>3. IsFiniteSet(inside) /\ Cardinality(inside) <= Cardinality({key})
    BY <2>1, <2>2, FS_Subset
  <2>4. Cardinality(inside) \in Nat
    BY <2>3, FS_CardinalityType
  <2> QED
    BY <2>2, <2>3, <2>4
<1> QED
  BY <1>1, LockInvariant, PTL

\* Until an overrun the lock is a semaphore of one slot, and after it promises nothing.
Holders == IF overrun THEN {} ELSE inside

Mutex == INSTANCE Semaphore WITH Callers <- Procs, MaxConcurrent <- 1, holders <- Holders

LEMMA MutexStep == IInv /\ [Next]_vars => [Mutex!Steps]_Holders
<1> SUFFICES ASSUME IInv, [Next]_vars PROVE [Mutex!Steps]_Holders
  OBVIOUS
<1> USE DEF IInv, HolderHasKey, Holders
<1>1. ASSUME NEW p \in Procs, Acquire(p), ~overrun PROVE Mutex!Take(p)
  <2>1. inside = {} /\ inside' = {p} /\ ~overrun'
    BY <1>1, LockAssumption DEF Acquire, SetNxEx, TypeOK
  <2>2. Mutex!Cardinality({}) = 0
    BY FS_EmptySet DEF Mutex!Cardinality, Cardinality
  <2> QED BY <1>1, <2>1, <2>2 DEF Mutex!Take
<1>2. ASSUME NEW p \in Procs, Acquire(p), overrun PROVE Holders' \subseteq Holders
  BY <1>2 DEF Acquire
<1>3. ASSUME NEW p \in Procs, AcquireFails(p) \/ Release(p) PROVE Holders' \subseteq Holders
  BY <1>3 DEF AcquireFails, Release, Leave
<1>4. ASSUME NEW ps \in SUBSET Procs, LeaveHeld(ps) PROVE Holders' \subseteq Holders
  BY <1>4 DEF LeaveHeld, Leave
<1>5. CASE Tick \/ UNCHANGED vars
  <2>1. Holders' \subseteq Holders
    BY <1>5 DEF Tick, vars, TypeOK
  <2> QED BY <2>1 DEF Mutex!Steps, Mutex!Lose
<1>6. (\E p \in Procs : Mutex!Take(p)) \/ Holders' \subseteq Holders => [Mutex!Steps]_Holders
  BY DEF Mutex!Steps, Mutex!Lose
<1> HIDE DEF Holders
<1> QED
  BY <1>1, <1>2, <1>3, <1>4, <1>5, <1>6 DEF Next

\* try_acquire_lock and release_lock come to a mutex, as long as the work ends within
\* ttl_seconds: the lock is taken when nobody has it, and may be lost at any time.
THEOREM MutexCorrect == Spec => Mutex!SemaphoreSpec
<1>1. Init => Mutex!NobodyHolds
  BY DEF Init, Holders, Mutex!NobodyHolds
<1> QED
  BY <1>1, MutexStep, LockInvariant, PTL DEF Spec, Mutex!SemaphoreSpec
-----------------------------------------------------------------------------
\* Every step of the cache is one of its lock, or none.
LEMMA LockStep == [DatasetNext]_<<vars, dvars>> => [Next]_vars
<1> SUFFICES ASSUME [DatasetNext]_<<vars, dvars>>, ~UNCHANGED vars PROVE Next
  OBVIOUS
<1>1. ASSUME NEW p \in Procs, Step(p) \/ (\E c \in {"query", "other"} : Request(p, c)) PROVE Next
  <2>1. Acquire(p) \/ AcquireFails(p) \/ Release(p) \/ LeaveHeld({p})
    BY <1>1 DEF Step, Request, HitL1, MissL1, StaleL1, ReadLinkage, Promote, MissAll, TakeLock, NoLock,
       Poll, Stream, StoreEmpty, Register, StorePayload, QueryFails, Unlock, Extract, StoreLinkage,
       LinkageFails
  <2> QED BY <2>1 DEF Next
<1>2. ASSUME NEW w \in Workers, Evict(w) \/ Die(w) PROVE Next
  <2>1. LeaveHeld(Threads(w) \cap inside) /\ Threads(w) \cap inside \in SUBSET Procs
    BY <1>2 DEF Evict, Die, Threads
  <2> QED BY <2>1 DEF Next
<1>3. CASE RowsChange \/ SpoolGone \/ LinkGone \/ Pass
  BY <1>3 DEF RowsChange, SpoolGone, LinkGone, Pass, Next
<1> QED
  BY <1>1, <1>2, <1>3 DEF DatasetNext

\* The single flight uses its lock as RedisLock says.
THEOREM ImplementsLock == DatasetSpec => Spec
<1>1. DatasetInit => Init
  BY DEF DatasetInit
<1> QED
  BY <1>1, LockStep, PTL DEF DatasetSpec, Spec
-----------------------------------------------------------------------------
LEMMA DatasetInitTyped == DatasetInit => DatasetTypeOK
<1> SUFFICES ASSUME DatasetInit PROVE DatasetTypeOK
  OBVIOUS
<1>1. polls \in [Procs -> 0 .. MaxPolls - 1] /\ snap \in [Procs -> 0 .. MaxDb]
      /\ {db, spool, best} \subseteq 0 .. MaxDb /\ faults \in 0 .. MaxFaults
  BY DatasetAssumption, FaultsAssumption DEF DatasetInit
<1>2. /\ caller \in [Procs -> {"query", "wait", "other"}]
      /\ l1 \in [Workers -> {"none", "empty", "ready"}] /\ link \in BOOLEAN
  BY DEF DatasetInit
<1> QED
  BY <1>1, <1>2 DEF DatasetInit, DatasetTypeOK

LEMMA DatasetTypeStep == DatasetTypeOK /\ [DatasetNext]_<<vars, dvars>> => DatasetTypeOK'
<1> SUFFICES ASSUME DatasetTypeOK, [DatasetNext]_<<vars, dvars>> PROVE DatasetTypeOK'
  OBVIOUS
<1> USE DatasetAssumption, FaultsAssumption DEF DatasetTypeOK, Locked, Goto, Fault, Remember, Reads, Forget, local, shared
<1>1. ASSUME NEW p \in Procs, NEW c \in {"query", "other"}, Request(p, c) PROVE DatasetTypeOK'
  BY <1>1 DEF Request
<1>2. ASSUME NEW p \in Procs, HitL1(p) PROVE DatasetTypeOK'
  BY <1>2 DEF HitL1, AfterHit
<1>3. ASSUME NEW p \in Procs, MissL1(p) \/ StaleL1(p) \/ ReadLinkage(p, "redis") PROVE DatasetTypeOK'
  BY <1>3 DEF MissL1, StaleL1, ReadLinkage
<1>4. ASSUME NEW p \in Procs, Promote(p) PROVE DatasetTypeOK'
  BY <1>4 DEF Promote, Promoted, AfterHit
<1>5. ASSUME NEW p \in Procs, MissAll(p) PROVE DatasetTypeOK'
  BY <1>5 DEF MissAll, AfterMiss, LastPoll
<1>6. ASSUME NEW p \in Procs, TakeLock(p) \/ NoLock(p) \/ Poll(p) PROVE DatasetTypeOK'
  <2>1. CASE TakeLock(p)
    BY <2>1 DEF TakeLock
  <2>2. CASE NoLock(p)
    BY <2>2 DEF NoLock
  <2>3. CASE Poll(p)
    BY <2>3 DEF Poll
  <2> QED BY <1>6, <2>1, <2>2, <2>3
<1>7. ASSUME NEW p \in Procs, Stream(p) PROVE DatasetTypeOK'
  BY <1>7 DEF Stream
<1>8. ASSUME NEW p \in Procs, StoreEmpty(p) \/ StorePayload(p) PROVE DatasetTypeOK'
  BY <1>8 DEF StoreEmpty, StorePayload
<1>9. ASSUME NEW p \in Procs, Register(p) PROVE DatasetTypeOK'
  BY <1>9 DEF Register, Newest
<1>10. ASSUME NEW p \in Procs, QueryFails(p) \/ Unlock(p) PROVE DatasetTypeOK'
  BY <1>10 DEF QueryFails, Unlock
<1>11. ASSUME NEW p \in Procs, Extract(p) \/ StoreLinkage(p) \/ LinkageFails(p) PROVE DatasetTypeOK'
  <2>1. CASE Extract(p)
    BY <2>1 DEF Extract
  <2>2. CASE StoreLinkage(p)
    BY <2>2 DEF StoreLinkage
  <2>3. CASE LinkageFails(p)
    BY <2>3 DEF LinkageFails
  <2> QED BY <1>11, <2>1, <2>2, <2>3
<1>12. ASSUME NEW w \in Workers, Evict(w) PROVE DatasetTypeOK'
  BY <1>12 DEF Evict
<1>13. ASSUME NEW w \in Workers, Die(w) PROVE DatasetTypeOK'
  BY <1>13 DEF Die
<1>14. CASE RowsChange \/ SpoolGone \/ LinkGone \/ Pass
  <2>1. CASE RowsChange
    BY <2>1 DEF RowsChange
  <2>2. CASE SpoolGone
    BY <2>2 DEF SpoolGone
  <2>3. CASE LinkGone
    BY <2>3 DEF LinkGone
  <2>4. CASE Pass
    BY <2>4 DEF Pass, dvars
  <2> QED BY <1>14, <2>1, <2>2, <2>3, <2>4
<1>15. CASE UNCHANGED <<vars, dvars>>
  BY <1>15 DEF dvars
<1> QED
  BY <1>1, <1>2, <1>3, <1>4, <1>5, <1>6, <1>7, <1>8, <1>9, <1>10, <1>11, <1>12, <1>13, <1>14, <1>15
  DEF DatasetNext, Step

\* Every reachable state of the cache is well typed.
THEOREM DatasetTypeCorrect == DatasetSpec => []DatasetTypeOK
  BY DatasetInitTyped, DatasetTypeStep, PTL DEF DatasetSpec
-----------------------------------------------------------------------------
\* Who is in the protected part of the code is inside, as the lock sees it. Nothing
\* registered or read is newer than the rows, and what a thread has read to register
\* is not older than what has been registered, until somebody overruns.
LockedInside == \A p \in Procs : pc[p] \in Locked => p \in inside
NotNewer == best <= db /\ \A p \in Procs : snap[p] <= db
ReadLast == ~overrun => \A p \in Procs : pc[p] = "register" => snap[p] >= best

ForwardInv == LockedInside /\ NotNewer /\ ReadLast

LEMMA ForwardStep ==
  ASSUME IInv, DatasetTypeOK, ForwardInv, [DatasetNext]_<<vars, dvars>>
  PROVE  ForwardInv'
<1> USE DatasetAssumption DEF ForwardInv, LockedInside, NotNewer, ReadLast, DatasetTypeOK, Locked,
        Goto, Remember, Reads, Forget, local, shared
<1>0. overrun => overrun'
  BY LockStep DEF Next, Acquire, AcquireFails, Release, LeaveHeld, Leave, Tick, vars, IInv, TypeOK
<1>1. ASSUME NEW p \in Procs, NEW c \in {"query", "other"}, Request(p, c) PROVE ForwardInv'
  BY <1>1, <1>0 DEF Request, vars
<1>2. ASSUME NEW p \in Procs, HitL1(p) \/ MissL1(p) \/ StaleL1(p) \/ ReadLinkage(p, "redis") PROVE ForwardInv'
  BY <1>2, <1>0 DEF HitL1, AfterHit, MissL1, StaleL1, ReadLinkage, vars
<1>3. ASSUME NEW p \in Procs, Promote(p) \/ MissAll(p) PROVE ForwardInv'
  BY <1>3, <1>0 DEF Promote, AfterHit, MissAll, AfterMiss, vars
<1>4. ASSUME NEW p \in Procs, TakeLock(p) PROVE ForwardInv'
  BY <1>4, <1>0 DEF TakeLock, Acquire
<1>5. ASSUME NEW p \in Procs, NoLock(p) \/ Poll(p) PROVE ForwardInv'
  BY <1>5, <1>0 DEF NoLock, AcquireFails, Poll, vars
<1>6. ASSUME NEW p \in Procs, Stream(p) PROVE ForwardInv'
  BY <1>6, <1>0 DEF Stream, vars
<1>7. ASSUME NEW p \in Procs, Register(p) PROVE ForwardInv'
  \* Only p is between the query and the registration, so nobody else's snapshot has
  \* become an old one.
  <2>1. /\ p \in inside /\ UNCHANGED <<vars, db>> /\ best' = Newest(snap[p])
        /\ pc'[p] = "payload" /\ snap'[p] = 0
        /\ \A q \in Procs \ {p} : pc'[q] = pc[q] /\ snap'[q] = snap[q]
    BY <1>7 DEF Register
  <2>2. ~overrun => \A q \in Procs \ {p} : pc[q] # "register"
    BY <2>1 DEF IInv, HolderHasKey
  <2>3. LockedInside'
    BY <2>1 DEF vars
  <2>4. NotNewer'
    BY <2>1 DEF Newest
  <2>5. ReadLast'
    BY <2>1, <2>2 DEF vars
  <2> QED BY <2>3, <2>4, <2>5
<1>8. ASSUME NEW p \in Procs, StoreEmpty(p) \/ StorePayload(p) \/ QueryFails(p) PROVE ForwardInv'
  BY <1>8, <1>0 DEF StoreEmpty, StorePayload, QueryFails, vars
<1>9. ASSUME NEW p \in Procs, Unlock(p) PROVE ForwardInv'
  BY <1>9, <1>0 DEF Unlock, Release, LeaveHeld, Leave
<1>10. ASSUME NEW p \in Procs, Extract(p) \/ StoreLinkage(p) \/ LinkageFails(p) PROVE ForwardInv'
  BY <1>10, <1>0 DEF Extract, StoreLinkage, LinkageFails, vars
<1>11. ASSUME NEW w \in Workers, Evict(w) PROVE ForwardInv'
  BY <1>11, <1>0 DEF Evict, vars
<1>12. ASSUME NEW w \in Workers, Die(w) PROVE ForwardInv'
  BY <1>12, <1>0 DEF Die, Threads, LeaveHeld, Leave, vars
<1>13. CASE RowsChange
  BY <1>13, <1>0 DEF RowsChange, vars
<1>14. CASE SpoolGone \/ LinkGone
  BY <1>14, <1>0 DEF SpoolGone, LinkGone, vars
<1>15. CASE Pass
  BY <1>15, <1>0 DEF Pass, Tick, dvars
<1>16. CASE UNCHANGED <<vars, dvars>>
  BY <1>16 DEF vars, dvars
<1> QED
  BY <1>1, <1>2, <1>3, <1>4, <1>5, <1>6, <1>7, <1>8, <1>9, <1>10, <1>11, <1>12, <1>13, <1>14, <1>15,
     <1>16 DEF DatasetNext, Step

\* Without comparing anything, execute_primary_query never registers an older spool
\* file over a newer one, as long as no query outlives the lock.
THEOREM ForwardCorrect == DatasetSpec => SpoolMovesForward
<1> DEFINE Forward == spool' \notin {0, spool} => overrun \/ spool' >= best
<1>1. DatasetInit => ForwardInv
  BY DatasetAssumption DEF DatasetInit, ForwardInv, LockedInside, NotNewer, ReadLast, Locked
<1>2. IInv /\ DatasetTypeOK /\ ForwardInv /\ [DatasetNext]_<<vars, dvars>> => ForwardInv'
  BY ForwardStep
<1>3. ForwardInv /\ [DatasetNext]_<<vars, dvars>> => [Forward]_<<vars, dvars>>
  <2> SUFFICES ASSUME ForwardInv, [DatasetNext]_<<vars, dvars>>, spool' \notin {0, spool}, ~overrun
               PROVE  spool' >= best
    OBVIOUS
  <2>1. PICK p \in Procs : Register(p)
    BY DEF DatasetNext, Step, Request, HitL1, MissL1, StaleL1, ReadLinkage, Promote, MissAll, TakeLock,
       NoLock, Poll, Stream, StoreEmpty, StorePayload, QueryFails, Unlock, Extract, StoreLinkage,
       LinkageFails, Evict, Die, RowsChange, SpoolGone, LinkGone, Pass, dvars, shared
  <2> QED BY <2>1 DEF Register, Goto, ForwardInv, ReadLast
<1>4. DatasetSpec => [][Forward]_<<vars, dvars>>
  <2> HIDE DEF Forward
  <2> QED BY <1>1, <1>2, <1>3, ImplementsLock, LockInvariant, DatasetTypeCorrect, PTL DEF DatasetSpec
<1> QED BY <1>4 DEF SpoolMovesForward
-----------------------------------------------------------------------------
\* Every step of the schedulers and of their day is one of the leader's lock, or none.
LEMMA WarmLockStep == [WarmNext]_<<vars, wvars>> => [Next]_vars
<1> SUFFICES ASSUME [WarmNext]_<<vars, wvars>>, ~UNCHANGED vars PROVE Next
  OBVIOUS
<1> USE DEF Sleep, schedule
<1>1. ASSUME NEW p \in Procs, CycleStep(p) PROVE Next
  <2>1. Acquire(p) \/ AcquireFails(p) \/ Release(p) \/ LeaveHeld({p})
    BY <1>1 DEF CycleStep, Elected, NotElected, Claim, Enqueue, EndCycle
  <2> QED BY <2>1 DEF Next
<1>2. ASSUME NEW p \in Procs, Restart(p) \/ WorkerDies(p) PROVE Next
  <2>1. LeaveHeld({p})
    BY <1>2 DEF Restart, WorkerDies
  <2> QED BY <2>1 DEF Next
<1>3. CASE WarmStep \/ UserStarts \/ UserEnds \/ UserFails \/ DaySpoolGone
  BY <1>3 DEF WarmStep, Dequeue, Check, Guard, StartBuild, EndBuild, BuildFails, UserStarts, UserEnds,
     UserFails, DaySpoolGone, vars
<1>4. CASE TimePasses
  BY <1>4 DEF TimePasses, Next
<1> QED
  BY <1>1, <1>2, <1>3, <1>4 DEF WarmNext

\* The warmup schedulers elect their leader as RedisLock says.
THEOREM WarmImplementsLock == WarmSpec => Spec
<1>1. WarmInit => Init
  BY DEF WarmInit
<1> QED
  BY <1>1, WarmLockStep, PTL DEF WarmSpec, Spec
-----------------------------------------------------------------------------
LEMMA WarmNumbers ==
  /\ Interval \in Nat /\ Cooldown \in Nat /\ Threshold \in Nat /\ MaxBuild \in Nat
  /\ Interval > 0 /\ Cooldown > 0 /\ Threshold > 0
  /\ Cooldown <= Interval /\ Threshold <= Interval
  BY WarmAssumption

LEMMA MaxAgeType == MaxAge \in Nat /\ Beat \in Nat /\ Interval <= Beat
  BY WarmNumbers DEF MaxAge, Beat

LEMMA NoDataTyped == NoData \in Data
  BY MaxAgeType DEF NoData, Data, Ages, Phases

LEMMA OlderTyped == ASSUME NEW d \in Data PROVE Older(d) \in Data
  BY MaxAgeType DEF Older, Data, Ages

LEMMA SnapshotTyped == phase \in Phases => Snapshot \in Data
  BY MaxAgeType DEF Snapshot, Data, Ages

LEMMA WarmInitTyped == WarmInit => WarmTyped
<1> SUFFICES ASSUME WarmInit PROVE WarmTyped
  OBVIOUS
<1>1. timer \in [Procs -> 0 .. Interval] /\ cooldown \in 0 .. Cooldown
      /\ faults \in 0 .. MaxFaults /\ sinceEnqueue \in 0 .. Beat + 1
  BY WarmNumbers, MaxAgeType, FaultsAssumption DEF WarmInit
<1>2. daySpool \in [there : BOOLEAN, since : 0 .. Interval, data : Data]
  BY WarmNumbers, NoDataTyped DEF WarmInit, NoSpool
<1>3. /\ warm \in [at : {"idle", "check", "guard", "start", "write"}, isToday : BOOLEAN, data : Data]
      /\ user \in [at : {"idle", "write"}, data : Data]
  BY NoDataTyped DEF WarmInit, Idle
<1>4. sched \in [Procs -> {"wait", "claim", "enqueue", "release"}] /\ queue \subseteq {"today", "yesterday"}
      /\ phase \in Phases /\ inflight \in BOOLEAN
  BY DEF WarmInit, Phases
<1> QED
  BY <1>1, <1>2, <1>3, <1>4 DEF WarmTyped

LEMMA RegistersTyped ==
  ASSUME WarmTyped, NEW d \in Data, Registers(d)
  PROVE  daySpool' \in [there : BOOLEAN, since : 0 .. Interval, data : Data]
<1>1. 0 \in 0 .. Interval
  BY WarmNumbers
<1>2. [there |-> TRUE, since |-> 0, data |-> d] \in [there : BOOLEAN, since : 0 .. Interval, data : Data]
  BY <1>1
<1> QED BY <1>2 DEF Registers, WarmTyped

LEMMA WarmTypeStep == WarmTyped /\ [WarmNext]_<<vars, wvars>> => WarmTyped'
<1> SUFFICES ASSUME WarmTyped, [WarmNext]_<<vars, wvars>> PROVE WarmTyped'
  OBVIOUS
<1> USE WarmNumbers, MaxAgeType, FaultsAssumption, NoDataTyped
    DEF WarmTyped, Move, Sleep, Fault, day, schedule, Idle
<1>1. ASSUME NEW p \in Procs, CycleStep(p) PROVE WarmTyped'
  <2>1. CASE Elected(p)
    BY <2>1 DEF Elected
  <2>2. CASE NotElected(p)
    BY <2>2 DEF NotElected
  <2>3. CASE Claim(p)
    BY <2>3 DEF Claim
  <2>4. CASE Enqueue(p)
    <3>1. queue' \subseteq {"today", "yesterday"}
      BY <2>4 DEF Enqueue
    <3> QED BY <2>4, <3>1 DEF Enqueue
  <2>5. CASE EndCycle(p)
    BY <2>5 DEF EndCycle
  <2> QED BY <1>1, <2>1, <2>2, <2>3, <2>4, <2>5 DEF CycleStep
<1>2. ASSUME NEW p \in Procs, Restart(p) \/ WorkerDies(p) PROVE WarmTyped'
  <2>1. CASE Restart(p)
    BY <2>1 DEF Restart
  <2>2. CASE WorkerDies(p)
    BY <2>2 DEF WorkerDies
  <2> QED BY <1>2, <2>1, <2>2
<1>3. CASE WarmStep
  <2>1. CASE Dequeue
    <3>1. PICK kind \in queue : /\ queue' = queue \ {kind}
                               /\ warm' = IF Concerns(kind)
                                          THEN [Idle EXCEPT !.at = "check", !.isToday = (kind = "today")]
                                          ELSE Idle
      BY <2>1 DEF Dequeue
    <3>2. (kind = "today") \in BOOLEAN
      OBVIOUS
    <3>3. warm' \in [at : {"idle", "check", "guard", "start", "write"}, isToday : BOOLEAN, data : Data]
      BY <3>1, <3>2, Zenon
    <3> QED BY <2>1, <3>1, <3>3 DEF Dequeue
  <2>2. CASE Check
    BY <2>2 DEF Check
  <2>6. CASE Guard
    BY <2>6 DEF Guard
  <2>3. CASE StartBuild
    BY <2>3, SnapshotTyped DEF StartBuild
  <2>4. CASE EndBuild
    BY <2>4, RegistersTyped DEF EndBuild
  <2>5. CASE BuildFails
    BY <2>5 DEF BuildFails
  <2> QED BY <1>3, <2>1, <2>2, <2>3, <2>4, <2>5, <2>6 DEF WarmStep
<1>4. CASE UserStarts
  BY <1>4, SnapshotTyped DEF UserStarts
<1>5. CASE UserEnds
  BY <1>5, RegistersTyped DEF UserEnds
<1>6. CASE UserFails
  BY <1>6 DEF UserFails
<1>9. CASE DaySpoolGone
  <2>1. 0 \in 0 .. Interval
    OBVIOUS
  <2>2. daySpool' \in [there : BOOLEAN, since : 0 .. Interval, data : Data]
    BY <1>9, <2>1 DEF DaySpoolGone, NoSpool
  <2> QED BY <1>9, <2>2 DEF DaySpoolGone
<1>7. CASE TimePasses
  <2>1. warm' \in [at : {"idle", "check", "guard", "start", "write"}, isToday : BOOLEAN, data : Data]
    BY <1>7, OlderTyped DEF TimePasses, Later
  <2>2. user' \in [at : {"idle", "write"}, data : Data]
    BY <1>7, OlderTyped DEF TimePasses, Later
  <2>3. daySpool' \in [there : BOOLEAN, since : 0 .. Interval, data : Data]
    <3>1. CASE ~daySpool.there
      BY <1>7, <3>1 DEF TimePasses
    <3>2. CASE daySpool.there
      <4>1. Older(daySpool.data) \in Data
        BY OlderTyped
      <4>2. (IF daySpool.since < Interval THEN daySpool.since + 1 ELSE daySpool.since) \in 0 .. Interval
        OBVIOUS
      <4> QED BY <1>7, <3>2, <4>1, <4>2 DEF TimePasses
    <3> QED BY <3>1, <3>2
  <2>4. phase' \in Phases
    BY <1>7 DEF TimePasses, DayGoesOn, Phases
  <2>5. timer' \in [Procs -> 0 .. Interval] /\ cooldown' \in 0 .. Cooldown /\ sinceEnqueue' \in 0 .. Beat + 1
    BY <1>7 DEF TimePasses, Less
  <2>6. UNCHANGED <<sched, queue>> /\ faults' \in 0 .. MaxFaults
    BY <1>7 DEF TimePasses
  <2>7. inflight' \in BOOLEAN
    BY <1>7, Zenon DEF TimePasses, InflightExpires
  <2> QED BY <2>1, <2>2, <2>3, <2>4, <2>5, <2>6, <2>7
<1>8. CASE UNCHANGED <<vars, wvars>>
  BY <1>8 DEF wvars
<1> QED
  BY <1>1, <1>2, <1>3, <1>4, <1>5, <1>6, <1>7, <1>8, <1>9 DEF WarmNext

\* Every reachable state of the schedulers and of the day they look after is well typed.
THEOREM WarmTypeCorrect == WarmSpec => []WarmTypeOK
  BY WarmInitTyped, WarmTypeStep, WarmImplementsLock, TypeCorrect, PTL DEF WarmSpec, WarmTypeOK
-----------------------------------------------------------------------------
\* The beat of the schedulers, until the first fault. A scheduler is inside the lock
\* during its cycle only, and no tick passes while one is, so nobody overruns and the
\* key is there only as long as its holder.
InCycle == \A p \in Procs : p \in inside <=> sched[p] \in {"claim", "enqueue", "release"}
KeyIsHeld == ~overrun /\ (inside = {} => key = None)

\* The cooldown is what the time since the last enqueue leaves of it, except between
\* the claim and the enqueue.
Claiming == \E p \in Procs : sched[p] = "enqueue"
CooldownTells ==
    IF Claiming THEN cooldown = Cooldown /\ sinceEnqueue >= Cooldown
                ELSE cooldown = IF sinceEnqueue < Cooldown THEN Cooldown - sinceEnqueue ELSE 0
JustClaimed == \A p \in Procs : sched[p] = "release" => sinceEnqueue < Cooldown

\* A scheduler that sees to the next beat: it sleeps until then at the latest, is
\* about to sleep and will wake in time, or is at it.
SeesTo(p) ==
    \/ sched[p] = "wait" /\ timer[p] + sinceEnqueue <= Beat
    \/ sched[p] = "release" /\ sinceEnqueue < Cooldown
    \/ sched[p] \in {"claim", "enqueue"}
InTime == sinceEnqueue <= Beat /\ \E p \in Procs : SeesTo(p)

BeatInv == InCycle /\ KeyIsHeld /\ CooldownTells /\ JustClaimed /\ InTime

\* Faults are counted and never forgotten.
LEMMA FaultsGrow ==
  ASSUME WarmTyped, [WarmNext]_<<vars, wvars>>
  PROVE  faults' = faults \/ faults' = faults + 1
<1> USE DEF WarmTyped, Fault
<1>1. ASSUME NEW p \in Procs, CycleStep(p) \/ Restart(p) \/ WorkerDies(p) PROVE faults' = faults \/ faults' = faults + 1
  BY <1>1 DEF CycleStep, Elected, NotElected, Claim, Enqueue, EndCycle, Restart, WorkerDies
<1>2. CASE WarmStep
  BY <1>2 DEF WarmStep, Dequeue, Check, Guard, StartBuild, EndBuild, BuildFails
<1>3. CASE UserStarts \/ UserEnds \/ UserFails \/ DaySpoolGone \/ TimePasses
  BY <1>3 DEF UserStarts, UserEnds, UserFails, DaySpoolGone, TimePasses
<1>4. CASE UNCHANGED <<vars, wvars>>
  BY <1>4 DEF wvars
<1> QED
  BY <1>1, <1>2, <1>3, <1>4 DEF WarmNext

\* At most one scheduler is in its cycle, and then the lock is taken.
LEMMA OneInCycle ==
  ASSUME IInv, BeatInv, NEW p \in Procs, sched[p] \in {"claim", "enqueue", "release"}
  PROVE  /\ key = p /\ key # None
         /\ \A q \in Procs \ {p} : sched[q] \notin {"claim", "enqueue", "release"}
  BY LockAssumption DEF IInv, HolderHasKey, BeatInv, InCycle, KeyIsHeld

LEMMA BeatStep ==
  ASSUME IInv, WarmTyped, faults = 0 => BeatInv, [WarmNext]_<<vars, wvars>>, faults' = 0
  PROVE  BeatInv'
<1>0. faults = 0 /\ BeatInv
  BY FaultsGrow DEF WarmTyped
<1> USE <1>0, WarmNumbers, LockAssumption DEF WarmTyped, Move, Sleep, Fault
<1> USE DEF Beat, BeatInv, InCycle, KeyIsHeld, CooldownTells, Claiming, JustClaimed, InTime, SeesTo
<1>1. ASSUME NEW p \in Procs, Restart(p) PROVE BeatInv'
  <2>1. /\ sched[p] = "wait" /\ timer' = [timer EXCEPT ![p] = 0]
        /\ UNCHANGED <<vars, sched, cooldown, sinceEnqueue>>
    BY <1>1 DEF Restart
  <2>2. SeesTo(p)'
    BY <2>1
  <2>3. InCycle' /\ KeyIsHeld' /\ JustClaimed' /\ CooldownTells'
    BY <2>1 DEF vars
  <2> QED BY <2>1, <2>2, <2>3
<1>2. ASSUME NEW p \in Procs, Elected(p) PROVE BeatInv'
  BY <1>2 DEF Elected, Acquire, SetNxEx
<1>3. ASSUME NEW p \in Procs, NotElected(p) PROVE BeatInv'
  \* Somebody is in its cycle, and sees to the beat.
  <2>1. /\ sched[p] = "wait" /\ sched' = [sched EXCEPT ![p] = "wait"]
        /\ timer' = [timer EXCEPT ![p] = Interval]
        /\ key # None /\ UNCHANGED <<vars, cooldown, sinceEnqueue>>
    BY <1>3 DEF NotElected
  <2>2. PICK q \in Procs : q # p /\ sched[q] \in {"claim", "enqueue", "release"}
    BY <2>1 DEF IInv, TypeOK
  <2>3. \A r \in Procs : sched'[r] = sched[r]
    BY <2>1
  <2>4. InCycle' /\ KeyIsHeld' /\ JustClaimed' /\ CooldownTells'
    BY <2>1, <2>3 DEF vars
  <2>5. SeesTo(q)'
    BY <2>1, <2>2, <2>3
  <2> QED BY <2>1, <2>4, <2>5
<1>4. ASSUME NEW p \in Procs, Claim(p) PROVE BeatInv'
  <2>1. \A q \in Procs \ {p} : sched[q] \notin {"claim", "enqueue", "release"} /\ sched'[q] = sched[q]
    BY <1>4, OneInCycle DEF Claim
  <2>2. CASE cooldown = 0
    \* Nobody has enqueued for as long as the cooldown.
    <3>1. sched'[p] = "enqueue" /\ cooldown' = Cooldown /\ sinceEnqueue >= Cooldown
      BY <1>4, <2>1, <2>2 DEF Claim
    <3>2. InCycle' /\ KeyIsHeld' /\ JustClaimed'
      BY <1>4, <2>1, <3>1 DEF Claim, vars
    <3>3. CooldownTells'
      BY <1>4, <3>1 DEF Claim
    <3>4. InTime'
      BY <1>4, <2>1, <3>1 DEF Claim
    <3> QED BY <3>2, <3>3, <3>4
  <2>3. CASE cooldown > 0
    \* Then the beat is not due, and somebody else sees to it.
    <3>1. sched'[p] = "release" /\ cooldown' = cooldown /\ sinceEnqueue < Cooldown
      BY <1>4, <2>1, <2>3 DEF Claim
    <3>2. InCycle' /\ KeyIsHeld' /\ JustClaimed'
      BY <1>4, <2>1, <3>1 DEF Claim, vars
    <3>3. CooldownTells'
      BY <1>4, <2>1, <3>1 DEF Claim
    <3>4. InTime'
      BY <1>4, <2>1, <3>1 DEF Claim
    <3> QED BY <3>2, <3>3, <3>4
  <2> QED BY <2>2, <2>3
<1>5. ASSUME NEW p \in Procs, Enqueue(p) PROVE BeatInv'
  <2>1. \A q \in Procs \ {p} : sched[q] \notin {"claim", "enqueue", "release"} /\ sched'[q] = sched[q]
    BY <1>5, OneInCycle DEF Enqueue
  <2>2. sched'[p] = "release" /\ sinceEnqueue' = 0 /\ cooldown' = Cooldown
    BY <1>5 DEF Enqueue
  <2>3. InCycle' /\ KeyIsHeld' /\ JustClaimed'
    BY <1>5, <2>1, <2>2 DEF Enqueue, vars
  <2>4. CooldownTells'
    BY <2>1, <2>2
  <2>5. InTime'
    BY <2>2
  <2> QED BY <2>3, <2>4, <2>5
<1>6. ASSUME NEW p \in Procs, EndCycle(p) PROVE BeatInv'
  <2>1. /\ inside' = inside \ {p} /\ key' = None /\ ~overrun'
        /\ sched' = [sched EXCEPT ![p] = "wait"] /\ timer' = [timer EXCEPT ![p] = Interval]
        /\ UNCHANGED <<cooldown, sinceEnqueue>> /\ sched[p] = "release"
    BY <1>6 DEF EndCycle, Release, Leave, Delete
  <2>2. InCycle' /\ KeyIsHeld' /\ JustClaimed'
    BY <2>1
  <2>3. CooldownTells'
    BY <2>1
  <2>4. InTime'
    BY <2>1
  <2> QED BY <2>2, <2>3, <2>4
<1>7. ASSUME NEW p \in Procs, WorkerDies(p) PROVE BeatInv'
  BY <1>7 DEF WorkerDies
<1>8. CASE TimePasses
  \* All schedulers sleep, and the one that sees to the beat is not late.
  <2>1. \A p \in Procs : sched[p] = "wait" /\ timer[p] > 0
    BY <1>8 DEF TimePasses, Prompt
  <2>2. /\ sched' = sched /\ timer' = [p \in Procs |-> timer[p] - 1]
        /\ cooldown' = IF cooldown > 0 THEN cooldown - 1 ELSE 0
        /\ sinceEnqueue' = sinceEnqueue + 1
    BY <1>8, <2>1 DEF TimePasses, Less, Fault
  <2>3. inside = {} /\ inside' = {} /\ key' = None /\ ~overrun'
    BY <1>8, <2>1 DEF TimePasses, Tick, IInv, TypeOK
  <2>4. InCycle' /\ KeyIsHeld' /\ JustClaimed' /\ CooldownTells'
    BY <2>1, <2>2, <2>3
  <2>5. PICK p \in Procs : timer[p] + sinceEnqueue <= Beat
    BY <2>1
  <2>6. sinceEnqueue' <= Beat /\ timer'[p] + sinceEnqueue' <= Beat /\ sched'[p] = "wait"
    BY <2>1, <2>2, <2>5
  <2> QED BY <2>4, <2>6
<1>9. CASE WarmStep \/ UserStarts \/ UserEnds \/ UserFails \/ DaySpoolGone
  <2>1. UNCHANGED schedule
    BY <1>9 DEF WarmStep, Dequeue, Check, Guard, StartBuild, EndBuild, BuildFails, UserStarts, UserEnds,
       UserFails, DaySpoolGone
  <2> QED BY <2>1 DEF schedule, vars
<1>10. CASE UNCHANGED <<vars, wvars>>
  BY <1>10 DEF vars, wvars
<1> QED
  BY <1>1, <1>2, <1>3, <1>4, <1>5, <1>6, <1>7, <1>8, <1>9, <1>10 DEF WarmNext, CycleStep

WarmInv == IInv /\ WarmTyped /\ (faults = 0 => BeatInv)

LEMMA WarmInvariant == WarmSpec => []WarmInv
<1>1. WarmInit => BeatInv
  <2> SUFFICES ASSUME WarmInit PROVE BeatInv
    OBVIOUS
  <2> USE WarmNumbers DEF WarmInit, Init
  <2>1. InCycle /\ KeyIsHeld /\ JustClaimed
    BY DEF InCycle, KeyIsHeld, JustClaimed
  <2>2. CooldownTells
    BY DEF CooldownTells, Claiming
  <2>3. InTime
    BY DEF InTime, SeesTo, Beat
  <2> QED BY <2>1, <2>2, <2>3 DEF BeatInv
<1>2. WarmInv /\ [WarmNext]_<<vars, wvars>> => (faults = 0 => BeatInv)'
  BY BeatStep DEF WarmInv
<1>3. WarmSpec => []IInv
  BY WarmImplementsLock, LockInvariant
<1> QED
  BY <1>1, <1>2, <1>3, WarmTypeCorrect, PTL DEF WarmInv, WarmSpec, WarmTypeOK

\* However many schedulers there are, whenever they start, wake or are replaced and
\* whoever of them is elected, jobs are enqueued at intervals of no less than Cooldown
\* and no more than Beat, until the first fault.
THEOREM BeatCorrect == WarmSpec => OneBeat
<1> DEFINE Kept == faults' = 0 => /\ (\E p \in Procs : Enqueue(p)) => sinceEnqueue >= Cooldown
                                  /\ sinceEnqueue' <= Beat
<1>1. WarmInv /\ WarmInv' /\ [WarmNext]_<<vars, wvars>> => [Kept]_<<vars, wvars>>
  <2> SUFFICES ASSUME WarmInv, WarmInv', faults' = 0, [WarmNext]_<<vars, wvars>>
               PROVE  /\ (\E p \in Procs : Enqueue(p)) => sinceEnqueue >= Cooldown
                      /\ sinceEnqueue' <= Beat
    OBVIOUS
  <2>1. faults = 0
    BY FaultsGrow DEF WarmInv, WarmTyped
  <2>2. (\E p \in Procs : Enqueue(p)) => Claiming
    BY DEF Enqueue, Move, Claiming
  <2> QED BY <2>1, <2>2 DEF WarmInv, BeatInv, CooldownTells, InTime
<1>2. WarmSpec => [][Kept]_<<vars, wvars>>
  <2> HIDE DEF Kept
  <2> QED BY <1>1, WarmInvariant, PTL DEF WarmSpec
<1> QED BY <1>2 DEF OneBeat
-----------------------------------------------------------------------------
\* The age of today's rows, until the first fault. Builds are short, a spool that was
\* registered less than Interval ago is explained by its build, and the inflight key
\* is set by a build that goes on.
Looking == warm.at \in {"check", "guard", "start"}

ShortBuilds == \A job \in {warm, user} : job.at = "write" => job.data.age <= MaxBuild
RecentlyQueried ==
    daySpool.there /\ daySpool.since < Interval => daySpool.data.age <= daySpool.since + MaxBuild
MarkedByBuild == inflight => \E job \in {warm, user} : job.at = "write" /\ job.data.age = 0
LooksAtToday == phase = "today" /\ warm.at = "check" => warm.isToday

\* A spool found fresh is no older than FreshAge, and ages until the next beat; a spool
\* that the beat found stale has a job on its way, or a build, begun after the beat.
FreshAge == Threshold - 1 + MaxBuild
Awaited == "today" \in queue \/ Looking
AgeExplained ==
    phase = "today" /\ daySpool.there =>
        \/ daySpool.data.age <= FreshAge + sinceEnqueue
        \/ Awaited /\ daySpool.data.age <= FreshAge + Beat
        \/ \E job \in {warm, user} :
              job.at = "write" /\ daySpool.data.age <= FreshAge + Beat + job.data.age

DayInv == ShortBuilds /\ RecentlyQueried /\ MarkedByBuild /\ LooksAtToday /\ AgeExplained

LEMMA RegisteredYoung ==
  ASSUME WarmTyped, WarmTyped', RecentlyQueried, NEW d \in Data, d.age <= MaxBuild, Registers(d)
  PROVE  RecentlyQueried' /\ daySpool'.data.age <= MaxBuild
<1>1. daySpool'.data.age \in Nat /\ daySpool'.since \in Nat /\ d.age \in Nat
  BY MaxAgeType DEF WarmTyped, Data, Ages
<1>2. daySpool'.data.age <= MaxBuild
  BY <1>1, WarmNumbers DEF Registers
<1> QED BY <1>1, <1>2, WarmNumbers DEF RecentlyQueried

LEMMA DayStep ==
  ASSUME WarmInv, WarmInv', faults = 0 => DayInv, [WarmNext]_<<vars, wvars>>, faults' = 0
  PROVE  DayInv'
<1>0. faults = 0 /\ DayInv /\ BeatInv /\ BeatInv' /\ WarmTyped /\ WarmTyped'
  BY FaultsGrow DEF WarmInv, WarmTyped
<1>i. sinceEnqueue \in Nat /\ sinceEnqueue <= Beat /\ sinceEnqueue' \in Nat
  BY <1>0, WarmNumbers, MaxAgeType DEF WarmTyped, BeatInv, InTime
<1>d. /\ daySpool.data.age \in Nat /\ daySpool.since \in Nat
      /\ warm.data.age \in Nat /\ user.data.age \in Nat /\ FreshAge \in Nat
  BY <1>0, MaxAgeType, WarmNumbers DEF WarmTyped, Data, Ages, FreshAge
<1> USE <1>0, <1>i, <1>d, WarmNumbers, MaxAgeType
<1> USE DEF DayInv, ShortBuilds, RecentlyQueried, MarkedByBuild, LooksAtToday, AgeExplained, Awaited, Looking
<1>1. ASSUME NEW p \in Procs, CycleStep(p) PROVE DayInv'
  <2>1. UNCHANGED day
    BY <1>1 DEF CycleStep, Elected, NotElected, Claim, Enqueue, EndCycle
  <2>2. CASE UNCHANGED <<queue, sinceEnqueue>>
    BY <2>1, <2>2 DEF day
  <2>3. CASE Enqueue(p)
    <3>1. queue' = {"today", "yesterday"}
      BY <2>3 DEF Enqueue, Fault
    <3> QED BY <2>1, <3>1 DEF day
  <2> QED BY <1>1, <2>2, <2>3 DEF CycleStep, Elected, NotElected, Claim, EndCycle
<1>2. ASSUME NEW p \in Procs, Restart(p) \/ WorkerDies(p) PROVE DayInv'
  BY <1>2 DEF Restart, WorkerDies, Fault, day
<1>3. CASE Dequeue
  \* As long as D is today, a job of today's looks after it and one of yesterday's does not.
  <2>1. PICK kind \in queue : /\ queue' = queue \ {kind}
                             /\ warm' = IF Concerns(kind)
                                        THEN [Idle EXCEPT !.at = "check", !.isToday = (kind = "today")]
                                        ELSE Idle
    BY <1>3 DEF Dequeue
  <2>2. warm.at = "idle" /\ UNCHANGED <<schedule, phase, daySpool, inflight, user>>
    BY <1>3 DEF Dequeue
  <2>3. warm'.at \in {"idle", "check"} /\ (phase = "today" /\ warm'.at = "check" => warm'.isToday)
    BY <2>1 DEF Idle, Concerns
  <2>4. phase = "today" /\ Awaited => Awaited'
    BY <2>1, <2>2 DEF Idle, Concerns
  <2> QED BY <2>2, <2>3, <2>4 DEF schedule
<1>4. CASE Check
  BY <1>4 DEF Check, schedule, Idle, Fresh, Stale, FreshAge
<1>5. CASE Guard
  BY <1>5 DEF Guard, schedule, Idle
<1>6. CASE StartBuild
  BY <1>6 DEF StartBuild, schedule, Snapshot
<1>7. CASE EndBuild
  <2>1. warm.data \in Data /\ warm.data.age <= MaxBuild /\ Registers(warm.data)
    BY <1>7 DEF EndBuild, WarmTyped
  <2>2. RecentlyQueried' /\ daySpool'.data.age <= MaxBuild
    BY <2>1, RegisteredYoung
  <2>3. warm'.at = "idle" /\ ~inflight' /\ UNCHANGED <<schedule, queue, phase, user>>
    BY <1>7 DEF EndBuild, Idle
  <2>4. daySpool'.data.age \in Nat /\ MaxBuild <= FreshAge
    BY MaxAgeType DEF FreshAge, WarmTyped, Data, Ages
  <2>5. AgeExplained'
    BY <2>2, <2>3, <2>4 DEF schedule
  <2> QED BY <2>2, <2>3, <2>5
<1>8. CASE UserStarts
  BY <1>8 DEF UserStarts, schedule, Snapshot
<1>9. CASE UserEnds
  <2>1. user.data \in Data /\ user.data.age <= MaxBuild /\ Registers(user.data)
    BY <1>9 DEF UserEnds, WarmTyped
  <2>2. RecentlyQueried' /\ daySpool'.data.age <= MaxBuild
    BY <2>1, RegisteredYoung
  <2>3. user'.at = "idle" /\ ~inflight' /\ UNCHANGED <<schedule, queue, phase, warm>>
    BY <1>9 DEF UserEnds
  <2>4. daySpool'.data.age \in Nat /\ MaxBuild <= FreshAge
    BY MaxAgeType DEF FreshAge, WarmTyped, Data, Ages
  <2>5. AgeExplained'
    BY <2>2, <2>3, <2>4 DEF schedule
  <2> QED BY <2>2, <2>3, <2>5
<1>10. CASE BuildFails \/ UserFails
  BY <1>10 DEF BuildFails, UserFails, Fault
<1>11. CASE DaySpoolGone
  BY <1>11 DEF DaySpoolGone, NoSpool, schedule
<1>12. CASE TimePasses
  \* Nothing waits but builds, so everything ages alike.
  <2>1. queue = {} /\ warm.at \in {"idle", "write"}
        /\ \A job \in {warm, user} : job.at = "write" => job.data.age < MaxBuild
    BY <1>12 DEF TimePasses, Prompt, Fault, WarmTyped
  <2>2. /\ UNCHANGED queue /\ ~inflight' /\ sinceEnqueue' = sinceEnqueue + 1
        /\ (phase' = "today" => phase = "today")
    BY <1>12 DEF TimePasses, InflightExpires, DayGoesOn
  <2>3. MaxBuild <= MaxAge
    BY DEF MaxAge
  <2>4. warm'.at = warm.at /\ (warm.at = "write" => warm'.data.age = warm.data.age + 1)
    BY <1>12, <2>1, <2>3, MaxAgeType DEF TimePasses, Later, Older, WarmTyped, Data
  <2>5. user'.at = user.at /\ (user.at = "write" => user'.data.age = user.data.age + 1)
    BY <1>12, <2>1, <2>3, MaxAgeType DEF TimePasses, Later, Older, WarmTyped, Data
  <2>6. /\ daySpool'.there = daySpool.there
        /\ daySpool.there => /\ daySpool'.data.age \in {daySpool.data.age, daySpool.data.age + 1}
                             /\ daySpool'.since = IF daySpool.since < Interval
                                                  THEN daySpool.since + 1 ELSE daySpool.since
    BY <1>12, MaxAgeType DEF TimePasses, Older, WarmTyped, Data
  <2>7. ShortBuilds' /\ MarkedByBuild' /\ LooksAtToday'
    BY <2>1, <2>2, <2>4, <2>5
  <2>8. RecentlyQueried'
    BY <2>6
  <2>9. AgeExplained'
    BY <2>1, <2>2, <2>4, <2>5, <2>6
  <2> QED BY <2>7, <2>8, <2>9
<1>13. CASE UNCHANGED <<vars, wvars>>
  BY <1>13 DEF wvars
<1> QED
  BY <1>1, <1>2, <1>3, <1>4, <1>5, <1>6, <1>7, <1>8, <1>9, <1>10, <1>11, <1>12, <1>13 DEF WarmNext, WarmStep

\* The page of today is never further behind than one beat and two builds explain,
\* for any number of schedulers and of requests, until the first fault.
THEOREM FollowCorrect == WarmSpec => []TodayFollows
<1>1. WarmInit => DayInv
  BY DEF WarmInit, NoSpool, Idle, DayInv, ShortBuilds, RecentlyQueried, MarkedByBuild, LooksAtToday, AgeExplained
<1>2. WarmInv /\ WarmInv' /\ (faults = 0 => DayInv) /\ [WarmNext]_<<vars, wvars>> => (faults = 0 => DayInv)'
  BY DayStep
<1>3. WarmInv /\ (faults = 0 => DayInv) => TodayFollows
  <2> SUFFICES ASSUME WarmInv, DayInv, faults = 0, phase = "today", daySpool.there
               PROVE  daySpool.data.age <= MaxAge
    BY DEF TodayFollows
  <2>1. /\ daySpool.data.age \in Nat /\ warm.data.age \in Nat /\ user.data.age \in Nat
        /\ sinceEnqueue \in Nat /\ sinceEnqueue <= Beat
    BY MaxAgeType, WarmNumbers DEF WarmInv, WarmTyped, Data, Ages, BeatInv, InTime
  <2> QED BY <2>1, WarmNumbers, MaxAgeType DEF DayInv, AgeExplained, ShortBuilds, FreshAge, MaxAge
<1> QED
  BY <1>1, <1>2, <1>3, WarmInvariant, PTL DEF WarmSpec
=============================================================================
