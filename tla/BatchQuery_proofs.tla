------------------------- MODULE BatchQuery_proofs --------------------------
(***************************************************************************)
(* For any range of days, grain, parallelism and number of requesters: the *)
(* lock excludes those in time, the merge repeats no day, a spool file     *)
(* without the rows of some chunk has its flag, and no run replaces a      *)
(* spool file, until two runs, or a run and the job, overlap.              *)
(***************************************************************************)
EXTENDS BatchQuery, FiniteSetTheorems, TLAPS

LEMMA TotalType == Total \in Nat \ {0} /\ 0 \in Chunks
  BY BatchAssumption DEF Total, Chunks

LEMMA ChunkTyped ==
  ASSUME NEW i \in Nat
  PROVE  Chunk(i) \subseteq AllDays
  BY BatchAssumption DEF Chunk, Cursor, ChunkEnd, AllDays

\* A chunk begins after the one before it ends.
LEMMA ChunkBounds ==
  ASSUME NEW i \in Nat, NEW d \in AllDays
  PROVE  /\ i * Grain \in Nat /\ (i + 1) * Grain = i * Grain + Grain
         /\ d \in Chunk(i) <=> d > i * Grain /\ d <= (i + 1) * Grain
  BY BatchAssumption DEF Chunk, Cursor, ChunkEnd, AllDays

\* The last cursor is in the range.
LEMMA CursorInRange ==
  ASSUME NEW c \in Chunks
  PROVE  Cursor(c) \in Chunk(c)
<1> USE BatchAssumption
<1>1. Total * Grain <= Days + Grain - 1
  BY DEF Total
<1>2. c \in Nat /\ c + 1 <= Total /\ Total \in Nat
  BY TotalType DEF Chunks
<1>3. (c + 1) * Grain <= Total * Grain /\ (c + 1) * Grain = c * Grain + Grain
  BY <1>2
<1>4. c * Grain \in Nat /\ Total * Grain \in Nat
  BY <1>2
<1>5. Cursor(c) <= Days /\ Cursor(c) \in Nat
  <2> DEFINE a == c * Grain  b == Total * Grain
  <2>1. a \in Nat /\ b \in Nat /\ a + Grain <= b /\ b <= Days + Grain - 1
    BY <1>1, <1>3, <1>4
  <2> HIDE DEF a, b
  <2>2. a + 1 <= Days /\ a + 1 \in Nat
    BY <2>1
  <2> QED BY <2>2 DEF Cursor, a
<1> QED BY <1>5 DEF Chunk, ChunkEnd

LEMMA RangeWhole == Whole(AllDays) /\ AllDays # {}
<1>1. ASSUME NEW c \in Chunks PROVE Chunk(c) \cap AllDays # {}
  BY <1>1, CursorInRange, ChunkTyped, TotalType DEF Chunks
<1> QED BY <1>1, TotalType DEF Whole
-----------------------------------------------------------------------------
LEMMA InitTyped == Init => TypeOK
<1> SUFFICES ASSUME Init PROVE TypeOK
  OBVIOUS
<1>1. faults \in 0 .. MaxFaults /\ at \in [Procs -> Chunks]
  BY BatchAssumption, FaultsAssumption, TotalType DEF Init
<1> QED
  BY <1>1 DEF Init, TypeOK, States, Working

\* What is kept of a chunk are days of the chunk.
KeptOK == kept \in [Chunks -> SUBSET AllDays] /\ \A c \in Chunks : kept[c] \subseteq Chunk(c)

LEMMA ClearsTyped == KeptOK /\ (Clears \/ UNCHANGED kept) => KeptOK'
  BY DEF KeptOK, Clears

LEMMA KeepTyped ==
  ASSUME KeptOK, NEW c \in Chunks, NEW days \in SUBSET Chunk(c), Keep(c, days)
  PROVE  KeptOK'
<1>1. days \subseteq AllDays
  BY ChunkTyped, TotalType DEF Chunks
<1> QED BY <1>1 DEF KeptOK, Keep

LEMMA TypeStep == TypeOK /\ [Next]_vars => TypeOK'
<1> SUFFICES ASSUME TypeOK, [Next]_vars PROVE TypeOK'
  OBVIOUS
<1>k. KeptOK
  BY DEF TypeOK, KeptOK
<1> USE BatchAssumption, FaultsAssumption, TotalType DEF TypeOK, States, Working, Goto, Fault, locking, run, batch,
    store, stored
<1>1. ASSUME NEW p \in Procs, Hit(p) \/ Miss(p) \/ MissAgain(p) \/ StopWaiting(p) \/ NoLock(p)
      PROVE  TypeOK'
  BY <1>1 DEF Hit, Miss, MissAgain, Overlap, StopWaiting, NoLock
<1>2. ASSUME NEW p \in Procs, TakeLock(p) PROVE TypeOK'
  BY <1>2 DEF TakeLock, Enter
<1>3. ASSUME NEW p \in Procs, Release(p) PROVE TypeOK'
  BY <1>3 DEF Release, DeleteOwn
<1>4. ASSUME NEW p \in Procs, Clear(p) \/ Wipe(p) PROVE TypeOK'
  <2>1. KeptOK' /\ meta' \in {"absent", "whole", "partial"} /\ faults' \in 0 .. MaxFaults
    <3>1. Clears \/ UNCHANGED <<kept, meta>>
      BY <1>4 DEF Clear, Wipe
    <3> QED BY <1>4, <1>k, <3>1, ClearsTyped DEF Clear, Wipe, Clears
  <2>2. pc' \in [Procs -> States]
    BY <1>4 DEF Clear, Wipe
  <2> QED BY <1>4, <2>1, <2>2 DEF Clear, Wipe, KeptOK
<1>5. ASSUME NEW p \in Procs, Start(p) PROVE TypeOK'
  BY <1>5 DEF Start, Progress
<1>6. ASSUME NEW p \in Procs, NEW c \in Chunks, NEW days \in Outcomes(c), Query(p, c, days) PROVE TypeOK'
  <2>1. KeptOK'
    <3>1. days \subseteq Chunk(c)
      BY DEF Outcomes
    <3> QED BY <1>6, <1>k, <3>1, KeepTyped DEF Query
  <2>2. /\ failed' \in [Procs -> BOOLEAN] /\ todo' \in [Procs -> SUBSET Chunks]
        /\ meta' \in {"absent", "whole", "partial"} /\ faults' \in 0 .. MaxFaults
    BY <1>6 DEF Query, Progress, Found
  <2> QED BY <1>6, <2>1, <2>2 DEF Query, KeptOK
<1>7. ASSUME NEW p \in Procs, Finish(p) PROVE TypeOK'
  BY <1>7 DEF Finish, Progress, Found
<1>8. ASSUME NEW p \in Procs, ReadTotal(p) PROVE TypeOK'
  BY <1>8 DEF ReadTotal, MergeAt
<1>9. ASSUME NEW p \in Procs, Merge(p) PROVE TypeOK'
  <2>1. at[p] \in Chunks /\ kept[at[p]] \subseteq AllDays
    OBVIOUS
  <2>2. at[p] + 1 # Total => at[p] + 1 \in Chunks
    BY <2>1 DEF Chunks
  <2>3. at' \in [Procs -> Chunks] /\ pc' \in [Procs -> States]
    BY <1>9, <2>2 DEF Merge, MergeAt
  <2> QED BY <1>9, <2>1, <2>3 DEF Merge
<1>10. ASSUME NEW p \in Procs, MergeFails(p) PROVE TypeOK'
  BY <1>10 DEF MergeFails
<1>11. ASSUME NEW p \in Procs, Report(p) PROVE TypeOK'
  <2>1. (meta = "partial") \in BOOLEAN
    OBVIOUS
  <2>2. marked' \in [Procs -> BOOLEAN]
    BY <1>11, <2>1, Zenon DEF Report
  <2>3. pc' \in [Procs -> States] /\ faults' \in 0 .. MaxFaults
    BY <1>11 DEF Report
  <2> QED BY <1>11, <2>2, <2>3, Zenon DEF Report
<1>12. ASSUME NEW p \in Procs, Register(p) \/ Flag(p) PROVE TypeOK'
  <2>1. CASE Register(p)
    <3>1. spool' \subseteq AllDays /\ copied' \subseteq AllDays
      BY <2>1 DEF Register, Replace
    <3>2. flag' \in {"none", "set", "old"} /\ faults' \in 0 .. MaxFaults
      BY <2>1 DEF Register, Renew
    <3>3. l1' \in {l1, [l1 EXCEPT ![p] = TRUE]}
      BY <2>1, Zenon DEF Register
    <3>4. l1' \in [Procs -> BOOLEAN]
      BY <3>3
    <3>5. pc' \in [Procs -> States] /\ got' \in [Procs -> SUBSET AllDays]
      BY <2>1 DEF Register
    <3> QED BY <2>1, <3>1, <3>2, <3>4, <3>5 DEF Register
  <2>2. CASE Flag(p)
    BY <2>2 DEF Flag
  <2> QED BY <1>12, <2>1, <2>2
<1>13. ASSUME NEW p \in Procs, Evict(p) PROVE TypeOK'
  BY <1>13 DEF Evict
<1>14. ASSUME NEW p \in Procs, Die(p) PROVE TypeOK'
  BY <1>14 DEF Die
<1>15. CASE LockExpires
  BY <1>15 DEF LockExpires
<1>16. CASE SpoolGone \/ FlagGone \/ JobWrites \/ JobRegisters \/ \E c \in Chunks : ChunkGone(c)
  <2>1. CASE SpoolGone
    BY <2>1 DEF SpoolGone
  <2>2. CASE FlagGone
    BY <2>2 DEF FlagGone
  <2>3. ASSUME NEW c \in Chunks, ChunkGone(c) PROVE TypeOK'
    BY <2>3 DEF ChunkGone
  <2>4. CASE JobWrites
    BY <2>4 DEF JobWrites
  <2>5. CASE JobRegisters
    BY <2>5 DEF JobRegisters, Renew
  <2> QED BY <1>16, <2>1, <2>2, <2>3, <2>4, <2>5
<1>17. CASE UNCHANGED vars
  BY <1>17 DEF vars
<1> QED
  BY <1>1, <1>2, <1>3, <1>4, <1>5, <1>6, <1>7, <1>8, <1>9, <1>10, <1>11, <1>12, <1>13, <1>14,
     <1>15, <1>16, <1>17 DEF Next, Step

\* Every reachable state is well typed.
THEOREM TypeCorrect == Spec => []TypeOK
  BY InitTyped, TypeStep, PTL DEF Spec
-----------------------------------------------------------------------------
\* Who is inside in time is the owner in the key.
Owned == \A p \in inside \ late : lock = p

LEMMA OwnedStep ==
  ASSUME TypeOK, Owned, [Next]_vars
  PROVE  Owned'
<1> USE BatchAssumption DEF TypeOK, Owned, locking
<1>1. ASSUME NEW p \in Procs, TakeLock(p) PROVE Owned'
  BY <1>1 DEF TakeLock, Enter
<1>2. ASSUME NEW p \in Procs, Release(p) PROVE Owned'
  BY <1>2 DEF Release, DeleteOwn
<1>3. ASSUME NEW p \in Procs, Die(p) PROVE Owned'
  BY <1>3 DEF Die
<1>4. CASE LockExpires
  BY <1>4 DEF LockExpires
<1>5. CASE UNCHANGED locking
  BY <1>5
<1>6. ASSUME NEW p \in Procs, Step(p), ~TakeLock(p), ~Release(p) PROVE UNCHANGED locking
  BY <1>6 DEF Step, Hit, Miss, MissAgain, NoLock, StopWaiting, Clear, Start, Query, Finish, ReadTotal, Merge,
     MergeFails, Report, Wipe, Register, Flag
<1> QED
  BY <1>1, <1>2, <1>3, <1>4, <1>5, <1>6
  DEF Next, vars, Evict, ChunkGone, SpoolGone, FlagGone, JobWrites, JobRegisters

\* _acquire_query_lock and _release_query_lock exclude: the release of a thread whose
\* lock expired never opens the door behind the next one.
THEOREM LockCorrect == Spec => []InTimeExclude
<1>1. Init => Owned
  BY DEF Init, Owned
<1>2. TypeOK /\ Owned /\ [Next]_vars => Owned'
  BY OwnedStep
<1>3. TypeOK /\ Owned => InTimeExclude
  <2> SUFFICES ASSUME Owned PROVE InTimeExclude
    OBVIOUS
  <2>1. inside \ late \in SUBSET {lock}
    BY DEF Owned
  <2>2. IsFiniteSet({lock}) /\ Cardinality({lock}) = 1
    BY FS_Singleton
  <2>3. /\ IsFiniteSet(inside \ late) /\ Cardinality(inside \ late) \in Nat
        /\ Cardinality(inside \ late) <= Cardinality({lock})
    BY <2>1, <2>2, FS_Subset, FS_CardinalityType
  <2> QED
    BY <2>2, <2>3 DEF InTimeExclude
<1> QED
  BY <1>1, <1>2, <1>3, TypeCorrect, PTL DEF Spec

\* The threads in time see a semaphore of one slot.
InTime == inside \ late

Mutex == INSTANCE Semaphore WITH Callers <- Procs, MaxConcurrent <- 1, holders <- InTime

LEMMA MutexStep == TypeOK /\ Owned /\ [Next]_vars => [Mutex!Steps]_InTime
<1> SUFFICES ASSUME TypeOK, Owned, [Next]_vars PROVE [Mutex!Steps]_InTime
  OBVIOUS
<1> USE DEF TypeOK, Owned, InTime, locking
<1>1. ASSUME NEW p \in Procs, TakeLock(p), ~(InTime' \subseteq InTime) PROVE Mutex!Take(p)
  \* The key was free, so nobody was inside in time.
  <2>1. InTime = {} /\ InTime' = {p}
    BY <1>1, BatchAssumption DEF TakeLock, Enter
  <2>2. Mutex!Cardinality({}) = 0
    BY FS_EmptySet DEF Mutex!Cardinality, Cardinality
  <2> HIDE DEF InTime
  <2> QED BY <2>1, <2>2 DEF Mutex!Take
<1>2. (\E p \in Procs : Mutex!Take(p)) \/ InTime' \subseteq InTime => [Mutex!Steps]_InTime
  BY DEF Mutex!Steps, Mutex!Lose
<1>3. ASSUME NEW p \in Procs, Release(p) \/ Die(p) PROVE InTime' \subseteq InTime
  BY <1>3 DEF Release, Die
<1>4. CASE LockExpires \/ UNCHANGED locking
  <2>1. InTime' \subseteq InTime
    BY <1>4 DEF LockExpires
  <2> HIDE DEF InTime
  <2> QED BY <2>1, <1>2
<1>5. ASSUME NEW p \in Procs, Step(p), ~TakeLock(p), ~Release(p) PROVE UNCHANGED locking
  BY <1>5 DEF Step, Hit, Miss, MissAgain, NoLock, StopWaiting, Clear, Start, Query, Finish, ReadTotal, Merge,
     MergeFails, Report, Wipe, Register, Flag
<1>6. \/ \E p \in Procs : TakeLock(p) \/ Release(p) \/ Die(p)
      \/ LockExpires \/ UNCHANGED locking
  BY <1>5 DEF Next, vars, Evict, ChunkGone, SpoolGone, FlagGone, JobWrites, JobRegisters
<1> HIDE DEF InTime
<1> QED
  BY <1>1, <1>2, <1>3, <1>4, <1>6

\* So with its owner compared, this lock comes to a mutex for those in time, whatever
\* late ones do; RedisLock comes to one until the first of them.
THEOREM MutexCorrect == Spec => Mutex!SemaphoreSpec
<1>1. Init => Mutex!NobodyHolds
  BY DEF Init, InTime, Mutex!NobodyHolds
<1>2. Init => Owned
  BY DEF Init, Owned
<1>3. TypeOK /\ Owned /\ [Next]_vars => Owned'
  BY OwnedStep
<1> QED
  BY <1>1, <1>2, <1>3, MutexStep, TypeCorrect, PTL DEF Spec, Mutex!SemaphoreSpec
-----------------------------------------------------------------------------
\* Days are in hand from the merge to the registration only, and while merging
\* only those of the chunks before at[p].
InHand == \A p \in Procs : got[p] # {} => pc[p] \in {"merge", "report", "wipe", "register"}
InOrder == \A p \in Procs : pc[p] = "merge" => \A d \in got[p] : d <= at[p] * Grain

LEMMA HandStep ==
  ASSUME TypeOK, InHand, InOrder, [Next]_vars
  PROVE  InHand' /\ InOrder'
<1> USE BatchAssumption, TotalType DEF TypeOK, InHand, InOrder, Goto, run
<1>1. ASSUME NEW p \in Procs, Merge(p) PROVE InHand' /\ InOrder'
  <2>1. at[p] \in Chunks /\ at[p] \in Nat /\ at[p] + 1 \in Nat /\ pc[p] = "merge"
    BY <1>1 DEF Merge, MergeAt, Chunks
  <2>2. \A d \in got'[p] : d \in AllDays /\ d <= (at[p] + 1) * Grain
    <3> SUFFICES ASSUME NEW d \in got'[p] PROVE d \in AllDays /\ d <= (at[p] + 1) * Grain
      OBVIOUS
    <3>1. d \in got[p] \/ d \in Chunk(at[p])
      BY <1>1, <2>1 DEF Merge
    <3>2. d \in AllDays
      BY <2>1, <3>1, ChunkTyped
    <3>3. /\ at[p] * Grain \in Nat /\ (at[p] + 1) * Grain = at[p] * Grain + Grain
          /\ d \in Chunk(at[p]) => d <= (at[p] + 1) * Grain
      BY <2>1, <3>2, ChunkBounds
    <3>4. d \in got[p] => d <= at[p] * Grain
      BY <2>1
    <3>5. d \in Nat /\ Grain \in Nat
      BY <3>2 DEF AllDays
    <3> HIDE DEF TypeOK, InOrder
    <3> DEFINE a == at[p] * Grain  b == (at[p] + 1) * Grain
    <3>6. a \in Nat /\ b = a + Grain /\ (d <= a \/ d <= b)
      BY <3>1, <3>3, <3>4
    <3> HIDE DEF a, b
    <3>7. d <= b
      BY <3>5, <3>6
    <3> QED
      BY <3>2, <3>7 DEF b
  <2>3. \A q \in Procs \ {p} : pc'[q] = pc[q] /\ at'[q] = at[q] /\ got'[q] = got[q]
    BY <1>1 DEF Merge, MergeAt
  <2>4. pc'[p] = "report" \/ (pc'[p] = "merge" /\ at'[p] = at[p] + 1)
    BY <1>1 DEF Merge, MergeAt
  <2> QED BY <2>2, <2>3, <2>4
<1>2. ASSUME NEW p \in Procs, ReadTotal(p) PROVE InHand' /\ InOrder'
  BY <1>2 DEF ReadTotal, MergeAt
<1>3. ASSUME NEW p \in Procs, Wipe(p) PROVE InHand' /\ InOrder'
  BY <1>3 DEF Wipe
<1>4. ASSUME NEW p \in Procs, Register(p) \/ MergeFails(p) \/ Die(p) PROVE InHand' /\ InOrder'
  <2>1. /\ got' = [got EXCEPT ![p] = {}] /\ pc'[p] # "merge"
        /\ \A q \in Procs \ {p} : pc'[q] = pc[q] /\ at'[q] = at[q]
    BY <1>4 DEF Register, MergeFails, Die
  <2> QED BY <2>1
<1>5. ASSUME NEW p \in Procs, Report(p) PROVE InHand' /\ InOrder'
  BY <1>5 DEF Report
<1>6. ASSUME NEW p \in Procs, Step(p), ~Wipe(p), ~Report(p), ~Merge(p), ~MergeFails(p), ~Register(p), ~ReadTotal(p)
      PROVE  InHand' /\ InOrder'
  <2>1. /\ UNCHANGED <<at, got>>
        /\ \A q \in Procs \ {p} : pc'[q] = pc[q]
        /\ pc'[p] # "merge" /\ pc[p] \notin {"merge", "report", "wipe", "register"}
    BY <1>6 DEF Step, Hit, Miss, MissAgain, TakeLock, NoLock, StopWaiting, Clear, Start, Query,
     Finish, Flag, Release
  <2> QED BY <2>1
<1>7. CASE UNCHANGED <<pc, at, got>>
  BY <1>7
<1> QED
  BY <1>1, <1>2, <1>3, <1>4, <1>5, <1>6, <1>7
  DEF Next, vars, Evict, LockExpires, ChunkGone, SpoolGone, FlagGone, JobWrites, JobRegisters

\* decompose_by_time_range, iterate_chunks and merge_chunks_to_spool write the rows
\* of no day twice, whatever chunks of earlier runs the merge comes upon.
THEOREM MergeCorrect == Spec => NoDayTwice
<1> DEFINE Once == \A p \in Procs : Merge(p) => kept[at[p]] \cap got[p] = {}
<1>1. Init => InHand /\ InOrder
  BY DEF Init, InHand, InOrder
<1>2. TypeOK /\ InHand /\ InOrder /\ [Next]_vars => InHand' /\ InOrder'
  BY HandStep
<1>3. TypeOK /\ InOrder /\ [Next]_vars => [Once]_vars
  <2> SUFFICES ASSUME TypeOK, InOrder, NEW p \in Procs, Merge(p) PROVE kept[at[p]] \cap got[p] = {}
    OBVIOUS
  <2>1. /\ at[p] \in Nat /\ pc[p] = "merge" /\ got[p] \subseteq AllDays
        /\ kept[at[p]] \subseteq Chunk(at[p])
    BY TotalType DEF TypeOK, Merge, MergeAt, Goto, Chunks
  <2>2. ASSUME NEW d \in AllDays, d \in Chunk(at[p]), d \in got[p] PROVE FALSE
    BY <2>1, <2>2, ChunkBounds DEF InOrder, AllDays
  <2> QED BY <2>1, <2>2
<1>4. Spec => [][Once]_vars
  <2> HIDE DEF Once
  <2> QED BY <1>1, <1>2, <1>3, TypeCorrect, PTL DEF Spec
<1> QED BY <1>4 DEF NoDayTwice
-----------------------------------------------------------------------------
\* Nothing overlaps: there is one run at most, it registers in the absence of a spool
\* file, and the job has written all days and works alone.
Single == \A p, q \in Procs : {pc[p], pc[q]} \subseteq Working => p = q

NoSpoolYet == \A p \in Procs : pc[p] \in Working \ {"flag"} => spool = {}

JobAlone == copied # {} => copied = AllDays /\ \A p \in Procs : pc[p] \notin Working

Apart == Single /\ NoSpoolYet /\ JobAlone

Alone == ~mixed => Apart

\* mixed is only taken back by a run that begins alone.
LEMMA MixedStays ==
  ASSUME [Next]_vars, ~mixed', \A p \in Procs : ~MissAgain(p)
  PROVE  ~mixed
  BY DEF Next, vars, batch, Step, Hit, Miss, TakeLock, NoLock, StopWaiting, Clear, Start, Query,
     Finish, ReadTotal, Merge, MergeFails, Report, Wipe, Register, Flag, Release, Evict, Die, ChunkGone,
     LockExpires, SpoolGone, FlagGone, JobWrites, JobRegisters

\* Such a run finds no spool.
LEMMA BeginsAlone ==
  ASSUME TypeOK, NEW p \in Procs, MissAgain(p), ~mixed'
  PROVE  /\ spool = {} /\ copied = {} /\ \A q \in Procs : pc[q] \notin Working
         /\ UNCHANGED <<run, marked, kept, meta, store, flag, faults>>
         /\ pc[p] = "relook" /\ pc'[p] = "clear" /\ \A q \in Procs \ {p} : pc'[q] = pc[q]
         /\ Apart'
<1>1. /\ spool = {} /\ copied = {} /\ \A q \in Procs : pc[q] \notin Working
      /\ UNCHANGED <<run, marked, kept, meta, store, flag, faults>>
      /\ pc[p] = "relook" /\ pc'[p] = "clear" /\ \A q \in Procs \ {p} : pc'[q] = pc[q]
  BY DEF TypeOK, MissAgain, Overlap, Cached, Goto, stored
<1> QED
  BY <1>1 DEF Apart, Single, NoSpoolYet, JobAlone, store

LEMMA ApartStep ==
  ASSUME TypeOK, Apart, [Next]_vars, ~mixed'
  PROVE  Apart'
<1> USE DEF TypeOK, Goto, locking, run, batch, store, stored, Apart
<1>1. ASSUME NEW p \in Procs, MissAgain(p) PROVE Apart'
  BY <1>1, BeginsAlone
<1>2. ASSUME NEW p \in Procs, Register(p) PROVE Apart'
  <2>1. /\ pc[p] = "register" /\ pc'[p] = "flag" /\ copied = {}
        /\ \A q \in Procs \ {p} : pc'[q] = pc[q] /\ pc[q] \notin Working
    BY <1>2 DEF Register, Single, JobAlone, Working
  <2>2. copied' = {}
    BY <1>2, <2>1 DEF Register, Replace
  <2> QED BY <2>1, <2>2 DEF Single, NoSpoolYet, JobAlone, Working
<1>3. ASSUME NEW p \in Procs, \/ Clear(p) \/ Start(p) \/ Finish(p) \/ ReadTotal(p) \/ Merge(p)
                              \/ MergeFails(p) \/ Report(p) \/ Wipe(p)
      PROVE  Apart'
  <2>1. /\ UNCHANGED store /\ pc[p] \in Working \ {"flag"}
        /\ \A q \in Procs \ {p} : pc'[q] = pc[q]
    BY <1>3 DEF Clear, Start, Finish, ReadTotal, Merge, MergeAt, MergeFails, Report, Wipe, Working
  <2>2. spool = {} /\ copied = {} /\ \A q \in Procs \ {p} : pc[q] \notin Working
    BY <2>1 DEF Single, NoSpoolYet, JobAlone
  <2> QED BY <2>1, <2>2 DEF Single, NoSpoolYet, JobAlone
<1>4. ASSUME NEW p \in Procs, \/ Hit(p) \/ Miss(p) \/ TakeLock(p) \/ NoLock(p) \/ StopWaiting(p)
                              \/ Flag(p) \/ Release(p) \/ Die(p)
      PROVE  Apart'
  <2>1. /\ UNCHANGED store /\ pc'[p] \notin Working
        /\ \A q \in Procs \ {p} : pc'[q] = pc[q]
    BY <1>4 DEF Hit, Miss, TakeLock, NoLock, StopWaiting, Flag, Release, Die, Working
  <2> QED BY <2>1 DEF Single, NoSpoolYet, JobAlone
<1>5. CASE UNCHANGED pc /\ spool' \in {spool, {}} /\ copied' \in {copied, {}}
  BY <1>5 DEF Single, NoSpoolYet, JobAlone
<1>6. CASE JobWrites
  <2>1. copied' = AllDays /\ pc' = pc /\ \A p \in Procs : pc[p] \notin Working
    BY <1>6 DEF JobWrites
  <2> QED BY <2>1 DEF Single, NoSpoolYet, JobAlone
<1>7. CASE JobRegisters
  <2>1. copied' = {} /\ pc' = pc /\ \A p \in Procs : pc[p] \notin Working
    BY <1>7 DEF JobRegisters, JobAlone
  <2> QED BY <2>1 DEF Single, NoSpoolYet, JobAlone
<1> QED
  BY <1>1, <1>2, <1>3, <1>4, <1>5, <1>6, <1>7
  DEF Next, Step, vars, Query, Evict, ChunkGone, LockExpires, SpoolGone, FlagGone

\* The second look of execute_primary_query, under the lock, is enough: no run replaces
\* the spool file of another or of the job, and the job replaces one only by all days,
\* until two runs, or a run and the job, overlap.
THEOREM StaysCorrect == Spec => SpoolStays
<1> DEFINE Stays == ~mixed' => spool' = {} \/ spool \subseteq spool'
<1>1. Init => Alone
  BY DEF Init, Alone, Apart, Single, NoSpoolYet, JobAlone, Working
<1>2. TypeOK /\ Alone /\ [Next]_vars => Alone'
  BY MixedStays, BeginsAlone, ApartStep DEF Alone
<1>3. TypeOK /\ Alone /\ [Next]_vars => [Stays]_vars
  <2> SUFFICES ASSUME TypeOK, Alone, Next, ~mixed', \A p \in Procs : ~MissAgain(p)
               PROVE  spool' = {} \/ spool \subseteq spool'
    BY DEF MissAgain, stored, store
  <2>a. Apart
    BY MixedStays DEF Alone
  <2>1. ASSUME NEW p \in Procs, Register(p) PROVE spool = {}
    BY <2>a, <2>1 DEF Register, Goto, Apart, NoSpoolYet, Working
  <2>2. CASE JobWrites \/ JobRegisters
    BY <2>a, <2>2 DEF JobWrites, JobRegisters, Apart, JobAlone, TypeOK
  <2>3. CASE UNCHANGED spool \/ SpoolGone
    BY <2>3 DEF SpoolGone
  <2> QED
    BY <2>1, <2>2, <2>3 DEF Next, Step, Hit, Miss, TakeLock, NoLock, StopWaiting, Clear, Start, Query, Finish,
       ReadTotal, Merge, MergeFails, Report, Wipe, Flag, Release, Evict, Die, ChunkGone, LockExpires,
       FlagGone, store, stored
<1> QED
  <2> HIDE DEF Stays
  <2>1. Spec => [][Stays]_vars
    BY <1>1, <1>2, <1>3, TypeCorrect, PTL DEF Spec
  <2> QED BY <2>1 DEF Stays, SpoolStays
-----------------------------------------------------------------------------
\* Nothing has gone wrong.
Clean == ~mixed /\ faults = 0

NotFailed == \A p \in Procs : failed[p] => pc[p] = "query"

\* The progress hash says "partial" unless every chunk queried so far is in Redis.
Accounted(p) ==
    /\ pc[p] = "start" => chunks = {} /\ meta = "absent"
    /\ pc[p] = "query" =>
         IF failed[p] THEN meta = "partial" ELSE meta # "absent" /\ chunks = Chunks \ todo[p]
    /\ pc[p] \in {"total", "merge", "report"} =>
         meta = "partial" \/ (meta = "whole" /\ chunks = Chunks)

\* The rest of a run carries over what the hash said.
Carried(p) ==
    /\ pc[p] = "merge" /\ meta = "whole" =>
         \A c \in Chunks : c < at[p] => Chunk(c) \cap got[p] # {}
    /\ pc[p] = "report" /\ meta = "whole" => Whole(got[p])
    /\ pc[p] \in {"wipe", "register"} => marked[p] \/ Whole(got[p])
    /\ pc[p] = "flag" => marked[p] \/ spool = {} \/ Whole(spool)

\* A flag which ends before the spool is never the one that is needed.
FlagHeld == spool # {} /\ ~Whole(spool) => flag = "set" \/ \E p \in Procs : pc[p] = "flag"

Flagged == Apart /\ NotFailed /\ FlagHeld /\ \A p \in Procs : Accounted(p) /\ Carried(p)

FlagInv == NotFailed /\ (Clean => Flagged)

\* Only a chunk that fails notes a failure, and the end of the chunks forgets it.
LEMMA NotFailedStep == TypeOK /\ NotFailed /\ [Next]_vars => NotFailed'
<1> SUFFICES ASSUME TypeOK, NotFailed, [Next]_vars PROVE NotFailed'
  OBVIOUS
<1> USE DEF TypeOK, NotFailed, Goto, run
<1>1. ASSUME NEW p \in Procs, NEW c \in Chunks, NEW days \in Outcomes(c), Query(p, c, days)
      PROVE  NotFailed'
  BY <1>1 DEF Query
<1>2. ASSUME NEW p \in Procs, Finish(p) \/ Die(p)
      PROVE  NotFailed'
  BY <1>2 DEF Finish, Die
<1>3. ASSUME NEW p \in Procs,
             \/ Hit(p) \/ Miss(p) \/ MissAgain(p) \/ TakeLock(p) \/ NoLock(p) \/ StopWaiting(p)
             \/ Clear(p) \/ Start(p) \/ ReadTotal(p) \/ Merge(p) \/ MergeFails(p)
             \/ Report(p) \/ Wipe(p) \/ Register(p) \/ Flag(p) \/ Release(p) \/ Evict(p)
      PROVE  NotFailed'
  <2>1. /\ (pc[p] # "query" \/ pc' = pc) /\ failed' = failed
        /\ \A q \in Procs \ {p} : pc'[q] = pc[q]
    BY <1>3 DEF Hit, Miss, MissAgain, TakeLock, NoLock, StopWaiting, Clear, Start, ReadTotal, Merge,
                MergeAt, MergeFails, Report, Wipe, Register, Flag, Release, Evict
  <2> QED BY <2>1
<1>4. CASE UNCHANGED <<pc, failed>>
  BY <1>4
<1> QED
  BY <1>1, <1>2, <1>3, <1>4
  DEF Next, Step, vars, ChunkGone, LockExpires, SpoolGone, FlagGone, JobWrites, JobRegisters

LEMMA CleanStep ==
  ASSUME TypeOK, [Next]_vars, Clean', \A p \in Procs : ~MissAgain(p)
  PROVE  Clean
<1> USE BatchAssumption DEF TypeOK, Clean, Fault
<1>m. ~mixed
  BY MixedStays
<1>1. ASSUME NEW p \in Procs, Step(p) PROVE faults = 0
  <2>1. CASE Hit(p) \/ Miss(p) \/ TakeLock(p) \/ NoLock(p) \/ StopWaiting(p)
    BY <2>1 DEF Hit, Miss, TakeLock, NoLock, StopWaiting
  <2>2. CASE Release(p) \/ MergeFails(p)
    BY <2>2 DEF Release, MergeFails
  <2>3. CASE Clear(p) \/ Wipe(p) \/ Report(p)
    BY <2>3 DEF Clear, Wipe, Report
  <2>4. CASE Start(p) \/ Finish(p)
    BY <2>4 DEF Start, Finish, Progress
  <2>5. ASSUME NEW c \in Chunks, NEW days \in Outcomes(c), Query(p, c, days) PROVE faults = 0
    BY <2>5 DEF Query, Progress
  <2>6. CASE ReadTotal(p) \/ Merge(p)
    BY <2>6 DEF ReadTotal, Merge
  <2>7. CASE Register(p) \/ Flag(p)
    BY <2>7 DEF Register, Flag
  <2> QED
    BY <1>1, <2>1, <2>2, <2>3, <2>4, <2>5, <2>6, <2>7 DEF Step
<1> QED
  BY <1>m, <1>1 DEF Next, vars, Evict, Die, LockExpires, ChunkGone, SpoolGone, FlagGone, JobWrites, JobRegisters

\* A step that is none of a run's.
LEMMA AsideStep ==
  ASSUME TypeOK, Flagged, Clean', Apart',
         UNCHANGED <<run, kept, meta, spool, flag>>,
         \A q \in Procs : \/ pc'[q] = pc[q] /\ (marked'[q] = marked[q] \/ pc[q] \notin Working)
                          \/ {pc[q], pc'[q]} \cap Working = {}
  PROVE  Flagged'
<1> USE DEF Flagged, run, chunks
<1>1. \A q \in Procs : pc'[q] \in Working => pc'[q] = pc[q] /\ marked'[q] = marked[q]
  OBVIOUS
<1>2. \A q \in Procs : pc[q] \in Working => pc'[q] = pc[q]
  OBVIOUS
<1>3. NotFailed' /\ FlagHeld'
  BY <1>2 DEF NotFailed, FlagHeld, Working
<1>4. ASSUME NEW q \in Procs PROVE Accounted(q)' /\ Carried(q)'
  BY <1>1 DEF Accounted, Carried, Working
<1> QED
  BY <1>3, <1>4

\* A step of the run under way, before its registration.
LEMMA RunStep ==
  ASSUME TypeOK, Flagged, Apart', NEW p \in Procs,
         pc[p] \in Working \ {"flag"}, spool' = spool,
         \A q \in Procs \ {p} : pc'[q] = pc[q] /\ failed'[q] = failed[q],
         failed'[p] => pc'[p] = "query",
         Accounted(p)', Carried(p)'
  PROVE  Flagged'
<1> USE DEF Flagged, Apart
<1>1. spool = {} /\ \A q \in Procs \ {p} : pc[q] \notin Working
  BY DEF NoSpoolYet, Single
<1>2. NotFailed' /\ FlagHeld'
  BY <1>1 DEF NotFailed, FlagHeld
<1>3. ASSUME NEW q \in Procs \ {p} PROVE Accounted(q)' /\ Carried(q)'
  BY <1>1, <1>3 DEF Accounted, Carried, Working
<1> QED
  BY <1>2, <1>3

\* A run that begins alone owes nothing to the ones before it, whatever they overlapped.
LEMMA FlagBegins ==
  ASSUME TypeOK, NotFailed, NEW p \in Procs, MissAgain(p), Clean'
  PROVE  Flagged'
<1>1. /\ \A q \in Procs : pc[q] \notin Working
      /\ spool = {} /\ UNCHANGED <<failed, spool>> /\ pc[p] = "relook" /\ pc'[p] = "clear" /\ Apart'
      /\ \A q \in Procs \ {p} : pc'[q] = pc[q]
  BY BeginsAlone DEF Clean, run, store
<1>2. NotFailed' /\ FlagHeld'
  BY <1>1 DEF NotFailed, FlagHeld
<1>3. ASSUME NEW q \in Procs PROVE Accounted(q)' /\ Carried(q)'
  BY <1>1 DEF Accounted, Carried, Working
<1> QED
  BY <1>1, <1>2, <1>3 DEF Flagged

LEMMA FlagStep ==
  ASSUME TypeOK, Flagged, Clean, Clean', [Next]_vars, \A p \in Procs : ~MissAgain(p)
  PROVE  Flagged'
<1>a. Apart /\ Apart' /\ ~mixed /\ ~mixed' /\ ~Fault
  BY ApartStep, FaultsAssumption DEF Flagged, Clean, Fault
<1> USE <1>a, BatchAssumption, TotalType DEF TypeOK, Goto, locking, run, batch, store, stored
<1>1. ASSUME NEW p \in Procs,
             \/ Hit(p) \/ Miss(p) \/ TakeLock(p) \/ NoLock(p) \/ StopWaiting(p) \/ Release(p) \/ Evict(p)
      PROVE  Flagged'
  BY <1>1, AsideStep DEF Hit, Miss, TakeLock, NoLock, StopWaiting, Release, Evict, Working
<1>2. CASE LockExpires
  BY <1>2, AsideStep DEF LockExpires
<1>3. ASSUME NEW p \in Procs, Clear(p) PROVE Flagged'
  <2>1. /\ pc[p] = "clear" /\ pc'[p] = "start" /\ UNCHANGED <<spool, failed>>
        /\ Clears /\ \A q \in Procs \ {p} : pc'[q] = pc[q]
    BY <1>3 DEF Clear
  <2>2. Accounted(p)' /\ Carried(p)' /\ ~failed'[p]
    BY <2>1 DEF Accounted, Carried, Clears, chunks, NotFailed, Flagged
  <2> QED BY <2>1, <2>2, RunStep DEF Working
<1>4. ASSUME NEW p \in Procs, Start(p) PROVE Flagged'
  <2>1. /\ pc[p] = "start" /\ pc'[p] = "query" /\ UNCHANGED <<spool, failed, kept>> /\ todo'[p] = Chunks
        /\ meta' = "whole" /\ \A q \in Procs \ {p} : pc'[q] = pc[q]
    BY <1>4 DEF Start, Progress
  <2>2. Accounted(p)' /\ Carried(p)' /\ ~failed'[p]
    BY <2>1 DEF Accounted, Carried, chunks, NotFailed, Flagged
  <2> QED BY <2>1, <2>2, RunStep DEF Working
<1>5. ASSUME NEW p \in Procs, NEW c \in Chunks, NEW days \in Outcomes(c), Query(p, c, days) PROVE Flagged'
  <2>1. /\ pc' = pc /\ pc[p] = "query" /\ UNCHANGED spool
        /\ \A q \in Procs \ {p} : failed'[q] = failed[q]
    BY <1>5 DEF Query
  <2>2. failed'[p] = (failed[p] \/ days = {}) /\ todo'[p] = todo[p] \ {c} /\ todo[p] \subseteq Chunks /\ c \in todo[p]
    BY <1>5 DEF Query
  <2>3. meta' = IF failed'[p] THEN "partial" ELSE "whole"
    BY <1>5 DEF Query, Progress, Found
  <2>4. days # {} => kept' = [kept EXCEPT ![c] = days]
    BY <1>5 DEF Query, Keep
  <2>5. days # {} => chunks' = chunks \cup {c}
    BY <2>4 DEF chunks
  <2>6. CASE failed'[p]
    BY <2>1, <2>3, <2>6, RunStep DEF Accounted, Carried, Working
  <2>7. CASE ~failed'[p]
    <3>1. ~failed[p] /\ days # {}
      BY <2>2, <2>7
    <3>2. chunks = Chunks \ todo[p] /\ meta' = "whole"
      BY <2>1, <2>3, <2>7, <3>1 DEF Flagged, Accounted
    <3>3. chunks' = Chunks \ todo'[p]
      BY <2>2, <2>5, <3>1, <3>2
    <3>4. Accounted(p)' /\ Carried(p)'
      BY <2>1, <2>7, <3>2, <3>3 DEF Accounted, Carried
    <3> QED BY <2>1, <2>7, <3>4, RunStep DEF Working
  <2> QED BY <2>6, <2>7
<1>6. ASSUME NEW p \in Procs, Finish(p) PROVE Flagged'
  <2>1. /\ pc[p] = "query" /\ pc'[p] = "total" /\ UNCHANGED <<spool, kept>> /\ ~failed'[p]
        /\ todo[p] = {} /\ \A q \in Procs \ {p} : pc'[q] = pc[q] /\ failed'[q] = failed[q]
    BY <1>6 DEF Finish
  <2>2. meta' = IF failed[p] THEN "partial" ELSE "whole"
    BY <1>6 DEF Finish, Progress, Found
  <2>3. Accounted(p)' /\ Carried(p)'
    BY <2>1, <2>2 DEF Flagged, Accounted, Carried, chunks
  <2> QED BY <2>1, <2>3, RunStep DEF Working
<1>7. ASSUME NEW p \in Procs, ReadTotal(p) PROVE Flagged'
  <2>1. /\ pc[p] = "total" /\ UNCHANGED <<spool, kept, meta, failed, got>>
        /\ \A q \in Procs \ {p} : pc'[q] = pc[q]
        /\ ~failed[p] /\ meta # "absent"
    BY <1>7 DEF ReadTotal, MergeAt, Flagged, NotFailed, Accounted
  <2>2. pc'[p] = "merge" /\ at'[p] = 0
    BY <1>7, <2>1 DEF ReadTotal, MergeAt
  <2>3. \A c \in Chunks : ~(c < 0)
    BY DEF Chunks
  <2>4. Accounted(p)' /\ Carried(p)'
    BY <2>1, <2>2, <2>3 DEF Flagged, Accounted, Carried, chunks
  <2> QED BY <2>1, <2>4, RunStep DEF Working
<1>8. ASSUME NEW p \in Procs, Merge(p) PROVE Flagged'
  <2>1. /\ pc[p] = "merge" /\ UNCHANGED <<spool, kept, meta, failed>>
        /\ \A q \in Procs \ {p} : pc'[q] = pc[q]
        /\ ~failed[p] /\ at[p] \in Chunks
    BY <1>8 DEF Merge, MergeAt, Flagged, NotFailed
  <2>2. got'[p] = got[p] \cup kept[at[p]]
    BY <1>8 DEF Merge
  <2>3. meta = "whole" => kept[at[p]] # {} /\ kept[at[p]] \subseteq Chunk(at[p])
    BY <2>1 DEF Flagged, Accounted, chunks
  <2>4. ASSUME meta = "whole", NEW c \in Chunks, c < at[p] + 1 PROVE Chunk(c) \cap got'[p] # {}
    <3>1. c = at[p] \/ c < at[p]
      BY <2>1, <2>4 DEF Chunks
    <3>2. c < at[p] => Chunk(c) \cap got[p] # {}
      BY <2>1, <2>4 DEF Flagged, Carried
    <3> QED BY <2>2, <2>3, <2>4, <3>1, <3>2
  <2>5. CASE pc'[p] = "merge" /\ at'[p] = at[p] + 1
    BY <2>1, <2>4, <2>5, RunStep DEF Flagged, Accounted, Carried, chunks, Working
  <2>6. CASE pc'[p] = "report" /\ at[p] + 1 = Total
    <3>1. meta = "whole" => Whole(got'[p])
      <4>1. \A c \in Chunks : c < at[p] + 1
        BY <2>6, TotalType DEF Chunks
      <4> QED BY <2>4, <4>1 DEF Whole
    <3> QED BY <2>1, <2>6, <3>1, RunStep DEF Flagged, Accounted, Carried, chunks, Working
  <2> QED BY <1>8, <2>5, <2>6 DEF Merge, MergeAt
<1>9. ASSUME NEW p \in Procs, MergeFails(p) PROVE Flagged'
  <2>1. /\ pc[p] = "merge" /\ pc'[p] = "abort" /\ UNCHANGED <<spool, failed>> /\ ~failed[p]
        /\ \A q \in Procs \ {p} : pc'[q] = pc[q]
    BY <1>9 DEF MergeFails, Flagged, NotFailed
  <2>2. Accounted(p)' /\ Carried(p)'
    BY <2>1 DEF Accounted, Carried
  <2> QED BY <2>1, <2>2, RunStep DEF Working
<1>10. ASSUME NEW p \in Procs, Report(p) PROVE Flagged'
  <2>1. /\ pc[p] = "report" /\ pc'[p] = "wipe" /\ UNCHANGED <<spool, failed, got>>
        /\ ~failed[p] /\ \A q \in Procs \ {p} : pc'[q] = pc[q]
    BY <1>10 DEF Report, Flagged, NotFailed
  <2>2. marked'[p] = (meta = "partial")
    <3>1. marked' = [marked EXCEPT ![p] = meta = "partial"]
      BY <1>10, Zenon DEF Report
    <3> QED BY <3>1, Zenon
  <2>3. meta = "partial" \/ Whole(got[p])
    BY <2>1 DEF Flagged, Accounted, Carried
  <2>4. Accounted(p)' /\ Carried(p)'
    BY <2>1, <2>2, <2>3 DEF Accounted, Carried
  <2> QED BY <2>1, <2>4, RunStep DEF Working
<1>11. ASSUME NEW p \in Procs, Wipe(p) PROVE Flagged'
  <2>1. /\ pc[p] \in {"wipe", "abort"} /\ UNCHANGED <<spool, failed, got, marked>> /\ ~failed[p]
        /\ \A q \in Procs \ {p} : pc'[q] = pc[q]
    BY <1>11 DEF Wipe, Flagged, NotFailed
  <2>2. pc'[p] = "release" \/ (pc[p] = "wipe" /\ pc'[p] \in {"register", "flag"})
    BY <1>11 DEF Wipe
  <2>3. spool = {}
    BY <2>1 DEF Apart, NoSpoolYet, Working
  <2>4. Accounted(p)' /\ Carried(p)'
    BY <2>1, <2>2, <2>3 DEF Flagged, Accounted, Carried
  <2> QED BY <2>1, <2>4, RunStep DEF Working
<1>12. ASSUME NEW p \in Procs, Register(p) PROVE Flagged'
  <2>1. /\ pc[p] = "register" /\ pc'[p] = "flag" /\ spool' = got[p] /\ UNCHANGED <<marked, failed>>
        /\ \A q \in Procs \ {p} : pc'[q] = pc[q] /\ pc[q] \notin Working
    BY <1>12 DEF Register, Apart, Single, Working
  <2>2. NotFailed' /\ FlagHeld'
    BY <2>1 DEF NotFailed, FlagHeld, Flagged
  <2>3. ASSUME NEW q \in Procs PROVE Accounted(q)' /\ Carried(q)'
    BY <2>1 DEF Flagged, Accounted, Carried, Working
  <2> QED BY <2>2, <2>3 DEF Flagged
<1>13. ASSUME NEW p \in Procs, Flag(p) PROVE Flagged'
  <2>1. /\ pc[p] = "flag" /\ pc'[p] = "release" /\ UNCHANGED <<spool, failed>>
        /\ flag' = (IF marked[p] THEN "set" ELSE "none")
        /\ \A q \in Procs \ {p} : pc'[q] = pc[q] /\ pc[q] \notin Working
    BY <1>13 DEF Flag, Apart, Single, Working
  <2>2. NotFailed' /\ FlagHeld'
    BY <2>1 DEF NotFailed, FlagHeld, Flagged, Carried
  <2>3. ASSUME NEW q \in Procs PROVE Accounted(q)' /\ Carried(q)'
    BY <2>1 DEF Accounted, Carried, Working
  <2> QED BY <2>2, <2>3 DEF Flagged
<1>14. ASSUME NEW p \in Procs, Die(p) PROVE Flagged'
  <2>1. /\ pc[p] # "flag" /\ pc'[p] = "idle" /\ UNCHANGED <<kept, meta, spool, flag>> /\ ~failed'[p]
        /\ \A q \in Procs \ {p} : /\ pc'[q] = pc[q] /\ failed'[q] = failed[q] /\ todo'[q] = todo[q]
                                  /\ got'[q] = got[q] /\ at'[q] = at[q] /\ marked'[q] = marked[q]
    BY <1>14 DEF Die
  <2>2. NotFailed' /\ FlagHeld'
    BY <2>1 DEF NotFailed, FlagHeld, Flagged
  <2>3. ASSUME NEW q \in Procs PROVE Accounted(q)' /\ Carried(q)'
    BY <2>1 DEF Flagged, Accounted, Carried, chunks
  <2> QED BY <2>2, <2>3 DEF Flagged
<1>15. CASE SpoolGone \/ FlagGone
  <2>1. UNCHANGED <<pc, run, marked, kept, meta>> /\ (spool' = {} \/ UNCHANGED spool)
    BY <1>15 DEF SpoolGone, FlagGone
  <2>2. NotFailed' /\ FlagHeld'
    BY <1>15 DEF SpoolGone, FlagGone, NotFailed, FlagHeld, Flagged
  <2>3. ASSUME NEW q \in Procs PROVE Accounted(q)' /\ Carried(q)'
    BY <2>1 DEF Flagged, Accounted, Carried, chunks
  <2> QED BY <2>2, <2>3 DEF Flagged
<1>16. CASE JobWrites \/ JobRegisters
  <2>1. /\ UNCHANGED <<pc, run>> /\ spool' \in {spool, {}, AllDays} /\ (spool' = spool => flag' \in {flag, "old"})
        /\ \A q \in Procs : pc[q] \notin Working
    BY <1>16 DEF JobWrites, JobRegisters, Renew, Apart, JobAlone
  <2>2. (spool' = spool /\ flag' = flag) \/ spool' = {} \/ spool' = AllDays
    BY <1>16 DEF JobWrites, JobRegisters, Apart, JobAlone
  <2>3. NotFailed' /\ FlagHeld'
    BY <2>1, <2>2, RangeWhole DEF NotFailed, FlagHeld, Flagged
  <2>4. ASSUME NEW q \in Procs PROVE Accounted(q)' /\ Carried(q)'
    BY <2>1 DEF Accounted, Carried, Working
  <2> QED BY <2>3, <2>4 DEF Flagged
<1>17. ASSUME NEW c \in Chunks, ChunkGone(c) PROVE Flagged'
  BY <1>17 DEF ChunkGone
<1>18. CASE UNCHANGED vars
  <2>1. NotFailed' /\ FlagHeld'
    BY <1>18 DEF vars, NotFailed, FlagHeld, Flagged
  <2>2. ASSUME NEW q \in Procs PROVE Accounted(q)' /\ Carried(q)'
    BY <1>18 DEF vars, Flagged, Accounted, Carried, chunks
  <2> QED BY <2>1, <2>2 DEF Flagged
<1> QED
  BY <1>1, <1>2, <1>3, <1>4, <1>5, <1>6, <1>7, <1>8, <1>9, <1>10, <1>11, <1>12, <1>13,
     <1>14, <1>15, <1>16, <1>17, <1>18 DEF Next, Step

\* execute_primary_query never leaves a spool file without the rows of a chunk and
\* without its flag, whichever chunks fail or are truncated and wherever a run dies, and
\* though the job renews the file's registration, until two runs, or a run and the job,
\* overlap or a record of Redis is lost.
THEOREM FlagCorrect == Spec => []MissingIsFlagged
<1>1. Init => FlagInv
  BY DEF Init, FlagInv, Flagged, Apart, Single, NotFailed, NoSpoolYet, JobAlone, Accounted, Carried,
     FlagHeld, Working
<1>2. TypeOK /\ FlagInv /\ [Next]_vars => FlagInv'
  <2> SUFFICES ASSUME TypeOK, FlagInv, [Next]_vars, Clean' PROVE Flagged'
    BY NotFailedStep DEF FlagInv
  <2>1. ASSUME NEW p \in Procs, MissAgain(p) PROVE Flagged'
    BY <2>1, FlagBegins DEF FlagInv
  <2>2. CASE \A p \in Procs : ~MissAgain(p)
    BY <2>2, CleanStep, FlagStep DEF FlagInv
  <2> QED BY <2>1, <2>2
<1>3. FlagInv => MissingIsFlagged
  BY DEF FlagInv, Flagged, FlagHeld, Clean, MissingIsFlagged
<1> QED
  BY <1>1, <1>2, <1>3, TypeCorrect, PTL DEF Spec
=============================================================================
