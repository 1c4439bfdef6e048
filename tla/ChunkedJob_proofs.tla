-------------------------- MODULE ChunkedJob_proofs --------------------------
(***************************************************************************)
(* What is proved of ChunkedJob, for any number of chunks, batches,        *)
(* threads and retries: its types, that a result misses nothing, and that  *)
(* it holds nothing twice unless a reduction began with another attempt's  *)
(* file; and that the job runs out of steps, and does so at its end only.  *)
(***************************************************************************)
EXTENDS ChunkedJob, FiniteSetTheorems, TLAPS

\* Where the threads may be at each point of run().
Threads ==
    /\ run # "fan_out" => \A c \in Chunks : thread[c] # "fetching"
    /\ run = "aggregate" => \A c \in Chunks : thread[c] = "done"
    /\ \A c \in Chunks : thread[c] = "done" => fetched[c] = Batches
    /\ run = "pre_query" => \A c \in Chunks : fetched[c] = 0

\* What was fetched is in the temporary place until the finally.
Collected ==
    run \in {"fan_out", "aggregate"} =>
        /\ opened
        /\ \A c \in Chunks : \A i \in 1 .. fetched[c] : copies[<<c, i>>] > 0

\* Nothing is there before the job opened it, but what was left there.
Unopened ==
    /\ run \in {"queued", "over", "pre_query"} => copies = Nothing \/ survivor
    /\ run = "finally" /\ ~opened => copies = Nothing \/ survivor

SafeInv == TypeOK /\ Threads /\ Collected /\ Unopened /\ NothingMissing

\* A batch that is not fetched yet is not there, and none is there twice.
Single == ~reused =>
    /\ \A b \in AllBatches : copies[b] <= 1 /\ spool[b] <= 1
    /\ reduction /\ run = "pre_query" => copies = Nothing
    /\ reduction /\ run = "fan_out" =>
          \A c \in Chunks : \A i \in 1 .. Batches : i > fetched[c] => copies[<<c, i>>] = 0
-----------------------------------------------------------------------------
LEMMA NothingType == Nothing \in [AllBatches -> Nat] /\ \A b \in AllBatches : Nothing[b] = 0
BY DEF Nothing

LEMMA SafeInit == Init => SafeInv
<1> SUFFICES ASSUME Init PROVE SafeInv
    OBVIOUS
<1>1. TypeOK
    <2>1. copies \in [AllBatches -> Nat] /\ spool \in [AllBatches -> Nat]
        BY NothingType DEF Init
    <2>2. /\ fetched \in [Chunks -> 0 .. Batches] /\ retries \in 0 .. MaxRetries
          /\ thread \in [Chunks -> {"waiting", "fetching", "done", "failed"}]
        BY ChunkAssumption DEF Init
    <2> QED
        BY <2>1, <2>2 DEF Init, TypeOK
<1> QED
    BY <1>1 DEF Init, SafeInv, Threads, Collected, Unopened, NothingMissing

\* What RetryOrEnd and LeaveFiles do to the counters, for the actions they end.
LEMMA RetryType ==
    ASSUME TypeOK, RetryOrEnd
    PROVE  retries' \in 0 .. MaxRetries /\ run' \in {"queued", "over"}
BY ChunkAssumption DEF TypeOK, RetryOrEnd

LEMMA EndRunType ==
    ASSUME TypeOK, EndRun
    PROVE  retries' \in 0 .. MaxRetries /\ run' \in {"queued", "over"}
BY RetryType DEF EndRun, TypeOK

LEMMA DeleteType ==
    ASSUME TypeOK, Delete
    PROVE  /\ copies' \in [AllBatches -> Nat] /\ survivor' \in BOOLEAN
           /\ copies' = Nothing \/ survivor'
BY NothingType DEF Delete, LeaveFiles, TypeOK

LEMMA SafeStep == SafeInv /\ [Next]_vars => SafeInv'
<1> SUFFICES ASSUME SafeInv, [Next]_vars PROVE SafeInv'
    OBVIOUS
<1> USE ChunkAssumption DEF SafeInv, class, ghosts
<1>1. CASE Dequeue
    <2>1. TypeOK'
        <3>1. opened' \in BOOLEAN
            BY <1>1 DEF Dequeue
        <3>2. /\ fetched' \in [Chunks -> 0 .. Batches]
              /\ thread' \in [Chunks -> {"waiting", "fetching", "done", "failed"}]
            BY <1>1 DEF Dequeue
        <3> QED
            BY <1>1, <3>1, <3>2 DEF TypeOK, Dequeue, output
    <2> QED
        BY <1>1, <2>1 DEF Dequeue, TypeOK, Threads, Collected, Unopened,
                          NothingMissing, output
<1>2. CASE PreQuery
    <2>1. TypeOK'
        BY <1>2 DEF TypeOK, PreQuery, output
    <2>2. Collected'
        BY <1>2 DEF PreQuery, Collected, TypeOK, Threads
    <2> QED
        BY <1>2, <2>1, <2>2 DEF PreQuery, TypeOK, Threads, Unopened,
                                NothingMissing, output
<1>3. ASSUME NEW c \in Chunks, StartChunk(c) PROVE SafeInv'
    <2>1. TypeOK'
        BY <1>3 DEF TypeOK, StartChunk, output
    <2> QED
        BY <1>3, <2>1 DEF StartChunk, TypeOK, Threads, Collected, Unopened,
                          NothingMissing, output
<1>4. ASSUME NEW c \in Chunks, Fetch(c) PROVE SafeInv'
    <2> DEFINE b == <<c, fetched[c] + 1>>
    <2>1. b \in AllBatches
        BY <1>4 DEF Fetch, AllBatches, TypeOK
    <2>2. /\ copies' \in [AllBatches -> Nat]
          /\ copies'[b] > 0
          /\ \A x \in AllBatches : x # b => copies'[x] = copies[x]
        BY <1>4, <2>1 DEF Fetch, Keep, TypeOK
    <2>3. fetched' = [fetched EXCEPT ![c] = @ + 1] /\ fetched[c] + 1 \in 0 .. Batches
        BY <1>4 DEF Fetch, TypeOK
    <2>4. TypeOK'
        BY <1>4, <2>2, <2>3 DEF TypeOK, Fetch, output
    <2>5. Threads'
        BY <1>4, <2>3 DEF Fetch, Threads, TypeOK
    <2>6. run = "fan_out"
        BY <1>4 DEF Fetch, Threads
    <2>7. Collected'
        <3>1. ASSUME NEW d \in Chunks, NEW i \in 1 .. fetched'[d]
              PROVE  copies'[<<d, i>>] > 0
            <4>1. <<d, i>> \in AllBatches
                BY <2>3, <3>1 DEF AllBatches, TypeOK
            <4>2. CASE <<d, i>> = b
                BY <4>2, <2>2
            <4>3. CASE <<d, i>> # b
                <5>1. i \in 1 .. fetched[d]
                    BY <4>3, <2>3, <3>1 DEF TypeOK
                <5> QED
                    BY <5>1, <4>1, <4>3, <2>2, <2>6 DEF Collected
            <4> QED
                BY <4>2, <4>3
        <3> QED
            BY <1>4, <3>1, <2>6 DEF Fetch, Collected
    <2> QED
        BY <1>4, <2>4, <2>5, <2>6, <2>7 DEF Fetch, Unopened, NothingMissing, output
<1>5. ASSUME NEW c \in Chunks, ChunkDone(c) PROVE SafeInv'
    <2>1. TypeOK'
        BY <1>5 DEF TypeOK, ChunkDone, output
    <2> QED
        BY <1>5, <2>1 DEF ChunkDone, TypeOK, Threads, Collected, Unopened,
                          NothingMissing, output
<1>6. ASSUME NEW c \in Chunks, ChunkFails(c) PROVE SafeInv'
    <2>1. TypeOK'
        BY <1>6 DEF TypeOK, ChunkFails, output
    <2> QED
        BY <1>6, <2>1 DEF ChunkFails, TypeOK, Threads, Collected, Unopened,
                          NothingMissing, output
<1>7. CASE FanOutDone
    <2>1. TypeOK'
        BY <1>7 DEF TypeOK, FanOutDone, attempt, output
    <2> QED
        BY <1>7, <2>1 DEF FanOutDone, TypeOK, Threads, Collected, Unopened,
                          NothingMissing, attempt, output
<1>8. CASE FanOutRaises
    <2>1. TypeOK'
        BY <1>8 DEF TypeOK, FanOutRaises, output
    <2>2. Threads'
        BY <1>8 DEF FanOutRaises, MayRaise, Threads, In
    <2> QED
        BY <1>8, <2>1, <2>2 DEF FanOutRaises, Collected, Unopened,
                                NothingMissing, output
\* All chunks are done, so all their batches are fetched and there.
<1>9. ASSUME run = "aggregate" PROVE \A b \in AllBatches : copies[b] > 0
    BY <1>9 DEF Threads, Collected, AllBatches, TypeOK
<1>10. CASE Aggregate
    <2>1. TypeOK'
        BY <1>10 DEF TypeOK, Aggregate, attempt
    <2>2. NothingMissing'
        BY <1>9, <1>10 DEF Aggregate, NothingMissing
    <2> QED
        BY <1>10, <2>1, <2>2 DEF Aggregate, Threads, Collected, Unopened, attempt
<1>11. CASE AggregateRaises
    <2>1. TypeOK'
        BY <1>11 DEF TypeOK, AggregateRaises, output
    <2>2. NothingMissing'
        BY <1>9, <1>11 DEF AggregateRaises, NothingMissing, output
    <2> QED
        BY <1>11, <2>1, <2>2 DEF AggregateRaises, Threads, Collected, Unopened
<1>12. CASE CleanUp
    <2>1. /\ copies' \in [AllBatches -> Nat] /\ survivor' \in BOOLEAN
          /\ copies' = Nothing \/ survivor'
        BY <1>12, DeleteType DEF CleanUp, Unopened, TypeOK
    <2>2. TypeOK'
        BY <1>12, <2>1, EndRunType DEF TypeOK, CleanUp, attempt, output
    <2> QED
        BY <1>12, <2>1, <2>2, EndRunType DEF CleanUp, Threads, Collected,
                     Unopened, NothingMissing, attempt, output
<1>13. CASE Killed
    <2>1. TypeOK'
        BY <1>13, RetryType DEF TypeOK, Killed, LeaveFiles, output
    <2> QED
        BY <1>13, <2>1, RetryType DEF Killed, LeaveFiles, Threads, Collected,
                     Unopened, NothingMissing, output
<1>14. CASE UNCHANGED vars
    BY <1>14 DEF vars, attempt, output, TypeOK, Threads, Collected, Unopened,
                 NothingMissing
<1> QED
    BY <1>1, <1>2, <1>3, <1>4, <1>5, <1>6, <1>7, <1>8, <1>10, <1>11, <1>12,
       <1>13, <1>14 DEF Next, RunStep, Task
-----------------------------------------------------------------------------
LEMMA SingleInit == Init => Single
BY ChunkAssumption, NothingType DEF Init, Single

LEMMA SingleStep ==
    ASSUME SafeInv, Single, [Next]_vars
    PROVE  Single'
<1> USE ChunkAssumption DEF SafeInv, class, ghosts
<1>1. CASE Dequeue
    BY <1>1 DEF Dequeue, Single, output
\* A reduction job finds nothing there when it begins.
<1>2. CASE PreQuery
    <2>1. ASSUME ~reused, reduction PROVE copies = Nothing
        BY <1>2, <2>1 DEF PreQuery, Single
    <2>2. ASSUME ~reused, reduction, NEW c \in Chunks, NEW i \in 1 .. Batches
          PROVE  copies[<<c, i>>] = 0
        BY <2>1, <2>2, NothingType DEF AllBatches
    <2> QED
        BY <1>2, <2>2 DEF PreQuery, Single, output
<1>3. ASSUME NEW c \in Chunks, StartChunk(c) PROVE Single'
    BY <1>3 DEF StartChunk, Single, output
<1>4. ASSUME NEW c \in Chunks, Fetch(c) PROVE Single'
    <2> DEFINE b == <<c, fetched[c] + 1>>
    <2>1. b \in AllBatches /\ run = "fan_out"
        BY <1>4 DEF Fetch, AllBatches, TypeOK, Threads
    <2>2. ~reused /\ reduction => copies[b] = 0
        BY <1>4, <2>1 DEF Fetch, Single, TypeOK
    <2>3. /\ ~reused => copies'[b] = 1
          /\ \A x \in AllBatches : x # b => copies'[x] = copies[x]
        BY <1>4, <2>1, <2>2 DEF Fetch, Keep, TypeOK
    <2>4. ~reused => \A x \in AllBatches : copies'[x] <= 1 /\ spool'[x] <= 1
        BY <1>4, <2>3 DEF Fetch, Single, output
    <2>5. ASSUME ~reused, reduction, NEW d \in Chunks, NEW i \in 1 .. Batches, i > fetched'[d]
          PROVE  copies'[<<d, i>>] = 0
        <3>1. <<d, i>> \in AllBatches
            BY DEF AllBatches
        <3>2. i > fetched[d] /\ <<d, i>> # b
            BY <1>4, <2>5 DEF Fetch, TypeOK
        <3> QED
            BY <2>1, <2>3, <2>5, <3>1, <3>2 DEF Single
    <2> QED
        BY <1>4, <2>1, <2>4, <2>5 DEF Fetch, Single
<1>5. ASSUME NEW c \in Chunks, ChunkDone(c) PROVE Single'
    BY <1>5 DEF ChunkDone, Single, output
<1>6. ASSUME NEW c \in Chunks, ChunkFails(c) PROVE Single'
    BY <1>6 DEF ChunkFails, Single, output
<1>7. CASE FanOutDone
    BY <1>7 DEF FanOutDone, Single, attempt, output
<1>8. CASE FanOutRaises
    BY <1>8 DEF FanOutRaises, Single, output
<1>9. CASE Aggregate
    BY <1>9 DEF Aggregate, Single, attempt
<1>10. CASE AggregateRaises
    BY <1>10 DEF AggregateRaises, Single, output
<1>11. CASE CleanUp
    <2>1. run' \in {"queued", "over"}
        BY <1>11, EndRunType DEF CleanUp
    <2>2. copies' = copies \/ copies' = Nothing
        BY <1>11 DEF CleanUp, Delete, LeaveFiles
    <2> QED
        BY <1>11, <2>1, <2>2, NothingType DEF CleanUp, Single, output
<1>12. CASE Killed
    BY <1>12, RetryType DEF Killed, LeaveFiles, Single, output
<1>13. CASE UNCHANGED vars
    BY <1>13 DEF vars, attempt, output, Single
<1> QED
    BY <1>1, <1>2, <1>3, <1>4, <1>5, <1>6, <1>7, <1>8, <1>9, <1>10, <1>11,
       <1>12, <1>13 DEF Next, RunStep, Task
-----------------------------------------------------------------------------
\* The variables of run(), its threads and its files keep their types.
THEOREM TypeCorrect == Spec => []TypeOK
<1>1. Spec => []SafeInv
    BY SafeInit, SafeStep, PTL DEF Spec
<1>2. SafeInv => TypeOK
    BY DEF SafeInv
<1> QED
    BY <1>1, <1>2, PTL

\* Whatever fails, is killed and is tried again: a parquet that post_aggregate
\* writes has every batch of every chunk.
THEOREM ResultComplete == Spec => []NothingMissing
<1>1. Spec => []SafeInv
    BY SafeInit, SafeStep, PTL DEF Spec
<1>2. SafeInv => NothingMissing
    BY DEF SafeInv
<1> QED
    BY <1>1, <1>2, PTL

\* And it has none twice, for append jobs always, for reduction jobs as long as
\* none begins with the file of an attempt that was killed or not cleaned up.
THEOREM ResultSingle == Spec => []NothingTwice
<1>1. Init => SafeInv /\ Single
    BY SafeInit, SingleInit
<1>2. (SafeInv /\ Single) /\ [Next]_vars => (SafeInv /\ Single)'
    BY SafeStep, SingleStep
<1>3. Single => NothingTwice
    BY DEF Single, NothingTwice
<1> QED
    BY <1>1, <1>2, <1>3, PTL DEF Spec

\* What lies in the temporary place between two attempts, or in the end, is the
\* doing of a kill or of a deletion that failed: the fan-out is left only when
\* no thread of the pool writes any more.
THEOREM OnlyKillsCorrect == Spec => []OnlyKillsLeaveFiles
<1>1. Spec => []SafeInv
    BY SafeInit, SafeStep, PTL DEF Spec
<1>2. SafeInv => OnlyKillsLeaveFiles
    BY DEF SafeInv, Unopened, OnlyKillsLeaveFiles
<1> QED
    BY <1>1, <1>2, PTL
-----------------------------------------------------------------------------
\* How far the attempt and each of its tasks have come.
RunRank ==
    [queued |-> 0, pre_query |-> 1, fan_out |-> 2, aggregate |-> 3, finally |-> 4, over |-> 5][run]

TaskRank(c) ==
    CASE thread[c] = "waiting" -> 0
      [] thread[c] = "fetching" -> 1 + fetched[c]
      [] OTHER -> Batches + 2

\* No step goes back: it uses up a retry, or moves the attempt on, or moves one task
\* on and no other back. So a job has only so many steps, however its threads, its
\* failures and RQ take turns.
GoesForward ==
    [][\/ retries' < retries
       \/ retries' = retries /\ RunRank' > RunRank
       \/ /\ UNCHANGED <<retries, run>>
          /\ \A c \in Chunks : TaskRank(c)' >= TaskRank(c)
          /\ \E c \in Chunks : TaskRank(c)' > TaskRank(c)]_vars

\* And it stops at the end only: the fan-out, in the loop or in the pool, has a task
\* that runs or may start, or is done, or may raise.
NeverStuck ==
    run = "fan_out" =>
        \/ \E c \in Chunks : thread[c] = "fetching" \/ MayStart(c)
        \/ \A c \in Chunks : thread[c] = "done"
        \/ MayRaise

\* The one action that moves only a task.
LEMMA TaskForward ==
    ASSUME TypeOK, NEW c \in Chunks, Task(c)
    PROVE  /\ UNCHANGED <<retries, run>>
           /\ \A d \in Chunks : TaskRank(d)' >= TaskRank(d)
           /\ TaskRank(c)' > TaskRank(c)
<1> USE ChunkAssumption DEF TypeOK, TaskRank
<1>1. CASE StartChunk(c)
    BY <1>1 DEF StartChunk, MayStart
<1>2. CASE Fetch(c)
    BY <1>2 DEF Fetch
<1>3. CASE ChunkDone(c)
    BY <1>3 DEF ChunkDone
<1>4. CASE ChunkFails(c)
    BY <1>4 DEF ChunkFails
<1> QED
    BY <1>1, <1>2, <1>3, <1>4 DEF Task

\* A job takes no more steps than its retries, the stages of an attempt and the
\* batches of its tasks allow, in whatever order its threads run and fail.
THEOREM ProgressCorrect == Spec => GoesForward
<1> DEFINE Forward ==
       \/ retries' < retries
       \/ retries' = retries /\ RunRank' > RunRank
       \/ /\ UNCHANGED <<retries, run>>
          /\ \A c \in Chunks : TaskRank(c)' >= TaskRank(c)
          /\ \E c \in Chunks : TaskRank(c)' > TaskRank(c)
<1>1. SafeInv /\ [Next]_vars => [Forward]_vars
    <2> SUFFICES ASSUME SafeInv, Next PROVE Forward
        OBVIOUS
    <2> USE DEF SafeInv, TypeOK, RunRank
    <2>1. CASE Dequeue \/ PreQuery \/ FanOutDone \/ FanOutRaises
        BY <2>1 DEF Dequeue, PreQuery, FanOutDone, FanOutRaises
    <2>2. CASE Aggregate \/ AggregateRaises
        BY <2>2 DEF Aggregate, AggregateRaises
    <2>3. CASE CleanUp
        BY <2>3 DEF CleanUp, EndRun, RetryOrEnd
    <2>4. CASE Killed
        BY <2>4 DEF Killed, RetryOrEnd
    <2>5. ASSUME NEW c \in Chunks, Task(c) PROVE Forward
        BY <2>5, TaskForward
    <2> QED
        BY <2>1, <2>2, <2>3, <2>4, <2>5 DEF Next, RunStep
<1>2. Spec => [][Forward]_vars
    <2> HIDE DEF Forward
    <2> QED
        BY <1>1, SafeInit, SafeStep, PTL DEF Spec
<1> QED
    BY <1>2 DEF GoesForward

\* The fan-out waits for nothing that does not come, with any number of threads.
THEOREM NeverStuckCorrect == Spec => []NeverStuck
<1>1. SafeInv => NeverStuck
    <2> SUFFICES ASSUME SafeInv,
                        \A c \in Chunks : thread[c] # "fetching",
                        \E c \in Chunks : thread[c] # "done",
                        \A c \in Chunks : ~MayStart(c)
                 PROVE  MayRaise
        BY DEF NeverStuck
    <2>1. In("fetching") = {} /\ Cardinality(In("fetching")) = 0
        BY FS_EmptySet DEF In
    <2>2. Cardinality(In("fetching")) < parallel
        BY <2>1, ChunkAssumption DEF SafeInv, TypeOK
    <2>3. \A c \in Chunks : thread[c] \in {"waiting", "done", "failed"}
        BY DEF SafeInv, TypeOK
    <2>4. CASE In("failed") = {}
        \* Then somebody waits, and may start.
        BY <2>2, <2>3, <2>4 DEF MayStart, In
    <2>5. CASE In("failed") # {}
        BY <2>1, <2>2, <2>5 DEF MayRaise, MayStart, In
    <2> QED
        BY <2>4, <2>5
<1> QED
    BY <1>1, SafeInit, SafeStep, PTL DEF Spec
=============================================================================
