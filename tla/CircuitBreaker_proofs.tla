------------------------ MODULE CircuitBreaker_proofs ------------------------
(***************************************************************************)
(* For any number of threads, any thresholds, window and timeout: an open  *)
(* breaker stays shut for the whole recovery timeout, and a closed one     *)
(* opens only on failures recorded since it closed.                        *)
(***************************************************************************)
EXTENDS CircuitBreaker, FiniteSetTheorems, FunctionTheorems,
        SequenceTheorems, TLAPS

\* Away from OPEN the recovery timeout has passed; in OPEN _open_time is the
\* time of the last opening.
Timed ==
    /\ state # "OPEN" => quiet = Recovery
    /\ state = "OPEN" => openAge = quiet

\* The failures in a closed breaker's window were recorded since it closed.
WindowIsFresh ==
    state = "CLOSED" => Failures(results) <= fresh \/ fresh = FailureThreshold

IInv == TypeOK /\ Timed /\ WindowIsFresh
-----------------------------------------------------------------------------
(***************************************************************************)
(* The window.                                                             *)
(***************************************************************************)
LEMMA FailuresFinite ==
  ASSUME NEW w \in Seq(BOOLEAN)
  PROVE  /\ IsFiniteSet({i \in DOMAIN w : ~w[i]})
         /\ Failures(w) \in Nat
<1>1. IsFiniteSet(DOMAIN w)
  BY FS_Interval, LenProperties
<1>2. {i \in DOMAIN w : ~w[i]} \in SUBSET (DOMAIN w)
  OBVIOUS
<1>3. IsFiniteSet({i \in DOMAIN w : ~w[i]})
  BY <1>1, <1>2, FS_Subset
<1> QED
  BY <1>3, FS_CardinalityType DEF Failures

\* A result appended adds at most one failure.
LEMMA FailuresAppend ==
  ASSUME NEW w \in Seq(BOOLEAN), NEW ok \in BOOLEAN
  PROVE  /\ Failures(Append(w, ok)) <= Failures(w) + 1
         /\ ok => Failures(Append(w, ok)) <= Failures(w)
<1> DEFINE a == Append(w, ok)
           A == {i \in DOMAIN a : ~a[i]}
           W == {i \in DOMAIN w : ~w[i]}
<1>1. /\ a \in Seq(BOOLEAN)
      /\ DOMAIN w = 1 .. Len(w) /\ Len(w) \in Nat
      /\ DOMAIN a = 1 .. Len(w) + 1
      /\ \A i \in 1 .. Len(w) : a[i] = w[i]
      /\ a[Len(w) + 1] = ok
  BY AppendProperties, LenProperties
<1>2. A \in SUBSET (W \cup {Len(w) + 1}) /\ (ok => A \in SUBSET W)
  <2> HIDE DEF a
  <2> QED BY <1>1
<1>3. IsFiniteSet(W) /\ IsFiniteSet(A) /\ Cardinality(W) \in Nat /\ Cardinality(A) \in Nat
  <2> HIDE DEF a
  <2> QED BY <1>1, FailuresFinite DEF Failures
<1>4. IsFiniteSet(W \cup {Len(w) + 1}) /\ Cardinality(W \cup {Len(w) + 1}) <= Cardinality(W) + 1
  <2> HIDE DEF A, W
  <2>1. /\ IsFiniteSet(W \cup {Len(w) + 1})
        /\ Cardinality(W \cup {Len(w) + 1}) =
             IF Len(w) + 1 \in W THEN Cardinality(W) ELSE Cardinality(W) + 1
    BY <1>3, FS_AddElement, Zenon
  <2> QED BY <2>1, <1>3
<1>5. Cardinality(W \cup {Len(w) + 1}) \in Nat
  BY <1>4, FS_CardinalityType
<1>6. Cardinality(A) <= Cardinality(W) + 1
  <2>1. Cardinality(A) <= Cardinality(W \cup {Len(w) + 1})
    <3> HIDE DEF A, W
    <3> QED BY <1>2, <1>4, FS_Subset
  <2> HIDE DEF A, W
  <2> QED BY <2>1, <1>3, <1>4, <1>5
<1>7. ok => Cardinality(A) <= Cardinality(W)
  <2> HIDE DEF A, W
  <2> QED BY <1>2, <1>3, FS_Subset
<1> QED
  BY <1>6, <1>7 DEF Failures

\* Dropping the oldest result adds none.
LEMMA FailuresTail ==
  ASSUME NEW w \in Seq(BOOLEAN), w # <<>>
  PROVE  Failures(Tail(w)) <= Failures(w)
<1> DEFINE t == Tail(w)
           T == {i \in DOMAIN t : ~t[i]}
           W == {i \in DOMAIN w : ~w[i]}
           shift == [i \in T |-> i + 1]
<1>1. /\ t \in Seq(BOOLEAN)
      /\ Len(w) \in Nat \ {0} /\ DOMAIN w = 1 .. Len(w)
      /\ Len(t) = Len(w) - 1 /\ DOMAIN t = 1 .. Len(w) - 1
      /\ \A i \in 1 .. Len(t) : t[i] = w[i + 1]
  BY HeadTailProperties, LenProperties, EmptySeq
<1>2. shift \in Injection(T, W)
  <2> HIDE DEF t
  <2>1. shift \in [T -> W]
    BY <1>1
  <2>2. \A i, j \in T : shift[i] = shift[j] => i = j
    BY <1>1
  <2> HIDE DEF T, W, shift
  <2> QED BY <2>1, <2>2, Fun_IsInj, Zenon
<1>3. IsFiniteSet(W)
  BY FailuresFinite
<1>4. Cardinality(T) <= Cardinality(W)
  <2> HIDE DEF T, W, shift
  <2> QED BY <1>2, <1>3, FS_Injection
<1> QED
  BY <1>4 DEF Failures

\* The deque.
LEMMA PushProperties ==
  ASSUME TypeOK, NEW ok \in BOOLEAN
  PROVE  /\ Push(ok) \in Seq(BOOLEAN)
         /\ Len(Push(ok)) <= WindowSize
         /\ Failures(Push(ok)) <= Failures(results) + 1
         /\ ok => Failures(Push(ok)) <= Failures(results)
<1> DEFINE w == IF Len(results) = WindowSize THEN Tail(results) ELSE results
<1>1. results \in Seq(BOOLEAN) /\ Len(results) <= WindowSize /\ Len(results) \in Nat
  BY LenProperties DEF TypeOK
<1>2. w \in Seq(BOOLEAN) /\ Len(w) < WindowSize /\ Failures(w) <= Failures(results)
  <2>1. CASE Len(results) = WindowSize
    <3>1. results # <<>>
      BY <1>1, <2>1, BreakerAssumption, EmptySeq
    <3>2. Tail(results) \in Seq(BOOLEAN) /\ Len(Tail(results)) = Len(results) - 1
      BY <1>1, <3>1, HeadTailProperties
    <3> QED BY <1>1, <2>1, <3>1, <3>2, FailuresTail, BreakerAssumption
  <2>2. CASE Len(results) # WindowSize
    <3>1. Failures(results) \in Nat
      BY <1>1, FailuresFinite
    <3> QED BY <1>1, <2>2, <3>1, BreakerAssumption
  <2> QED BY <2>1, <2>2
<1>3. Push(ok) = Append(w, ok)
  BY DEF Push
<1> HIDE DEF w
<1>4. /\ Failures(w) \in Nat /\ Failures(results) \in Nat
      /\ Append(w, ok) \in Seq(BOOLEAN) /\ Len(Append(w, ok)) = Len(w) + 1
  <2>1. Failures(w) \in Nat /\ Failures(results) \in Nat
    BY <1>1, <1>2, FailuresFinite
  <2> QED BY <2>1, <1>2, AppendProperties
<1>5. Failures(Append(w, ok)) \in Nat
  BY <1>4, FailuresFinite
<1>6. Len(w) \in Nat
  BY <1>2, LenProperties
<1> QED
  BY <1>2, <1>3, <1>4, <1>5, <1>6, FailuresAppend, BreakerAssumption
-----------------------------------------------------------------------------
(***************************************************************************)
(* The types.                                                              *)
(***************************************************************************)
LEMMA InitIInv == Init => IInv
<1> SUFFICES ASSUME Init PROVE IInv
  OBVIOUS
<1>1. <<>> \in Seq(BOOLEAN) /\ Len(<<>>) = 0
  BY EmptySeq
<1>2. Failures(<<>>) = 0
  <2>1. {i \in DOMAIN <<>> : ~(<<>>)[i]} = {}
    BY <1>1, LenProperties
  <2> QED BY <2>1, FS_EmptySet DEF Failures
<1> QED
  BY <1>1, <1>2, BreakerAssumption
     DEF Init, IInv, TypeOK, Timed, WindowIsFresh, Requests

\* What recording a success does to the breaker.
LEMMA SuccessStep ==
  ASSUME IInv, RecordSuccess
  PROVE  /\ state' \in {"CLOSED", "OPEN", "HALF_OPEN"}
         /\ results' \in Seq(BOOLEAN) /\ Len(results') <= WindowSize
         /\ openAge' \in 0 .. Recovery /\ quiet' = quiet
         /\ fresh' \in 0 .. FailureThreshold
         /\ Timed' /\ WindowIsFresh'
         /\ ~(state = "CLOSED" /\ state' = "OPEN")
<1> USE BreakerAssumption DEF IInv, TypeOK
<1>1. CASE state = "HALF_OPEN"
  <2>1. <<>> \in Seq(BOOLEAN) /\ Len(<<>>) = 0 /\ Failures(<<>>) = 0
    <3>1. {i \in DOMAIN <<>> : ~(<<>>)[i]} = {}
      BY EmptySeq, LenProperties
    <3> QED BY <3>1, FS_EmptySet, EmptySeq DEF Failures
  <2>2. state' = "CLOSED" /\ results' = <<>> /\ openAge' = 0 /\ fresh' = 0 /\ quiet' = quiet
    BY <1>1 DEF RecordSuccess, Close
  <2>3. Failures(results') = 0
    BY <2>1, <2>2
  <2>4. Timed' /\ WindowIsFresh'
    BY <1>1, <2>2, <2>3 DEF Timed, WindowIsFresh
  <2> QED BY <1>1, <2>1, <2>2, <2>4
<1>2. CASE state # "HALF_OPEN"
  <2>1. results' = Push(TRUE) /\ UNCHANGED <<state, openAge, quiet, fresh>>
    BY <1>2 DEF RecordSuccess
  <2>2. /\ Push(TRUE) \in Seq(BOOLEAN) /\ Len(Push(TRUE)) <= WindowSize
        /\ Failures(Push(TRUE)) <= Failures(results)
    BY PushProperties
  <2>3. Failures(Push(TRUE)) \in Nat /\ Failures(results) \in Nat
    BY <2>2, FailuresFinite
  <2>4. Failures(results') <= Failures(results) /\ Failures(results') \in Nat
    BY <2>1, <2>2, <2>3
  <2>5. WindowIsFresh'
    <3>1. state = "CLOSED" => Failures(results) <= fresh \/ fresh = FailureThreshold
      BY DEF WindowIsFresh
    <3>2. fresh \in Nat
      OBVIOUS
    <3>3. state' = state /\ fresh' = fresh
      BY <2>1
    <3> HIDE DEF IInv, TypeOK
    <3>4. state' = "CLOSED" => Failures(results') <= fresh' \/ fresh' = FailureThreshold
      BY <2>3, <2>4, <3>1, <3>2, <3>3
    <3> QED BY <3>4 DEF WindowIsFresh
  <2>6. Timed'
    BY <2>1 DEF Timed
  <2> QED BY <2>1, <2>2, <2>5, <2>6
<1> QED
  BY <1>1, <1>2

\* What recording a failure does to it: the breaker opens only on fresh ones.
LEMMA FailureStep ==
  ASSUME IInv, RecordFailure
  PROVE  /\ state' \in {"CLOSED", "OPEN", "HALF_OPEN"}
         /\ results' \in Seq(BOOLEAN) /\ Len(results') <= WindowSize
         /\ openAge' \in 0 .. Recovery /\ quiet' \in 0 .. Recovery
         /\ fresh' \in 0 .. FailureThreshold
         /\ Timed' /\ WindowIsFresh'
         /\ state = "CLOSED" /\ state' = "OPEN" => fresh' >= FailureThreshold
<1> USE BreakerAssumption DEF IInv, TypeOK
<1>1. /\ results' = Push(FALSE)
      /\ fresh' = IF fresh < FailureThreshold THEN fresh + 1 ELSE fresh
  BY DEF RecordFailure
<1>2. /\ results' \in Seq(BOOLEAN) /\ Len(results') <= WindowSize
      /\ Failures(results') <= Failures(results) + 1
  BY <1>1, PushProperties
<1>3. Failures(results') \in Nat /\ Failures(results) \in Nat
  BY <1>2, FailuresFinite
<1>4. fresh' \in 0 .. FailureThreshold
  BY <1>1
<1>5. state = "CLOSED" => Failures(results') <= fresh' \/ fresh' = FailureThreshold
  <2>1. fresh \in Nat /\ FailureThreshold \in Nat /\ fresh <= FailureThreshold
    OBVIOUS
  <2>2. state = "CLOSED" => Failures(results) <= fresh \/ fresh = FailureThreshold
    BY DEF WindowIsFresh
  <2>3. fresh = FailureThreshold => fresh' = FailureThreshold
    BY <1>1, <2>1
  <2>4. fresh # FailureThreshold => fresh' = fresh + 1
    BY <1>1, <2>1
  <2> HIDE DEF IInv, TypeOK
  <2> QED BY <1>2, <1>3, <2>1, <2>2, <2>3, <2>4
<1>6. CASE state = "HALF_OPEN" \/ (state = "CLOSED" /\ ShouldOpen(results'))
  <2>1. state' = "OPEN" /\ openAge' = 0 /\ quiet' = 0
    BY <1>6 DEF RecordFailure, Open
  <2>2. state = "CLOSED" => fresh' >= FailureThreshold
    BY <1>3, <1>4, <1>5, <1>6 DEF ShouldOpen
  <2> QED BY <1>2, <1>4, <2>1, <2>2 DEF Timed, WindowIsFresh
<1>7. CASE ~(state = "HALF_OPEN" \/ (state = "CLOSED" /\ ShouldOpen(results')))
  <2>1. UNCHANGED <<state, openAge, quiet>>
    BY <1>7 DEF RecordFailure
  <2> QED BY <1>2, <1>4, <1>5, <2>1 DEF Timed, WindowIsFresh
<1> QED
  BY <1>6, <1>7
-----------------------------------------------------------------------------
\* Every step keeps the invariant, and the breaker opens only as it should.
LEMMA StepIInv ==
  ASSUME IInv, [Next]_vars
  PROVE  IInv' /\ (state = "CLOSED" /\ state' = "OPEN" => fresh' >= FailureThreshold)
<1> USE BreakerAssumption
<1>1. ASSUME NEW r \in Requests, NEW to \in {"waiting", "running"}, Allow(r, to)
      PROVE  IInv' /\ state' # "OPEN"
  <2>1. state' \in {"CLOSED", "HALF_OPEN"} /\ (state = "OPEN" => openAge = Recovery)
    BY <1>1 DEF Allow, IInv, TypeOK
  <2>2. state' = "CLOSED" => state = "CLOSED"
    BY <1>1 DEF Allow, IInv, TypeOK
  <2>3. pc' \in [Requests -> {"idle", "waiting", "running"}]
    BY <1>1 DEF Allow, IInv, TypeOK
  <2>4. UNCHANGED <<results, openAge, quiet, fresh>>
    BY <1>1 DEF Allow
  <2> QED
    BY <2>1, <2>2, <2>3, <2>4 DEF IInv, TypeOK, Timed, WindowIsFresh
<1>2. ASSUME NEW r \in Requests, Leave(r), IInv
      PROVE  pc' \in [Requests -> {"idle", "waiting", "running"}]
  BY <1>2 DEF Leave, IInv, TypeOK
<1>3. ASSUME NEW r \in Requests, Succeed(r)
      PROVE  IInv' /\ ~(state = "CLOSED" /\ state' = "OPEN")
  BY <1>2, <1>3, SuccessStep DEF Succeed, IInv, TypeOK
<1>4. ASSUME NEW r \in Requests, Fail(r)
      PROVE  IInv' /\ (state = "CLOSED" /\ state' = "OPEN" => fresh' >= FailureThreshold)
  BY <1>2, <1>4, FailureStep DEF Fail, IInv, TypeOK
<1>5. ASSUME NEW r \in Requests, AcquireSlow(r)
      PROVE  IInv' /\ state' = state
  BY <1>5 DEF AcquireSlow, IInv, TypeOK, Timed, WindowIsFresh, breaker, ghosts
<1>6. ASSUME NEW r \in Requests, GiveUp(r)
      PROVE  IInv' /\ state' = state
  BY <1>2, <1>6 DEF GiveUp, IInv, TypeOK, Timed, WindowIsFresh, breaker
<1>7. CASE Tick
  BY <1>7 DEF Tick, Older, IInv, TypeOK, Timed, WindowIsFresh
<1>8. CASE UNCHANGED vars
  BY <1>8 DEF vars, breaker, ghosts, IInv, TypeOK, Timed, WindowIsFresh
<1> QED
  BY <1>1, <1>3, <1>4, <1>5, <1>6, <1>7, <1>8 DEF Next, AllowFast, AllowSlow

LEMMA AlwaysIInv == Spec => []IInv
  BY InitIInv, StepIInv, PTL DEF Spec

\* The types, for every value of the constants.
THEOREM TypeCorrect == Spec => []TypeOK
  BY AlwaysIInv, PTL DEF IInv

\* No request is let through in the recovery_timeout that follows an opening,
\* whatever late results allow_request's callers report.
THEOREM RecoveryCorrect == Spec => AdmitsOnlyAfterRecovery
<1>1. ASSUME IInv, NEW r \in Requests, AllowFast(r) \/ AllowSlow(r)
      PROVE  quiet = Recovery
  <2>1. state = "OPEN" => openAge >= Recovery
    BY <1>1 DEF AllowFast, AllowSlow, Allow
  <2>2. openAge \in 0 .. Recovery /\ Recovery \in Nat
    BY <1>1, BreakerAssumption DEF IInv, TypeOK
  <2>3. CASE state = "OPEN"
    BY <1>1, <2>1, <2>2, <2>3 DEF IInv, Timed
  <2>4. CASE state # "OPEN"
    BY <1>1, <2>4 DEF IInv, Timed
  <2> QED BY <2>3, <2>4
<1>2. IInv /\ [Next]_vars
        => [\A r \in Requests : AllowFast(r) \/ AllowSlow(r) => quiet = Recovery]_vars
  BY <1>1
<1> QED
  BY <1>2, AlwaysIInv, PTL DEF Spec, AdmitsOnlyAfterRecovery

\* A closed breaker opens only on failure_threshold failures recorded since it
\* closed.
THEOREM OpeningCorrect == Spec => OpensOnFreshFailures
<1>1. IInv /\ [Next]_vars
        => [state = "CLOSED" /\ state' = "OPEN" => fresh' >= FailureThreshold]_vars
  BY StepIInv
<1> QED
  BY <1>1, AlwaysIInv, PTL DEF Spec, OpensOnFreshFailures
=============================================================================
