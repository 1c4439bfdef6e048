----------------------- MODULE HeavyQuerySlots_proofs -----------------------
(***************************************************************************)
(* What HeavyQuerySlots guarantees for every set of callers, every limit   *)
(* and every ttl, provided no two callers share an owner_id.               *)
(***************************************************************************)
EXTENDS HeavyQuerySlots, FiniteSetTheorems, TLAPS

\* The semaphore's promise for the queries it admitted: at most
\* HEAVY_QUERY_MAX_CONCURRENT of them at once, whatever crashes, lost replies
\* and lost releases come in between.
AdmittedBounded == DistinctOwners => Cardinality(Counted) <= MaxConcurrent

\* The key's EXPIRE never takes away a member that its own score still keeps.
KeyOutlivesMembers == \A o \in Live : score[o] + Ttl <= keyTtl

\* An admitted query's member is as old as the query.
GrantedScore ==
    \A c \in Counted : /\ OwnerOf[c] \in members
                       /\ score[OwnerOf[c]] = Ttl - age[c]

LiveBounded == Cardinality(Live) <= MaxConcurrent

IInv == TypeOK /\ KeyOutlivesMembers /\ GrantedScore /\ LiveBounded

USE DEF NewScore, Cutoff

-----------------------------------------------------------------------------
(***************************************************************************)
(* Lemmas about the sorted set.                                            *)
(***************************************************************************)
LEMMA LiveFinite ==
    ASSUME TypeOK
    PROVE  /\ Live \subseteq Owners
           /\ IsFiniteSet(Live)
           /\ Cardinality(Live) \in Nat
<1>1. Live \subseteq Owners
  BY DEF TypeOK, Live
<1>2. IsFiniteSet(Live)
  BY <1>1, SlotAssumption, FS_Subset DEF SlotAssumption
<1> QED BY <1>1, <1>2, FS_CardinalityType

\* A step after which only members that were live, or fewer, are live keeps
\* the bound.
LEMMA ShrinkKeepsBound ==
    ASSUME TypeOK, LiveBounded, Live' \subseteq Live
    PROVE  LiveBounded'
<1>1. IsFiniteSet(Live) /\ Cardinality(Live) \in Nat
  BY LiveFinite
<1>2. Cardinality(Live') <= Cardinality(Live) /\ IsFiniteSet(Live')
  BY <1>1, FS_Subset
<1>3. Cardinality(Live') \in Nat
  BY <1>2, FS_CardinalityType
<1> QED BY <1>1, <1>2, <1>3, SlotAssumption DEF LiveBounded, SlotAssumption

\* The script's addition, when it adds: the bound is what it counts for.
LEMMA AddKeepsBound ==
    ASSUME TypeOK, LiveBounded, HasRoom, NEW o \in Owners, Live' = Live \cup {o}
    PROVE  LiveBounded'
<1>1. IsFiniteSet(Live) /\ Cardinality(Live) \in Nat
  BY LiveFinite
<1> DEFINE L == Live \cup {o}
<1>2. IsFiniteSet(L) /\ Cardinality(L) <= Cardinality(Live) + 1
  <2>1. IsFiniteSet(L)
        /\ Cardinality(L) = IF o \in Live THEN Cardinality(Live) ELSE Cardinality(Live) + 1
    BY <1>1, FS_AddElement
  <2> HIDE DEF L
  <2> QED BY <1>1, <2>1
<1>3. Cardinality(L) \in Nat
  BY <1>2, FS_CardinalityType
<1>4. Cardinality(L) <= MaxConcurrent
  <2> HIDE DEF L
  <2> QED BY <1>1, <1>2, <1>3, SlotAssumption DEF HasRoom, SlotAssumption
<1>5. Cardinality(Live') = Cardinality(L)
  OBVIOUS
<1> QED BY <1>4, <1>5 DEF LiveBounded

-----------------------------------------------------------------------------
LEMMA InitIInv == Init => IInv
<1> SUFFICES ASSUME Init PROVE IInv
  OBVIOUS
<1>1. TypeOK
  BY SlotAssumption DEF Init, TypeOK, SlotAssumption
<1>2. KeyOutlivesMembers /\ GrantedScore
  BY DEF Init, KeyOutlivesMembers, GrantedScore, Live, Counted
<1>3. LiveBounded
  <2>1. Live = {}
    BY DEF Init, Live
  <2> QED BY <2>1, FS_EmptySet, SlotAssumption DEF LiveBounded, SlotAssumption
<1> QED BY <1>1, <1>2, <1>3 DEF IInv

\* Types, whoever owns what.
LEMMA TypeStep == TypeOK /\ [Next]_vars => TypeOK'
<1> SUFFICES ASSUME TypeOK, [Next]_vars PROVE TypeOK'
  OBVIOUS
<1> USE SlotAssumption DEF TypeOK, SlotAssumption
<1>1. ASSUME NEW c \in Callers, Granted(c) PROVE TypeOK'
  BY <1>1 DEF Granted, ScriptAdds, SetMembers, Enter, Live
<1>2. ASSUME NEW c \in Callers, Refused(c) PROVE TypeOK'
  BY <1>2 DEF Refused, ScriptRefuses, SetMembers, Enter, Live
<1>3. ASSUME NEW c \in Callers, FailOpen(c) PROVE TypeOK'
  BY <1>3 DEF FailOpen, ScriptAdds, ScriptRefuses, SetMembers, Enter, Live, RedisUntouched
<1>4. ASSUME NEW c \in Callers, Finish(c) PROVE TypeOK'
  BY <1>4 DEF Finish, Leave, Zrem, SetMembers, RedisUntouched
<1>5. ASSUME NEW c \in Callers, FinishReleaseLost(c) PROVE TypeOK'
  BY <1>5 DEF FinishReleaseLost, Leave, Leak
<1>6. ASSUME NEW c \in Callers, Crash(c) PROVE TypeOK'
  BY <1>6 DEF Crash, Leave, Leak, RedisUntouched
<1>7. CASE CountActive
  BY <1>7 DEF CountActive, SetMembers, Live
<1>8. CASE Tick
  BY <1>8 DEF Tick, SetMembers
<1>9. CASE UNCHANGED vars
  BY <1>9 DEF vars
<1> QED BY <1>1, <1>2, <1>3, <1>4, <1>5, <1>6, <1>7, <1>8, <1>9 DEF Next

\* The invariant's step. Distinct owners matter in Zrem: a release takes away
\* no other caller's member.
LEMMA StepIInv ==
    ASSUME DistinctOwners, IInv, [Next]_vars
    PROVE  IInv'
<1> USE SlotAssumption DEF SlotAssumption
<1>0. TypeOK /\ TypeOK'
  BY TypeStep DEF IInv
<1> SUFFICES KeyOutlivesMembers' /\ GrantedScore' /\ LiveBounded'
  BY <1>0 DEF IInv
<1>1. ASSUME NEW c \in Callers, c \notin running, ScriptAdds(OwnerOf[c]), Enter(c),
             granted' = granted \cup {c}
      PROVE  KeyOutlivesMembers' /\ GrantedScore' /\ LiveBounded'
  <2>1. Live' = Live \cup {OwnerOf[c]}
    BY <1>0, <1>1 DEF ScriptAdds, SetMembers, Live, TypeOK
  <2>2. KeyOutlivesMembers'
    BY <1>0, <1>1, <2>1 DEF ScriptAdds, SetMembers, Live, TypeOK, KeyOutlivesMembers
  <2>3. GrantedScore'
    BY <1>0, <1>1 DEF ScriptAdds, SetMembers, Enter, Live, TypeOK, GrantedScore,
       Counted, IInv, DistinctOwners
  <2>4. LiveBounded'
    BY <1>0, <1>1, <2>1, AddKeepsBound DEF ScriptAdds, IInv
  <2> QED BY <2>2, <2>3, <2>4
<1>2. ASSUME NEW c \in Callers, c \notin running, ScriptRefuses, granted' = granted,
             Enter(c) \/ UNCHANGED <<running, age>>
      PROVE  KeyOutlivesMembers' /\ GrantedScore' /\ LiveBounded'
  <2>1. Live' = Live
    BY <1>0, <1>2 DEF ScriptRefuses, SetMembers, Live, TypeOK
  <2>2. KeyOutlivesMembers'
    BY <1>0, <1>2, <2>1 DEF ScriptRefuses, SetMembers, Live, TypeOK, KeyOutlivesMembers, IInv
  <2>3. GrantedScore'
    BY <1>0, <1>2 DEF ScriptRefuses, SetMembers, Enter, Live, TypeOK, GrantedScore,
       Counted, IInv
  <2> QED BY <1>0, <2>1, <2>2, <2>3, ShrinkKeepsBound DEF IInv
<1>3. ASSUME NEW c \in Callers, c \notin running, RedisUntouched, granted' = granted, Enter(c)
      PROVE  KeyOutlivesMembers' /\ GrantedScore' /\ LiveBounded'
  BY <1>0, <1>3 DEF RedisUntouched, Enter, Live, TypeOK, GrantedScore, Counted, IInv,
     KeyOutlivesMembers, LiveBounded
<1>4. ASSUME NEW c \in Callers, Leave(c), Zrem(OwnerOf[c])
      PROVE  KeyOutlivesMembers' /\ GrantedScore' /\ LiveBounded'
  <2>1. Live' = Live \ {OwnerOf[c]}
    BY <1>0, <1>4 DEF Zrem, SetMembers, Live, TypeOK
  <2>2. KeyOutlivesMembers'
    BY <1>0, <1>4, <2>1 DEF Zrem, SetMembers, Live, TypeOK, KeyOutlivesMembers, IInv
  <2>3. GrantedScore'
    BY <1>0, <1>4 DEF Zrem, SetMembers, Leave, TypeOK, GrantedScore, Counted, IInv,
       DistinctOwners
  <2> QED BY <1>0, <2>1, <2>2, <2>3, ShrinkKeepsBound DEF IInv
<1>5. ASSUME NEW c \in Callers, Leave(c), UNCHANGED <<members, score, keyTtl>>
      PROVE  KeyOutlivesMembers' /\ GrantedScore' /\ LiveBounded'
  BY <1>0, <1>5 DEF Leave, Live, TypeOK, GrantedScore, Counted, IInv,
     KeyOutlivesMembers, LiveBounded
<1>6. CASE CountActive
  <2>1. Live' = Live
    BY <1>0, <1>6 DEF CountActive, SetMembers, Live, TypeOK
  <2>2. KeyOutlivesMembers'
    BY <1>0, <1>6, <2>1 DEF CountActive, SetMembers, Live, TypeOK, KeyOutlivesMembers, IInv
  <2>3. GrantedScore'
    BY <1>0, <1>6 DEF CountActive, SetMembers, Live, TypeOK, GrantedScore, Counted, IInv
  <2> QED BY <1>0, <2>1, <2>2, <2>3, ShrinkKeepsBound DEF IInv
<1>7. CASE Tick
  <2>1. Live' \subseteq Live
    BY <1>0, <1>7 DEF Tick, SetMembers, Live, TypeOK
  <2>2. KeyOutlivesMembers'
    BY <1>0, <1>7 DEF Tick, SetMembers, Live, TypeOK, KeyOutlivesMembers, IInv
  <2>3. GrantedScore'
    BY <1>0, <1>7 DEF Tick, SetMembers, Live, TypeOK, GrantedScore, Counted,
       KeyOutlivesMembers, IInv
  <2> QED BY <1>0, <2>1, <2>2, <2>3, ShrinkKeepsBound DEF IInv
<1>8. CASE UNCHANGED vars
  BY <1>0, <1>8 DEF vars, Live, GrantedScore, Counted, IInv, KeyOutlivesMembers, LiveBounded
<1>9. ASSUME NEW c \in Callers, Granted(c) PROVE KeyOutlivesMembers' /\ GrantedScore' /\ LiveBounded'
  BY <1>1, <1>9 DEF Granted
<1>10. ASSUME NEW c \in Callers, Refused(c) PROVE KeyOutlivesMembers' /\ GrantedScore' /\ LiveBounded'
  BY <1>2, <1>10 DEF Refused
<1>11. ASSUME NEW c \in Callers, FailOpen(c) PROVE KeyOutlivesMembers' /\ GrantedScore' /\ LiveBounded'
  BY <1>1, <1>2, <1>3, <1>11 DEF FailOpen
<1>12. ASSUME NEW c \in Callers, Finish(c) PROVE KeyOutlivesMembers' /\ GrantedScore' /\ LiveBounded'
  BY <1>4, <1>5, <1>12 DEF Finish, RedisUntouched
<1>13. ASSUME NEW c \in Callers, FinishReleaseLost(c) PROVE KeyOutlivesMembers' /\ GrantedScore' /\ LiveBounded'
  BY <1>5, <1>13 DEF FinishReleaseLost, Leak
<1>14. ASSUME NEW c \in Callers, Crash(c) PROVE KeyOutlivesMembers' /\ GrantedScore' /\ LiveBounded'
  BY <1>5, <1>14 DEF Crash, Leak, RedisUntouched
<1> QED BY <1>6, <1>7, <1>8, <1>9, <1>10, <1>11, <1>12, <1>13, <1>14 DEF Next

\* Admitted queries map to live members one to one.
LEMMA CountedInjects ==
    ASSUME DistinctOwners, IInv
    PROVE  /\ RunnersAreCounted
           /\ Cardinality(Counted) \in Nat
           /\ Cardinality(Counted) <= Cardinality(Live)
<1> USE SlotAssumption DEF SlotAssumption
<1>1. \A c \in Counted : c \in Callers /\ OwnerOf[c] \in Live
  BY DEF IInv, GrantedScore, Counted, Live, TypeOK
<1>2. IsFiniteSet(Live) /\ Cardinality(Live) \in Nat
  BY LiveFinite DEF IInv
<1> DEFINE f == [c \in Counted |-> OwnerOf[c]]
<1>3. f \in Injection(Counted, Live)
  <2>1. f \in [Counted -> Live]
    BY <1>1
  <2>2. ASSUME NEW c \in Counted, NEW d \in Counted, f[c] = f[d] PROVE c = d
    BY <1>1, <2>2 DEF DistinctOwners
  <2> QED BY <2>1, <2>2 DEF Injection, IsInjective
<1>4. IsFiniteSet(Counted) /\ Cardinality(Counted) <= Cardinality(Live)
  BY <1>2, <1>3, FS_Injection
<1>5. Cardinality(Counted) \in Nat
  BY <1>4, FS_CardinalityType
<1> QED BY <1>1, <1>4, <1>5 DEF RunnersAreCounted

LEMMA CountedFit ==
    ASSUME DistinctOwners, IInv
    PROVE  RunnersAreCounted /\ AdmittedBounded
<1>1. Cardinality(Live) \in Nat
  BY LiveFinite DEF IInv
<1> QED BY <1>1, CountedInjects, SlotAssumption DEF IInv, LiveBounded, AdmittedBounded

-----------------------------------------------------------------------------
\* The sorted set, its expiry and the callers' flags stay within their types,
\* whatever the callers share.
THEOREM TypeCorrect == Spec => []TypeOK
<1>1. Init => TypeOK
  BY InitIInv DEF IInv
<1> QED BY <1>1, TypeStep, PTL DEF Spec

\* With an owner_id of its own per caller, no purge, expiry or release of
\* another takes away a running query's slot.
THEOREM RunnersCorrect ==
    ASSUME DistinctOwners
    PROVE  Spec => []RunnersAreCounted
<1>1. IInv /\ [Next]_vars => IInv'
  BY StepIInv
<1>2. IInv => RunnersAreCounted
  BY CountedFit
<1> QED BY InitIInv, <1>1, <1>2, PTL DEF Spec

\* And so the queries the script admitted never outnumber
\* HEAVY_QUERY_MAX_CONCURRENT.
THEOREM SemaphoreCorrect ==
    ASSUME DistinctOwners
    PROVE  Spec => []AdmittedBounded
<1>1. IInv /\ [Next]_vars => IInv'
  BY StepIInv
<1>2. IInv => AdmittedBounded
  BY CountedFit
<1> QED BY InitIInv, <1>1, <1>2, PTL DEF Spec

\* The key's EXPIRE, which every acquire renews, never drops a slot that its
\* score still keeps.
THEOREM KeyCorrect ==
    ASSUME DistinctOwners
    PROVE  Spec => []KeyOutlivesMembers
<1>1. IInv /\ [Next]_vars => IInv'
  BY StepIInv
<1>2. IInv => KeyOutlivesMembers
  BY DEF IInv
<1> QED BY InitIInv, <1>1, <1>2, PTL DEF Spec

-----------------------------------------------------------------------------
(***************************************************************************)
(* Where the members come from. A member is a leak or belongs to a caller  *)
(* that will release it, also while its score is too old to count.         *)
(***************************************************************************)
LEMMA StepExplained ==
    ASSUME DistinctOwners, TypeOK, TypeOK', EverySlotExplained, [Next]_vars
    PROVE  EverySlotExplained'
<1> SUFFICES ASSUME NEW o \in Live'
             PROVE  o \in leaked' \/ \E c \in acquired' : OwnerOf[c] = o
  BY DEF EverySlotExplained
<1> USE SlotAssumption DEF SlotAssumption
<1>0. o \in Live => o \in leaked \/ \E c \in acquired : OwnerOf[c] = o
  BY DEF EverySlotExplained
<1>1. ASSUME NEW c \in Callers, ScriptAdds(OwnerOf[c]), acquired' = acquired \cup {c}
      PROVE  o \in leaked' \/ \E d \in acquired' : OwnerOf[d] = o
  BY <1>0, <1>1 DEF ScriptAdds, SetMembers, Live, TypeOK
<1>2. ASSUME ScriptRefuses, acquired \subseteq acquired'
      PROVE  o \in leaked' \/ \E d \in acquired' : OwnerOf[d] = o
  BY <1>0, <1>2 DEF ScriptRefuses, SetMembers, Live, TypeOK
<1>3. ASSUME RedisUntouched, acquired \subseteq acquired'
      PROVE  o \in leaked' \/ \E d \in acquired' : OwnerOf[d] = o
  BY <1>0, <1>3 DEF RedisUntouched, Live
<1>4. ASSUME NEW c \in acquired, Leave(c), Zrem(OwnerOf[c])
      PROVE  o \in leaked' \/ \E d \in acquired' : OwnerOf[d] = o
  BY <1>0, <1>4 DEF Leave, Zrem, SetMembers, Live, TypeOK, DistinctOwners
<1>5. ASSUME NEW c \in Callers, Leave(c), Leak(c)
      PROVE  o \in leaked' \/ \E d \in acquired' : OwnerOf[d] = o
  BY <1>0, <1>5 DEF Leave, Leak, Live, TypeOK
<1>6. ASSUME NEW c \in Callers, c \notin acquired, Leave(c), RedisUntouched
      PROVE  o \in leaked' \/ \E d \in acquired' : OwnerOf[d] = o
  BY <1>0, <1>6 DEF Leave, RedisUntouched, Live
<1>7. CASE CountActive
  BY <1>0, <1>7 DEF CountActive, SetMembers, Live, TypeOK
<1>8. CASE Tick
  BY <1>0, <1>8 DEF Tick, SetMembers, Live, TypeOK
<1>9. CASE UNCHANGED vars
  BY <1>0, <1>9 DEF vars, Live
<1>10. ASSUME NEW c \in Callers, Granted(c) \/ Refused(c) \/ FailOpen(c)
       PROVE  o \in leaked' \/ \E d \in acquired' : OwnerOf[d] = o
  BY <1>1, <1>2, <1>3, <1>10 DEF Granted, Refused, FailOpen
<1>11. ASSUME NEW c \in Callers, Finish(c) \/ FinishReleaseLost(c) \/ Crash(c)
       PROVE  o \in leaked' \/ \E d \in acquired' : OwnerOf[d] = o
  BY <1>4, <1>5, <1>6, <1>11 DEF Finish, FinishReleaseLost, Crash, TypeOK
<1> QED BY <1>7, <1>8, <1>9, <1>10, <1>11 DEF Next

\* A slot that counts is a query's in flight, or that of one that died or lost
\* Redis before its release: whatever is refused, fails open or expires, no path
\* of a caller forgets its own.
THEOREM SlotsExplained ==
    ASSUME DistinctOwners
    PROVE  Spec => []EverySlotExplained
<1> DEFINE Inv == TypeOK /\ EverySlotExplained
<1>1. Init => Inv
  BY InitIInv DEF IInv, Init, EverySlotExplained, Live
<1>2. Inv /\ [Next]_vars => Inv'
  BY TypeStep, StepExplained
<1>3. Inv => EverySlotExplained
  OBVIOUS
<1> QED BY <1>1, <1>2, <1>3, PTL DEF Spec

-----------------------------------------------------------------------------
(***************************************************************************)
(* The refinement of the semaphore.                                        *)
(***************************************************************************)
LEMMA CountedBelowLive ==
    ASSUME DistinctOwners, IInv, HasRoom
    PROVE  Cardinality(Counted) < MaxConcurrent
<1>1. Cardinality(Live) \in Nat
  BY LiveFinite DEF IInv
<1> QED BY <1>1, CountedInjects, SlotAssumption DEF HasRoom

LEMMA SlotsStep ==
    ASSUME DistinctOwners, IInv, [Next]_vars
    PROVE  [Slots!Steps]_Counted
<1> USE DEF IInv, TypeOK
\* Where the script adds, the live members of the others have left room.
<1>1. ASSUME NEW c \in Callers, c \notin running, ScriptAdds(OwnerOf[c]), Enter(c),
             granted' = granted \cup {c}
      PROVE  Slots!Take(c)
  <2>1. Counted' = Counted \cup {c} /\ c \notin Counted
    BY <1>1, SlotAssumption DEF Enter, Counted
  <2>2. Cardinality(Counted) < MaxConcurrent
    BY <1>1, CountedBelowLive DEF ScriptAdds
  <2>3. Slots!Cardinality(Counted) = Cardinality(Counted)
    BY DEF Slots!Cardinality, Cardinality
  <2> QED BY <2>1, <2>2, <2>3 DEF Slots!Take
<1>2. ASSUME NEW c \in Callers, Granted(c) PROVE [Slots!Steps]_Counted
  BY <1>1, <1>2 DEF Granted, Slots!Steps
<1>3. ASSUME NEW c \in Callers, Refused(c) PROVE Counted' \subseteq Counted
  BY <1>3 DEF Refused, Enter, Counted
<1>4. ASSUME NEW c \in Callers, FailOpen(c) PROVE [Slots!Steps]_Counted
  <2>1. CASE UNCHANGED granted
    <3>1. Counted' \subseteq Counted
      BY <1>4, <2>1 DEF FailOpen, Enter, Counted
    <3> QED BY <3>1 DEF Slots!Steps, Slots!Lose
  <2>2. CASE ScriptAdds(OwnerOf[c]) /\ granted' = granted \cup {c}
    BY <1>1, <1>4, <2>2 DEF FailOpen, Slots!Steps
  <2> QED BY <1>4, <2>1, <2>2 DEF FailOpen
<1>5. ASSUME NEW c \in Callers, Leave(c) PROVE Counted' \subseteq Counted
  BY <1>5 DEF Leave, Counted
<1>6. CASE CountActive
  BY <1>6 DEF CountActive, Counted
<1>7. CASE Tick
  <2>1. Counted' \subseteq Counted
    BY <1>7, SlotAssumption DEF Tick, Counted
  <2> QED BY <2>1 DEF Slots!Steps, Slots!Lose
<1>8. CASE UNCHANGED vars
  BY <1>8 DEF vars, Counted
<1> QED
  BY <1>2, <1>3, <1>4, <1>5, <1>6, <1>7, <1>8
  DEF Next, Finish, FinishReleaseLost, Crash, Slots!Steps, Slots!Lose

\* Seen from the queries it admits, the sorted set is a counting semaphore, for any
\* number of callers, any limit and any ttl.
THEOREM RefinementCorrect ==
    ASSUME DistinctOwners
    PROVE  Spec => ImplementsSemaphore
<1>1. Init => Slots!NobodyHolds
  BY DEF Init, Counted, Slots!NobodyHolds
<1>2. IInv /\ [Next]_vars => [Slots!Steps]_Counted
  BY SlotsStep
<1>3. IInv /\ [Next]_vars => IInv'
  BY StepIInv
<1> QED BY <1>1, <1>2, <1>3, InitIInv, PTL DEF Spec, ImplementsSemaphore, Slots!SemaphoreSpec
=============================================================================
