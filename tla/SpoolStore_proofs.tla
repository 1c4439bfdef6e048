------------------------- MODULE SpoolStore_proofs -------------------------
(***************************************************************************)
(* For any number of jobs, readers and cleaners, any Ttl and any Grace that *)
(* a job's registration stays under, the orphan sweep spares what a pointer *)
(* names and what a job is about to register, if its scan came to an end.  *)
(***************************************************************************)
EXTENDS SpoolStore, TLAPS

\* Versions are given out in order and once.
Versions ==
    /\ file <= started
    /\ \A j \in Jobs : version[j] <= started
    /\ \A j \in Jobs : jpc[j] # "idle" => version[j] >= 1
    /\ \A j, k \in Jobs : version[j] = version[k] /\ version[j] # 0 => j = k

\* A job's file is not there before the job writes it, and is no older than
\* the time since then, which is less than Grace until it is registered.
Registering ==
    \A j \in Jobs :
        /\ jpc[j] = "querying" => file # version[j]
        /\ InRegister(j) => jobAge[j] < Grace
        /\ InRegister(j) /\ file = version[j] => fileAge <= jobAge[j]

\* What a cleaner took for old exists, and no job is about to register it.
OldFiles ==
    \A c \in Cleaners : wasOld[c] =>
        /\ file # 0
        /\ \A j \in Jobs : InRegister(j) => version[j] # file

\* A cleaner that has scanned the keys and did not find the file referenced
\* knows that no pointer names it, if it is old.
SweepKnows ==
    \A c \in Cleaners : pc[c] = "sweep" /\ c \notin kept /\ wasOld[c] => ptr # file

IInv == TypeOK /\ Versions /\ Registering /\ OldFiles /\ SweepKnows
-----------------------------------------------------------------------------
LEMMA InitTyped == Init => TypeOK
  BY SpoolAssumption DEF Init, TypeOK, JobPc, ReaderPc, CleanerPc

LEMMA InitIInv == Init => IInv
  BY InitTyped, SpoolAssumption
     DEF Init, IInv, Versions, Registering, OldFiles, SweepKnows, InRegister

FileTyped == file \in Nat /\ fileAge \in 0 .. Grace /\ wasOld \in [Cleaners -> BOOLEAN]

\* A file that is put in place, removed or left alone has its types.
LEMMA PutTyped ==
  ASSUME NEW v \in Nat, NEW age \in 0 .. Grace, PutFile(v, age)
  PROVE  FileTyped'
  BY DEF PutFile, FileTyped

LEMMA RemoveTyped == RemoveFile => FileTyped'
  BY SpoolAssumption DEF RemoveFile, PutFile, FileTyped

LEMMA KeepTyped == TypeOK /\ UNCHANGED fileVars => FileTyped'
  BY DEF TypeOK, fileVars, FileTyped

\* No step leaves the types.
LEMMA TypeStep == TypeOK /\ [Next]_vars => TypeOK'
<1> SUFFICES ASSUME TypeOK, [Next]_vars PROVE TypeOK'
  OBVIOUS
<1> USE SpoolAssumption
    DEF TypeOK, JobPc, ReaderPc, CleanerPc, jobVars, fileVars, ptrVars, procVars,
        Goto, JobGoto
<1>1. CASE \E j \in Jobs : StartQuery(j)
  BY <1>1 DEF StartQuery
<1>2. CASE \E j \in Jobs : Write(j)
  <2> PICK j \in Jobs : Write(j)
    BY <1>2
  <2>1. FileTyped'
    <3>1. CASE j \in InPlaceJobs
      BY <3>1, PutTyped DEF Write
    <3>2. CASE j \notin InPlaceJobs
      BY <3>2, KeepTyped DEF Write
    <3> QED BY <3>1, <3>2
  <2> QED BY <2>1 DEF Write, FileTyped
<1>3. CASE \E j \in Jobs : Check(j) \/ Skip(j) \/ JobStops(j)
  BY <1>3 DEF Check, Skip, JobStops
<1>4. CASE \E j \in Jobs : Move(j)
  <2> PICK j \in Jobs : Move(j)
    BY <1>4
  <2>1. FileTyped'
    <3>1. CASE j \in InPlaceJobs
      BY <3>1, KeepTyped DEF Move
    <3>2. CASE j \notin InPlaceJobs
      BY <3>2, PutTyped DEF Move
    <3> QED BY <3>1, <3>2
  <2>2. jpc' \in [Jobs -> JobPc]
    BY DEF Move
  <2> QED BY <2>1, <2>2 DEF Move, FileTyped
<1>5. CASE \E j \in Jobs : Register(j)
  BY <1>5 DEF Register, SetPtr
<1>6. CASE \E r \in Readers : ReadMetadata(r)
  BY <1>6 DEF ReadMetadata
<1>7. CASE \E r \in Readers : ResolvePath(r) \/ OpenFile(r) \/ ForceRefresh(r) \/ ClearReads(r)
  BY <1>7 DEF ResolvePath, OpenFile, ForceRefresh, ClearReads
<1>8. CASE \E r \in Readers : ClearUnlinks(r)
  BY <1>8 DEF ClearUnlinks, RemoveFile, PutFile
<1>9. CASE \E r \in Readers : ClearDeletes(r)
  BY <1>9 DEF ClearDeletes, DropPtr
<1>10. CASE \E c \in Cleaners : TakeNow(c)
  BY <1>10 DEF TakeNow
<1>11. CASE \E c \in Cleaners : ScanKeys(c) \/ ScanFails(c) \/ CleanerStops(c)
  BY <1>11 DEF ScanKeys, ScanFails, CleanerStops
<1>12. CASE \E c \in Cleaners : Judge(c)
  <2> PICK c \in Cleaners : Judge(c)
    BY <1>12
  <2>1. FileTyped'
    BY RemoveTyped, KeepTyped DEF Judge
  <2>2. pc' \in [Readers \cup Cleaners -> ReaderPc \cup CleanerPc] /\ kept' \subseteq Cleaners
    BY DEF Judge
  <2> QED BY <2>1, <2>2 DEF Judge, FileTyped
<1>13. CASE \E c \in Cleaners : DeleteKey(c)
  BY <1>13 DEF DeleteKey, DropPtr
<1>14. CASE \E c \in Cleaners : Sweep(c)
  <2> PICK c \in Cleaners : Sweep(c)
    BY <1>14
  <2>1. FileTyped'
    BY RemoveTyped, KeepTyped DEF Sweep
  <2> QED BY <2>1 DEF Sweep, FileTyped
<1>15. CASE Tick
  <2>1. jobAge' \in [Jobs -> 0 .. Grace]
    BY <1>15 DEF Tick, RegisterTakesLessThanGrace
  <2>2. fileAge' \in 0 .. Grace
    BY <1>15 DEF Tick, Older
  <2>3. life' \in 0 .. Ttl + 1 /\ ptr' \in Nat /\ best' \in Nat /\ wasExpired' \in [Cleaners -> BOOLEAN]
    <3>1. CASE life <= 1
      <4>1. DropPtr
        BY <1>15, <3>1 DEF Tick
      <4> QED BY <4>1 DEF DropPtr
    <3>2. CASE ~(life <= 1)
      BY <1>15, <3>2 DEF Tick
    <3> QED BY <3>1, <3>2
  <2> QED BY <1>15, <2>1, <2>2, <2>3 DEF Tick
<1>16. CASE UNCHANGED vars
  BY <1>16 DEF vars
<1> QED
  BY <1>1, <1>2, <1>3, <1>4, <1>5, <1>6, <1>7, <1>8, <1>9, <1>10, <1>11, <1>12,
     <1>13, <1>14, <1>15, <1>16
  DEF Next, JobStep, ReaderStep, CleanerStep

-----------------------------------------------------------------------------
\* The inductive step. A step that changes neither the files nor the jobs
\* can disturb SweepKnows only.
LEMMA QuietStep ==
  ASSUME IInv, UNCHANGED <<jobVars, fileVars>>,
         \A c \in Cleaners : pc'[c] = "sweep" /\ c \notin kept' /\ wasOld[c] => ptr' # file
  PROVE  (Versions /\ Registering /\ OldFiles /\ SweepKnows)'
  BY DEF IInv, Versions, Registering, OldFiles, SweepKnows, jobVars, fileVars, InRegister

\* Nor does the removal of the file.
LEMMA RemoveStep ==
  ASSUME IInv, UNCHANGED jobVars, RemoveFile
  PROVE  (Versions /\ Registering /\ OldFiles /\ SweepKnows)'
  BY SpoolAssumption
  DEF IInv, TypeOK, Versions, Registering, OldFiles, SweepKnows, jobVars, InRegister,
      RemoveFile, PutFile

LEMMA IInvStep == IInv /\ [Next]_vars => IInv'
<1> SUFFICES ASSUME IInv, [Next]_vars
             PROVE  (Versions /\ Registering /\ OldFiles /\ SweepKnows)'
  BY TypeStep DEF IInv
<1> USE SpoolAssumption
<1>t. TypeOK /\ TypeOK'
  BY TypeStep DEF IInv
<1>1. ASSUME NEW j \in Jobs, StartQuery(j)
      PROVE  (Versions /\ Registering /\ OldFiles /\ SweepKnows)'
  BY <1>1 DEF IInv, TypeOK, Versions, Registering, OldFiles, SweepKnows, InRegister,
     StartQuery, JobGoto, fileVars, ptrVars, procVars
<1>2. ASSUME NEW j \in Jobs, Write(j)
      PROVE  (Versions /\ Registering /\ OldFiles /\ SweepKnows)'
  <2>1. CASE j \in InPlaceJobs
    BY <1>2, <2>1 DEF IInv, TypeOK, Versions, Registering, OldFiles, SweepKnows,
       InRegister, Write, PutFile, JobGoto, ptrVars, procVars
  <2>2. CASE j \notin InPlaceJobs
    BY <1>2, <2>2 DEF IInv, TypeOK, Versions, Registering, OldFiles, SweepKnows,
       InRegister, Write, JobGoto, fileVars, ptrVars, procVars
  <2> QED BY <2>1, <2>2
<1>3. ASSUME NEW j \in Jobs, Check(j) \/ Skip(j) \/ JobStops(j)
      PROVE  (Versions /\ Registering /\ OldFiles /\ SweepKnows)'
  BY <1>3 DEF IInv, TypeOK, Versions, Registering, OldFiles, SweepKnows, InRegister,
     Check, Skip, JobStops, JobGoto, fileVars, ptrVars, procVars
<1>4. ASSUME NEW j \in Jobs, Move(j)
      PROVE  (Versions /\ Registering /\ OldFiles /\ SweepKnows)'
  <2>1. CASE j \in InPlaceJobs
    BY <1>4, <2>1 DEF IInv, TypeOK, Versions, Registering, OldFiles, SweepKnows,
       InRegister, Move, JobGoto, fileVars, ptrVars, procVars
  <2>2. CASE j \notin InPlaceJobs
    BY <1>4, <2>2 DEF IInv, TypeOK, Versions, Registering, OldFiles, SweepKnows,
       InRegister, Move, PutFile, JobGoto, ptrVars, procVars
  <2> QED BY <2>1, <2>2
<1>5. ASSUME NEW j \in Jobs, Register(j)
      PROVE  (Versions /\ Registering /\ OldFiles /\ SweepKnows)'
  BY <1>5 DEF IInv, TypeOK, Versions, Registering, OldFiles, SweepKnows, InRegister,
     Register, SetPtr, JobGoto, fileVars, procVars
<1>6. ASSUME NEW r \in Readers, ReaderStep(r)
      PROVE  (Versions /\ Registering /\ OldFiles /\ SweepKnows)'
  <2>1. CASE ClearUnlinks(r)
    BY <2>1, RemoveStep DEF ClearUnlinks
  <2>2. CASE ReadMetadata(r) \/ ResolvePath(r) \/ OpenFile(r) \/ ForceRefresh(r) \/ ClearReads(r)
    <3>1. UNCHANGED <<jobVars, fileVars, ptrVars, kept>>
      BY <2>2 DEF ReadMetadata, ResolvePath, OpenFile, ForceRefresh, ClearReads
    <3>2. \A c \in Cleaners : pc'[c] = pc[c]
      BY <2>2, <1>t DEF TypeOK, ReadMetadata, ResolvePath, OpenFile, ForceRefresh, ClearReads, Goto
    <3> QED BY <3>1, <3>2, QuietStep DEF IInv, SweepKnows, ptrVars
  <2>3. CASE ClearDeletes(r)
    BY <2>3, <1>t, QuietStep DEF ClearDeletes, DropPtr, IInv, OldFiles, TypeOK
  <2> QED BY <1>6, <2>1, <2>2, <2>3 DEF ReaderStep
<1>7. ASSUME NEW c \in Cleaners, TakeNow(c)
      PROVE  (Versions /\ Registering /\ OldFiles /\ SweepKnows)'
  BY <1>7 DEF IInv, TypeOK, Versions, Registering, OldFiles, SweepKnows, InRegister,
     TakeNow, Goto, jobVars
<1>8. ASSUME NEW c \in Cleaners, ScanKeys(c) \/ ScanFails(c) \/ CleanerStops(c)
      PROVE  (Versions /\ Registering /\ OldFiles /\ SweepKnows)'
  BY <1>8, QuietStep DEF IInv, TypeOK, SweepKnows, OldFiles, ScanKeys, ScanFails,
     CleanerStops, Goto, ptrVars
<1>9. ASSUME NEW c \in Cleaners, Judge(c)
      PROVE  (Versions /\ Registering /\ OldFiles /\ SweepKnows)'
  BY <1>9, QuietStep, RemoveStep DEF IInv, TypeOK, SweepKnows, Judge, Goto, ptrVars
<1>10. ASSUME NEW c \in Cleaners, DeleteKey(c)
      PROVE  (Versions /\ Registering /\ OldFiles /\ SweepKnows)'
  BY <1>10, QuietStep DEF IInv, TypeOK, OldFiles, DeleteKey, DropPtr, Goto
<1>11. ASSUME NEW c \in Cleaners, Sweep(c)
      PROVE  (Versions /\ Registering /\ OldFiles /\ SweepKnows)'
  BY <1>11, QuietStep, RemoveStep DEF IInv, TypeOK, SweepKnows, Sweep, Goto, ptrVars
<1>12. CASE Tick
  BY <1>12, <1>t DEF IInv, TypeOK, Versions, Registering, OldFiles, SweepKnows,
     InRegister, Tick, RegisterTakesLessThanGrace, Older, DropPtr, procVars
<1>13. CASE UNCHANGED vars
  BY <1>13 DEF IInv, Versions, Registering, OldFiles, SweepKnows, InRegister, vars,
     jobVars, fileVars, ptrVars, procVars
<1> QED
  BY <1>1, <1>2, <1>3, <1>4, <1>5, <1>6, <1>7, <1>8, <1>9, <1>10, <1>11, <1>12, <1>13
  DEF Next, JobStep, CleanerStep
-----------------------------------------------------------------------------
\* A sweep that removes the file removes neither the file of a live pointer
\* nor one a job is about to register.
LEMMA SweepSafe ==
  ASSUME IInv, NEW c \in Cleaners, Sweep(c), pc[c] = "sweep", file' # file
  PROVE  file # ptr /\ \A j \in Jobs : InRegister(j) => version[j] # file
  BY DEF IInv, OldFiles, SweepKnows, Sweep, fileVars

\* Every variable keeps its type.
THEOREM TypeCorrect == Spec => []TypeOK
<1>1. TypeOK /\ [Next]_vars => TypeOK'
  BY TypeStep
<1> QED BY InitTyped, <1>1, PTL DEF Spec

\* After a scan that came to its end, the orphan sweep of cleanup_expired_spool
\* never deletes a parquet a metadata key names or a job is between writing and
\* registering.
THEOREM SweepCorrect == Spec => SweepSparesRegistered
<1> DEFINE Spares == \A c \in Cleaners : Sweep(c) /\ pc[c] = "sweep" /\ file' # file =>
              /\ file # ptr
              /\ \A j \in Jobs : InRegister(j) => version[j] # file
<1>1. IInv /\ [Next]_vars => IInv'
  BY IInvStep
<1>2. IInv /\ [Next]_vars => [Spares]_vars
  BY SweepSafe
<1>3. Spec => [][Spares]_vars
  <2> HIDE DEF Spares
  <2> QED BY InitIInv, <1>1, <1>2, PTL DEF Spec
<1> QED BY <1>3 DEF SweepSparesRegistered
=============================================================================
