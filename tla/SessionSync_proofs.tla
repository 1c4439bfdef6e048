------------------------- MODULE SessionSync_proofs -------------------------
(***************************************************************************)
(* For any users, workers, batch size and number of rows: what is marked   *)
(* as synced has been copied as it is, unless its last write fell on the   *)
(* way, and what is deleted has been copied.                               *)
(***************************************************************************)
EXTENDS SessionSync, TLAPS

\* A row that is in use has been written, and an open one leaves a write to Orphans.
Counted ==
    \A i \in Ids : /\ rows[i].state = "unused" => rows[i].v = 0 /\ ~rows[i].synced
                   /\ rows[i].state # "unused" => rows[i].v > 0
                   /\ rows[i].state = "open" => rows[i].v < MaxWrites

\* A worker has a batch while it copies and marks only, of rows in use.
Batches ==
    \A s \in Workers, i \in Ids : batch[s][i] # 0 =>
        pc[s] \in {"copy", "mark"} /\ rows[i].state # "unused"

\* What is marked, about to be marked or deleted has been copied.
Seen ==
    \A i \in Ids : /\ rows[i].synced \/ rows[i].state = "deleted" => mysql[i] # 0
                   /\ \A s \in Workers : pc[s] = "mark" /\ batch[s][i] # 0 => mysql[i] # 0

\* Nobody holds an old version of a row that has not been raced.
Current ==
    \A i \in Ids \ raced :
        /\ rows[i].synced => mysql[i] = rows[i].v
        /\ \A s \in Workers : batch[s][i] # 0 =>
              batch[s][i] = rows[i].v /\ (pc[s] = "mark" => mysql[i] = rows[i].v)

IInv == TypeOK /\ Counted /\ Batches /\ Seen /\ Current

LEMMA InitIInv == Init => IInv
<1> SUFFICES ASSUME Init PROVE IInv
  OBVIOUS
<1> USE SessionAssumption, FaultsAssumption DEF Init
<1>1. rows \in [Ids -> Row] /\ \A i \in Ids : rows[i].state = "unused" /\ rows[i].v = 0 /\ ~rows[i].synced
  <2>1. (CHOOSE u \in Users : TRUE) \in Users
    OBVIOUS
  <2> QED BY <2>1 DEF Row
<1>2. mysql \in [Ids -> 0 .. MaxWrites] /\ batch \in [Workers -> [Ids -> 0 .. MaxWrites]]
  BY DEF NoBatch
<1>3. \A s \in Workers, i \in Ids : batch[s][i] = 0
  BY DEF NoBatch
<1> QED
  BY <1>1, <1>2, <1>3 DEF IInv, TypeOK, Counted, Batches, Seen, Current
-----------------------------------------------------------------------------
LEMMA WriteTyped ==
  ASSUME TypeOK, NEW i \in Ids, rows[i].v < MaxWrites, NEW st \in {"open", "closed"}
  PROVE  /\ Write(i, st) \in Row
         /\ Write(i, st).state = st /\ Write(i, st).v = rows[i].v + 1 /\ Write(i, st).synced = FALSE
<1>1. rows[i] \in Row
  BY DEF TypeOK
<1> DEFINE r == rows[i]
<1>2. r \in Row /\ r.v + 1 \in 0 .. MaxWrites
  BY <1>1, SessionAssumption DEF Row
<1>3. Write(i, st) = [r EXCEPT !.state = st, !.v = @ + 1, !.synced = FALSE]
  BY DEF Write
<1> HIDE DEF r
<1>4. /\ [r EXCEPT !.state = st, !.v = @ + 1, !.synced = FALSE] \in Row
      /\ [r EXCEPT !.state = st, !.v = @ + 1, !.synced = FALSE].state = st
      /\ [r EXCEPT !.state = st, !.v = @ + 1, !.synced = FALSE].v = r.v + 1
      /\ [r EXCEPT !.state = st, !.v = @ + 1, !.synced = FALSE].synced = FALSE
  BY <1>2 DEF Row
<1> QED
  BY <1>3, <1>4 DEF r

\* A write of any rows in use.
LEMMA WriteStep ==
  ASSUME IInv, NEW ids \in SUBSET Ids, NEW st \in {"open", "closed"}, WriteAll(ids, st),
         \A i \in ids : There(i) /\ rows[i].v < MaxWrites,
         st = "open" => Bounded(ids),
         UNCHANGED mysql, pc' \in [Workers -> {"wait", "copy", "mark", "orphans", "cleanup"}],
         batch' \in [Workers -> [Ids -> 0 .. MaxWrites]], faults' \in 0 .. MaxFaults,
         logins' \in [Workers -> SUBSET Found],
         \A s \in Workers : \/ pc'[s] = pc[s] /\ batch'[s] = batch[s]
                            \/ batch'[s] = NoBatch
                            \/ batch'[s] = batch[s] /\ {pc[s], pc'[s]} \cap {"copy", "mark"} = {}
  PROVE  IInv'
<1> USE SessionAssumption, FaultsAssumption DEF IInv
<1>1. \A i \in Ids : rows'[i] = IF i \in ids THEN Write(i, st) ELSE rows[i]
  BY DEF WriteAll
<1>2. \A i \in ids : /\ rows'[i] \in Row /\ rows'[i].state = st
                     /\ rows'[i].v = rows[i].v + 1 /\ rows'[i].synced = FALSE
  <2> SUFFICES ASSUME NEW i \in ids
               PROVE  /\ rows'[i] \in Row /\ rows'[i].state = st
                      /\ rows'[i].v = rows[i].v + 1 /\ rows'[i].synced = FALSE
    OBVIOUS
  <2>1. i \in Ids /\ rows[i].v < MaxWrites /\ rows'[i] = Write(i, st)
    BY <1>1
  <2> QED BY <2>1, WriteTyped
<1>3. \A i \in Ids \ ids : rows'[i] = rows[i]
  BY <1>1
<1>4. raced' = (raced \ ids) \cup {i \in ids : Held(i)}
  BY DEF WriteAll, Races
<1>5. rows' \in [Ids -> Row]
  BY <1>1, <1>2, <1>3 DEF WriteAll, TypeOK
<1>6. TypeOK'
  BY <1>4, <1>5 DEF TypeOK
<1>7. Counted'
  <2>1. \A i \in ids : rows[i].v \in Nat /\ rows[i].v + 1 > 0 /\ (st = "open" => rows[i].v + 1 < MaxWrites)
    BY DEF TypeOK, Row, Bounded
  <2> QED BY <1>2, <1>3, <2>1 DEF Counted
<1>8. \A s \in Workers, i \in Ids : batch'[s][i] # 0 => batch'[s][i] = batch[s][i] /\ pc'[s] = pc[s]
  <2> SUFFICES ASSUME NEW s \in Workers, NEW i \in Ids, batch'[s][i] # 0
               PROVE  batch'[s][i] = batch[s][i] /\ pc'[s] = pc[s]
    OBVIOUS
  <2>1. batch'[s] # NoBatch
    BY DEF NoBatch
  <2> QED BY <2>1 DEF Batches
<1>9. Batches'
  BY <1>2, <1>3, <1>8 DEF Batches
<1>10. Seen'
  BY <1>2, <1>3, <1>8 DEF Seen
<1>11. Current'
  BY <1>2, <1>3, <1>4, <1>8 DEF Current, Held
<1> QED BY <1>6, <1>7, <1>9, <1>10, <1>11

LEMMA IInvStep == IInv /\ [Next]_vars => IInv'
<1> SUFFICES ASSUME IInv, [Next]_vars PROVE IInv'
  OBVIOUS
<1> USE SessionAssumption, FaultsAssumption
<1>t. TypeOK /\ Counted /\ Batches /\ Seen /\ Current
  BY DEF IInv
<1>i. \A i \in Ids : rows[i] \in Row /\ rows[i].v \in Nat
  BY <1>t DEF TypeOK, Row
<1>0. \A ids \in SUBSET Ids : Bounded(ids) => \A i \in ids : rows[i].v < MaxWrites
  BY <1>i DEF Bounded
<1>l. \A s \in Workers : [logins EXCEPT ![s] = {}] \in [Workers -> SUBSET Found]
  BY <1>t DEF TypeOK
<1>a. ASSUME NEW s \in Workers, NEW u \in Users, LookUp(s, u) PROVE IInv'
  <2>1. PICK i \in (OfUser(u) \ Expired) \cup {0} :
           logins' = [logins EXCEPT ![s] = {[user |-> u, found |-> i]}]
    BY <1>a DEF LookUp
  <2>2. [user |-> u, found |-> i] \in Found
    BY DEF Found, OfUser, Ids
  <2>3. logins' \in [Workers -> SUBSET Found]
    BY <2>1, <2>2, <1>t DEF TypeOK
  <2> QED
    BY <1>a, <2>3, <1>t DEF LookUp, IInv, TypeOK, Counted, Batches, Seen, Current
<1>b. ASSUME NEW s \in Workers, LoginFails(s) PROVE IInv'
  <2>1. UNCHANGED <<rows, mysql, pc, batch, raced>> /\ logins' = [logins EXCEPT ![s] = {}]
        /\ (faults' = faults \/ Fault)
    BY <1>b DEF LoginFails, Finish
  <2>2. faults' \in 0 .. MaxFaults
    BY <2>1, <1>t DEF Fault, TypeOK
  <2> QED BY <2>1, <2>2, <1>l, <1>t DEF IInv, TypeOK, Counted, Batches, Seen, Current
<1>1. ASSUME NEW s \in Workers, Resume(s) PROVE IInv'
  <2>1. PICK l \in logins[s] :
           /\ l.found # 0 /\ Room(l)
           /\ \/ There(l.found) /\ WriteAll({l.found}, rows[l.found].state)
              \/ ~There(l.found) /\ UNCHANGED <<rows, raced>>
    BY <1>1 DEF Resume
  <2>2. UNCHANGED <<mysql, pc, batch, faults>> /\ logins' = [logins EXCEPT ![s] = {}]
    BY <1>1 DEF Resume, Finish
  <2>3. l.found \in Ids /\ Bounded({l.found})
    BY <2>1, <1>t DEF TypeOK, Found, Ids, Room
  <2>4. CASE There(l.found) /\ WriteAll({l.found}, rows[l.found].state)
    BY <2>2, <2>3, <2>4, <1>l, <1>t, <1>0, WriteStep DEF There, TypeOK
  <2>5. CASE UNCHANGED <<rows, raced>>
    BY <2>2, <2>5, <1>l, <1>t DEF IInv, TypeOK, Counted, Batches, Seen, Current
  <2> QED BY <2>1, <2>4, <2>5
<1>2. ASSUME NEW i \in Ids, Heartbeat(i) \/ Logout(i) PROVE IInv'
  BY <1>2, <1>t, <1>0, WriteStep DEF Heartbeat, Logout, TypeOK
<1>3. ASSUME Shutdown PROVE IInv'
  <2>1. \A i \in {j \in Ids : Open(j)} : There(i)
    BY DEF Open, There
  <2> QED BY <1>3, <1>t, <1>0, <2>1, WriteStep DEF Shutdown, TypeOK
<1>4. ASSUME NEW s \in Workers, Orphans(s) PROVE IInv'
  <2>1. \A i \in Expired : There(i) /\ rows[i].v < MaxWrites
    BY <1>t DEF Expired, Open, There, Counted
  <2>2. /\ pc' \in [Workers -> {"wait", "copy", "mark", "orphans", "cleanup"}]
        /\ \A q \in Workers : pc'[q] = pc[q] \/ {pc[q], pc'[q]} \cap {"copy", "mark"} = {}
    BY <1>4, <1>t DEF Orphans, Goto, TypeOK
  <2>3. WriteAll(Expired, "closed") /\ UNCHANGED <<mysql, batch, logins, faults>> /\ Expired \in SUBSET Ids
    BY <1>4 DEF Orphans, Expired
  <2> QED BY <2>1, <2>2, <2>3, <1>t, WriteStep DEF TypeOK
<1>5. ASSUME NEW s \in Workers, Login(s) PROVE IInv'
  <2>0. PICK l \in logins[s], n \in Ids :
           /\ rows[n].state = "unused"
           /\ rows' = [j \in Ids |-> CASE j = n -> [Write(n, "open") EXCEPT !.user = l.user]
                                       [] j \in OfUser(l.user) -> Write(j, "closed")
                                       [] OTHER -> rows[j]]
           /\ raced' = Races(OfUser(l.user))
    BY <1>5 DEF Login
  <2> DEFINE u == l.user
  <2>u. u \in Users
    BY <1>t DEF TypeOK, Found
  <2>l. logins' \in [Workers -> SUBSET Found]
    BY <1>5, <1>l DEF Login, Finish
  <2>1. /\ rows[n].state = "unused"
        /\ rows' = [j \in Ids |-> CASE j = n -> [Write(n, "open") EXCEPT !.user = u]
                                    [] j \in OfUser(u) -> Write(j, "closed")
                                    [] OTHER -> rows[j]]
        /\ raced' = (raced \ OfUser(u)) \cup {j \in OfUser(u) : Held(j)}
        /\ UNCHANGED <<mysql, pc, batch, faults>>
    BY <1>5, <2>0 DEF Login, Finish, Races
  <2> HIDE DEF u
  <2>2. rows[n].v = 0 /\ n \notin OfUser(u) /\ \A q \in Workers : batch[q][n] = 0
    BY <2>1, <1>t DEF Counted, OfUser, Open, Batches
  <2>3. /\ rows'[n] \in Row /\ rows'[n].state = "open" /\ rows'[n].v = 1 /\ rows'[n].synced = FALSE
    <3>1. /\ Write(n, "open") \in Row /\ Write(n, "open").state = "open"
          /\ Write(n, "open").v = 1 /\ Write(n, "open").synced = FALSE
      <4>1. rows[n].v = 0 /\ rows[n].v < MaxWrites
        BY <2>2
      <4>2. /\ Write(n, "open") \in Row /\ Write(n, "open").state = "open"
            /\ Write(n, "open").v = rows[n].v + 1 /\ Write(n, "open").synced = FALSE
        BY <4>1, <1>t, WriteTyped
      <4> QED BY <4>1, <4>2
    <3> DEFINE w == Write(n, "open")
    <3> HIDE DEF w
    <3>2. /\ [w EXCEPT !.user = u] \in Row /\ [w EXCEPT !.user = u].state = "open"
          /\ [w EXCEPT !.user = u].v = 1 /\ [w EXCEPT !.user = u].synced = FALSE
      BY <2>u, <3>1 DEF Row, w
    <3>3. rows'[n] = [w EXCEPT !.user = u]
      BY <2>1, <2>2 DEF w
    <3> QED BY <3>2, <3>3
  <2>4. ASSUME NEW j \in OfUser(u)
        PROVE  /\ j \in Ids /\ rows'[j] \in Row /\ rows'[j].state = "closed"
               /\ rows'[j].v = rows[j].v + 1 /\ rows'[j].synced = FALSE /\ rows[j].state # "unused"
    <3>1. j \in Ids /\ rows[j].v < MaxWrites /\ rows[j].state = "open"
      BY <1>t DEF OfUser, Open, Counted
    <3>2. rows'[j] = Write(j, "closed")
      BY <2>1, <2>2, <3>1
    <3> QED BY <3>1, <3>2, <1>t, WriteTyped
  <2>5. \A j \in Ids \ ({n} \cup OfUser(u)) : rows'[j] = rows[j]
    BY <2>1
  <2> HIDE DEF OfUser
  <2>6. TypeOK'
    <3>1. \A j \in Ids : rows'[j] \in Row
      BY <2>3, <2>4, <2>5, <1>i
    <3>2. rows' \in [Ids -> Row]
      BY <2>1, <3>1
    <3>3. raced' \subseteq Ids
      BY <2>1, <2>4, <1>t DEF TypeOK
    <3> QED BY <2>1, <2>l, <3>2, <3>3, <1>t DEF TypeOK
  <2>7. Counted'
    <3>1. ASSUME NEW j \in OfUser(u)
          PROVE  rows'[j].state = "closed" /\ rows'[j].v > 0
      <4>1. j \in Ids /\ rows'[j].state = "closed" /\ rows'[j].v = rows[j].v + 1
        BY <2>4
      <4>2. rows[j].v \in Nat
        BY <4>1, <1>i
      <4> QED BY <4>1, <4>2
    <3> QED BY <2>3, <2>5, <3>1, <1>t DEF Counted
  <2>8. Batches'
    BY <2>1, <2>2, <2>3, <2>4, <2>5, <1>t DEF Batches
  <2>9. Seen'
    BY <2>1, <2>3, <2>4, <2>5, <1>t DEF Seen
  <2>10. Current'
    <3> SUFFICES ASSUME NEW j \in Ids \ raced'
                 PROVE  /\ rows'[j].synced => mysql'[j] = rows'[j].v
                        /\ \A q \in Workers : batch'[q][j] # 0 =>
                              batch'[q][j] = rows'[j].v /\ (pc'[q] = "mark" => mysql'[j] = rows'[j].v)
      BY DEF Current
    <3>1. CASE j = n
      BY <2>1, <2>2, <2>3, <3>1
    <3>2. CASE j \in OfUser(u)
      <4>1. rows'[j].synced = FALSE /\ ~Held(j)
        BY <2>1, <2>4, <3>2
      <4> QED BY <2>1, <4>1 DEF Held
    <3>3. CASE j \notin OfUser(u) /\ j # n
      <4>1. rows'[j] = rows[j] /\ j \notin raced
        BY <2>1, <2>5, <3>3
      <4> QED BY <2>1, <4>1, <1>t DEF Current
    <3> QED BY <3>1, <3>2, <3>3
  <2> QED BY <2>6, <2>7, <2>8, <2>9, <2>10 DEF IInv
<1>6. ASSUME NEW i \in Ids, Age(i) PROVE IInv'
  <2>1. /\ rows' \in [Ids -> Row] /\ UNCHANGED <<mysql, pc, batch, logins, faults, raced>>
        /\ \A j \in Ids : /\ rows'[j].state = rows[j].state /\ rows'[j].v = rows[j].v
                         /\ rows'[j].synced = rows[j].synced
    BY <1>6, <1>t DEF Age, TypeOK, Row
  <2> QED BY <2>1, <1>t DEF IInv, TypeOK, Counted, Batches, Seen, Current
<1>7. ASSUME NEW s \in Workers, Read(s) PROVE IInv'
  <2>1. /\ pc[s] = "wait" /\ pc' \in [Workers -> {"wait", "copy", "mark", "orphans", "cleanup"}]
        /\ UNCHANGED <<rows, mysql, logins, faults, raced>>
        /\ pc'[s] \in {"copy", "orphans"}
        /\ \A q \in Workers \ {s} : pc'[q] = pc[q] /\ batch'[q] = batch[q]
    BY <1>7, <1>t DEF Read, Goto, TypeOK
  <2>2. /\ batch' \in [Workers -> [Ids -> 0 .. MaxWrites]]
        /\ \A i \in Ids : batch'[s][i] # 0 => /\ batch'[s][i] = rows[i].v /\ i \in Unsynced
                                             /\ pc'[s] = "copy"
    <3>1. \A i \in Ids : rows[i].v \in 0 .. MaxWrites
      BY <1>i DEF Row
    <3>2. PICK first \in SUBSET Unsynced :
            /\ batch' = [batch EXCEPT ![s] = [i \in Ids |-> IF i \in first THEN rows[i].v ELSE 0]]
            /\ pc' = [pc EXCEPT ![s] = IF first = {} THEN "orphans" ELSE "copy"]
      BY <1>7 DEF Read, Goto
    <3>3. batch'[s] = [i \in Ids |-> IF i \in first THEN rows[i].v ELSE 0] /\ batch'[s] \in [Ids -> 0 .. MaxWrites]
      BY <3>1, <3>2, <1>t DEF TypeOK
    <3>4. batch' \in [Workers -> [Ids -> 0 .. MaxWrites]]
      BY <3>2, <3>3, <1>t DEF TypeOK
    <3>5. first # {} => pc'[s] = "copy"
      BY <3>2, <1>t DEF TypeOK
    <3> QED BY <3>2, <3>3, <3>4, <3>5
  <2>3. TypeOK' /\ Counted'
    BY <2>1, <2>2, <1>t DEF TypeOK, Counted
  <2>4. Batches'
    BY <2>1, <2>2, <1>t DEF Batches, Unsynced, There
  <2>5. Seen'
    BY <2>1, <1>t DEF Seen
  <2>6. Current'
    BY <2>1, <2>2, <1>t DEF Current
  <2> QED BY <2>3, <2>4, <2>5, <2>6 DEF IInv
<1>8. ASSUME NEW s \in Workers, Copy(s) PROVE IInv'
  <2>1. /\ pc[s] = "copy" /\ pc' = [pc EXCEPT ![s] = "mark"] /\ mysql' = Copied(s)
        /\ UNCHANGED <<rows, batch, logins, faults, raced>>
    BY <1>8 DEF Copy, Goto
  <2>2. mysql' \in [Ids -> 0 .. MaxWrites]
        /\ \A i \in Ids : mysql'[i] = IF batch[s][i] = 0 THEN mysql[i] ELSE batch[s][i]
    BY <2>1, <1>t DEF Copied, TypeOK
  <2> QED BY <2>1, <2>2, <1>t DEF IInv, TypeOK, Counted, Batches, Seen, Current
<1>9. ASSUME NEW s \in Workers, CopyFails(s) PROVE IInv'
  <2>1. /\ pc[s] = "copy" /\ pc' = [pc EXCEPT ![s] = "orphans"] /\ faults' \in 0 .. MaxFaults
        /\ batch' = [batch EXCEPT ![s] = NoBatch] /\ UNCHANGED <<rows, logins, raced>>
        /\ mysql' = mysql \/ mysql' = Copied(s)
    BY <1>9, <1>t DEF CopyFails, Goto, Fault, TypeOK
  <2>2. /\ mysql' \in [Ids -> 0 .. MaxWrites]
        /\ \A i \in Ids : mysql'[i] = mysql[i] \/ (batch[s][i] # 0 /\ mysql'[i] = batch[s][i])
    BY <2>1, <1>t DEF Copied, TypeOK
  <2>3. /\ batch' \in [Workers -> [Ids -> 0 .. MaxWrites]] /\ \A i \in Ids : batch'[s][i] = 0
        /\ \A q \in Workers \ {s} : batch'[q] = batch[q] /\ pc'[q] = pc[q]
    BY <2>1, <1>t DEF NoBatch, TypeOK
  <2> QED BY <2>1, <2>2, <2>3, <1>t DEF IInv, TypeOK, Counted, Batches, Seen, Current
<1>10. ASSUME NEW s \in Workers, Mark(s) PROVE IInv'
  <2>1. /\ pc[s] = "mark" /\ pc' = [pc EXCEPT ![s] = "orphans"] /\ faults' \in 0 .. MaxFaults
        /\ batch' = [batch EXCEPT ![s] = NoBatch] /\ UNCHANGED <<mysql, logins, raced>>
    BY <1>10, <1>t DEF Mark, Goto, Fault, TypeOK
  <2>2. /\ rows' \in [Ids -> Row]
        /\ \A i \in Ids : /\ rows'[i].state = rows[i].state /\ rows'[i].v = rows[i].v
                         /\ \/ rows'[i].synced = rows[i].synced
                            \/ batch[s][i] # 0 /\ There(i)
    <3>1. CASE UNCHANGED rows
      BY <3>1, <1>t DEF TypeOK
    <3>2. CASE rows' = [i \in Ids |-> IF batch[s][i] # 0 /\ There(i)
                                     THEN [rows[i] EXCEPT !.synced = TRUE] ELSE rows[i]]
      <4> SUFFICES ASSUME NEW i \in Ids
                   PROVE  /\ rows'[i] \in Row
                          /\ rows'[i].state = rows[i].state /\ rows'[i].v = rows[i].v
                          /\ \/ rows'[i].synced = rows[i].synced
                             \/ batch[s][i] # 0 /\ There(i)
        BY <3>2
      <4>1. rows[i] \in Row
        BY <1>i
      <4>2. CASE batch[s][i] # 0 /\ There(i)
        <5>1. rows'[i] = [rows[i] EXCEPT !.synced = TRUE]
          BY <3>2, <4>2
        <5> QED BY <4>1, <4>2, <5>1 DEF Row
      <4>3. CASE ~(batch[s][i] # 0 /\ There(i))
        BY <3>2, <4>1, <4>3
      <4> QED BY <4>2, <4>3
    <3> QED BY <1>10, <3>1, <3>2 DEF Mark
  <2>3. /\ batch' \in [Workers -> [Ids -> 0 .. MaxWrites]] /\ \A i \in Ids : batch'[s][i] = 0
        /\ \A q \in Workers \ {s} : batch'[q] = batch[q] /\ pc'[q] = pc[q]
    BY <2>1, <1>t DEF NoBatch, TypeOK
  <2>4. TypeOK' /\ Counted'
    BY <2>1, <2>2, <2>3, <1>t DEF TypeOK, Counted, There
  <2>5. Batches'
    BY <2>1, <2>2, <2>3, <1>t DEF Batches
  <2>6. Seen'
    BY <2>1, <2>2, <2>3, <1>t DEF Seen
  <2>7. Current'
    BY <2>1, <2>2, <2>3, <1>t DEF Current
  <2> QED BY <2>4, <2>5, <2>6, <2>7 DEF IInv
<1>11. ASSUME NEW s \in Workers, Cleanup(s) PROVE IInv'
  <2>1. /\ pc[s] = "cleanup" /\ pc' = [pc EXCEPT ![s] = "wait"]
        /\ UNCHANGED <<mysql, batch, logins, faults, raced>>
    BY <1>11 DEF Cleanup, Goto
  <2>2. /\ rows' \in [Ids -> Row]
        /\ \A i \in Ids : /\ rows'[i].v = rows[i].v /\ rows'[i].synced = rows[i].synced
                         /\ \/ rows'[i].state = rows[i].state
                            \/ rows[i].synced /\ There(i) /\ rows'[i].state = "deleted"
    <3>1. \A i \in Ids : [rows[i] EXCEPT !.state = "deleted"] \in Row
                         /\ [rows[i] EXCEPT !.state = "deleted"].v = rows[i].v
                         /\ [rows[i] EXCEPT !.state = "deleted"].synced = rows[i].synced
                         /\ [rows[i] EXCEPT !.state = "deleted"].state = "deleted"
      BY <1>i DEF Row
    <3>2. rows' = [i \in Ids |-> IF There(i) /\ rows[i].synced /\ rows[i].age = 2
                                 THEN [rows[i] EXCEPT !.state = "deleted"] ELSE rows[i]]
      BY <1>11 DEF Cleanup
    <3> QED BY <3>1, <3>2, <1>i
  <2>3. TypeOK' /\ Counted'
    BY <2>1, <2>2, <1>t DEF TypeOK, Counted, There
  <2>4. Batches'
    BY <2>1, <2>2, <1>t DEF Batches, There, TypeOK
  <2>5. Seen'
    BY <2>1, <2>2, <1>t DEF Seen, There, TypeOK
  <2>6. Current'
    BY <2>1, <2>2, <1>t DEF Current, There, TypeOK
  <2> QED BY <2>3, <2>4, <2>5, <2>6 DEF IInv
<1>12. ASSUME NEW s \in Workers, Die(s) PROVE IInv'
  <2>1. /\ pc' = [pc EXCEPT ![s] = "wait"] /\ faults' \in 0 .. MaxFaults
        /\ batch' = [batch EXCEPT ![s] = NoBatch] /\ UNCHANGED <<rows, mysql, raced>>
        /\ logins' = [logins EXCEPT ![s] = {}]
    BY <1>12, <1>t DEF Die, Fault, TypeOK
  <2>2. /\ batch' \in [Workers -> [Ids -> 0 .. MaxWrites]] /\ \A i \in Ids : batch'[s][i] = 0
        /\ \A q \in Workers \ {s} : batch'[q] = batch[q] /\ pc'[q] = pc[q]
    BY <2>1, <1>t DEF NoBatch, TypeOK
  <2> QED BY <2>1, <2>2, <1>l, <1>t DEF IInv, TypeOK, Counted, Batches, Seen, Current
<1>13. CASE UNCHANGED vars
  BY <1>13, <1>t DEF vars, IInv, TypeOK, Counted, Batches, Seen, Current, There
<1> QED
  BY <1>a, <1>b, <1>1, <1>2, <1>3, <1>4, <1>5, <1>6, <1>7, <1>8, <1>9, <1>10, <1>11, <1>12, <1>13
  DEF Next, Cycle, CreateSession
-----------------------------------------------------------------------------
\* Every reachable state is well typed.
THEOREM TypeCorrect == Spec => []TypeOK
<1>1. IInv => TypeOK
  BY DEF IInv
<1> QED BY <1>1, InitIInv, IInvStep, PTL DEF Spec

\* mark_synced is right about every row whose last write did not fall under way, and
\* nothing that CopyFails or Die interrupts makes it wrong.
THEOREM SyncCorrect == Spec => []SyncedIsCopied
<1>1. IInv => SyncedIsCopied
  BY DEF IInv, Current, SyncedIsCopied
<1> QED BY <1>1, InitIInv, IInvStep, PTL DEF Spec

\* cleanup_synced deletes only what MySQL has had.
THEOREM CleanupCorrect == Spec => []NeverUnseen
<1>1. IInv => NeverUnseen
  BY DEF IInv, Seen, NeverUnseen
<1> QED BY <1>1, InitIInv, IInvStep, PTL DEF Spec
=============================================================================
