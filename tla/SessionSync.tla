----------------------------- MODULE SessionSync -----------------------------
(***************************************************************************)
(* core/login_session_store.py, the table of login sessions in a SQLite    *)
(* file that all gunicorn workers share, and core/sync_worker.py, a thread *)
(* in each of them that copies its rows to MySQL. A row is changed again   *)
(* and again (heartbeats, logout, the closing of orphans) while copies of  *)
(* it are under way; "synced" says that its copy is up to date.            *)
(***************************************************************************)
EXTENDS Integers, FiniteSets, Faults

CONSTANTS Users,
          Workers,    \* the gunicorn workers, each with its sync worker thread
          BatchSize,  \* LIMIT of get_unsynced
          MaxRows,    \* bound: rows of the table
          MaxWrites   \* bound: writes to one row; the last is left to Orphans

ASSUME SessionAssumption ==
    /\ Users # {}
    /\ {BatchSize, MaxRows} \subseteq Nat \ {0}
    /\ MaxWrites \in Nat \ {0, 1}

Ids == 1 .. MaxRows

VARIABLES rows,    \* the table, by id
          mysql,   \* the version of each row in dashboard_login_sessions, 0 for none
          pc,      \* where each sync worker is
          batch,   \* the versions it has read, 0 for rows it has not
          logins,  \* per worker: what create_session, with the lock of the process
                   \* (_write_lock), has looked up and not acted upon, if any
          raced    \* ghost: the rows whose last write came while a sync worker had
                   \* them in its batch

vars == <<rows, mysql, pc, batch, logins, faults, raced>>

\* state: of the session. v: counts the writes. age: 1 from 8 hours after the
\* login, 2 from 24 hours.
Row == [state : {"unused", "open", "closed", "deleted"}, user : Users,
        v : 0 .. MaxWrites, synced : BOOLEAN, age : 0 .. 2]

\* found: the open session of the user, 0 if there is none.
Found == [user : Users, found : 0 .. MaxRows]

TypeOK ==
    /\ rows \in [Ids -> Row]
    /\ mysql \in [Ids -> 0 .. MaxWrites]
    /\ pc \in [Workers -> {"wait", "copy", "mark", "orphans", "cleanup"}]
    /\ batch \in [Workers -> [Ids -> 0 .. MaxWrites]]
    /\ logins \in [Workers -> SUBSET Found]
    /\ faults \in 0 .. MaxFaults
    /\ raced \subseteq Ids

NoBatch == [i \in Ids |-> 0]

Init ==
    /\ rows = [i \in Ids |-> [state |-> "unused", user |-> CHOOSE u \in Users : TRUE,
                              v |-> 0, synced |-> FALSE, age |-> 0]]
    /\ mysql = [i \in Ids |-> 0]
    /\ pc = [s \in Workers |-> "wait"]
    /\ batch = [s \in Workers |-> NoBatch]
    /\ logins = [s \in Workers |-> {}]
    /\ faults = 0 /\ raced = {}
-----------------------------------------------------------------------------
Goto(s, from, to) == pc[s] = from /\ pc' = [pc EXCEPT ![s] = to]

There(i) == rows[i].state \in {"open", "closed"}

Held(i) == \E s \in Workers : batch[s][i] # 0

\* Mutant: a write forgets synced = 0.
WriteSynced(i, state) == [rows[i] EXCEPT !.state = state, !.v = @ + 1]

\* UPDATE ... synced = 0: every statement that writes a row in the table.
Write(i, state) == [rows[i] EXCEPT !.state = state, !.v = @ + 1, !.synced = FALSE]

\* Each row remembers whether its last write met a copy under way.
Races(ids) == (raced \ ids) \cup {i \in ids : Held(i)}

\* The rows of ids get the state in one transaction.
WriteAll(ids, state) ==
    /\ rows' = [i \in Ids |-> IF i \in ids THEN Write(i, state) ELSE rows[i]]
    /\ raced' = Races(ids)

Bounded(ids) == \A i \in ids : rows[i].v + 1 < MaxWrites

Open(i) == rows[i].state = "open"

\* Mutant: without logout_time IS NULL.
ExpiredAll == {i \in Ids : There(i) /\ rows[i].age >= 1}

Expired == {i \in Ids : Open(i) /\ rows[i].age >= 1}

OfUser(u) == {i \in Ids : Open(i) /\ rows[i].user = u}

\* The lock of process s is free; heartbeats and logouts come to any process.
Free(s) == logins[s] = {}
SomeFree == \E s \in Workers : Free(s)

\* The bounds leave room for what create_session is to write.
Room(l) == Bounded(IF l.found = 0 THEN OfUser(l.user) ELSE {l.found})

\* The unused rows that no login is going to insert.
Spare ==
    Cardinality({i \in Ids : rows[i].state = "unused"})
        - Cardinality({s \in Workers : \E l \in logins[s] : l.found = 0})

\* create_session takes the lock of its process, which other processes do not know,
\* and looks for the newest open session of the user, not older than 8 hours.
LookUp(s, u) ==
    LET candidates == OfUser(u) \ Expired IN
    /\ Free(s)
    /\ \E i \in candidates \cup {0} :
        /\ i = 0 <=> candidates = {}
        /\ i = 0 => Spare > 0
        /\ \A j \in candidates : j <= i
        /\ Room([user |-> u, found |-> i])
        /\ logins' = [logins EXCEPT ![s] = {[user |-> u, found |-> i]}]
    /\ UNCHANGED <<rows, mysql, pc, batch, faults, raced>>

Finish(s) ==
    /\ logins' = [logins EXCEPT ![s] = {}]
    /\ UNCHANGED <<mysql, pc, batch>>

\* It writes the session it has found, whatever has become of it.
Resume(s) ==
    /\ \E l \in logins[s] :
        /\ l.found # 0 /\ Room(l)
        /\ \/ There(l.found) /\ WriteAll({l.found}, rows[l.found].state)
           \/ ~There(l.found) /\ UNCHANGED <<rows, raced>>
    /\ Finish(s) /\ UNCHANGED faults

\* If it has found none, every open session of the user is closed, expired or not,
\* and a new row is inserted.
Login(s) ==
    /\ \E l \in logins[s], i \in Ids :
        /\ l.found = 0 /\ Room(l)
        /\ rows[i].state = "unused" /\ \A j \in Ids : j < i => rows[j].state # "unused"
        /\ rows' = [j \in Ids |->
                      CASE j = i -> [Write(i, "open") EXCEPT !.user = l.user]
                        [] j \in OfUser(l.user) -> Write(j, "closed")
                        [] OTHER -> rows[j]]
        /\ raced' = Races(OfUser(l.user))
    /\ Finish(s) /\ UNCHANGED faults

\* The file is locked: the user has a session without a row. (It also gives up where
\* the bounds have been reached meanwhile.)
LoginFails(s) ==
    /\ \E l \in logins[s] : Fault \/ (~Room(l) /\ UNCHANGED faults)
    /\ Finish(s) /\ UNCHANGED <<rows, raced>>

\* update_last_active, which opens a closed session again.
Heartbeat(i) ==
    /\ SomeFree /\ There(i) /\ Bounded({i}) /\ WriteAll({i}, "open")
    /\ UNCHANGED <<mysql, pc, batch, logins, faults>>

\* close_session: a logout.
Logout(i) ==
    /\ SomeFree /\ There(i) /\ Bounded({i}) /\ WriteAll({i}, "closed")
    /\ UNCHANGED <<mysql, pc, batch, logins, faults>>

\* close_all_active_sessions: a gunicorn worker is about to stop. Its sync worker
\* goes on until the process ends (Die).
Shutdown ==
    /\ SomeFree
    /\ Bounded({i \in Ids : Open(i)}) /\ WriteAll({i \in Ids : Open(i)}, "closed")
    /\ UNCHANGED <<mysql, pc, batch, logins, faults>>

\* 8 hours or 24 hours have passed since the login, for a later login later.
Age(i) ==
    /\ There(i) /\ rows[i].age < 2
    /\ \A j \in Ids : j < i => rows[j].age > rows[i].age
    /\ rows' = [rows EXCEPT ![i].age = @ + 1]
    /\ UNCHANGED <<mysql, pc, batch, logins, faults, raced>>
-----------------------------------------------------------------------------
Unsynced == {i \in Ids : There(i) /\ ~rows[i].synced}

\* Mutant: the rows are marked as they are read.
ReadMarking(s) ==
    LET first == {i \in Unsynced : Cardinality({j \in Unsynced : j < i}) < BatchSize} IN
    /\ pc[s] = "wait"
    /\ batch' = [batch EXCEPT ![s] = [i \in Ids |-> IF i \in first THEN rows[i].v ELSE 0]]
    /\ pc' = [pc EXCEPT ![s] = IF first = {} THEN "orphans" ELSE "copy"]
    /\ rows' = [i \in Ids |-> IF i \in first THEN [rows[i] EXCEPT !.synced = TRUE] ELSE rows[i]]
    /\ UNCHANGED <<mysql, logins, faults, raced>>

\* get_unsynced: ORDER BY id LIMIT batch_size.
Read(s) ==
    LET first == {i \in Unsynced : Cardinality({j \in Unsynced : j < i}) < BatchSize} IN
    /\ Goto(s, "wait", IF first = {} THEN "orphans" ELSE "copy")
    /\ batch' = [batch EXCEPT ![s] = [i \in Ids |-> IF i \in first THEN rows[i].v ELSE 0]]
    /\ UNCHANGED <<rows, mysql, logins, faults, raced>>

\* Mutant: INSERT IGNORE, as for the logs.
CopiedOnce(s) == [i \in Ids |-> IF batch[s][i] = 0 \/ mysql[i] # 0 THEN mysql[i] ELSE batch[s][i]]

Copied(s) == [i \in Ids |-> IF batch[s][i] = 0 THEN mysql[i] ELSE batch[s][i]]

\* REPLACE INTO dashboard_login_sessions, in one transaction.
Copy(s) ==
    /\ Goto(s, "copy", "mark")
    /\ mysql' = Copied(s)
    /\ UNCHANGED <<rows, batch, logins, faults, raced>>

\* MySQL is away, or its reply is lost. (After a deadlock the statement is sent again.)
CopyFails(s) ==
    /\ Fault
    /\ Goto(s, "copy", "orphans")
    /\ mysql' \in {mysql, Copied(s)}
    /\ batch' = [batch EXCEPT ![s] = NoBatch]
    /\ UNCHANGED <<rows, logins, raced>>

\* mark_synced, whatever has become of the rows; or the file is locked.
Mark(s) ==
    /\ Free(s)
    /\ Goto(s, "mark", "orphans")
    /\ \/ /\ rows' = [i \in Ids |-> IF batch[s][i] # 0 /\ There(i)
                                    THEN [rows[i] EXCEPT !.synced = TRUE] ELSE rows[i]]
          /\ UNCHANGED faults
       \/ UNCHANGED rows /\ Fault
    /\ batch' = [batch EXCEPT ![s] = NoBatch]
    /\ UNCHANGED <<mysql, logins, raced>>

\* cleanup_orphan_sessions: open for more than 8 hours.
Orphans(s) ==
    /\ Free(s)
    /\ Goto(s, "orphans", "cleanup")
    /\ WriteAll(Expired, "closed")
    /\ UNCHANGED <<mysql, batch, logins, faults>>

\* cleanup_synced: copied, and logged in more than 24 hours ago.
Cleanup(s) ==
    /\ Free(s)
    /\ Goto(s, "cleanup", "wait")
    /\ rows' = [i \in Ids |-> IF There(i) /\ rows[i].synced /\ rows[i].age = 2
                              THEN [rows[i] EXCEPT !.state = "deleted"] ELSE rows[i]]
    /\ UNCHANGED <<mysql, batch, logins, faults, raced>>

\* The process is killed, and comes back.
Die(s) ==
    /\ Fault
    /\ pc[s] # "wait" \/ ~Free(s)
    /\ pc' = [pc EXCEPT ![s] = "wait"]
    /\ batch' = [batch EXCEPT ![s] = NoBatch]
    /\ logins' = [logins EXCEPT ![s] = {}]
    /\ UNCHANGED <<rows, mysql, raced>>

Cycle(s) == Read(s) \/ Copy(s) \/ Mark(s) \/ Orphans(s) \/ Cleanup(s)

CreateSession(s) == Resume(s) \/ Login(s) \/ LoginFails(s)

Next ==
    \/ \E s \in Workers, u \in Users : LookUp(s, u)
    \/ \E s \in Workers : CreateSession(s)
    \/ \E i \in Ids : Heartbeat(i) \/ Logout(i) \/ Age(i)
    \/ \E s \in Workers : Cycle(s) \/ CopyFails(s) \/ Die(s)
    \/ Shutdown

Spec == Init /\ [][Next]_vars

\* The threads of a worker run: in the end none of them is left but the sync worker.
FairSpec == Spec /\ \A s \in Workers : WF_vars(Cycle(s) \/ CreateSession(s))
-----------------------------------------------------------------------------
\* The copy of a row marked as synced is the row, whatever failed between the copy
\* and the mark, and in whatever order the workers copied it: unless its last
\* write fell between some worker's reading and marking of it. (Then that write is
\* lost to MySQL until the next one, with which all is well again: mark_synced
\* compares nothing.)
SyncedIsCopied ==
    \A i \in Ids \ raced : There(i) /\ rows[i].synced => mysql[i] = rows[i].v

\* Not even then is a session deleted that MySQL has never seen.
NeverUnseen == \A i \in Ids : rows[i].state = "deleted" => mysql[i] # 0

\* Every session gets to MySQL as it is in the end ("any connection error is caught
\* ... and the next cycle retries automatically"), with the same exception for a last
\* write that fell between a reading and a marking.
LastWriteArrives ==
    \A i \in Ids : There(i) ~> (i \in raced \/ mysql[i] = rows[i].v)
=============================================================================
