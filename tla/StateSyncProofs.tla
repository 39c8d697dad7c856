--------------------------- MODULE StateSyncProofs --------------------------
(***************************************************************************)
(* Proofs about StateSync for any number of runs, machines and retries,    *)
(* with or without overlapping processes, kills and failing transfers.     *)
(***************************************************************************)
EXTENDS StateSync, TLAPS

\* A stage written by Goto is the only part of pc that changes.
LEMMA GotoType ==
    ASSUME NEW r \in Run, NEW stage \in Stage \cup Ended,
           pc \in [Run -> Stage \cup Ended], Goto(r, stage)
    PROVE  /\ pc' \in [Run -> Stage \cup Ended]
           /\ pc'[r] = stage
           /\ \A q \in Run : q # r => pc'[q] = pc[q]
  BY DEF Goto

\* What a connection sees is a database, whatever is in the WAL.
LEMMA ViewType ==
    ASSUME TypeOK, NEW m \in Machine
    PROVE  View(m) \in Db
<1>1. EmptyDb \in Db
  BY DEF EmptyDb, Db, MatTable, RunsTable
<1>2. (IF main[m] = NoPages THEN EmptyDb ELSE main[m]) \in Db
  BY <1>1 DEF TypeOK
<1>3. /\ wal[m].mat \in MatTable \cup {None}
      /\ wal[m].runs \in RunsTable \cup {None}
  BY DEF TypeOK
<1> QED
  BY <1>2, <1>3 DEF View, Db

\* A run that is about to push has a main file: nothing removes it again.
FileThere == \A r \in Run : pc[r] \in {"verify", "push"} => main[On[r]] \in Db

\* The initial state is well typed.
LEMMA InitType == Init => TypeOK /\ FileThere
<1> SUFFICES ASSUME Init PROVE TypeOK /\ FileThere
  OBVIOUS
<1>1. EmptyDb \in Db
  BY DEF EmptyDb, Db, MatTable, RunsTable
<1>2. remote \in [gen : Nat, db : Db]
  BY <1>1 DEF Init
<1>3. /\ main \in [Machine -> Db \cup {NoPages}]
      /\ wal \in [Machine -> [mat : MatTable \cup {None}, runs : RunsTable \cup {None}]]
  BY DEF Init, NoPages
<1>4. /\ pc \in [Run -> Stage \cup Ended]
      /\ token \in [Run -> Nat]
  BY DEF Init, Stage
<1>5. attempt \in [Run -> 0 .. PushRetries]
  BY StateSyncAssumption DEF Init
<1>6. FileThere
  BY DEF Init, FileThere
<1> QED
  BY <1>2, <1>3, <1>4, <1>5, <1>6 DEF TypeOK

\* Every operation keeps the tables, generations and counters well typed.
LEMMA StepType == TypeOK /\ FileThere /\ [Next]_vars => TypeOK'
<1> SUFFICES ASSUME TypeOK, FileThere, [Next]_vars PROVE TypeOK'
  OBVIOUS
<1> USE DEF Stage, Ended
<1>1. ASSUME NEW r \in Run, ReadToken(r) PROVE TypeOK'
  <2>1. token' \in [Run -> Nat]
    BY <1>1 DEF ReadToken, TypeOK
  <2>2. pc' \in [Run -> Stage \cup Ended]
    BY <1>1, GotoType DEF ReadToken, TypeOK
  <2> QED
    BY <1>1, <2>1, <2>2 DEF ReadToken, TypeOK
<1>2. ASSUME NEW r \in Run, Fetch(r) PROVE TypeOK'
  <2>1. main' \in [Machine -> Db \cup {NoPages}]
    BY <1>2 DEF Fetch, TypeOK
  <2>2. pc' \in [Run -> Stage \cup Ended]
    BY <1>2, GotoType DEF Fetch, TypeOK
  <2> QED
    BY <1>2, <2>1, <2>2 DEF Fetch, TypeOK
<1>3. ASSUME NEW r \in Run, PullFails(r) \/ PushFails(r) \/ Killed(r) \/ Verify(r)
      PROVE  TypeOK'
  <2>1. pc' \in [Run -> Stage \cup Ended]
    BY <1>3, GotoType DEF PullFails, PushFails, Killed, Verify, TypeOK
  <2> QED
    BY <1>3, <2>1 DEF PullFails, PushFails, Killed, Verify, TypeOK
<1>4. ASSUME NEW r \in Run, Pushed(r) \/ AnswerFails(r) PROVE TypeOK'
  <2>1. pc' \in [Run -> Stage \cup Ended]
    BY <1>4, GotoType DEF Pushed, AnswerFails, TypeOK
  <2>2. Upload(r)
    BY <1>4 DEF Pushed, AnswerFails
  <2>3. main[On[r]] \in Db
    BY <2>2 DEF Upload, FileThere
  <2>4. remote' \in [gen : Nat, db : Db]
    BY <2>2, <2>3 DEF Upload, TypeOK
  <2> QED
    BY <2>1, <2>2, <2>4 DEF Upload, TypeOK
<1>5. ASSUME NEW r \in Run, Conflict(r) PROVE TypeOK'
  <2>1. pc' \in [Run -> Stage \cup Ended]
    BY <1>5, GotoType DEF Conflict, TypeOK
  <2>2. attempt' \in [Run -> 0 .. PushRetries]
    BY <1>5, StateSyncAssumption DEF Conflict, TypeOK
  <2> QED
    BY <1>5, <2>1, <2>2 DEF Conflict, TypeOK
<1>6. ASSUME NEW r \in Run, InitDb(r) PROVE TypeOK'
  <2>1. EmptyDb \in [mat : MatTable \cup {None}, runs : RunsTable \cup {None}]
    BY DEF EmptyDb, MatTable, RunsTable
  <2>2. wal' \in [Machine -> [mat : MatTable \cup {None}, runs : RunsTable \cup {None}]]
    BY <1>6, <2>1 DEF InitDb, TypeOK
  <2>3. pc' \in [Run -> Stage \cup Ended]
    BY <1>6, GotoType DEF InitDb, TypeOK
  <2> QED
    BY <1>6, <2>2, <2>3 DEF InitDb, TypeOK
<1>7. ASSUME NEW r \in Run, CreateRun(r) PROVE TypeOK'
  <2>1. View(On[r]) \in Db /\ On[r] \in Machine
    BY ViewType, StateSyncAssumption
  <2>2. [View(On[r]).runs EXCEPT ![r] = "running"] \in RunsTable
    BY <2>1 DEF Db, RunsTable
  <2>3. wal' \in [Machine -> [mat : MatTable \cup {None}, runs : RunsTable \cup {None}]]
    BY <1>7, <2>2 DEF CreateRun, TypeOK
  <2>4. pc' \in [Run -> Stage \cup Ended]
    BY <1>7, GotoType DEF CreateRun, TypeOK
  <2> QED
    BY <1>7, <2>3, <2>4 DEF CreateRun, TypeOK
<1>8. ASSUME NEW r \in Run, Persist(r) PROVE TypeOK'
  <2>1. View(On[r]) \in Db /\ On[r] \in Machine
    BY ViewType, StateSyncAssumption
  <2>2. /\ [View(On[r]).mat  EXCEPT ![r] = @ + 1] \in MatTable
        /\ [View(On[r]).runs EXCEPT ![r] = "finished"] \in RunsTable
    BY <2>1 DEF Db, RunsTable, MatTable
  <2>3. wal' \in [Machine -> [mat : MatTable \cup {None}, runs : RunsTable \cup {None}]]
    BY <1>8, <2>2 DEF Persist, TypeOK
  <2>4. pc' \in [Run -> Stage \cup Ended]
    BY <1>8, GotoType DEF Persist, TypeOK
  <2> QED
    BY <1>8, <2>3, <2>4 DEF Persist, TypeOK
<1>9. ASSUME NEW r \in Run, Checkpoint(r) PROVE TypeOK'
  <2>1. View(On[r]) \in Db /\ On[r] \in Machine
    BY ViewType, StateSyncAssumption
  <2>2. main' \in [Machine -> Db \cup {NoPages}]
    BY <1>9, <2>1 DEF Checkpoint, TypeOK
  <2>3. wal' \in [Machine -> [mat : MatTable \cup {None}, runs : RunsTable \cup {None}]]
    BY <1>9 DEF Checkpoint, TypeOK, NoPages
  <2>4. pc' \in [Run -> Stage \cup Ended]
    BY <1>9, GotoType DEF Checkpoint, TypeOK
  <2> QED
    BY <1>9, <2>2, <2>3, <2>4 DEF Checkpoint, TypeOK
<1>10. ASSUME NEW m \in Machine, DryRun(m) PROVE TypeOK'
  BY <1>10 DEF DryRun, TypeOK
<1>11. CASE UNCHANGED vars
  BY <1>11 DEF vars, TypeOK, Db
<1> QED
  BY <1>1, <1>2, <1>3, <1>4, <1>5, <1>6, <1>7, <1>8, <1>9, <1>10, <1>11
     DEF Next, Transfer, Local

\* Main files come and are replaced, but never go.
LEMMA StepFile == TypeOK /\ FileThere /\ [Next]_vars => FileThere'
<1> SUFFICES ASSUME TypeOK, FileThere, [Next]_vars,
                    NEW q \in Run, pc'[q] \in {"verify", "push"}
             PROVE  main'[On[q]] \in Db
  BY DEF FileThere
<1> USE DEF Stage, Ended
<1>0. /\ On \in [Run -> Machine] /\ pc \in [Run -> Stage \cup Ended]
      /\ remote.db \in Db /\ main \in [Machine -> Db \cup {NoPages}]
  BY StateSyncAssumption DEF TypeOK
<1>1. ASSUME NEW r \in Run, Checkpoint(r) PROVE main'[On[q]] \in Db
  <2>1. View(On[r]) \in Db
    BY <1>0, ViewType
  <2>2. CASE q = r
    BY <1>0, <1>1, <2>1, <2>2 DEF Checkpoint
  <2>3. CASE q # r
    <3>1. main[On[q]] \in Db
      BY <1>0, <1>1, <2>3 DEF Checkpoint, Goto, FileThere
    <3> QED
      BY <1>0, <1>1, <2>1, <3>1 DEF Checkpoint
  <2> QED
    BY <2>2, <2>3
<1>2. ASSUME NEW r \in Run, Fetch(r) PROVE main'[On[q]] \in Db
  <2>1. q # r /\ main[On[q]] \in Db
    BY <1>0, <1>2 DEF Fetch, Goto, FileThere
  <2> QED
    BY <1>0, <1>2, <2>1 DEF Fetch
<1>3. ASSUME NEW m \in Machine, DryRun(m) PROVE main'[On[q]] \in Db
  BY <1>0, <1>3 DEF DryRun, FileThere
<1>4. ASSUME NEW r \in Run,
             ReadToken(r) \/ InitDb(r) \/ CreateRun(r) \/ Persist(r) \/ Verify(r)
               \/ PullFails(r) \/ PushFails(r) \/ Killed(r) \/ Conflict(r)
               \/ Pushed(r) \/ AnswerFails(r)
      PROVE  main'[On[q]] \in Db
  <2>1. main' = main
    BY <1>4 DEF ReadToken, InitDb, CreateRun, Persist, Verify, PullFails, PushFails,
                Killed, Conflict, Pushed, AnswerFails, Upload
  <2>2. pc[q] \in {"verify", "push"}
    BY <1>0, <1>4 DEF ReadToken, InitDb, CreateRun, Persist, Verify, PullFails,
                PushFails, Killed, Conflict, Pushed, AnswerFails, Goto
  <2> QED
    BY <2>1, <2>2 DEF FileThere
<1>5. CASE UNCHANGED vars
  BY <1>5 DEF vars, FileThere
<1> QED
  BY <1>1, <1>2, <1>3, <1>4, <1>5 DEF Next, Transfer, Local

\* The databases, generations and counters of every machine stay well typed.
THEOREM SyncTypeCorrect == Spec => []TypeOK
<1>1. Init => TypeOK /\ FileThere
  BY InitType
<1>2. TypeOK /\ FileThere /\ [Next]_vars => TypeOK' /\ FileThere'
  BY StepType, StepFile
<1> QED
  BY <1>1, <1>2, PTL DEF Spec

-----------------------------------------------------------------------------
(***************************************************************************)
(* Retries.  The strengthening says where a run's conflicts are accounted  *)
(* for: by the generation it has pulled, or by the current one from the    *)
(* moment a conflict sends it back until it has read the token again.      *)
(***************************************************************************)
Rereading == {"pull", "pull_failed", "killed"}

PaidByToken ==
    \A r \in Run :
        /\ token[r] <= remote.gen
        /\ attempt[r] <= remote.gen
        /\ pc[r] \notin Rereading => attempt[r] <= token[r]
        /\ pc[r] = "conflicted" => attempt[r] < remote.gen

\* The strengthening holds at the start and is kept by every step.
LEMMA InitPaid == Init => PaidByToken
<1> SUFFICES ASSUME Init PROVE PaidByToken
  OBVIOUS
<1>1. remote.gen = 0
  BY DEF Init
<1>2. \A r \in Run : token[r] = 0 /\ attempt[r] = 0 /\ pc[r] = "idle"
  BY DEF Init
<1> QED
  BY <1>1, <1>2, 0 <= 0, "idle" # "conflicted" DEF PaidByToken

LEMMA StepPaid == TypeOK /\ PaidByToken /\ [Next]_vars => PaidByToken'
<1> SUFFICES ASSUME TypeOK, PaidByToken, [Next]_vars PROVE PaidByToken'
  OBVIOUS
<1> USE DEF Rereading, Stage, Ended
<1>0. /\ remote.gen \in Nat /\ token \in [Run -> Nat]
      /\ attempt \in [Run -> Nat] /\ pc \in [Run -> Stage \cup Ended]
  BY StateSyncAssumption DEF TypeOK
<1>1. ASSUME NEW r \in Run, ReadToken(r) PROVE PaidByToken'
  <2>1. remote' = remote /\ attempt' = attempt
    BY <1>1 DEF ReadToken
  <2>2. /\ token'[r] = remote.gen
        /\ \A q \in Run : q # r => token'[q] = token[q] /\ pc'[q] = pc[q]
        /\ pc'[r] \in {"init", "fetch"}
    BY <1>0, <1>1 DEF ReadToken, Goto
  <2> QED
    BY <2>1, <2>2, <1>0 DEF PaidByToken
<1>2. ASSUME NEW r \in Run, Pushed(r) \/ AnswerFails(r) PROVE PaidByToken'
  <2>1. /\ remote'.gen = remote.gen + 1
        /\ attempt' = attempt /\ token' = token
        /\ pc[r] = "push"
    BY <1>2 DEF Pushed, AnswerFails, Upload
  <2>2. /\ pc'[r] \in {"pushed", "not_updated"}
        /\ \A q \in Run : q # r => pc'[q] = pc[q]
    BY <1>0, <1>2 DEF Pushed, AnswerFails, Goto
  <2> QED
    BY <2>1, <2>2, <1>0 DEF PaidByToken
<1>3. ASSUME NEW r \in Run, Conflict(r) PROVE PaidByToken'
  <2>1. /\ remote' = remote /\ token' = token
        /\ pc[r] = "push" /\ token[r] # remote.gen
    BY <1>3 DEF Conflict
  <2>2. attempt[r] < remote.gen
    BY <2>1, <1>0 DEF PaidByToken
  <2>3. /\ \A q \in Run : q # r => attempt'[q] = attempt[q] /\ pc'[q] = pc[q]
        /\ \/ attempt'[r] = attempt[r] /\ pc'[r] = "conflicted"
           \/ attempt'[r] = attempt[r] + 1 /\ pc'[r] = "pull"
    BY <1>0, <1>3 DEF Conflict, Goto
  <2>4. attempt[r] <= token[r]
    BY <2>1, <1>0 DEF PaidByToken
  <2> QED
    BY <2>1, <2>2, <2>3, <2>4, <1>0 DEF PaidByToken
<1>4. ASSUME NEW r \in Run,
             Fetch(r) \/ InitDb(r) \/ CreateRun(r) \/ Persist(r) \/ Checkpoint(r)
               \/ Verify(r) \/ PullFails(r) \/ PushFails(r) \/ Killed(r)
      PROVE  PaidByToken'
  <2>1. remote' = remote /\ token' = token /\ attempt' = attempt
    BY <1>4 DEF Fetch, InitDb, CreateRun, Persist, Checkpoint, Verify,
                PullFails, PushFails, Killed
  <2>2. /\ \A q \in Run : q # r => pc'[q] = pc[q]
        /\ pc'[r] # "conflicted"
        /\ pc[r] \in Rereading => pc'[r] \in Rereading
    BY <1>0, <1>4 DEF Fetch, InitDb, CreateRun, Persist, Checkpoint, Verify,
                PullFails, PushFails, Killed, Goto
  <2> QED
    BY <2>1, <2>2, <1>0 DEF PaidByToken
<1>5. ASSUME NEW m \in Machine, DryRun(m) PROVE PaidByToken'
  BY <1>5 DEF DryRun, PaidByToken
<1>6. CASE UNCHANGED vars
  BY <1>6 DEF vars, PaidByToken
<1> QED
  BY <1>1, <1>2, <1>3, <1>4, <1>5, <1>6 DEF Next, Transfer, Local

\* With as many retries as there are rival pushes no run ever gives up: every
\* conflict of a run is paid for by a push that succeeded, however many processes
\* share a machine and whatever transfers fail (commands.rs:2227-2246).
THEOREM RetriesPaidFor == Spec => []ConflictsPaidFor
<1>1. Init => PaidByToken
  BY InitPaid
<1>2. TypeOK /\ PaidByToken /\ [Next]_vars => PaidByToken'
  BY StepPaid
<1>3. TypeOK /\ PaidByToken => ConflictsPaidFor
  <2> SUFFICES ASSUME TypeOK, PaidByToken, NEW r \in Run
               PROVE  attempt[r] + (IF pc[r] = "conflicted" THEN 1 ELSE 0) <= remote.gen
    BY DEF ConflictsPaidFor
  <2>1. remote.gen \in Nat /\ attempt[r] \in Nat
    BY StateSyncAssumption DEF TypeOK
  <2> QED
    BY <2>1 DEF PaidByToken
<1> QED
  BY <1>1, <1>2, <1>3, SyncTypeCorrect, PTL DEF Spec

-----------------------------------------------------------------------------
(***************************************************************************)
(* Separate processes.  When the processes of a machine follow one another *)
(* and none is killed while rows of it are in the WAL only, sharing loses  *)
(* and repeats nothing.  The invariant: the run that is active on a machine*)
(* owns its file (Solo, WalClean); nobody else has seen its rows (Private);*)
(* and as long as its token is current, its file holds all that is shared  *)
(* (Fresh).                                                                *)
(***************************************************************************)
Exclusive == ~Overlap /\ KilledAt \subseteq {"pull", "fetch", "verify", "push"}

Active(r) == pc[r] \notin Ended \cup {"idle"}
Holds(m, q) == View(m).mat[q] > 0 /\ View(m).runs[q] = "finished"

Solo == \A r, q \in Run : Active(r) /\ Active(q) /\ On[r] = On[q] => r = q

WalClean ==
    \A m \in Machine :
        \/ wal[m] = NoPages
        \/ \E r \in Run : On[r] = m /\ pc[r] \in {"create", "persist", "checkpoint"}

Once ==
    \A q \in Run : /\ remote.db.mat[q] <= 1
                   /\ \A m \in Machine : View(m).mat[q] <= 1

Private ==
    \A r \in Run : pc[r] \notin Ended =>
        /\ remote.db.mat[r] = 0
        /\ \A m \in Machine :
             m # On[r] \/ pc[r] \in {"idle", "init", "create", "persist"}
               => View(m).mat[r] = 0

Tokens ==
    /\ \A r \in Run : /\ token[r] <= remote.gen
                      /\ pc[r] = "pull" => remote.gen > 0
    /\ remote.gen = 0 => remote.db = EmptyDb

Written == \A r \in Run : pc[r] \in {"checkpoint", "verify", "push"} => Holds(On[r], r)

Fresh ==
    \A r \in Run : Active(r) /\ pc[r] \notin {"pull", "fetch"} /\ token[r] = remote.gen
        => \A q \in Run : Shares(q) => Holds(On[r], q)

\* A pulled file on an empty WAL is what is seen.
LEMMA ViewOfPulled ==
    ASSUME NEW m \in Machine, wal[m] = NoPages, main[m] \in Db
    PROVE  View(m) = main[m]
<1>1. main[m] # NoPages
  BY StateSyncAssumption DEF Db, NoPages, MatTable
<1>2. wal[m].mat = None /\ wal[m].runs = None
  BY DEF NoPages
<1>3. View(m) = [mat |-> main[m].mat, runs |-> main[m].runs]
  BY <1>1, <1>2 DEF View
<1> QED
  BY <1>3 DEF Db

\* The WAL of a machine is empty while a run of it is between its writes, and
\* while no run of it is active.
LEMMA CleanWhenIdle ==
    ASSUME TypeOK, WalClean, NEW m \in Machine, ~Busy(m)
    PROVE  wal[m] = NoPages
  BY DEF WalClean, Busy, Ended

LEMMA CleanBetweenWrites ==
    ASSUME TypeOK, Solo, WalClean, NEW r \in Run,
           pc[r] \in {"pull", "fetch", "init", "verify", "push"}
    PROVE  wal[On[r]] = NoPages
<1>1. On[r] \in Machine
  BY StateSyncAssumption
<1>2. ASSUME NEW q \in Run, On[q] = On[r], pc[q] \in {"create", "persist", "checkpoint"}
      PROVE  FALSE
  <2>1. Active(q) /\ Active(r)
    BY <1>2 DEF Active, Ended
  <2> QED
    BY <1>2, <2>1 DEF Solo
<1> QED
  BY <1>1, <1>2 DEF WalClean

(***************************************************************************)
(* What each operation does to what is seen of the databases.              *)
(***************************************************************************)
Silent(r) ==
    \/ ReadToken(r) \/ PullFails(r) \/ PushFails(r) \/ Conflict(r) \/ Verify(r)
    \/ Killed(r) \/ Pushed(r) \/ AnswerFails(r)

LEMMA SilentView ==
    ASSUME NEW r \in Run, Silent(r)
    PROVE  main' = main /\ wal' = wal /\ \A m : View(m)' = View(m)
<1>1. main' = main /\ wal' = wal
  BY DEF Silent, ReadToken, PullFails, PushFails, Conflict, Verify, Killed, Pushed,
         AnswerFails, Upload
<1> QED
  BY <1>1 DEF View

\* An operation on one machine is not seen on another.
LEMMA ElsewhereSame ==
    ASSUME NEW m, main'[m] = main[m], wal'[m] = wal[m]
    PROVE  View(m)' = View(m)
  BY DEF View

LEMMA FetchView ==
    ASSUME TypeOK, Solo, WalClean, NEW r \in Run, Fetch(r)
    PROVE  /\ View(On[r])' = remote.db
           /\ \A m \in Machine : m # On[r] => View(m)' = View(m)
<1>1. On[r] \in Machine /\ wal[On[r]] = NoPages
  BY CleanBetweenWrites, StateSyncAssumption DEF Fetch
<1>2. main'[On[r]] = remote.db /\ remote.db \in Db /\ wal' = wal
  BY <1>1 DEF Fetch, TypeOK
<1>3. main'[On[r]] # NoPages
  BY <1>2, StateSyncAssumption DEF Db, NoPages, MatTable
<1>4. wal[On[r]].mat = None /\ wal[On[r]].runs = None
  BY <1>1 DEF NoPages
<1>5. View(On[r])' = [mat |-> remote.db.mat, runs |-> remote.db.runs]
  BY <1>2, <1>3, <1>4 DEF View
<1>6. \A m \in Machine : m # On[r] => main'[m] = main[m] /\ wal'[m] = wal[m]
  BY DEF Fetch, TypeOK
<1> QED
  BY <1>2, <1>5, <1>6, ElsewhereSame DEF Db

LEMMA DryRunView ==
    ASSUME TypeOK, WalClean, Exclusive, NEW n \in Machine, DryRun(n)
    PROVE  /\ View(n)' = remote.db
           /\ \A m \in Machine : m # n => View(m)' = View(m)
<1>1. wal[n] = NoPages
  BY CleanWhenIdle DEF DryRun, Exclusive
<1>2. main'[n] = remote.db /\ remote.db \in Db /\ wal' = wal
  BY DEF DryRun, TypeOK
<1>3. main'[n] # NoPages
  BY <1>2, StateSyncAssumption DEF Db, NoPages, MatTable
<1>4. wal[n].mat = None /\ wal[n].runs = None
  BY <1>1 DEF NoPages
<1>5. View(n)' = [mat |-> remote.db.mat, runs |-> remote.db.runs]
  BY <1>2, <1>3, <1>4 DEF View
<1>6. \A m \in Machine : m # n => main'[m] = main[m] /\ wal'[m] = wal[m]
  BY DEF DryRun, TypeOK
<1> QED
  BY <1>2, <1>5, <1>6, ElsewhereSame DEF Db

\* The schema of a new database and a checkpoint change nothing that is seen.
LEMMA InitDbView ==
    ASSUME TypeOK, NEW r \in Run, InitDb(r)
    PROVE  \A m \in Machine : View(m)' = View(m)
<1>1. main' = main /\ On[r] \in Machine
  BY StateSyncAssumption DEF InitDb
<1>2. CASE main[On[r]] = NoPages /\ wal[On[r]] = NoPages
  <2>1. wal'[On[r]] = EmptyDb /\ \A m \in Machine : m # On[r] => wal'[m] = wal[m]
    BY <1>1, <1>2 DEF InitDb, TypeOK
  <2>2. wal[On[r]].mat = None /\ wal[On[r]].runs = None
    BY <1>2 DEF NoPages
  <2>3. View(On[r]) = [mat |-> EmptyDb.mat, runs |-> EmptyDb.runs]
    BY <1>2, <2>2 DEF View
  <2>4. EmptyDb.mat # None /\ EmptyDb.runs # None
    <3>1. /\ EmptyDb.mat \in [Run -> Nat]
          /\ EmptyDb.runs \in [Run -> {"absent", "running", "finished"}]
      BY DEF EmptyDb
    <3> QED
      BY <3>1, StateSyncAssumption
  <2>5. View(On[r])' = [mat |-> EmptyDb.mat, runs |-> EmptyDb.runs]
    BY <2>1, <2>4 DEF View
  <2> QED
    BY <1>1, <2>1, <2>3, <2>5, ElsewhereSame
<1>3. CASE ~(main[On[r]] = NoPages /\ wal[On[r]] = NoPages)
  BY <1>1, <1>3, ElsewhereSame DEF InitDb
<1> QED
  BY <1>2, <1>3

LEMMA CheckpointView ==
    ASSUME TypeOK, NEW r \in Run, Checkpoint(r)
    PROVE  \A m \in Machine : View(m)' = View(m)
<1>1. On[r] \in Machine /\ View(On[r]) \in Db
  BY ViewType, StateSyncAssumption
<1>2. main'[On[r]] = View(On[r]) /\ wal'[On[r]] = NoPages
  BY <1>1 DEF Checkpoint, TypeOK
<1>3. main'[On[r]] # NoPages
  BY <1>1, <1>2, StateSyncAssumption DEF Db, NoPages, MatTable
<1>4. wal'[On[r]].mat = None /\ wal'[On[r]].runs = None
  BY <1>2 DEF NoPages
<1>5. View(On[r])' = [mat |-> View(On[r]).mat, runs |-> View(On[r]).runs]
  BY <1>2, <1>3, <1>4 DEF View
<1>6. \A m \in Machine : m # On[r] => main'[m] = main[m] /\ wal'[m] = wal[m]
  BY DEF Checkpoint, TypeOK
<1> QED
  BY <1>1, <1>5, <1>6, ElsewhereSame DEF Db

LEMMA CreateRunView ==
    ASSUME TypeOK, NEW r \in Run, CreateRun(r)
    PROVE  /\ View(On[r])'.mat = View(On[r]).mat
           /\ View(On[r])'.runs = [View(On[r]).runs EXCEPT ![r] = "running"]
           /\ \A m \in Machine : m # On[r] => View(m)' = View(m)
<1>1. On[r] \in Machine /\ View(On[r]) \in Db
  BY ViewType, StateSyncAssumption
<1>2. [View(On[r]).runs EXCEPT ![r] = "running"] # None
  <2>1. [View(On[r]).runs EXCEPT ![r] = "running"]
          \in [Run -> {"absent", "running", "finished"}]
    BY <1>1 DEF Db, RunsTable
  <2> QED
    BY <2>1, StateSyncAssumption
<1>3. /\ wal'[On[r]] = [wal[On[r]] EXCEPT !.runs =
                           [View(On[r]).runs EXCEPT ![r] = "running"]]
      /\ main' = main
      /\ \A m \in Machine : m # On[r] => wal'[m] = wal[m]
  BY <1>1 DEF CreateRun, TypeOK
<1>4. wal[On[r]] \in [mat : MatTable \cup {None}, runs : RunsTable \cup {None}]
  BY <1>1 DEF TypeOK
<1>5. /\ wal'[On[r]].mat = wal[On[r]].mat
      /\ wal'[On[r]].runs = [View(On[r]).runs EXCEPT ![r] = "running"]
  BY <1>3, <1>4
<1> QED
  BY <1>2, <1>3, <1>5, ElsewhereSame DEF View

LEMMA PersistView ==
    ASSUME TypeOK, NEW r \in Run, Persist(r)
    PROVE  /\ View(On[r])'.mat = [View(On[r]).mat EXCEPT ![r] = @ + 1]
           /\ View(On[r])'.runs = [View(On[r]).runs EXCEPT ![r] = "finished"]
           /\ \A m \in Machine : m # On[r] => View(m)' = View(m)
<1> DEFINE mats == [View(On[r]).mat  EXCEPT ![r] = @ + 1]
           rows == [View(On[r]).runs EXCEPT ![r] = "finished"]
<1>1. On[r] \in Machine /\ View(On[r]) \in Db
  BY ViewType, StateSyncAssumption
<1>2. mats # None /\ rows # None
  <2>1. /\ mats \in [Run -> Nat]
        /\ rows \in [Run -> {"absent", "running", "finished"}]
    BY <1>1 DEF Db, RunsTable, MatTable
  <2> QED
    BY <2>1, StateSyncAssumption
<1>3. /\ wal'[On[r]] = [mat |-> mats, runs |-> rows]
      /\ main' = main
      /\ \A m \in Machine : m # On[r] => wal'[m] = wal[m]
  BY <1>1 DEF Persist, TypeOK
<1> HIDE DEF mats, rows
<1>4. View(On[r])' = [mat |-> mats, runs |-> rows]
  BY <1>2, <1>3 DEF View
<1>5. \A m \in Machine : m # On[r] => View(m)' = View(m)
  BY <1>3, ElsewhereSame
<1> QED
  BY <1>4, <1>5 DEF mats, rows

\* The same, row by row.
LEMMA PersistRows ==
    ASSUME TypeOK, NEW r \in Run, Persist(r), NEW q \in Run
    PROVE  /\ View(On[r])'.mat[q] = IF q = r THEN View(On[r]).mat[q] + 1
                                             ELSE View(On[r]).mat[q]
           /\ View(On[r])'.runs[q] = IF q = r THEN "finished" ELSE View(On[r]).runs[q]
<1>1. View(On[r]).mat \in [Run -> Nat] /\ View(On[r]).runs \in RunsTable
  BY ViewType, StateSyncAssumption DEF Db, MatTable
<1>2. /\ View(On[r])'.mat = [View(On[r]).mat EXCEPT ![r] = @ + 1]
      /\ View(On[r])'.runs = [View(On[r]).runs EXCEPT ![r] = "finished"]
  BY PersistView
<1> QED
  BY <1>1, <1>2 DEF RunsTable

LEMMA UploadView ==
    ASSUME TypeOK, FileThere, Solo, WalClean, NEW r \in Run, Upload(r)
    PROVE  remote'.db = View(On[r])
<1>1. On[r] \in Machine /\ wal[On[r]] = NoPages
  BY CleanBetweenWrites, StateSyncAssumption DEF Upload
<1>2. main[On[r]] \in Db
  BY DEF Upload, FileThere
<1> QED
  BY <1>1, <1>2, ViewOfPulled DEF Upload

RunStep(r) == Transfer(r) \/ Local(r) \/ Killed(r)

\* The ways a step of a run can go.
LEMMA RunStepCases ==
    ASSUME NEW r \in Run, RunStep(r)
    PROVE  \/ Silent(r) \/ Fetch(r) \/ InitDb(r) \/ CreateRun(r) \/ Persist(r)
           \/ Checkpoint(r)
  BY DEF RunStep, Transfer, Local, Silent

LEMMA NextCases ==
    ASSUME [Next]_vars
    PROVE  \/ \E r \in Run : RunStep(r)
           \/ \E m \in Machine : DryRun(m)
           \/ UNCHANGED vars
  BY DEF Next, RunStep

\* A run writes its own stage only, and comes from a stage that is not an end.
LEMMA OwnStage ==
    ASSUME TypeOK, NEW r \in Run, RunStep(r)
    PROVE  /\ \A q \in Run : q # r => pc'[q] = pc[q] /\ token'[q] = token[q]
           /\ pc[r] \notin Ended
<1>1. \A q \in Run : q # r => pc'[q] = pc[q]
  BY DEF RunStep, Transfer, Local, ReadToken, Fetch, PullFails, Pushed, AnswerFails,
         PushFails, Conflict, InitDb, CreateRun, Persist, Checkpoint, Verify, Killed,
         Goto, TypeOK
<1>2. \A q \in Run : q # r => token'[q] = token[q]
  BY DEF RunStep, Transfer, Local, ReadToken, Fetch, PullFails, Pushed, AnswerFails,
         PushFails, Conflict, InitDb, CreateRun, Persist, Checkpoint, Verify, Killed,
         Upload, TypeOK
<1>3. pc[r] \notin Ended
  BY StateSyncAssumption
     DEF RunStep, Transfer, Local, ReadToken, Fetch, PullFails, Pushed, AnswerFails,
         PushFails, Conflict, InitDb, CreateRun, Persist, Checkpoint, Verify, Killed,
         Upload, Stage, Ended
<1> QED
  BY <1>1, <1>2, <1>3

\* The file of an active run is changed by itself only.
LEMMA NotDisturbed ==
    ASSUME TypeOK, Exclusive, Solo, WalClean,
           NEW r \in Run, RunStep(r), NEW p \in Run, p # r, Active(p)
    PROVE  View(On[p])' = View(On[p])
<1>1. On[p] \in Machine
  BY StateSyncAssumption
<1>2. CASE Silent(r)
  BY <1>2, SilentView
<1>3. CASE ~Silent(r)
  <2>1. Fetch(r) \/ InitDb(r) \/ CreateRun(r) \/ Persist(r) \/ Checkpoint(r)
    BY <1>3, RunStepCases
  <2>2. Active(r)
    BY <2>1 DEF Fetch, InitDb, CreateRun, Persist, Checkpoint, Active, Ended
  <2>3. On[p] # On[r]
    BY <2>2 DEF Solo
  <2> QED
    BY <1>1, <2>1, <2>3, FetchView, InitDbView, CreateRunView, PersistView,
       CheckpointView
<1> QED
  BY <1>2, <1>3

\* A machine has one active process: another starts when it is over.
LEMMA StepSolo ==
    ASSUME TypeOK, Exclusive, Solo, [Next]_vars
    PROVE  Solo'
<1> SUFFICES ASSUME NEW p \in Run, NEW q \in Run, Active(p)', Active(q)', On[p] = On[q]
             PROVE  p = q
  BY DEF Solo
<1>1. ASSUME NEW r \in Run, RunStep(r) PROVE p = q
  <2>1. \A x \in Run : x # r => (Active(x)' <=> Active(x))
    BY <1>1, OwnStage DEF Active
  <2>2. CASE Active(r)
    <3>1. \A x \in Run : Active(x)' => Active(x)
      BY <2>1, <2>2
    <3> QED
      BY <3>1 DEF Solo
  <2>3. CASE ~Active(r)
    <3>1. pc[r] = "idle"
      BY <1>1, <2>3, OwnStage DEF Active, TypeOK
    <3>2. ReadToken(r)
      BY <1>1, <3>1 DEF RunStep, Transfer, Local, Fetch, PullFails, Pushed, AnswerFails,
         PushFails, Conflict, InitDb, CreateRun, Persist, Checkpoint, Verify, Killed,
         Upload, Exclusive
    <3>3. ~Busy(On[r])
      BY <3>1, <3>2 DEF ReadToken, Exclusive
    <3>4. \A x \in Run : x # r /\ On[x] = On[r] => ~Active(x)'
      BY <2>1, <3>3 DEF Busy, Active
    <3> QED
      BY <2>1, <3>4 DEF Solo
  <2> QED
    BY <2>2, <2>3
<1>2. ASSUME NEW m \in Machine, DryRun(m) PROVE p = q
  BY <1>2 DEF DryRun, Solo, Active
<1>3. CASE UNCHANGED vars
  BY <1>3 DEF vars, Solo, Active
<1> QED
  BY <1>1, <1>2, <1>3, NextCases

\* Only a run between its first write and its checkpoint leaves a WAL behind.
LEMMA StepWal ==
    ASSUME TypeOK, Exclusive, Solo, WalClean, [Next]_vars
    PROVE  WalClean'
<1> DEFINE writing == {"create", "persist", "checkpoint"}
<1> SUFFICES ASSUME NEW m \in Machine
             PROVE  \/ wal'[m] = NoPages
                    \/ \E x \in Run : On[x] = m /\ pc'[x] \in writing
  BY DEF WalClean
<1>0. wal[m] = NoPages \/ \E x \in Run : On[x] = m /\ pc[x] \in writing
  BY DEF WalClean
<1>1. ASSUME NEW r \in Run, Silent(r) \/ Fetch(r)
      PROVE  \/ wal'[m] = NoPages
             \/ \E x \in Run : On[x] = m /\ pc'[x] \in writing
  <2>1. wal' = wal
    BY <1>1, SilentView DEF Fetch
  <2>2. pc[r] \notin writing
    BY <1>1 DEF Silent, ReadToken, Fetch, PullFails, PushFails, Conflict, Verify, Killed,
       Pushed, AnswerFails, Upload, Exclusive
  <2>3. \A x \in Run : x # r => pc'[x] = pc[x]
    BY <1>1, OwnStage DEF Silent, RunStep, Transfer, Local
  <2> QED
    BY <1>0, <2>1, <2>2, <2>3
<1>2. ASSUME NEW r \in Run, InitDb(r) \/ CreateRun(r) \/ Persist(r)
      PROVE  \/ wal'[m] = NoPages
             \/ \E x \in Run : On[x] = m /\ pc'[x] \in writing
  <2>1. pc'[r] \in writing
    BY <1>2 DEF InitDb, CreateRun, Persist, Goto, TypeOK
  <2>2. \A x \in Run : x # r => pc'[x] = pc[x]
    BY <1>2, OwnStage DEF RunStep, Local
  <2>3. m # On[r] => wal'[m] = wal[m]
    BY <1>2, StateSyncAssumption DEF InitDb, CreateRun, Persist, TypeOK
  <2> QED
    BY <1>0, <2>1, <2>2, <2>3
<1>3. ASSUME NEW r \in Run, Checkpoint(r)
      PROVE  \/ wal'[m] = NoPages
             \/ \E x \in Run : On[x] = m /\ pc'[x] \in writing
  <2>1. \A x \in Run : x # r => pc'[x] = pc[x]
    BY <1>3, OwnStage DEF RunStep, Local
  <2>2. IF m = On[r] THEN wal'[m] = NoPages ELSE wal'[m] = wal[m]
    BY <1>3, StateSyncAssumption DEF Checkpoint, TypeOK
  <2> QED
    BY <1>0, <2>1, <2>2
<1>4. ASSUME NEW n \in Machine, DryRun(n)
      PROVE  \/ wal'[m] = NoPages
             \/ \E x \in Run : On[x] = m /\ pc'[x] \in writing
  BY <1>0, <1>4 DEF DryRun
<1>5. CASE UNCHANGED vars
  BY <1>0, <1>5 DEF vars
<1> QED
  BY <1>1, <1>2, <1>3, <1>4, <1>5, NextCases, RunStepCases

\* The shared object is changed by an upload only, which ends the run.
LEMMA RemoteStep ==
    ASSUME TypeOK, NEW r \in Run, RunStep(r)
    PROVE  remote' = remote \/ (Upload(r) /\ pc'[r] \in Ended)
<1>1. CASE Pushed(r) \/ AnswerFails(r)
  BY <1>1 DEF Pushed, AnswerFails, Goto, TypeOK, Ended
<1>2. CASE ~(Pushed(r) \/ AnswerFails(r))
  BY <1>2 DEF RunStep, Transfer, Local, ReadToken, Fetch, PullFails, PushFails, Conflict,
     InitDb, CreateRun, Persist, Checkpoint, Verify, Killed
<1> QED
  BY <1>1, <1>2

\* A token is never of a later generation; a conflict means there is an object.
LEMMA StepTokens ==
    ASSUME TypeOK, FileThere, Tokens, [Next]_vars
    PROVE  Tokens'
<1>0. /\ remote.gen \in Nat /\ token \in [Run -> Nat]
      /\ pc \in [Run -> Stage \cup Ended]
  BY DEF TypeOK
<1>1. ASSUME NEW r \in Run, RunStep(r) PROVE Tokens'
  <2>1. CASE ReadToken(r)
    <3>1. /\ remote' = remote /\ token'[r] = remote.gen
          /\ pc'[r] # "pull"
      BY <1>0, <2>1 DEF ReadToken, Goto
    <3> QED
      BY <1>0, <1>1, <3>1, OwnStage DEF Tokens
  <2>2. CASE Upload(r)
    <3>1. remote'.gen = remote.gen + 1 /\ token' = token
      BY <2>2 DEF Upload
    <3> QED
      BY <1>0, <3>1 DEF Tokens
  <2>3. CASE Conflict(r)
    <3>1. remote' = remote /\ token' = token /\ token[r] # remote.gen
      BY <2>3 DEF Conflict
    <3>2. remote.gen > 0
      BY <1>0, <3>1 DEF Tokens
    <3> QED
      BY <1>0, <3>1, <3>2 DEF Tokens
  <2>4. CASE ~ReadToken(r) /\ ~Upload(r) /\ ~Conflict(r)
    <3>1. remote' = remote /\ token' = token
      BY <1>1, <2>4 DEF RunStep, Transfer, Local, Fetch, PullFails, Pushed, AnswerFails,
         PushFails, InitDb, CreateRun, Persist, Checkpoint, Verify, Killed
    <3>2. pc'[r] # "pull"
      BY <1>0, <1>1, <2>4 DEF RunStep, Transfer, Local, Fetch, PullFails, Pushed,
         AnswerFails, PushFails, InitDb, CreateRun, Persist, Checkpoint, Verify, Killed,
         Goto
    <3> QED
      BY <1>0, <1>1, <3>1, <3>2, OwnStage DEF Tokens
  <2> QED
    BY <2>1, <2>2, <2>3, <2>4
<1>2. ASSUME NEW m \in Machine, DryRun(m) PROVE Tokens'
  BY <1>2 DEF DryRun, Tokens
<1>3. CASE UNCHANGED vars
  BY <1>3 DEF vars, Tokens
<1> QED
  BY <1>1, <1>2, <1>3, NextCases

\* Rows are appended only where they are not yet, so none is there twice.
LEMMA StepOnce ==
    ASSUME TypeOK, FileThere, Exclusive, Solo, WalClean, Once, Private, [Next]_vars
    PROVE  Once'
<1>0. On \in [Run -> Machine] /\ \A m \in Machine : View(m) \in Db
  BY StateSyncAssumption, ViewType
<1>1. ASSUME NEW r \in Run, RunStep(r) PROVE Once'
  <2>1. \A q \in Run : remote'.db.mat[q] <= 1
    <3>1. CASE remote' = remote
      BY <3>1 DEF Once
    <3>2. CASE Upload(r)
      BY <1>0, <3>2, UploadView DEF Once
    <3> QED
      BY <1>1, <3>1, <3>2, RemoteStep
  <2>2. CASE Fetch(r)
    <3>1. \A m \in Machine : View(m)' = remote.db \/ View(m)' = View(m)
      BY <2>2, FetchView
    <3> QED
      BY <2>1, <3>1 DEF Once
  <2>3. CASE Persist(r)
    <3>1. View(On[r]).mat[r] = 0
      BY <1>0, <2>3, StateSyncAssumption DEF Persist, Private, Ended
    <3>2. \A q \in Run : View(On[r])'.mat[q] = IF q = r THEN 1 ELSE View(On[r]).mat[q]
      BY <2>3, <3>1, PersistRows
    <3>3. \A q \in Run : View(On[r])'.mat[q] <= 1
      BY <1>0, <3>2 DEF Once
    <3>4. \A m \in Machine : m # On[r] => View(m)' = View(m)
      BY <2>3, PersistView
    <3> QED
      BY <2>1, <3>3, <3>4 DEF Once
  <2>4. CASE ~Fetch(r) /\ ~Persist(r)
    <3>1. \A m \in Machine : View(m)'.mat = View(m).mat
      <4>1. Silent(r) \/ InitDb(r) \/ CreateRun(r) \/ Checkpoint(r)
        BY <1>1, <2>4, RunStepCases
      <4> QED
        BY <4>1, SilentView, InitDbView, CreateRunView, CheckpointView
    <3> QED
      BY <2>1, <3>1 DEF Once
  <2> QED
    BY <2>2, <2>3, <2>4
<1>2. ASSUME NEW n \in Machine, DryRun(n) PROVE Once'
  <2>1. \A m \in Machine : View(m)' = remote.db \/ View(m)' = View(m)
    BY <1>2, DryRunView
  <2> QED
    BY <1>2, <2>1 DEF Once, DryRun
<1>3. CASE UNCHANGED vars
  BY <1>3 DEF vars, Once, View
<1> QED
  BY <1>1, <1>2, <1>3, NextCases

\* Nobody else sees the rows of a run before it has pushed them, and the run has
\* not seen them itself when it appends them.
LEMMA StepPrivate ==
    ASSUME TypeOK, FileThere, Exclusive, Solo, WalClean, Tokens, Private, [Next]_vars
    PROVE  Private'
<1> DEFINE early == {"idle", "init", "create", "persist"}
<1> SUFFICES ASSUME NEW p \in Run, pc'[p] \notin Ended
             PROVE  /\ remote'.db.mat[p] = 0
                    /\ \A m \in Machine :
                         m # On[p] \/ pc'[p] \in early => View(m)'.mat[p] = 0
  BY DEF Private
<1>0. /\ On \in [Run -> Machine] /\ \A m \in Machine : View(m) \in Db
      /\ pc \in [Run -> Stage \cup Ended] /\ remote.gen \in Nat
  BY StateSyncAssumption, ViewType DEF TypeOK
<1>1. pc[p] \notin Ended =>
        /\ remote.db.mat[p] = 0
        /\ \A m \in Machine :
             m # On[p] \/ pc[p] \in early => View(m).mat[p] = 0
  BY DEF Private
<1>2. ASSUME NEW r \in Run, RunStep(r)
      PROVE  /\ remote'.db.mat[p] = 0
             /\ \A m \in Machine :
                  m # On[p] \/ pc'[p] \in early => View(m)'.mat[p] = 0
  <2>1. pc[p] \notin Ended /\ (p # r => pc'[p] = pc[p])
    BY <1>2, OwnStage
  <2>2. remote'.db.mat[p] = 0
    <3>1. CASE remote' = remote
      BY <1>1, <2>1, <3>1
    <3>2. CASE Upload(r) /\ pc'[r] \in Ended
      <4>1. remote'.db = View(On[r]) /\ p # r
        BY <3>2, UploadView
      <4>2. On[p] = On[r] => pc[p] = "idle"
        <5>1. Active(r)
          BY <3>2 DEF Upload, Active, Ended
        <5> QED
          BY <2>1, <4>1, <5>1 DEF Solo, Active
      <4> QED
        BY <1>0, <1>1, <2>1, <4>1, <4>2
    <3> QED
      BY <1>2, <3>1, <3>2, RemoteStep
  <2>3. ASSUME NEW m \in Machine, m # On[p] \/ pc'[p] \in early
        PROVE  View(m)'.mat[p] = 0
    <3>1. CASE Fetch(r)
      <4>1. IF m = On[r] THEN View(m)' = remote.db ELSE View(m)' = View(m)
        BY <3>1, FetchView
      <4>2. m # On[r] => m # On[p] \/ pc[p] \in early
        BY <2>1, <2>3
      <4> QED
        BY <1>1, <2>1, <4>1, <4>2
    <3>2. CASE ~Fetch(r)
      <4>1. m # On[p] \/ pc[p] \in early
        <5>1. CASE p # r
          BY <2>1, <2>3, <5>1
        <5>2. CASE p = r
          <6>1. remote.gen = 0 => pc[r] # "pull"
            BY <1>0 DEF Tokens
          <6>2. pc'[r] \in early => pc[r] \in early
            BY <1>0, <1>2, <3>2, <6>1
               DEF RunStep, Transfer, Local, ReadToken, PullFails, Pushed, AnswerFails,
                   PushFails, Conflict, InitDb, CreateRun, Persist, Checkpoint, Verify,
                   Killed, Goto
          <6> QED
            BY <2>3, <5>2, <6>2
        <5> QED
          BY <5>1, <5>2
      <4>2. View(m).mat[p] = 0
        BY <1>1, <2>1, <4>1
      <4>3. CASE Persist(r)
        <5>1. ~(p = r /\ m = On[r])
          BY <1>0, <2>3, <4>3 DEF Persist, Goto
        <5>2. m # On[r] => View(m)' = View(m)
          BY <4>3, PersistView
        <5> QED
          BY <4>2, <4>3, <5>1, <5>2, PersistRows
      <4>4. CASE ~Persist(r)
        <5>1. Silent(r) \/ InitDb(r) \/ CreateRun(r) \/ Checkpoint(r)
          BY <1>2, <3>2, <4>4, RunStepCases
        <5>2. View(m)'.mat = View(m).mat
          BY <5>1, SilentView, InitDbView, CreateRunView, CheckpointView
        <5> QED
          BY <4>2, <5>2
      <4> QED
        BY <4>3, <4>4
    <3> QED
      BY <3>1, <3>2
  <2> QED
    BY <2>2, <2>3
<1>3. ASSUME NEW n \in Machine, DryRun(n)
      PROVE  /\ remote'.db.mat[p] = 0
             /\ \A m \in Machine :
                  m # On[p] \/ pc'[p] \in early => View(m)'.mat[p] = 0
  <2>1. pc' = pc /\ remote' = remote
    BY <1>3 DEF DryRun
  <2>2. \A m \in Machine : View(m)' = remote.db \/ View(m)' = View(m)
    BY <1>3, DryRunView
  <2> QED
    BY <1>1, <2>1, <2>2
<1>4. CASE UNCHANGED vars
  <2>1. pc' = pc /\ remote' = remote /\ \A m \in Machine : View(m)' = View(m)
    BY <1>4 DEF vars, View
  <2> QED
    BY <1>1, <2>1
<1> QED
  BY <1>2, <1>3, <1>4, NextCases

\* The file of an active run is untouched by the dry runs of its machine.
LEMMA DryRunApart ==
    ASSUME TypeOK, Exclusive, WalClean, NEW n \in Machine, DryRun(n),
           NEW p \in Run, Active(p)
    PROVE  /\ View(On[p])' = View(On[p]) /\ remote' = remote
           /\ pc' = pc /\ token' = token
<1>1. On[p] \in Machine /\ On[p] # n
  BY StateSyncAssumption DEF DryRun, Exclusive, Busy, Active
<1> QED
  BY <1>1, DryRunView DEF DryRun

\* A run that has replayed its rows has them in its file until it has pushed them.
LEMMA StepWritten ==
    ASSUME TypeOK, Exclusive, Solo, WalClean, Written, [Next]_vars
    PROVE  Written'
<1> DEFINE late == {"checkpoint", "verify", "push"}
<1> SUFFICES ASSUME NEW p \in Run, pc'[p] \in late
             PROVE  View(On[p])'.mat[p] > 0 /\ View(On[p])'.runs[p] = "finished"
  BY DEF Written, Holds
<1>0. /\ On[p] \in Machine /\ View(On[p]) \in Db
      /\ pc \in [Run -> Stage \cup Ended]
  BY StateSyncAssumption, ViewType DEF TypeOK
<1>1. pc[p] \in late => View(On[p]).mat[p] > 0 /\ View(On[p]).runs[p] = "finished"
  BY DEF Written, Holds
<1>2. ASSUME NEW r \in Run, RunStep(r)
      PROVE  View(On[p])'.mat[p] > 0 /\ View(On[p])'.runs[p] = "finished"
  <2>1. CASE p # r
    <3>1. pc[p] \in late /\ Active(p)
      BY <1>2, <2>1, OwnStage DEF Active, Ended
    <3> QED
      BY <1>1, <1>2, <2>1, <3>1, NotDisturbed
  <2>2. CASE p = r /\ Persist(r)
    <3>1. View(On[p]).mat[p] \in Nat
      BY <1>0 DEF Db, MatTable
    <3> QED
      BY <2>2, <3>1, PersistRows
  <2>3. CASE p = r /\ ~Persist(r)
    <3>1. (Checkpoint(r) \/ Verify(r)) /\ pc[p] \in late
      BY <1>0, <1>2, <2>3
         DEF RunStep, Transfer, Local, ReadToken, Fetch, PullFails, Pushed, AnswerFails,
             PushFails, Conflict, InitDb, CreateRun, Checkpoint, Verify, Killed, Goto,
             Ended
    <3>2. View(On[p])' = View(On[p])
      BY <1>0, <3>1, CheckpointView, SilentView DEF Silent
    <3> QED
      BY <1>1, <3>1, <3>2
  <2> QED
    BY <2>1, <2>2, <2>3
<1>3. ASSUME NEW n \in Machine, DryRun(n)
      PROVE  View(On[p])'.mat[p] > 0 /\ View(On[p])'.runs[p] = "finished"
  <2>1. Active(p) /\ pc[p] \in late
    BY <1>3 DEF DryRun, Active, Ended
  <2> QED
    BY <1>1, <1>3, <2>1, DryRunApart
<1>4. CASE UNCHANGED vars
  BY <1>1, <1>4 DEF vars, View
<1> QED
  BY <1>2, <1>3, <1>4, NextCases

\* As long as the token of a run is current, its file holds all that is shared.
LEMMA StepFresh ==
    ASSUME TypeOK, FileThere, Exclusive, Solo, WalClean, Private, Tokens, Fresh, [Next]_vars
    PROVE  Fresh'
<1> DEFINE after(x) == pc[x] \notin Ended \cup {"idle", "pull", "fetch"}
<1> SUFFICES ASSUME NEW p \in Run, after(p)', token'[p] = remote'.gen,
                    NEW q \in Run, Shares(q)'
             PROVE  Holds(On[p], q)'
  BY DEF Fresh, Active
<1>0. /\ On[p] \in Machine /\ View(On[p]) \in Db
      /\ pc \in [Run -> Stage \cup Ended] /\ token \in [Run -> Nat] /\ remote.gen \in Nat
  BY StateSyncAssumption, ViewType DEF TypeOK
<1>1. after(p) /\ token[p] = remote.gen /\ Shares(q) => Holds(On[p], q)
  BY DEF Fresh, Active
<1>2. ASSUME NEW r \in Run, RunStep(r), p # r PROVE Holds(On[p], q)'
  <2>1. after(p) /\ Active(p) /\ token'[p] = token[p]
    BY <1>2, OwnStage DEF Active
  <2>2. remote' = remote
    <3>1. ASSUME Upload(r) PROVE FALSE
      <4>1. remote'.gen = remote.gen + 1
        BY <3>1 DEF Upload
      <4>2. token[p] <= remote.gen /\ token[p] = remote'.gen /\ token[p] \in Nat
        BY <1>0, <2>1 DEF Tokens
      <4> QED
        BY <1>0, <4>1, <4>2
    <3> QED
      BY <1>2, <3>1, RemoteStep
  <2>3. View(On[p])' = View(On[p])
    BY <1>2, <2>1, NotDisturbed
  <2> QED
    BY <1>1, <2>1, <2>2, <2>3 DEF Shares, Holds
<1>3. ASSUME RunStep(p) PROVE Holds(On[p], q)'
  <2>1. remote' = remote
    BY <1>3, RemoteStep
  <2>2. CASE ReadToken(p)
    <3>1. remote.gen = 0
      BY <1>0, <2>2 DEF ReadToken, Goto
    <3>2. remote.db.mat[q] = 0
      BY <3>1 DEF Tokens, EmptyDb
    <3> QED
      BY <2>1, <3>2 DEF Shares
  <2>3. CASE Fetch(p)
    <3>1. View(On[p])' = remote.db
      BY <2>3, FetchView
    <3> QED
      BY <2>1, <3>1 DEF Shares, Holds
  <2>4. CASE ~ReadToken(p) /\ ~Fetch(p)
    <3>1. /\ InitDb(p) \/ CreateRun(p) \/ Persist(p) \/ Checkpoint(p) \/ Verify(p)
          /\ after(p)
      BY <1>0, <1>3, <2>4
         DEF RunStep, Transfer, Local, PullFails, Pushed, AnswerFails, PushFails,
             Conflict, InitDb, CreateRun, Persist, Checkpoint, Verify, Killed, Goto, Ended
    <3>2. token' = token
      BY <3>1 DEF InitDb, CreateRun, Persist, Checkpoint, Verify
    <3>3. Shares(q) /\ Holds(On[p], q)
      BY <1>1, <2>1, <3>1, <3>2 DEF Shares
    <3>4. View(On[p]).mat[q] > 0 /\ View(On[p]).runs[q] = "finished"
      BY <3>3 DEF Holds
    <3>5. CASE InitDb(p) \/ Checkpoint(p) \/ Verify(p)
      <4>1. View(On[p])' = View(On[p])
        BY <1>0, <3>5, InitDbView, CheckpointView, SilentView DEF Silent
      <4> QED
        BY <3>4, <4>1 DEF Holds
    <3>6. CASE CreateRun(p)
      <4>1. q # p
        BY <3>3, <3>6 DEF CreateRun, Private, Shares, Ended
      <4>2. /\ View(On[p])'.mat = View(On[p]).mat
            /\ View(On[p])'.runs[q] = View(On[p]).runs[q]
        BY <1>0, <3>6, <4>1, CreateRunView DEF Db, RunsTable
      <4> QED
        BY <3>4, <4>2 DEF Holds
    <3>7. CASE Persist(p)
      <4>1. View(On[p]).mat[q] \in Nat
        BY <1>0 DEF Db, MatTable
      <4>2. /\ View(On[p])'.mat[q] > 0
            /\ View(On[p])'.runs[q] = "finished"
        BY <3>4, <3>7, <4>1, PersistRows
      <4> QED
        BY <4>2 DEF Holds
    <3> QED
      BY <3>1, <3>5, <3>6, <3>7
  <2> QED
    BY <2>2, <2>3, <2>4
<1>4. ASSUME NEW n \in Machine, DryRun(n) PROVE Holds(On[p], q)'
  <2>1. pc' = pc
    BY <1>4 DEF DryRun
  <2>2. Active(p) /\ after(p)
    BY <2>1 DEF Active
  <2>3. View(On[p])' = View(On[p]) /\ remote' = remote /\ token' = token
    BY <1>4, <2>2, DryRunApart
  <2> QED
    BY <1>1, <2>2, <2>3 DEF Shares, Holds
<1>5. CASE UNCHANGED vars
  BY <1>1, <1>5 DEF vars, View, Shares, Holds
<1> QED
  BY <1>2, <1>3, <1>4, <1>5, NextCases

Apart == /\ TypeOK /\ FileThere /\ Solo /\ WalClean
         /\ Once /\ Private /\ Tokens /\ Written /\ Fresh

\* Before the first step nothing is stored anywhere and nothing runs.
LEMMA InitApart == Init => Apart
<1> SUFFICES ASSUME Init PROVE Apart
  OBVIOUS
<1>1. TypeOK /\ FileThere
  BY InitType
<1>2. \A r \in Run : pc[r] = "idle" /\ token[r] = 0 /\ ~Active(r)
  BY DEF Init, Active
<1>3. \A m \in Machine : main[m] = NoPages /\ wal[m] = NoPages
  BY DEF Init
<1>4. \A m \in Machine : View(m).mat = EmptyDb.mat
  BY <1>3 DEF View, NoPages
<1>5. remote.gen = 0 /\ remote.db = EmptyDb
  BY DEF Init
<1>6. \A r \in Run : EmptyDb.mat[r] = 0
  BY DEF EmptyDb
<1>7. Once /\ Private
  BY <1>4, <1>5, <1>6 DEF Once, Private
<1>8. Solo /\ WalClean /\ Fresh
  BY <1>2, <1>3 DEF Solo, WalClean, Fresh
<1>9. Tokens /\ Written
  BY <1>2, <1>5 DEF Tokens, Written
<1> QED
  BY <1>1, <1>7, <1>8, <1>9 DEF Apart

LEMMA StepApart ==
    ASSUME Exclusive, Apart, [Next]_vars
    PROVE  Apart'
  BY StepType, StepFile, StepSolo, StepWal, StepOnce, StepPrivate, StepTokens,
     StepWritten, StepFresh DEF Apart

\* However pulls, conflicts, replays, failures and restarts of separate processes
\* follow each other, no run is ever counted twice (commands.rs:2364-2367).
THEOREM RowsOnce ==
    ASSUME Exclusive
    PROVE  Spec => []RecordedOnce
<1>1. Init => Apart
  BY InitApart
<1>2. Apart /\ [Next]_vars => Apart'
  BY StepApart
<1>3. Apart => RecordedOnce
  BY DEF Apart, Once, RecordedOnce
<1> QED
  BY <1>1, <1>2, <1>3, PTL DEF Spec

-----------------------------------------------------------------------------
(***************************************************************************)
(* The uploads of separate processes implement the shared ledger.          *)
(***************************************************************************)
Sharing == {r \in Run : Shares(r)}
Told    == [r \in Run |-> IF pc[r] = "pushed" THEN "ok"
                          ELSE IF pc[r] \in Ended THEN "error" ELSE "pending"]

LEMMA LedgerInit == Init => Ledger!Init
<1> SUFFICES ASSUME Init PROVE Ledger!Init
  OBVIOUS
<1>1. \A r \in Run : ~Shares(r)
  BY DEF Init, Shares, EmptyDb
<1>2. \A r \in Run : pc[r] = "idle"
  BY DEF Init
<1> QED
  BY <1>1, <1>2 DEF Ledger!Init, Ended

\* An upload publishes what the run pulled and its own rows, and drops nothing.
LEMMA LedgerPublish ==
    ASSUME Apart, NEW r \in Run, Pushed(r) \/ AnswerFails(r)
    PROVE  \E S \in SUBSET Run, answer \in {"ok", "error"} : Ledger!Publish(r, S, answer)
<1> DEFINE answer == IF pc'[r] = "pushed" THEN "ok" ELSE "error"
<1>0. /\ On[r] \in Machine /\ pc \in [Run -> Stage \cup Ended]
      /\ Upload(r) /\ pc[r] = "push" /\ token[r] = remote.gen
  BY StateSyncAssumption DEF Apart, TypeOK, Pushed, AnswerFails, Upload
<1>1. /\ pc' = [pc EXCEPT ![r] = pc'[r]]
      /\ pc'[r] \in {"pushed", "not_updated"}
  BY <1>0 DEF Pushed, AnswerFails, Goto
<1>2. remote'.db = View(On[r])
  BY <1>0, UploadView DEF Apart
<1>3. \A q \in Run : Shares(q)' <=> Holds(On[r], q)
  BY <1>2 DEF Shares, Holds
<1>4. r \in Sharing'
  BY <1>0, <1>3 DEF Apart, Written, Sharing
<1>5. Sharing \subseteq Sharing'
  <2>1. \A q \in Run : Shares(q) => Holds(On[r], q)
    BY <1>0 DEF Apart, Fresh, Active, Ended
  <2> QED
    BY <1>3, <2>1 DEF Sharing
<1>6. Told[r] = "pending" /\ Told' = [Told EXCEPT ![r] = answer]
  BY <1>0, <1>1 DEF Told, Ended
<1> DEFINE published == Sharing'
<1>7. published \in SUBSET Run /\ r \in published /\ answer \in {"ok", "error"}
  BY <1>4 DEF Sharing
<1>8. Sharing' = Sharing \cup published
  BY <1>5
<1> HIDE DEF answer, published
<1> QED
  BY <1>6, <1>7, <1>8 DEF Ledger!Publish, Sharing, Told

LEMMA LedgerGiveUp ==
    ASSUME Apart, NEW r \in Run, remote' = remote, pc[r] \notin Ended,
           NEW stage \in Ended \ {"pushed"}, Goto(r, stage)
    PROVE  Ledger!GiveUp(r)
<1>1. pc \in [Run -> Stage \cup Ended] /\ pc' = [pc EXCEPT ![r] = stage]
  BY DEF Apart, TypeOK, Goto
<1>2. Told[r] = "pending" /\ Told' = [Told EXCEPT ![r] = "error"]
  BY <1>1 DEF Told, Ended
<1>3. Sharing' = Sharing
  BY DEF Sharing, Shares
<1> QED
  BY <1>2, <1>3 DEF Ledger!GiveUp, Sharing, Told

LEMMA LedgerStutter ==
    ASSUME Apart, remote' = remote,
           \/ pc' = pc
           \/ \E r \in Run, stage \in Stage : pc[r] \notin Ended /\ Goto(r, stage)
    PROVE  UNCHANGED <<Sharing, Told>>
<1>1. Sharing' = Sharing
  BY DEF Sharing, Shares
<1>2. pc' = pc => Told' = Told
  BY DEF Told
<1>3. ASSUME NEW r \in Run, NEW stage \in Stage, pc[r] \notin Ended, Goto(r, stage)
      PROVE  Told' = Told
  <2>1. pc \in [Run -> Stage \cup Ended] /\ pc' = [pc EXCEPT ![r] = stage]
    BY <1>3 DEF Apart, TypeOK, Goto
  <2>2. stage \notin Ended
    BY <1>3 DEF Stage, Ended
  <2> QED
    BY <1>3, <2>1, <2>2 DEF Told, Ended
<1> QED
  BY <1>1, <1>2, <1>3

LEMMA LedgerStep ==
    ASSUME Exclusive, Apart, [Next]_vars
    PROVE  [Ledger!Next]_<<Sharing, Told>>
<1>1. ASSUME NEW r \in Run, Pushed(r) \/ AnswerFails(r) PROVE Ledger!Next
  BY <1>1, LedgerPublish DEF Ledger!Next
<1>2. ASSUME NEW r \in Run, RunStep(r), ~(Pushed(r) \/ AnswerFails(r))
      PROVE  [Ledger!Next]_<<Sharing, Told>>
  <2>1. /\ remote' = remote /\ pc[r] \notin Ended
        /\ \/ \E stage \in Stage : Goto(r, stage)
           \/ \E stage \in Ended \ {"pushed"} : Goto(r, stage)
    BY <1>2, OwnStage
       DEF Apart, RunStep, Transfer, Local, ReadToken, Fetch, PullFails, PushFails,
           Conflict, InitDb, CreateRun, Persist, Checkpoint, Verify, Killed, Stage, Ended
  <2>2. CASE \E stage \in Stage : Goto(r, stage)
    BY <2>1, <2>2, LedgerStutter
  <2>3. CASE \E stage \in Ended \ {"pushed"} : Goto(r, stage)
    BY <2>1, <2>3, LedgerGiveUp DEF Ledger!Next
  <2> QED
    BY <2>1, <2>2, <2>3
<1>3. ASSUME NEW m \in Machine, DryRun(m) PROVE UNCHANGED <<Sharing, Told>>
  BY <1>3, LedgerStutter DEF DryRun
<1>4. CASE UNCHANGED vars
  BY <1>4, LedgerStutter DEF vars
<1> QED
  BY <1>1, <1>2, <1>3, <1>4, NextCases

\* Whole files, conditional uploads and replays on separate processes keep what
\* shared state promises (remote-storage.md:50-55): a run that ends well is in the
\* shared database, and no push removes what an earlier one put there.
THEOREM SharesKeepPromise ==
    ASSUME Exclusive
    PROVE  Spec => ImplementsLedger
<1>1. Init => Apart
  BY InitApart
<1>2. Apart /\ [Next]_vars => Apart'
  BY StepApart
<1>3. Init => Ledger!Init
  BY LedgerInit
<1>4. Apart /\ [Next]_vars => [Ledger!Next]_<<Sharing, Told>>
  BY LedgerStep
<1> QED
  BY <1>1, <1>2, <1>3, <1>4, PTL DEF Spec, ImplementsLedger, Ledger!Spec, Sharing, Told
=============================================================================
