----------------------------- MODULE StateSync ------------------------------
(***************************************************************************)
(* Runs that share their metadata database through one remote object:      *)
(* execute() in crates/barca-core/src/commands.rs with state_sync.rs and   *)
(* python/barca/_state.py.  A run pulls the file, writes its rows, folds   *)
(* the WAL into the file and uploads it on the condition that the remote   *)
(* object is still the one it pulled; on a conflict it pulls again and     *)
(* replays its rows.                                                       *)
(*                                                                         *)
(* Every database operation holds the file lock of its machine and is one  *)
(* step.  pull and push do not take that lock: between any two operations  *)
(* of a run another process of its machine may act (Overlap).              *)
(*                                                                         *)
(* A database is two tables; a table is one page.  The WAL holds whole     *)
(* pages written since it was last truncated, and hides those of the main  *)
(* file whatever file that is by now: this is how SQLite, whose format     *)
(* turso keeps, reads a WAL.                                               *)
(***************************************************************************)
EXTENDS Naturals

CONSTANTS
    Run, Machine,
    On,            \* On[r]: the machine run r is started on
    PushRetries,   \* cfg.push_retries
    Overlap,       \* whether processes of one machine may overlap
    KilledAt,      \* the points between two operations where a run may be killed
    NetworkFails,  \* whether transfers may fail
    None           \* no main file, or no page in the WAL

Stage == {"idle", "pull", "fetch", "init", "create", "persist", "checkpoint",
          "verify", "push"}
Ended == {"pushed", "pull_failed", "torn", "conflicted", "not_updated", "killed"}

ASSUME StateSyncAssumption ==
    /\ On \in [Run -> Machine] /\ PushRetries \in Nat
    /\ {Overlap, NetworkFails} \subseteq BOOLEAN
    /\ KilledAt \subseteq Stage \ {"idle"}
    /\ None \notin [Run -> Nat] /\ None \notin [Run -> {"absent", "running", "finished"}]

VARIABLES
    remote,    \* the shared object: its generation, 0 if there is none, and contents
    main,      \* main[m]: the local metadata.db, without its WAL
    wal,       \* wal[m]: metadata.db-wal, the pages written since its truncation
    pc,        \* pc[r]: what run r does next, or how it ended
    token,     \* token[r]: the generation r believes it pulled, 0 for None
    attempt    \* attempt[r]: conflicts r has retried after

vars == <<remote, main, wal, pc, token, attempt>>

\* mat[r]: how often the materialization rows of r are there; runs[r]: r's row.
MatTable  == [Run -> Nat]
RunsTable == [Run -> {"absent", "running", "finished"}]
Db        == [mat : MatTable, runs : RunsTable]
EmptyDb   == [mat |-> [r \in Run |-> 0], runs |-> [r \in Run |-> "absent"]]
NoPages   == [mat |-> None, runs |-> None]      \* a missing file, an empty WAL

\* What a connection opened on m's database sees.
View(m) ==
    LET base == IF main[m] = NoPages THEN EmptyDb ELSE main[m]
    IN  [mat  |-> IF wal[m].mat  = None THEN base.mat  ELSE wal[m].mat,
         runs |-> IF wal[m].runs = None THEN base.runs ELSE wal[m].runs]

Busy(m) == \E r \in Run : On[r] = m /\ pc[r] \notin Ended \cup {"idle"}

Goto(r, stage) == pc' = [pc EXCEPT ![r] = stage]

Init ==
    /\ remote = [gen |-> 0, db |-> EmptyDb]
    /\ main = [m \in Machine |-> NoPages]
    /\ wal  = [m \in Machine |-> NoPages]
    /\ pc = [r \in Run |-> "idle"]
    /\ token = [r \in Run |-> 0]
    /\ attempt = [r \in Run |-> 0]

(***************************************************************************)
(* pull_state: the token is read before the download.  Without a remote    *)
(* object the local file stays as it is; the download replaces the main    *)
(* file and leaves the WAL beside it.                                      *)
(***************************************************************************)
\* Mutant: after a conflict the database is not downloaded again.
KeepsLocal(r) ==
    /\ \/ pc[r] = "pull"
       \/ pc[r] = "idle" /\ (Overlap \/ ~Busy(On[r]))
    /\ token' = [token EXCEPT ![r] = remote.gen]
    /\ Goto(r, IF remote.gen = 0 \/ attempt[r] > 0 THEN "init" ELSE "fetch")
    /\ UNCHANGED <<remote, main, wal, attempt>>

\* Mutant: after a conflict the first token is used again.
KeepsToken(r) ==
    /\ \/ pc[r] = "pull" /\ UNCHANGED token
       \/ /\ pc[r] = "idle" /\ (Overlap \/ ~Busy(On[r]))
          /\ token' = [token EXCEPT ![r] = remote.gen]
    /\ Goto(r, IF remote.gen = 0 THEN "init" ELSE "fetch")
    /\ UNCHANGED <<remote, main, wal, attempt>>

ReadToken(r) ==
    /\ \/ pc[r] = "pull"
       \/ pc[r] = "idle" /\ (Overlap \/ ~Busy(On[r]))
    /\ token' = [token EXCEPT ![r] = remote.gen]
    /\ Goto(r, IF remote.gen = 0 THEN "init" ELSE "fetch")
    /\ UNCHANGED <<remote, main, wal, attempt>>

Fetch(r) ==
    /\ pc[r] = "fetch"
    /\ main' = [main EXCEPT ![On[r]] = remote.db]
    /\ Goto(r, "init")
    /\ UNCHANGED <<remote, wal, token, attempt>>

PullFails(r) ==
    /\ NetworkFails /\ pc[r] \in {"pull", "fetch"}
    /\ Goto(r, "pull_failed")
    /\ UNCHANGED <<remote, main, wal, token, attempt>>

\* A dry run pulls too, reads and forgets the token.
DryRun(m) ==
    /\ Overlap \/ ~Busy(m)
    /\ remote.gen # 0
    /\ main' = [main EXCEPT ![m] = remote.db]
    /\ UNCHANGED <<remote, wal, pc, token, attempt>>

\* Mutant: the rows of the run are not replayed on the fresh copy.
ForgetsReplay(r) ==
    /\ pc[r] = "init"
    /\ wal' = IF main[On[r]] = NoPages /\ wal[On[r]] = NoPages
              THEN [wal EXCEPT ![On[r]] = EmptyDb] ELSE wal
    /\ Goto(r, IF attempt[r] = 0 THEN "create" ELSE "checkpoint")
    /\ UNCHANGED <<remote, main, token, attempt>>

\* init_db: a new database gets its schema, an existing one stays as it is.
InitDb(r) ==
    /\ pc[r] = "init"
    /\ wal' = IF main[On[r]] = NoPages /\ wal[On[r]] = NoPages
              THEN [wal EXCEPT ![On[r]] = EmptyDb] ELSE wal
    /\ Goto(r, IF attempt[r] = 0 THEN "create" ELSE "persist")
    /\ UNCHANGED <<remote, main, token, attempt>>

CreateRun(r) ==
    /\ pc[r] = "create"
    /\ wal' = [wal EXCEPT ![On[r]].runs = [View(On[r]).runs EXCEPT ![r] = "running"]]
    /\ Goto(r, "persist")
    /\ UNCHANGED <<remote, main, token, attempt>>

\* persist_run, when the steps are over or on a fresh copy after a conflict: the
\* row of the run is inserted if absent and closed, its materializations appended.
Persist(r) ==
    /\ pc[r] = "persist"
    /\ LET db == View(On[r])
       IN  wal' = [wal EXCEPT ![On[r]] =
                     [mat  |-> [db.mat  EXCEPT ![r] = @ + 1],
                      runs |-> [db.runs EXCEPT ![r] = "finished"]]]
    /\ Goto(r, "checkpoint")
    /\ UNCHANGED <<remote, main, token, attempt>>

\* checkpoint_truncate, and then, no longer under the lock, its look at the WAL.
Checkpoint(r) ==
    /\ pc[r] = "checkpoint"
    /\ main' = [main EXCEPT ![On[r]] = View(On[r])]
    /\ wal'  = [wal EXCEPT ![On[r]] = NoPages]
    /\ Goto(r, "verify")
    /\ UNCHANGED <<remote, token, attempt>>

Verify(r) ==
    /\ pc[r] = "verify"
    /\ Goto(r, IF wal[On[r]] = NoPages THEN "push" ELSE "torn")
    /\ UNCHANGED <<remote, main, wal, token, attempt>>

(***************************************************************************)
(* push_state: the main file alone is uploaded if the remote object is     *)
(* still the one of the token (None: if there is still none).              *)
(***************************************************************************)
Upload(r) ==
    /\ pc[r] = "push" /\ token[r] = remote.gen
    /\ remote' = [gen |-> remote.gen + 1, db |-> main[On[r]]]
    /\ UNCHANGED <<main, wal, token, attempt>>

Pushed(r) == Upload(r) /\ Goto(r, "pushed")

\* The object is replaced and the answer, or the token read after it, fails.
AnswerFails(r) == NetworkFails /\ Upload(r) /\ Goto(r, "not_updated")

PushFails(r) ==
    /\ NetworkFails /\ pc[r] = "push"
    /\ Goto(r, "not_updated")
    /\ UNCHANGED <<remote, main, wal, token, attempt>>

\* Mutant: the push is tried again as it is, and not counted.
RetriesBlindly(r) ==
    /\ pc[r] = "push" /\ token[r] # remote.gen
    /\ Goto(r, "checkpoint")
    /\ UNCHANGED <<remote, main, wal, token, attempt>>

Conflict(r) ==
    /\ pc[r] = "push" /\ token[r] # remote.gen
    /\ \/ /\ attempt[r] >= PushRetries
          /\ Goto(r, "conflicted") /\ UNCHANGED attempt
       \/ /\ attempt[r] < PushRetries
          /\ Goto(r, "pull") /\ attempt' = [attempt EXCEPT ![r] = @ + 1]
    /\ UNCHANGED <<remote, main, wal, token>>

\* The process is killed, or leaves execute() by one of its early errors.
Killed(r) ==
    /\ pc[r] \in KilledAt
    /\ Goto(r, "killed")
    /\ UNCHANGED <<remote, main, wal, token, attempt>>

Transfer(r) == \/ ReadToken(r) \/ Fetch(r) \/ PullFails(r)
               \/ Pushed(r) \/ AnswerFails(r) \/ PushFails(r) \/ Conflict(r)
Local(r)    == InitDb(r) \/ CreateRun(r) \/ Persist(r) \/ Checkpoint(r) \/ Verify(r)

Next == \/ \E r \in Run : Transfer(r) \/ Local(r) \/ Killed(r)
        \/ \E m \in Machine : DryRun(m)

Spec     == Init /\ [][Next]_vars
FairSpec == Spec /\ \A r \in Run : WF_vars(Transfer(r) \/ Local(r))

-----------------------------------------------------------------------------
TypeOK ==
    /\ remote \in [gen : Nat, db : Db]
    /\ main \in [Machine -> Db \cup {NoPages}]
    /\ wal \in [Machine -> [mat  : MatTable \cup {None},
                            runs : RunsTable \cup {None}]]
    /\ pc \in [Run -> Stage \cup Ended]
    /\ token \in [Run -> Nat] /\ attempt \in [Run -> 0 .. PushRetries]

Shares(r) == remote.db.mat[r] > 0 /\ remote.db.runs[r] = "finished"

\* Runs on different machines share their rows as module SharedLedger promises:
\* push with compare-and-swap and replay lose nothing that was ever uploaded, and
\* a run that ends well is in it (remote-storage.md:50-55).
Ledger == INSTANCE SharedLedger WITH
    shared <- {r \in Run : Shares(r)},
    told   <- [r \in Run |-> IF pc[r] = "pushed" THEN "ok"
                             ELSE IF pc[r] \in Ended THEN "error" ELSE "pending"]
ImplementsLedger == Ledger!Spec

\* persist_run appends its rows again after a conflict only to a database that
\* does not hold them yet, so no run is ever counted twice (commands.rs:2364-2367).
RecordedOnce == \A r \in Run : remote.db.mat[r] <= 1

\* Each conflict a run meets is paid for by another successful push since it last
\* read the token: with as many retries as there are rivals no run gives up.
ConflictsPaidFor ==
    \A r \in Run : attempt[r] + (IF pc[r] = "conflicted" THEN 1 ELSE 0) <= remote.gen

\* However the pushes of the runs interleave, the retry loop of each ends.
EveryRunEnds == \A r \in Run : pc[r] # "idle" ~> pc[r] \in Ended

\* A run that was told its push succeeded has its rows in the shared database.
PushedIsShared == \A r \in Run : pc[r] = "pushed" => Shares(r)

\* No push removes rows that the shared database already holds.
NothingDropped == [][\A r \in Run : remote'.db.mat[r] >= remote.db.mat[r]]_vars

\* A run that was told that the shared state was not updated is not in it.
ErrorMeansNotShared ==
    \A r \in Run : pc[r] \in {"not_updated", "conflicted"} => ~Shares(r)
=============================================================================
