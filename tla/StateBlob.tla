------------------------------ MODULE StateBlob ------------------------------
(***************************************************************************)
(* The transfers of the shared metadata database, python/barca/_state.py,  *)
(* call by call, for the four kinds of store: a shared directory ("file"), *)
(* Google Cloud Storage ("gcs"), Azure ("abfs") and S3 ("s3").  The Rust   *)
(* coordinator starts each transfer as a process of its own, pulls before  *)
(* it pushes and pulls again after a conflict.                             *)
(*                                                                         *)
(* The database is the set of runs whose rows it holds; every run that     *)
(* pushes adds its own, so contents never recur.  A store is known by what *)
(* its conditional requests do; which exception an SDK raises for a        *)
(* refused one matters, since push() sorts exceptions by name and text.    *)
(***************************************************************************)
EXTENDS Naturals

CONSTANTS
    Client,      \* the coordinators that share the object
    Backends,    \* the stores considered: a behaviour has one of them
    MaxRuns,     \* bound: runs that push
    Resends,     \* the stores whose SDK sends a put again when its answer is lost
    Says,        \* what the text of an unrelated error may hold, of ConflictTexts
    None,        \* no object, hence no token; no holder of the lock
    Unread       \* nothing was pulled

Store         == {"file", "gcs", "abfs", "s3"}
ConflictNames == {"FileExistsError", "ResourceModifiedError", "ResourceExistsError",
                  "PreconditionFailed"}
ConflictTexts == {"PreconditionFailed", "ConditionNotMet", "412",
                  "At least one of the pre-conditions you specified did not hold"}

ASSUME StateBlobAssumption ==
    /\ Backends \subseteq Store /\ Resends \subseteq Store \ {"file"}
    /\ MaxRuns \in Nat /\ Says \subseteq SUBSET ConflictTexts
    /\ None \notin Client

VARIABLES
    backend,   \* the store of this behaviour
    blob,      \* the object: the runs in it, none if it does not exist, and its generation
    lock,      \* who holds the lock file beside a "file" object
    local,     \* local[c]: the runs in c's metadata.db
    temp,      \* temp[c]: the staged copy of a transfer
    pc,        \* pc[c]: the next call of c's transfer, "rest" if it has none
    verb,      \* verb[c]: what the transfer of c is, "pull" or "push"
    token,     \* token[c]: the token of c's last pull
    run,       \* run[c]: the run c adds, 0 before it starts
    started,   \* how many runs were started
    told,      \* told[c]: how c's last transfer ended
    base       \* base[c]: what c's last pull downloaded (history)

vars == <<backend, blob, lock, local, temp, pc, verb, token, run, started, told, base>>

Sha256(data) == [sha256 |-> data]

\* The token of an object: the hash of its bytes, also on S3, whose etag is one;
\* an etag or generation of its own for every put on the others.
RemoteToken(b) == IF b.data = {} THEN None
                  ELSE IF backend \in {"file", "s3"} THEN Sha256(b.data) ELSE b.gen

Stored(data) == [data |-> data, gen |-> blob.gen + 1]

Init ==
    /\ backend \in Backends
    /\ blob = [data |-> {}, gen |-> 0]
    /\ lock = None
    /\ local = [c \in Client |-> {}] /\ temp = [c \in Client |-> {}]
    /\ pc    = [c \in Client |-> "rest"] /\ verb = [c \in Client |-> "pull"]
    /\ token = [c \in Client |-> None]
    /\ run   = [c \in Client |-> 0] /\ started = 0
    /\ told  = [c \in Client |-> "error"] /\ base = [c \in Client |-> Unread]

Goto(c, stage) == pc' = [pc EXCEPT ![c] = stage]

\* The end of a transfer, however it is reached: the staged copy is renamed or
\* unlinked, the lock released.
End(c, answer) ==
    /\ Goto(c, "rest")
    /\ told' = [told EXCEPT ![c] = answer]
    /\ temp' = [temp EXCEPT ![c] = {}]
    /\ lock' = IF lock = c THEN None ELSE lock

(***************************************************************************)
(* The coordinator: execute() in commands.rs.                              *)
(***************************************************************************)
\* A new run, or the same one after a conflict.
StartPull(c) ==
    /\ pc[c] = "rest"
    /\ Goto(c, IF backend = "file" THEN "flock" ELSE "token")
    /\ verb' = [verb EXCEPT ![c] = "pull"]
    /\ told' = [told EXCEPT ![c] = "pending"]
    /\ base' = [base EXCEPT ![c] = Unread]
    /\ token' = [token EXCEPT ![c] = None]
    /\ run'  = [run EXCEPT ![c] = IF told[c] = "conflict" THEN @ ELSE 0]
    /\ UNCHANGED <<backend, blob, lock, local, temp, started>>

\* The run writes its rows to the local database and pushes it.
StartPush(c) ==
    /\ pc[c] = "rest" /\ told[c] = "pulled"
    /\ \/ run[c] # 0 /\ UNCHANGED <<run, started>>
       \/ /\ run[c] = 0 /\ started < MaxRuns
          /\ started' = started + 1
          /\ run' = [run EXCEPT ![c] = started + 1]
    /\ local' = [local EXCEPT ![c] = @ \cup {run'[c]}]
    /\ Goto(c, IF backend = "file" THEN "flock" ELSE "put")
    /\ verb' = [verb EXCEPT ![c] = "push"]
    /\ told' = [told EXCEPT ![c] = "pending"]
    /\ UNCHANGED <<backend, blob, lock, temp, token, base>>

\* _file_lock: both directions of the "file" store hold it throughout.
Flock(c) ==
    /\ pc[c] = "flock" /\ lock = None
    /\ lock' = c
    /\ Goto(c, IF verb[c] = "pull" THEN "token" ELSE "compare")
    /\ UNCHANGED <<backend, blob, local, temp, verb, token, run, started, told, base>>

(***************************************************************************)
(* pull: the token first, then the bytes into a staged copy that replaces  *)
(* the local file.  Without an object the local file is left alone.        *)
(***************************************************************************)
PullsNothing(c) ==
    /\ pc[c] = "token" /\ blob.data = {}
    /\ token' = [token EXCEPT ![c] = None]
    /\ base' = [base EXCEPT ![c] = {}]
    /\ End(c, "pulled")
    /\ UNCHANGED <<backend, blob, local, verb, run, started>>

ReadToken(c) ==
    /\ pc[c] = "token" /\ blob.data # {}
    /\ token' = [token EXCEPT ![c] = RemoteToken(blob)]
    /\ Goto(c, "fetch")
    /\ UNCHANGED <<backend, blob, lock, local, temp, verb, run, started, told, base>>

\* On GCS the download is of the generation whose token was read, and fails if
\* that is gone; the others give what is there by now.
Fetch(c) ==
    /\ pc[c] = "fetch"
    /\ backend = "gcs" => RemoteToken(blob) = token[c]
    /\ temp' = [temp EXCEPT ![c] = blob.data]
    /\ base' = [base EXCEPT ![c] = blob.data]
    /\ Goto(c, "replace")
    /\ UNCHANGED <<backend, blob, lock, local, verb, token, run, started, told>>

\* Mutant: the token is read when the bytes are there.
InstallThenToken(c) ==
    /\ pc[c] = "replace" /\ verb[c] = "pull"
    /\ local' = [local EXCEPT ![c] = temp[c]]
    /\ token' = [token EXCEPT ![c] = RemoteToken(blob)]
    /\ End(c, "pulled")
    /\ UNCHANGED <<backend, blob, verb, run, started, base>>

Install(c) ==
    /\ pc[c] = "replace" /\ verb[c] = "pull"
    /\ local' = [local EXCEPT ![c] = temp[c]]
    /\ End(c, "pulled")
    /\ UNCHANGED <<backend, blob, verb, token, run, started, base>>

(***************************************************************************)
(* push to a directory: under the lock the object is hashed, the local     *)
(* file copied beside it and renamed over it, and the object hashed again. *)
(***************************************************************************)
Compare(c) ==
    /\ pc[c] = "compare"
    /\ \/ RemoteToken(blob) # token[c] /\ End(c, "conflict")
       \/ RemoteToken(blob) = token[c] /\ Goto(c, "copy") /\ UNCHANGED <<lock, temp, told>>
    /\ UNCHANGED <<backend, blob, local, verb, token, run, started, base>>

Copy(c) ==
    /\ pc[c] = "copy"
    /\ temp' = [temp EXCEPT ![c] = local[c]]
    /\ Goto(c, "replace")
    /\ UNCHANGED <<backend, blob, lock, local, verb, token, run, started, told, base>>

Replace(c) ==
    /\ pc[c] = "replace" /\ verb[c] = "push"
    /\ blob' = Stored(temp[c])
    /\ Goto(c, "confirm")
    /\ UNCHANGED <<backend, lock, local, temp, verb, token, run, started, told, base>>

(***************************************************************************)
(* push to an object store: one put that the store refuses unless the      *)
(* token is that of the object (None: unless there is no object).          *)
(***************************************************************************)
IsConflict(error) == error.name \in ConflictNames \/ error.says \cap ConflictTexts # {}

\* The except clause of push(), and main(), which tells a conflict by exit code 3.
Raise(c, error) == End(c, IF IsConflict(error) THEN "conflict" ELSE "error")

\* What an SDK raises for a refused put.  S3 answers a put that met another one
\* in progress with an error that is none of the texts looked for.
Refusals(c) ==
    CASE backend = "gcs"  -> {[name |-> "PreconditionFailed", says |-> {"412"}]}
      [] backend = "abfs" -> {[name |-> IF token[c] = None THEN "FileExistsError"
                                        ELSE "ResourceModifiedError", says |-> {}]}
      [] backend = "s3"   -> {[name |-> "OSError", says |-> {"PreconditionFailed"}],
                              [name |-> "OSError", says |-> {"ConditionalRequestConflict"}]}

Put(c) ==
    /\ pc[c] = "put" /\ token[c] = RemoteToken(blob)
    /\ blob' = Stored(local[c])
    /\ Goto(c, "answer")
    /\ UNCHANGED <<backend, lock, local, temp, verb, token, run, started, told, base>>

\* The answer arrives, or is lost: the SDK sends the put again or raises.
Answered(c) ==
    /\ pc[c] = "answer"
    /\ \/ Goto(c, "confirm") /\ UNCHANGED <<lock, temp, told>>
       \/ backend \in Resends /\ Goto(c, "put") /\ UNCHANGED <<lock, temp, told>>
       \/ \E says \in Says : Raise(c, [name |-> "ReadTimeout", says |-> says])
    /\ UNCHANGED <<backend, blob, local, verb, token, run, started, base>>

Refused(c) ==
    /\ pc[c] = "put" /\ token[c] # RemoteToken(blob)
    /\ \E error \in Refusals(c) : Raise(c, error)
    /\ UNCHANGED <<backend, blob, local, verb, token, run, started, base>>

\* The put is not made: no connection, no credentials, or over the limit of S3.
PutFails(c) ==
    /\ pc[c] = "put"
    /\ \E says \in Says : Raise(c, [name |-> "RuntimeError", says |-> says])
    /\ UNCHANGED <<backend, blob, local, verb, token, run, started, base>>

\* The token of the object is read once more, by now perhaps another client's.
\* The coordinator does not use it.
Confirm(c) ==
    /\ pc[c] = "confirm"
    /\ End(c, "ok")
    /\ UNCHANGED <<backend, blob, local, verb, token, run, started, base>>

\* Any other call fails, or the process is killed: the kernel then releases the
\* lock, and the staged copy stays behind under a name that nothing reads.
Fails(c) ==
    /\ pc[c] \notin {"rest", "put", "answer"}
    /\ End(c, "error")
    /\ UNCHANGED <<backend, blob, local, verb, token, run, started, base>>

Pull(c) == PullsNothing(c) \/ ReadToken(c) \/ Fetch(c) \/ Install(c)
Push(c) == \/ Compare(c) \/ Copy(c) \/ Replace(c)
           \/ Put(c) \/ Answered(c) \/ Refused(c) \/ PutFails(c) \/ Confirm(c)

Next == \E c \in Client : StartPull(c) \/ StartPush(c) \/ Flock(c) \/ Pull(c) \/ Push(c) \/ Fails(c)

Spec == Init /\ [][Next]_vars

-----------------------------------------------------------------------------
\* Whatever the store, the object is a register with compare-and-swap: a push
\* replaces exactly what its client pulled, whether it replaced the object between
\* the token and the download or not, so no update is lost, and a conflict is told
\* only to a client whose rows are not in the object (_state.py:10-19).
Register == INSTANCE CasRegister WITH
    value <- blob.data,
    seen  <- base,
    wrote <- {c \in Client : run[c] \in blob.data},
    told  <- [c \in Client |-> IF told[c] = "pulled" THEN "pending" ELSE told[c]]
ImplementsRegister == Register!Spec
=============================================================================
