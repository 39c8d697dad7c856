----------------------------- MODULE WorkerPool -----------------------------
(***************************************************************************)
(* One phase driven by the I/O loop (crates/barca-core/src/io_loop.rs)     *)
(* over a pool of Python worker processes (python/barca/_worker.py): the   *)
(* loop handles one event at a time and then runs resume_frozen and        *)
(* assign_ready, which await, so worker processes move between their       *)
(* iterations; `pc` says where the loop is.                                *)
(*                                                                         *)
(* Each worker's socket and I/O task are a FIFO, out[w]; the shared event  *)
(* channel merges them in any order.  Ids, timings and progress reports are*)
(* left out.  Of the cost model there is the size of a pull; what it takes *)
(* a step to cost may be any estimate, at any pull.                        *)
(***************************************************************************)
EXTENDS Coordinator, SequencesExt

CONSTANTS
    PoolSize,        \* config.pool_size
    Calls,           \* Calls[i]: the widths of the parallel() calls item i makes
    MaxWorkers,      \* bound: worker ids the loop may hand out
    Estimates,       \* what the cost model may estimate a step to take, in ms
    MaxCrashes,      \* bound: worker processes that die by themselves, connected or not
    MaxErrors,       \* bound: attempts whose user code raises or times out
    WaitingMayDie,   \* whether a process blocked in parallel() may be among them
    LateTimeouts,    \* whether a timeout may hit between the send and the
                     \* receive of a parallel() call
    SpawnMayFail,    \* whether spawn_worker may return an error
    MayCancel        \* whether the run's token may be cancelled

WorkerId == 0 .. MaxWorkers - 1

ASSUME WorkerPoolAssumption ==
    /\ PoolSize \in Nat /\ MaxWorkers \in Nat /\ Estimates \subseteq Nat \ {0}
    /\ Calls \in [ItemId -> Seq(1 .. MaxWidth)]
    /\ MaxCrashes \in Nat /\ MaxErrors \in Nat
    /\ {WaitingMayDie, LateTimeouts, SpawnMayFail, MayCancel} \subseteq BOOLEAN

VARIABLES
    pc,        \* the loop: "select", "resume", "assign", or how the phase ended
    workers,   \* the `workers` map: active worker id -> its leases, in order
    frozen,    \* the `frozen` vector
    next_worker_id,
    proc,      \* the worker processes
    out,       \* out[w]: messages of w's I/O task not yet handled by the loop
    started,   \* items some process has begun to execute (for the properties)
    crashes, errors

poolVars == <<co, pc, workers, frozen, next_worker_id, proc, out, started,
              crashes, errors>>

(***************************************************************************)
(* Processes.  `batch` is what is left of the batch the process works on;  *)
(* its head is the step it executes while "running", or while "waiting"    *)
(* for the answer to a parallel() call.  `inbox` holds the execute messages*)
(* it has not read, `calls` counts the calls of the current attempt,       *)
(* `answer` is a ParallelResponse in its socket, `killed` that             *)
(* graceful_kill is under way.  `kept` is a history variable: the steps    *)
(* that went back to the queue when the process was stopped, while it had  *)
(* them in hand; nothing tells it to drop them.                            *)
(***************************************************************************)
NoProc == [state |-> "none", batch |-> << >>, inbox |-> << >>, calls |-> 0,
           answer |-> FALSE, stopped |-> FALSE, killed |-> FALSE, kept |-> {}]
Dead   == [NoProc EXCEPT !.state = "dead"]

Alive(w)  == proc[w].state \in {"idle", "running", "waiting"}
Moving(w) == Alive(w) /\ ~proc[w].stopped /\ ~proc[w].killed

Emit(w, kind, arg) == out' = [out EXCEPT ![w] = Append(@, [kind |-> kind, arg |-> arg])]

PoolInit ==
    /\ Init
    /\ pc = "assign"
    /\ workers = << >> /\ frozen = << >> /\ next_worker_id = 0
    /\ proc = [w \in WorkerId |-> NoProc]
    /\ out = [w \in WorkerId |-> << >>]
    /\ started = {} /\ crashes = 0 /\ errors = 0

loopVars == <<co, pc, workers, frozen, next_worker_id>>

\* run_daemon goes on with its batch, or reads the next one.
StartStep(w) ==
    /\ Moving(w) /\ proc[w].state = "idle"
    /\ IF proc[w].batch # << >>
       THEN /\ proc' = [proc EXCEPT ![w].state = "running", ![w].calls = 0]
            /\ started' = started \cup {Head(proc[w].batch)}
       ELSE /\ proc[w].inbox # << >>
            /\ proc' = [proc EXCEPT ![w].state = "running", ![w].calls = 0,
                                    ![w].batch = Head(proc[w].inbox),
                                    ![w].inbox = Tail(@)]
            /\ started' = started \cup {Head(Head(proc[w].inbox))}
    /\ UNCHANGED <<loopVars, out, crashes, errors>>

\* The step returns and its artifact is written: step_completed.
FinishStep(w) ==
    /\ Moving(w) /\ proc[w].state = "running"
    /\ Emit(w, "completed", Head(proc[w].batch))
    /\ proc' = [proc EXCEPT ![w].state = "idle", ![w].batch = Tail(@)]
    /\ UNCHANGED <<loopVars, started, crashes, errors>>

\* The step raises or runs past its timeout: step_error, and the rest of the
\* batch is dropped.  The clock runs on while a process waits or is stopped,
\* but the waiting thread holds the socket's lock: the error leaves when the
\* answer has come, or in the moment between the call's send and its receive.
ErrStep(w) ==
    /\ Moving(w)
    /\ \/ proc[w].state = "running"
       \/ proc[w].state = "waiting" /\ (proc[w].answer \/ LateTimeouts)
    /\ errors < MaxErrors
    /\ Emit(w, "error", Head(proc[w].batch))
    /\ proc' = [proc EXCEPT ![w].state = "idle", ![w].batch = << >>, ![w].answer = FALSE]
    /\ errors' = errors + 1
    /\ UNCHANGED <<loopVars, started, crashes>>

\* submit_and_wait sends the step's next parallel() call ...
SubmitCall(w) ==
    LET i == Head(proc[w].batch)
        n == proc[w].calls + 1
    IN /\ Moving(w) /\ proc[w].state = "running"
       /\ n <= Len(Calls[i])
       /\ co.next_item_id + Calls[i][n] <= MaxItems
       /\ Emit(w, "submit", Calls[i][n])
       /\ proc' = [proc EXCEPT ![w].state = "waiting", ![w].calls = n]
       /\ UNCHANGED <<loopVars, started, crashes, errors>>

\* ... and goes on when the response arrives.
ReceiveAnswer(w) ==
    /\ Moving(w) /\ proc[w].state = "waiting" /\ proc[w].answer
    /\ proc' = [proc EXCEPT ![w].state = "running", ![w].answer = FALSE]
    /\ UNCHANGED <<loopVars, out, started, crashes, errors>>

\* A process dies; its I/O task reads the end of the stream.
Crash(w) ==
    /\ Alive(w) /\ ~proc[w].killed
    /\ proc[w].state = "waiting" /\ ~proc[w].answer => WaitingMayDie
    /\ crashes < MaxCrashes
    /\ proc' = [proc EXCEPT ![w] = Dead]
    /\ Emit(w, "disconnected", 0)
    /\ crashes' = crashes + 1
    /\ UNCHANGED <<loopVars, started, errors>>

\* The blocking task of graceful_kill is done with a worker.  Its I/O task saw
\* the stream end, or before that its command channel close.
Reap(w) ==
    /\ Alive(w) /\ proc[w].killed
    /\ proc' = [proc EXCEPT ![w] = Dead]
    /\ Emit(w, "disconnected", 0) \/ UNCHANGED out
    /\ UNCHANGED <<loopVars, started, crashes, errors>>

ProcStep(w) ==
    StartStep(w) \/ FinishStep(w) \/ ErrStep(w) \/ SubmitCall(w)
        \/ ReceiveAnswer(w) \/ Reap(w)

(***************************************************************************)
(* The event handlers.  Each runs when the loop selects: the phase is not  *)
(* finished and it has not given up for want of workers.                   *)
(***************************************************************************)
NoWorkers == DOMAIN workers = {} /\ frozen = << >> /\ co.ready # << >>

Selecting == pc = "select" /\ ~IsFinished(co) /\ ~NoWorkers

Without(f, w) == [x \in DOMAIN f \ {w} |-> f[x]]
With(f, w, v) == [x \in DOMAIN f \cup {w} |-> IF x = w THEN v ELSE f[x]]

\* take_lease finds the item among w's leases.
HasLease(w, i) == w \in DOMAIN workers /\ i \in Range(workers[w])

Received(w, kind) ==
    /\ Selecting
    /\ out[w] # << >> /\ Head(out[w]).kind = kind
    /\ out' = [out EXCEPT ![w] = Tail(@)]

StepCompleted(w) ==
    LET i == Head(out[w]).arg
    IN /\ Received(w, "completed")
       /\ IF HasLease(w, i)
          THEN /\ workers' = [workers EXCEPT ![w] = RemoveFirst(@, i)]
               /\ \E order \in ReleaseOrders(co, i, {}) :
                    co' = OnItemCompleted(co, i, order)
               /\ pc' = "resume"
          ELSE UNCHANGED <<workers, co, pc>>
       /\ UNCHANGED <<frozen, next_worker_id, proc, started, crashes, errors>>

\* The item fails, the rest of the leases go back, the worker is killed in
\* the background.
StepError(w) ==
    LET i == Head(out[w]).arg
    IN /\ Received(w, "error")
       /\ IF HasLease(w, i)
          THEN /\ \E order \in FailureOrders(co, i) :
                    co' = ReturnLeases(OnItemFailed(co, i, order),
                                       RemoveFirst(workers[w], i))
               /\ workers' = Without(workers, w)
               /\ proc' = [proc EXCEPT ![w].killed = Alive(w)]
               /\ pc' = "resume"
          ELSE UNCHANGED <<workers, co, pc, proc>>
       /\ UNCHANGED <<frozen, next_worker_id, started, crashes, errors>>

\* spawn_worker returns an error: the child died or did not connect in time.
SpawnFails == SpawnMayFail /\ crashes < MaxCrashes /\ crashes' = crashes + 1

\* A process is stopped with the rest of its batch, if it has one, in hand.
Halted(w, rest) == [proc[w] EXCEPT !.stopped = Alive(w), !.kept = @ \cup Range(rest)]

\* The front lease becomes the parent of a group: the worker is stopped and
\* replaced, its other leases go back, though its process still has them.
Submit(w) ==
    LET n == Head(out[w]).arg
        r == next_worker_id
    IN /\ Received(w, "submit")
       /\ IF w \in DOMAIN workers /\ workers[w] # << >>
          THEN /\ r \in WorkerId /\ co.next_item_id + n <= MaxItems
               /\ LET parent == Head(workers[w])
                      rest   == Tail(workers[w])
                      active == Without(workers, w)
                      halted == [proc EXCEPT ![w] = Halted(w, rest)]
                  IN /\ co' = ReturnLeases(OnParallelRequested(co, parent, n), rest)
                     /\ frozen' = Append(frozen,
                                    [worker |-> w, parent |-> parent,
                                     group |-> Len(co.groups) + 1, replacement |-> r])
                     /\ \/ /\ workers' = With(active, r, << >>)
                           /\ proc' = [halted EXCEPT ![r].state = "idle"]
                           /\ UNCHANGED crashes
                        \/ /\ SpawnFails
                           /\ workers' = active
                           /\ proc' = halted
               /\ next_worker_id' = r + 1
               /\ pc' = "assign"
          ELSE UNCHANGED <<co, frozen, workers, proc, next_worker_id, pc, crashes>>
       /\ UNCHANGED <<started, errors>>

\* An active worker died: its front lease failed, the others go back.
Disconnected(w) ==
    /\ Received(w, "disconnected")
    /\ IF w \in DOMAIN workers
       THEN /\ IF workers[w] = << >>
               THEN co' = co
               ELSE LET i == Head(workers[w])
                    IN \E order \in FailureOrders(co, i) :
                         co' = ReturnLeases(OnItemFailed(co, i, order), Tail(workers[w]))
            /\ workers' = Without(workers, w)
       ELSE UNCHANGED <<co, workers>>
    /\ pc' = "resume"
    /\ UNCHANGED <<frozen, next_worker_id, proc, started, crashes, errors>>

\* The timer of schedule_retry fired, at any time after the failure.
RetryReady(i) ==
    /\ Selecting
    /\ i \in co.waiting_retry
    /\ co' = RequeueItem(co, i)
    /\ pc' = "assign"
    /\ UNCHANGED <<workers, frozen, next_worker_id, proc, out, started, crashes, errors>>

Handle(w) ==
    StepCompleted(w) \/ StepError(w) \/ Submit(w) \/ Disconnected(w)

(***************************************************************************)
(* resume_frozen, one frozen worker at a time: the replacement is killed   *)
(* and its leases go back, the process is continued and answered, and it   *)
(* is an active worker again that holds its parent.                        *)
(***************************************************************************)
Resumable == { k \in DOMAIN frozen : IsGroupComplete(co, frozen[k].group) }

SwapRemove(s, k) ==
    [j \in 1 .. Len(s) - 1 |-> IF j = k THEN s[Len(s)] ELSE s[j]]

\* Mutant: the steps the replacement held are forgotten.
ForgetReplacement(c, leases) == c

\* The kill of a replacement: its front lease is returned before the others.
ReturnReplacement(c, leases) ==
    IF leases = << >> THEN c
    ELSE ReturnLeases(ReturnLeases(c, <<Head(leases)>>), Tail(leases))

\* Mutant: the replacement is dropped from the pool and left to run.
LeftRunning(p) == p

\* The process of a replacement that is killed.
Discarded(p) == Dead

\* Mutant: the process is continued but not answered.
ContinuedOnly(p) == [p EXCEPT !.stopped = FALSE]

Continued(p) == [p EXCEPT !.stopped = FALSE, !.answer = p.state = "waiting"]

ResumeFrozen ==
    /\ pc = "resume"
    /\ \E k \in Resumable :
         LET fw == frozen[k]
             r  == fw.replacement
         IN /\ \A j \in Resumable : k <= j
            /\ frozen' = SwapRemove(frozen, k)
            /\ workers' = With(Without(workers, r), fw.worker, <<fw.parent>>)
            /\ IF r \in DOMAIN workers
               THEN /\ co' = ReturnReplacement(co, workers[r])
                    /\ proc' = [proc EXCEPT ![r] = Discarded(@),
                                            ![fw.worker] = Continued(@)]
                    /\ Emit(r, "disconnected", 0) \/ UNCHANGED out
               ELSE /\ proc' = [proc EXCEPT ![fw.worker] = Continued(@)]
                    /\ UNCHANGED <<co, out>>
    /\ UNCHANGED <<pc, next_worker_id, started, crashes, errors>>

NothingToResume ==
    /\ pc = "resume" /\ Resumable = {}
    /\ pc' = "assign"
    /\ UNCHANGED <<co, workers, frozen, next_worker_id, proc, out, started,
                   crashes, errors>>

(***************************************************************************)
(* assign_ready: while there is ready work, an idle worker pulls a batch;  *)
(* a worker is spawned when none is idle and the pool is under strength.   *)
(***************************************************************************)
Idle     == { w \in DOMAIN workers : workers[w] = << >> }
Strength == IF PoolSize = 0 THEN 1 ELSE PoolSize

Assigning == pc = "assign" /\ co.ready # << >>

\* batch_size: enough steps of cost est to hide 5 ms of communication in 1 % of
\* their work, but at least three pulls for each worker, and half of what is
\* there when all of it is less than a second.
BatchSize(est, remaining) ==
    LET floor   == (500 + est - 1) \div est
        ceiling == Max({1, remaining \div (3 * Strength)})
        k       == IF floor <= ceiling THEN floor
                   ELSE IF est * remaining < 1000 THEN (remaining + 1) \div 2
                   ELSE ceiling
    IN Min({k, remaining})

\* Whether the first k of the ready steps are within the work budget that the
\* head's estimate gives a batch of n: 1.5 times n heads.
InWorkBudget(est, k, n) ==
    2 * FoldFunctionOnSet(LAMBDA a, b : a + b, 0, est, 1 .. k) <= 3 * n * est[1]

\* How many of the ready steps a pull may lease: it is filled up to the size
\* the head asks for, or until a step goes over the work budget.
PullSizes ==
    LET ready == Len(co.ready)
    IN { k \in 1 .. ready : \E est \in [1 .. ready -> Estimates] :
           LET n == Max({1, BatchSize(est[1], ready)})
           IN /\ k <= n
              /\ \A j \in 2 .. k : InWorkBudget(est, j, n)
              /\ k < n => ~InWorkBudget(est, k + 1, n) }

AssignBatch(w) ==
    /\ Assigning /\ w \in Idle
    /\ \E k \in PullSizes :
         /\ co' = Lease(co, k)
         /\ workers' = [workers EXCEPT ![w] = SubSeq(co.ready, 1, k)]
         /\ proc' = IF Alive(w)
                    THEN [proc EXCEPT ![w].inbox = Append(@, SubSeq(co.ready, 1, k))]
                    ELSE proc
    /\ UNCHANGED <<pc, frozen, next_worker_id, out, started, crashes, errors>>

\* The I/O task of a dead worker is gone: the batch is undone and the worker
\* dropped.
AssignToDead(w) ==
    /\ Assigning /\ w \in Idle /\ ~Alive(w)
    /\ workers' = Without(workers, w)
    /\ UNCHANGED <<co, pc, frozen, next_worker_id, proc, out, started, crashes, errors>>

SpawnWorker ==
    /\ Assigning /\ Idle = {} /\ Cardinality(DOMAIN workers) < Strength
    /\ next_worker_id \in WorkerId
    /\ next_worker_id' = next_worker_id + 1
    /\ \/ /\ workers' = With(workers, next_worker_id, << >>)
          /\ proc' = [proc EXCEPT ![next_worker_id].state = "idle"]
          /\ UNCHANGED <<pc, crashes>>
       \/ /\ SpawnFails
          /\ pc' = "select"
          /\ UNCHANGED <<workers, proc>>
    /\ UNCHANGED <<co, frozen, out, started, errors>>

Assigned ==
    /\ pc = "assign"
    /\ \/ co.ready = << >>
       \/ Idle = {} /\ Cardinality(DOMAIN workers) >= Strength
    /\ pc' = "select"
    /\ UNCHANGED <<co, workers, frozen, next_worker_id, proc, out, started,
                   crashes, errors>>

(***************************************************************************)
(* The ways out of run_phase, and the shutdown that follows the last phase *)
(* or an error: every worker the pool still tracks is killed.              *)
(***************************************************************************)
EndPhase ==
    /\ pc = "select"
    /\ pc' = IF IsFinished(co) THEN "done" ELSE "error"
    /\ IsFinished(co) \/ NoWorkers
    /\ UNCHANGED <<co, workers, frozen, next_worker_id, proc, out, started,
                   crashes, errors>>

Cancel ==
    /\ MayCancel /\ Selecting
    /\ pc' = "cancelled"
    /\ UNCHANGED <<co, workers, frozen, next_worker_id, proc, out, started,
                   crashes, errors>>

FrozenWorkers == { frozen[k].worker : k \in DOMAIN frozen }

\* Mutant: shutdown forgets the workers that are stopped.
ShutdownActive ==
    /\ pc \in {"done", "error", "cancelled"}
    /\ pc' = "down"
    /\ proc' = [w \in WorkerId |-> IF w \in DOMAIN workers THEN Dead ELSE proc[w]]
    /\ UNCHANGED <<co, workers, frozen, next_worker_id, out, started, crashes, errors>>

Shutdown ==
    /\ pc \in {"done", "error", "cancelled"}
    /\ pc' = "down"
    /\ proc' = [w \in WorkerId |->
                   IF w \in DOMAIN workers \cup FrozenWorkers
                   THEN Dead
                   ELSE proc[w]]
    /\ UNCHANGED <<co, workers, frozen, next_worker_id, out, started, crashes, errors>>

Down == pc = "down" /\ UNCHANGED poolVars

LoopStep ==
    \/ ResumeFrozen \/ NothingToResume
    \/ \E w \in WorkerId : AssignBatch(w) \/ AssignToDead(w)
    \/ SpawnWorker \/ Assigned \/ EndPhase \/ Shutdown

PoolNext ==
    \/ LoopStep \/ Cancel \/ Down
    \/ \E w \in WorkerId : ProcStep(w) \/ Crash(w) \/ Handle(w)
    \/ \E i \in PhaseItem : RetryReady(i)

PoolSpec == PoolInit /\ [][PoolNext]_poolVars

(***************************************************************************)
(* Fairness: the loop is one task that runs whenever it can; while it      *)
(* selects, some event that is there is handled; some process that is      *)
(* neither stopped nor dead gets on, and its user code returns, raises or  *)
(* is cut off by its timeout; timers fire.  Every activity is bounded (by  *)
(* the retry budgets), so these weak forms suffice.  Crashes, errors and   *)
(* cancellation are never required.                                        *)
(***************************************************************************)
PoolFairness ==
    /\ WF_poolVars(LoopStep)
    /\ WF_poolVars(\E w \in WorkerId : Handle(w))
    /\ WF_poolVars(\E w \in WorkerId : ProcStep(w))
    /\ WF_poolVars(\E i \in PhaseItem : RetryReady(i))

FairPoolSpec == PoolSpec /\ PoolFairness

-----------------------------------------------------------------------------
(***************************************************************************)
(* Properties.                                                             *)
(***************************************************************************)
Message == [kind : {"completed", "error", "submit", "disconnected"}, arg : Nat]
Process == [state   : {"none", "idle", "running", "waiting", "dead"},
            batch   : Seq(ItemId), inbox : Seq(Seq(ItemId)), calls : Nat,
            answer  : BOOLEAN, stopped : BOOLEAN, killed : BOOLEAN,
            kept    : SUBSET ItemId]
Frozen  == [worker : WorkerId, parent : ItemId, group : Nat, replacement : WorkerId]

Leased(w) == Range(workers[w])
Held(w)   == Range(proc[w].batch) \cup UNION { Range(b) : b \in Range(proc[w].inbox) }
Parents   == { frozen[k].parent : k \in DOMAIN frozen }

\* The two books agree: what the coordinator counts as executing is leased by
\* exactly one active worker, and a worker holds nothing else but, alone, the
\* resumed parent of its group (take_lease, return_leases, assign_ready,
\* resume_frozen).
LeasesMatchExecuting ==
    /\ \A i \in co.executing :
         \E w \in DOMAIN workers :
            i \in Leased(w) /\ \A v \in DOMAIN workers \ {w} : i \notin Leased(v)
    /\ \A w \in DOMAIN workers :
         Leased(w) \subseteq co.executing \/ \E i \in Resumed(co) : workers[w] = <<i>>

\* No step is lost between the books, the step accounting invariant of
\* architecture-decisions.md: an unresolved step waits for its inputs or its
\* backoff, is queued, leased, or blocked in parallel() in a stopped worker.
InBooks(i) ==
    \/ i \in Queued(co) \cup co.waiting_retry \cup Parents
    \/ \E w \in DOMAIN workers : i \in Leased(w)

NothingLost == \A i \in Items(co) \ Terminal(co) : InBooks(i)

\* The processes that go on, and what each has in hand by the loop's orders:
\* all but the steps that were taken back from it while it was stopped.
Lives(w)   == Alive(w) /\ ~proc[w].killed
Ordered(w) == Held(w) \ proc[w].kept

\* Whatever workers fail, die, stop and are replaced, and whatever stale
\* messages and stale steps they come up with, a step is in the hands of one
\* process at a time and queued again in none, but for the steps that
\* return_leases takes back from a batch whose worker stops in parallel().
OneLiveExecution ==
    \A w \in WorkerId : Lives(w) =>
        /\ \A v \in WorkerId \ {w} : Lives(v) => Ordered(w) \cap Ordered(v) = {}
        /\ Ordered(w) \cap Range(co.ready) = {}

\* The doc's account of a batch: what a worker had not begun goes back, and no
\* step is run by two processes (test_adaptive_executor.py).
NeverDoubleRun ==
    \A v, w \in WorkerId :
        v # w /\ Lives(v) /\ Lives(w) /\ proc[v].state = "running" /\ proc[w].state = "running"
            => Head(proc[v].batch) # Head(proc[w].batch)

\* A parent sees the answer of its parallel() call only when every branch has
\* ended, and stays stopped until then.  A process from which steps were taken
\* back may work on one the loop does not have it down for, and call parallel()
\* from it.
AnsweredWhenComplete ==
    \A w \in WorkerId : proc[w].answer /\ proc[w].kept = {} =>
        /\ ~proc[w].stopped /\ w \in DOMAIN workers /\ workers[w] # << >>
        /\ \A g \in DOMAIN co.groups :
             co.groups[g].parent = Head(workers[w]) =>
                co.groups[g].items \subseteq co.done \cup co.failed

\* No orphans: a live process is one the pool tracks, active or frozen, or is
\* being killed; so nothing survives a shutdown.
EveryProcessTracked ==
    \A w \in WorkerId : Alive(w) /\ ~proc[w].killed =>
        pc # "down" /\ w \in DOMAIN workers \cup FrozenWorkers

\* The lease a worker is lost over: the one it reports to have failed, else its
\* front one.
LostOver(w) ==
    IF Head(out[w]).kind = "error" THEN Head(out[w]).arg ELSE Head(workers[w])

\* When a worker fails, dies or is stopped, that lease is the only one charged:
\* the others are at the front of the queue again, in order, each with the
\* attempt of this dispatch given back.
UnstartedUncharged ==
    [][ \A w \in DOMAIN workers \ DOMAIN workers' :
          LET rest == RemoveFirst(workers[w], LostOver(w))
          IN pc = "select" /\ workers[w] # << >> =>
                /\ SubSeq(co'.ready, 1, Len(rest)) = rest
                /\ \A i \in Range(rest) : co'.attempts[i] = co.attempts[i] - 1 ]_poolVars

\* Every step reaches a terminal state and the phase returns
\* (architecture-decisions.md, the step accounting invariant).
EveryStepTerminal == <>(IsFinished(co) /\ pc = "down")

\* The phase returns, be it with an error: the loop's own account of what it
\* does when workers cannot be spawned.
PhaseEnds == <>(pc = "down")

\* The doc's account of parallel(): the active pool stays within pool_size
\* (architecture-decisions.md).
PoolWithinStrength == Cardinality(DOMAIN workers) <= Strength

\* Where several steps call parallel(), resume_frozen may kill a replacement that
\* had itself been stopped, continued, and holds the parent of its own group: that
\* is the only step by which one gets lost.
LostOnlyByKill ==
    [][ \A i \in Items(co') \ Terminal(co') : ~InBooks(i)' =>
          \/ i \in Items(co) \ Terminal(co) /\ ~InBooks(i)
          \/ /\ pc = "resume" /\ i \in Resumed(co)
             /\ \E k \in DOMAIN frozen :
                  LET r == frozen[k].replacement
                  IN r \in DOMAIN workers \ DOMAIN workers' /\ workers[r] = <<i>> ]_poolVars

\* An attempt is charged to a step only if some process began it: with one
\* attempt, a step that was never begun never fails (coordinator.rs).
NeverStartedNeverFails == co.failed \subseteq started
=============================================================================
