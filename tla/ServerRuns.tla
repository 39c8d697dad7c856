----------------------------- MODULE ServerRuns -----------------------------
(***************************************************************************)
(* The runs of `barca serve` (crates/barca-server): a request or the cron  *)
(* scheduler starts a run, its task waits for one of the run slots, runs   *)
(* the command and writes the outcome; a client cancels it or waits for    *)
(* it, the deadline of a run and the shutdown of the server cancel it too, *)
(* and finished runs are swept.  Runs live in memory and die with the      *)
(* server; when a job last fired is kept in the database, for the one      *)
(* catch-up run of a job whose tick passed while the server was down.      *)
(***************************************************************************)
EXTENDS Naturals, Sequences, FiniteSets

CONSTANTS
    Jobs,         \* the scheduled nodes
    Due,          \* Due[j]: the seconds that match the cron of j
    Slots,        \* run_slots: how many runs execute at a time
    PromptTicks,  \* the scheduler is done with a second before the next begins
    None,
    MaxRuns,      \* bound: runs started
    MaxPosts,     \* bound: those of them a client started
    MaxStarts,    \* bound: starts of the server
    Horizon       \* bound: the last second

ASSUME SlotsAssumption == Slots \in Nat \ {0}
ASSUME JobsAssumption  == None \notin Jobs \cup Nat /\ Due \in [Jobs -> SUBSET Nat]
ASSUME BoundsAssumption ==
    MaxRuns \in Nat /\ MaxPosts \in Nat /\ MaxStarts \in Nat /\ Horizon \in Nat

Handle   == 1 .. MaxRuns
Shutdown == 0          \* the shutdown's own place among those who wait for slots

VARIABLES
    server,     \* "up", "stopping" (Ctrl-C) or "down"
    starts,     \* how often the server was started
    issued,     \* handles given out so far
    runs,       \* AppState.runs: the status of a run, "none" without a record;
                \* "timed_out" is "failed" with the error of the deadline
    task,       \* the background task of a run
    target,     \* the job a run is for, None for a client's
    cancelled,  \* the runs whose own token was cancelled
    queue,      \* who waits for run_slots, in order
    cut,        \* the runs whose command saw the cancellation
    timed_out,  \* timed_out of a run's task: "early" before the deadline, after
                \* it "yes", or "no" for a run that was cancelled before
    posted,     \* how many runs clients started
    now,        \* the second it is
    seen,       \* the second the scheduler read last
    sched,      \* what the scheduler does: "loading", "catch_up", "tick", "sleep"
    todo,       \* the jobs it has to look at (catch-up) or to fire (tick)
    firing,     \* the job it fired and has not recorded yet
    last_handle,  \* its last handle of each job
    saved,      \* schedule_state in the database: when a job last fired
    \* History, for the properties:
    cause,      \* what cancelled a run first: "client" (the shutdown included),
                \* "deadline", "no"
    since,      \* when a job was first recorded in the database
    handled     \* when a job last fired or was skipped

tasks == <<issued, runs, task, target, cancelled, queue, cut, timed_out, cause>>
clock == <<now, seen, sched, todo, firing, last_handle, saved, since, handled>>
vars  == <<server, starts, tasks, posted, clock>>

Finished    == {"complete", "failed", "timed_out", "cancelled"}
InFlight(r) == runs[r] \in {"pending", "running"}
\* The token of a run is a child of the server's.
Cancelled(r) == r \in cancelled \/ server # "up"
Held         == { r \in Handle : task[r] \in {"working", "persisting"} }

NoRuns(v) == [r \in Handle |-> v]
NoJobs    == [j \in Jobs |-> None]

Init ==
    /\ server = "up" /\ starts = 1
    /\ issued = 0 /\ posted = 0 /\ runs = NoRuns("none") /\ task = NoRuns("none")
    /\ target = NoRuns(None) /\ cancelled = {} /\ queue = <<>> /\ cut = {}
    /\ timed_out = NoRuns("early") /\ cause = NoRuns("no")
    /\ now = 0 /\ seen = 0 /\ sched = "loading" /\ todo = {} /\ firing = None
    /\ last_handle = NoJobs /\ saved = NoJobs /\ since = NoJobs /\ handled = NoJobs

-----------------------------------------------------------------------------
(***************************************************************************)
(* A run and its task.                                                     *)
(***************************************************************************)
\* spawn_run: the record is there before the task, and before anyone has the
\* handle.  The task asks for a slot, and the semaphore serves in order.
SpawnRun(t) ==
    /\ issued < MaxRuns
    /\ issued' = issued + 1
    /\ runs'   = [runs EXCEPT ![issued'] = "pending"]
    /\ task'   = [task EXCEPT ![issued'] = "queued"]
    /\ queue'  = Append(queue, issued')
    /\ target' = [target EXCEPT ![issued'] = t]
    /\ cause'  = IF server = "up" THEN cause ELSE [cause EXCEPT ![issued'] = "client"]
    /\ UNCHANGED <<cancelled, cut, timed_out>>

\* The task ends: what only it and the command knew is gone with it.
TaskOver(r, s) ==
    /\ runs'      = [runs EXCEPT ![r] = s]
    /\ task'      = [task EXCEPT ![r] = "over"]
    /\ target'    = [target EXCEPT ![r] = None]
    /\ timed_out' = [timed_out EXCEPT ![r] = "early"]
    /\ cause'     = [cause EXCEPT ![r] = "no"]
    /\ cancelled' = cancelled \ {r}
    /\ cut'       = cut \ {r}
    /\ UNCHANGED issued

\* Mutant of Begin: a run cancelled while it waited leaves its record as it was.
BeginSilently(r) ==
    /\ server # "down" /\ task[r] = "queued" /\ queue # <<>> /\ Head(queue) = r
    /\ Cardinality(Held) < Slots
    /\ queue' = Tail(queue)
    /\ IF Cancelled(r)
       THEN TaskOver(r, runs[r])
       ELSE /\ runs' = [runs EXCEPT ![r] = "running"]
            /\ task' = [task EXCEPT ![r] = "working"]
            /\ UNCHANGED <<issued, target, cancelled, cut, timed_out, cause>>
    /\ UNCHANGED <<server, starts, posted, clock>>

\* The task gets its slot.  A run cancelled by now never starts, and gives
\* the slot back.
Begin(r) ==
    /\ server # "down" /\ task[r] = "queued" /\ queue # <<>> /\ Head(queue) = r
    /\ Cardinality(Held) < Slots
    /\ queue' = Tail(queue)
    /\ IF Cancelled(r)
       THEN TaskOver(r, "cancelled")
       ELSE /\ runs' = [runs EXCEPT ![r] = "running"]
            /\ task' = [task EXCEPT ![r] = "working"]
            /\ UNCHANGED <<issued, target, cancelled, cut, timed_out, cause>>
    /\ UNCHANGED <<server, starts, posted, clock>>

\* The command is through with its steps, all of them or those before the
\* cancellation, and looks at the token for the last time.
StepsEnd(r) ==
    /\ server # "down" /\ task[r] = "working"
    /\ task' = [task EXCEPT ![r] = "persisting"]
    /\ cut'  = IF Cancelled(r) THEN cut \cup {r} ELSE cut
    /\ UNCHANGED <<server, starts, issued, runs, target, cancelled, queue,
                   timed_out, cause, posted, clock>>

\* Mutant of Deadline: the deadline counts also for a run cancelled before it.
DeadlineAnyway(r) ==
    /\ server # "down" /\ r \in Held /\ timed_out[r] = "early"
    /\ timed_out' = [timed_out EXCEPT ![r] = "yes"]
    /\ cancelled' = cancelled \cup {r}
    /\ cause' = IF Cancelled(r) THEN cause ELSE [cause EXCEPT ![r] = "deadline"]
    /\ UNCHANGED <<server, starts, issued, runs, task, target, queue, cut, posted, clock>>

\* The deadline of a run: a cancellation that came before it keeps the run
\* from being called timed out.
Deadline(r) ==
    /\ server # "down" /\ r \in Held /\ timed_out[r] = "early"
    /\ timed_out' = [timed_out EXCEPT ![r] = IF Cancelled(r) THEN "no" ELSE "yes"]
    /\ cancelled' = cancelled \cup {r}
    /\ cause' = IF Cancelled(r) THEN cause ELSE [cause EXCEPT ![r] = "deadline"]
    /\ UNCHANGED <<server, starts, issued, runs, task, target, queue, cut, posted, clock>>

\* How the command may return: an error before or after its steps (the graph
\* does not load, the results cannot be saved), or what it saw of the token.
Outcomes(r) ==
    {"error"} \cup
    (CASE task[r] = "working" -> {}
       [] r \in cut           -> {"cancelled"}
       [] OTHER               -> {"ok"})

\* The command returns; its outcome is the run's, and the slot is free.
EndOf(r, o) ==
    CASE o = "ok"                                -> "complete"
      [] o = "cancelled" /\ timed_out[r] = "yes" -> "timed_out"
      [] o = "cancelled" /\ timed_out[r] # "yes" -> "cancelled"
      [] o = "error"                             -> "failed"
Finish(r) ==
    /\ server # "down" /\ r \in Held
    /\ \E o \in Outcomes(r) : TaskOver(r, EndOf(r, o))
    /\ UNCHANGED <<server, starts, queue, posted, clock>>

\* The sweep: a finished run that is old enough is forgotten.
Evict(r) ==
    /\ server # "down" /\ runs[r] \in Finished
    /\ runs' = [runs EXCEPT ![r] = "none"]
    /\ UNCHANGED <<server, starts, issued, task, target, cancelled, queue, cut,
                   timed_out, cause, posted, clock>>

-----------------------------------------------------------------------------
(***************************************************************************)
(* The client: Client.get and run, Client.cancel, Run.wait.                *)
(***************************************************************************)
Post ==
    /\ server = "up" /\ posted < MaxPosts
    /\ SpawnRun(None)
    /\ posted' = posted + 1
    /\ UNCHANGED <<server, starts, clock>>

\* DELETE /run/{id}: cancels what is pending or running, and refuses the rest.
Cancel(r) ==
    /\ server = "up" /\ InFlight(r) /\ r \notin cancelled
    /\ cancelled' = cancelled \cup {r}
    /\ cause' = [cause EXCEPT ![r] = "client"]
    /\ UNCHANGED <<server, starts, issued, runs, task, target, queue, cut,
                   timed_out, posted, clock>>

\* What ends a wait besides the client's own deadline: a poll finds a final
\* status, which it returns, or no such run any more, which it raises.
WaitEnds(r) == runs[r] \in Finished \cup {"none"}

-----------------------------------------------------------------------------
(***************************************************************************)
(* The scheduler.                                                          *)
(***************************************************************************)
\* run_scheduler reads the jobs, opens the database and only then the clock.
StartCatchUp ==
    /\ server # "down" /\ sched = "loading"
    /\ sched' = "catch_up" /\ seen' = now /\ todo' = Jobs
    /\ UNCHANGED <<server, starts, tasks, posted, now, firing, last_handle, saved,
                   since, handled>>

\* Mutant of NeedsCatchUp: a tick in the second of the start is not seen.
NeedsCatchUpBefore(j) == \E t \in Due[j] : saved[j] < t /\ t < seen

\* Whether a tick passed since the job's last record.
NeedsCatchUp(j) == \E t \in Due[j] : saved[j] < t /\ t <= seen

\* trigger, last_handle and last_fired; the record in the database follows.
Fire(j) ==
    /\ SpawnRun(j)
    /\ last_handle' = [last_handle EXCEPT ![j] = issued']
    /\ handled' = [handled EXCEPT ![j] = seen]
    /\ firing'  = j

\* A job without a record is anchored to now: no run at the first start.
CatchUp(j) ==
    /\ server # "down" /\ sched = "catch_up" /\ firing = None /\ j \in todo
    /\ todo' = todo \ {j}
    /\ IF saved[j] # None /\ NeedsCatchUp(j)
       THEN Fire(j)
       ELSE /\ firing' = IF saved[j] = None THEN j ELSE None
            /\ UNCHANGED <<tasks, last_handle, handled>>
    /\ UNCHANGED <<server, starts, posted, now, seen, sched, saved, since>>

\* Mutant of Skips: a run that waits for a slot does not count as in flight.
SkipsRunning(j) == last_handle[j] # None /\ runs[last_handle[j]] = "running"

\* A new second: the due jobs fire, but not those whose last run is in flight.
Skips(j) == last_handle[j] # None /\ InFlight(last_handle[j])
Tick ==
    /\ server # "down" /\ sched = "sleep" /\ seen < now
    /\ sched' = "tick" /\ seen' = now
    /\ todo'  = { j \in Jobs : now \in Due[j] /\ ~ Skips(j) }
    /\ handled' = [j \in Jobs |-> IF now \in Due[j] /\ Skips(j) THEN now ELSE handled[j]]
    /\ UNCHANGED <<server, starts, tasks, posted, now, firing, last_handle, saved, since>>

FireDue(j) ==
    /\ server # "down" /\ sched = "tick" /\ firing = None /\ j \in todo
    /\ todo' = todo \ {j}
    /\ Fire(j)
    /\ UNCHANGED <<server, starts, posted, now, seen, sched, saved, since>>

\* persist_fired: best effort, a failed write is only logged.
PersistFired ==
    /\ server # "down" /\ firing # None
    /\ firing' = None
    /\ \/ /\ saved' = [saved EXCEPT ![firing] = seen]
          /\ since' = IF since[firing] = None THEN [since EXCEPT ![firing] = seen]
                      ELSE since
       \/ UNCHANGED <<saved, since>>
    /\ UNCHANGED <<server, starts, tasks, posted, now, seen, sched, todo,
                   last_handle, handled>>

SleepAgain ==
    /\ server # "down" /\ sched \in {"catch_up", "tick"} /\ todo = {} /\ firing = None
    /\ sched' = "sleep"
    /\ UNCHANGED <<server, starts, tasks, posted, now, seen, todo, firing,
                   last_handle, saved, since, handled>>

\* The clock; with PromptTicks it does not leave a second that the scheduler
\* has not dealt with.
Second ==
    /\ now < Horizon
    /\ PromptTicks /\ server # "down" /\ sched # "loading" =>
          sched = "sleep" /\ seen = now
    /\ now' = now + 1
    /\ UNCHANGED <<server, starts, tasks, posted, seen, sched, todo, firing,
                   last_handle, saved, since, handled>>

-----------------------------------------------------------------------------
(***************************************************************************)
(* The server stops, dies and starts.                                      *)
(***************************************************************************)
\* Ctrl-C: all tokens are cancelled, then the shutdown waits for every slot.
Stop ==
    /\ server = "up"
    /\ server' = "stopping"
    /\ queue'  = Append(queue, Shutdown)
    /\ cause'  = [r \in Handle |-> IF InFlight(r) /\ r \notin cancelled
                                   THEN "client" ELSE cause[r]]
    /\ UNCHANGED <<starts, issued, runs, task, target, cancelled, cut, timed_out,
                   posted, clock>>

\* All slots are free.  The records stay as they were last seen.
Exit ==
    /\ server = "stopping" /\ queue # <<>> /\ Head(queue) = Shutdown /\ Held = {}
    /\ server' = "down"
    /\ UNCHANGED <<starts, tasks, posted, clock>>

\* A crash, or the shutdown has waited 10 s: runs end with the process.
Memory ==
    /\ runs' = NoRuns("none") /\ task' = NoRuns("none") /\ target' = NoRuns(None)
    /\ cancelled' = {}
    /\ queue' = <<>> /\ cut' = {} /\ timed_out' = NoRuns("early")
    /\ cause' = NoRuns("no")
    /\ sched' = "loading" /\ seen' = 0 /\ todo' = {} /\ firing' = None
    /\ last_handle' = NoJobs

Crash ==
    /\ server # "down"
    /\ server' = "down"
    /\ Memory
    /\ UNCHANGED <<starts, issued, posted, now, saved, since, handled>>

Start ==
    /\ server = "down" /\ starts < MaxStarts
    /\ server' = "up" /\ starts' = starts + 1
    /\ Memory
    /\ UNCHANGED <<issued, posted, now, saved, since, handled>>

Next ==
    \/ Post \/ Stop \/ Exit \/ Crash \/ Start
    \/ \E r \in Handle : \/ Begin(r) \/ StepsEnd(r) \/ Deadline(r)
                         \/ Finish(r) \/ Evict(r) \/ Cancel(r)
    \/ \E j \in Jobs : CatchUp(j) \/ FireDue(j)
    \/ StartCatchUp \/ Tick \/ PersistFired \/ SleepAgain \/ Second

Spec == Init /\ [][Next]_vars

\* The runtime polls every task; a command ends, for its deadline cancels it
\* and a cancelled command stops (the phase loop's own liveness is
\* WorkerPool's).
FairSpec ==
    /\ Spec
    /\ \A r \in Handle :
          /\ WF_vars(Begin(r)) /\ WF_vars(Finish(r))

-----------------------------------------------------------------------------
\* The end that is written for a run tells what ended it, and is final:
\* `cancelled` only if a client or the shutdown cancelled it before its
\* deadline, timed out only if the deadline was first, `complete` only if the
\* command never saw a cancellation; nothing but the sweep, or the death of
\* the server, changes the record after it.
EndsAsCaused ==
    [][\A r \in Handle : runs'[r] # runs[r] =>
          /\ runs[r] \in Finished => runs'[r] = "none"
          /\ runs'[r] = "cancelled" => cause[r] = "client"
          /\ runs'[r] = "timed_out" => cause[r] = "deadline"
          /\ runs'[r] = "complete"  => r \notin cut]_vars

\* Passes of a scheduled job do not overlap: a tick that finds the last run
\* of the job queued or running is skipped, also while finished runs are swept
\* and after a catch-up run.
JobsNeverOverlap ==
    \A j \in Jobs :
        Cardinality({ r \in Handle : target[r] = j /\ task[r] \notin {"none", "over"} }) <= 1

\* No tick of a job is lost once the job is recorded: when the scheduler is
\* done with a second, every tick since the record, those that passed while
\* the server was down included, was fired for or skipped for a run in flight.
DueIsFired ==
    sched = "sleep" =>
        \A j \in Jobs : since[j] # None =>
            \A t \in Due[j] : since[j] < t /\ t <= seen =>
                handled[j] # None /\ t <= handled[j]

\* A run that waits for a slot or has one ends with a final status, and the
\* wait of its client with it, unless the server dies or gives up on its
\* shutdown.  Only a run that asks for a slot after the shutdown did may be
\* left behind.
Behind(r) == \E i, k \in DOMAIN queue : i < k /\ queue[i] = Shutdown /\ queue[k] = r
EveryRunEnds ==
    \A r \in Handle : InFlight(r) /\ ~ Behind(r) ~> WaitEnds(r)

\* What the API reference says of a cancellation the server accepted: the run's
\* status transitions to cancelled.
CancelHolds ==
    [][\A r \in Handle :
          runs'[r] # runs[r] /\ runs'[r] \in Finished /\ cause[r] = "client" =>
              runs'[r] = "cancelled"]_vars
=============================================================================
