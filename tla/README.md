# Verification of barca's run engine

Barca runs a DAG of Python assets, sensors and tasks.  A Rust core
(`crates/barca-core`) parses the sources, plans phases of parallel streams and
drives a pool of Python worker processes (`python/barca`); a CLI and an HTTP
server (`crates/barca-server`) sit on top.  This directory holds TLA+ models of
the core, the workers and the server's runs, the TLC configurations that check
them and TLAPS proofs about them.  Paths below are relative to the repository.

## Inventory

| component | state it keeps | operations | talks to | what is hard, and what makes it correct |
|---|---|---|---|---|
| Phase coordinator `barca-core/src/coordinator.rs` | items, `pending`, `ready`, `executing`, `done`, `failed`, `skipped`, `waiting_retry`, groups | `load_phase`, `next_ready`, `requeue`, `return_leased`, `on_item_completed`, `on_item_failed`, `on_parallel_requested`, `is_group_complete`, `is_finished` | called by the I/O loop only | mutually recursive skip and unblock walks; budget counting across returned leases; each item in exactly one place, released neither early nor never |
| Worker pool and I/O loop `io_loop.rs` | active workers with leases, frozen workers, event channel, timers | `run_phase` and its event handlers, `assign_ready`, `resume_frozen`, `spawn_worker`, `shutdown` | sockets and signals to the processes; the coordinator; the cost model | events later than the decisions they meet; crashes, stops and kills; every lease resolves, no step lost or executed twice, no process left behind |
| Python worker `_worker.py`, `_runtime.py`, `__init__.py` | its batch, its threads, one socket under one lock, a cache of artifacts | execute a batch (daemon or file), report, time limits, `parallel()` and wait | the I/O loop, the artifact store | threads left behind share the socket; answers in order and once; it must end with its executor |
| Cost model `cost.rs` | estimates per node | `estimate`, `observe`, `batch_size` | the I/O loop, the state DB | the size of a batch comes from its first step's estimate; what is behind that step may be heavier, or call `parallel()` |
| Planner `planner.rs`, `dispatch.rs` | none | `decompose`, `plan`, `build_phases`, `bin_pack_to_streams`, `expand_pending_partitions` | coordinator's `load_phase` | each step planned once, after what it needs, also when partitions are known late |
| Run execution `commands.rs` | the run's ledger, provided inputs | `decide_step`, the phase loop, `persist_run`, the push loop | all of the above, the state DB | partial runs, cancellation, errors after side effects |
| Run cache `cache.rs`, `hash.rs` | rows of the state DB | `compute_run_hash`, lookups | run execution | a hit only for what was really made from these inputs |
| Remote state `state_sync.rs`, `_state.py` | the state file, its generation, a lock file | `pull_state`, `push_state`, `checkpoint_truncate`; `pull` and `push` on four kinds of store | object store, local DB | lost updates between concurrent runs; refusals told apart from failures |
| Server runs `handlers.rs`, `state.rs`, client `client.py` | run table, tokens, run slots, cached DAG | `spawn_run`, `cancel_run`, deadline, eviction, shutdown | run execution | cancel against completion and deadline; one final status, the right one |
| Scheduler `scheduler.rs` | last fired times, runs in flight | tick, due jobs, catch-up, `persist_fired` | server runs, local DB | missed, doubled or overlapping passes across restarts |
| DAG watch `watch.rs` | generation, cached DAG | file events, reload | server handlers | loads in flight when a file changes |
| Artifacts `_artifacts.py`, `_storage.py` | files, staging files, formats | staged write, reads on several threads, `clean_staging` | workers of all runs of a project | a starting worker against writing ones; what a failure leaves; what a format keeps |
| Status `_inspect.py` | none | reads artifacts; names the type of a pickle from its opcodes | artifacts | an interpreter that must agree with another one |
| DAG extraction `parse.rs`, `dag.rs`, `cone.rs`, `envdeps.rs`, `_inspect.py` | none | pure functions of sources | planner, cache | size of the input, not interleaving |
| CLI, `api.py`, config, docs | none | formatting, options | the core | not modelled |

Within a run the flow is: the planner gives phases, run execution loads each
into a fresh coordinator, `run_phase` drives it over the pool that lives for
the whole run, results are recorded in the ledger and persisted at the end.
Steps hand their values to one another through artifacts; with shared state, a
run pulls the database before it plans and pushes it when it ends.  The server
starts such runs as tasks of its own, for clients and for the clock.
`PROJECT.json` lists the components with what is modelled of each, and the
hazards with the properties that cover them.

## What is modelled

**`Coordinator`** is coordinator.rs.  The record `co` has the fields of the Rust
struct; the methods are operators from a coordinator to the next
(`Lease` = calls of `next_ready`, `ReturnLeases` = `return_leased` for a
worker's leases, `OnItemCompleted`, `OnItemFailed`, `OnParallelRequested`,
`RequeueItem`), so that a handler of the I/O loop is their composition.  The
module also closes them into a specification of its own under the protocol of
their only caller: an item is resolved while it is dispatched or while it is a
parent that was resumed.  `pending` is total, `{}` standing for "no entry";
`dependents` and the items' specs are the constants `DataDeps`, `OrderDeps`,
`Retries` and `Backoff`; outputs and error texts are left out.  What
`cascade_failure` and `unblock_dependents` mark and release is defined as a
least set (`SkippedWith`, `ReleasedWith`); the order in which released items
join the queue is the code's when nothing is skipped and any order otherwise.

**`CascadeWalk`** has the two walks as the code writes them, recursive and one
dependent at a time, to justify that definition: `WalksAgree` compares both in
every state of run `coordinator`.

**`StepContract`** is the abstract specification: steps wait, run, succeed, are
put back, or fail and at once skip exactly their transitive readers.  Both
`Coordinator` and `WorkerPool` implement it under the mapping `StepStatus`
(`ImplementsContract`).

**`WorkerPool`** is `run_phase` over the pool, with the daemon processes.  The
loop is one task: it handles one event (`StepCompleted`, `StepError`, `Submit`,
`Disconnected`, `RetryReady`), then runs `resume_frozen` and `assign_ready`.
Since these await, processes move between their iterations; `pc` is where the
loop is ("select", "resume", "assign", and then "done", "error", "cancelled",
"down").  `workers` and `frozen` are the pool's collections, `out[w]` the
messages of a worker's I/O task that the loop has not handled: FIFO per worker,
any order between workers.  A process executes the head of its batch, reports,
blocks in `parallel()`, dies, or is stopped, continued and killed by the loop.
Killing happens in the background where the code spawns it
(`killed`, then `Reap`), and at once where the code waits for it.
How many steps a pull leases (`PullSizes`) is what `batch_size` makes of the first
step's estimate (`BatchSize`), cut where the work budget is exceeded (`InWorkBudget`),
for any estimates out of `Estimates`: a step that calls `parallel()` may be pulled
with others, before or behind them.  The loop then takes the rest of the batch back
while the stopped process still has it; `kept` (history) remembers these steps.

**`StateSync`** is execute() in commands.rs as far as it touches the shared
metadata database, with state_sync.rs, `_state.py` and the functions of db.rs
they call.  Several runs on several machines share one remote object.  A run
reads the generation (`ReadToken`) and downloads the file (`Fetch`), opens it
(`InitDb`), writes its row (`CreateRun`), appends its results (`Persist`), folds
the WAL into the file (`Checkpoint`, `Verify`) and uploads it on the condition
that the generation is the one it read (`Pushed`); on a conflict it starts over
and replays its rows (`Conflict`), `PushRetries` times.  Transfers may fail, an
upload may succeed and its answer be lost (`AnswerFails`), a run may be killed
between any two operations (`Killed`, which also stands for the early error
exits of execute()), and dry runs pull at any time (`DryRun`).  `main` and `wal`
are the two files of each machine, `View` what a connection to them sees.

**`StateBlob`** is `_state.py` below that, call by call: the token and the
download of a pull, the conditional put of a push, the lock file, the staged
copies, and the classification of errors by which a push tells a conflict from a
failure, for a shared directory, GCS, Azure and S3.  Every call may fail and every
client die.  It implements **`CasRegister`**, a register that clients read and then
replace if nobody replaced it meanwhile (`ImplementsRegister`); this is the store
that `StateSync` takes for granted in its `ReadToken`, `Fetch` and `Pushed`.

**`SharedLedger`** is what the documentation promises of shared state: a run
that ends well is in it, and what is in it stays there.  `StateSync` implements
it (`ImplementsLedger`) when the processes of a machine do not overlap and none
dies while its WAL holds pages; the findings show what happens otherwise.

**`Execution`** is the rest of execute(): what a run makes of a pipeline.  It is
built from pure modules, each on top of the one before it:

- `Dag` (dag.rs): nodes in a topological order, their reads (direct or
  `collect`), their partitions; `ResolvePartitionsFrom`, `Builds`, subgraphs;
- `Planner` (planner.rs): chains (`Fuses`, `ChainOf`), phases (`AssignPhases`),
  work units and key chunks (`WorkUnits`, `Chunks`), packing (`Pack`), merging
  (`CanMerge`), and the filter of commands.rs (`PlanFor`);
- `Dispatch` (dispatch.rs, `load_phase`, `build_step_json`): listed keys
  (`ExpandPendingPartitions`), items with their two kinds of dependencies
  (`DataDepsOf`, `OrderDepsOf`), and where each input of an item comes from
  (`Input`);
- `RunCache` (cache.rs, hash.rs, `decide_step`): what a run hash covers and when
  a key is a hit (`DecideStep`).

The variables of `Execution` are the resolved pipeline, the `world` that the next
run finds (code versions and sensor readings, which change between runs), the
`rows` of successful materializations, the last recorded sensor outputs `seen`,
and the `run` in progress.  A run starts with targets and a refresh policy
(`Start`), goes through its phases (`StartPhase` decides and dispatches;
`PhaseDone`, `PhaseFails` or `Cancel` collects), and records what ran (`Finish`), or
dies and records nothing.  How the items of one phase interleave is the subject
of `Coordinator` and `WorkerPool`; here a phase is dispatched and collected.  An
output is the computation it came from, code and arguments, so "the right
output" can be said: `FromScratch(w)` is what a run without a cache, without a plan
and without phases would compute in the world `w`, by recursion over the graph, and
`HashFor(w)` is the run hash that covers just that.

**`DryRun`** is explain_dag, the second loop over a plan: the decisions of a run
made without running anything (`Foretold`).

**`WorkerProcess`** is one worker process with its threads: `run_daemon` and
`run_batch` of `_worker.py`, `_runtime.py` and `parallel()`.  `main` is where the
main thread is, `code[i]` where the function of item `i` is, on the main thread or
on the one of its time limit, which is left behind when the limit passes; `lock` is
the lock of the socket, which a receiver holds until its message is there.  The I/O
loop is on the other end as far as one process sees it (`exec`: idle, busy, frozen,
dropped, gone).  A function returns, raises, exits, calls `parallel()` or hangs.

**`Formats`** says which format a value is written in and what is read back
(`DetectFormat`, `ResolveFormat`, `Written`, `ReadBack`), over ten kinds of values.
**`ArtifactStore`** is what workers do with it: a worker looks its inputs up in its
cache (`LookUpAll`), fetches the rest on threads (`StartThread`, `Fetch`,
`ReadFetched`), calls the function, writes the artifact and the sinks through
temporary files (`WriteTemp`, `Fill`, `Finalize`, `Unlink`), reports and keeps the
value.  `remote` tells a local from a remote store; `temps` are the files beside the
destination or in the staging directory, which every starting worker sweeps.
Workers of two runs may execute one step at once.

**`ServerRuns`** is the server: `SpawnRun` to `Evict` are the life of a run's task,
`Post` and `Cancel` what a client does, `StartCatchUp` to `SleepAgain` the scheduler,
and `Stop`, `Exit`, `Crash` and `Start` the process, whose memory is lost while
`saved`, a table of the database, is not.  `queue` is the order in which tasks (and
the shutdown) wait for `run_slots`.  `cause`, `since` and `handled` are history.

**`PickleType`** is `_pickle_type` of `_inspect.py`, the loop by which `barca status`
names the type of a pickle without loading it, run side by side with the
unpickler it imitates.  An object is known by its type and, if a function was called
for it, by that function (`by`): a class gives an object of its own, a reconstructor
one of its argument, and any other function what it likes (`Made`, `Anything`), which
nothing in the pickle tells.  `FromOutside` and `Dup` are the opcodes that only the last
branch of the loop handles; CPython pushes the same object again on DUP, the loop pops
one label and pushes two of no type (`duped`).  No Python pickler writes DUP.

Definitions that start with a comment "Mutant" are plausible bugs of the
definition that follows; nothing uses them but the mutation runs listed in
`PROJECT.json`, each of which must break the property it names.

### Abstractions worth knowing

- One phase.  The event channel and the workers persist between phases; a
  phase ends with every item resolved, and worker ids are never reused, so
  what is left over finds no lease.
- Estimates are free at every pull: how they are made from observations is left out.
  `BatchSize` counts in milliseconds, with the constants of cost.rs.
- A process that the loop has begun to kill is exempt from
  `OneLiveExecution`: the grace of 200 ms runs off the loop, and the code
  accepts that a retry may overlap it.
- A leftover thread of a timed-out step is left out of `WorkerPool` (it is in
  `WorkerProcess`), and so are `Blocked` (the daemon never sends it) and heartbeats.
- A failing `spawn_worker` leaves nothing behind: that the process it gave up
  may connect later and be paired with another worker's entry is left out, as is
  a message that is lost because its read is cancelled half way (io_loop.rs:126).
- `Disconnected` of a worker that was killed may or may not come: its I/O task
  ends by the end of the stream or by its closed command channel.
- Every operation on the local database is one step: it holds the machine's
  file lock (`db_guard`).  `pull_state` and `push_state` do not take that lock,
  so processes of one directory may act between any two operations (`Overlap`).
  The server refuses to run with shared state (crates/barca-cli/src/main.rs:1999),
  so these are several invocations of the CLI.
- A table is one page: a write puts the whole table in the WAL, and a WAL hides
  the main file it lies beside.  This is the smallest database in which a stale
  WAL can be told from a fresh one; that turso reads a leftover WAL as SQLite
  does is assumed.  `init_db` writes the schema only into a new database.
- One dimension of partitions, keys of one character; parameter names (and so the
  rule that a name with a leading `_` passes nothing), sinks, serializers, timings,
  reports and the warnings about stale caches are left out of `Execution`.  A
  declared environment variable counts as part of its node's code.
- Two hashes are equal when they cover the same: SHA-256 is taken to have no
  collisions.  Functions are deterministic; a key list is what a version of the code, or
  a reading of a sensor, returns.
- Left out of `StateSync`: the cost estimates, errors that `persist_run` logs
  and swallows, and a download that replaces a file another process has open.
  That its store is a compare-and-swap register whatever the backend is
  `ImplementsRegister` of `StateBlob`.
- In `StateBlob` the database is the set of runs in it; every run that pushes adds
  its own row, so contents never recur and a hash of them (the token of a directory,
  and S3's etag) tells as much as a generation.  What the token-returning read after
  a put gives is not used by the coordinator (commands.rs:2232) and left out.  The
  stores behave as their SDKs document; nobody deletes the object.
- `WorkerProcess`: `PromptStop` says that a process that has submitted is stopped
  before it does anything else; the code only makes this likely, and without it
  `LeasesFollow` fails (see below), though `AnswersFollowBatch` does not.  The heartbeat
  thread of batch mode, DuckDB names and imports are left out.
- `ArtifactStore`: file names, sizes and storage options are left out; a step stands
  for the path that its run hash gives it, so two executions of a step produce the
  same value.  Functions may change their arguments, which is seen by whoever
  shares them.  A partition is a step of its own here.
- `ServerRuns`: jobs are due in sets of seconds, for cron expressions and time zones
  are a library's.  `PromptTicks` says that the scheduler is done with a second before
  the next begins.  What a run does is `StepsEnd` and its outcomes.  Disabled
  durability, `--watch` and the cached DAG are left out.
- `PickleType`: opcodes that do the same to both machines are one action.  Only classes
  are instantiated, functions are called by REDUCE alone, and a reconstructor has a
  class found by name for its first argument; a pickle that does otherwise is
  rejected by the unpickler, or no pickler writes it.

## The runs

| run | expects | size and bounds |
|---|---|---|
| `coordinator` | pass | 7 items in two streams: a data diamond, an item that reads and follows failing ones, a successor freed only by a skip, an input that failed long before the last ordering upstream ends; retries 0 to 2 with and without backoff; `parallel()` of up to 2 branches, 2 branch ids in all. 54,998 states |
| `worker_pool` | pass | 4 items on 2 workers, one of which reads another's output, a two-branch call, estimates of 100 and 900 ms (batches of 1 and 2, the caller first, last or alone), one crash or failed spawn at any point (stopped processes too), one error or timeout, cancellation at any point. 1,392,798 states |
| `worker_pool_ends` | pass | the fair specification: 3 items of 100 ms, the caller in a batch with another or alone, two successive calls, one crash, one error; liveness. 591,717 states |
| `execution` | pass | ten pipelines of up to four nodes on a pool of 2, two runs, every one of up to two targets and every policy, one change between the runs. 245,222 states |
| `state_sync` | pass | the fair specification: two runs in turn on one machine and one on another, one retry, failing transfers and kills wherever the WAL is empty, dry runs at any time. 6,898 states |
| `state_blob` | pass | three clients, three pushing runs, any number of pulls, all four stores, failures at every call. 1,193,131 states |
| `artifact_store` | pass | two workers, four steps (two read others' results, one of them as a list and under another frame type, one is executed twice), two sinks of which one cannot be written, a cache of 2, 2 threads, local and remote, one fault anywhere. 330,944 states |
| `worker_process` | pass | the fair specification: as a daemon two batches out of a step, one that hangs under a time limit and a caller of two `parallel()` calls; in batch mode six items with partitioned, whole and order-only inputs; every end of a function, an executor that stops, kills, dismisses or dies. 8,246 states |
| `server_runs` | pass | the fair specification: one job due in two of three seconds, one slot, three runs of which a client posts one, two starts, a crash or shutdown at any point. 182,930 states |
| `pickle_type` | pass | every pickle of up to 5 opcodes over a class, a reconstructor, `_frombuffer` and a factory, and two strings. 1,943,915 states |
| `stale_hit` | violation | one pipeline in which a stated promise of caching fails; see below |
| `clobbered_sink` | violation | two partitions of a node with a sink; see below |

With three steps ready, two of 100 ms are a batch and one of 900 ms is pulled alone; behind
a light head a heavy step exceeds the work budget and stays in the queue.  So the runs of
the pool have callers that are pulled with the step before or behind them, whose rest is
taken back (io_loop.rs:454) while the process has it.  In `worker_pool_ends` nothing reads
another's output, which keeps the liveness run within reach.  `AnsweredWhenComplete` is about
processes from which nothing was taken back: one that goes on with a step the loop gave to
another may call `parallel()` from it, and the loop takes the call for the parent's.

The bounds are reached by design: `MaxItems` allows every branch the callers
ask for, `MaxWorkers` every worker the faults and replacements can need (a
smaller value would only disable `Submit` or `SpawnWorker`), one fault of each
kind because the handlers treat faults independently and each has its own
budget check in the coordinator run, where failures are unbounded but for the
retry budgets.  Three runs are the fewest that give a conflict, a successor on
the same machine and a rival at once, and with one retry a run may both recover
from a conflict and give up.  The pipelines of `execution`
are one for each way in which nodes can meet: a sensor with a direct and an
indirect reader, two targets, a diamond, aligned keys, a fan-in of each kind of
partitioned node, an input whole to every key, listed keys with and without a
sensor behind them, listed keys handed on.  Two runs are enough, since a run
meets the earlier ones only in `rows` and `seen`; one change between them is what
a wrong hit needs.  Two keys on a pool of 2 split into two chunks.

Three clients on one object give one that pulled before two others pushed, and an
S3 put that meets another.  In `artifact_store` a cache of 2 makes entries leave it,
and one fault is enough since what one leaves behind is what the next step of any
worker meets.  In `server_runs` the second start meets the ticks of the first and one
slot makes every second run wait.  Five opcodes reach the longest dependent sequence
of the loop: two strings, a global of them, an argument and a reduce; longer pickles
are the subject of the proof.

Deadlock is checked in `coordinator`, both runs of the pool and `state_blob`.  The
others really may stop: every run of `state_sync`, `execution` and `server_runs` ends,
every step of `artifact_store` is executed, a worker process is over, a pickle has
been read.

### Properties

Coordinator: `ItemsAccountedFor` (the step accounting), `DispatchedAfterUpstreams`,
`FailurePropagates`, `PendingIsUnsatisfied`, `AttemptsWithinBudget`, `WalksAgree`,
`ImplementsContract`.  Pool: `LeasesMatchExecuting`, `NothingLost`,
`OneLiveExecution`, `AnsweredWhenComplete`, `EveryProcessTracked`,
`UnstartedUncharged`, `ImplementsContract`, and the liveness property
`EveryStepTerminal`.  Execution: `EveryKeyOnce` (with what a
failure must not keep from being computed), `PlanFits` (what deciding and dispatching
rely on), `InputsArrive`, `NoWaitCycle` (the plan as items), `AsFromScratch` (a hit is
never wrong), `OnlyWhatChanged` (a miss is never needless), `CascadeReaches`, and
`DryRunAgrees`.  Shared
state: `RecordedOnce`, `ConflictsPaidFor`, `ImplementsLedger`, `ImplementsRegister`
and the liveness property `EveryRunEnds`.  Artifacts: `HandedAsStored` (the cache and
the store cannot be told apart), `ReportedIsStored`, `LeftByCrashesOnly`.  Worker
process: `AnsweredInOrder` (`AnswersFollowBatch` and, of the loop's leases,
`LeasesFollow`), `BlockedExactly`, and the liveness properties
`StepsAnswered` and `EndsWithExecutor`.  Server: `EndsAsCaused`, `JobsNeverOverlap`,
`DueIsFired` and the liveness property `EveryRunEnds`.  Status: `LabelsMatch`.  Each is
stated in words where it is defined.

### Fairness

`PoolFairness` is weak fairness of four activities: the loop goes on when it
can; while it selects, some event that is there is handled; some process that
is neither stopped nor dead goes on (user code returns, raises, or is cut off by
its timeout); timers fire.  The tokio runtime and the OS give each of these.
Crashes, errors, failed spawns and cancellation are never required to happen.
Retry budgets bound all activity, so nothing can starve behind an endless one
and strong fairness is not needed.

`FairSpec` of `StateSync` is weak fairness of each run's own operations: a
process that is not killed goes on, whatever the others do.  Kills, failures and
dry runs are never required.  `EveryRunEnds` then rests on the bound of the
retry loop alone: another machine may win every race.

`FairSpec` of `WorkerProcess` is weak fairness of the main thread, of the clock of a
time limit, of each function that is not in `Hangs`, of each thread's use of the
socket, and of the loop where it handles a message, answers a stopped caller or kills
whom it gave up.  That a batch is ever sent, a worker dismissed or an executor dies is
not required.  No time limit means that `StepsAnswered` exempts a function that hangs.

`FairSpec` of `ServerRuns` is weak fairness of a task that gets its slot (`Begin`) and
of the return of a run's command (`Finish`).  The first is tokio's: its semaphore is
first come, first served.  The second holds because the deadline cancels a command
and a cancelled phase loop ends, as `EveryProcessTracked` and `EveryStepTerminal` have
it.  Neither the clock nor the scheduler has to go on.

### Where the code departs from what it says

Two of these are runs, with the quotations in `PROJECT.json`:

- `stale_hit`: declared keys that read listed keys are fused with them into a
  chain, become work units of their own and are decided first; their hashes lack
  the producer's, and an old output is served after the producer has changed.
- `clobbered_sink`: the daemon passes a step's id with its partition as the base id
  of its sinks, so nothing is injected into the sink's path and all partitions write
  one file.  Batch mode, which has a test, does it right.

The others have a configuration that shows the violation (`tlc -config <cfg>` with
`MCWorkerPool`, `MCStateSync`, `MCExecution` or `MCArtifactStore`).
In the pool:

- `MCLostParent.cfg`: the replacement of one frozen worker can become the resumed
  parent of another group and is killed with its parent lost (io_loop.rs:767); the run
  hangs, although "every step the system knows about **must** reach a terminal state"
  (architecture-decisions.md:179).
- `MCFrozenDies.cfg`: a process that dies while stopped is resumed as if it
  lived; the run hangs.
- With `MaxCrashes = 0`, `MaxErrors = 1`, `WaitingMayDie = FALSE` and `LateTimeouts = TRUE` in
  that configuration: a timeout error that leaves right behind a `parallel()` call is
  dropped; the run hangs.  The window is small, since the waiting thread holds the
  socket's lock from its receive on.
- `MCDoubleRun.cfg` (`NeverDoubleRun`): a step that calls `parallel()` is pulled with another,
  which goes back to the queue when the process is stopped (io_loop.rs:454); nothing tells
  the process, which runs it after its answer while another has it.  "batch pulls
  sized from early observations must never lose or double-run the heavy stragglers"
  (python/tests/test_adaptive_executor.py:284-286); the lease state machine of
  io_loop.rs:12-15 only has what was not begun return "to the queue front untouched".

In planning and caching:

- `MCWaitCycle.cfg`: in the pipeline of `stale_hit` the packed streams may make
  items wait for one another; none is dispatched and the run hangs.
- `MCKeyAdded.cfg`: when a listed key is added, chunks move between streams, and
  a consumer's key may be hashed before its own producer key; it then takes the
  hashes of all keys known so far and runs again
  (partitions.md:35 serves the other keys from cache).

In shared state:

- `MCLostRows.cfg`: a second process of the same directory, a dry run suffices, pulls
  between the checkpoint and the push of a run; the push uploads the pulled file
  and the run ends well without its rows ("so nothing is lost",
  remote-storage.md:53-54).
- `MCRecordedTwice.cfg`: two processes of one directory share the local file; the
  second pushes the rows of both, the first conflicts and appends its own again
  (against the comment at commands.rs:2365-2367).
- `MCStaleWal.cfg`: a run killed with pages in its WAL leaves them to the next run,
  whose pull replaces the main file only; what the pages hide is dropped from
  the shared database (remote-storage.md:59-60 has them discarded).

In artifacts and the server:

- `MCHotResult.cfg`: a tuple, which JSON turns into a list, reaches a step of the same
  worker as the tuple and any other as a list, though the cache "never gates
  correctness" (the docstring of `_ArtifactLRU`).
- `MCSweptStaging.cfg`: a worker that starts removes the staging files of those at
  work, and a step fails for no reason of its own; the docstring at _artifacts.py:121
  speaks of leftovers of crashed runs.

Some more need only other constants in a configuration that is there:

- `PoolWithinStrength` fails with two callers on a pool of one (`PoolSize = 1`,
  `Calls <- TwoCallers`, no faults): nested `parallel()` leaves more active workers than
  `pool_size`.
- `AnswerIsType` fails with the constants of `MCPickleType.cfg`: of what a factory returns, `status`
  shows the factory, `re._compile` for a `re.Pattern`, where _inspect.py:9 has "the type of the
  top-level object" and crates/barca-cli/docs/status.md:108 the same.
- `NeverStartedNeverFails` of `WorkerPool`, which no run checks, fails with the constants of
  `MCWorkerPoolEnds.cfg` and `Retries <- OneTry`: a step sent to a worker that had died idle is
  charged an attempt.
- `PhaseEnds` fails with a frozen worker and failing spawns: they do not end the phase.
- `ErrorMeansNotShared` of `StateSync` fails with failing transfers: a run that is told the
  shared state was not updated may be in it, because the answer to its upload was lost.
- `ImplementsRegister` fails with `Resends = {"s3"}`: an SDK that sends a put again meets its
  own first one and is refused; the run is told of a conflict and replays rows that are
  in the object, where the docstring at _state.py:108-115 has such an answer be
  "unambiguously a concurrency conflict".  It fails with `Says = {{}, {"412"}}` as well: the
  text of an unrelated error, a byte count for instance, may hold the digits that
  `_is_conflict` looks for.
- `AnsweredInOrder` of `WorkerProcess` fails with `PromptStop = FALSE`: when a time limit passes
  around a submit and the process is stopped late, its error is on the way behind the submit
  and the loop, which holds the step as frozen, does not expect it.
- `InputsArrive` fails with `Pipelines <- OnlyFanIn`, `Lists <- MCLists`, `Pool = 1` and
  `MaxRuns = 2`: on a pool of one (or with one key and nothing beside it) a fan-in is merged
  into the phase of its partitions and called without its list, while "a fan-in (`collect`)
  runs in its own phase after every partition has finished"
  (crates/barca-cli/docs/partitions.md:57).
- `CancelHolds`, which no run checks, fails with the constants of `MCServerRuns.cfg`: a
  cancellation the server accepted may find the command past its last look at the token; the
  run ends `complete`, where server-api.md:94-97 and the docstring at client.py:126 have it
  cancelled.
- `DueIsFired` fails with `PromptTicks = FALSE` and `Due <- MCDueOnce`: the scheduler looks at the
  second it wakes up in only, so a due second it slept through fires nothing until the next
  restart.

Read from the code, with no run.  Planning: a partitioned node that `collect`s an upstream
with the same keys gets only its own key's output; nodes of one chain whose
declared keys differ in number are copied whole into every chunk
(planner.rs:428); a list that returns no keys makes its consumer run once,
without a key; a chain that depends on itself through another is never planned; an input
whose name begins with `_` adds no dependency to a partitioned item (coordinator.rs:549).
The pipelines of `execution` avoid these and those above: there, declared keys
read only declared keys, and a fan-in shares its pool of 2 with at least two
chunks of keys.  Workers: an exception in `_materialize` ends a whole batch in batch mode,
against the comment at _worker.py:428-430; the branches of `parallel()` write to paths of
their node, so concurrent runs overwrite one another's; temporary files beside local
artifacts are never swept; a process that is stopped when the executor dies is left to
the operating system; the answer to a `parallel()` call may be taken by another thread than
its caller's after a time limit (`ResponseToCaller`).  Stores: S3's answer to a put that
met another in progress counts as an error, not as a conflict.  Server: `Run.wait` gives up
after 600 s by default, the deadline of a run, whose clock starts later; a run that is fired
while the server stops may be left behind; a failed write of `persist_fired` makes the
catch-up after a restart fire again.

Run `worker_pool` keeps all faults on and shows that safety survives them;
`worker_pool_ends` leaves out what these findings show to hang (death or
timeout of a blocked process, failing spawns, nested frozen parents).

## The proofs

The first part of `WorkerPoolProofs` is about `Coordinator` alone and proves for every phase,
every retry budget and every bound:

- `Core`: `Spec => []CoreInv`, the inductive invariant;
- from it `TypeCorrect`, `Accounted`, `DispatchedInOrder`,
  `FailuresReachReaders` and `PendingExact`, which state `TypeOK`,
  `ItemsAccountedFor`, `DispatchedAfterUpstreams`, `FailurePropagates` and
  `PendingIsUnsatisfied`;
- `BudgetKept`, the retry budget (`AttemptsWithinBudget`);
- `CoordinatorKeepsContract`, that `Coordinator` implements `StepContract`
  (`ImplementsContract`).

The only assumption is `CoordinatorAssumption` (the constants' types, and that
no upstream is both a data and an ordering dependency of the same item, as
`load_phase` ensures); TLC evaluates it in every run.  Acyclicity is not needed.

Why the invariant has these parts: that a released item may run follows from
`pending` being exact; `pending` stays exact only if every failure has already
reached its readers, since otherwise an item whose pending set empties might
still need a skipped input; and that a resolution touches only items that wait
needs every item to be in one place.  The lemmas are about any coordinator `c` that satisfies
the invariant and the one an operation makes of it, so that the pool's proofs, where one step
of the loop is several operations, use them too.  The argument for a resolution
(`ResolutionKeeps`) rests on two facts about the least set: it is closed under
the skip rules (`SkippedIsClosed`) and contained in each closed set
(`SkippedIsLeast`), from which `SkippedSet` gets that the skipped items are
exactly the live readers of what is lost.  The other actions move one item
between places (`MoveKeeps`, `QueueKeeps`, `ForkKeeps`).

The budget adds `BudgetInv`: what runs has been charged, so that a failure without a
retry has spent all of it, and whatever may still start (queued, pending, in backoff, or
an id not handed out yet) has an attempt left, so that no dispatch exceeds it.  For the
contract, `StatusIs` says that the status of a step is the one place it is in, and
`ReadersSkipped` that the steps a failure skips, with those skipped before, are the readers
the contract names; a parked parent is still running and a backoff is a kind of waiting, so
`Requeue` and `Parallel` are stutters.

The second part proves of the loop and its workers, for any phase, pool size, pattern of
`parallel()` calls and number of crashes, errors and failed spawns:

- `PoolKeepsCoordinator` and `PoolBudget`: `CoreInv` and `AttemptsWithinBudget` hold under the
  loop, whose steps call the coordinator several times, for the items of a lost lease one after
  the other;
- `LeasesMatch` (`LeasesMatchExecuting`) and `NoOrphans` (`EveryProcessTracked`);
- `PoolKeepsContract`, that `WorkerPool` implements `StepContract` (`ImplementsContract`).

The agreement of leases and `executing` is not inductive.  A lease that is no dispatch is that
of a resumed parent, and `resume_frozen` leaves such a lease correct only because a parent is
resumed once, when its groups are all complete; so `PoolInv` also says (`Blocked`) that a stopped
worker's parent is parked and leased by nobody, that each has one stopped worker, and that every
group that is not complete has a stopped parent, and (`Counted`) that a group's counter is the
number of its branches that ended.  Worker ids are handed out once (`Named`), or a lease could
be entered under the id of a stopped worker.  `TrackInv` is the invariant behind `NoOrphans`: a
process whose `disconnected` is on the way is dead, so that forgetting the worker then
forgets no process, and no worker id has a process before it is handed out.

The last part adds what the processes do, again for any phase, pool size, estimates and
pattern of calls, with no premise on what is pulled together or how many steps call
`parallel()`:

- `OneExecution` (`OneLiveExecution`), `AnswersAreComplete` (`AnsweredWhenComplete`) and the
  action property `LostIsUncharged` (`UnstartedUncharged`);
- `LostByKill` (the action property `LostOnlyByKill`): a step leaves the books in one way only,
  that of `MCLostParent.cfg` (with whose constants TLC finds it to hold).  `NothingLost` itself
  holds with one caller, as in run `worker_pool`, and is only model-checked.

What is exempt is what the code leaves open, not what a premise rules out: the steps that
a process keeps when it is stopped in `parallel()` (`kept`).  `MCDoubleRun.cfg` shows that
these are executed twice; everything else must stay right although such a process goes on with
them, fails, reports, or calls `parallel()` from one of them.

`HandInv` says of every process that goes on that what it has in hand was leased to it, or
is the parent it is stopped in (`Booked`), but for `kept`; that nothing is twice in hand; and
that what it has reported and the loop has not heard is reported once, is leased to it and
no longer in hand (`Tells`).  With the agreement of leases and books in `PoolInv` this gives
`OneLiveExecution`.  `CalmInv` is about when a process speaks: one from which nothing was taken
back has one batch at a time, says nothing after a failure, and while it waits for an answer
nothing but that it gave up; so an answer meets the call it is for (`Steady`).
`LostIsUncharged` needs no more than `PoolInv`: `RemoveFirst` and `return_leases` give the rest
of a lease list, in order, with the attempt of each given back.  For `LostByKill`, what can go
missing is a parked parent, as all else is dispatched or queued (`KeptOn`).  TLC checked
`PoolInv`, `TrackInv` and `HandInv` first, with the constants of `MCWorkerPool.cfg`.

`WorkerProcessProofs` proves of one process, for any items, batches, time limits and calls:

- `InTurn`: `Spec => []TurnInv`, the inductive invariant (what is left to do is the batch without
  what is answered and the item at hand), and from it `BlocksRight` (`BlockedExactly`);
- `AnswersInOrder` (`AnswersFollowBatch`, the process's half of `AnsweredInOrder`), also where a
  stop comes late and whatever is sent behind a step that calls `parallel()`.

The loop's half, `LeasesFollow`, is only model-checked.
`BlockInv` says that the set of what is unavailable is what failed or was blocked, and that an
item is at its function only if nothing it reads is in there.  `LeasesFollow` does not hold of
the code as it is: a step that is sent behind one that calls `parallel()` is no longer leased
when the worker is frozen (run `worker_process` sends callers alone; the rest that such a
worker keeps is the subject of `WorkerPool`), and with `PromptStop = FALSE` a failure is said after
the call (see above).  That batches are neither empty nor name a step twice (`WorkerAssumption`)
is how `assign_ready` leases.  TLC checked both invariants first, with the constants of
`MCWorkerProcess.cfg` and two more batches, three of them sent.

`StateSyncProofs` proves for any number of runs, machines and retries:

- `SyncTypeCorrect` (`TypeOK`) and `RetriesPaidFor` (`ConflictsPaidFor`), with
  overlapping processes, kills anywhere and failing transfers;
- under `Exclusive` (processes of a machine do not overlap, and none is killed
  between its first write and its checkpoint): `RowsOnce` (`RecordedOnce`) and
  `SharesKeepPromise`, that `StateSync` implements `SharedLedger`.

`SyncTypeCorrect` needs that a run about to push has a main file (`FileThere`).
`RetriesPaidFor` needs to know where a conflict is accounted for: by the
generation the run has read (`PaidByToken`).  For the last two the invariant is
`Apart`.  One run at a time is active on a machine (`Solo`), and only between
its first write and its checkpoint is there a WAL (`WalClean`), so what a run
sees is what it pulled and wrote; nobody else has seen its rows (`Private`), so a
replay appends them once (`Once`); from its replay to its push its file has them
(`Written`); and while its token is current the file has all that is shared
(`Fresh`), so the conditional upload drops nothing.  The premise cannot be
dropped: `MCLostRows.cfg` and `MCRecordedTwice.cfg` violate its first half,
`MCStaleWal.cfg` the second.  `StateSyncAssumption` holds the constants' types.

`ServerRunsProofs` proves for any jobs, crons, slots and bounds:

- `EndsTold` (`EndsAsCaused`), `NoOverlap` (`JobsNeverOverlap`);
- `NoTickLost`, that `PromptTicks` implies `[]DueIsFired`.

The invariant `IInv` says where a run's record, its task, its place in the queue and its
tokens must agree; for the first, that `timed_out` and `cause` tell the same order of
deadline and cancellation; for the second, that the scheduler's last handle of a job is
the only run of the job that is not over (`LastHandleIsLive`), which survives the sweep since
only finished records are swept.  The third needs what the scheduler knows while it is within
a second (which due jobs it has not looked at yet) and, with `PromptTicks`, that no second
passes while it does.

`PickleTypeProofs` proves, for pickles of any length over any classes, functions and strings,
`PickleTypes` (`TypeOK`) and `PickleLabels` (`LabelsMatch`): the label of an object is its type, or
the function that was called for it, whatever that returned.  The invariant is that
both stacks and memos have the same length, marks at the same places (they say how far an
opcode reaches) and, until a DUP, at each place a label that fits the object.  There is
a lemma for each kind of opcode.  `PickleAssumption` holds the constants' types.

`StateBlobProofs` proves `PushesCompareAndSwap`: on each kind of store, for any number of clients
and runs, `StateBlob` implements `CasRegister` (`ImplementsRegister`).  Its premises are
`PutsOnce`, no SDK sends a put twice and no unrelated error reads like a refusal, which cannot be
dropped (see above), and `NoneIsNoToken`.  The invariant says that every token is that of the
object as it is or was (`OldToken`), so that no token fits what is written next; that a client
whose token is current works on what the object holds (`Current`), which on a directory needs the
lock; that a push writes what was pulled and its own run (`Written`), and that a run reaches
others only through the object (`Private`).

`ArtifactStoreProofs` proves, for any steps, formats, caches, threads and workers, with local and
remote stores and any number of faults:

- `FilesHeld`: `Spec => []FilesInv`, the inductive invariant, and from it `Tidied`
  (`LeftByCrashesOnly`);
- `HandedRight` (`HandedAsStored`), if what a step reads under "pandas", the frame type under which
  the cache keeps results as they were returned, is read from its file as it was (`ReadAlike`);
- `ReportedRight` (`ReportedIsStored`), if no two steps have a sink in common (`OwnSinks`).

`FilesInv` says that each worker is at a place of its program (`ReadsInTurn`: its threads are those
of the one parameter being read; `WritesInTurn`: outcomes and writes to do make up the whole list) and
that a temporary file has one holder (`OneHolder`, which is mkstemp's), so that a step of one worker
touches no file of another but by the sweep.  `CacheInv` then says of every value on its way to a
function (file fetched, value converted by a thread, entry of the cache, parameter already read)
that it is what the store gives for its source; `WrittenInv` of everything between `Fill` and
the reports that it is in the store, which survives all that others do because an artifact is only
ever replaced by itself and a sink is written for one step.  Neither premise can be dropped:
`MCHotResult.cfg` violates the first property, run `clobbered_sink` the second.  TLC checked the
three invariants first, with the constants of `MCArtifactStore.cfg`.  The model
goes through inputs by folds (`LookUpAll`, `Given`), and nothing may be assumed of a fold
before the recursive function behind it is known to exist: the module's first lemmas show
that, by the least length for which there were none, and then that what each step of a fold keeps,
the fold keeps.  `StoreAssumption` holds the constants' types.

`ExecutionProofs` proves, for any pipelines, lists, pool size, edits, observations and sequences of
runs, whether they end, fail, are cancelled or die:

- `HashTells`: in any two worlds an id has the same token exactly when a run from scratch computes
  the same output for it;
- if `PlanFits`: `InputsDelivered` (`InputsArrive`), `CacheIsRight` (`AsFromScratch`),
  `NothingRunsAgain` (`OnlyWhatChanged`), `RefreshReaches` (`CascadeReaches`) and
  `DecisionsAreRight`, that every key is decided by the hash of all it is computed from, served only
  if that is recorded and, unless a refresh is asked for, run only if it is not (`DecidedAsMeant`,
  defined there).

`PlanFits` is what these owe to the declarations and to the planner.  Of the declarations
(`KeysFitIn`): a step that reads key by key finds its key there, and the keys of a collected node
are not its own.  Of the plan, when a phase is decided (`StepsInOrder`): its steps are new, each
comes after all it reads, and the sensors among that have run.  While a phase runs
(`InputsInReach`): no id is dispatched twice, and what one reads is an output already or in the
phase too, unless it is collected.  It says nothing of what a hash covers, of what the rows hold, of
what an output is or of how an input is found, which is what the theorems are about.  Run `execution`
checks it for the plans of all its pipelines.  It is false of what the findings are about and of the
plans those pipelines avoid (see above): the constants of `MCStaleHit.cfg`, `MCKeyAdded.cfg` and
`MCWaitCycle.cfg` violate it, the first two together with a conclusion, so it cannot be dropped.

The invariant `IInv` has three parts.  Every row was recorded in some world, under the hash and with
the output its id has there (`RowsTell`): that world is gone, but by `HashTells` a row found under the
hash that an asset has now holds the output it has now, and a row with that output is under that
hash.  Every decision so far is right (`DecidedRight`): each hash is that of its id in this world,
which holds because all tokens it is made of were there when it was made (`HashIsRight`); what is
cached is recorded and what is not is not; and whatever is decided and behind the asset of a refresh is
among the refreshed (`Cascaded`).  And every output is the right one: one that is served by the rows,
one that is computed because its inputs arrive (`Arrives`, by cases on how `build_provided_inputs`
and `build_step_json` find an input) and are right, which for those within the phase is by the least
node whose output would be wrong (`ComputesRight`).  `FromScratch`, `HashFor` and `Computed` are
recursive, and a phase is decided by a fold: each is known to satisfy its equation only once something
does, which the module shows from the numbering of the nodes (`AllSolved`) and of the steps
(`FoldsExist`).
`ExecutionAssumption` has that numbering: pipelines are acyclic.  TLC checked `RowsTell` and
`DecidedAsMeant` first, with the constants of `MCExecution.cfg`.

Checked by TLC only: `EveryKeyOnce`, `PlanFits` and `NoWaitCycle`, which depend on what the planner
makes of a pipeline, and `DryRunAgrees`, which compares two walks of a plan: chunks, packing, merging
and filters are built of `SelectSeq`, of which the prover knows nothing, sorted sets and folds of
folds; and `WalksAgree`, whose recursive operators the proof system cannot take.
Liveness (`EveryStepTerminal`, `StepsAnswered`, `EndsWithExecutor`, both `EveryRunEnds`) is
out of its reach too.

## Not modelled

- Pairing a spawned process with the connection it makes, a connection's cancelled reads,
  heartbeats and progress (io_loop.rs): they concern the transport below the messages that
  `WorkerPool` takes as its steps.
- `DagWatch` (watch.rs): a flag and a generation around a cache that only saves a parse.
- The numbers of the cost model; only what it lets a pull lease is modelled.
- Parsing, name resolution and hashing of user sources (`parse.rs`, `cone.rs`, `envdeps.rs`):
  sequential functions of large inputs, best served by their tests.
- The command line, `api.py`, configuration files, output and formatting; the read-only
  routes of the server and the rest of `status`.
- Partitions of several dimensions, sinks and reports in `Execution`.

What could follow: proofs that chunks cover a step's keys once and that merging and packing keep the
order of steps, which would give `PlanFits` for the declarations it holds of.
