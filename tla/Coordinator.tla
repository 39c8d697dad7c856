---------------------------- MODULE Coordinator ----------------------------
(***************************************************************************)
(* The in-memory scheduler of one phase of a run                           *)
(* (crates/barca-core/src/coordinator.rs).  The code is a pure state       *)
(* machine owned by the I/O loop: its maps and sets are the fields of the  *)
(* record `co`, its methods are operators from a coordinator (and an item) *)
(* to the next coordinator, so that a handler of the I/O loop (module      *)
(* WorkerPool) can be the composition of the calls it makes.               *)
(*                                                                         *)
(* Item ids are the counter values the code hands out: 0 .. NumItems-1 for *)
(* the items load_phase creates, then one per parallel() branch.  Item     *)
(* payloads, artifacts and error texts are left out.                       *)
(***************************************************************************)
EXTENDS Integers, Sequences, FiniteSets, Functions

CONSTANTS
    NumItems,   \* how many items load_phase creates
    DataDeps,   \* DataDeps[i]: the upstreams of i with DepKind::Data
    OrderDeps,  \* OrderDeps[i]: the upstreams of i with DepKind::Ordering
    Retries,    \* Retries[i]: spec.retries, the total number of attempts
    Backoff,    \* the items whose retry_backoff_seconds is positive
    MaxItems,   \* bound: ids that parallel() may take the counter to
    MaxWidth    \* bound: branches of one parallel() call

PhaseItem == 0 .. NumItems - 1
ItemId    == 0 .. MaxItems - 1

ASSUME CoordinatorAssumption ==
    /\ NumItems \in Nat /\ MaxItems \in Nat /\ NumItems <= MaxItems
    /\ MaxWidth \in Nat \ {0}
    /\ DataDeps \in [PhaseItem -> SUBSET PhaseItem]
    /\ OrderDeps \in [PhaseItem -> SUBSET PhaseItem]
    /\ \A i \in PhaseItem : DataDeps[i] \cap OrderDeps[i] = {}
    /\ Retries \in [PhaseItem -> Nat]
    /\ Backoff \in SUBSET PhaseItem

VARIABLE co

(***************************************************************************)
(* The items' specs.  A parallel() branch has no dependencies, one attempt *)
(* and no backoff (io_loop.rs builds its spec).                            *)
(***************************************************************************)
Data(i)       == IF i \in PhaseItem THEN DataDeps[i] ELSE {}
Order(i)      == IF i \in PhaseItem THEN OrderDeps[i] ELSE {}
RetryLimit(i) == IF i \in PhaseItem THEN Retries[i] ELSE 1

Items(c)    == 0 .. c.next_item_id - 1
Terminal(c) == c.done \cup c.failed \cup c.skipped

\* The upstreams of i that still hold it back: a data dependency until it is
\* done, an ordering dependency until it is done, failed or skipped.
Unsatisfied(c, i) == (Data(i) \ c.done) \cup (Order(i) \ Terminal(c))

(***************************************************************************)
(* Loading.  A fresh coordinator is filled in id order: finalize_item puts *)
(* an item on the ready queue, or in `pending` with what holds it back.    *)
(* `pending` is total here: {} stands for "no entry".                      *)
(***************************************************************************)
InIdOrder(S) == { s \in [1 .. Cardinality(S) -> S] :
                    \A j, k \in 1 .. Cardinality(S) : j < k => s[j] < s[k] }

LoadPhase(ready) ==
    [next_item_id  |-> NumItems,
     attempts      |-> [i \in ItemId |-> 0],
     pending       |-> [i \in PhaseItem |-> Data(i) \cup Order(i)],
     ready         |-> ready,
     executing     |-> {},
     done          |-> {},
     failed        |-> {},
     skipped       |-> {},
     waiting_retry |-> {},
     groups        |-> << >>]

Init ==
    \E s \in InIdOrder({i \in PhaseItem : Data(i) \cup Order(i) = {}}) :
        /\ Range(s) = {i \in PhaseItem : Data(i) \cup Order(i) = {}}
        /\ co = LoadPhase(s)

(***************************************************************************)
(* Scheduling.                                                             *)
(***************************************************************************)
\* The entries of s that are in S (VecDeque::retain).  The first two cases
\* spell out what SelectSeq does when it drops nothing, or everything.
KeepIn(s, S) ==
    IF \A k \in DOMAIN s : s[k] \in S THEN s
    ELSE IF \A k \in DOMAIN s : s[k] \notin S THEN << >>
    ELSE SelectSeq(s, LAMBDA x : x \in S)

\* k calls of next_ready: the first k ready items are dispatched.
Lease(c, k) ==
    LET batch == { c.ready[j] : j \in 1 .. k }
    IN [c EXCEPT !.ready     = SubSeq(c.ready, k + 1, Len(c.ready)),
                 !.executing = c.executing \cup batch,
                 !.attempts  = [i \in ItemId |->
                                  IF i \in batch THEN c.attempts[i] + 1
                                                 ELSE c.attempts[i]]]

\* Mutants: the dispatch that never happened is charged; the returned steps
\* are not queued again.
ReturnCharged(c, leases) ==
    LET back == KeepIn(leases, c.executing)
    IN [c EXCEPT !.ready     = back \o c.ready,
                 !.executing = c.executing \ Range(back)]

ReturnUnqueued(c, leases) ==
    [c EXCEPT !.executing = c.executing \ Range(leases)]

\* return_leased for each entry of `leases`, last first: what was executing
\* goes back to the front of the queue in its old order, uncharged.
ReturnLeases(c, leases) ==
    LET back == KeepIn(leases, c.executing)
    IN [c EXCEPT !.ready     = back \o c.ready,
                 !.executing = c.executing \ Range(back),
                 !.attempts  = [i \in ItemId |->
                                  IF i \in Range(back) /\ c.attempts[i] > 0
                                  THEN c.attempts[i] - 1
                                  ELSE c.attempts[i]]]

\* requeue: the backoff of i elapsed.
RequeueItem(c, i) ==
    IF i \in c.waiting_retry
    THEN [c EXCEPT !.waiting_retry = c.waiting_retry \ {i},
                   !.ready         = Append(c.ready, i)]
    ELSE c

(***************************************************************************)
(* Resolution of an item i.  `lost` is {i} when i failed and {} when it    *)
(* completed.  cascade_failure and unblock_dependents are mutually         *)
(* recursive walks along the dependents; what they mark skipped is the     *)
(* least set S closed under their two rules:                               *)
(*   - a data dependent of a failed or skipped item is skipped, whatever   *)
(*     else it waits for;                                                  *)
(*   - a pending item whose last unsatisfied upstream is resolved now, but *)
(*     one of whose inputs had failed before, is skipped (should_skip).    *)
(* Items already terminal are passed over.                                 *)
(***************************************************************************)
Live(c, i) == PhaseItem \ (Terminal(c) \cup {i})

\* Mutants: the cascade stops at the direct dependents, or follows ordering
\* edges too.
ClosedShallow(c, i, lost, S) ==
    \A d \in Live(c, i) : Data(d) \cap lost # {} => d \in S

ClosedAlongOrder(c, i, lost, S) ==
    \A d \in Live(c, i) : (Data(d) \cup Order(d)) \cap (lost \cup S) # {} => d \in S

ClosedUnderSkip(c, i, lost, S) ==
    \A d \in Live(c, i) :
        \/ Data(d) \cap (lost \cup S) # {}
        \/ /\ c.pending[d] # {}
           /\ c.pending[d] \subseteq {i} \cup S
           /\ Data(d) \cap (c.failed \cup c.skipped) # {}
        => d \in S

SkippedWith(c, i, lost) ==
    { d \in Live(c, i) :
        \A S \in SUBSET PhaseItem : ClosedUnderSkip(c, i, lost, S) => d \in S }

\* Mutant: an item is released by its first upstream instead of its last.
ReleasedTooEarly(c, i, lost) ==
    LET S == SkippedWith(c, i, lost)
    IN { d \in Live(c, i) \ S : c.pending[d] \cap ({i} \cup S) # {} }

\* The items that resolving i makes ready: nothing holds them back any more.
ReleasedWith(c, i, lost) ==
    LET S == SkippedWith(c, i, lost)
    IN { d \in Live(c, i) \ S :
           c.pending[d] # {} /\ c.pending[d] \subseteq {i} \cup S }

\* The order in which they join the queue.  Direct dependents come in id
\* order; inside a cascade the depth-first walk decides, abstracted to any.
ReleaseOrders(c, i, lost) ==
    LET R == ReleasedWith(c, i, lost)
    IN { s \in [1 .. Cardinality(R) -> R] :
           /\ Range(s) = R
           /\ \A j, k \in 1 .. Cardinality(R) : s[j] = s[k] => j = k
           /\ SkippedWith(c, i, lost) = {} =>
                \A j, k \in 1 .. Cardinality(R) : j < k => s[j] < s[k] }

\* completed_count of the group that i is a branch of.
CountBranch(c, i) ==
    [g \in DOMAIN c.groups |->
        IF i \in c.groups[g].items
        THEN [c.groups[g] EXCEPT !.completed = @ + 1]
        ELSE c.groups[g]]

\* Mutant: what was skipped is not taken off.
KeepsSkipped(c, i, S) ==
    [d \in PhaseItem |->
        IF d \in S THEN {}
        ELSE IF d \in Live(c, i) THEN c.pending[d] \ {i} ELSE c.pending[d]]

\* `pending` once i and the items S it skips are resolved.
PendingAfter(c, i, S) ==
    [d \in PhaseItem |->
        IF d \in S THEN {}
        ELSE IF d \in Live(c, i) THEN c.pending[d] \ ({i} \cup S)
        ELSE c.pending[d]]

\* What completion and permanent failure share: i leaves `executing`, its
\* group counts it, its dependents are skipped, released or keep waiting.
Resolve(c, i, lost, order) ==
    LET S == SkippedWith(c, i, lost)
    IN [c EXCEPT !.executing = c.executing \ {i},
                 !.groups    = CountBranch(c, i),
                 !.skipped   = c.skipped \cup S,
                 !.pending   = PendingAfter(c, i, S),
                 !.ready     = KeepIn(c.ready, ItemId \ S) \o order]

OnItemCompleted(c, i, order) ==
    [Resolve(c, i, {}, order) EXCEPT !.done = c.done \cup {i}]

\* Mutant: one attempt too many.
CanRetryOnceMore(c, i) == c.attempts[i] <= RetryLimit(i)

CanRetry(c, i) == c.attempts[i] < RetryLimit(i)

\* Mutant: a step that will be retried still counts as executing.
RetryStaysExecuting(c, i) ==
    IF i \in Backoff
    THEN [c EXCEPT !.waiting_retry = c.waiting_retry \cup {i}]
    ELSE [c EXCEPT !.ready = Append(c.ready, i)]

\* on_item_failed while attempts remain: parked for its backoff, or back of
\* the queue at once.
RetryItem(c, i) ==
    IF i \in Backoff
    THEN [c EXCEPT !.executing     = c.executing \ {i},
                   !.waiting_retry = c.waiting_retry \cup {i}]
    ELSE [c EXCEPT !.executing = c.executing \ {i},
                   !.ready     = Append(c.ready, i)]

\* Mutant: dependents are unblocked where they should be skipped.
FailUnblocks(c, i, order) ==
    [Resolve(c, i, {}, order) EXCEPT !.failed = c.failed \cup {i}]

\* on_item_failed when the budget is spent.
FailItem(c, i, order) ==
    [Resolve(c, i, {i}, order) EXCEPT !.failed = c.failed \cup {i}]

OnItemFailed(c, i, order) ==
    IF CanRetry(c, i) THEN RetryItem(c, i) ELSE FailItem(c, i, order)

FailureOrders(c, i) == IF CanRetry(c, i) THEN {<< >>}
                                         ELSE ReleaseOrders(c, i, {i})

(***************************************************************************)
(* parallel(): the parent stops executing, n fresh branches join the queue *)
(* and a group counts them.  A group's id is its position in `groups`.     *)
(***************************************************************************)

OnParallelRequested(c, parent, n) ==
    LET first == c.next_item_id
    IN [c EXCEPT !.executing    = c.executing \ {parent},
                 !.next_item_id = first + n,
                 !.ready        = c.ready \o [k \in 1 .. n |-> first + k - 1],
                 !.groups       = Append(c.groups,
                                    [parent    |-> parent,
                                     items     |-> first .. first + n - 1,
                                     completed |-> 0])]

\* Mutant: complete one branch too early.
AlmostComplete(c, g) == c.groups[g].completed + 1 >= Cardinality(c.groups[g].items)

IsGroupComplete(c, g) == c.groups[g].completed = Cardinality(c.groups[g].items)

IsFinished(c) == Items(c) \subseteq Terminal(c)

(***************************************************************************)
(* The coordinator under the protocol of its only caller: an item is       *)
(* resolved while it is dispatched, and a parent of a parallel() group     *)
(* resumes (outside `executing`: the code does not put it back) only after *)
(* every group it asked for is complete.                                   *)
(***************************************************************************)
Queued(c) == Range(c.ready) \cup { i \in PhaseItem : c.pending[i] # {} }
Parked(c) == Items(c) \ (Queued(c) \cup c.executing \cup c.waiting_retry
                                   \cup Terminal(c))
Resumed(c) == { p \in Parked(c) :
                  \A g \in DOMAIN c.groups :
                      c.groups[g].parent = p => IsGroupComplete(c, g) }
Running(c) == c.executing \cup Resumed(c)

Dispatch ==
    /\ co.ready # << >>
    /\ co' = Lease(co, 1)

Complete(i) ==
    /\ i \in Running(co)
    /\ \E order \in ReleaseOrders(co, i, {}) : co' = OnItemCompleted(co, i, order)

Fail(i) ==
    /\ i \in Running(co)
    /\ \E order \in FailureOrders(co, i) : co' = OnItemFailed(co, i, order)

ReturnLeased(i) ==
    /\ i \in co.executing
    /\ co' = ReturnLeases(co, <<i>>)

Requeue(i) ==
    /\ i \in co.waiting_retry
    /\ co' = RequeueItem(co, i)

Parallel(p, n) ==
    /\ p \in Running(co)
    /\ co.next_item_id + n <= MaxItems
    /\ co' = OnParallelRequested(co, p, n)

\* run_phase returns when everything is resolved.
Finish ==
    /\ IsFinished(co)
    /\ UNCHANGED co

Next ==
    \/ Dispatch
    \/ \E i \in Items(co) : Complete(i) \/ Fail(i) \/ ReturnLeased(i) \/ Requeue(i)
    \/ \E p \in Items(co), n \in 1 .. MaxWidth : Parallel(p, n)
    \/ Finish

Spec == Init /\ [][Next]_co

-----------------------------------------------------------------------------
(***************************************************************************)
(* Properties.                                                             *)
(***************************************************************************)
Group == [parent : ItemId, items : SUBSET ItemId, completed : Nat]

\* The coordinator's fields hold what the code's types allow, over the ids
\* handed out so far.
TypeOK ==
    /\ co \in [next_item_id  : Nat,
               attempts      : [ItemId -> Nat],
               pending       : [PhaseItem -> SUBSET PhaseItem],
               ready         : Seq(ItemId),
               executing     : SUBSET ItemId,
               done          : SUBSET ItemId,
               failed        : SUBSET ItemId,
               skipped       : SUBSET ItemId,
               waiting_retry : SUBSET ItemId,
               groups        : Seq(Group)]
    /\ co.next_item_id \in NumItems .. MaxItems
    /\ Range(co.ready) \cup co.executing \cup co.done \cup co.failed
         \cup co.skipped \cup co.waiting_retry \subseteq Items(co)
    /\ \A g \in DOMAIN co.groups :
         co.groups[g].items \cup {co.groups[g].parent} \subseteq Items(co)

\* The step accounting of coordinator.rs: an item is in one place.  No two of
\* the queue, `pending`, `executing`, `waiting_retry`, `done`, `failed` and
\* `skipped` share an item, no item is queued twice, and the only items in
\* none of them are parents blocked in, or resumed from, a parallel() call.
ItemsAccountedFor ==
    LET place == << Range(co.ready), {i \in PhaseItem : co.pending[i] # {}},
                    co.executing, co.waiting_retry, co.done, co.failed, co.skipped >>
    IN /\ \A a, b \in 1 .. 7 : a # b => place[a] \cap place[b] = {}
       /\ \A j, k \in DOMAIN co.ready : co.ready[j] = co.ready[k] => j = k
       /\ \A i \in Parked(co) :
            \E g \in DOMAIN co.groups : co.groups[g].parent = i

\* An item that may run, runs or ran has all its data dependencies done and
\* all its ordering dependencies resolved: finalize_item, unblock_dependents
\* and cascade_failure release an item neither early nor by the wrong edge.
DispatchedAfterUpstreams ==
    \A i \in Range(co.ready) \cup co.executing \cup co.waiting_retry
                \cup co.done \cup co.failed \cup Parked(co) :
        Unsatisfied(co, i) = {}

\* A failure reaches all it must and nothing else: an item is skipped exactly
\* when one of its data dependencies failed or was skipped, so none waits for
\* an input that will never come (cascade_failure).
FailurePropagates ==
    \A i \in PhaseItem :
        i \in co.skipped <=> Data(i) \cap (co.failed \cup co.skipped) # {}

\* A pending item waits for exactly what is still unsatisfied: nothing it
\* waits for was resolved without telling it, or it would wait for ever.
PendingIsUnsatisfied ==
    \A i \in PhaseItem :
        co.pending[i] # {} => co.pending[i] = Unsatisfied(co, i)

\* The documented retry budget (patterns/06-error-handling.md): an item is
\* dispatched at most `retries` times (once when that is 0) however its
\* dispatches, failures and returned leases interleave; what is queued again
\* has an attempt left, and nothing fails before its budget is spent.
Budget(i) == IF RetryLimit(i) = 0 THEN 1 ELSE RetryLimit(i)

AttemptsWithinBudget ==
    \A i \in Items(co) :
        /\ co.attempts[i] <= Budget(i)
        /\ i \in Range(co.ready) \cup co.waiting_retry => co.attempts[i] < Budget(i)
        /\ i \in co.failed => co.attempts[i] = Budget(i)

(***************************************************************************)
(* The abstract contract: what the coordinator does to a phase item, seen  *)
(* from outside.  An item in backoff waits; a parent blocked in parallel() *)
(* is running.                                                             *)
(***************************************************************************)
StepStatus(c) ==
    [i \in PhaseItem |->
        CASE i \in c.done    -> "done"
          [] i \in c.failed  -> "failed"
          [] i \in c.skipped -> "skipped"
          [] i \in Queued(c) \cup c.waiting_retry -> "waiting"
          [] OTHER -> "running"]

Contract == INSTANCE StepContract WITH
                Step   <- PhaseItem,
                Inputs <- DataDeps,
                After  <- OrderDeps,
                status <- StepStatus(co)

\* Every behaviour of the coordinator is one of the step contract: load_phase,
\* the cascade, retries, returned leases and parallel() all keep it.
ImplementsContract == Contract!Spec
============================================================================
