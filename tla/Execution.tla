----------------------------- MODULE Execution -----------------------------
(***************************************************************************)
(* Runs of one pipeline, one after another (execute in crates/barca-core/  *)
(* src/commands.rs): plan, then phase after phase decide what is cached,   *)
(* dispatch the rest and collect, then record the results.  Between runs   *)
(* the definitions and what the sensors observe may change.                *)
(*                                                                         *)
(* An output is the computation it came from: the id, the code and the     *)
(* arguments.  Functions are taken to be deterministic, so two outputs are *)
(* equal when their code and all their arguments are.  The list a node     *)
(* returns is given by its code (for a sensor, by what it observed).       *)
(*                                                                         *)
(* Bounds: MaxRuns runs, at most two targets, one failing item to a phase, *)
(* and a cancelled phase completes all that does not wait for one item.    *)
(* --no-cache decides as --refresh-all does.                               *)
(***************************************************************************)
EXTENDS RunCache

CONSTANTS
    Pipelines,  \* the pipelines as declared
    Pool,       \* pool_size
    Lists,      \* Lists[v]: the keys that version v of a list-returning node returns
    MaxRuns     \* bound: runs

Versions == DOMAIN Lists

\* Pipelines are numbered in a topological order (module Dag).
ASSUME ExecutionAssumption ==
    /\ Pool \in Nat \ {0} /\ MaxRuns \in Nat /\ 0 \in Versions
    /\ \A p \in Pipelines : Numbered(p)

VARIABLES
    dag,     \* the pipeline, resolved
    world,   \* what the next run finds: the version of each definition, each sensor's reading
    rows,    \* materializations: <<id, run hash>> -> the output of the latest success
    seen,    \* materializations.output_hash: the last recorded output of each sensor
    runs,    \* how many runs have started
    run      \* the run in progress

vars == <<dag, world, rows, seen, runs, run>>

(***************************************************************************)
(* The run in progress.                                                    *)
(***************************************************************************)
NoRun == [at |-> 0, plan |-> <<>>, flight |-> <<>>, goals |-> {}, needed |-> {},
          policy |-> [how |-> "aware"], stop |-> "no",
          decided |-> [hashes |-> <<>>, sensorOut |-> <<>>, refreshed |-> {},
                       cached |-> {}],
          outputs |-> <<>>, failed |-> {}]

Idle    == run.at = 0
Running == run.flight # <<>>
Between == run.at > 0 /\ ~ Running

\* A map after new entries were inserted, which replace those of the same key.
Insert(new, map) ==
    [x \in DOMAIN new \cup DOMAIN map |-> IF x \in DOMAIN new THEN new[x] ELSE map[x]]

\* Several targets: a failure stops only what depends on it.
KeepGoing == Cardinality(run.goals) > 1

\* What tells the code of n in the world w: for a sensor, what it observes too.
CodeIn(w, n) == IF dag.kind[n] = "sensor" THEN <<w.version[n], w.reading[n]>>
                                          ELSE <<w.version[n]>>
Code(n) == CodeIn(world, n)
ListOf(output) == Lists[Last(output.code)]

\* The lists that are available: outputs of unpartitioned nodes.
KnownLists ==
    [m \in { m \in Nodes(dag) : <<m, NoKey>> \in DOMAIN run.outputs } |->
        ListOf(run.outputs[<<m, NoKey>>])]

(***************************************************************************)
(* Starting a run: the plan is restricted to what the targets need; get    *)
(* without targets covers everything but tasks.                            *)
(***************************************************************************)
Needed(goals) ==
    IF goals = {} THEN { n \in Nodes(dag) : dag.kind[n] # "task" }
                  ELSE SubgraphMany(dag, goals)

Targets == { g \in SUBSET Nodes(dag) :
                /\ Cardinality(g) <= 2
                /\ \/ \A n \in g : dag.kind[n] # "task"       \* get
                   \/ \A n \in g : dag.kind[n] # "asset" }    \* run

\* --refresh names an asset that the run covers, a target itself only for get.
Policies(goals) ==
    {[how |-> "aware"], [how |-> "refresh_all"]} \cup
    [how : {"refresh"}, cascade : BOOLEAN,
     name : { n \in Needed(goals) : dag.kind[n] = "asset" }]

\* Between two runs a definition may be edited, or a sensor see something new.
Changes(w) ==
    {w} \cup { [w EXCEPT !.version[n] = v] : n \in Nodes(dag), v \in Versions }
        \cup { [w EXCEPT !.reading[n] = v] :
                  n \in { m \in Nodes(dag) : dag.kind[m] = "sensor" }, v \in Versions }

Start(goals, policy) ==
    /\ Idle /\ runs < MaxRuns
    /\ runs' = runs + 1
    /\ run' = [NoRun EXCEPT !.at = 1, !.goals = goals, !.policy = policy,
                            !.needed = Needed(goals),
                            !.plan = PlanFor(dag, Pool, Needed(goals))]
    /\ world' \in IF runs = 0 THEN {world} ELSE Changes(world)
    /\ UNCHANGED <<dag, rows, seen>>

(***************************************************************************)
(* A phase.  With several targets the steps behind a failed node are       *)
(* dropped first.  Cached ids become outputs at once; what is left is      *)
(* dispatched, and a phase with nothing left is over.                      *)
(***************************************************************************)
\* Mutant: any failure blocks every later step.
BlockedByAny(n) == run.failed # {}

Blocked(n) == (Subgraph(dag, n) \ {n}) \cap run.failed # {}

Unblocked(phase) ==
    IF KeepGoing /\ run.failed # {}
    THEN FilterPhase(phase, { n \in Nodes(dag) : ~ Blocked(n) }) ELSE phase

MayStart == Between /\ run.stop = "no" /\ run.at <= Len(run.plan)

\* The next phase, with the keys that are known by now.
NextPhase == ExpandPendingPartitions(Unblocked(run.plan[run.at]), KnownLists, Pool)

StartPhase ==
    /\ MayStart
    /\ LET phase   == NextPhase
           decided == DecidePhase(dag, world.version, run.policy, DOMAIN rows,
                                  run.decided, phase)
           fresh   == decided.cached \ run.decided.cached
           left    == Uncached(phase, fresh)
       IN  run' = [run EXCEPT
                      !.decided = decided,
                      !.outputs = Insert([id \in fresh |-> rows[<<id, decided.hashes[id]>>]], @),
                      !.flight  = left,
                      !.at      = IF left = <<>> THEN @ + 1 ELSE @]
    /\ UNCHANGED <<dag, world, rows, seen, runs>>

Argument(outputs, computed, x, m) ==
    LET in == Input(dag, run.flight, DOMAIN run.outputs, x, m) IN
    IF in.from = "phase" THEN { computed[y] : y \in UpstreamItem(run.flight, x, m) }
                         ELSE { outputs[id] : id \in in.ids }

\* What every item of the phase computes, given what it receives.
Computed ==
    LET computed[x \in PhaseItems(run.flight)] ==
            LET n == IdOf(run.flight, x)[1] IN
            [id   |-> IdOf(run.flight, x), code |-> Code(n),
             args |-> { <<r, Argument(run.outputs, computed, x, r[1])>> : r \in dag.reads[n] }]
    IN  computed

\* Everything that waits, directly or not, for an item of xs.
Behind(xs, deps) ==
    LET items == PhaseItems(run.flight)
        behind[k \in 0 .. Cardinality(items)] ==
            IF k = 0 THEN xs
            ELSE LET b == behind[k-1] IN b \cup { y \in items : deps[y] \cap b # {} }
    IN  behind[Cardinality(items)]

DataDeps == [x \in PhaseItems(run.flight) |-> DataDepsOf(dag, run.flight, x)]
AllDeps  == [x \in PhaseItems(run.flight) |->
                DataDeps[x] \cup OrderDepsOf(dag, run.flight, x)]

\* The items that become ready in the end: not those that wait for one another.
Runnable ==
    LET items == PhaseItems(run.flight)
        ready[k \in 0 .. Cardinality(items)] ==
            IF k = 0 THEN {}
            ELSE LET r == ready[k-1] IN { x \in items : AllDeps[x] \subseteq r }
    IN  ready[Cardinality(items)]

PhaseEnds == PhaseItems(run.flight) \subseteq Runnable

Collect(done) ==
    LET computed == Computed
        ids      == { IdOf(run.flight, x) : x \in done }
        sensors  == { id \in ids : dag.kind[id[1]] = "sensor" }
    IN  [run EXCEPT
            !.outputs = Insert([id \in ids |-> computed[NodeToItem(run.flight, id)]], @),
            !.decided.sensorOut = Insert([id \in sensors |-> Code(id[1])], @),
            !.flight = <<>>, !.at = @ + 1]

\* The coordinator's outcomes (module Coordinator): all items are done, or one
\* fails for good and the readers of its output, and theirs, are skipped.
PhaseDone ==
    /\ Running /\ PhaseEnds
    /\ run' = Collect(PhaseItems(run.flight))
    /\ UNCHANGED <<dag, world, rows, seen, runs>>

PhaseFails(x) ==
    /\ Running /\ PhaseEnds
    /\ run' = [Collect(PhaseItems(run.flight) \ Behind({x}, DataDeps)) EXCEPT
                  !.failed = @ \cup {IdOf(run.flight, x)[1]},
                  !.stop = IF KeepGoing THEN "no" ELSE "failed"]
    /\ UNCHANGED <<dag, world, rows, seen, runs>>

\* Cancelled while x has not finished: what was not behind x may be done.
Cancel(x) ==
    /\ Running
    /\ run' = [Collect(PhaseItems(run.flight) \ Behind({x}, AllDeps)) EXCEPT !.stop = "cancelled"]
    /\ UNCHANGED <<dag, world, rows, seen, runs>>

\* The token is also looked at before every phase.
CancelBetween ==
    /\ Between /\ run.stop = "no"
    /\ run' = [run EXCEPT !.stop = "cancelled"]
    /\ UNCHANGED <<dag, world, rows, seen, runs>>

(***************************************************************************)
(* The end: persist_run records what ran, also of a failed or cancelled    *)
(* run.  A run that dies records nothing.                                  *)
(***************************************************************************)
Over == Between /\ (run.stop # "no" \/ run.at > Len(run.plan))

Finish ==
    /\ Over
    /\ LET ran == DOMAIN run.outputs \ run.decided.cached IN
       rows' = Insert([key \in { <<id, run.decided.hashes[id]>> : id \in ran } |->
                          run.outputs[key[1]]], rows)
    /\ seen' = Insert(run.decided.sensorOut, seen)
    /\ run' = NoRun
    /\ UNCHANGED <<dag, world, runs>>

Die == ~ Idle /\ run' = NoRun /\ UNCHANGED <<dag, world, rows, seen, runs>>

Init ==
    /\ dag \in { d \in { ResolvePartitionsFrom(p) : p \in Pipelines } : Builds(d) }
    /\ world = [version |-> [n \in Nodes(dag) |-> 0], reading |-> [n \in Nodes(dag) |-> 0]]
    /\ rows = <<>> /\ seen = <<>> /\ runs = 0 /\ run = NoRun

Next ==
    \/ \E goals \in Targets : \E policy \in Policies(goals) : Start(goals, policy)
    \/ StartPhase \/ PhaseDone \/ CancelBetween \/ Finish \/ Die
    \/ \E x \in PhaseItems(run.flight) : PhaseFails(x) \/ Cancel(x)

Spec == Init /\ [][Next]_vars

(***************************************************************************)
(* What a run from scratch would compute in the world w, and the run hash  *)
(* that covers just that.                                                  *)
(***************************************************************************)
KeysIn(w, n) ==
    LET p == dag.parts[n] IN
    IF p.how = "none" THEN {NoKey}
    ELSE IF p.how = "static" THEN Range(p.keys)
    ELSE Range(Lists[Last(CodeIn(w, p.source))])

IdsIn(w, S) == UNION { { <<n, k>> : k \in KeysIn(w, n) } : n \in S }

\* The ids whose outputs the read r is meant to deliver to a step with key k.
Meant(w, k, r) ==
    IF ~ Partitioned(dag, r[1]) THEN {<<r[1], NoKey>>}
    ELSE IF r[2] = "collect" THEN IdsIn(w, {r[1]})
    ELSE {<<r[1], k>>}

FromScratch(w) ==
    LET value[id \in IdsIn(w, Nodes(dag))] ==
            [id |-> id, code |-> CodeIn(w, id[1]),
             args |-> { <<r, { value[up] : up \in Meant(w, id[2], r) }>> : r \in dag.reads[id[1]] }]
    IN  value

TokenFor(w, id, hash) ==
    IF dag.kind[id[1]] = "sensor" THEN <<hash, CodeIn(w, id[1])>> ELSE <<hash>>

HashFor(w) ==
    LET hash[id \in IdsIn(w, Nodes(dag))] ==
            <<id, w.version[id[1]],
              UNION { { TokenFor(w, up, hash[up]) : up \in Meant(w, id[2], r) } :
                          r \in dag.reads[id[1]] }>>
    IN  hash

-----------------------------------------------------------------------------

\* Every key of every node the run needs is run or served once: an id is not
\* dispatched twice, and a run that ends without failure has all of them.  With
\* several targets a failure does not keep what does not depend on it from being
\* computed.
EveryKeyOnce ==
    /\ \A x, y \in PhaseItems(run.flight) :
           IdOf(run.flight, x) = IdOf(run.flight, y) => x = y
    /\ IdsOf(run.flight) \cap DOMAIN run.outputs = {}
    /\ Over /\ run.stop = "no" =>
           /\ DOMAIN run.outputs \subseteq IdsIn(world, run.needed)
           /\ \A n \in run.needed :
                  Subgraph(dag, n) \cap run.failed = {} => IdsIn(world, {n}) \subseteq DOMAIN run.outputs

\* What a run relies on.  Of the declarations: a step that reads key by key
\* finds its key there, and keys of a collected node are not its own.
KeysFitIn(w) ==
    \A n \in Nodes(dag) : \A k \in KeysIn(w, n) :
        /\ k # AllKeys
        /\ Partitioned(dag, n) => k # NoKey
        /\ \A r \in dag.reads[n] :
               /\ Meant(w, k, r) \subseteq IdsIn(w, {r[1]})
               /\ Partitioned(dag, r[1]) /\ r[2] = "collect" => k \notin KeysIn(w, r[1])

Step == [node : Nodes(dag), keys : Seq(STRING), pending : SUBSET Nodes(dag)]

\* Of the plan, when a phase is decided: its steps are new, each comes after
\* all that it reads, and the sensors among that have run.
StepsInOrder ==
    LET steps    == FlattenSeq(NextPhase)
        ids(i)   == { <<steps[i].node, k>> : k \in KeysOf(steps[i]) }
        known(i) == DOMAIN run.decided.hashes \cup UNION { ids(j) : j \in 1 .. i - 1 }
    IN  MayStart =>
            /\ steps \in Seq(Step)
            /\ \A i \in DOMAIN steps :
                /\ ids(i) \subseteq IdsIn(world, Nodes(dag)) \ known(i)
                /\ SensorsKnown(dag, run.decided.sensorOut, steps[i].node)
                /\ Reads(dag, steps[i].node) \subseteq { up[1] : up \in known(i) }
                /\ \A id \in ids(i), r \in dag.reads[steps[i].node] :
                       \A up \in Meant(world, id[2], r) :
                           /\ up \in known(i)
                           /\ dag.kind[r[1]] = "sensor" => up \in DOMAIN run.decided.sensorOut

\* Of the plan, while a phase runs: no id is dispatched twice, each is decided
\* and not cached, and what it reads is there or, unless it is collected, in
\* the phase.
InputsInReach ==
    /\ run.flight \in Seq(Seq(Step))
    /\ \A x, y \in PhaseItems(run.flight) :
           IdOf(run.flight, x) = IdOf(run.flight, y) => x = y
    /\ \A id \in IdsOf(run.flight) :
        /\ id \in DOMAIN run.decided.hashes \ run.decided.cached
        /\ \A r \in dag.reads[id[1]] :
            \/ Meant(world, id[2], r) \subseteq DOMAIN run.outputs
            \/ /\ ~ (Partitioned(dag, r[1]) /\ r[2] = "collect")
               /\ Meant(world, id[2], r) \subseteq IdsOf(run.flight)

PlanFits == KeysFitIn(world) /\ StepsInOrder /\ InputsInReach

\* Every input of a dispatched item is delivered, and is the output (for
\* collect, the outputs of all keys) that the read is meant to deliver.
InputsArrive ==
    \A x \in PhaseItems(run.flight) : \A r \in dag.reads[IdOf(run.flight, x)[1]] :
        Input(dag, run.flight, DOMAIN run.outputs, x, r[1]).ids = Meant(world, KeyAt(run.flight, x), r)

\* No items of a phase wait for one another.
NoWaitCycle == PhaseEnds

\* Whatever a run takes from the cache and whatever it skips, its outputs are
\* those of a run from scratch.
AsFromScratch == \A id \in DOMAIN run.outputs : run.outputs[id] = FromScratch(world)[id]

\* A key is run again only if it has to be: what a run from scratch would
\* compute for it is in no earlier output.
OnlyWhatChanged ==
    run.policy.how = "aware" =>
        \A id \in IdsOf(run.flight) : dag.kind[id[1]] = "asset" =>
            \A key \in DOMAIN rows : rows[key] # FromScratch(world)[id]

\* --refresh with its cascade: an asset behind the named one, by inputs, is
\* not served from the cache.
CascadeReaches ==
    LET behind[n \in Nodes(dag)] ==
            n = run.policy.name \/ \E m \in Reads(dag, n) : behind[m]
    IN  run.policy.how = "refresh" =>
            \A id \in run.decided.cached :
                id[1] # run.policy.name /\ (run.policy.cascade => ~ behind[id[1]])
=============================================================================
