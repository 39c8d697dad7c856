------------------------------ MODULE Planner ------------------------------
(***************************************************************************)
(* From a pipeline to the phases of a run (crates/barca-core/src/          *)
(* planner.rs).  A plan is a sequence of phases, a phase a sequence of     *)
(* streams, a stream a sequence of steps.  A step has its node, the        *)
(* partition keys it runs (none: it runs once) and, while its keys are not *)
(* known yet, the node that will list them.  Everything else a step        *)
(* carries is copied from its node and left out.                           *)
(***************************************************************************)
EXTENDS Dag, Sequences, FiniteSets, FiniteSetsExt, SequencesExt

(***************************************************************************)
(* decompose: the chains.  A chain is named by its first node; nodes are   *)
(* numbered in topological order, so chain order is the order of names.    *)
(***************************************************************************)
Fuses(d, n, p) ==
    /\ ExecutionDownstream(d, n) = {p}
    /\ ExecutionUpstream(d, p) = {n}
    /\ Partitioned(d, n) <=> Partitioned(d, p)
    /\ d.kind[n] # "sensor"

ChainOf(d) ==
    LET chain[n \in Nodes(d)] ==
            IF \E m \in Nodes(d) : Fuses(d, m, n)
            THEN chain[CHOOSE m \in Nodes(d) : Fuses(d, m, n)] ELSE n
    IN  chain

\* Mutant: a chain is walked from its end.
ChainFromEnd(d, c) == SetToSortSeq({ n \in Nodes(d) : ChainOf(d)[n] = c }, >)

ChainNodes(d, c) == SetToSortSeq({ n \in Nodes(d) : ChainOf(d)[n] = c }, <)

ChainDeps(d, c) ==
    LET chain == ChainOf(d) IN
    { chain[m] : m \in UNION { Upstream(d, n) : n \in { n \in Nodes(d) : chain[n] = c } } } \ {c}

(***************************************************************************)
(* assign_phases over topo_sort_indices: a chain's phase is one more than  *)
(* the latest phase it depends on, the chains of phase k being             *)
(* placed[k] \ placed[k-1].  A chain on a cycle of chains, or behind one,  *)
(* never gets in-degree 0, is not in the order and has no phase.           *)
(***************************************************************************)
AssignPhases(d) ==
    LET chains == { ChainOf(d)[n] : n \in Nodes(d) }
        placed[k \in 0 .. Cardinality(Nodes(d))] ==
            IF k = 0 THEN {} ELSE { c \in chains : ChainDeps(d, c) \subseteq placed[k-1] }
        inPhase == [k \in 1 .. Cardinality(Nodes(d)) |-> placed[k] \ placed[k-1]]
    IN  SelectSeq(inPhase, LAMBDA S : S # {})

(***************************************************************************)
(* Steps, work units and streams.                                          *)
(***************************************************************************)
StepOf(d, n) == [node |-> n, keys |-> d.parts[n].keys, pending |-> PartitionSource(d, n)]

Weight(step) == IF step.keys = <<>> THEN 1 ELSE Len(step.keys)
UnitWeight(unit) == FoldLeft(LAMBDA acc, s : acc + Weight(s), 0, unit)

ChunkSize(total, pool) == (total + pool - 1) \div pool

\* Mutant: chunks overlap by one key.
ChunksOverlap(keys, size) ==
    [i \in 1 .. ChunkSize(Len(keys), size) |->
        SubSeq(keys, (i - 1) * size + 1, Min({i * size + 1, Len(keys)}))]

Chunks(keys, size) ==
    [i \in 1 .. ChunkSize(Len(keys), size) |->
        SubSeq(keys, (i - 1) * size + 1, Min({i * size, Len(keys)}))]

SplitKeys(step, pool) ==
    LET chunks == Chunks(step.keys, ChunkSize(Len(step.keys), pool))
    IN  [i \in DOMAIN chunks |-> [step EXCEPT !.keys = chunks[i]]]

\* The work units of one chain.  With one keyed step each of its chunks is a
\* unit; with several, a unit is the whole chain for one chunk of positions,
\* and a step with another number of keys is taken whole into every unit.
WorkUnits(d, c, pool) ==
    LET nodes == ChainNodes(d, c)
        steps == [i \in DOMAIN nodes |-> StepOf(d, nodes[i])]
        keyed == SelectSeq(steps, LAMBDA s : s.keys # <<>>)
        plain == SelectSeq(steps, LAMBDA s : s.keys = <<>>)
        total == Len(keyed[1].keys)
        size  == ChunkSize(total, pool)
        slice(s, i) == IF Len(s.keys) = total
                       THEN [s EXCEPT !.keys = Chunks(@, size)[i]] ELSE s
    IN  CASE keyed = <<>> -> <<steps>>
          [] Len(keyed) = 1 ->
                 LET parts == SplitKeys(keyed[1], pool) IN
                 [i \in DOMAIN parts |-> <<parts[i]>>]
                     \o (IF plain = <<>> THEN <<>> ELSE <<plain>>)
          [] OTHER ->
                 [i \in DOMAIN Chunks(keyed[1].keys, size) |->
                     [j \in DOMAIN steps |-> slice(steps[j], i)]]

\* Each unit goes to the first of the streams with the least weight so far.
Pack(units, pool) ==
    LET streams == [i \in 1 .. Max({1, Min({Len(units), pool})}) |-> <<>>]
        lightest(ss) == CHOOSE i \in DOMAIN ss :
            /\ \A j \in DOMAIN ss : UnitWeight(ss[i]) <= UnitWeight(ss[j])
            /\ \A j \in 1 .. i - 1 : UnitWeight(ss[j]) # UnitWeight(ss[i])
        place(ss, unit) ==
            [i \in DOMAIN ss |-> IF i = lightest(ss) THEN ss[i] \o unit ELSE ss[i]]
    IN  SelectSeq(FoldLeft(place, streams, units), LAMBDA s : s # <<>>)

\* sort_by_key(Reverse(weight)) is stable.
HeaviestFirst(units) ==
    LET weights == { UnitWeight(units[i]) : i \in DOMAIN units }
        ofWeight(w) == SelectSeq(units, LAMBDA u : UnitWeight(u) = w)
        order == SetToSortSeq(weights, >)
    IN  FlattenSeq([i \in DOMAIN order |-> ofWeight(order[i])])

BuildPhases(d, pool) ==
    LET chains == AssignPhases(d)
        units(k) == LET cs == SetToSortSeq(chains[k], <) IN
                    FlattenSeq([i \in DOMAIN cs |-> WorkUnits(d, cs[i], pool)])
    IN  [k \in DOMAIN chains |-> Pack(HeaviestFirst(units(k)), pool)]

(***************************************************************************)
(* merge_single_stream_phases, and the restriction of a plan to the nodes  *)
(* a run needs (filter_plan_to_subgraph in commands.rs).                   *)
(***************************************************************************)
StepsOf(phase) == UNION { Range(phase[i]) : i \in DOMAIN phase }
HasPending(phase) == \E s \in StepsOf(phase) : s.pending # {}

ReadsSensorOf(d, phase, prev) ==
    \E s \in StepsOf(phase), q \in StepsOf(prev) :
        d.kind[q.node] = "sensor" /\ q.node \in Reads(d, s.node)

\* Mutant: a phase is merged into one whose keys are not known yet.
MergesIntoPending(d, phase, prev) ==
    /\ Len(phase) = 1 /\ ~ HasPending(phase)
    /\ Len(prev) = 1
    /\ ~ ReadsSensorOf(d, phase, prev)

CanMerge(d, phase, prev) ==
    /\ Len(phase) = 1 /\ ~ HasPending(phase)
    /\ Len(prev) = 1 /\ ~ HasPending(prev)
    /\ ~ ReadsSensorOf(d, phase, prev)

MergeSingleStreamPhases(d, phases) ==
    LET join(sofar, phase) ==
            IF sofar # <<>> /\ CanMerge(d, phase, Last(sofar))
            THEN Append(Front(sofar), <<Last(sofar)[1] \o phase[1]>>)
            ELSE Append(sofar, phase)
    IN  FoldLeft(join, <<>>, phases)

FilterPhase(phase, nodes) ==
    SelectSeq([i \in DOMAIN phase |-> SelectSeq(phase[i], LAMBDA s : s.node \in nodes)],
              LAMBDA stream : stream # <<>>)

\* plan_from_dag, then the filter.
PlanFor(d, pool, needed) ==
    LET full == MergeSingleStreamPhases(d, BuildPhases(d, pool))
    IN  SelectSeq([k \in DOMAIN full |-> FilterPhase(full[k], needed)],
                  LAMBDA p : p # <<>>)
=============================================================================
