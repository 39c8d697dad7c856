-------------------------------- MODULE Dag --------------------------------
(***************************************************************************)
(* The graph of a pipeline (crates/barca-core/src/dag.rs).  A pipeline d   *)
(* has the nodes 1 .. n in a topological order and, for every node,        *)
(*   kind    "asset", "sensor" or "task";                                  *)
(*   reads   its inputs: <<m, "direct">> for inputs={..: m} and            *)
(*           <<m, "collect">> for inputs={..: collect(m)};                 *)
(*   parts   its partitions, one dimension at most: none, a list of keys   *)
(*           known when the graph is built, or partitions_from(source).    *)
(* Parameter names, sinks, serializers and several dimensions are left     *)
(* out.                                                                    *)
(***************************************************************************)
EXTENDS Naturals, FiniteSets

NoParts     == [how |-> "none",   keys |-> <<>>, source |-> 0]
Static(ks)  == [how |-> "static", keys |-> ks,   source |-> 0]
DerivedFrom(m) == [how |-> "from",   keys |-> <<>>, source |-> m]

Nodes(d) == DOMAIN d.kind
Partitioned(d, n) == d.parts[n].how # "none"
Reads(d, n) == { r[1] : r \in d.reads[n] }

\* A pipeline as described above, as it is declared.
Numbered(d) ==
    /\ DOMAIN d = {"kind", "reads", "parts"}
    /\ IsFiniteSet(Nodes(d)) /\ Nodes(d) = 1 .. Cardinality(Nodes(d))
    /\ DOMAIN d.reads = Nodes(d) /\ DOMAIN d.parts = Nodes(d)
    /\ \A n \in Nodes(d) :
        /\ d.kind[n] \in {"asset", "sensor", "task"}
        /\ \A r \in d.reads[n] : r = <<r[1], r[2]>> /\ r[1] \in Nodes(d) /\ r[1] < n
        /\ d.parts[n].how = "from" => d.parts[n].source \in Nodes(d) /\ d.parts[n].source < n

(***************************************************************************)
(* resolve_partitions_from: partitions_from(m) of a partitioned m takes    *)
(* over m's partitions and reads m key by key; of an unpartitioned m it    *)
(* stays, its keys being the list that m returns.                          *)
(***************************************************************************)
ResolvePartitionsFrom(d) ==
    LET parts[n \in Nodes(d)] ==
            LET p == d.parts[n] IN
            IF p.how = "from" /\ parts[p.source].how # "none"
            THEN parts[p.source] ELSE p
        mirrors(n) == d.parts[n].how = "from" /\ parts[d.parts[n].source].how # "none"
    IN  [d EXCEPT !.parts = parts,
                  !.reads = [n \in Nodes(d) |->
                      IF mirrors(n) THEN @[n] \cup {<<d.parts[n].source, "direct">>}
                                    ELSE @[n]]]

\* What Dag::build accepts, of a pipeline whose partitions are resolved.
Builds(d) ==
    \A n \in Nodes(d) :
        /\ d.kind[n] = "sensor" => d.reads[n] = {}
        /\ \A m \in Reads(d, n) : d.kind[m] = "task" => d.kind[n] = "task"
        /\ ~ Partitioned(d, n) =>
               \A m \in Nodes(d) : <<m, "direct">> \in d.reads[n] => ~ Partitioned(d, m)

\* The node whose list gives n its keys at run time, if it has one.
PartitionSource(d, n) ==
    IF d.parts[n].how = "from" THEN {d.parts[n].source} ELSE {}

Upstream(d, n) == Reads(d, n) \cup PartitionSource(d, n)

\* Neighbours by edges that are neither Collect nor PartitionSource.
ExecutionUpstream(d, n)   == { m \in Nodes(d) : <<m, "direct">> \in d.reads[n] }
ExecutionDownstream(d, n) == { p \in Nodes(d) : <<n, "direct">> \in d.reads[p] }

\* subgraph_many: the goals and everything upstream of them.
SubgraphMany(d, goals) ==
    LET needed[n \in Nodes(d)] ==
            \/ n \in goals
            \/ \E p \in Nodes(d) : n \in Upstream(d, p) /\ needed[p]
    IN  { n \in Nodes(d) : needed[n] }

Subgraph(d, n) == SubgraphMany(d, {n})
=============================================================================
