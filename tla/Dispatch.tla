------------------------------ MODULE Dispatch ------------------------------
(***************************************************************************)
(* What happens to a phase between its plan and its workers: dynamic       *)
(* partitions get their keys (dispatch.rs), the phase becomes items with   *)
(* dependencies (load_phase in coordinator.rs) and every item is sent with *)
(* its inputs (build_provided_inputs, load_phase and build_step_json in    *)
(* io_loop.rs).  An id is <<node, key>>, with NoKey for a step that has no *)
(* keys; an item is its place in the phase, <<stream, step, key index>>.   *)
(***************************************************************************)
EXTENDS Planner

NoKey   == ""
AllKeys == "*"    \* provided inputs: the list of every key of an upstream

KeysOf(step) == IF step.keys = <<>> THEN {NoKey} ELSE Range(step.keys)

(***************************************************************************)
(* expand_pending_partitions.  lists[m] is the list that the node m        *)
(* returned; a source without an output leaves its step as it is.          *)
(***************************************************************************)
Expanded(step, lists) ==
    LET m == CHOOSE m \in step.pending : TRUE
    IN  [step EXCEPT !.keys = lists[m], !.pending = {}]

ExpandPendingPartitions(phase, lists, pool) ==
    LET steps  == FlattenSeq(phase)
        known(s) == s.pending # {} /\ s.pending \subseteq DOMAIN lists
        passed == SelectSeq(steps, LAMBDA s : ~ known(s))
        grown  == LET ss == SelectSeq(steps, known)
                  IN  [i \in DOMAIN ss |-> Expanded(ss[i], lists)]
        pieces(s) == IF s.keys = <<>> THEN <<<<s>>>>
                     ELSE LET parts == SplitKeys(s, pool)
                          IN  [i \in DOMAIN parts |-> <<parts[i]>>]
        units  == (IF passed = <<>> THEN <<>> ELSE <<passed>>)
                      \o FlattenSeq([i \in DOMAIN grown |-> pieces(grown[i])])
    IN  IF HasPending(phase) THEN Pack(units, pool) ELSE phase

(***************************************************************************)
(* load_phase: the items, and what each waits for.                         *)
(***************************************************************************)
StepAt(phase, x) == phase[x[1]][x[2]]

PhaseItems(phase) ==
    UNION { UNION { { <<i, j, k>> : k \in 1 .. Weight(phase[i][j]) } :
                        j \in DOMAIN phase[i] } : i \in DOMAIN phase }

KeyAt(phase, x) ==
    LET s == StepAt(phase, x) IN IF s.keys = <<>> THEN NoKey ELSE s.keys[x[3]]

IdOf(phase, x) == <<StepAt(phase, x).node, KeyAt(phase, x)>>

IdsOf(phase) == { IdOf(phase, x) : x \in PhaseItems(phase) }

Before(x, y) ==
    \/ x[1] < y[1]
    \/ x[1] = y[1] /\ x[2] < y[2]
    \/ x[1] = y[1] /\ x[2] = y[2] /\ x[3] < y[3]

\* node_to_item: of several items with one id, the one registered last.
NodeToItem(phase, id) ==
    CHOOSE x \in PhaseItems(phase) :
        /\ IdOf(phase, x) = id
        /\ \A y \in PhaseItems(phase) : IdOf(phase, y) = id => y = x \/ Before(y, x)

\* The item of this phase that x reads m from: the same key of m, else m whole.
UpstreamItem(phase, x, m) ==
    LET aligned == <<m, KeyAt(phase, x)>>
        whole   == <<m, NoKey>>
        ids     == IdsOf(phase)
    IN  IF aligned \in ids THEN {NodeToItem(phase, aligned)}
        ELSE IF whole \in ids THEN {NodeToItem(phase, whole)}
        ELSE {}

DataDepsOf(d, phase, x) ==
    UNION { UpstreamItem(phase, x, m) : m \in Reads(d, StepAt(phase, x).node) }

\* prev_items: the items of the step before x's own in its stream.
PrevItems(phase, x) ==
    { y \in PhaseItems(phase) : y[1] = x[1] /\ y[2] = x[2] - 1 }

OrderDepsOf(d, phase, x) == PrevItems(phase, x) \ DataDepsOf(d, phase, x)

(***************************************************************************)
(* Inputs.  outs is the set of ids that had an output before the phase.    *)
(* An input is sent as one artifact provided before the phase, as a list   *)
(* of such artifacts, as the output of an item of the phase, or not at     *)
(* all.                                                                    *)
(***************************************************************************)
OutputsOf(outs, m) == { id \in outs : id[1] = m /\ id[2] # NoKey }

BuildProvidedInputs(d, phase, outs) ==
    LET of(s, m) ==
            LET aligned == { <<m, k>> : k \in KeysOf(s) } \cap OutputsOf(outs, m)
            IN  IF <<m, NoKey>> \in outs THEN {<<m, NoKey>>}
                ELSE IF aligned # {} THEN aligned
                ELSE IF OutputsOf(outs, m) # {} THEN {<<m, AllKeys>>}
                ELSE {}
    IN  UNION { UNION { of(s, m) : m \in Reads(d, s.node) } : s \in StepsOf(phase) }

Input(d, phase, outs, x, m) ==
    LET provided == BuildProvidedInputs(d, phase, outs)
        key      == KeyAt(phase, x)
        aligned  == <<m, key>>
        inPhase  == aligned \in IdsOf(phase)
        useWhole == key = NoKey \/ ~ inPhase
    IN  IF aligned \in provided
        THEN [from |-> "before", ids |-> {aligned}]
        ELSE IF useWhole /\ <<m, NoKey>> \in provided
        THEN [from |-> "before", ids |-> {<<m, NoKey>>}]
        ELSE IF useWhole /\ <<m, AllKeys>> \in provided
        THEN [from |-> "list", ids |-> OutputsOf(outs, m)]
        ELSE IF UpstreamItem(phase, x, m) # {}
        THEN [from |-> "phase",
              ids |-> { IdOf(phase, y) : y \in UpstreamItem(phase, x, m) }]
        ELSE [from |-> "nowhere", ids |-> {}]
=============================================================================
