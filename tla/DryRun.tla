------------------------------- MODULE DryRun -------------------------------
(***************************************************************************)
(* What --dry-run, barca plan and barca status tell about a run            *)
(* (explain_dag in crates/barca-core/src/commands.rs): the decisions of a  *)
(* run, made without running anything.  Keys that come from a list that    *)
(* would have to be computed are unknown, and so is what depends on them;  *)
(* a sensor is taken to return what it returned last.                      *)
(***************************************************************************)
EXTENDS Execution

\* told: the decisions; the nodes whose keys, or whose hashes, are unknown;
\* the nodes reported as unknown; the ids that will run.
Untold == [decided |-> [NoRun.decided EXCEPT !.sensorOut = seen],
           noKeys |-> {}, noHash |-> {}, unknown |-> {}, runs |-> {}]

\* Mutant: what depends on unknown keys is predicted all the same.
PredictsAnyway(told, step) == FALSE

ReadsUnknownKeys(told, step) == Reads(dag, step.node) \cap told.noKeys # {}

ReadsUnknownHash(told, step) ==
    \/ ~ SensorsKnown(dag, told.decided.sensorOut, step.node)
    \/ Reads(dag, step.node) \cap told.noHash # {}

NoKeysOf(told, n) == [told EXCEPT !.noKeys = @ \cup {n}, !.unknown = @ \cup {n}]

\* One step.  The hash of a step that reads a sensor without an output is
\* unknown, and so are those behind it; forced to run, they are predicted.
ExplainStep(told, step) ==
    LET n       == step.node
        decided == DecideStep(dag, world.version, run.policy, DOMAIN rows, told.decided, step)
        forced  == Forced(dag, run.policy, told.decided.refreshed, n)
        blind   == ReadsUnknownHash(told, step)
        willRun == { <<n, k>> : k \in KeysOf(step) } \ decided.cached
    IN  IF ReadsUnknownKeys(told, step) THEN NoKeysOf(told, n)
        ELSE IF blind /\ ~ forced
        THEN [told EXCEPT !.decided = [decided EXCEPT !.cached = told.decided.cached],
                          !.noHash = @ \cup {n}, !.unknown = @ \cup {n}]
        ELSE [told EXCEPT !.decided = decided,
                          !.noHash = IF blind THEN @ \cup {n} ELSE @,
                          !.runs = @ \cup willRun]

\* A phase: the steps whose keys are not available are set aside, the others
\* expanded and decided as in a run.
ExplainPhase(told, phase) ==
    LET cachedNodes == { m \in Nodes(dag) : <<m, NoKey>> \in told.decided.cached }
        lists   == [m \in cachedNodes |->
                       ListOf(rows[<<<<m, NoKey>>, told.decided.hashes[<<m, NoKey>>]>>])]
        lacks   == { s.node : s \in { s \in StepsOf(phase) : ~ s.pending \subseteq cachedNodes } }
        ready   == FilterPhase(phase, Nodes(dag) \ lacks)
        aside   == [told EXCEPT !.noKeys = @ \cup lacks, !.unknown = @ \cup lacks]
    IN  FoldLeft(ExplainStep, aside, FlattenSeq(ExpandPendingPartitions(ready, lists, Pool)))

\* What a dry run told before the run in progress started.
Foretold == FoldLeft(ExplainPhase, Untold, run.plan)

\* The sensors returned what the dry run assumed.
AsAssumed ==
    \A id \in DOMAIN run.decided.sensorOut \cap DOMAIN seen :
        seen[id] = run.decided.sensorOut[id]

-----------------------------------------------------------------------------
\* A dry run makes the decisions of the run that follows it: if the sensors
\* return what they returned last and nothing fails, what it told would be
\* cached was, what it told would run ran, and it told nothing of other ids
\* than those of the steps it called unknown.
DryRunAgrees ==
    Over /\ run.stop = "no" /\ run.failed = {} /\ AsAssumed =>
        LET told == Foretold
            ran  == DOMAIN run.outputs \ run.decided.cached
        IN  /\ told.decided.cached \subseteq run.decided.cached
            /\ told.runs \subseteq ran
            /\ \A id \in DOMAIN run.outputs :
                   \/ id \in told.decided.cached \cup told.runs
                   \/ id[1] \in told.unknown
=============================================================================
