--------------------------- MODULE MCArtifactStore --------------------------
(* Small instances of ArtifactStore for TLC. *)
EXTENDS ArtifactStore, TLC

SmallSteps == {"raw", "frame", "all", "next"}
\* Readers of one frame under two types, and a list of two.
SmallParams == ("raw" :> <<>>) @@ ("frame" :> <<>>) @@ ("next" :> <<<<"frame">>>>)
               @@ ("all" :> <<<<"raw", "frame">>, <<"frame">>>>)
SmallFrame == [s \in SmallSteps |-> IF s = "all" THEN "polars" ELSE "pandas"]
SmallResult == ("raw" :> "plain") @@ ("frame" :> "pandas") @@ ("all" :> "object") @@ ("next" :> "plain")
SmallSerializer == [s \in SmallSteps |-> IF s = "all" THEN "parquet" ELSE "auto"]
SmallSinks == [s \in SmallSteps |->
                IF s = "frame" THEN <<[path |-> "bad", fmt |-> "json"], [path |-> "out", fmt |-> "auto"]>>
                ELSE <<>>]

\* Two runs execute one step, at the same time or one after the other.
SmallExecutions == [s \in SmallSteps |-> IF s = "next" THEN 2 ELSE 1]
Symmetric == Permutations(Workers)

\* Two partitions of one node, which declares a sink.
PartSteps == {"part[a]", "part[b]"}
PartSinks == [s \in PartSteps |-> <<[path |-> "out", fmt |-> "auto"]>>]

\* A tuple, read by a step of the same worker.
PairSteps == {"pair", "reader"}
PairParams == ("pair" :> <<>>) @@ ("reader" :> <<<<"pair">>>>)
PairResult == ("pair" :> "loose") @@ ("reader" :> "plain")

NoParams(steps) == [s \in steps |-> <<>>]
PartParams == NoParams(PartSteps)
PartFrame == [s \in PartSteps |-> "pandas"]
PartResult == [s \in PartSteps |-> "plain"]
PartSerializer == [s \in PartSteps |-> "auto"]
PartExecutions == [s \in PartSteps |-> 1]
PairExecutions == [s \in PairSteps |-> 1]
PairSinks == NoParams(PairSteps)
PairFrame == [s \in PairSteps |-> "pandas"]
PairSerializer == [s \in PairSteps |-> "auto"]

=============================================================================
