--------------------------- MODULE MCWorkerProcess ---------------------------
(* Small instances of WorkerProcess for TLC. *)
EXTENDS WorkerProcess, TLC

\* For the daemon: a step, one with a time limit that never returns, and one that
\* calls parallel() twice.  For batch mode: a whole node, two partitions of a node,
\* the same of one that reads both, and a node that follows the first partitions
\* and reads the second ones whole, of which there is no output.
DaemonItems == {"step", "slow", "caller"}
FileOrder == <<"w", "a1", "a2", "b1", "b2", "c">>
SmallItems == DaemonItems \cup ToSet(FileOrder)
SmallNode == [i \in SmallItems |-> IF i \in {"a1", "a2"} THEN "a" ELSE IF i \in {"b1", "b2"} THEN "b" ELSE i]
SmallKey == [i \in SmallItems |-> IF i \in {"a1", "b1"} THEN "1" ELSE IF i \in {"a2", "b2"} THEN "2" ELSE "none"]
SmallInputs == [i \in SmallItems |-> IF i \in {"b1", "b2"} THEN {"a", "w"} ELSE IF i = "c" THEN {"a", "b"} ELSE {}]
SmallOrderOnly == [i \in SmallItems |-> IF i = "c" THEN {"a"} ELSE {}]
SmallCalls == [i \in SmallItems |-> IF i = "caller" THEN 2 ELSE 0]
SmallBatches == {<<"step", "slow">>, <<"slow", "step">>, <<"caller">>}

=============================================================================
