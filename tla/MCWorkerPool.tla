---------------------------- MODULE MCWorkerPool ----------------------------
(***************************************************************************)
(* Small phases for the worker pool.  MCWorkerPool.cfg and                 *)
(* MCWorkerPoolEnds.cfg: 0 calls parallel() and retries with backoff, two  *)
(* items are free, so that 0 may be pulled in one batch with one of them,  *)
(* and in the former 1 reads 0's output.  Each other cfg is the smallest   *)
(* phase in which one departure from a stated promise shows; the faults it *)
(* needs are the ones it allows.                                           *)
(***************************************************************************)
EXTENDS WorkerPool, TLC

Reads0    == [i \in PhaseItem |-> IF i = 1 THEN {0} ELSE {}]
NoDeps    == [i \in PhaseItem |-> {}]
TwoTries  == [i \in PhaseItem |-> IF i = 0 THEN 2 ELSE 1]
OneTry    == [i \in PhaseItem |-> 1]
BackoffOf0 == {0}
NoBackoff == {}

\* Of three ready steps two that take 100 ms are pulled together, one that takes
\* 900 ms alone.
Light         == {100}
LightAndHeavy == {100, 900}

\* 0 makes one call of two branches, or two calls of one; 0 and 1 one each.
WideCall   == [i \in ItemId |-> IF i = 0 THEN <<2>> ELSE << >>]
TwoCalls   == [i \in ItemId |-> IF i = 0 THEN <<1, 1>> ELSE << >>]
TwoCallers == [i \in ItemId |-> IF i \in {0, 1} THEN <<1>> ELSE << >>]
NoCalls    == [i \in ItemId |-> << >>]
Callers0And2 == [i \in ItemId |-> IF i \in {0, 2} THEN <<1>> ELSE << >>]
OneCall    == [i \in ItemId |-> IF i = 0 THEN <<1>> ELSE << >>]
============================================================================
