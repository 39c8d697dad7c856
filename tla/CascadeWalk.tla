----------------------------- MODULE CascadeWalk -----------------------------
(***************************************************************************)
(* Coordinator defines what a resolution skips and releases by a least     *)
(* set.  The code finds it by two mutually recursive walks,                *)
(* cascade_failure and unblock_dependents, that change the maps as they    *)
(* go.  This module has the walks as they are written, to be compared with *)
(* the sets in every state of the coordinator.                             *)
(***************************************************************************)
EXTENDS Coordinator, SequencesExt

\* The dependents map: filled as items are finalized, so in id order.
Dependents(i) == SetToSortSeq({d \in PhaseItem : i \in Data(d) \cup Order(d)}, <)

ShouldSkip(c, d) == Data(d) \cap (c.failed \cup c.skipped) # {}

RECURSIVE CascadeFailure(_, _)

Skip(c, d) ==
    CascadeFailure([c EXCEPT !.skipped    = @ \cup {d},
                             !.pending[d] = {},
                             !.ready      = SelectSeq(@, LAMBDA x : x # d)], d)

\* An upstream i of d is resolved and does not skip d: d no longer waits for
\* it, and when it waits for nothing else it is skipped or queued.
Tell(c, i, d) ==
    LET rest == c.pending[d] \ {i}
        told == [c EXCEPT !.pending[d] = rest]
    IN IF i \notin c.pending[d] \/ rest # {} THEN
           IF c.pending[d] = {} THEN c ELSE told
       ELSE IF ShouldSkip(c, d) THEN Skip(told, d)
       ELSE [told EXCEPT !.ready = Append(@, d)]

\* Mutant: a cascade forgets the dependents that only follow the failed item.
VisitReaders(c, i, d, dataFails) ==
    IF d \in Terminal(c) THEN c
    ELSE IF ~dataFails THEN Tell(c, i, d)
    ELSE IF i \in Data(d) THEN Skip(c, d) ELSE c

Visit(c, i, d, dataFails) ==
    IF d \in Terminal(c) THEN c
    ELSE IF dataFails /\ i \in Data(d) THEN Skip(c, d)
    ELSE Tell(c, i, d)

CascadeFailure(c, i) ==
    FoldLeft(LAMBDA acc, d : Visit(acc, i, d, TRUE), c, Dependents(i))

UnblockDependents(c, i) ==
    FoldLeft(LAMBDA acc, d : Visit(acc, i, d, FALSE), c, Dependents(i))

Ended(c, i) == [c EXCEPT !.executing = @ \ {i}, !.groups = CountBranch(c, i)]

WalkCompleted(c, i) ==
    UnblockDependents([Ended(c, i) EXCEPT !.done = @ \cup {i}], i)

WalkFailed(c, i) ==
    CascadeFailure([Ended(c, i) EXCEPT !.failed = @ \cup {i}], i)

-----------------------------------------------------------------------------
\* Whatever may be resolved now, the code's walks and the least sets of module
\* Coordinator give the same coordinator: no dependent is visited too early,
\* skipped by one walk and released by the other, or left waiting.
WalksAgree ==
    \A i \in Running(co) :
        /\ WalkCompleted(co, i) \in
              { OnItemCompleted(co, i, order) : order \in ReleaseOrders(co, i, {}) }
        /\ WalkFailed(co, i) \in
              { FailItem(co, i, order) : order \in ReleaseOrders(co, i, {i}) }
=============================================================================
