-------------------------- MODULE WorkerPoolProofs --------------------------
(***************************************************************************)
(* Theorems about modules Coordinator, for every phase, retry budget and   *)
(* bound, and WorkerPool, which drives it, for every pool size and pattern *)
(* of parallel() calls besides, and with any number of crashes, errors and *)
(* failed spawns.                                                          *)
(***************************************************************************)
EXTENDS WorkerPool, SequenceTheorems, FiniteSetTheorems, TLAPS

-----------------------------------------------------------------------------
(***************************************************************************)
(* Constants and helpers.                                                  *)
(***************************************************************************)
LEMMA Deps ==
    /\ PhaseItem \subseteq ItemId
    /\ IsFiniteSet(PhaseItem) /\ IsFiniteSet(ItemId)
    /\ \A i : Data(i) \subseteq PhaseItem /\ Order(i) \subseteq PhaseItem
    /\ \A i : Data(i) \cap Order(i) = {}
<1> USE CoordinatorAssumption
<1>1. PhaseItem \subseteq ItemId
  BY DEF PhaseItem, ItemId
<1>2. IsFiniteSet(PhaseItem) /\ IsFiniteSet(ItemId)
  BY FS_Interval DEF PhaseItem, ItemId
<1>3. \A i : Data(i) \subseteq PhaseItem /\ Order(i) \subseteq PhaseItem
  BY DEF Data, Order
<1>4. \A i : Data(i) \cap Order(i) = {}
  BY DEF Data, Order
<1> QED BY <1>1, <1>2, <1>3, <1>4

\* An injective numbering of a finite set of items is a sequence of items.
LEMMA NumberingIsSeq ==
    ASSUME NEW R \in SUBSET ItemId, NEW s \in [1 .. Cardinality(R) -> R]
    PROVE  s \in Seq(ItemId) /\ Len(s) = Cardinality(R)
<1>1. Cardinality(R) \in Nat
  BY Deps, FS_Subset, FS_CardinalityType
<1> QED BY <1>1

LEMMA RangeOfConcat ==
    ASSUME NEW s \in Seq(ItemId), NEW t \in Seq(ItemId)
    PROVE  Range(s \o t) = Range(s) \cup Range(t)
BY RangeConcatenation

\* Joining sequences without repetitions that share nothing repeats nothing.
Distinct(s) == \A j, k \in DOMAIN s : s[j] = s[k] => j = k

LEMMA DistinctConcat ==
    ASSUME NEW s \in Seq(ItemId), NEW t \in Seq(ItemId),
           Distinct(s), Distinct(t), Range(s) \cap Range(t) = {}
    PROVE  Distinct(s \o t)
<1> SUFFICES ASSUME NEW j \in DOMAIN (s \o t), NEW k \in DOMAIN (s \o t),
                    (s \o t)[j] = (s \o t)[k]
             PROVE  j = k
  BY DEF Distinct
<1>1. /\ j \in 1 .. Len(s) + Len(t) /\ k \in 1 .. Len(s) + Len(t)
      /\ DOMAIN s = 1 .. Len(s) /\ DOMAIN t = 1 .. Len(t)
      /\ Len(s) \in Nat /\ Len(t) \in Nat
  BY ConcatProperties
<1>2. \A m \in 1 .. Len(s) + Len(t) :
        (s \o t)[m] = IF m <= Len(s) THEN s[m] ELSE t[m - Len(s)]
  BY ConcatProperties
<1>3. CASE j <= Len(s) /\ k <= Len(s)
  BY <1>1, <1>2, <1>3 DEF Distinct
<1>4. CASE j > Len(s) /\ k > Len(s)
  <2>1. t[j - Len(s)] = t[k - Len(s)]
    BY <1>1, <1>2, <1>4
  <2>2. j - Len(s) \in DOMAIN t /\ k - Len(s) \in DOMAIN t
    BY <1>1, <1>4
  <2>3. j - Len(s) = k - Len(s)
    BY <2>1, <2>2 DEF Distinct
  <2> QED BY <1>1, <2>3
<1>5. CASE j <= Len(s) /\ k > Len(s)
  <2>1. s[j] = t[k - Len(s)] /\ j \in DOMAIN s /\ k - Len(s) \in DOMAIN t
    BY <1>1, <1>2, <1>5
  <2> QED BY <2>1 DEF Range
<1>6. CASE j > Len(s) /\ k <= Len(s)
  <2>1. s[k] = t[j - Len(s)] /\ k \in DOMAIN s /\ j - Len(s) \in DOMAIN t
    BY <1>1, <1>2, <1>6
  <2> QED BY <2>1 DEF Range
<1> QED BY <1>1, <1>3, <1>4, <1>5, <1>6

-----------------------------------------------------------------------------
(***************************************************************************)
(* The inductive invariant.  DispatchedAfterUpstreams alone is not         *)
(* inductive: that a released item may run follows from `pending` being    *)
(* exact, that `pending` stays exact from every failure having reached its *)
(* readers, and all of it from no item being in two places.                *)
(***************************************************************************)
Coordinators ==
    [next_item_id  : Nat,
     attempts      : [ItemId -> Nat],
     pending       : [PhaseItem -> SUBSET PhaseItem],
     ready         : Seq(ItemId),
     executing     : SUBSET ItemId,
     done          : SUBSET ItemId,
     failed        : SUBSET ItemId,
     skipped       : SUBSET ItemId,
     waiting_retry : SUBSET ItemId,
     groups        : Seq(Group)]

Waiting(c) == { i \in PhaseItem : c.pending[i] # {} }

Apart(c) ==
    \A i :
      /\ i \in Range(c.ready) =>
           i \notin Waiting(c) \cup c.executing \cup c.waiting_retry \cup Terminal(c)
      /\ i \in Waiting(c) =>
           i \notin c.executing \cup c.waiting_retry \cup Terminal(c)
      /\ i \in c.executing => i \notin c.waiting_retry \cup Terminal(c)
      /\ i \in c.waiting_retry => i \notin Terminal(c)
      /\ i \in c.done => i \notin c.failed \cup c.skipped
      /\ i \in c.failed => i \notin c.skipped

ParkedAreParents(c) ==
    \A i \in Parked(c) : \E g \in DOMAIN c.groups : c.groups[g].parent = i

Typed(c) ==
    /\ c \in Coordinators
    /\ c.next_item_id \in NumItems .. MaxItems
    /\ Range(c.ready) \cup c.executing \cup c.done \cup c.failed
         \cup c.skipped \cup c.waiting_retry \subseteq Items(c)
    /\ \A g \in DOMAIN c.groups :
         c.groups[g].items \cup {c.groups[g].parent} \subseteq Items(c)

InOrder(c) ==
    \A i \in Range(c.ready) \cup c.executing \cup c.waiting_retry
                \cup c.done \cup c.failed \cup Parked(c) :
        Unsatisfied(c, i) = {}

Propagated(c) ==
    \A i \in PhaseItem :
        i \in c.skipped <=> Data(i) \cap (c.failed \cup c.skipped) # {}

Exact(c) ==
    \A i \in PhaseItem : c.pending[i] # {} => c.pending[i] = Unsatisfied(c, i)

Sound(c) ==
    /\ Typed(c)
    /\ Apart(c)
    /\ Distinct(c.ready)
    /\ ParkedAreParents(c)
    /\ InOrder(c)
    /\ Propagated(c)
    /\ Exact(c)

CoreInv == Sound(co)

LEMMA CoreInvIs ==
    CoreInv <=> /\ TypeOK /\ Apart(co) /\ Distinct(co.ready) /\ ParkedAreParents(co)
                /\ DispatchedAfterUpstreams /\ FailurePropagates /\ PendingIsUnsatisfied
BY DEF CoreInv, Sound, Typed, TypeOK, Coordinators, InOrder, DispatchedAfterUpstreams,
       Propagated, FailurePropagates, Exact, PendingIsUnsatisfied

\* CoreInv is ItemsAccountedFor with the places spelt out.
LEMMA CoreInvImplies == CoreInv => ItemsAccountedFor
<1> SUFFICES ASSUME CoreInv PROVE ItemsAccountedFor
  OBVIOUS
<1> DEFINE place == << Range(co.ready), {i \in PhaseItem : co.pending[i] # {}},
                       co.executing, co.waiting_retry, co.done, co.failed, co.skipped >>
<1>1. ASSUME NEW a \in 1 .. 7, NEW b \in 1 .. 7, a < b
      PROVE  place[a] \cap place[b] = {}
  BY <1>1 DEF CoreInv, Sound, Apart, Waiting, Terminal
<1>2. \A a, b \in 1 .. 7 : a # b => place[a] \cap place[b] = {}
  <2> TAKE a, b \in 1 .. 7
  <2> HAVE a # b
  <2> HIDE DEF place
  <2>1. CASE a < b  BY <1>1, <2>1
  <2>2. CASE b < a
    <3>1. place[b] \cap place[a] = {}
      BY <1>1, <2>2
    <3> QED BY <3>1
  <2>3. a < b \/ b < a
    OBVIOUS
  <2> QED BY <2>1, <2>2, <2>3
<1> QED BY <1>2 DEF CoreInv, Sound, Distinct, ParkedAreParents, ItemsAccountedFor

-----------------------------------------------------------------------------
(***************************************************************************)
(* What a resolution skips.                                                *)
(***************************************************************************)
\* The least set is closed under the two rules, and least.
LEMMA SkippedIsClosed ==
    ASSUME NEW c, NEW i, NEW lost
    PROVE  ClosedUnderSkip(c, i, lost, SkippedWith(c, i, lost))
<1> DEFINE S == SkippedWith(c, i, lost)
<1> SUFFICES ASSUME NEW d \in Live(c, i),
                    \/ Data(d) \cap (lost \cup S) # {}
                    \/ /\ c.pending[d] # {}
                       /\ c.pending[d] \subseteq {i} \cup S
                       /\ Data(d) \cap (c.failed \cup c.skipped) # {}
             PROVE  d \in S
  BY DEF ClosedUnderSkip
<1>1. ASSUME NEW T \in SUBSET PhaseItem, ClosedUnderSkip(c, i, lost, T)
      PROVE  d \in T
  <2>1. S \subseteq T
    BY <1>1 DEF SkippedWith
  <2> QED BY <1>1, <2>1 DEF ClosedUnderSkip
<1> QED BY <1>1 DEF SkippedWith

LEMMA SkippedIsLeast ==
    ASSUME NEW c, NEW i, NEW lost, NEW T \in SUBSET PhaseItem,
           ClosedUnderSkip(c, i, lost, T)
    PROVE  SkippedWith(c, i, lost) \subseteq T
BY DEF SkippedWith

\* An item that runs waits for nothing and is nowhere else.
LEMMA RunningItem ==
    ASSUME NEW c, Sound(c), NEW i \in Running(c)
    PROVE  /\ i \in Items(c) /\ i \in ItemId
           /\ i \notin Range(c.ready) \cup Waiting(c) \cup c.waiting_retry
                         \cup Terminal(c)
           /\ Unsatisfied(c, i) = {}
           /\ i \notin c.executing => i \in Parked(c)
<1>1. i \in c.executing \/ i \in Parked(c)
  BY DEF Running, Resumed
<1>2. c.next_item_id \in NumItems .. MaxItems /\ c.executing \subseteq Items(c)
  BY DEF Sound, Typed
<1>3. i \in Items(c)
  BY <1>1, <1>2 DEF Parked
<1>4. i \in ItemId
  BY <1>2, <1>3, CoordinatorAssumption DEF Items, ItemId
<1>5. i \notin Range(c.ready) \cup Waiting(c) \cup c.waiting_retry \cup Terminal(c)
  BY <1>1 DEF Sound, Apart, Parked, Queued, Waiting
<1>6. Unsatisfied(c, i) = {}
  BY <1>1 DEF Sound, InOrder
<1> QED BY <1>1, <1>3, <1>4, <1>5, <1>6

\* Under the invariant the skipped set is exactly the live readers of the lost
\* item and of each other, all of them pending; a completion skips nothing.
LEMMA SkippedSet ==
    ASSUME NEW c, Sound(c), NEW i \in Running(c), NEW lost \in {{}, {i}}
    PROVE  LET S == SkippedWith(c, i, lost)
           IN /\ S \subseteq Live(c, i) /\ S \subseteq Waiting(c)
              /\ \A d \in Live(c, i) : d \in S <=> Data(d) \cap (lost \cup S) # {}
              /\ lost = {} => S = {}
<1> DEFINE S == SkippedWith(c, i, lost)
<1> DEFINE P == { d \in Live(c, i) : Data(d) \cap (lost \cup S) # {} }
<1>1. S \subseteq Live(c, i) /\ Live(c, i) \subseteq PhaseItem
  BY DEF SkippedWith, Live
<1>2. ClosedUnderSkip(c, i, lost, S)
  BY SkippedIsClosed
<1>3. \A d \in Live(c, i) : Data(d) \cap (c.failed \cup c.skipped) = {}
  BY <1>1 DEF Sound, Propagated, Live, Terminal
<1>4. \A d \in Live(c, i) : Data(d) \cap (lost \cup S) # {} => d \in S
  BY <1>2 DEF ClosedUnderSkip
<1>5. S \subseteq P
  <2>1. P \in SUBSET PhaseItem /\ P \subseteq S
    BY <1>1, <1>4
  <2>2. ClosedUnderSkip(c, i, lost, P)
    BY <1>3, <2>1 DEF ClosedUnderSkip
  <2> QED BY <2>1, <2>2, SkippedIsLeast
<1>6. lost = {} => S = {}
  <2>1. ClosedUnderSkip(c, i, {}, {})
    BY <1>3 DEF ClosedUnderSkip
  <2> QED BY <2>1, SkippedIsLeast
<1>7. S \subseteq Waiting(c)
  <2> SUFFICES ASSUME NEW d \in S PROVE d \in Waiting(c)
    OBVIOUS
  <2>1. d \in PhaseItem /\ d # i /\ d \notin Terminal(c)
    BY <1>1 DEF Live
  <2>2. PICK u : u \in Data(d) /\ u \in lost \cup S
    BY <1>5
  <2>3. u \notin c.done
    BY <1>1, <2>2, RunningItem DEF Live, Terminal
  <2>4. Unsatisfied(c, d) # {}
    BY <2>2, <2>3 DEF Unsatisfied
  <2>5. d \in Items(c)
    BY <2>1, CoordinatorAssumption DEF Sound, Typed, Items, PhaseItem
  <2> QED BY <2>1, <2>4, <2>5 DEF Sound, InOrder, Parked, Queued, Waiting
<1> QED BY <1>1, <1>4, <1>5, <1>6, <1>7

\* What a resolution releases: pending items that waited only for the item
\* and what it skips, once each, in some order.
Releases(c, i, lost, order) ==
    LET S == SkippedWith(c, i, lost)
        R == ReleasedWith(c, i, lost)
    IN /\ R \subseteq Live(c, i) \ S /\ R \subseteq Waiting(c)
       /\ \A d \in Live(c, i) \ S :
            d \in R <=> c.pending[d] # {} /\ c.pending[d] \subseteq {i} \cup S
       /\ order \in Seq(ItemId) /\ Range(order) = R /\ Distinct(order)

LEMMA ReleasedSet ==
    ASSUME NEW c, Sound(c), NEW i \in Running(c), NEW lost \in {{}, {i}},
           NEW order \in ReleaseOrders(c, i, lost)
    PROVE  Releases(c, i, lost, order)
<1> DEFINE S == SkippedWith(c, i, lost)
           R == ReleasedWith(c, i, lost)
<1>1. /\ R \subseteq Live(c, i) \ S /\ R \subseteq Waiting(c)
      /\ \A d \in Live(c, i) \ S :
           d \in R <=> c.pending[d] # {} /\ c.pending[d] \subseteq {i} \cup S
  BY DEF ReleasedWith, Live, Waiting
<1>2. R \in SUBSET ItemId
  BY <1>1, Deps DEF Live
<1>3. order \in [1 .. Cardinality(R) -> R] /\ Range(order) = R
  BY DEF ReleaseOrders
<1>4. order \in Seq(ItemId) /\ DOMAIN order = 1 .. Cardinality(R)
  BY <1>2, <1>3, NumberingIsSeq
<1>5. Distinct(order)
  BY <1>4 DEF ReleaseOrders, Distinct
<1> QED BY <1>1, <1>3, <1>4, <1>5 DEF Releases

-----------------------------------------------------------------------------
(***************************************************************************)
(* The fields after a resolution.                                          *)
(***************************************************************************)
\* A group sequence with a branch counted is one, with the same parents.
LEMMA CountBranchType ==
    ASSUME NEW c \in Coordinators, NEW i
    PROVE  /\ CountBranch(c, i) \in Seq(Group)
           /\ DOMAIN CountBranch(c, i) = DOMAIN c.groups
           /\ \A g \in DOMAIN c.groups :
                /\ CountBranch(c, i)[g].parent = c.groups[g].parent
                /\ CountBranch(c, i)[g].items = c.groups[g].items
                /\ CountBranch(c, i)[g].completed =
                     IF i \in c.groups[g].items THEN c.groups[g].completed + 1
                                               ELSE c.groups[g].completed
<1>1. c.groups \in Seq(Group) /\ DOMAIN c.groups = 1 .. Len(c.groups)
  BY DEF Coordinators
<1>2. \A g \in DOMAIN c.groups : c.groups[g] \in Group
  BY <1>1
<1>3. \A g \in DOMAIN c.groups :
        /\ CountBranch(c, i)[g] \in Group
        /\ CountBranch(c, i)[g].parent = c.groups[g].parent
        /\ CountBranch(c, i)[g].items = c.groups[g].items
        /\ CountBranch(c, i)[g].completed =
             IF i \in c.groups[g].items THEN c.groups[g].completed + 1
                                       ELSE c.groups[g].completed
  BY <1>2 DEF CountBranch, Group
<1>4. CountBranch(c, i) \in Seq(Group)
  <2>1. DOMAIN CountBranch(c, i) = 1 .. Len(c.groups) /\ Len(c.groups) \in Nat
    BY <1>1 DEF CountBranch
  <2>2. CountBranch(c, i) \in [1 .. Len(c.groups) -> Group]
    BY <1>1, <1>3, <2>1 DEF CountBranch
  <2> HIDE DEF CountBranch
  <2> QED BY <2>1, <2>2, SeqDef
<1> QED BY <1>3, <1>4 DEF CountBranch

\* r is the coordinator c after the resolution of i.
ResolvedAs(c, r, i, lost, order) ==
    /\ r \in Coordinators
    /\ r.next_item_id = c.next_item_id /\ r.attempts = c.attempts
    /\ r.waiting_retry = c.waiting_retry
    /\ r.executing = c.executing \ {i}
    /\ r.done = c.done /\ r.failed = c.failed
    /\ r.skipped = c.skipped \cup SkippedWith(c, i, lost)
    /\ r.ready = c.ready \o order
    /\ r.groups = CountBranch(c, i)
    /\ r.pending = [d \in PhaseItem |->
                      IF d \in SkippedWith(c, i, lost) THEN {}
                      ELSE IF d \in Live(c, i)
                           THEN c.pending[d] \ ({i} \cup SkippedWith(c, i, lost))
                           ELSE c.pending[d]]

\* Nothing queued is skipped, so the queue only grows by the released items.
LEMMA ResolveFields ==
    ASSUME NEW c, Sound(c), NEW i \in Running(c), NEW lost \in {{}, {i}},
           NEW order \in ReleaseOrders(c, i, lost)
    PROVE  ResolvedAs(c, Resolve(c, i, lost, order), i, lost, order)
<1> DEFINE S == SkippedWith(c, i, lost)
           p == PendingAfter(c, i, S)
<1>1. c \in Coordinators
  BY DEF Sound, Typed, Coordinators
<1>2. S \subseteq Waiting(c) /\ S \subseteq ItemId
  BY SkippedSet, Deps DEF Waiting
<1>3. KeepIn(c.ready, ItemId \ S) = c.ready
  <2>1. \A k \in DOMAIN c.ready : c.ready[k] \in ItemId
    BY <1>1 DEF Coordinators
  <2>2. \A k \in DOMAIN c.ready : c.ready[k] \notin S
    BY <1>2 DEF Sound, Apart, Range
  <2> QED BY <2>1, <2>2 DEF KeepIn
<1>4. order \in Seq(ItemId)
  BY ReleasedSet DEF Releases
<1>5. c.ready \o order \in Seq(ItemId)
  BY <1>1, <1>4 DEF Coordinators
<1>6. CountBranch(c, i) \in Seq(Group)
  BY <1>1, CountBranchType
<1>7. p \in [PhaseItem -> SUBSET PhaseItem]
  BY <1>1 DEF Coordinators, PendingAfter
<1>8. Resolve(c, i, lost, order) =
        [c EXCEPT !.executing = c.executing \ {i},
                   !.groups    = CountBranch(c, i),
                   !.skipped   = c.skipped \cup S,
                   !.pending   = p,
                   !.ready     = c.ready \o order]
  BY <1>3 DEF Resolve
<1> DEFINE r == Resolve(c, i, lost, order)
<1> HIDE DEF S, p
<1>9. /\ r.next_item_id = c.next_item_id /\ r.attempts = c.attempts
      /\ r.waiting_retry = c.waiting_retry
      /\ r.done = c.done /\ r.failed = c.failed
      /\ r.executing = c.executing \ {i}
      /\ r.skipped = c.skipped \cup S
      /\ r.ready = c.ready \o order
      /\ r.groups = CountBranch(c, i)
      /\ r.pending = p
  BY <1>1, <1>8 DEF Coordinators
<1>10. r \in Coordinators
  BY <1>1, <1>2, <1>5, <1>6, <1>7, <1>8 DEF Coordinators
<1> QED BY <1>9, <1>10 DEF S, p, PendingAfter, ResolvedAs

-----------------------------------------------------------------------------
(***************************************************************************)
(* A resolution keeps the invariant.                                       *)
(***************************************************************************)
\* c1 is c after i completed, or failed for good.
Resolving(c, c1, i, lost, order) ==
    /\ i \in Running(c) /\ lost \in {{}, {i}} /\ order \in ReleaseOrders(c, i, lost)
    /\ c1 = IF lost = {} THEN OnItemCompleted(c, i, order) ELSE FailItem(c, i, order)

\* What the resolution of i leaves in each place.
Resolution(c, c1, i, lost, order) ==
    LET S == SkippedWith(c, i, lost)
        R == ReleasedWith(c, i, lost)
    IN /\ c1 \in Coordinators
       /\ c1.next_item_id = c.next_item_id
       /\ c1.attempts = c.attempts
       /\ c1.waiting_retry = c.waiting_retry
       /\ c1.executing = c.executing \ {i}
       /\ c1.done = c.done \cup ({i} \ lost)
       /\ c1.failed = c.failed \cup lost
       /\ c1.skipped = c.skipped \cup S
       /\ c1.ready = c.ready \o order
       /\ c1.groups = CountBranch(c, i)
       /\ \A d \in PhaseItem :
            c1.pending[d] = IF d \in S THEN {}
                             ELSE IF d \in Live(c, i) THEN c.pending[d] \ ({i} \cup S)
                             ELSE c.pending[d]
       /\ Items(c1) = Items(c)
       /\ Range(c1.ready) = Range(c.ready) \cup R
       /\ Terminal(c1) = Terminal(c) \cup {i} \cup S
       /\ Waiting(c1) = Waiting(c) \ (S \cup R)
       /\ Parked(c1) = Parked(c) \ {i}

LEMMA ResolutionFields ==
    ASSUME NEW c, NEW c1, NEW i, NEW lost, NEW order,
           Sound(c), Resolving(c, c1, i, lost, order)
    PROVE  Resolution(c, c1, i, lost, order)
<1>0. /\ i \in Running(c) /\ lost \in {{}, {i}} /\ order \in ReleaseOrders(c, i, lost)
      /\ c1 = IF lost = {} THEN OnItemCompleted(c, i, order) ELSE FailItem(c, i, order)
  BY DEF Resolving
<1> DEFINE S == SkippedWith(c, i, lost)
           R == ReleasedWith(c, i, lost)
           r == Resolve(c, i, lost, order)
<1>1. i \in Items(c) /\ i \in ItemId
      /\ i \notin Range(c.ready) \cup Waiting(c) \cup c.waiting_retry \cup Terminal(c)
      /\ Unsatisfied(c, i) = {}
  BY <1>0, RunningItem
<1>2. /\ S \subseteq Live(c, i) /\ S \subseteq Waiting(c)
      /\ \A d \in Live(c, i) : d \in S <=> Data(d) \cap (lost \cup S) # {}
      /\ lost = {} => S = {}
  BY <1>0, SkippedSet
<1>3. /\ R \subseteq Live(c, i) \ S /\ R \subseteq Waiting(c)
      /\ \A d \in Live(c, i) \ S :
           d \in R <=> c.pending[d] # {} /\ c.pending[d] \subseteq {i} \cup S
      /\ order \in Seq(ItemId) /\ Range(order) = R /\ Distinct(order)
  <2>1. Releases(c, i, lost, order)
    BY <1>0, ReleasedSet
  <2> QED BY <2>1 DEF Releases
<1>4. c \in Coordinators
  BY DEF Sound, Typed, Coordinators
<1>5. /\ c1 \in Coordinators
      /\ c1.next_item_id = c.next_item_id
      /\ c1.attempts = c.attempts
      /\ c1.waiting_retry = c.waiting_retry
      /\ c1.executing = c.executing \ {i}
      /\ c1.done = c.done \cup ({i} \ lost)
      /\ c1.failed = c.failed \cup lost
      /\ c1.skipped = c.skipped \cup S
      /\ c1.ready = c.ready \o order
      /\ c1.groups = CountBranch(c, i)
      /\ c1.pending = [d \in PhaseItem |->
                          IF d \in S THEN {}
                          ELSE IF d \in Live(c, i) THEN c.pending[d] \ ({i} \cup S)
                               ELSE c.pending[d]]
  <2>1. ResolvedAs(c, r, i, lost, order)
    BY <1>0, ResolveFields
  <2>2. CASE lost = {}
    <3>1. c1 = [r EXCEPT !.done = c.done \cup {i}]
      BY <1>0, <2>2 DEF OnItemCompleted
    <3>3. r \in Coordinators /\ c.done \cup {i} \subseteq ItemId
          /\ c.failed \cup {i} \subseteq ItemId
      BY <1>1, <1>4, <2>1 DEF Coordinators, ResolvedAs
    <3> HIDE DEF r, S
    <3>2. /\ c1 \in Coordinators /\ c1.done = c.done \cup {i}
          /\ c1.next_item_id = r.next_item_id /\ c1.failed = r.failed
          /\ c1.attempts = r.attempts
          /\ c1.waiting_retry = r.waiting_retry /\ c1.executing = r.executing
          /\ c1.skipped = r.skipped /\ c1.ready = r.ready
          /\ c1.groups = r.groups /\ c1.pending = r.pending
      BY <3>1, <3>3 DEF Coordinators
    <3> QED BY <2>1, <2>2, <3>2 DEF ResolvedAs, S
  <2>3. CASE lost = {i}
    <3>1. c1 = [r EXCEPT !.failed = c.failed \cup {i}]
      BY <1>0, <2>3 DEF FailItem
    <3>3. r \in Coordinators /\ c.done \cup {i} \subseteq ItemId
          /\ c.failed \cup {i} \subseteq ItemId
      BY <1>1, <1>4, <2>1 DEF Coordinators, ResolvedAs
    <3> HIDE DEF r, S
    <3>2. /\ c1 \in Coordinators /\ c1.failed = c.failed \cup {i}
          /\ c1.next_item_id = r.next_item_id /\ c1.done = r.done
          /\ c1.attempts = r.attempts
          /\ c1.waiting_retry = r.waiting_retry /\ c1.executing = r.executing
          /\ c1.skipped = r.skipped /\ c1.ready = r.ready
          /\ c1.groups = r.groups /\ c1.pending = r.pending
      BY <3>1, <3>3 DEF Coordinators
    <3> QED BY <2>1, <2>3, <3>2 DEF ResolvedAs, S
  <2> QED BY <1>0, <2>2, <2>3
<1>6. /\ Items(c1) = Items(c)
      /\ Range(c1.ready) = Range(c.ready) \cup R
      /\ Terminal(c1) = Terminal(c) \cup {i} \cup S
      /\ Waiting(c1) = Waiting(c) \ (S \cup R)
  <2>1. Items(c1) = Items(c) /\ Terminal(c1) = Terminal(c) \cup {i} \cup S
    BY <1>0, <1>5 DEF Items, Terminal
  <2>2. Range(c1.ready) = Range(c.ready) \cup R
    <3>1. c.ready \in Seq(ItemId) /\ order \in Seq(ItemId)
      BY <1>3, <1>4 DEF Coordinators
    <3>2. Range(c.ready \o order) = Range(c.ready) \cup Range(order)
      BY <3>1, RangeOfConcat
    <3> QED BY <1>3, <1>5, <3>2
  <2>3. Waiting(c) \subseteq Live(c, i)
    BY <1>1 DEF Sound, Apart, Live, Waiting
  <2>4. \A d \in PhaseItem : d \in Waiting(c1) <=> d \in Waiting(c) \ (S \cup R)
    <3> SUFFICES ASSUME NEW d \in PhaseItem
                 PROVE  c1.pending[d] # {} <=> d \in Waiting(c) \ (S \cup R)
      BY DEF Waiting
    <3>1. CASE d \in S
      BY <1>5, <3>1
    <3>2. CASE d \in Live(c, i) \ S
      <4>1. c1.pending[d] = c.pending[d] \ ({i} \cup S)
        BY <1>5, <3>2
      <4> QED BY <1>3, <3>2, <4>1 DEF Waiting
    <3>3. CASE d \notin Live(c, i)
      <4>1. c1.pending[d] = c.pending[d] /\ d \notin Waiting(c)
        BY <1>2, <1>5, <2>3, <3>3
      <4> QED BY <4>1 DEF Waiting
    <3> QED BY <1>2, <3>1, <3>2, <3>3
  <2>5. Waiting(c1) = Waiting(c) \ (S \cup R)
    BY <2>4 DEF Waiting
  <2> QED BY <2>1, <2>2, <2>5
<1> HIDE DEF S, R, r
<1>7. Parked(c1) = Parked(c) \ {i}
  BY <1>2, <1>3, <1>5, <1>6 DEF Parked, Queued, Waiting, Live
<1> QED BY <1>5, <1>6, <1>7 DEF S, R, Resolution

LEMMA ResolutionKeeps ==
    ASSUME NEW c, NEW c1, NEW i, NEW lost, NEW order,
           Sound(c), Resolving(c, c1, i, lost, order)
    PROVE  Sound(c1)
<1>0. i \in Running(c) /\ lost \in {{}, {i}} /\ order \in ReleaseOrders(c, i, lost)
  BY DEF Resolving
<1> DEFINE S == SkippedWith(c, i, lost)
           R == ReleasedWith(c, i, lost)
<1>1. i \in Items(c) /\ i \in ItemId
      /\ i \notin Range(c.ready) \cup Waiting(c) \cup c.waiting_retry \cup Terminal(c)
      /\ Unsatisfied(c, i) = {}
  BY <1>0, RunningItem
<1>2. /\ S \subseteq Live(c, i) /\ S \subseteq Waiting(c)
      /\ \A d \in Live(c, i) : d \in S <=> Data(d) \cap (lost \cup S) # {}
      /\ lost = {} => S = {}
  BY <1>0, SkippedSet
<1>3. /\ R \subseteq Live(c, i) \ S /\ R \subseteq Waiting(c)
      /\ \A d \in Live(c, i) \ S :
           d \in R <=> c.pending[d] # {} /\ c.pending[d] \subseteq {i} \cup S
      /\ order \in Seq(ItemId) /\ Range(order) = R /\ Distinct(order)
  <2>1. Releases(c, i, lost, order)
    BY <1>0, ReleasedSet
  <2> QED BY <2>1 DEF Releases
<1>4. c \in Coordinators
  BY DEF Sound, Typed, Coordinators
<1>5. /\ c1 \in Coordinators
      /\ c1.next_item_id = c.next_item_id
      /\ c1.attempts = c.attempts
      /\ c1.waiting_retry = c.waiting_retry
      /\ c1.executing = c.executing \ {i}
      /\ c1.done = c.done \cup ({i} \ lost)
      /\ c1.failed = c.failed \cup lost
      /\ c1.skipped = c.skipped \cup S
      /\ c1.ready = c.ready \o order
      /\ c1.groups = CountBranch(c, i)
      /\ \A d \in PhaseItem :
           c1.pending[d] = IF d \in S THEN {}
                            ELSE IF d \in Live(c, i) THEN c.pending[d] \ ({i} \cup S)
                            ELSE c.pending[d]
      /\ Items(c1) = Items(c)
      /\ Range(c1.ready) = Range(c.ready) \cup R
      /\ Terminal(c1) = Terminal(c) \cup {i} \cup S
      /\ Waiting(c1) = Waiting(c) \ (S \cup R)
      /\ Parked(c1) = Parked(c) \ {i}
  <2>1. Resolution(c, c1, i, lost, order)
    BY ResolutionFields
  <2> QED BY <2>1, Zenon DEF Resolution
<1> HIDE DEF S, R
<1>20. /\ DOMAIN c1.groups = DOMAIN c.groups
       /\ \A g \in DOMAIN c.groups : /\ c1.groups[g].parent = c.groups[g].parent
                                      /\ c1.groups[g].items = c.groups[g].items
  BY <1>4, <1>5, CountBranchType
<1>7. S \cup R \subseteq Waiting(c) /\ S \cap R = {}
  BY <1>2, <1>3
<1>8. /\ S \cup R \subseteq PhaseItem
      /\ \A d \in S \cup R : d \in Items(c)
  BY <1>7, CoordinatorAssumption DEF Waiting, Sound, Typed, Items, PhaseItem
<1>9. Typed(c1)
  <2>1. /\ Range(c1.ready) \cup c1.executing \cup c1.done \cup c1.failed
             \cup c1.skipped \cup c1.waiting_retry \subseteq Items(c1)
        /\ c1.next_item_id \in NumItems .. MaxItems
    BY <1>0, <1>1, <1>5, <1>8 DEF Sound, Typed
  <2>2. \A g \in DOMAIN c1.groups :
          c1.groups[g].items \cup {c1.groups[g].parent} \subseteq Items(c1)
    BY <1>5, <1>20 DEF Sound, Typed
  <2> QED BY <1>5, <2>1, <2>2 DEF Typed, Coordinators
<1>10. Apart(c1)
  BY <1>0, <1>1, <1>5, <1>7 DEF Sound, Apart, Terminal
<1>11. Distinct(c1.ready)
  <2>1. Range(c.ready) \cap Range(order) = {}
    BY <1>3, <1>7 DEF Sound, Apart
  <2>2. Distinct(c.ready \o order)
    BY <1>3, <1>4, <2>1, DistinctConcat DEF Sound, Coordinators
  <2> QED BY <1>5, <2>2
<1>13. ParkedAreParents(c1)
  <2>1. Parked(c1) \subseteq Parked(c)
    BY <1>5
  <2>2. \A j \in Parked(c1) : \E g \in DOMAIN c1.groups : c1.groups[g].parent = j
    BY <1>20, <2>1 DEF Sound, ParkedAreParents
  <2> QED BY <2>2 DEF ParkedAreParents
<1>14. \A d : Unsatisfied(c1, d) \subseteq Unsatisfied(c, d)
  BY <1>5 DEF Unsatisfied
<1>15. \A d \in Live(c, i) \ S : Data(d) \cap (lost \cup S) = {}
  BY <1>2
<1>16. InOrder(c1)
  <2> SUFFICES ASSUME NEW d \in Range(c1.ready) \cup c1.executing \cup c1.waiting_retry
                               \cup c1.done \cup c1.failed \cup Parked(c1)
               PROVE  Unsatisfied(c1, d) = {}
    BY DEF InOrder
  <2>1. CASE d \in R
    <3>1. c.pending[d] = Unsatisfied(c, d) /\ c.pending[d] \subseteq {i} \cup S
      BY <1>3, <2>1 DEF Sound, Exact, Live
    <3>2. Data(d) \cap (lost \cup S) = {}
      BY <1>3, <1>15, <2>1
    <3> QED BY <1>5, <3>1, <3>2 DEF Unsatisfied
  <2>2. CASE d \notin R
    <3>1. d \in Range(c.ready) \cup c.executing \cup c.waiting_retry
                  \cup c.done \cup c.failed \cup Parked(c) \cup {i}
      BY <1>0, <1>5, <2>2
    <3>2. Unsatisfied(c, d) = {}
      BY <1>1, <3>1 DEF Sound, InOrder
    <3> QED BY <1>14, <3>2
  <2> QED BY <2>1, <2>2
<1>17. Propagated(c1)
  <2> SUFFICES ASSUME NEW d \in PhaseItem
               PROVE  d \in c1.skipped <=> Data(d) \cap (c1.failed \cup c1.skipped) # {}
    BY DEF Propagated
  <2>1. d \in c.skipped <=> Data(d) \cap (c.failed \cup c.skipped) # {}
    BY DEF Sound, Propagated
  <2>2. CASE d \in Live(c, i)
    BY <1>2, <1>5, <2>1, <2>2 DEF Live, Terminal
  <2>3. CASE d \in c.done \cup c.failed \cup {i}
    <3>1. Data(d) \subseteq c.done /\ d \notin c.skipped
      <4>1. Unsatisfied(c, d) = {}
        BY <1>1, <2>3 DEF Sound, InOrder
      <4> QED BY <1>1, <2>3, <4>1 DEF Sound, Apart, Unsatisfied, Terminal
    <3>2. Data(d) \cap (c1.failed \cup c1.skipped) = {}
      BY <1>0, <1>1, <1>2, <1>5, <3>1 DEF Sound, Apart, Live, Terminal
    <3>3. d \notin S
      BY <1>2, <2>3 DEF Live, Terminal
    <3> QED BY <1>5, <3>1, <3>2, <3>3
  <2>4. CASE d \in c.skipped
    BY <1>5, <2>1, <2>4
  <2> QED BY <2>2, <2>3, <2>4 DEF Live, Terminal
<1>18. Exact(c1)
  <2> SUFFICES ASSUME NEW d \in PhaseItem, c1.pending[d] # {}
               PROVE  c1.pending[d] = Unsatisfied(c1, d)
    BY DEF Exact
  <2>1. d \in Waiting(c) \ (S \cup R)
    BY <1>5 DEF Waiting
  <2>2. d \in Live(c, i) \ S
    BY <1>1, <2>1 DEF Sound, Apart, Live, Waiting
  <2>3. c1.pending[d] = c.pending[d] \ ({i} \cup S)
    BY <1>5, <2>2
  <2>4. c.pending[d] = Unsatisfied(c, d)
    BY <2>1 DEF Sound, Exact, Waiting
  <2>5. Data(d) \cap (lost \cup S) = {}
    BY <1>15, <2>2
  <2> QED BY <1>5, <2>3, <2>4, <2>5 DEF Unsatisfied
<1> QED BY <1>9, <1>10, <1>11, <1>13, <1>16, <1>17, <1>18 DEF Sound

-----------------------------------------------------------------------------
(***************************************************************************)
(* A step that resolves nothing only moves unresolved items between the    *)
(* queue, `executing`, `waiting_retry` and no place at all; it keeps the   *)
(* invariant when it moves no pending item and puts none in two places.    *)
(***************************************************************************)
Unresolved(c) == Range(c.ready) \cup c.executing \cup c.waiting_retry \cup Parked(c)

LEMMA MoveKeeps ==
    ASSUME NEW c, NEW c1, Sound(c),
           c1 \in Coordinators,
           c1.done = c.done, c1.failed = c.failed, c1.skipped = c.skipped,
           c1.pending = c.pending,
           c1.next_item_id \in c.next_item_id .. MaxItems,
           Range(c1.ready) \cup c1.executing \cup c1.waiting_retry \subseteq Items(c1),
           Unresolved(c1) \subseteq Unresolved(c) \cup (Items(c1) \ Items(c)),
           Range(c1.ready) \cap c1.executing = {},
           Range(c1.ready) \cap c1.waiting_retry = {},
           c1.executing \cap c1.waiting_retry = {},
           Distinct(c1.ready),
           ParkedAreParents(c1),
           \A g \in DOMAIN c1.groups :
             c1.groups[g].items \cup {c1.groups[g].parent} \subseteq Items(c1)
    PROVE  Sound(c1)
<1>1. c.next_item_id \in NumItems .. MaxItems /\ c \in Coordinators
  BY DEF Sound, Typed, Coordinators
<1>2. Items(c) \subseteq Items(c1) /\ c1.next_item_id \in NumItems .. MaxItems
      /\ PhaseItem \subseteq Items(c)
  BY <1>1, CoordinatorAssumption DEF Items, PhaseItem, Coordinators
<1>3. Typed(c1)
  <2>1. c.done \cup c.failed \cup c.skipped \subseteq Items(c)
    BY DEF Sound, Typed
  <2>2. Range(c1.ready) \cup c1.executing \cup c1.done \cup c1.failed
          \cup c1.skipped \cup c1.waiting_retry \subseteq Items(c1)
    BY <1>2, <2>1
  <2> QED BY <1>2, <2>2 DEF Typed, Coordinators
<1>4. Terminal(c1) = Terminal(c) /\ Waiting(c1) = Waiting(c)
  BY DEF Terminal, Waiting
<1>5. \A j \in Unresolved(c1) : j \notin Waiting(c) /\ j \notin Terminal(c)
  <2> TAKE j \in Unresolved(c1)
  <2>1. CASE j \in Unresolved(c)
    BY <2>1 DEF Sound, Apart, Unresolved, Parked, Queued, Waiting
  <2>2. CASE j \notin Items(c)
    BY <1>2, <2>2 DEF Sound, Typed, Waiting, Terminal
  <2> QED BY <2>1, <2>2
<1>6. Apart(c1)
  BY <1>4, <1>5 DEF Sound, Apart, Terminal, Unresolved
<1>7. \A d : Unsatisfied(c1, d) = Unsatisfied(c, d)
  BY <1>4 DEF Unsatisfied
<1>8. InOrder(c1)
  <2> SUFFICES ASSUME NEW d \in Range(c1.ready) \cup c1.executing \cup c1.waiting_retry
                               \cup c1.done \cup c1.failed \cup Parked(c1)
               PROVE  Unsatisfied(c, d) = {}
    BY <1>7 DEF InOrder
  <2>1. CASE d \notin Items(c)
    BY <1>2, <2>1 DEF Unsatisfied, Data, Order
  <2>2. CASE d \in Unresolved(c) \cup c.done \cup c.failed
    BY <2>2 DEF Sound, InOrder, Unresolved
  <2> QED BY <2>1, <2>2 DEF Unresolved
<1>9. Propagated(c1)
  BY DEF Sound, Propagated
<1>10. Exact(c1)
  BY <1>7 DEF Sound, Exact
<1> QED BY <1>3, <1>6, <1>8, <1>9, <1>10 DEF Sound

-----------------------------------------------------------------------------
(***************************************************************************)
(* The other operations.                                                   *)
(***************************************************************************)
\* The places of c1 that a step like a dispatch leaves as they are in c.
SameResults(c, c1) ==
    /\ c1 \in Coordinators
    /\ c1.done = c.done /\ c1.failed = c.failed /\ c1.skipped = c.skipped
    /\ c1.pending = c.pending
    /\ Terminal(c1) = Terminal(c) /\ Waiting(c1) = Waiting(c)

LEMMA SameFields ==
    ASSUME NEW c, NEW c1 \in Coordinators,
           c1.done = c.done, c1.failed = c.failed, c1.skipped = c.skipped,
           c1.pending = c.pending
    PROVE  SameResults(c, c1)
BY DEF SameResults, Terminal, Waiting

\* What SubSeq takes from a queue.
LEMMA PartOf ==
    ASSUME NEW s \in Seq(ItemId), NEW m \in Nat, NEW n \in Nat,
           1 <= m, m <= n + 1, n <= Len(s)
    PROVE  /\ SubSeq(s, m, n) \in Seq(ItemId) /\ Len(SubSeq(s, m, n)) = n - m + 1
           /\ \A j \in 1 .. n - m + 1 : SubSeq(s, m, n)[j] = s[m + j - 1]
<1>1. m \in Int /\ n \in Int /\ \A j \in m .. n : s[j] \in ItemId
  OBVIOUS
<1>2. /\ SubSeq(s, m, n) \in Seq(ItemId)
      /\ Len(SubSeq(s, m, n)) = IF m <= n THEN n - m + 1 ELSE 0
      /\ \A j \in 1 .. n - m + 1 : SubSeq(s, m, n)[j] = s[m + j - 1]
  BY <1>1, SubSeqProperties
<1>3. ~(m <= n) => n - m + 1 = 0
  OBVIOUS
<1> QED BY <1>2, <1>3

\* Splitting a sequence without repetitions splits its items.
LEMMA SplitDistinct ==
    ASSUME NEW s \in Seq(ItemId), Distinct(s), NEW k \in 0 .. Len(s)
    PROVE  LET front == SubSeq(s, 1, k)
               rest  == SubSeq(s, k + 1, Len(s))
           IN /\ front \in Seq(ItemId) /\ rest \in Seq(ItemId)
              /\ Distinct(front) /\ Distinct(rest)
              /\ Range(front) = { s[j] : j \in 1 .. k }
              /\ Range(front) \cup Range(rest) = Range(s)
              /\ Range(front) \cap Range(rest) = {}
<1> DEFINE front == SubSeq(s, 1, k)
           rest  == SubSeq(s, k + 1, Len(s))
<1>1. /\ Len(s) \in Nat /\ k \in Nat /\ k <= Len(s) /\ DOMAIN s = 1 .. Len(s)
  OBVIOUS
<1>2. /\ front \in Seq(ItemId) /\ DOMAIN front = 1 .. k
      /\ \A j \in 1 .. k : front[j] = s[j] /\ j \in DOMAIN s
  <2>1. /\ front \in Seq(ItemId) /\ Len(front) = k - 1 + 1
        /\ \A j \in 1 .. k - 1 + 1 : front[j] = s[1 + j - 1]
    BY <1>1, PartOf
  <2> HIDE DEF front
  <2>2. DOMAIN front = 1 .. Len(front)
    BY <2>1
  <2> QED BY <1>1, <2>1, <2>2
<1>3. /\ rest \in Seq(ItemId) /\ DOMAIN rest = 1 .. Len(s) - k
      /\ \A j \in 1 .. Len(s) - k : rest[j] = s[k + j] /\ k + j \in DOMAIN s
  <2>1. /\ rest \in Seq(ItemId) /\ Len(rest) = Len(s) - (k + 1) + 1
        /\ \A j \in 1 .. Len(s) - (k + 1) + 1 : rest[j] = s[k + 1 + j - 1]
    <3>1. k + 1 \in Nat /\ 1 <= k + 1 /\ k + 1 <= Len(s) + 1
          /\ Len(s) \in Nat /\ Len(s) <= Len(s)
      BY <1>1
    <3> HIDE DEF rest
    <3>2. rest = SubSeq(s, k + 1, Len(s))
      BY DEF rest
    <3> QED BY <3>1, <3>2, PartOf
  <2> HIDE DEF rest
  <2>2. DOMAIN rest = 1 .. Len(rest)
    BY <2>1
  <2> QED BY <1>1, <2>1, <2>2
<1> HIDE DEF front, rest
<1>4. Distinct(front)
  BY <1>2 DEF Distinct
<1>5. Distinct(rest)
  <2> SUFFICES ASSUME NEW j \in DOMAIN rest, NEW m \in DOMAIN rest, rest[j] = rest[m]
               PROVE  j = m
    BY DEF Distinct
  <2>1. k + j = k + m
    BY <1>3 DEF Distinct
  <2> QED BY <1>1, <1>3, <2>1
<1>6. Range(front) = { s[j] : j \in 1 .. k }
  BY <1>2 DEF Range
<1>7. \A j \in DOMAIN s : j \in 1 .. k \/ (j - k \in DOMAIN rest /\ rest[j - k] = s[j])
  <2> SUFFICES ASSUME NEW j \in 1 .. Len(s), j \notin 1 .. k
               PROVE  j - k \in DOMAIN rest /\ rest[j - k] = s[j]
    BY <1>1
  <2>1. j - k \in 1 .. Len(s) - k /\ k + (j - k) = j
    BY <1>1
  <2> QED BY <1>3, <2>1
<1>8. Range(front) \cup Range(rest) = Range(s)
  <2>1. Range(front) \subseteq Range(s) /\ Range(rest) \subseteq Range(s)
    BY <1>2, <1>3 DEF Range
  <2>2. ASSUME NEW x \in Range(s) PROVE x \in Range(front) \cup Range(rest)
    <3>1. PICK j \in DOMAIN s : x = s[j]
      BY DEF Range
    <3> QED BY <1>2, <1>7, <3>1 DEF Range
  <2> QED BY <2>1, <2>2
<1>9. Range(front) \cap Range(rest) = {}
  <2> SUFFICES ASSUME NEW j \in DOMAIN front, NEW m \in DOMAIN rest, front[j] = rest[m]
               PROVE  FALSE
    BY DEF Range
  <2>1. j = k + m
    BY <1>2, <1>3 DEF Distinct
  <2> QED BY <1>1, <1>2, <1>3, <2>1
<1> QED BY <1>2, <1>3, <1>4, <1>5, <1>6, <1>8, <1>9 DEF front, rest

\* The first k queued items start to execute and are charged an attempt.
OneMore(c, B) == [i \in ItemId |-> IF i \in B THEN c.attempts[i] + 1 ELSE c.attempts[i]]

Leasing(c, c1, B) ==
    /\ SameResults(c, c1)
    /\ B \subseteq Range(c.ready) /\ B \subseteq ItemId
    /\ Range(c1.ready) = Range(c.ready) \ B /\ Distinct(c1.ready)
    /\ c1.executing = c.executing \cup B
    /\ c1.attempts = OneMore(c, B)
    /\ c1.next_item_id = c.next_item_id /\ c1.waiting_retry = c.waiting_retry
    /\ c1.groups = c.groups
    /\ Items(c1) = Items(c) /\ Parked(c1) = Parked(c)

LEMMA LeaseFields ==
    ASSUME NEW c, NEW c1, Sound(c), NEW k \in 0 .. Len(c.ready), c1 = Lease(c, k)
    PROVE  /\ SubSeq(c.ready, 1, k) \in Seq(ItemId) /\ Distinct(SubSeq(c.ready, 1, k))
           /\ Leasing(c, c1, Range(SubSeq(c.ready, 1, k)))
<1> DEFINE front == SubSeq(c.ready, 1, k)
           rest  == SubSeq(c.ready, k + 1, Len(c.ready))
           B     == Range(front)
<1>1. c \in Coordinators /\ c.ready \in Seq(ItemId) /\ Distinct(c.ready)
  BY DEF Sound, Typed, Coordinators
<1>2. /\ front \in Seq(ItemId) /\ rest \in Seq(ItemId)
      /\ Distinct(front) /\ Distinct(rest)
      /\ B = { c.ready[j] : j \in 1 .. k }
      /\ B \cup Range(rest) = Range(c.ready)
      /\ B \cap Range(rest) = {}
  BY <1>1, SplitDistinct
<1>3. c1 = [c EXCEPT !.ready = rest, !.executing = c.executing \cup B,
                     !.attempts = OneMore(c, B)]
  BY <1>2 DEF Lease, OneMore
<1>4. Range(c.ready) \subseteq ItemId
  BY <1>1 DEF Range
<1> HIDE DEF front, rest, B
<1>5. B \subseteq ItemId /\ c.executing \cup B \in SUBSET ItemId
  BY <1>1, <1>2, <1>4 DEF Coordinators
<1>6. OneMore(c, B) \in [ItemId -> Nat]
  BY <1>1 DEF Coordinators, OneMore
<1>7. /\ c1 \in Coordinators
      /\ c1.ready = rest /\ c1.executing = c.executing \cup B
      /\ c1.done = c.done /\ c1.failed = c.failed /\ c1.skipped = c.skipped
      /\ c1.pending = c.pending /\ c1.next_item_id = c.next_item_id
      /\ c1.waiting_retry = c.waiting_retry /\ c1.groups = c.groups
      /\ c1.attempts = OneMore(c, B)
  BY <1>1, <1>2, <1>3, <1>5, <1>6 DEF Coordinators
<1>8. SameResults(c, c1)
  BY <1>7, SameFields
<1>9. Items(c1) = Items(c)
  BY <1>7 DEF Items
<1>10. Parked(c1) = Parked(c)
  BY <1>2, <1>7, <1>9 DEF Parked, Queued, Terminal
<1> QED BY <1>2, <1>5, <1>7, <1>8, <1>9, <1>10 DEF Leasing, front, B

LEMMA LeaseKeeps ==
    ASSUME NEW c, NEW c1, Sound(c), NEW B, Leasing(c, c1, B)
    PROVE  Sound(c1)
<1>1. c.next_item_id \in c.next_item_id .. MaxItems
  BY CoordinatorAssumption DEF Sound, Typed
<1>2. /\ Range(c1.ready) \cup c1.executing \cup c1.waiting_retry \subseteq Items(c1)
      /\ Unresolved(c1) \subseteq Unresolved(c)
      /\ Range(c1.ready) \cap c1.executing = {}
      /\ Range(c1.ready) \cap c1.waiting_retry = {}
      /\ c1.executing \cap c1.waiting_retry = {}
  BY DEF Sound, Typed, Apart, Unresolved, Leasing, SameResults
<1>3. ParkedAreParents(c1)
  BY DEF Sound, ParkedAreParents, Leasing
<1>4. \A g \in DOMAIN c1.groups :
         c1.groups[g].items \cup {c1.groups[g].parent} \subseteq Items(c1)
  BY DEF Sound, Typed, Leasing
<1> QED BY <1>1, <1>2, <1>3, <1>4, MoveKeeps DEF Leasing, SameResults

\* Leases that were executing go to the front of the queue, uncharged.
OneLess(c, B) == [i \in ItemId |-> IF i \in B /\ c.attempts[i] > 0
                                   THEN c.attempts[i] - 1 ELSE c.attempts[i]]

Returning(c, c1, leases) ==
    /\ SameResults(c, c1)
    /\ c1.ready = leases \o c.ready
    /\ Range(c1.ready) = Range(c.ready) \cup Range(leases) /\ Distinct(c1.ready)
    /\ c1.executing = c.executing \ Range(leases)
    /\ c1.attempts = OneLess(c, Range(leases))
    /\ c1.next_item_id = c.next_item_id /\ c1.waiting_retry = c.waiting_retry
    /\ c1.groups = c.groups
    /\ Items(c1) = Items(c) /\ Parked(c1) = Parked(c)

LEMMA ReturnFields ==
    ASSUME NEW c, NEW c1, Sound(c), NEW leases \in Seq(ItemId), Distinct(leases),
           Range(leases) \subseteq c.executing, c1 = ReturnLeases(c, leases)
    PROVE  Returning(c, c1, leases)
<1> DEFINE B == Range(leases)
<1>1. c \in Coordinators /\ c.ready \in Seq(ItemId) /\ Distinct(c.ready)
  BY DEF Sound, Typed, Coordinators
<1>2. B \cap Range(c.ready) = {}
  BY DEF Sound, Apart
<1>3. /\ leases \o c.ready \in Seq(ItemId)
      /\ Range(leases \o c.ready) = Range(c.ready) \cup B
      /\ Distinct(leases \o c.ready)
  BY <1>1, <1>2, RangeOfConcat, DistinctConcat, ConcatProperties
<1>4. KeepIn(leases, c.executing) = leases
  BY DEF KeepIn, Range
<1> HIDE DEF B
<1>5. c1 = [c EXCEPT !.ready     = leases \o c.ready,
                     !.executing = c.executing \ B,
                     !.attempts  = OneLess(c, B)]
  BY <1>4 DEF ReturnLeases, OneLess, B
<1>6. OneLess(c, B) \in [ItemId -> Nat]
  BY <1>1 DEF Coordinators, OneLess
<1>7. /\ c1 \in Coordinators
      /\ c1.ready = leases \o c.ready /\ c1.executing = c.executing \ B
      /\ c1.done = c.done /\ c1.failed = c.failed /\ c1.skipped = c.skipped
      /\ c1.pending = c.pending /\ c1.next_item_id = c.next_item_id
      /\ c1.waiting_retry = c.waiting_retry /\ c1.groups = c.groups
      /\ c1.attempts = OneLess(c, B)
  BY <1>1, <1>3, <1>5, <1>6 DEF Coordinators
<1>8. SameResults(c, c1)
  BY <1>7, SameFields
<1>9. Items(c1) = Items(c)
  BY <1>7 DEF Items
<1>10. B \subseteq c.executing
  BY DEF B
<1>11. Parked(c1) = Parked(c)
  BY <1>3, <1>7, <1>9, <1>10 DEF Parked, Queued, Terminal
<1> QED BY <1>3, <1>7, <1>8, <1>9, <1>11 DEF Returning, B

LEMMA ReturnKeeps ==
    ASSUME NEW c, NEW c1, Sound(c), NEW leases, Range(leases) \subseteq c.executing,
           Returning(c, c1, leases)
    PROVE  Sound(c1)
<1>1. c.next_item_id \in c.next_item_id .. MaxItems
  BY CoordinatorAssumption DEF Sound, Typed
<1>2. /\ Range(c1.ready) \cup c1.executing \cup c1.waiting_retry \subseteq Items(c1)
      /\ Unresolved(c1) \subseteq Unresolved(c)
      /\ Range(c1.ready) \cap c1.executing = {}
      /\ Range(c1.ready) \cap c1.waiting_retry = {}
      /\ c1.executing \cap c1.waiting_retry = {}
  BY DEF Sound, Typed, Apart, Unresolved, Returning, SameResults
<1>3. ParkedAreParents(c1)
  BY DEF Sound, ParkedAreParents, Returning
<1>4. \A g \in DOMAIN c1.groups :
         c1.groups[g].items \cup {c1.groups[g].parent} \subseteq Items(c1)
  BY DEF Sound, Typed, Returning
<1> QED BY <1>1, <1>2, <1>3, <1>4, MoveKeeps DEF Returning, SameResults

\* A resumed parent is not executing: giving it back does nothing.
LEMMA ReturnNothing ==
    ASSUME NEW c, Sound(c), NEW leases \in Seq(ItemId), Range(leases) \cap c.executing = {}
    PROVE  ReturnLeases(c, leases) = c
<1>1. c \in Coordinators /\ c.ready \in Seq(ItemId)
  BY DEF Sound, Typed, Coordinators
<1>2. KeepIn(leases, c.executing) = << >>
  <2>1. \A k \in DOMAIN leases : leases[k] \notin c.executing
    BY DEF Range
  <2>2. CASE leases = << >>
    BY <2>2 DEF KeepIn
  <2>3. CASE leases # << >>
    <3>1. 1 \in DOMAIN leases
      BY <2>3
    <3> QED BY <2>1, <3>1 DEF KeepIn
  <2> QED BY <2>2, <2>3
<1>3. << >> \o c.ready = c.ready /\ Range(<< >>) = {}
  BY <1>1 DEF Range
<1>4. [i \in ItemId |-> IF i \in {} /\ c.attempts[i] > 0
                        THEN c.attempts[i] - 1 ELSE c.attempts[i]] = c.attempts
  BY <1>1 DEF Coordinators
<1>5. ReturnLeases(c, leases) = [c EXCEPT !.ready     = c.ready,
                                          !.executing = c.executing,
                                          !.attempts  = c.attempts]
  BY <1>2, <1>3, <1>4 DEF ReturnLeases
<1> QED BY <1>1, <1>5 DEF Coordinators

\* Queueing an item that is not queued.
LEMMA Pushed ==
    ASSUME NEW s \in Seq(ItemId), NEW i \in ItemId, Distinct(s), i \notin Range(s)
    PROVE  /\ Append(s, i) \in Seq(ItemId) /\ Range(Append(s, i)) = Range(s) \cup {i}
           /\ Distinct(Append(s, i))
<1>1. <<i>> \in Seq(ItemId) /\ Range(<<i>>) = {i} /\ Distinct(<<i>>)
  BY DEF Range, Distinct
<1>2. Append(s, i) = s \o <<i>>
  BY AppendIsConcat
<1>3. Range(s \o <<i>>) = Range(s) \cup Range(<<i>>)
  BY <1>1, RangeOfConcat
<1>4. Distinct(s \o <<i>>)
  BY <1>1, DistinctConcat
<1> QED BY <1>1, <1>2, <1>3, <1>4

\* i moves, from where it runs or waits for its backoff, to the queue.
QueuedAs(c, i) == [c EXCEPT !.ready         = Append(c.ready, i),
                            !.executing     = c.executing \ {i},
                            !.waiting_retry = c.waiting_retry \ {i}]

Queueing(c, c1, i) ==
    /\ i \in Unresolved(c) \ Range(c.ready) /\ i \in ItemId /\ i \in Items(c)
    /\ SameResults(c, c1)
    /\ Range(c1.ready) = Range(c.ready) \cup {i} /\ Distinct(c1.ready)
    /\ c1.executing = c.executing \ {i}
    /\ c1.waiting_retry = c.waiting_retry \ {i}
    /\ c1.attempts = c.attempts
    /\ c1.next_item_id = c.next_item_id /\ c1.groups = c.groups
    /\ Items(c1) = Items(c) /\ Parked(c1) = Parked(c) \ {i}

LEMMA QueueFields ==
    ASSUME NEW c, NEW c1, Sound(c), NEW i \in Running(c) \cup c.waiting_retry,
           c1 = QueuedAs(c, i)
    PROVE  Queueing(c, c1, i)
<1>1. c \in Coordinators /\ c.ready \in Seq(ItemId) /\ Distinct(c.ready)
  BY DEF Sound, Typed, Coordinators
<1>2. i \in Unresolved(c) \ Range(c.ready) /\ i \in ItemId /\ i \in Items(c)
  <2>1. CASE i \in Running(c)
    BY <2>1, RunningItem DEF Unresolved
  <2>2. CASE i \in c.waiting_retry
    BY <1>1, <2>2 DEF Sound, Typed, Apart, Unresolved, Coordinators
  <2> QED BY <2>1, <2>2
<1> DEFINE t == Append(c.ready, i)
<1>3. t \in Seq(ItemId) /\ Range(t) = Range(c.ready) \cup {i} /\ Distinct(t)
  BY <1>1, <1>2, Pushed
<1>4. /\ c1 \in Coordinators
      /\ c1.ready = t /\ c1.executing = c.executing \ {i}
      /\ c1.waiting_retry = c.waiting_retry \ {i}
      /\ c1.done = c.done /\ c1.failed = c.failed /\ c1.skipped = c.skipped
      /\ c1.pending = c.pending /\ c1.next_item_id = c.next_item_id
      /\ c1.groups = c.groups /\ c1.attempts = c.attempts
  BY <1>1, <1>3 DEF Coordinators, QueuedAs
<1> HIDE DEF t
<1>5. SameResults(c, c1) /\ Items(c1) = Items(c)
  BY <1>4, SameFields DEF Items
<1>6. Parked(c1) = Parked(c) \ {i}
  BY <1>2, <1>3, <1>4, <1>5 DEF Parked, Queued, SameResults
<1> QED BY <1>2, <1>3, <1>4, <1>5, <1>6 DEF Queueing

LEMMA QueueKeeps ==
    ASSUME NEW c, NEW c1, Sound(c), NEW i, Queueing(c, c1, i)
    PROVE  Sound(c1)
<1>1. c.next_item_id \in c.next_item_id .. MaxItems
  BY CoordinatorAssumption DEF Sound, Typed
<1>2. /\ Range(c1.ready) \cup c1.executing \cup c1.waiting_retry \subseteq Items(c1)
      /\ Unresolved(c1) \subseteq Unresolved(c)
      /\ Range(c1.ready) \cap c1.executing = {}
      /\ Range(c1.ready) \cap c1.waiting_retry = {}
      /\ c1.executing \cap c1.waiting_retry = {}
  BY DEF Sound, Typed, Apart, Unresolved, Queueing, SameResults
<1>3. ParkedAreParents(c1)
  BY DEF Sound, ParkedAreParents, Queueing
<1>4. \A g \in DOMAIN c1.groups :
         c1.groups[g].items \cup {c1.groups[g].parent} \subseteq Items(c1)
  BY DEF Sound, Typed, Queueing
<1> QED BY <1>1, <1>2, <1>3, <1>4, MoveKeeps DEF Queueing, SameResults

\* The end of a backoff, and a failure that is retried at once.
LEMMA RequeueQueues ==
    ASSUME NEW c, Sound(c), NEW i \in c.waiting_retry
    PROVE  RequeueItem(c, i) = QueuedAs(c, i)
<1>1. c \in Coordinators /\ i \notin c.executing
  BY DEF Sound, Typed, Apart
<1>2. c.executing \ {i} = c.executing
  BY <1>1
<1> QED BY <1>1, <1>2 DEF RequeueItem, QueuedAs, Coordinators

LEMMA RetryQueues ==
    ASSUME NEW c, Sound(c), NEW i \in Running(c), i \notin Backoff
    PROVE  RetryItem(c, i) = QueuedAs(c, i)
<1>1. c \in Coordinators /\ i \notin c.waiting_retry
  BY RunningItem DEF Sound, Typed
<1>2. c.waiting_retry \ {i} = c.waiting_retry
  BY <1>1
<1> QED BY <1>1, <1>2 DEF RetryItem, QueuedAs, Coordinators

\* A failed item with a backoff waits for it.
Parking(c, c1, i) ==
    /\ i \in Unresolved(c) \ Range(c.ready) /\ i \in ItemId /\ i \in Items(c)
    /\ SameResults(c, c1)
    /\ c1.executing = c.executing \ {i}
    /\ c1.waiting_retry = c.waiting_retry \cup {i}
    /\ c1.ready = c.ready /\ c1.attempts = c.attempts
    /\ c1.next_item_id = c.next_item_id /\ c1.groups = c.groups
    /\ Items(c1) = Items(c) /\ Parked(c1) = Parked(c) \ {i}

LEMMA RetryParks ==
    ASSUME NEW c, NEW c1, Sound(c), NEW i \in Running(c), i \in Backoff,
           c1 = RetryItem(c, i)
    PROVE  Parking(c, c1, i)
<1>1. /\ c \in Coordinators /\ i \in ItemId /\ i \in Items(c)
      /\ i \in Unresolved(c) \ Range(c.ready) /\ i \notin Queued(c)
  BY RunningItem DEF Sound, Typed, Unresolved, Queued, Waiting
<1>2. c1 = [c EXCEPT !.executing     = c.executing \ {i},
                     !.waiting_retry = c.waiting_retry \cup {i}]
  BY DEF RetryItem
<1>3. c.waiting_retry \cup {i} \in SUBSET ItemId /\ c.executing \ {i} \in SUBSET ItemId
  BY <1>1 DEF Coordinators
<1>4. /\ c1 \in Coordinators
      /\ c1.executing = c.executing \ {i}
      /\ c1.waiting_retry = c.waiting_retry \cup {i}
      /\ c1.ready = c.ready /\ c1.attempts = c.attempts
      /\ c1.done = c.done /\ c1.failed = c.failed /\ c1.skipped = c.skipped
      /\ c1.pending = c.pending /\ c1.next_item_id = c.next_item_id
      /\ c1.groups = c.groups
  BY <1>1, <1>2, <1>3 DEF Coordinators
<1>5. SameResults(c, c1) /\ Items(c1) = Items(c)
  BY <1>4, SameFields DEF Items
<1>6. Parked(c1) = Parked(c) \ {i}
  BY <1>4, <1>5 DEF Parked, Queued, SameResults
<1> QED BY <1>1, <1>4, <1>5, <1>6 DEF Parking

LEMMA RetryMoves ==
    ASSUME NEW c, NEW c1, Sound(c), NEW i \in Running(c), c1 = RetryItem(c, i)
    PROVE  Parking(c, c1, i) \/ Queueing(c, c1, i)
<1>1. CASE i \in Backoff
  BY <1>1, RetryParks
<1>2. CASE i \notin Backoff
  BY <1>2, RetryQueues, QueueFields
<1> QED BY <1>1, <1>2

LEMMA RetryKeeps ==
    ASSUME NEW c, NEW c1, Sound(c), NEW i, Parking(c, c1, i) \/ Queueing(c, c1, i)
    PROVE  Sound(c1)
<1>1. CASE Parking(c, c1, i)
  <2>1. c.next_item_id \in c.next_item_id .. MaxItems
    BY CoordinatorAssumption DEF Sound, Typed
  <2>2. /\ Range(c1.ready) \cup c1.executing \cup c1.waiting_retry \subseteq Items(c1)
        /\ Unresolved(c1) \subseteq Unresolved(c)
        /\ Range(c1.ready) \cap c1.executing = {}
        /\ Range(c1.ready) \cap c1.waiting_retry = {}
        /\ c1.executing \cap c1.waiting_retry = {}
    BY <1>1 DEF Sound, Typed, Apart, Unresolved, Parking
  <2>3. ParkedAreParents(c1)
    BY <1>1 DEF Sound, ParkedAreParents, Parking
  <2>4. \A g \in DOMAIN c1.groups :
           c1.groups[g].items \cup {c1.groups[g].parent} \subseteq Items(c1)
    BY <1>1 DEF Sound, Typed, Parking
  <2>5. Distinct(c1.ready)
    BY <1>1 DEF Sound, Parking
  <2> QED BY <1>1, <2>1, <2>2, <2>3, <2>4, <2>5, MoveKeeps DEF Parking, SameResults
<1>2. CASE Queueing(c, c1, i)
  BY <1>2, QueueKeeps
<1> QED BY <1>1, <1>2

\* A parent is parked; its branches are queued and counted by a new group.
Branches(c, n) == c.next_item_id .. c.next_item_id + n - 1

GroupOf(c, p, n) == [parent |-> p, items |-> Branches(c, n), completed |-> 0]

Forking(c, c1, p, n) ==
    /\ c.next_item_id \in Nat /\ c.next_item_id + n \in NumItems .. MaxItems
    /\ SameResults(c, c1)
    /\ Branches(c, n) \subseteq ItemId /\ IsFiniteSet(Branches(c, n))
    /\ Branches(c, n) # {} /\ Branches(c, n) \cap PhaseItem = {}
    /\ Items(c) \cap Branches(c, n) = {} /\ Items(c1) = Items(c) \cup Branches(c, n)
    /\ c1.next_item_id = c.next_item_id + n
    /\ c1.executing = c.executing \ {p}
    /\ Range(c1.ready) = Range(c.ready) \cup Branches(c, n) /\ Distinct(c1.ready)
    /\ c1.waiting_retry = c.waiting_retry /\ c1.attempts = c.attempts
    /\ c1.groups = Append(c.groups, GroupOf(c, p, n))
    /\ DOMAIN c1.groups = DOMAIN c.groups \cup {Len(c.groups) + 1}
    /\ Len(c.groups) + 1 \notin DOMAIN c.groups
    /\ \A g \in DOMAIN c.groups : c1.groups[g] = c.groups[g]
    /\ c1.groups[Len(c.groups) + 1] = GroupOf(c, p, n)
    /\ Parked(c1) = Parked(c) \cup {p}

LEMMA ForkFields ==
    ASSUME NEW c, NEW c1, Sound(c), NEW p \in Running(c), NEW n \in 1 .. MaxWidth,
           c.next_item_id + n <= MaxItems, c1 = OnParallelRequested(c, p, n)
    PROVE  Forking(c, c1, p, n)
<1> DEFINE first == c.next_item_id
           fresh == [k \in 1 .. n |-> first + k - 1]
           group == GroupOf(c, p, n)
           B     == Branches(c, n)
<1>1. c \in Coordinators /\ c.ready \in Seq(ItemId) /\ Distinct(c.ready)
      /\ c.groups \in Seq(Group)
  BY DEF Sound, Typed, Coordinators
<1>2. /\ first \in Nat /\ NumItems <= first /\ NumItems \in Nat
      /\ n \in Nat \ {0} /\ MaxItems \in Nat /\ first + n <= MaxItems
  BY <1>1, CoordinatorAssumption DEF Sound, Typed, Coordinators
<1>3. p \in ItemId /\ p \in Items(c)
      /\ p \notin Range(c.ready) \cup Waiting(c) \cup c.waiting_retry \cup Terminal(c)
  BY RunningItem
<1>4. /\ fresh \in Seq(ItemId) /\ Distinct(fresh)
      /\ Range(fresh) = B
  <2>1. fresh \in [1 .. n -> ItemId]
    BY <1>2 DEF ItemId
  <2>2. fresh \in Seq(ItemId)
    BY <1>2, <2>1, SeqDef
  <2>3. Distinct(fresh)
    BY <1>2 DEF Distinct
  <2>4. ASSUME NEW x \in first .. first + n - 1 PROVE x \in Range(fresh)
    <3>1. x - first + 1 \in 1 .. n /\ fresh[x - first + 1] = x
      BY <1>2
    <3> QED BY <3>1 DEF Range
  <2>5. Range(fresh) \subseteq first .. first + n - 1
    BY <1>2 DEF Range
  <2> QED BY <2>2, <2>3, <2>4, <2>5 DEF Branches
<1>5. /\ Range(c.ready) \cup c.executing \cup c.waiting_retry \cup Terminal(c)
            \cup Waiting(c) \subseteq 0 .. first - 1
      /\ Items(c) = 0 .. first - 1
  BY <1>2 DEF Sound, Typed, Items, Terminal, Waiting, PhaseItem
<1>6. /\ B \subseteq ItemId /\ IsFiniteSet(B) /\ B # {} /\ B \cap PhaseItem = {}
      /\ (0 .. first - 1) \cap B = {} /\ 0 .. first + n - 1 = (0 .. first - 1) \cup B
      /\ first + n \in NumItems .. MaxItems
  <2>1. IsFiniteSet(B)
    <3>1. first \in Int /\ first + n - 1 \in Int
      BY <1>2
    <3>2. IsFiniteSet(first .. first + n - 1)
      BY <3>1, FS_Interval
    <3> QED BY <3>2 DEF Branches
  <2>2. first \in B
    BY <1>2 DEF Branches
  <2> QED BY <1>2, <2>1, <2>2 DEF Branches, ItemId, PhaseItem
<1> HIDE DEF B, fresh
<1>7. Range(c.ready) \cap Range(fresh) = {}
  BY <1>4, <1>5, <1>6
<1>8. /\ c.ready \o fresh \in Seq(ItemId)
      /\ Range(c.ready \o fresh) = Range(c.ready) \cup B
      /\ Distinct(c.ready \o fresh)
  BY <1>1, <1>4, <1>7, RangeOfConcat, DistinctConcat, ConcatProperties
<1>9. group \in Group /\ group = [parent |-> p, items |-> B, completed |-> 0]
  BY <1>3, <1>6 DEF Group, GroupOf, B
<1> HIDE DEF group
<1> DEFINE gs == Append(c.groups, group)
<1>10. gs \in Seq(Group)
       /\ DOMAIN gs = DOMAIN c.groups \cup {Len(c.groups) + 1}
       /\ Len(c.groups) + 1 \notin DOMAIN c.groups
       /\ \A g \in DOMAIN c.groups : gs[g] = c.groups[g]
       /\ gs[Len(c.groups) + 1] = group
  BY <1>1, <1>9, AppendProperties
<1> HIDE DEF gs
<1>11. c1 = [c EXCEPT !.executing    = c.executing \ {p},
                      !.next_item_id = first + n,
                      !.ready        = c.ready \o fresh,
                      !.groups       = gs]
  BY <1>9 DEF OnParallelRequested, B, Branches, fresh, gs
<1>12. first + n \in Nat /\ c.executing \ {p} \in SUBSET ItemId
  BY <1>1, <1>2 DEF Coordinators
<1> HIDE DEF first
<1>13. /\ c1 \in Coordinators
       /\ c1.executing = c.executing \ {p} /\ c1.next_item_id = first + n
       /\ c1.ready = c.ready \o fresh
       /\ c1.groups = gs
       /\ c1.done = c.done /\ c1.failed = c.failed /\ c1.skipped = c.skipped
       /\ c1.pending = c.pending /\ c1.waiting_retry = c.waiting_retry
       /\ c1.attempts = c.attempts
  BY <1>1, <1>8, <1>10, <1>11, <1>12 DEF Coordinators
<1>14. SameResults(c, c1)
  BY <1>13, SameFields
<1>15. Items(c1) = Items(c) \cup B
  <2>1. Items(c1) = 0 .. first + n - 1
    <3>1. c1.next_item_id - 1 = first + n - 1
      BY <1>2, <1>13
    <3> QED BY <3>1, Zenon DEF Items
  <2> QED BY <1>5, <1>6, <2>1
<1>16. Range(c1.ready) = Range(c.ready) \cup B /\ Distinct(c1.ready)
  BY <1>8, <1>13
<1>17. Parked(c1) = Parked(c) \cup {p}
  <2>1. p \notin B /\ p \notin Queued(c1)
    BY <1>3, <1>5, <1>6, <1>13, <1>14, <1>16 DEF Queued, Waiting, SameResults
  <2>2. Queued(c1) = Queued(c) \cup B
    BY <1>13, <1>16 DEF Queued
  <2>3. B \cap Items(c) = {} /\ p \notin c.waiting_retry \cup Terminal(c)
    BY <1>3, <1>5, <1>6
  <2> QED BY <1>3, <1>13, <1>14, <1>15, <2>1, <2>2, <2>3 DEF Parked, SameResults
<1>18. /\ DOMAIN c1.groups = DOMAIN c.groups \cup {Len(c.groups) + 1}
       /\ \A g \in DOMAIN c.groups : c1.groups[g] = c.groups[g]
       /\ c1.groups[Len(c.groups) + 1] = group
       /\ c1.groups = Append(c.groups, group)
       /\ Items(c) \cap B = {} /\ c.next_item_id \in Nat
       /\ c.next_item_id + n \in NumItems .. MaxItems
       /\ c1.next_item_id = c.next_item_id + n
  <2>1. Items(c) \cap B = {}
    BY <1>5, <1>6
  <2>2. /\ DOMAIN c1.groups = DOMAIN c.groups \cup {Len(c.groups) + 1}
        /\ \A g \in DOMAIN c.groups : c1.groups[g] = c.groups[g]
        /\ c1.groups[Len(c.groups) + 1] = group
        /\ c1.groups = Append(c.groups, group)
    BY <1>10, <1>13 DEF gs
  <2>3. /\ c.next_item_id \in Nat
        /\ c.next_item_id + n \in NumItems .. MaxItems
        /\ c1.next_item_id = c.next_item_id + n
    BY <1>2, <1>6, <1>13 DEF first
  <2> QED BY <2>1, <2>2, <2>3
<1>19. /\ c.next_item_id \in Nat /\ c.next_item_id + n \in NumItems .. MaxItems
       /\ SameResults(c, c1)
       /\ B \subseteq ItemId /\ IsFiniteSet(B) /\ B # {} /\ B \cap PhaseItem = {}
       /\ Items(c) \cap B = {} /\ Items(c1) = Items(c) \cup B
       /\ c1.next_item_id = c.next_item_id + n
       /\ c1.executing = c.executing \ {p}
  BY <1>6, <1>13, <1>14, <1>15, <1>18
<1>20. /\ Range(c1.ready) = Range(c.ready) \cup B /\ Distinct(c1.ready)
       /\ c1.waiting_retry = c.waiting_retry /\ c1.attempts = c.attempts
       /\ c1.groups = Append(c.groups, group)
       /\ DOMAIN c1.groups = DOMAIN c.groups \cup {Len(c.groups) + 1}
       /\ Len(c.groups) + 1 \notin DOMAIN c.groups
       /\ \A g \in DOMAIN c.groups : c1.groups[g] = c.groups[g]
       /\ c1.groups[Len(c.groups) + 1] = group
       /\ Parked(c1) = Parked(c) \cup {p}
  BY <1>10, <1>13, <1>16, <1>17, <1>18
<1> QED BY <1>19, <1>20 DEF Forking, B, group

LEMMA ForkKeeps ==
    ASSUME NEW c, NEW c1, Sound(c), NEW p \in Running(c), NEW n \in 1 .. MaxWidth,
           Forking(c, c1, p, n)
    PROVE  Sound(c1)
<1> DEFINE B == Branches(c, n)
<1>1. p \in Items(c)
      /\ p \notin Range(c.ready) \cup Waiting(c) \cup c.waiting_retry \cup Terminal(c)
      /\ (p \notin c.executing => p \in Parked(c))
  BY RunningItem
<1>2. c1.next_item_id \in c.next_item_id .. MaxItems
  BY CoordinatorAssumption DEF Forking
<1>3. /\ c1 \in Coordinators
      /\ c1.executing = c.executing \ {p}
      /\ Range(c1.ready) = Range(c.ready) \cup B /\ Distinct(c1.ready)
      /\ c1.done = c.done /\ c1.failed = c.failed /\ c1.skipped = c.skipped
      /\ c1.pending = c.pending /\ c1.waiting_retry = c.waiting_retry
      /\ Items(c) \cap B = {} /\ Items(c1) = Items(c) \cup B
      /\ Parked(c1) = Parked(c) \cup {p}
  BY DEF Forking, SameResults
<1>4. GroupOf(c, p, n).parent = p /\ GroupOf(c, p, n).items = B
  BY DEF GroupOf
<1>5. /\ DOMAIN c1.groups = DOMAIN c.groups \cup {Len(c.groups) + 1}
      /\ \A g \in DOMAIN c.groups : c1.groups[g] = c.groups[g]
      /\ c1.groups[Len(c.groups) + 1].parent = p
      /\ c1.groups[Len(c.groups) + 1].items = B
  BY <1>4 DEF Forking
<1> HIDE DEF B
<1>6. Range(c.ready) \cup c.executing \cup c.waiting_retry \subseteq Items(c)
  BY DEF Sound, Typed
<1>7. Unresolved(c1) \subseteq Unresolved(c) \cup (Items(c1) \ Items(c))
  BY <1>1, <1>3 DEF Unresolved
<1>8. /\ Range(c1.ready) \cap c1.executing = {} /\ Range(c1.ready) \cap c1.waiting_retry = {}
      /\ c1.executing \cap c1.waiting_retry = {}
      /\ Range(c1.ready) \cup c1.executing \cup c1.waiting_retry \subseteq Items(c1)
  BY <1>3, <1>6 DEF Sound, Apart
<1>9. ParkedAreParents(c1)
  <2> SUFFICES ASSUME NEW i \in Parked(c1)
               PROVE  \E g \in DOMAIN c1.groups : c1.groups[g].parent = i
    BY DEF ParkedAreParents
  <2>1. CASE i = p
    BY <1>5, <2>1
  <2>2. CASE i \in Parked(c)
    BY <1>5, <2>2 DEF Sound, ParkedAreParents
  <2> QED BY <1>3, <2>1, <2>2
<1>10. \A g \in DOMAIN c1.groups :
         c1.groups[g].items \cup {c1.groups[g].parent} \subseteq Items(c1)
  <2> TAKE g \in DOMAIN c1.groups
  <2>1. CASE g \in DOMAIN c.groups
    BY <1>3, <1>5, <2>1 DEF Sound, Typed
  <2>2. CASE g = Len(c.groups) + 1
    BY <1>1, <1>3, <1>5, <2>2
  <2> QED BY <1>5, <2>1, <2>2
<1> QED BY <1>2, <1>3, <1>7, <1>8, <1>9, <1>10, MoveKeeps

\* One lease, and what it says of an item.
LEMMA OneLease ==
    ASSUME NEW i \in ItemId
    PROVE  <<i>> \in Seq(ItemId) /\ Distinct(<<i>>) /\ Range(<<i>>) = {i}
BY DEF Distinct, Range

-----------------------------------------------------------------------------
(***************************************************************************)
(* The theorems that follow from CoreInv.                                  *)
(***************************************************************************)
LEMMA InitCore == Init => CoreInv
<1> SUFFICES ASSUME Init PROVE CoreInv
  OBVIOUS
<1> DEFINE F == {i \in PhaseItem : Data(i) \cup Order(i) = {}}
<1>1. PICK s \in InIdOrder(F) : Range(s) = F /\ co = LoadPhase(s)
  BY DEF Init
<1>2. F \in SUBSET ItemId /\ F \subseteq PhaseItem
  BY Deps
<1>3. s \in [1 .. Cardinality(F) -> F]
      /\ \A j, k \in 1 .. Cardinality(F) : j < k => s[j] < s[k]
  BY <1>1 DEF InIdOrder
<1>4. s \in Seq(ItemId) /\ DOMAIN s = 1 .. Cardinality(F) /\ Cardinality(F) \in Nat
  BY <1>2, <1>3, NumberingIsSeq, Deps, FS_Subset, FS_CardinalityType
<1>5. Distinct(s)
  <2> SUFFICES ASSUME NEW j \in DOMAIN s, NEW k \in DOMAIN s, s[j] = s[k], j # k PROVE FALSE
    BY DEF Distinct
  <2>1. s[j] \in Int /\ s[k] \in Int
    BY <1>2, <1>3, <1>4 DEF ItemId
  <2>2. j \in 1 .. Cardinality(F) /\ k \in 1 .. Cardinality(F)
    BY <1>4
  <2>3. j < k \/ k < j
    BY <1>4, <2>2
  <2> HIDE DEF F
  <2>4. s[j] < s[k] \/ s[k] < s[j]
    BY <1>3, <2>2, <2>3
  <2> QED BY <2>1, <2>4
<1> DEFINE pend == [i \in PhaseItem |-> Data(i) \cup Order(i)]
<1>6. /\ co.ready = s /\ co.executing = {} /\ co.done = {} /\ co.failed = {}
      /\ co.skipped = {} /\ co.waiting_retry = {} /\ co.groups = << >>
      /\ co.next_item_id = NumItems /\ co.pending = pend
      /\ co.attempts = [i \in ItemId |-> 0]
  BY <1>1 DEF LoadPhase
<1>7. co \in Coordinators
  <2>1. pend \in [PhaseItem -> SUBSET PhaseItem] /\ << >> \in Seq(Group)
        /\ NumItems \in Nat
    BY Deps, CoordinatorAssumption, EmptySeq
  <2> QED BY <1>1, <1>4, <2>1 DEF LoadPhase, Coordinators
<1>8. Items(co) = PhaseItem /\ Terminal(co) = {} /\ Range(co.ready) = F
      /\ Waiting(co) = PhaseItem \ F /\ Parked(co) = {}
  BY <1>1, <1>6 DEF Items, PhaseItem, Terminal, Waiting, Parked, Queued
<1>9. TypeOK
  <2>1. NumItems \in NumItems .. MaxItems
    BY CoordinatorAssumption
  <2> QED BY <1>6, <1>7, <1>8, <2>1 DEF TypeOK, Coordinators
<1>10. Apart(co)
  BY <1>6, <1>8 DEF Apart
<1>11. \A i \in PhaseItem : Unsatisfied(co, i) = Data(i) \cup Order(i)
  BY <1>6, <1>8 DEF Unsatisfied
<1>12. DispatchedAfterUpstreams
  BY <1>6, <1>8, <1>11 DEF DispatchedAfterUpstreams
<1>13. PendingIsUnsatisfied
  BY <1>6, <1>11 DEF PendingIsUnsatisfied
<1>14. FailurePropagates
  BY <1>6 DEF FailurePropagates
<1>15. ParkedAreParents(co)
  BY <1>8 DEF ParkedAreParents
<1>16. Distinct(co.ready)
  BY <1>5, <1>6
<1> QED BY <1>9, <1>10, <1>12, <1>13, <1>14, <1>15, <1>16, CoreInvIs

\* The operations as they are taken.
LEMMA DispatchLeases ==
    ASSUME CoreInv, Dispatch
    PROVE  Leasing(co, co', Range(SubSeq(co.ready, 1, 1)))
<1>1. co.ready \in Seq(ItemId) /\ co.ready # << >> /\ co' = Lease(co, 1)
  BY DEF CoreInv, Sound, Typed, Coordinators, Dispatch
<1>2. 1 \in 0 .. Len(co.ready)
  BY <1>1
<1> QED BY <1>1, <1>2, LeaseFields DEF CoreInv

LEMMA ReturnLeasedReturns ==
    ASSUME CoreInv, NEW i, ReturnLeased(i)
    PROVE  Returning(co, co', <<i>>) /\ Range(<<i>>) \subseteq co.executing
           /\ i \in co.executing /\ Range(<<i>>) = {i}
<1>1. i \in co.executing /\ i \in ItemId /\ co' = ReturnLeases(co, <<i>>)
  BY DEF CoreInv, Sound, Typed, Coordinators, ReturnLeased
<1>2. <<i>> \in Seq(ItemId) /\ Distinct(<<i>>) /\ Range(<<i>>) = {i}
  BY <1>1, OneLease
<1> QED BY <1>1, <1>2, ReturnFields DEF CoreInv

LEMMA CompleteResolves ==
    ASSUME NEW i, Complete(i)
    PROVE  \E order : Resolving(co, co', i, {}, order)
BY DEF Complete, Resolving

LEMMA FailResolves ==
    ASSUME NEW c, NEW c1, NEW i \in Running(c), NEW order \in FailureOrders(c, i),
           c1 = OnItemFailed(c, i, order)
    PROVE  \/ CanRetry(c, i) /\ c1 = RetryItem(c, i)
           \/ ~CanRetry(c, i) /\ Resolving(c, c1, i, {i}, order)
<1>1. {i} # {}
  OBVIOUS
<1> QED BY <1>1 DEF OnItemFailed, FailureOrders, Resolving

LEMMA ParallelForks ==
    ASSUME CoreInv, NEW p, NEW n \in 1 .. MaxWidth, Parallel(p, n)
    PROVE  p \in Running(co) /\ Forking(co, co', p, n)
BY ForkFields DEF CoreInv, Parallel

LEMMA NextCore == CoreInv /\ [Next]_co => CoreInv'
<1> SUFFICES ASSUME CoreInv, [Next]_co PROVE Sound(co')
  BY DEF CoreInv
<1>0. Sound(co)
  BY DEF CoreInv
<1>1. CASE Dispatch
  BY <1>0, <1>1, DispatchLeases, LeaseKeeps
<1>2. ASSUME NEW i \in Items(co), Complete(i) PROVE Sound(co')
  BY <1>0, <1>2, CompleteResolves, ResolutionKeeps
<1>3. ASSUME NEW i \in Items(co), Fail(i) PROVE Sound(co')
  <2>1. PICK order \in FailureOrders(co, i) : co' = OnItemFailed(co, i, order)
    BY <1>3 DEF Fail
  <2>2. i \in Running(co)
    BY <1>3 DEF Fail
  <2>3. CASE CanRetry(co, i) /\ co' = RetryItem(co, i)
    BY <1>0, <2>2, <2>3, RetryMoves, RetryKeeps
  <2>4. CASE Resolving(co, co', i, {i}, order)
    BY <1>0, <2>4, ResolutionKeeps
  <2> QED BY <2>1, <2>2, <2>3, <2>4, FailResolves
<1>4. ASSUME NEW i \in Items(co), ReturnLeased(i) PROVE Sound(co')
  BY <1>0, <1>4, ReturnLeasedReturns, ReturnKeeps
<1>5. ASSUME NEW i \in Items(co), Requeue(i) PROVE Sound(co')
  <2>1. i \in co.waiting_retry /\ co' = QueuedAs(co, i)
    BY <1>0, <1>5, RequeueQueues DEF Requeue
  <2> QED BY <1>0, <2>1, QueueFields, QueueKeeps
<1>6. ASSUME NEW p \in Items(co), NEW n \in 1 .. MaxWidth, Parallel(p, n) PROVE Sound(co')
  BY <1>0, <1>6, ParallelForks, ForkKeeps
<1>7. CASE Finish \/ UNCHANGED co
  BY <1>0, <1>7 DEF Finish
<1> QED BY <1>1, <1>2, <1>3, <1>4, <1>5, <1>6, <1>7 DEF Next

THEOREM Core == Spec => []CoreInv
BY InitCore, NextCore, PTL DEF Spec

\* The coordinator's state is well typed in every phase.
THEOREM TypeCorrect == Spec => []TypeOK
<1>1. CoreInv => TypeOK
  BY CoreInvIs
<1> QED BY <1>1, Core, PTL

\* No item is lost, duplicated or in two places (add_item, next_ready,
\* return_leased, requeue, the resolutions and on_parallel_requested).
THEOREM Accounted == Spec => []ItemsAccountedFor
BY CoreInvImplies, Core, PTL

\* Nothing runs before its data dependencies are done and its ordering
\* dependencies resolved, whatever the graph (unblock_dependents).
THEOREM DispatchedInOrder == Spec => []DispatchedAfterUpstreams
<1>1. CoreInv => DispatchedAfterUpstreams
  BY CoreInvIs
<1> QED BY <1>1, Core, PTL

\* Exactly the items that read a failed or skipped one are skipped, at once
\* and transitively (cascade_failure).
THEOREM FailuresReachReaders == Spec => []FailurePropagates
<1>1. CoreInv => FailurePropagates
  BY CoreInvIs
<1> QED BY <1>1, Core, PTL

\* `pending` holds what an item still waits for, no more and no less.
THEOREM PendingExact == Spec => []PendingIsUnsatisfied
<1>1. CoreInv => PendingIsUnsatisfied
  BY CoreInvIs
<1> QED BY <1>1, Core, PTL

-----------------------------------------------------------------------------
(***************************************************************************)
(* The retry budget.  That a failed item has spent it follows from every   *)
(* running item having been charged, and that a dispatch never exceeds it  *)
(* from every item that may still start having an attempt left, the ids    *)
(* not yet handed out included.                                            *)
(***************************************************************************)
Startable(c) == Range(c.ready) \cup Waiting(c) \cup c.waiting_retry
                  \cup (ItemId \ Items(c))

InBudget(c, i) ==
    /\ c.attempts[i] <= Budget(i)
    /\ i \in Startable(c) => c.attempts[i] < Budget(i)
    /\ i \in c.executing \cup Parked(c) => c.attempts[i] > 0
    /\ i \in c.failed => c.attempts[i] = Budget(i)

Budgeted(c) == \A i \in ItemId : InBudget(c, i)

BudgetInv == Budgeted(co)

LEMMA BudgetType ==
    \A i : /\ Budget(i) \in Nat \ {0} /\ RetryLimit(i) \in Nat
           /\ RetryLimit(i) <= Budget(i)
           /\ i \notin PhaseItem => Budget(i) = 1
           /\ \A n \in Nat : n > 0 /\ ~(n < RetryLimit(i)) /\ n <= Budget(i) => n = Budget(i)
<1>1. \A i : RetryLimit(i) \in Nat /\ (i \notin PhaseItem => RetryLimit(i) = 1)
  BY CoordinatorAssumption DEF RetryLimit
<1> QED BY <1>1 DEF Budget

LEMMA ItemsAreIds ==
    ASSUME NEW c, Sound(c)
    PROVE  Items(c) \subseteq ItemId /\ c.attempts \in [ItemId -> Nat]
BY CoordinatorAssumption DEF Sound, Typed, Coordinators, Items, ItemId

\* A step that charges nobody.
LEMMA UnchargedKeeps ==
    ASSUME NEW c, NEW c1, Budgeted(c), c1.attempts = c.attempts,
           \A i \in Startable(c1) : i \in Startable(c) \/ c.attempts[i] < Budget(i),
           c1.executing \cup Parked(c1) \subseteq c.executing \cup Parked(c),
           \A i \in c1.failed : i \in c.failed \/ c.attempts[i] = Budget(i)
    PROVE  Budgeted(c1)
BY DEF Budgeted, InBudget

\* What is dispatched from the queue has an attempt left.
LEMMA LeaseInBudget ==
    ASSUME NEW c, NEW c1, Sound(c), Budgeted(c), NEW B, Leasing(c, c1, B)
    PROVE  Budgeted(c1)
<1>1. /\ B \subseteq Range(c.ready) /\ B \subseteq ItemId
      /\ Range(c1.ready) = Range(c.ready) \ B
      /\ c1.executing = c.executing \cup B
      /\ c1.attempts = OneMore(c, B)
      /\ c1.failed = c.failed /\ Waiting(c1) = Waiting(c)
      /\ c1.waiting_retry = c.waiting_retry
      /\ Items(c1) = Items(c) /\ Parked(c1) = Parked(c)
  BY DEF Leasing, SameResults
<1>2. c.attempts \in [ItemId -> Nat] /\ B \subseteq Items(c)
  BY <1>1, ItemsAreIds DEF Sound, Typed
<1>3. \A h \in B : h \notin Waiting(c) \cup c.waiting_retry \cup Terminal(c)
  BY <1>1 DEF Sound, Apart
<1>4. Startable(c1) \subseteq Startable(c) \ B
  BY <1>1, <1>2, <1>3 DEF Startable
<1> SUFFICES ASSUME NEW i \in ItemId PROVE InBudget(c1, i)
  BY DEF Budgeted
<1>5. InBudget(c, i) /\ c.attempts[i] \in Nat /\ Budget(i) \in Nat
  BY <1>2, BudgetType DEF Budgeted
<1>6. CASE i \in B
  <2>1. c1.attempts[i] = c.attempts[i] + 1
    BY <1>1, <1>6 DEF OneMore
  <2>2. c.attempts[i] < Budget(i)
    BY <1>1, <1>5, <1>6 DEF InBudget, Startable
  <2>3. i \notin Startable(c1) /\ i \notin c1.failed
    BY <1>1, <1>3, <1>4, <1>6 DEF Terminal
  <2> QED BY <1>5, <2>1, <2>2, <2>3 DEF InBudget
<1>7. CASE i \notin B
  <2>1. c1.attempts[i] = c.attempts[i]
    BY <1>1, <1>7 DEF OneMore
  <2>2. /\ i \in Startable(c1) => i \in Startable(c)
        /\ i \in c1.executing \cup Parked(c1) => i \in c.executing \cup Parked(c)
        /\ i \in c1.failed => i \in c.failed
    BY <1>1, <1>4, <1>7
  <2> QED BY <1>5, <2>1, <2>2 DEF InBudget
<1> QED BY <1>6, <1>7

\* A running item that fails for good has spent its budget.
LEMMA ResolutionInBudget ==
    ASSUME NEW c, NEW c1, NEW i, NEW lost, NEW order, Sound(c), Budgeted(c),
           Resolving(c, c1, i, lost, order), lost # {} => ~CanRetry(c, i)
    PROVE  Budgeted(c1)
<1>0. i \in Running(c) /\ lost \in {{}, {i}} /\ order \in ReleaseOrders(c, i, lost)
  BY DEF Resolving
<1>1. Resolution(c, c1, i, lost, order)
  BY ResolutionFields
<1>2. /\ c1.attempts = c.attempts
      /\ c1.executing \cup Parked(c1) \subseteq c.executing \cup Parked(c)
      /\ c1.failed = c.failed \cup lost
  BY <1>1 DEF Resolution
<1>3. ReleasedWith(c, i, lost) \subseteq Waiting(c)
  <2>1. Releases(c, i, lost, order)
    BY <1>0, ReleasedSet
  <2> QED BY <2>1 DEF Releases
<1>4. Startable(c1) \subseteq Startable(c)
  BY <1>1, <1>3 DEF Resolution, Startable
<1>5. lost # {} => c.attempts[i] = Budget(i)
  <2> SUFFICES ASSUME lost # {} PROVE c.attempts[i] = Budget(i)
    OBVIOUS
  <2>1. i \in ItemId /\ i \in c.executing \cup Parked(c)
    BY <1>0, RunningItem
  <2>2. c.attempts[i] \in Nat /\ c.attempts[i] > 0 /\ c.attempts[i] <= Budget(i)
    BY <2>1, ItemsAreIds DEF Budgeted, InBudget
  <2>3. ~(c.attempts[i] < RetryLimit(i))
    BY DEF CanRetry
  <2> QED BY <2>2, <2>3, BudgetType
<1>6. \A j \in c1.failed : j \in c.failed \/ c.attempts[j] = Budget(j)
  BY <1>0, <1>2, <1>5
<1> QED BY <1>2, <1>4, <1>6, UnchargedKeeps

\* What is queued again has an attempt left.
LEMMA RetryInBudget ==
    ASSUME NEW c, NEW c1, Sound(c), Budgeted(c), NEW i \in Running(c), CanRetry(c, i),
           Parking(c, c1, i) \/ Queueing(c, c1, i)
    PROVE  Budgeted(c1)
<1>1. i \in ItemId /\ c.attempts[i] \in Nat
  BY RunningItem, ItemsAreIds
<1>2. c.attempts[i] < Budget(i)
  <2>1. c.attempts[i] < RetryLimit(i)
    BY DEF CanRetry
  <2>2. RetryLimit(i) \in Nat /\ Budget(i) \in Nat /\ RetryLimit(i) <= Budget(i)
    BY BudgetType
  <2> QED BY <1>1, <2>1, <2>2
<1>3. /\ c1.attempts = c.attempts /\ c1.failed = c.failed /\ Items(c1) = Items(c)
      /\ c1.executing \cup Parked(c1) \subseteq c.executing \cup Parked(c)
      /\ Waiting(c1) = Waiting(c)
      /\ Range(c1.ready) \cup c1.waiting_retry
           \subseteq Range(c.ready) \cup c.waiting_retry \cup {i}
  <2>1. CASE Parking(c, c1, i)
    BY <2>1 DEF Parking, SameResults
  <2>2. CASE Queueing(c, c1, i)
    BY <2>2 DEF Queueing, SameResults
  <2> QED BY <2>1, <2>2
<1>4. Startable(c1) \subseteq Startable(c) \cup {i}
  BY <1>3 DEF Startable
<1> QED BY <1>2, <1>3, <1>4, UnchargedKeeps

LEMMA RequeueInBudget ==
    ASSUME NEW c, NEW c1, Budgeted(c), NEW i \in c.waiting_retry, Queueing(c, c1, i)
    PROVE  Budgeted(c1)
<1>1. /\ c1.attempts = c.attempts /\ c1.failed = c.failed /\ Items(c1) = Items(c)
      /\ c1.executing \cup Parked(c1) \subseteq c.executing \cup Parked(c)
      /\ Waiting(c1) = Waiting(c) /\ c1.waiting_retry = c.waiting_retry \ {i}
      /\ Range(c1.ready) = Range(c.ready) \cup {i}
  BY DEF Queueing, SameResults
<1>2. Startable(c1) \subseteq Startable(c)
  BY <1>1 DEF Startable
<1> QED BY <1>1, <1>2, UnchargedKeeps

\* Leases given back give their attempts back.
LEMMA ReturnInBudget ==
    ASSUME NEW c, NEW c1, Sound(c), Budgeted(c), NEW leases,
           Range(leases) \subseteq c.executing, Returning(c, c1, leases)
    PROVE  Budgeted(c1)
<1> DEFINE B == Range(leases)
<1>1. /\ B \subseteq c.executing
      /\ Range(c1.ready) = Range(c.ready) \cup B
      /\ c1.executing = c.executing \ B
      /\ c1.attempts = OneLess(c, B)
      /\ c1.failed = c.failed /\ Waiting(c1) = Waiting(c)
      /\ c1.waiting_retry = c.waiting_retry
      /\ Items(c1) = Items(c) /\ Parked(c1) = Parked(c)
  BY DEF Returning, SameResults
<1>2. c.attempts \in [ItemId -> Nat] /\ B \subseteq ItemId
  BY <1>1, ItemsAreIds DEF Sound, Typed
<1>3. B \cap (Parked(c) \cup Terminal(c)) = {}
  BY <1>1 DEF Sound, Apart, Parked
<1> HIDE DEF B
<1> SUFFICES ASSUME NEW i \in ItemId PROVE InBudget(c1, i)
  BY DEF Budgeted
<1>5. InBudget(c, i) /\ c.attempts[i] \in Nat /\ Budget(i) \in Nat
  BY <1>2, BudgetType DEF Budgeted
<1>6. CASE i \in B
  <2>1. c.attempts[i] > 0 /\ c.attempts[i] <= Budget(i)
    BY <1>1, <1>5, <1>6 DEF InBudget
  <2>2. c1.attempts[i] = c.attempts[i] - 1
    BY <1>1, <1>6, <2>1 DEF OneLess
  <2>3. i \notin c1.executing \cup Parked(c1) /\ i \notin c1.failed
    BY <1>1, <1>3, <1>6 DEF Terminal
  <2> QED BY <1>5, <2>1, <2>2, <2>3 DEF InBudget
<1>7. CASE i \notin B
  <2>1. c1.attempts[i] = c.attempts[i]
    BY <1>1, <1>7 DEF OneLess
  <2>2. /\ i \in Startable(c1) => i \in Startable(c)
        /\ i \in c1.executing \cup Parked(c1) => i \in c.executing \cup Parked(c)
        /\ i \in c1.failed => i \in c.failed
    BY <1>1, <1>7 DEF Startable
  <2> QED BY <1>5, <2>1, <2>2 DEF InBudget
<1> QED BY <1>6, <1>7

LEMMA ForkInBudget ==
    ASSUME NEW c, NEW c1, Sound(c), Budgeted(c), NEW p \in Running(c), NEW n,
           Forking(c, c1, p, n)
    PROVE  Budgeted(c1)
<1>1. /\ c1.attempts = c.attempts /\ c1.failed = c.failed
      /\ c1.executing = c.executing \ {p}
      /\ Range(c1.ready) = Range(c.ready) \cup Branches(c, n)
      /\ Waiting(c1) = Waiting(c) /\ c1.waiting_retry = c.waiting_retry
      /\ Branches(c, n) \subseteq ItemId
      /\ Items(c) \cap Branches(c, n) = {} /\ Items(c1) = Items(c) \cup Branches(c, n)
      /\ Parked(c1) = Parked(c) \cup {p}
  BY DEF Forking, SameResults
<1>2. p \in c.executing \cup Parked(c)
  BY RunningItem
<1>3. Startable(c1) \subseteq Startable(c)
  BY <1>1 DEF Startable
<1> QED BY <1>1, <1>2, <1>3, UnchargedKeeps

LEMMA InitBudget == Init => BudgetInv
<1> SUFFICES ASSUME Init PROVE BudgetInv
  OBVIOUS
<1>1. /\ co.attempts = [i \in ItemId |-> 0] /\ co.executing = {} /\ co.failed = {}
      /\ co.groups = << >>
  BY DEF Init, LoadPhase
<1>2. Parked(co) = {}
  BY <1>1, InitCore DEF CoreInv, Sound, ParkedAreParents
<1> QED BY <1>1, <1>2, BudgetType DEF BudgetInv, Budgeted, InBudget

LEMMA NextBudget == CoreInv /\ BudgetInv /\ [Next]_co => BudgetInv'
<1> SUFFICES ASSUME CoreInv, BudgetInv, [Next]_co PROVE Budgeted(co')
  BY DEF BudgetInv
<1>0. Sound(co) /\ Budgeted(co)
  BY DEF CoreInv, BudgetInv
<1>1. CASE Dispatch
  BY <1>0, <1>1, DispatchLeases, LeaseInBudget
<1>2. ASSUME NEW i \in Items(co), Complete(i) PROVE Budgeted(co')
  BY <1>0, <1>2, CompleteResolves, ResolutionInBudget
<1>3. ASSUME NEW i \in Items(co), Fail(i) PROVE Budgeted(co')
  <2>1. PICK order \in FailureOrders(co, i) : co' = OnItemFailed(co, i, order)
    BY <1>3 DEF Fail
  <2>2. i \in Running(co)
    BY <1>3 DEF Fail
  <2>3. CASE CanRetry(co, i) /\ co' = RetryItem(co, i)
    BY <1>0, <2>2, <2>3, RetryMoves, RetryInBudget
  <2>4. CASE ~CanRetry(co, i) /\ Resolving(co, co', i, {i}, order)
    BY <1>0, <2>4, ResolutionInBudget
  <2> QED BY <2>1, <2>2, <2>3, <2>4, FailResolves
<1>4. ASSUME NEW i \in Items(co), ReturnLeased(i) PROVE Budgeted(co')
  BY <1>0, <1>4, ReturnLeasedReturns, ReturnInBudget
<1>5. ASSUME NEW i \in Items(co), Requeue(i) PROVE Budgeted(co')
  <2>1. i \in co.waiting_retry /\ co' = QueuedAs(co, i)
    BY <1>0, <1>5, RequeueQueues DEF Requeue
  <2> QED BY <1>0, <2>1, QueueFields, RequeueInBudget
<1>6. ASSUME NEW p \in Items(co), NEW n \in 1 .. MaxWidth, Parallel(p, n)
      PROVE  Budgeted(co')
  BY <1>0, <1>6, ParallelForks, ForkInBudget DEF CoreInv
<1>7. CASE Finish \/ UNCHANGED co
  BY <1>0, <1>7 DEF Finish
<1> QED BY <1>1, <1>2, <1>3, <1>4, <1>5, <1>6, <1>7 DEF Next

LEMMA BudgetImplies == CoreInv /\ BudgetInv => AttemptsWithinBudget
BY ItemsAreIds DEF CoreInv, BudgetInv, Budgeted, InBudget, Startable, AttemptsWithinBudget

\* An item is dispatched at most as often as its budget allows, what is queued
\* again has an attempt left, and only a spent budget fails for good
\* (next_ready, return_leased, on_item_failed).
THEOREM BudgetKept == Spec => []AttemptsWithinBudget
<1>1. Init => CoreInv /\ BudgetInv
  BY InitCore, InitBudget
<1>2. CoreInv /\ BudgetInv /\ [Next]_co => CoreInv' /\ BudgetInv'
  BY NextCore, NextBudget
<1> QED BY <1>1, <1>2, BudgetImplies, PTL DEF Spec

-----------------------------------------------------------------------------
(***************************************************************************)
(* The step contract.  What a step looks like from outside is given by the *)
(* one place it is in; a failure skips the readers of the step that the    *)
(* contract names because what an earlier failure skipped stays skipped.   *)
(***************************************************************************)
Waits(c) == Range(c.ready) \cup Waiting(c) \cup c.waiting_retry

StatusOfPlace ==
    /\ StepStatus(co) \in [PhaseItem -> Contract!Status]
    /\ \A i \in PhaseItem :
         /\ StepStatus(co)[i] = "done" <=> i \in co.done
         /\ StepStatus(co)[i] = "failed" <=> i \in co.failed
         /\ StepStatus(co)[i] = "skipped" <=> i \in co.skipped
         /\ StepStatus(co)[i] = "waiting" <=> i \in Waits(co)
         /\ StepStatus(co)[i] = "running" <=> i \in co.executing \cup Parked(co)

LEMMA StatusIs == CoreInv => StatusOfPlace
<1> SUFFICES ASSUME CoreInv, NEW i \in PhaseItem
             PROVE  /\ StepStatus(co)[i] \in Contract!Status
                    /\ StepStatus(co)[i] = "done" <=> i \in co.done
                    /\ StepStatus(co)[i] = "failed" <=> i \in co.failed
                    /\ StepStatus(co)[i] = "skipped" <=> i \in co.skipped
                    /\ StepStatus(co)[i] = "waiting" <=> i \in Waits(co)
                    /\ StepStatus(co)[i] = "running" <=> i \in co.executing \cup Parked(co)
  BY DEF StepStatus, StatusOfPlace
<1>1. /\ Queued(co) \cup co.waiting_retry = Waits(co)
      /\ i \in Queued(co) \cup co.waiting_retry =>
           i \notin co.executing \cup co.done \cup co.failed \cup co.skipped \cup Parked(co)
      /\ i \in co.executing \cup Parked(co) =>
           i \notin co.waiting_retry \cup Queued(co) \cup co.done \cup co.failed \cup co.skipped
      /\ i \in co.done => i \notin co.failed \cup co.skipped
      /\ i \in co.failed => i \notin co.skipped
  BY DEF CoreInv, Sound, Apart, Queued, Waiting, Waits, Parked, Terminal
<1>2. i \in co.done \cup co.failed \cup co.skipped \cup Queued(co) \cup co.waiting_retry
            \cup co.executing \cup Parked(co)
  <2>1. i \in Items(co)
    BY CoordinatorAssumption DEF CoreInv, Sound, Typed, Items, PhaseItem
  <2> QED BY <2>1 DEF Parked, Terminal
<1>3. CASE i \in co.done
  <2>1. StepStatus(co)[i] = "done"
    BY <1>1, <1>3 DEF StepStatus
  <2> QED BY <1>1, <1>3, <2>1 DEF Contract!Status
<1>4. CASE i \in co.failed
  <2>1. StepStatus(co)[i] = "failed"
    BY <1>1, <1>4 DEF StepStatus
  <2> QED BY <1>1, <1>4, <2>1 DEF Contract!Status
<1>5. CASE i \in co.skipped
  <2>1. StepStatus(co)[i] = "skipped"
    BY <1>1, <1>5 DEF StepStatus
  <2> QED BY <1>1, <1>5, <2>1 DEF Contract!Status
<1>6. CASE i \in Queued(co) \cup co.waiting_retry
  <2>1. StepStatus(co)[i] = "waiting"
    BY <1>1, <1>6 DEF StepStatus
  <2> QED BY <1>1, <1>6, <2>1 DEF Contract!Status
<1>7. CASE i \in co.executing \cup Parked(co)
  <2>1. StepStatus(co)[i] = "running"
    BY <1>1, <1>7 DEF StepStatus
  <2> QED BY <1>1, <1>7, <2>1 DEF Contract!Status
<1> QED BY <1>2, <1>3, <1>4, <1>5, <1>6, <1>7

LEMMA StatusIsNext == CoreInv /\ CoreInv' => StatusOfPlace /\ StatusOfPlace'
BY StatusIs, PTL

\* A step that resolves nothing moves the phase items G to one status.
Moved(G, v) == [i \in PhaseItem |-> IF i \in G THEN v ELSE StepStatus(co)[i]]

LEMMA StatusMoves ==
    ASSUME CoreInv, CoreInv', NEW G \in SUBSET PhaseItem, NEW v \in {"waiting", "running"},
           co'.done = co.done, co'.failed = co.failed, co'.skipped = co.skipped,
           G \cap Terminal(co) = {},
           \A i \in G : i \in Waits(co') <=> v = "waiting",
           \A i \in PhaseItem \ G : i \in Waits(co') <=> i \in Waits(co)
    PROVE  StepStatus(co') = Moved(G, v)
<1>1. StatusOfPlace /\ StatusOfPlace'
  BY StatusIsNext
<1>2. ASSUME NEW i \in PhaseItem PROVE StepStatus(co')[i] = Moved(G, v)[i]
  <2>1. CASE i \in G
    BY <1>1, <2>1 DEF StatusOfPlace, Terminal, Contract!Status, Moved
  <2>2. CASE i \notin G
    <3>1. StepStatus(co')[i] = StepStatus(co)[i]
      BY <1>1, <2>2 DEF StatusOfPlace, Contract!Status
    <3> QED BY <2>2, <3>1 DEF Moved
  <2> QED BY <2>1, <2>2
<1> QED BY <1>2 DEF StepStatus, Moved

\* A dispatch starts the head of the queue, whose upstreams are resolved.
LEMMA LeasingStarts ==
    ASSUME CoreInv, CoreInv', NEW B, Leasing(co, co', B)
    PROVE  \E S \in SUBSET PhaseItem : Contract!Start(S)
<1>1. /\ B \subseteq Range(co.ready) /\ Range(co'.ready) = Range(co.ready) \ B
      /\ co'.done = co.done /\ co'.failed = co.failed /\ co'.skipped = co.skipped
      /\ Waiting(co') = Waiting(co) /\ co'.waiting_retry = co.waiting_retry
  BY DEF Leasing, SameResults
<1> DEFINE G == B \cap PhaseItem
<1>2. \A h \in B : h \notin Waiting(co) \cup co.waiting_retry \cup Terminal(co)
                   /\ h \in Waits(co)
  BY <1>1 DEF CoreInv, Sound, Apart, Waits
<1>3. Waits(co') = Waits(co) \ B
  BY <1>1, <1>2 DEF Waits
<1>4. StepStatus(co') = Moved(G, "running")
  BY <1>1, <1>2, <1>3, StatusMoves
<1>5. ASSUME NEW i \in G
      PROVE  /\ StepStatus(co)[i] = "waiting"
             /\ \A u \in DataDeps[i] : StepStatus(co)[u] = "done"
             /\ \A u \in OrderDeps[i] : StepStatus(co)[u] \in Contract!Over
  <2>1. StatusOfPlace
    BY StatusIsNext
  <2>2. Unsatisfied(co, i) = {} /\ Data(i) = DataDeps[i] /\ Order(i) = OrderDeps[i]
        /\ Data(i) \subseteq PhaseItem /\ Order(i) \subseteq PhaseItem
    BY <1>1, <1>5, Deps DEF CoreInv, Sound, InOrder, Data, Order
  <2> QED BY <1>2, <2>1, <2>2 DEF StatusOfPlace, Unsatisfied, Terminal, Contract!Over
<1> HIDE DEF G
<1>6. Contract!Start(G)
  BY <1>4, <1>5 DEF Contract!Start, Moved
<1> QED BY <1>6 DEF G

\* Steps put back on the queue, or waiting for their backoff.
LEMMA PutsBack ==
    ASSUME CoreInv, CoreInv', NEW B, B \subseteq co.executing \cup Parked(co),
           co'.done = co.done, co'.failed = co.failed, co'.skipped = co.skipped,
           \A i \in PhaseItem : i \in Waits(co') <=> i \in Waits(co) \cup B
    PROVE  \E S \in SUBSET PhaseItem : Contract!PutBack(S)
<1> DEFINE G == B \cap PhaseItem
<1>1. B \cap Terminal(co) = {}
  BY DEF CoreInv, Sound, Apart, Parked
<1>2. StepStatus(co') = Moved(G, "waiting")
  BY <1>1, StatusMoves
<1>3. \A j \in G : StepStatus(co)[j] = "running"
  BY StatusIsNext DEF StatusOfPlace
<1> HIDE DEF G
<1>4. Contract!PutBack(G)
  BY <1>2, <1>3 DEF Contract!PutBack, Moved
<1> QED BY <1>4 DEF G

LEMMA RetryPutsBack ==
    ASSUME CoreInv, CoreInv', NEW i \in Running(co),
           Parking(co, co', i) \/ Queueing(co, co', i)
    PROVE  \E S \in SUBSET PhaseItem : Contract!PutBack(S)
<1>1. {i} \subseteq co.executing \cup Parked(co) /\ i \notin co.waiting_retry
  BY RunningItem DEF CoreInv
<1>2. CASE Parking(co, co', i)
  <2>1. /\ co'.done = co.done /\ co'.failed = co.failed /\ co'.skipped = co.skipped
        /\ Waits(co') = Waits(co) \cup {i}
    BY <1>2 DEF Parking, SameResults, Waits
  <2> QED BY <1>1, <2>1, PutsBack
<1>3. CASE Queueing(co, co', i)
  <2>1. /\ co'.done = co.done /\ co'.failed = co.failed /\ co'.skipped = co.skipped
        /\ Waits(co') = Waits(co) \cup {i}
    BY <1>1, <1>3 DEF Queueing, SameResults, Waits
  <2> QED BY <1>1, <2>1, PutsBack
<1> QED BY <1>2, <1>3

LEMMA ReturningPutsBack ==
    ASSUME CoreInv, CoreInv', NEW leases, Range(leases) \subseteq co.executing,
           Returning(co, co', leases)
    PROVE  \E S \in SUBSET PhaseItem : Contract!PutBack(S)
<1>1. /\ co'.done = co.done /\ co'.failed = co.failed /\ co'.skipped = co.skipped
      /\ Waits(co') = Waits(co) \cup Range(leases)
  BY DEF Returning, SameResults, Waits
<1> QED BY <1>1, PutsBack

\* The end of a backoff, and a call of parallel(), are not seen.
LEMMA Unseen ==
    ASSUME CoreInv, CoreInv',
           co'.done = co.done, co'.failed = co.failed, co'.skipped = co.skipped,
           \A i \in PhaseItem : i \in Waits(co') <=> i \in Waits(co)
    PROVE  StepStatus(co') = StepStatus(co)
<1>1. StepStatus(co') = Moved({}, "waiting")
  BY StatusMoves
<1> QED BY <1>1 DEF StepStatus, Moved

LEMMA RequeueUnseen ==
    ASSUME CoreInv, CoreInv', NEW i \in co.waiting_retry, Queueing(co, co', i)
    PROVE  StepStatus(co') = StepStatus(co)
<1>1. /\ co'.done = co.done /\ co'.failed = co.failed /\ co'.skipped = co.skipped
      /\ Waits(co') = Waits(co)
  BY DEF Queueing, SameResults, Waits
<1> QED BY <1>1, Unseen

LEMMA ForkUnseen ==
    ASSUME CoreInv, CoreInv', NEW p, NEW n, Forking(co, co', p, n)
    PROVE  StepStatus(co') = StepStatus(co)
<1>1. /\ co'.done = co.done /\ co'.failed = co.failed /\ co'.skipped = co.skipped
      /\ Waits(co') = Waits(co) \cup Branches(co, n)
      /\ Branches(co, n) \cap PhaseItem = {}
  BY DEF Forking, SameResults, Waits
<1> QED BY <1>1, Unseen

\* What a failure skips, and what was skipped before, are the readers.
LEMMA ReadersSkipped ==
    ASSUME CoreInv, NEW i \in Running(co) \cap PhaseItem
    PROVE  LET S == SkippedWith(co, i, {i})
           IN S \subseteq Contract!Readers(i) /\ Contract!Readers(i) \subseteq S \cup co.skipped
<1> DEFINE S == SkippedWith(co, i, {i})
           T == S \cup co.skipped
<1>1. /\ S \subseteq Live(co, i)
      /\ \A d \in Live(co, i) : d \in S <=> Data(d) \cap ({i} \cup S) # {}
  BY SkippedSet DEF CoreInv
<1>2. i \notin Terminal(co) /\ Unsatisfied(co, i) = {}
  BY RunningItem DEF CoreInv
<1>3. \A d \in PhaseItem : Data(d) = DataDeps[d]
  BY DEF Data
<1>4. co.skipped \cap PhaseItem \subseteq T /\ S \subseteq PhaseItem
  BY <1>1 DEF Live
<1>5. ASSUME NEW x \in PhaseItem, Data(x) \cap ({i} \cup T) # {} PROVE x \in T
  <2>1. CASE x \in co.done \cup co.failed \cup {i}
    <3>1. Data(x) \subseteq co.done
      <4>1. Unsatisfied(co, x) = {}
        BY <1>2, <2>1 DEF CoreInv, Sound, InOrder
      <4> QED BY <4>1 DEF Unsatisfied
    <3>2. co.done \cap ({i} \cup T) = {}
      BY <1>1, <1>2 DEF CoreInv, Sound, Apart, Live, Terminal
    <3> QED BY <1>5, <3>1, <3>2
  <2>2. CASE x \in Live(co, i)
    <3>1. Data(x) \cap co.skipped = {}
      BY <2>2 DEF CoreInv, Sound, Propagated, Live, Terminal
    <3> QED BY <1>1, <1>5, <2>2, <3>1
  <2>3. CASE x \in co.skipped
    BY <2>3
  <2> QED BY <2>1, <2>2, <2>3 DEF Live, Terminal
<1>6. Contract!Readers(i) \subseteq T
  <2>1. \A x \in PhaseItem : DataDeps[x] \cap ({i} \cup (T \cap PhaseItem)) # {}
                               => x \in T \cap PhaseItem
    BY <1>3, <1>5
  <2> HIDE DEF T
  <2> QED BY <2>1 DEF Contract!Readers
<1>7. S \subseteq Contract!Readers(i)
  <2> DEFINE R == Contract!Readers(i)
  <2>1. R \subseteq PhaseItem
    BY DEF Contract!Readers
  <2>2. ASSUME NEW d \in PhaseItem, Data(d) \cap ({i} \cup R) # {} PROVE d \in R
    <3> SUFFICES ASSUME NEW U \in SUBSET PhaseItem,
                        \A x \in PhaseItem : DataDeps[x] \cap ({i} \cup U) # {} => x \in U
                 PROVE  d \in U
      BY DEF Contract!Readers
    <3>1. R \subseteq U
      BY DEF Contract!Readers
    <3> QED BY <1>3, <2>2, <3>1
  <2>3. \A d \in Live(co, i) : Data(d) \cap (co.failed \cup co.skipped) = {}
    BY DEF CoreInv, Sound, Propagated, Live, Terminal
  <2> HIDE DEF R
  <2>4. ClosedUnderSkip(co, i, {i}, R)
    BY <2>2, <2>3 DEF ClosedUnderSkip, Live
  <2>5. S \subseteq R
    BY <2>1, <2>4, SkippedIsLeast
  <2> QED BY <2>5 DEF R
<1> QED BY <1>6, <1>7

\* A completion is a success, a permanent failure a failure with its readers;
\* B is what is put back besides, by the loss of the worker.
Resolved(i, lost, B) ==
    LET S == SkippedWith(co, i, lost)
    IN /\ i \in Running(co) /\ lost \in {{}, {i}}
       /\ B \subseteq co.executing \ {i} /\ (lost = {} => B = {})
       /\ co'.done = co.done \cup ({i} \ lost)
       /\ co'.failed = co.failed \cup lost
       /\ co'.skipped = co.skipped \cup S
       /\ Waits(co') = (Waits(co) \ S) \cup B

LEMMA ResolvingResolves ==
    ASSUME CoreInv, NEW c1, NEW i, NEW lost, NEW order, Resolving(co, c1, i, lost, order)
    PROVE  LET S == SkippedWith(co, i, lost)
           IN /\ c1.done = co.done \cup ({i} \ lost)
              /\ c1.failed = co.failed \cup lost
              /\ c1.skipped = co.skipped \cup S
              /\ Waits(c1) = Waits(co) \ S
<1> DEFINE S == SkippedWith(co, i, lost)
           R == ReleasedWith(co, i, lost)
<1>0. i \in Running(co) /\ lost \in {{}, {i}} /\ order \in ReleaseOrders(co, i, lost)
      /\ Sound(co)
  BY DEF Resolving, CoreInv
<1>1. Resolution(co, c1, i, lost, order)
  BY <1>0, ResolutionFields
<1>2. S \subseteq Waiting(co)
  BY <1>0, SkippedSet
<1>3. R \subseteq Waiting(co) \ S
  BY <1>0, ReleasedSet DEF Releases
<1>4. /\ c1.done = co.done \cup ({i} \ lost)
      /\ c1.failed = co.failed \cup lost
      /\ c1.skipped = co.skipped \cup S
      /\ Range(c1.ready) = Range(co.ready) \cup R
      /\ Waiting(c1) = Waiting(co) \ (S \cup R)
      /\ c1.waiting_retry = co.waiting_retry
  BY <1>1 DEF Resolution
<1>5. S \cap (Range(co.ready) \cup co.waiting_retry) = {}
  BY <1>0, <1>2 DEF Sound, Apart
<1> HIDE DEF S, R
<1>6. Waits(c1) = Waits(co) \ S
  BY <1>2, <1>3, <1>4, <1>5 DEF Waits
<1> QED BY <1>4, <1>6 DEF S

LEMMA ResolutionSeen ==
    ASSUME CoreInv, CoreInv', NEW i, NEW lost, NEW B, Resolved(i, lost, B)
    PROVE  \/ i \in PhaseItem /\ Contract!Succeed(i)
           \/ i \in PhaseItem /\ Contract!FailStep(i, B \cap PhaseItem)
           \/ i \notin PhaseItem /\ B # {} /\ Contract!PutBack(B \cap PhaseItem)
           \/ StepStatus(co') = StepStatus(co)
<1> DEFINE S == SkippedWith(co, i, lost)
<1>0. i \in Running(co) /\ lost \in {{}, {i}} /\ Sound(co)
  BY DEF Resolved, CoreInv
<1>2. /\ S \subseteq Live(co, i) /\ S \subseteq Waiting(co)
      /\ \A d \in Live(co, i) : d \in S <=> Data(d) \cap (lost \cup S) # {}
      /\ lost = {} => S = {}
  BY <1>0, SkippedSet
<1>4. /\ co'.done = co.done \cup ({i} \ lost)
      /\ co'.failed = co.failed \cup lost
      /\ co'.skipped = co.skipped \cup S
      /\ B \subseteq co.executing \ {i} /\ (lost = {} => B = {})
      /\ Waits(co') = (Waits(co) \ S) \cup B
  BY DEF Resolved
<1>5. i \notin Terminal(co) /\ i \in co.executing \cup Parked(co) /\ i \notin Waits(co)
  BY <1>0, RunningItem DEF Waits
<1>6. StatusOfPlace /\ StatusOfPlace'
  BY StatusIsNext
<1>7. \A j \in B \cap PhaseItem : StepStatus(co)[j] = "running" /\ j # i
  BY <1>4, <1>6 DEF StatusOfPlace
<1>11. B \cap (Terminal(co) \cup Waits(co)) = {}
  BY <1>0, <1>4 DEF Sound, Apart, Waits
<1> HIDE DEF S
<1>8. CASE i \in PhaseItem /\ lost = {}
  <2>1. StepStatus(co)[i] = "running" /\ StepStatus(co')[i] = "done"
    BY <1>4, <1>5, <1>6, <1>8 DEF StatusOfPlace
  <2>2. \A j \in PhaseItem \ {i} : StepStatus(co')[j] = StepStatus(co)[j]
    BY <1>2, <1>4, <1>6, <1>8 DEF StatusOfPlace, Contract!Status
  <2>3. StepStatus(co') = [StepStatus(co) EXCEPT ![i] = "done"]
    BY <1>6, <1>8, <2>1, <2>2 DEF StatusOfPlace
  <2> QED BY <1>8, <2>1, <2>3 DEF Contract!Succeed
<1>9. CASE i \in PhaseItem /\ lost = {i}
  <2>1. /\ S \subseteq Contract!Readers(i)
        /\ Contract!Readers(i) \subseteq S \cup co.skipped
    BY <1>0, <1>9, ReadersSkipped DEF S
  <2>2. StepStatus(co)[i] = "running" /\ StepStatus(co')[i] = "failed"
    BY <1>4, <1>5, <1>6, <1>9 DEF StatusOfPlace
  <2>3. \A j \in PhaseItem \ {i} :
          StepStatus(co')[j] = IF j \in Contract!Readers(i) THEN "skipped"
                               ELSE IF j \in B \cap PhaseItem THEN "waiting"
                               ELSE StepStatus(co)[j]
    <3> SUFFICES ASSUME NEW j \in PhaseItem \ {i}
                 PROVE  StepStatus(co')[j] = IF j \in Contract!Readers(i) THEN "skipped"
                                             ELSE IF j \in B \cap PhaseItem THEN "waiting"
                                             ELSE StepStatus(co)[j]
      OBVIOUS
    <3>1. CASE j \in S
      BY <1>4, <1>6, <2>1, <3>1 DEF StatusOfPlace
    <3>2. CASE j \in B
      <4>1. j \notin Contract!Readers(i)
        BY <1>2, <1>11, <2>1, <3>2 DEF Terminal, Waits
      <4>2. StepStatus(co')[j] = "waiting"
        BY <1>4, <1>6, <3>2 DEF StatusOfPlace
      <4> QED BY <3>2, <4>1, <4>2
    <3>3. CASE j \notin S /\ j \notin B
      <4>1. StepStatus(co')[j] = StepStatus(co)[j]
        BY <1>4, <1>6, <1>9, <3>3 DEF StatusOfPlace, Contract!Status
      <4>2. j \in Contract!Readers(i) => StepStatus(co)[j] = "skipped"
        BY <1>6, <2>1, <3>3 DEF StatusOfPlace
      <4> QED BY <3>3, <4>1, <4>2
    <3> QED BY <3>1, <3>2, <3>3
  <2>4. StepStatus(co') = [j \in PhaseItem |->
                             IF j = i THEN "failed"
                             ELSE IF j \in Contract!Readers(i) THEN "skipped"
                             ELSE IF j \in B \cap PhaseItem THEN "waiting"
                             ELSE StepStatus(co)[j]]
    BY <1>6, <2>2, <2>3 DEF StatusOfPlace
  <2> QED BY <1>7, <1>9, <2>2, <2>4 DEF Contract!FailStep
<1>10. CASE i \notin PhaseItem
  <2>1. S = {}
    <3>1. ClosedUnderSkip(co, i, lost, {})
      <4>1. \A d \in Live(co, i) : Data(d) \cap (co.failed \cup co.skipped) = {}
        BY <1>0 DEF Sound, Propagated, Live, Terminal
      <4>2. \A d : Data(d) \cap lost = {}
        BY <1>0, <1>10, Deps
      <4> QED BY <4>1, <4>2 DEF ClosedUnderSkip
    <3> QED BY <3>1, SkippedIsLeast DEF S
  <2>2. \A j \in PhaseItem : StepStatus(co')[j] = IF j \in B \cap PhaseItem THEN "waiting"
                                                  ELSE StepStatus(co)[j]
    <3> TAKE j \in PhaseItem
    <3>1. CASE j \in B
      BY <1>4, <1>6, <3>1 DEF StatusOfPlace
    <3>2. CASE j \notin B
      BY <1>0, <1>4, <1>6, <1>10, <2>1, <3>2 DEF StatusOfPlace, Contract!Status
    <3> QED BY <3>1, <3>2
  <2>3. CASE B = {}
    BY <1>6, <2>2, <2>3 DEF StatusOfPlace
  <2>4. CASE B # {}
    <3>1. StepStatus(co') = [j \in PhaseItem |-> IF j \in B \cap PhaseItem THEN "waiting"
                                                 ELSE StepStatus(co)[j]]
      BY <1>6, <2>2 DEF StatusOfPlace
    <3> QED BY <1>7, <1>10, <2>4, <3>1 DEF Contract!PutBack
  <2> QED BY <2>3, <2>4
<1> QED BY <1>0, <1>8, <1>9, <1>10

LEMMA ResolutionInContract ==
    ASSUME CoreInv, CoreInv', NEW i, NEW lost, NEW B, Resolved(i, lost, B)
    PROVE  Contract!Next \/ StepStatus(co') = StepStatus(co)
<1>1. B \cap PhaseItem \in SUBSET PhaseItem
  OBVIOUS
<1> QED BY <1>1, ResolutionSeen DEF Contract!Next

LEMMA InitContract == Init => Contract!Init
<1> SUFFICES ASSUME Init PROVE Contract!Init
  OBVIOUS
<1>1. co.executing = {} /\ co.done = {} /\ co.failed = {} /\ co.skipped = {} /\ co.groups = << >>
  BY DEF Init, LoadPhase
<1>2. Parked(co) = {} /\ StatusOfPlace
  BY <1>1, InitCore, StatusIs DEF CoreInv, Sound, ParkedAreParents
<1>3. \A i \in PhaseItem : StepStatus(co)[i] = "waiting"
  BY <1>1, <1>2 DEF StatusOfPlace, Contract!Status
<1> QED BY <1>2, <1>3 DEF Contract!Init, StatusOfPlace

LEMMA NextContract == CoreInv /\ CoreInv' /\ [Next]_co => [Contract!Next]_(StepStatus(co))
<1> SUFFICES ASSUME CoreInv, CoreInv', [Next]_co
             PROVE  Contract!Next \/ StepStatus(co') = StepStatus(co)
  OBVIOUS
<1>0. Sound(co)
  BY DEF CoreInv
<1>8. ASSUME NEW i, NEW lost, NEW order, Resolving(co, co', i, lost, order)
      PROVE  Contract!Next \/ StepStatus(co') = StepStatus(co)
  <2>1. Resolved(i, lost, {})
    BY <1>8, ResolvingResolves DEF Resolved, Resolving
  <2> QED BY <2>1, ResolutionInContract
<1>1. CASE Dispatch
  BY <1>1, DispatchLeases, LeasingStarts DEF Contract!Next
<1>2. ASSUME NEW i \in Items(co), Complete(i)
      PROVE  Contract!Next \/ StepStatus(co') = StepStatus(co)
  BY <1>2, <1>8, CompleteResolves
<1>3. ASSUME NEW i \in Items(co), Fail(i)
      PROVE  Contract!Next \/ StepStatus(co') = StepStatus(co)
  <2>1. PICK order \in FailureOrders(co, i) : co' = OnItemFailed(co, i, order)
    BY <1>3 DEF Fail
  <2>2. i \in Running(co)
    BY <1>3 DEF Fail
  <2>3. CASE CanRetry(co, i) /\ co' = RetryItem(co, i)
    <3>1. Parking(co, co', i) \/ Queueing(co, co', i)
      BY <1>0, <2>2, <2>3, RetryMoves
    <3> QED BY <2>2, <3>1, RetryPutsBack DEF Contract!Next
  <2>4. CASE Resolving(co, co', i, {i}, order)
    BY <1>8, <2>4
  <2> QED BY <2>1, <2>2, <2>3, <2>4, FailResolves
<1>4. ASSUME NEW i \in Items(co), ReturnLeased(i)
      PROVE  Contract!Next
  BY <1>4, ReturnLeasedReturns, ReturningPutsBack DEF Contract!Next
<1>5. ASSUME NEW i \in Items(co), Requeue(i)
      PROVE  StepStatus(co') = StepStatus(co)
  <2>1. i \in co.waiting_retry /\ co' = QueuedAs(co, i)
    BY <1>0, <1>5, RequeueQueues DEF Requeue
  <2>2. Queueing(co, co', i)
    BY <1>0, <2>1, QueueFields
  <2> QED BY <2>1, <2>2, RequeueUnseen
<1>6. ASSUME NEW p \in Items(co), NEW n \in 1 .. MaxWidth, Parallel(p, n)
      PROVE  StepStatus(co') = StepStatus(co)
  BY <1>6, ParallelForks, ForkUnseen
<1>7. CASE Finish \/ UNCHANGED co
  BY <1>7 DEF Finish
<1> QED BY <1>1, <1>2, <1>3, <1>4, <1>5, <1>6, <1>7 DEF Next

\* The coordinator keeps the contract of a phase, whatever the graph, the retry
\* budgets and the parallel() calls: a step starts on existing inputs, is over
\* once, and a permanent failure skips exactly the steps that need its output.
THEOREM CoordinatorKeepsContract == Spec => ImplementsContract
<1>1. Init => CoreInv /\ Contract!Init
  BY InitCore, InitContract
<1>2. CoreInv /\ [Next]_co => CoreInv'
  BY NextCore
<1>3. CoreInv /\ CoreInv' /\ [Next]_co => [Contract!Next]_(StepStatus(co))
  BY NextContract
<1> QED BY <1>1, <1>2, <1>3, PTL DEF Spec, ImplementsContract, Contract!Spec

-----------------------------------------------------------------------------
(***************************************************************************)
(* The inductive invariant.  That the leases and `executing` agree is not  *)
(* inductive: a lease that is no dispatch is the resumed parent of groups  *)
(* that are all complete, which follows from every incomplete group having *)
(* its parent in a stopped worker, and a group being as complete as its    *)
(* counter says.  The coordinator's own invariant belongs to it, because   *)
(* the loop calls the coordinator only with items the leases name.         *)
(***************************************************************************)
ToldTyped ==
    /\ out \in [WorkerId -> Seq(Message)]
    /\ \A w \in WorkerId : \A j \in DOMAIN out[w] :
         out[w][j].kind = "submit" => out[w][j].arg \in 1 .. MaxWidth

\* The `workers` map, by worker id.
Mapped(ws) == DOMAIN ws \subseteq WorkerId /\ ws \in [DOMAIN ws -> Seq(ItemId)]

HeldTyped ==
    /\ next_worker_id \in 0 .. MaxWorkers
    /\ Mapped(workers) /\ frozen \in Seq(Frozen)

\* A batch is never empty, and a process that works has one.
Sane(p) ==
    /\ p.state \in {"running", "waiting"} => p.batch # << >>
    /\ \A j \in DOMAIN p.inbox : p.inbox[j] # << >>

Working(f) == f \in [WorkerId -> Process] /\ \A w \in WorkerId : Sane(f[w])

WorkTyped == Working(proc)

PoolTyped == HeldTyped /\ ToldTyped /\ WorkTyped

\* Ids are handed out once, and a worker is active or frozen, not both.
NamedOnce(D, fz, n) ==
    /\ \A w \in D : w < n
    /\ \A k \in DOMAIN fz : fz[k].worker < n /\ fz[k].worker \notin D
    /\ \A j, k \in DOMAIN fz : fz[j].worker = fz[k].worker => j = k

Named == NamedOnce(DOMAIN workers, frozen, next_worker_id)

\* A group's counter is the number of its branches that ended.
Counted(c) ==
    \A g \in DOMAIN c.groups :
        /\ IsFiniteSet(c.groups[g].items)
        /\ c.groups[g].completed =
             Cardinality(c.groups[g].items \cap (c.done \cup c.failed))

Good(c) == Sound(c) /\ Budgeted(c) /\ Counted(c)

\* The leases: each worker's are dispatched items, or the resumed parent alone;
\* what is executing is leased, and nothing twice.
Leases(c, ws) ==
    /\ \A w \in DOMAIN ws :
         /\ Distinct(ws[w])
         /\ Range(ws[w]) \subseteq c.executing \/ \E i \in Resumed(c) : ws[w] = <<i>>
    /\ \A v, w \in DOMAIN ws : v # w => Range(ws[v]) \cap Range(ws[w]) = {}
    /\ \A i \in c.executing : \E w \in DOMAIN ws : i \in Range(ws[w])

\* The stopped parents: each is blocked, alone, in the group it waits for, and
\* every group that is not complete has one.
Blocked(c, ws, fz) ==
    /\ \A k \in DOMAIN fz :
         /\ fz[k].parent \in Parked(c)
         /\ \A w \in DOMAIN ws : fz[k].parent \notin Range(ws[w])
         /\ fz[k].group \in DOMAIN c.groups
         /\ c.groups[fz[k].group].parent = fz[k].parent
    /\ \A j, k \in DOMAIN fz : fz[j].parent = fz[k].parent => j = k
    /\ \A g \in DOMAIN c.groups :
         ~IsGroupComplete(c, g) => \E k \in DOMAIN fz : fz[k].group = g

PoolInv ==
    /\ PoolTyped /\ Named
    /\ Good(co) /\ Leases(co, workers) /\ Blocked(co, workers, frozen)

-----------------------------------------------------------------------------
(***************************************************************************)
(* Leases and messages as sequences.                                       *)
(***************************************************************************)
LEMMA FirstAndRest ==
    ASSUME NEW S, NEW s \in Seq(S), s # << >>
    PROVE  /\ Head(s) = s[1] /\ Head(s) \in S /\ 1 \in DOMAIN s
           /\ Tail(s) \in Seq(S) /\ Len(s) \in Nat \ {0} /\ Len(Tail(s)) = Len(s) - 1
           /\ \A j \in DOMAIN Tail(s) : j + 1 \in DOMAIN s /\ Tail(s)[j] = s[j + 1]
<1>1. /\ Head(s) \in S /\ Tail(s) \in Seq(S) /\ Len(Tail(s)) = Len(s) - 1
      /\ \A j \in 1 .. Len(Tail(s)) : Tail(s)[j] = s[j + 1]
  BY HeadTailProperties
<1>2. Len(s) \in Nat \ {0} /\ Head(s) = s[1]
  OBVIOUS
<1>3. DOMAIN s = 1 .. Len(s) /\ DOMAIN Tail(s) = 1 .. Len(Tail(s))
  BY <1>1
<1> QED BY <1>1, <1>2, <1>3

LEMMA WithoutHead ==
    ASSUME NEW s \in Seq(ItemId), Distinct(s), s # << >>
    PROVE  /\ Head(s) \in Range(s) /\ Tail(s) \in Seq(ItemId)
           /\ Distinct(Tail(s)) /\ Range(Tail(s)) = Range(s) \ {Head(s)}
<1>1. /\ Head(s) = s[1] /\ 1 \in DOMAIN s
      /\ Tail(s) \in Seq(ItemId) /\ Len(s) \in Nat \ {0} /\ Len(Tail(s)) = Len(s) - 1
      /\ \A j \in DOMAIN Tail(s) : j + 1 \in DOMAIN s /\ Tail(s)[j] = s[j + 1]
  BY FirstAndRest
<1>2. Head(s) \in Range(s)
  BY <1>1 DEF Range
<1>3. DOMAIN s = 1 .. Len(s) /\ DOMAIN Tail(s) = 1 .. Len(s) - 1
  BY <1>1
<1>4. Distinct(Tail(s))
  <2> SUFFICES ASSUME NEW j \in DOMAIN Tail(s), NEW k \in DOMAIN Tail(s),
                      Tail(s)[j] = Tail(s)[k]
               PROVE  j = k
    BY DEF Distinct
  <2>1. s[j + 1] = s[k + 1] /\ j + 1 \in DOMAIN s /\ k + 1 \in DOMAIN s
    BY <1>1
  <2>2. j + 1 = k + 1
    BY <2>1 DEF Distinct
  <2> QED BY <1>3, <2>2
<1>5. ASSUME NEW x \in Range(Tail(s)) PROVE x \in Range(s) /\ x # Head(s)
  <2>1. PICK j \in DOMAIN Tail(s) : Tail(s)[j] = x
    BY <1>5 DEF Range
  <2>2. j + 1 \in DOMAIN s /\ s[j + 1] = x
    BY <1>1, <2>1
  <2>3. x # s[1]
    <3>1. s[j + 1] = s[1] => j + 1 = 1
      BY <1>1, <2>2 DEF Distinct
    <3>2. j + 1 # 1
      BY <1>3
    <3> QED BY <2>2, <3>1, <3>2
  <2> QED BY <1>1, <2>2, <2>3 DEF Range
<1>6. ASSUME NEW x \in Range(s), x # Head(s) PROVE x \in Range(Tail(s))
  <2>1. PICK j \in DOMAIN s : s[j] = x
    BY <1>6 DEF Range
  <2>2. j # 1
    BY <1>1, <1>6, <2>1
  <2>3. j - 1 \in DOMAIN Tail(s) /\ (j - 1) + 1 = j
    BY <1>1, <1>3, <2>1, <2>2
  <2>4. Tail(s)[j - 1] = x
    BY <1>1, <2>1, <2>3
  <2> QED BY <2>3, <2>4 DEF Range
<1> QED BY <1>1, <1>2, <1>4, <1>5, <1>6

\* take_lease takes the one lease on i, wherever it is.
LEMMA WithoutLease ==
    ASSUME NEW s \in Seq(ItemId), Distinct(s), NEW i \in Range(s)
    PROVE  /\ RemoveFirst(s, i) \in Seq(ItemId) /\ Distinct(RemoveFirst(s, i))
           /\ Range(RemoveFirst(s, i)) = Range(s) \ {i}
<1>1. PICK k \in DOMAIN s : s[k] = i
  BY DEF Range
<1>2. /\ Len(s) \in Nat /\ DOMAIN s = 1 .. Len(s) /\ k \in 1 .. Len(s)
      /\ k - 1 \in 0 .. Len(s) /\ k \in 0 .. Len(s) /\ k \in Nat
  <2>1. Len(s) \in Nat /\ DOMAIN s = 1 .. Len(s)
    OBVIOUS
  <2> QED BY <2>1
<1>3. { j \in 1 .. Len(s) : s[j] = i } = {k}
  BY <1>1, <1>2 DEF Distinct
<1>4. SelectInSeq(s, LAMBDA v : v = i) = k
  <2>1. SelectInSeq(s, LAMBDA v : v = i)
          = IF {k} # {} THEN Min({k}) ELSE 0
    BY <1>3 DEF SelectInSeq
  <2>2. Min({k}) = k
    BY <1>2 DEF Min
  <2> QED BY <2>1, <2>2
<1> DEFINE front == SubSeq(s, 1, k - 1)
           rest  == SubSeq(s, k + 1, Len(s))
           upto  == SubSeq(s, 1, k)
<1>5. RemoveFirst(s, i) = front \o rest
  BY <1>1, <1>2, <1>4 DEF RemoveFirst, RemoveAt
<1>6. /\ front \in Seq(ItemId) /\ Distinct(front)
      /\ Range(front) = { s[j] : j \in 1 .. k - 1 }
  BY <1>2, SplitDistinct
<1>7. /\ upto \in Seq(ItemId) /\ rest \in Seq(ItemId) /\ Distinct(rest)
      /\ Range(upto) = { s[j] : j \in 1 .. k }
      /\ Range(upto) \cup Range(rest) = Range(s)
      /\ Range(upto) \cap Range(rest) = {}
  BY <1>2, SplitDistinct
<1>8. Range(upto) = Range(front) \cup {i} /\ i \notin Range(front)
  <2>1. 1 .. k = (1 .. k - 1) \cup {k}
    BY <1>2
  <2>2. \A j \in 1 .. k - 1 : j \in DOMAIN s /\ j # k
    BY <1>2
  <2>3. \A j \in 1 .. k - 1 : s[j] # i
    BY <1>1, <2>2 DEF Distinct
  <2> QED BY <1>1, <1>6, <1>7, <2>1, <2>3
<1> HIDE DEF front, rest, upto
<1>9. Range(front \o rest) = Range(front) \cup Range(rest)
  BY <1>6, <1>7, RangeOfConcat
<1>10. Distinct(front \o rest)
  BY <1>6, <1>7, <1>8, DistinctConcat
<1>11. front \o rest \in Seq(ItemId)
  BY <1>6, <1>7, ConcatProperties
<1> QED BY <1>5, <1>7, <1>8, <1>9, <1>10, <1>11

-----------------------------------------------------------------------------
(***************************************************************************)
(* What the loop's calls do to the coordinator, whatever worker they are   *)
(* made for: the items X leave `executing`, nobody else leaves, and a      *)
(* group that was complete stays so.                                       *)
(***************************************************************************)
Keeps(c, c1, X) ==
    /\ Parked(c) \ X \subseteq Parked(c1) /\ Parked(c1) \subseteq Parked(c)
    /\ DOMAIN c1.groups = DOMAIN c.groups
    /\ \A g \in DOMAIN c.groups :
         /\ c1.groups[g].parent = c.groups[g].parent
         /\ IsGroupComplete(c, g) => IsGroupComplete(c1, g)

Took(c, c1, X) == c1.executing = c.executing \ X /\ Keeps(c, c1, X)

\* A complete group is one whose branches have all ended.
LEMMA CompleteIsEnded ==
    ASSUME NEW c, Counted(c), NEW g \in DOMAIN c.groups, IsGroupComplete(c, g)
    PROVE  c.groups[g].items \subseteq c.done \cup c.failed
<1> DEFINE it == c.groups[g].items
<1>1. IsFiniteSet(it) /\ Cardinality(it) = Cardinality(it \cap (c.done \cup c.failed))
  BY DEF Counted, IsGroupComplete
<1>2. it \cap (c.done \cup c.failed) \in SUBSET it
  OBVIOUS
<1> HIDE DEF it
<1>3. it = it \cap (c.done \cup c.failed)
  BY <1>1, <1>2, FS_Subset
<1> QED BY <1>3 DEF it

LEMMA SameCounts ==
    ASSUME NEW c, NEW c1, Counted(c), c1.groups = c.groups,
           c1.done = c.done, c1.failed = c.failed
    PROVE  Counted(c1)
BY DEF Counted

LEMMA SameGroups ==
    ASSUME NEW c, NEW c1, c1.groups = c.groups, NEW X,
           c1.executing = c.executing \ X,
           Parked(c) \ X \subseteq Parked(c1), Parked(c1) \subseteq Parked(c)
    PROVE  Took(c, c1, X)
BY DEF Took, Keeps, IsGroupComplete

LEMMA ResolutionCounts ==
    ASSUME NEW c, NEW c1, NEW i, NEW lost, NEW order,
           Sound(c), Counted(c), Resolving(c, c1, i, lost, order)
    PROVE  Counted(c1) /\ Took(c, c1, {i})
<1>0. i \in Running(c) /\ lost \in {{}, {i}}
  BY DEF Resolving
<1>1. Resolution(c, c1, i, lost, order)
  BY ResolutionFields
<1>2. /\ c1.executing = c.executing \ {i} /\ c1.groups = CountBranch(c, i)
      /\ c1.done \cup c1.failed = (c.done \cup c.failed) \cup {i}
      /\ Parked(c1) = Parked(c) \ {i}
  BY <1>0, <1>1 DEF Resolution
<1>3. c \in Coordinators /\ i \notin c.done \cup c.failed
  BY <1>0, RunningItem DEF Sound, Typed, Terminal
<1>4. /\ DOMAIN c1.groups = DOMAIN c.groups
      /\ \A g \in DOMAIN c.groups :
           /\ c1.groups[g].parent = c.groups[g].parent
           /\ c1.groups[g].items = c.groups[g].items
  BY <1>2, <1>3, CountBranchType
<1>5. ASSUME NEW g \in DOMAIN c.groups
      PROVE  c1.groups[g].completed =
               Cardinality(c1.groups[g].items \cap (c1.done \cup c1.failed))
  <2> DEFINE it == c.groups[g].items
             ended == it \cap (c.done \cup c.failed)
  <2>1. IsFiniteSet(it) /\ c.groups[g].completed = Cardinality(ended)
    BY DEF Counted
  <2>2. IsFiniteSet(ended) /\ i \notin ended
    BY <1>3, <2>1, FS_Intersection
  <2>3. CASE i \in it
    <3>1. c1.groups[g].completed = c.groups[g].completed + 1
      <4>1. c.groups[g] \in Group
        BY <1>3 DEF Coordinators
      <4> QED BY <1>2, <2>3, <4>1 DEF CountBranch, Group
    <3>2. it \cap (c1.done \cup c1.failed) = ended \cup {i}
      BY <1>2, <2>3
    <3> HIDE DEF ended
    <3>3. Cardinality(ended \cup {i}) = Cardinality(ended) + 1
      BY <2>2, FS_AddElement
    <3> QED BY <1>4, <2>1, <3>1, <3>2, <3>3
  <2>4. CASE i \notin it
    <3>1. c1.groups[g].completed = c.groups[g].completed
      BY <1>2, <2>4 DEF CountBranch
    <3>2. it \cap (c1.done \cup c1.failed) = ended
      BY <1>2, <2>4
    <3> QED BY <1>4, <2>1, <3>1, <3>2
  <2> QED BY <2>3, <2>4
<1>6. Counted(c1)
  BY <1>4, <1>5 DEF Counted
<1>7. ASSUME NEW g \in DOMAIN c.groups, IsGroupComplete(c, g)
      PROVE  IsGroupComplete(c1, g)
  <2>1. i \notin c.groups[g].items
    BY <1>3, <1>7, CompleteIsEnded
  <2>2. c1.groups[g] = c.groups[g]
    BY <1>2, <2>1 DEF CountBranch
  <2> QED BY <1>7, <2>2 DEF IsGroupComplete
<1> QED BY <1>2, <1>4, <1>6, <1>7 DEF Took, Keeps

LEMMA CompletionTook ==
    ASSUME NEW c, NEW c1, Good(c), NEW i \in Running(c),
           NEW order \in ReleaseOrders(c, i, {}), c1 = OnItemCompleted(c, i, order)
    PROVE  Good(c1) /\ Took(c, c1, {i})
<1>1. Resolving(c, c1, i, {}, order)
  BY DEF Resolving
<1> QED BY <1>1, ResolutionCounts, ResolutionKeeps, ResolutionInBudget DEF Good

LEMMA FailureTook ==
    ASSUME NEW c, NEW c1, Good(c), NEW i \in Running(c),
           NEW order \in FailureOrders(c, i), c1 = OnItemFailed(c, i, order)
    PROVE  Good(c1) /\ Took(c, c1, {i}) /\ c1.attempts = c.attempts
<1>0. Sound(c) /\ Budgeted(c) /\ Counted(c)
  BY DEF Good
<1>1. CASE CanRetry(c, i) /\ c1 = RetryItem(c, i)
  <2>1. Parking(c, c1, i) \/ Queueing(c, c1, i)
    BY <1>0, <1>1, RetryMoves
  <2>2. Sound(c1) /\ Budgeted(c1)
    BY <1>0, <1>1, <2>1, RetryKeeps, RetryInBudget
  <2>3. /\ c1.groups = c.groups /\ c1.done = c.done /\ c1.failed = c.failed
        /\ c1.executing = c.executing \ {i} /\ Parked(c1) = Parked(c) \ {i}
        /\ c1.attempts = c.attempts
    BY <2>1 DEF Parking, Queueing, SameResults
  <2>4. Counted(c1) /\ Took(c, c1, {i})
    BY <1>0, <2>3, SameCounts, SameGroups
  <2> QED BY <2>2, <2>3, <2>4 DEF Good
<1>2. CASE ~CanRetry(c, i) /\ Resolving(c, c1, i, {i}, order)
  <2>1. Counted(c1) /\ Took(c, c1, {i}) /\ Sound(c1)
    BY <1>0, <1>2, ResolutionCounts, ResolutionKeeps
  <2>2. Budgeted(c1)
    BY <1>0, <1>2, ResolutionInBudget
  <2>3. c1.attempts = c.attempts
    BY <1>0, <1>2, ResolutionFields DEF Resolution
  <2> QED BY <2>1, <2>2, <2>3 DEF Good
<1> QED BY <1>0, <1>1, <1>2, FailResolves

LEMMA ReturnTook ==
    ASSUME NEW c, NEW c1, Good(c), NEW leases \in Seq(ItemId), Distinct(leases),
           Range(leases) \subseteq c.executing, c1 = ReturnLeases(c, leases)
    PROVE  /\ Good(c1) /\ Took(c, c1, Range(leases)) /\ Returning(c, c1, leases)
           /\ c1.groups = c.groups /\ Parked(c1) = Parked(c)
<1>0. Sound(c) /\ Budgeted(c) /\ Counted(c)
  BY DEF Good
<1>1. Returning(c, c1, leases)
  BY <1>0, ReturnFields
<1>2. Sound(c1) /\ Budgeted(c1)
  BY <1>0, <1>1, ReturnKeeps, ReturnInBudget
<1>3. /\ c1.groups = c.groups /\ c1.done = c.done /\ c1.failed = c.failed
      /\ c1.executing = c.executing \ Range(leases) /\ Parked(c1) = Parked(c)
  BY <1>1 DEF Returning, SameResults
<1>4. Counted(c1) /\ Took(c, c1, Range(leases))
  BY <1>0, <1>3, SameCounts, SameGroups
<1> QED BY <1>1, <1>2, <1>3, <1>4 DEF Good

LEMMA TookBoth ==
    ASSUME NEW c, NEW c1, NEW c2, NEW X, NEW Y, Took(c, c1, X), Took(c1, c2, Y)
    PROVE  Took(c, c2, X \cup Y)
<1>1. /\ c2.executing = c.executing \ (X \cup Y)
      /\ Parked(c) \ (X \cup Y) \subseteq Parked(c2) /\ Parked(c2) \subseteq Parked(c)
  BY DEF Took, Keeps
<1>2. /\ DOMAIN c2.groups = DOMAIN c.groups
      /\ \A g \in DOMAIN c.groups :
           /\ c2.groups[g].parent = c.groups[g].parent
           /\ IsGroupComplete(c, g) => IsGroupComplete(c2, g)
  BY DEF Took, Keeps
<1> QED BY <1>1, <1>2 DEF Took, Keeps

\* The leases of a worker as the books describe them.
Holding(c, L) ==
    /\ L \in Seq(ItemId) /\ Distinct(L)
    /\ Range(L) \subseteq c.executing \/ \E i \in Resumed(c) : L = <<i>>

LEMMA LeaseRuns ==
    ASSUME NEW c, NEW L, Holding(c, L), NEW i \in Range(L)
    PROVE  i \in Running(c) /\ Range(L) \ {i} \subseteq c.executing
BY DEF Holding, Running, Range

\* A worker is lost with its leases: one failed, the others go back.
Lost(c, c1, c2, L, i, rest) ==
    /\ i \in Range(L) /\ rest \in Seq(ItemId) /\ Distinct(rest)
    /\ Range(rest) = Range(L) \ {i}
    /\ \E order \in FailureOrders(c, i) : c1 = OnItemFailed(c, i, order)
    /\ c2 = ReturnLeases(c1, rest)

LEMMA LossTook ==
    ASSUME NEW c, NEW c1, NEW c2, Good(c), NEW L, Holding(c, L), NEW i, NEW rest,
           Lost(c, c1, c2, L, i, rest)
    PROVE  /\ Good(c1) /\ Good(c2) /\ Took(c, c2, Range(L)) /\ Returning(c1, c2, rest)
           /\ Range(rest) \subseteq c.executing \ {i} /\ c1.attempts = c.attempts
<1>1. i \in Running(c) /\ Range(rest) \subseteq c.executing \ {i}
  BY LeaseRuns DEF Lost
<1>2. Good(c1) /\ Took(c, c1, {i}) /\ c1.attempts = c.attempts
  BY <1>1, FailureTook DEF Lost
<1>3. Range(rest) \subseteq c1.executing
  BY <1>1, <1>2 DEF Took, Keeps
<1>4. Good(c2) /\ Took(c1, c2, Range(rest)) /\ Returning(c1, c2, rest)
  BY <1>2, <1>3, ReturnTook DEF Lost
<1>5. {i} \cup Range(rest) = Range(L)
  BY DEF Lost
<1> QED BY <1>1, <1>2, <1>4, <1>5, TookBoth

\* The leases of a killed replacement go back.
LEMMA ReplacementTook ==
    ASSUME NEW c, NEW c1, Good(c), NEW L, Holding(c, L), c1 = ReturnReplacement(c, L)
    PROVE  /\ Good(c1) /\ Took(c, c1, Range(L))
           /\ c1.groups = c.groups /\ Parked(c1) = Parked(c)
           /\ c1.done = c.done /\ c1.failed = c.failed /\ c1.skipped = c.skipped
           /\ Waits(c1) = Waits(c) \cup (Range(L) \cap c.executing)
<1>0. L \in Seq(ItemId) /\ Distinct(L)
  BY DEF Holding
<1>1. CASE L = << >>
  <2>1. c1 = c /\ Range(L) = {}
    BY <1>1 DEF ReturnReplacement, Range
  <2>2. Took(c, c1, {})
    BY <2>1, SameGroups
  <2> QED BY <2>1, <2>2
<1>2. CASE L # << >> /\ Range(L) \subseteq c.executing
  <2> DEFINE first == <<Head(L)>>
             c0    == ReturnLeases(c, first)
  <2>1. /\ Head(L) \in Range(L) /\ Tail(L) \in Seq(ItemId) /\ Distinct(Tail(L))
        /\ Range(Tail(L)) = Range(L) \ {Head(L)}
    BY <1>0, <1>2, WithoutHead
  <2>2. first \in Seq(ItemId) /\ Distinct(first) /\ Range(first) = {Head(L)}
    <3>1. Head(L) \in ItemId
      BY <1>0, <2>1, RangeOfSeq
    <3> QED BY <3>1, OneLease
  <2>3. c1 = ReturnLeases(c0, Tail(L))
    BY <1>2 DEF ReturnReplacement
  <2> HIDE DEF first
  <2>4. /\ Good(c0) /\ Took(c, c0, Range(first)) /\ Returning(c, c0, first)
        /\ c0.groups = c.groups /\ Parked(c0) = Parked(c)
    BY <1>2, <2>1, <2>2, ReturnTook
  <2>5. Range(Tail(L)) \subseteq c0.executing
    BY <1>2, <2>1, <2>2, <2>4 DEF Took, Keeps
  <2> HIDE DEF c0
  <2>6. /\ Good(c1) /\ Took(c0, c1, Range(Tail(L))) /\ Returning(c0, c1, Tail(L))
        /\ c1.groups = c0.groups /\ Parked(c1) = Parked(c0)
    BY <2>1, <2>3, <2>4, <2>5, ReturnTook
  <2>7. Range(first) \cup Range(Tail(L)) = Range(L)
    BY <2>1, <2>2
  <2>8. Took(c, c1, Range(L))
    BY <2>4, <2>6, <2>7, TookBoth
  <2>9. c1.done = c.done /\ c1.failed = c.failed /\ c1.skipped = c.skipped
    BY <2>4, <2>6 DEF Returning, SameResults
  <2>10. Waits(c1) = Waits(c) \cup Range(L)
    <3>1. Waits(c0) = Waits(c) \cup Range(first)
      BY <2>4 DEF Returning, SameResults, Waits
    <3>2. Waits(c1) = Waits(c0) \cup Range(Tail(L))
      BY <2>6 DEF Returning, SameResults, Waits
    <3> QED BY <2>7, <3>1, <3>2
  <2> QED BY <1>2, <2>4, <2>6, <2>8, <2>9, <2>10
<1>3. CASE \E p \in Resumed(c) : L = <<p>>
  <2>1. PICK p \in Resumed(c) : L = <<p>>
    BY <1>3
  <2>2. Sound(c) /\ p \in ItemId /\ p \notin c.executing
    BY <1>0, <2>1 DEF Good, Resumed, Parked
  <2>3. <<p>> \in Seq(ItemId) /\ Range(<<p>>) = {p} /\ Head(L) = p /\ Tail(L) = << >>
    BY <2>1, <2>2, OneLease
  <2>4. ReturnLeases(c, <<p>>) = c
    BY <2>2, <2>3, ReturnNothing
  <2>5. ReturnLeases(c, << >>) = c
    <3>1. << >> \in Seq(ItemId) /\ Range(<< >>) \cap c.executing = {}
      BY DEF Range
    <3> QED BY <2>2, <3>1, ReturnNothing
  <2>6. c1 = c
    BY <2>1, <2>3, <2>4, <2>5 DEF ReturnReplacement
  <2>7. Range(L) = {p}
    BY <2>1, <2>3
  <2>8. Took(c, c1, Range(L))
    BY <2>2, <2>6, <2>7, SameGroups
  <2> QED BY <2>2, <2>6, <2>7, <2>8
<1> QED BY <1>1, <1>2, <1>3 DEF Holding

\* A parallel() call: the parent is parked with a new group, the worker's
\* other leases go back.
Forked(c, c2, L, n) ==
    /\ L # << >> /\ n \in 1 .. MaxWidth /\ c.next_item_id + n <= MaxItems
    /\ c2 = ReturnLeases(OnParallelRequested(c, Head(L), n), Tail(L))

ForkTook(c, c2, L) ==
    LET new == Len(c.groups) + 1
    IN /\ c2.executing = c.executing \ Range(L)
       /\ Parked(c2) = Parked(c) \cup {Head(L)}
       /\ new \notin DOMAIN c.groups /\ DOMAIN c2.groups = DOMAIN c.groups \cup {new}
       /\ \A g \in DOMAIN c.groups : c2.groups[g] = c.groups[g]
       /\ c2.groups[new].parent = Head(L)

LEMMA ForkingTook ==
    ASSUME NEW c, NEW c2, Good(c), NEW L, Holding(c, L), NEW n, Forked(c, c2, L, n)
    PROVE  /\ Good(c2) /\ ForkTook(c, c2, L) /\ Head(L) \in Running(c)
           /\ \E c1 : /\ Sound(c1) /\ Forking(c, c1, Head(L), n) /\ c1.attempts = c.attempts
                      /\ Returning(c1, c2, Tail(L)) /\ Range(Tail(L)) \subseteq c1.executing
<1> DEFINE p  == Head(L)
           c1 == OnParallelRequested(c, p, n)
<1>0. Sound(c) /\ Budgeted(c) /\ Counted(c)
  BY DEF Good
<1>1. /\ L \in Seq(ItemId) /\ p \in Range(L) /\ Tail(L) \in Seq(ItemId)
      /\ Distinct(Tail(L)) /\ Range(Tail(L)) = Range(L) \ {p}
  BY WithoutHead DEF Holding, Forked
<1>2. p \in Running(c) /\ Range(Tail(L)) \subseteq c.executing \ {p}
  BY <1>1, LeaseRuns
<1>3. Forking(c, c1, p, n)
  BY <1>0, <1>2, ForkFields DEF Forked
<1>4. c2 = ReturnLeases(c1, Tail(L)) /\ n \in 1 .. MaxWidth
  BY DEF Forked
<1> HIDE DEF c1, p
<1>5. Sound(c1) /\ Budgeted(c1)
  BY <1>0, <1>2, <1>3, <1>4, ForkKeeps, ForkInBudget
<1> DEFINE new == Len(c.groups) + 1
<1>6. /\ c1.executing = c.executing \ {p} /\ Parked(c1) = Parked(c) \cup {p}
      /\ c1.done = c.done /\ c1.failed = c.failed /\ c1.attempts = c.attempts
      /\ new \notin DOMAIN c.groups /\ DOMAIN c1.groups = DOMAIN c.groups \cup {new}
      /\ \A g \in DOMAIN c.groups : c1.groups[g] = c.groups[g]
      /\ c1.groups[new] = GroupOf(c, p, n)
      /\ IsFiniteSet(Branches(c, n)) /\ Items(c) \cap Branches(c, n) = {}
  BY <1>3 DEF Forking, SameResults
<1>7. Counted(c1)
  <2>1. Branches(c, n) \cap (c1.done \cup c1.failed) = {}
    BY <1>0, <1>6 DEF Sound, Typed
  <2>2. Cardinality(Branches(c, n) \cap (c1.done \cup c1.failed)) = 0
    BY <2>1, FS_EmptySet
  <2>3. /\ IsFiniteSet(c1.groups[new].items)
        /\ c1.groups[new].completed =
             Cardinality(c1.groups[new].items \cap (c1.done \cup c1.failed))
    BY <1>6, <2>2 DEF GroupOf
  <2>4. ASSUME NEW g \in DOMAIN c.groups
        PROVE  /\ IsFiniteSet(c1.groups[g].items)
               /\ c1.groups[g].completed =
                    Cardinality(c1.groups[g].items \cap (c1.done \cup c1.failed))
    BY <1>0, <1>6 DEF Counted
  <2> HIDE DEF new
  <2> QED BY <1>6, <2>3, <2>4 DEF Counted
<1>8. Range(Tail(L)) \subseteq c1.executing
  BY <1>2, <1>6
<1>9. /\ Good(c2) /\ Took(c1, c2, Range(Tail(L))) /\ Returning(c1, c2, Tail(L))
      /\ c2.groups = c1.groups /\ Parked(c2) = Parked(c1)
  BY <1>1, <1>4, <1>5, <1>7, <1>8, ReturnTook DEF Good
<1>10. c2.executing = c.executing \ Range(L)
  BY <1>1, <1>6, <1>9 DEF Took, Keeps
<1>11. c1.groups[new].parent = p
  BY <1>6 DEF GroupOf
<1>12. ForkTook(c, c2, L)
  <2> HIDE DEF new
  <2>1. /\ new \notin DOMAIN c.groups /\ DOMAIN c2.groups = DOMAIN c.groups \cup {new}
        /\ \A g \in DOMAIN c.groups : c2.groups[g] = c.groups[g]
        /\ c2.groups[new].parent = p
    BY <1>6, <1>9, <1>11
  <2> QED BY <1>6, <1>9, <1>10, <2>1 DEF ForkTook, new, p
<1> QED BY <1>2, <1>3, <1>5, <1>6, <1>8, <1>9, <1>12 DEF p

-----------------------------------------------------------------------------
(***************************************************************************)
(* How the books of leases and of stopped parents follow those calls.      *)
(***************************************************************************)
LEMMA ResumedStay ==
    ASSUME NEW c, NEW c1, NEW X, Took(c, c1, X), NEW p \in Resumed(c) \ X
    PROVE  p \in Resumed(c1)
BY DEF Took, Keeps, Resumed

LEMMA ResumedStayForked ==
    ASSUME NEW c, NEW c2, NEW L, ForkTook(c, c2, L), NEW p \in Resumed(c), p # Head(L)
    PROVE  p \in Resumed(c2)
<1> DEFINE new == Len(c.groups) + 1
<1>1. p \in Parked(c2)
  BY DEF ForkTook, Resumed
<1>2. ASSUME NEW g \in DOMAIN c2.groups, c2.groups[g].parent = p
      PROVE  IsGroupComplete(c2, g)
  <2>1. g \in DOMAIN c.groups /\ c2.groups[g] = c.groups[g]
    BY <1>2 DEF ForkTook
  <2> QED BY <1>2, <2>1 DEF Resumed, IsGroupComplete
<1> QED BY <1>1, <1>2 DEF Resumed

\* A worker is dropped with all it held.
LEMMA DropLeases ==
    ASSUME NEW c, NEW c1, NEW ws, Leases(c, ws), NEW w \in DOMAIN ws,
           c1.executing = c.executing \ Range(ws[w]),
           \A p \in Resumed(c) \ Range(ws[w]) : p \in Resumed(c1)
    PROVE  Leases(c1, Without(ws, w))
<1> DEFINE ws1 == Without(ws, w)
<1>1. DOMAIN ws1 = DOMAIN ws \ {w} /\ \A v \in DOMAIN ws1 : ws1[v] = ws[v]
  BY DEF Without
<1> HIDE DEF ws1
<1>2. ASSUME NEW v \in DOMAIN ws1
      PROVE  /\ Distinct(ws1[v])
             /\ Range(ws1[v]) \subseteq c1.executing \/ \E p \in Resumed(c1) : ws1[v] = <<p>>
  <2>1. v \in DOMAIN ws /\ ws1[v] = ws[v] /\ Range(ws[v]) \cap Range(ws[w]) = {}
    BY <1>1 DEF Leases
  <2>2. CASE Range(ws[v]) \subseteq c.executing
    BY <2>1, <2>2 DEF Leases
  <2>3. CASE \E p \in Resumed(c) : ws[v] = <<p>>
    <3>1. PICK p \in Resumed(c) : ws[v] = <<p>>
      BY <2>3
    <3>2. p \in Range(ws[v])
      BY <3>1 DEF Range
    <3> QED BY <2>1, <3>1, <3>2 DEF Leases
  <2> QED BY <2>1, <2>2, <2>3 DEF Leases
<1>3. \A v, u \in DOMAIN ws1 : v # u => Range(ws1[v]) \cap Range(ws1[u]) = {}
  BY <1>1 DEF Leases
<1>4. \A i \in c1.executing : \E v \in DOMAIN ws1 : i \in Range(ws1[v])
  BY <1>1 DEF Leases
<1> QED BY <1>2, <1>3, <1>4 DEF Leases, ws1

\* Named, because the provers take an equation with EXCEPT apart.
Put(f, w, v) == [f EXCEPT ![w] = v]

\* One lease of a worker is taken.
LEMMA TakeLease ==
    ASSUME NEW c, NEW c1, NEW ws, Leases(c, ws), NEW w \in DOMAIN ws, Holding(c, ws[w]),
           NEW i \in Range(ws[w]), NEW t, Distinct(t), Range(t) = Range(ws[w]) \ {i},
           c1.executing = c.executing \ {i},
           \A p \in Resumed(c) \ {i} : p \in Resumed(c1)
    PROVE  Leases(c1, Put(ws, w, t))
<1> DEFINE ws1 == Put(ws, w, t)
<1>1. DOMAIN ws1 = DOMAIN ws /\ ws1[w] = t /\ \A v \in DOMAIN ws : v # w => ws1[v] = ws[v]
  BY DEF Put
<1> HIDE DEF ws1
<1>2. ASSUME NEW v \in DOMAIN ws1
      PROVE  /\ Distinct(ws1[v])
             /\ Range(ws1[v]) \subseteq c1.executing \/ \E p \in Resumed(c1) : ws1[v] = <<p>>
  <2>1. CASE v = w
    BY <1>1, <2>1, LeaseRuns
  <2>2. CASE v # w
    <3>1. v \in DOMAIN ws /\ ws1[v] = ws[v] /\ i \notin Range(ws[v])
      BY <1>1, <2>2 DEF Leases
    <3>2. CASE Range(ws[v]) \subseteq c.executing
      BY <3>1, <3>2 DEF Leases
    <3>3. CASE \E p \in Resumed(c) : ws[v] = <<p>>
      <4>1. PICK p \in Resumed(c) : ws[v] = <<p>>
        BY <3>3
      <4>2. p \in Range(ws[v])
        BY <4>1 DEF Range
      <4> QED BY <3>1, <4>1, <4>2 DEF Leases
    <3> QED BY <3>1, <3>2, <3>3 DEF Leases
  <2> QED BY <2>1, <2>2
<1>3. \A v \in DOMAIN ws1 : v \in DOMAIN ws /\ Range(ws1[v]) \subseteq Range(ws[v])
  BY <1>1
<1>4. \A v, u \in DOMAIN ws1 : v # u => Range(ws1[v]) \cap Range(ws1[u]) = {}
  BY <1>3 DEF Leases
<1>5. ASSUME NEW j \in c1.executing PROVE \E v \in DOMAIN ws1 : j \in Range(ws1[v])
  <2>1. PICK v \in DOMAIN ws : j \in Range(ws[v])
    BY DEF Leases
  <2> QED BY <1>1, <2>1
<1> QED BY <1>2, <1>4, <1>5 DEF Leases, ws1

\* A worker without leases, or with a resumed parent, joins.
LEMMA JoinLeases ==
    ASSUME NEW c, NEW ws, Leases(c, ws), NEW w, w \notin DOMAIN ws, NEW L,
           L = << >> \/ \E p \in Resumed(c) : L = <<p>> /\ \A v \in DOMAIN ws : p \notin Range(ws[v])
    PROVE  Leases(c, With(ws, w, L))
<1> DEFINE ws1 == With(ws, w, L)
<1>1. /\ DOMAIN ws1 = DOMAIN ws \cup {w} /\ ws1[w] = L
      /\ \A v \in DOMAIN ws : ws1[v] = ws[v]
  BY DEF With
<1> HIDE DEF ws1
<1>2. /\ Distinct(L)
      /\ Range(L) \subseteq c.executing \/ \E p \in Resumed(c) : L = <<p>>
      /\ \A v \in DOMAIN ws : Range(ws[v]) \cap Range(L) = {}
  <2>1. CASE L = << >>
    BY <2>1 DEF Distinct, Range
  <2>2. CASE \E p \in Resumed(c) : L = <<p>> /\ \A v \in DOMAIN ws : p \notin Range(ws[v])
    <3>1. PICK p \in Resumed(c) : L = <<p>> /\ \A v \in DOMAIN ws : p \notin Range(ws[v])
      BY <2>2
    <3>2. Distinct(<<p>>) /\ Range(<<p>>) = {p}
      BY DEF Distinct, Range
    <3> QED BY <3>1, <3>2
  <2> QED BY <2>1, <2>2
<1>3. \A v, u \in DOMAIN ws1 : v # u => Range(ws1[v]) \cap Range(ws1[u]) = {}
  BY <1>1, <1>2 DEF Leases
<1>4. \A i \in c.executing : \E v \in DOMAIN ws1 : i \in Range(ws1[v])
  BY <1>1 DEF Leases
<1>5. \A v \in DOMAIN ws1 :
         /\ Distinct(ws1[v])
         /\ Range(ws1[v]) \subseteq c.executing \/ \E p \in Resumed(c) : ws1[v] = <<p>>
  BY <1>1, <1>2 DEF Leases
<1> QED BY <1>3, <1>4, <1>5 DEF Leases, ws1

\* An idle worker leases a batch from the queue.
LEMMA FillLeases ==
    ASSUME NEW c, NEW c1, NEW ws, Sound(c), Leases(c, ws), NEW w \in DOMAIN ws,
           ws[w] = << >>, NEW s, Distinct(s), Leasing(c, c1, Range(s))
    PROVE  Leases(c1, Put(ws, w, s))
<1> DEFINE ws1 == Put(ws, w, s)
           B   == Range(s)
<1>1. DOMAIN ws1 = DOMAIN ws /\ ws1[w] = s /\ \A v \in DOMAIN ws : v # w => ws1[v] = ws[v]
  BY DEF Put
<1> HIDE DEF ws1
<1>2. /\ c1.executing = c.executing \cup B /\ c1.groups = c.groups /\ Parked(c1) = Parked(c)
      /\ B \subseteq Range(c.ready)
  BY DEF Leasing
<1>3. B \cap c.executing = {} /\ B \cap Parked(c) = {}
  BY <1>2 DEF Sound, Apart, Parked, Queued
<1>4. Resumed(c1) = Resumed(c)
  BY <1>2 DEF Resumed, IsGroupComplete
<1>5. \A v \in DOMAIN ws : Range(ws[v]) \cap B = {}
  <2> SUFFICES ASSUME NEW v \in DOMAIN ws PROVE Range(ws[v]) \cap B = {}
    OBVIOUS
  <2>1. CASE Range(ws[v]) \subseteq c.executing
    BY <1>3, <2>1
  <2>2. CASE \E p \in Resumed(c) : ws[v] = <<p>>
    BY <1>3, <2>2 DEF Resumed, Range
  <2> QED BY <2>1, <2>2 DEF Leases
<1>6. \A v \in DOMAIN ws1 :
         /\ Distinct(ws1[v])
         /\ Range(ws1[v]) \subseteq c1.executing \/ \E p \in Resumed(c1) : ws1[v] = <<p>>
  BY <1>1, <1>2, <1>4 DEF Leases
<1>7. \A v, u \in DOMAIN ws1 : v # u => Range(ws1[v]) \cap Range(ws1[u]) = {}
  BY <1>1, <1>5 DEF Leases
<1>8. ASSUME NEW j \in c1.executing PROVE \E v \in DOMAIN ws1 : j \in Range(ws1[v])
  <2>1. CASE j \in B
    BY <1>1, <2>1
  <2>2. CASE j \in c.executing
    <3>1. PICK v \in DOMAIN ws : j \in Range(ws[v])
      BY <2>2 DEF Leases
    <3>2. v # w
      BY <3>1 DEF Range
    <3> QED BY <1>1, <3>1, <3>2
  <2> QED BY <1>2, <2>1, <2>2
<1> QED BY <1>6, <1>7, <1>8 DEF Leases, ws1

\* Stopped parents are disturbed neither by what other workers resolve or
\* give back, nor by what is leased.
LEMMA StayBlocked ==
    ASSUME NEW c, NEW c1, NEW ws, NEW ws1, NEW fz, Blocked(c, ws, fz), NEW X, Keeps(c, c1, X),
           \A x \in X : \E v \in DOMAIN ws : x \in Range(ws[v]),
           \A v \in DOMAIN ws1 : \A x \in Range(ws1[v]) :
             x \notin Parked(c) \/ \E u \in DOMAIN ws : x \in Range(ws[u])
    PROVE  Blocked(c1, ws1, fz)
<1>1. ASSUME NEW k \in DOMAIN fz
      PROVE  /\ fz[k].parent \in Parked(c1)
             /\ \A v \in DOMAIN ws1 : fz[k].parent \notin Range(ws1[v])
             /\ fz[k].group \in DOMAIN c1.groups
             /\ c1.groups[fz[k].group].parent = fz[k].parent
  <2>1. /\ fz[k].parent \in Parked(c) /\ \A w \in DOMAIN ws : fz[k].parent \notin Range(ws[w])
        /\ fz[k].group \in DOMAIN c.groups /\ c.groups[fz[k].group].parent = fz[k].parent
    BY DEF Blocked
  <2>2. fz[k].parent \notin X
    BY <2>1
  <2> QED BY <2>1, <2>2 DEF Took, Keeps
<1>2. \A g \in DOMAIN c1.groups : ~IsGroupComplete(c1, g) => \E k \in DOMAIN fz : fz[k].group = g
  BY DEF Took, Keeps, Blocked
<1>3. \A j, k \in DOMAIN fz : fz[j].parent = fz[k].parent => j = k
  BY DEF Blocked
<1> QED BY <1>1, <1>2, <1>3 DEF Blocked

LEMMA JoinBlocked ==
    ASSUME NEW c, NEW ws, NEW fz, Blocked(c, ws, fz), NEW w, w \notin DOMAIN ws
    PROVE  Blocked(c, With(ws, w, << >>), fz)
<1> DEFINE ws1 == With(ws, w, << >>)
<1>1. /\ DOMAIN ws1 = DOMAIN ws \cup {w} /\ Range(ws1[w]) = {}
      /\ \A v \in DOMAIN ws : ws1[v] = ws[v]
  BY DEF With, Range
<1> HIDE DEF ws1
<1>2. \A v \in DOMAIN ws1 : \A x \in Range(ws1[v]) : \E u \in DOMAIN ws : x \in Range(ws[u])
  BY <1>1
<1> QED BY <1>2 DEF Blocked, ws1

\* The new stopped parent is the one of the new group.
LEMMA ForkBlocked ==
    ASSUME NEW c, NEW c2, NEW ws, NEW fz \in Seq(Frozen), Leases(c, ws), Blocked(c, ws, fz),
           NEW w \in DOMAIN ws, Head(ws[w]) \in Range(ws[w]), ForkTook(c, c2, ws[w]),
           NEW e \in Frozen, e.parent = Head(ws[w]), e.group = Len(c.groups) + 1
    PROVE  Blocked(c2, Without(ws, w), Append(fz, e))
<1> DEFINE ws1 == Without(ws, w)
           fz1 == Append(fz, e)
           p   == Head(ws[w])
           new == Len(c.groups) + 1
           n   == Len(fz) + 1
<1>1. DOMAIN ws1 = DOMAIN ws \ {w} /\ \A v \in DOMAIN ws1 : ws1[v] = ws[v]
  BY DEF Without
<1>2. /\ DOMAIN fz1 = DOMAIN fz \cup {n} /\ n \notin DOMAIN fz /\ fz1[n] = e
      /\ \A k \in DOMAIN fz : fz1[k] = fz[k]
  BY AppendProperties
<1>3. /\ Parked(c2) = Parked(c) \cup {p}
      /\ DOMAIN c2.groups = DOMAIN c.groups \cup {new} /\ new \notin DOMAIN c.groups
      /\ \A g \in DOMAIN c.groups : c2.groups[g] = c.groups[g]
      /\ c2.groups[new].parent = p
  BY DEF ForkTook
<1>4. /\ e.parent = p /\ e.group = new /\ p \in Range(ws[w])
      /\ \A v \in DOMAIN ws1 : p \notin Range(ws1[v])
  BY <1>1 DEF Leases
<1> HIDE DEF ws1, fz1, p, new, n
<1>5. ASSUME NEW k \in DOMAIN fz
      PROVE  /\ fz[k].parent \in Parked(c) /\ fz[k].parent # p
             /\ \A v \in DOMAIN ws1 : fz[k].parent \notin Range(ws1[v])
             /\ fz[k].group \in DOMAIN c.groups
             /\ c.groups[fz[k].group].parent = fz[k].parent
  BY <1>1, <1>4 DEF Blocked
<1>6. ASSUME NEW k \in DOMAIN fz1
      PROVE  /\ fz1[k].parent \in Parked(c2)
             /\ \A v \in DOMAIN ws1 : fz1[k].parent \notin Range(ws1[v])
             /\ fz1[k].group \in DOMAIN c2.groups
             /\ c2.groups[fz1[k].group].parent = fz1[k].parent
  <2>1. CASE k = n
    BY <1>2, <1>3, <1>4, <2>1
  <2>2. CASE k \in DOMAIN fz
    BY <1>2, <1>3, <1>5, <2>2
  <2> QED BY <1>2, <2>1, <2>2
<1>7. \A j, k \in DOMAIN fz1 : fz1[j].parent = fz1[k].parent => j = k
  <2>1. \A j, k \in DOMAIN fz : fz[j].parent = fz[k].parent => j = k
    BY DEF Blocked
  <2> QED BY <1>2, <1>4, <1>5, <2>1
<1>8. ASSUME NEW g \in DOMAIN c2.groups, ~IsGroupComplete(c2, g)
      PROVE  \E k \in DOMAIN fz1 : fz1[k].group = g
  <2>1. CASE g = new
    BY <1>2, <1>4, <2>1
  <2>2. CASE g \in DOMAIN c.groups
    <3>1. ~IsGroupComplete(c, g)
      BY <1>3, <1>8, <2>2 DEF IsGroupComplete
    <3>2. PICK k \in DOMAIN fz : fz[k].group = g
      BY <2>2, <3>1 DEF Blocked
    <3> QED BY <1>2, <3>2
  <2> QED BY <1>3, <2>1, <2>2
<1> QED BY <1>6, <1>7, <1>8 DEF Blocked, ws1, fz1

\* Vec::swap_remove takes one entry and keeps the others, each once.
At(s, k, j) == IF j = k THEN Len(s) ELSE j

LEMMA SwapRemoved ==
    ASSUME NEW S, NEW s \in Seq(S), NEW k \in DOMAIN s
    PROVE  LET t == SwapRemove(s, k)
           IN /\ t \in Seq(S) /\ DOMAIN t = 1 .. Len(s) - 1
              /\ \A j \in DOMAIN t : At(s, k, j) \in DOMAIN s \ {k} /\ t[j] = s[At(s, k, j)]
              /\ \A i, j \in DOMAIN t : At(s, k, i) = At(s, k, j) => i = j
              /\ \A m \in DOMAIN s \ {k} : \E j \in DOMAIN t : t[j] = s[m]
<1> DEFINE t == SwapRemove(s, k)
<1>1. Len(s) \in Nat /\ DOMAIN s = 1 .. Len(s) /\ k \in 1 .. Len(s) /\ Len(s) - 1 \in Nat
  <2>1. Len(s) \in Nat /\ DOMAIN s = 1 .. Len(s)
    OBVIOUS
  <2> QED BY <2>1
<1>2. DOMAIN t = 1 .. Len(s) - 1 /\ \A j \in DOMAIN t : t[j] = s[At(s, k, j)]
  BY DEF SwapRemove, At
<1>3. \A j \in 1 .. Len(s) - 1 : At(s, k, j) \in DOMAIN s \ {k}
  BY <1>1 DEF At
<1>4. t \in Seq(S)
  <2>1. t = [j \in 1 .. Len(s) - 1 |-> t[j]]
    BY DEF SwapRemove
  <2>2. \A j \in 1 .. Len(s) - 1 : t[j] \in S
    BY <1>2, <1>3, ElementOfSeq
  <2>3. t \in [1 .. Len(s) - 1 -> S]
    BY <2>1, <2>2
  <2> QED BY <1>1, <2>3, SeqDef
<1>5. \A i, j \in 1 .. Len(s) - 1 : At(s, k, i) = At(s, k, j) => i = j
  BY <1>1 DEF At
<1>6. ASSUME NEW m \in DOMAIN s \ {k} PROVE \E j \in DOMAIN t : t[j] = s[m]
  <2>1. CASE m = Len(s)
    <3>1. k \in DOMAIN t /\ At(s, k, k) = m
      BY <1>1, <1>2, <2>1 DEF At
    <3> QED BY <1>2, <3>1
  <2>2. CASE m # Len(s)
    <3>1. m \in DOMAIN t /\ At(s, k, m) = m
      BY <1>1, <1>2, <2>2 DEF At
    <3> QED BY <1>2, <3>1
  <2> QED BY <2>1, <2>2
<1> HIDE DEF t
<1>7. /\ t \in Seq(S) /\ DOMAIN t = 1 .. Len(s) - 1
      /\ \A j \in DOMAIN t : At(s, k, j) \in DOMAIN s \ {k} /\ t[j] = s[At(s, k, j)]
      /\ \A i, j \in DOMAIN t : At(s, k, i) = At(s, k, j) => i = j
      /\ \A m \in DOMAIN s \ {k} : \E j \in DOMAIN t : t[j] = s[m]
  BY <1>2, <1>3, <1>4, <1>5, <1>6
<1> QED BY <1>7 DEF t

\* When its group is complete, all groups of a stopped parent are.
LEMMA StoppedResumes ==
    ASSUME NEW c, NEW ws, NEW fz, Blocked(c, ws, fz), NEW k \in DOMAIN fz,
           IsGroupComplete(c, fz[k].group)
    PROVE  fz[k].parent \in Resumed(c)
<1>1. ASSUME NEW g \in DOMAIN c.groups, c.groups[g].parent = fz[k].parent,
             ~IsGroupComplete(c, g)
      PROVE  FALSE
  <2>1. PICK j \in DOMAIN fz : fz[j].group = g
    BY <1>1 DEF Blocked
  <2>2. fz[j].parent = fz[k].parent
    BY <1>1, <2>1 DEF Blocked
  <2>3. j = k
    BY <2>2 DEF Blocked
  <2> QED BY <1>1, <2>1, <2>3
<1> QED BY <1>1 DEF Blocked, Resumed

LEMMA ResumeBlocked ==
    ASSUME NEW c, NEW ws, NEW fz \in Seq(Frozen), Blocked(c, ws, fz), NEW k \in DOMAIN fz,
           IsGroupComplete(c, fz[k].group), NEW w, w \notin DOMAIN ws
    PROVE  Blocked(c, With(ws, w, <<fz[k].parent>>), SwapRemove(fz, k))
<1> DEFINE p   == fz[k].parent
           ws1 == With(ws, w, <<p>>)
           t   == SwapRemove(fz, k)
<1>1. /\ DOMAIN ws1 = DOMAIN ws \cup {w} /\ Range(ws1[w]) = {p}
      /\ \A v \in DOMAIN ws : ws1[v] = ws[v]
  BY DEF With, Range
<1>2. /\ \A j \in DOMAIN t : At(fz, k, j) \in DOMAIN fz \ {k} /\ t[j] = fz[At(fz, k, j)]
      /\ \A i, j \in DOMAIN t : At(fz, k, i) = At(fz, k, j) => i = j
      /\ \A m \in DOMAIN fz \ {k} : \E j \in DOMAIN t : t[j] = fz[m]
  BY SwapRemoved
<1> HIDE DEF ws1, t
<1>3. ASSUME NEW m \in DOMAIN fz \ {k}
      PROVE  /\ fz[m].parent \in Parked(c)
             /\ \A v \in DOMAIN ws1 : fz[m].parent \notin Range(ws1[v])
             /\ fz[m].group \in DOMAIN c.groups
             /\ c.groups[fz[m].group].parent = fz[m].parent
  BY <1>1 DEF Blocked
<1>4. \A j \in DOMAIN t :
         /\ t[j].parent \in Parked(c)
         /\ \A v \in DOMAIN ws1 : t[j].parent \notin Range(ws1[v])
         /\ t[j].group \in DOMAIN c.groups
         /\ c.groups[t[j].group].parent = t[j].parent
  BY <1>2, <1>3
<1>5. \A i, j \in DOMAIN t : t[i].parent = t[j].parent => i = j
  <2>1. \A m, n \in DOMAIN fz : fz[m].parent = fz[n].parent => m = n
    BY DEF Blocked
  <2> QED BY <1>2, <2>1
<1>6. ASSUME NEW g \in DOMAIN c.groups, ~IsGroupComplete(c, g)
      PROVE  \E j \in DOMAIN t : t[j].group = g
  <2>1. PICK m \in DOMAIN fz : fz[m].group = g
    BY <1>6 DEF Blocked
  <2>2. m # k
    BY <1>6, <2>1
  <2> QED BY <1>2, <2>1, <2>2
<1> QED BY <1>4, <1>5, <1>6 DEF Blocked, ws1, t, p

-----------------------------------------------------------------------------
(***************************************************************************)
(* Messages and processes keep their types; nothing that a process does    *)
(* touches what the loop keeps.                                            *)
(***************************************************************************)
LEMMA EmitTyped ==
    ASSUME ToldTyped, NEW w \in WorkerId, NEW kind, NEW arg,
           [kind |-> kind, arg |-> arg] \in Message,
           kind = "submit" => arg \in 1 .. MaxWidth,
           Emit(w, kind, arg)
    PROVE  ToldTyped'
<1> DEFINE m == [kind |-> kind, arg |-> arg]
           o == Append(out[w], m)
<1>1. m.kind = kind /\ m.arg = arg /\ m \in Message
  OBVIOUS
<1>2. out \in [WorkerId -> Seq(Message)] /\ out' = [out EXCEPT ![w] = o]
  BY DEF ToldTyped, Emit
<1> HIDE DEF m
<1>3. /\ o \in Seq(Message) /\ DOMAIN o = DOMAIN out[w] \cup {Len(out[w]) + 1}
      /\ \A j \in DOMAIN out[w] : o[j] = out[w][j]
      /\ o[Len(out[w]) + 1] = m
  BY <1>1, <1>2, AppendProperties
<1> HIDE DEF o
<1>4. /\ out' \in [WorkerId -> Seq(Message)] /\ out'[w] = o
      /\ \A v \in WorkerId : v # w => out'[v] = out[v]
  BY <1>2, <1>3
<1>5. \A j \in DOMAIN o : o[j].kind = "submit" => o[j].arg \in 1 .. MaxWidth
  BY <1>1, <1>3 DEF ToldTyped
<1> QED BY <1>4, <1>5 DEF ToldTyped

LEMMA ReceiveTyped ==
    ASSUME ToldTyped, NEW w \in WorkerId, NEW kind, Received(w, kind)
    PROVE  /\ ToldTyped' /\ Head(out[w]) \in Message
           /\ kind = "submit" => Head(out[w]).arg \in 1 .. MaxWidth
<1>1. /\ out \in [WorkerId -> Seq(Message)] /\ out[w] # << >> /\ Head(out[w]).kind = kind
      /\ out' = [out EXCEPT ![w] = Tail(out[w])] /\ out[w] \in Seq(Message)
  BY DEF ToldTyped, Received
<1>2. /\ Head(out[w]) = out[w][1] /\ Head(out[w]) \in Message /\ 1 \in DOMAIN out[w]
      /\ Tail(out[w]) \in Seq(Message)
      /\ \A j \in DOMAIN Tail(out[w]) : j + 1 \in DOMAIN out[w] /\ Tail(out[w])[j] = out[w][j + 1]
  BY <1>1, FirstAndRest
<1> DEFINE t == Tail(out[w])
<1>3. \A j \in DOMAIN t : t[j].kind = "submit" => t[j].arg \in 1 .. MaxWidth
  BY <1>2 DEF ToldTyped
<1>4. t \in Seq(Message) /\ out' = [out EXCEPT ![w] = t]
  BY <1>1, <1>2
<1> HIDE DEF t
<1>5. /\ out' \in [WorkerId -> Seq(Message)] /\ out'[w] = t
      /\ \A v \in WorkerId : v # w => out'[v] = out[v]
  BY <1>1, <1>4
<1>6. ToldTyped'
  BY <1>3, <1>5 DEF ToldTyped
<1>7. kind = "submit" => Head(out[w]).arg \in 1 .. MaxWidth
  BY <1>1, <1>2 DEF ToldTyped
<1> QED BY <1>2, <1>6, <1>7

LEMMA NewProcess == NoProc \in Process /\ Dead \in Process /\ Sane(NoProc) /\ Sane(Dead)
<1>1. << >> \in Seq(ItemId) /\ << >> \in Seq(Seq(ItemId)) /\ DOMAIN << >> = {}
  OBVIOUS
<1>2. NoProc \in Process /\ Sane(NoProc)
  BY <1>1 DEF NoProc, Process, Sane
<1>3. /\ Dead.state = "dead" /\ Dead.batch = << >> /\ Dead.inbox = << >>
      /\ Dead \in Process
  BY <1>1 DEF Dead, NoProc, Process
<1> QED BY <1>1, <1>2, <1>3 DEF Sane

\* A change of one process.
LEMMA WorkChanges ==
    ASSUME NEW f, Working(f), NEW w \in WorkerId, NEW q \in Process, Sane(q)
    PROVE  LET g == [f EXCEPT ![w] = q]
           IN Working(g) /\ g[w] = q /\ \A v \in WorkerId \ {w} : g[v] = f[v]
BY DEF Working

\* The items of a process are items.
HeldItems(p) ==
    /\ p \in Process /\ p.batch \in Seq(ItemId) /\ p.inbox \in Seq(Seq(ItemId)) /\ p.calls \in Nat
    /\ p.batch # << >> => Head(p.batch) \in ItemId /\ Tail(p.batch) \in Seq(ItemId)
    /\ p.inbox # << >> =>
         /\ Head(p.inbox) \in Seq(ItemId) \ {<< >>} /\ Tail(p.inbox) \in Seq(Seq(ItemId))
         /\ \A j \in DOMAIN Tail(p.inbox) : Tail(p.inbox)[j] # << >>

LEMMA HeldAreItems ==
    ASSUME NEW p \in Process, Sane(p)
    PROVE  HeldItems(p)
<1>1. /\ p.batch \in Seq(ItemId) /\ p.inbox \in Seq(Seq(ItemId)) /\ p.calls \in Nat
  BY DEF Process
<1>2. p.batch # << >> => Head(p.batch) \in ItemId /\ Tail(p.batch) \in Seq(ItemId)
  BY <1>1, FirstAndRest
<1>3. ASSUME p.inbox # << >>
      PROVE  /\ Head(p.inbox) \in Seq(ItemId) \ {<< >>} /\ Tail(p.inbox) \in Seq(Seq(ItemId))
             /\ \A j \in DOMAIN Tail(p.inbox) : Tail(p.inbox)[j] # << >>
  <2>1. /\ Head(p.inbox) = p.inbox[1] /\ Head(p.inbox) \in Seq(ItemId) /\ 1 \in DOMAIN p.inbox
        /\ Tail(p.inbox) \in Seq(Seq(ItemId))
        /\ \A j \in DOMAIN Tail(p.inbox) :
             j + 1 \in DOMAIN p.inbox /\ Tail(p.inbox)[j] = p.inbox[j + 1]
    BY <1>1, <1>3, FirstAndRest
  <2> QED BY <2>1 DEF Sane
<1> QED BY <1>1, <1>2, <1>3 DEF HeldItems

\* What the loop keeps is as it was.
LEMMA LoopIdle ==
    ASSUME PoolInv, UNCHANGED <<co, workers, frozen, next_worker_id>>,
           ToldTyped', WorkTyped'
    PROVE  PoolInv'
<1>1. HeldTyped'
  BY DEF PoolInv, PoolTyped, HeldTyped
<1>2. Named'
  BY DEF PoolInv, Named
<1>3. Good(co') /\ Leases(co', workers') /\ Blocked(co', workers', frozen')
  BY DEF PoolInv
<1> QED BY <1>1, <1>2, <1>3 DEF PoolInv, PoolTyped

\* The process after each of its steps.
Begun(p) ==
    IF p.batch # << >>
    THEN [p EXCEPT !.state = "running", !.calls = 0]
    ELSE [p EXCEPT !.state = "running", !.calls = 0,
                   !.batch = Head(p.inbox), !.inbox = Tail(p.inbox)]

Finished(p)   == [p EXCEPT !.state = "idle", !.batch = Tail(p.batch)]
Failed(p)     == [p EXCEPT !.state = "idle", !.batch = << >>, !.answer = FALSE]
Calling(p)    == [p EXCEPT !.state = "waiting", !.calls = p.calls + 1]
GoingOn(p)    == [p EXCEPT !.state = "running", !.answer = FALSE]

LEMMA ProcessSteps ==
    ASSUME NEW w \in WorkerId, WorkTyped
    PROVE  /\ StartStep(w)     => proc' = [proc EXCEPT ![w] = Begun(proc[w])]
           /\ FinishStep(w)    => proc' = [proc EXCEPT ![w] = Finished(proc[w])]
           /\ ErrStep(w)       => proc' = [proc EXCEPT ![w] = Failed(proc[w])]
           /\ SubmitCall(w)    => proc' = [proc EXCEPT ![w] = Calling(proc[w])]
           /\ ReceiveAnswer(w) => proc' = [proc EXCEPT ![w] = GoingOn(proc[w])]
           /\ Crash(w) \/ Reap(w) => proc' = [proc EXCEPT ![w] = Dead]
<1>1. proc[w] \in Process
  BY DEF WorkTyped, Working
<1>2. StartStep(w) => proc' = [proc EXCEPT ![w] = Begun(proc[w])]
  BY <1>1 DEF StartStep, Begun, Process
<1>3. FinishStep(w) => proc' = [proc EXCEPT ![w] = Finished(proc[w])]
  BY <1>1 DEF FinishStep, Finished, Process
<1>4. ErrStep(w) => proc' = [proc EXCEPT ![w] = Failed(proc[w])]
  BY <1>1 DEF ErrStep, Failed, Process
<1>5. SubmitCall(w) => proc' = [proc EXCEPT ![w] = Calling(proc[w])]
  BY <1>1 DEF SubmitCall, Calling, Process
<1>6. ReceiveAnswer(w) => proc' = [proc EXCEPT ![w] = GoingOn(proc[w])]
  BY <1>1 DEF ReceiveAnswer, GoingOn, Process
<1>7. Crash(w) \/ Reap(w) => proc' = [proc EXCEPT ![w] = Dead]
  BY DEF Crash, Reap
<1> QED BY <1>2, <1>3, <1>4, <1>5, <1>6, <1>7

\* Their fields.
LEMMA ProcessFields ==
    ASSUME NEW p \in Process, Sane(p)
    PROVE  /\ LET q == Begun(p)
              IN (p.batch # << >> \/ p.inbox # << >>) =>
                   /\ q \in Process /\ Sane(q) /\ q.state = "running"
                   /\ q.stopped = p.stopped /\ q.killed = p.killed /\ q.answer = p.answer /\ q.kept = p.kept
                   /\ IF p.batch # << >> THEN q.batch = p.batch /\ q.inbox = p.inbox
                      ELSE q.batch = Head(p.inbox) /\ q.inbox = Tail(p.inbox)
           /\ LET q == Finished(p)
              IN p.state = "running" =>
                   /\ q \in Process /\ Sane(q) /\ q.state = "idle" /\ q.batch = Tail(p.batch)
                   /\ q.inbox = p.inbox
                   /\ q.stopped = p.stopped /\ q.killed = p.killed /\ q.answer = p.answer /\ q.kept = p.kept
           /\ LET q == Failed(p)
              IN /\ q \in Process /\ Sane(q) /\ q.state = "idle" /\ q.batch = << >>
                 /\ q.inbox = p.inbox
                 /\ q.stopped = p.stopped /\ q.killed = p.killed /\ ~q.answer /\ q.kept = p.kept
           /\ LET q == Calling(p)
              IN p.state = "running" =>
                   /\ q \in Process /\ Sane(q) /\ q.state = "waiting" /\ q.batch = p.batch
                   /\ q.inbox = p.inbox
                   /\ q.stopped = p.stopped /\ q.killed = p.killed /\ q.answer = p.answer /\ q.kept = p.kept
           /\ LET q == GoingOn(p)
              IN p.state = "waiting" =>
                   /\ q \in Process /\ Sane(q) /\ q.state = "running" /\ q.batch = p.batch
                   /\ q.inbox = p.inbox
                   /\ q.stopped = p.stopped /\ q.killed = p.killed /\ ~q.answer /\ q.kept = p.kept
<1>0. HeldItems(p)
  BY HeldAreItems
<1>1. << >> \in Seq(ItemId)
  OBVIOUS
<1>2. p.batch # << >> \/ p.inbox # << >> =>
        LET q == Begun(p)
        IN /\ q \in Process /\ q.state = "running"
           /\ q.stopped = p.stopped /\ q.killed = p.killed /\ q.answer = p.answer /\ q.kept = p.kept
           /\ IF p.batch # << >> THEN q.batch = p.batch /\ q.inbox = p.inbox
              ELSE q.batch = Head(p.inbox) /\ q.inbox = Tail(p.inbox)
  BY <1>0 DEF Begun, HeldItems, Process
<1>3. p.batch # << >> \/ p.inbox # << >> => Sane(Begun(p))
  BY <1>0, <1>2 DEF Sane, HeldItems
<1>4. p.state = "running" =>
        LET q == Finished(p)
        IN /\ q \in Process /\ q.state = "idle" /\ q.batch = Tail(p.batch)
           /\ q.inbox = p.inbox
           /\ q.stopped = p.stopped /\ q.killed = p.killed /\ q.answer = p.answer /\ q.kept = p.kept
  BY <1>0 DEF Finished, HeldItems, Process, Sane
<1>5. LET q == Failed(p)
      IN /\ q \in Process /\ q.state = "idle" /\ q.batch = << >>
         /\ q.inbox = p.inbox
         /\ q.stopped = p.stopped /\ q.killed = p.killed /\ ~q.answer /\ q.kept = p.kept
  BY <1>1 DEF Failed, Process
<1>6. LET q == Calling(p)
      IN /\ q \in Process /\ q.state = "waiting" /\ q.batch = p.batch
         /\ q.inbox = p.inbox
         /\ q.stopped = p.stopped /\ q.killed = p.killed /\ q.answer = p.answer /\ q.kept = p.kept
  <2> DEFINE n == p.calls + 1
  <2>1. n \in Nat /\ Calling(p) = [p EXCEPT !.state = "waiting", !.calls = n]
    BY <1>0 DEF HeldItems, Calling
  <2> HIDE DEF n
  <2> QED BY <2>1 DEF Process
<1>7. LET q == GoingOn(p)
      IN /\ q \in Process /\ q.state = "running" /\ q.batch = p.batch
         /\ q.inbox = p.inbox
         /\ q.stopped = p.stopped /\ q.killed = p.killed /\ ~q.answer /\ q.kept = p.kept
  BY DEF GoingOn, Process
<1>8. /\ p.state = "running" => Sane(Finished(p)) /\ Sane(Calling(p))
      /\ Sane(Failed(p)) /\ (p.state = "waiting" => Sane(GoingOn(p)))
  BY <1>4, <1>5, <1>6, <1>7 DEF Sane
<1> QED BY <1>2, <1>3, <1>4, <1>5, <1>6, <1>7, <1>8

LEMMA ProcessesKeep ==
    ASSUME PoolInv, NEW w \in WorkerId, ProcStep(w) \/ Crash(w)
    PROVE  PoolInv'
<1> DEFINE p == proc[w]
<1>1. ToldTyped /\ WorkTyped /\ p \in Process /\ Sane(p) /\ (UNCHANGED out => ToldTyped')
  BY DEF PoolInv, PoolTyped, ToldTyped, WorkTyped, Working
<1>2. HeldItems(p)
  BY <1>1, HeldAreItems
<1>3. CASE StartStep(w)
  <2>1. Begun(p) \in Process /\ Sane(Begun(p))
    BY <1>1, <1>3, ProcessFields DEF StartStep
  <2>2. WorkTyped'
    BY <1>1, <1>3, <2>1, ProcessSteps, WorkChanges DEF WorkTyped
  <2> QED BY <1>1, <1>3, <2>2, LoopIdle DEF StartStep, loopVars
<1>4. CASE FinishStep(w)
  <2>1. p.state = "running" /\ Finished(p) \in Process /\ Sane(Finished(p))
    BY <1>1, <1>4, ProcessFields DEF FinishStep
  <2>2. WorkTyped'
    BY <1>1, <1>4, <2>1, ProcessSteps, WorkChanges DEF WorkTyped
  <2>3. [kind |-> "completed", arg |-> Head(p.batch)] \in Message
    BY <1>2, <2>1, <1>1 DEF HeldItems, Sane, Message, ItemId
  <2>4. ToldTyped'
    BY <1>1, <1>4, <2>3, EmitTyped DEF FinishStep
  <2> QED BY <1>4, <2>2, <2>4, LoopIdle DEF FinishStep, loopVars
<1>5. CASE ErrStep(w)
  <2>1. p.state \in {"running", "waiting"} /\ Failed(p) \in Process /\ Sane(Failed(p))
    BY <1>1, <1>5, ProcessFields DEF ErrStep
  <2>2. WorkTyped'
    BY <1>1, <1>5, <2>1, ProcessSteps, WorkChanges DEF WorkTyped
  <2>3. [kind |-> "error", arg |-> Head(p.batch)] \in Message
    BY <1>2, <2>1, <1>1 DEF HeldItems, Sane, Message, ItemId
  <2>4. ToldTyped'
    BY <1>1, <1>5, <2>3, EmitTyped DEF ErrStep
  <2> QED BY <1>5, <2>2, <2>4, LoopIdle DEF ErrStep, loopVars
<1>6. CASE SubmitCall(w)
  <2>1. p.state = "running" /\ Calling(p) \in Process /\ Sane(Calling(p))
    BY <1>1, <1>6, ProcessFields DEF SubmitCall
  <2>2. WorkTyped'
    BY <1>1, <1>6, <2>1, ProcessSteps, WorkChanges DEF WorkTyped
  <2> DEFINE i == Head(p.batch)
             n == p.calls + 1
  <2>3. i \in ItemId /\ n \in Nat \ {0} /\ n <= Len(Calls[i])
    BY <1>1, <1>2, <1>6, <2>1 DEF HeldItems, Sane, SubmitCall
  <2>4. Calls[i][n] \in 1 .. MaxWidth
    <3>1. Calls[i] \in Seq(1 .. MaxWidth)
      BY <2>3, WorkerPoolAssumption
    <3>2. n \in 1 .. Len(Calls[i])
      BY <2>3, <3>1, LenProperties
    <3> QED BY <3>1, <3>2, ElementOfSeq
  <2>5. [kind |-> "submit", arg |-> Calls[i][n]] \in Message
    BY <2>4 DEF Message
  <2>6. Emit(w, "submit", Calls[i][n])
    BY <1>6 DEF SubmitCall
  <2> HIDE DEF i, n
  <2>7. ToldTyped'
    BY <1>1, <2>4, <2>5, <2>6, EmitTyped
  <2> QED BY <1>6, <2>2, <2>7, LoopIdle DEF SubmitCall, loopVars
<1>7. CASE ReceiveAnswer(w)
  <2>1. GoingOn(p) \in Process /\ Sane(GoingOn(p))
    BY <1>1, <1>7, ProcessFields DEF ReceiveAnswer
  <2>2. WorkTyped'
    BY <1>1, <1>7, <2>1, ProcessSteps, WorkChanges DEF WorkTyped
  <2> QED BY <1>1, <1>7, <2>2, LoopIdle DEF ReceiveAnswer, loopVars
<1>8. CASE Crash(w) \/ Reap(w)
  <2>1. WorkTyped'
    BY <1>1, <1>8, NewProcess, ProcessSteps, WorkChanges DEF WorkTyped
  <2>2. [kind |-> "disconnected", arg |-> 0] \in Message
    BY DEF Message
  <2>3. ToldTyped'
    BY <1>1, <1>8, <2>2, EmitTyped DEF Crash, Reap
  <2>4. UNCHANGED loopVars
    BY <1>8 DEF Crash, Reap
  <2> QED BY <2>1, <2>3, <2>4, LoopIdle DEF loopVars
<1> QED BY <1>3, <1>4, <1>5, <1>6, <1>7, <1>8 DEF ProcStep

-----------------------------------------------------------------------------
(***************************************************************************)
(* The loop's handlers keep the invariant.                                 *)
(***************************************************************************)
LEMMA WorkerHolds ==
    ASSUME PoolInv, NEW w \in DOMAIN workers
    PROVE  /\ w \in WorkerId /\ w < next_worker_id /\ workers[w] \in Seq(ItemId)
           /\ Holding(co, workers[w])
<1>1. w \in WorkerId /\ workers[w] \in Seq(ItemId) /\ w < next_worker_id
  BY DEF PoolInv, PoolTyped, HeldTyped, Mapped, Named, NamedOnce
<1> QED BY <1>1 DEF PoolInv, Leases, Holding

LEMMA MapChanges ==
    ASSUME NEW ws, Mapped(ws), NEW w, NEW L \in Seq(ItemId)
    PROVE  /\ Mapped(Without(ws, w)) /\ DOMAIN Without(ws, w) = DOMAIN ws \ {w}
           /\ w \in WorkerId => Mapped(With(ws, w, L)) /\ DOMAIN With(ws, w, L) = DOMAIN ws \cup {w}
           /\ w \in DOMAIN ws => Mapped(Put(ws, w, L)) /\ DOMAIN Put(ws, w, L) = DOMAIN ws
BY DEF Put, Mapped, Without, With

LEMMA JoinMapped ==
    ASSUME NEW ws, Mapped(ws), NEW w \in WorkerId
    PROVE  Mapped(With(ws, w, << >>)) /\ DOMAIN With(ws, w, << >>) = DOMAIN ws \cup {w}
BY DEF Mapped, With

LEMMA FlagsKeep ==
    ASSUME NEW p \in Process, Sane(p), NEW b \in BOOLEAN
    PROVE  /\ LET q == [p EXCEPT !.killed = b]
              IN /\ q \in Process /\ Sane(q) /\ q.killed = b /\ q.state = p.state
                 /\ q.answer = p.answer /\ q.kept = p.kept
           /\ LET q == [p EXCEPT !.state = "idle"]
              IN /\ q \in Process /\ Sane(q) /\ q.state = "idle" /\ q.killed = p.killed
                 /\ q.stopped = p.stopped /\ q.answer = p.answer
                 /\ q.batch = p.batch /\ q.inbox = p.inbox
           /\ LET q == Continued(p)
              IN /\ q \in Process /\ Sane(q) /\ q.state = p.state /\ q.killed = p.killed
                 /\ ~q.stopped /\ (q.answer <=> p.state = "waiting")
                 /\ q.batch = p.batch /\ q.inbox = p.inbox /\ q.kept = p.kept
<1>1. LET q == [p EXCEPT !.killed = b]
      IN /\ q \in Process /\ Sane(q) /\ q.killed = b /\ q.state = p.state
         /\ q.answer = p.answer /\ q.kept = p.kept
  BY DEF Process, Sane
<1>2. LET q == [p EXCEPT !.state = "idle"]
      IN /\ q \in Process /\ Sane(q) /\ q.state = "idle" /\ q.killed = p.killed
         /\ q.stopped = p.stopped /\ q.answer = p.answer
         /\ q.batch = p.batch /\ q.inbox = p.inbox
  BY DEF Process, Sane
<1>3. LET q == Continued(p)
      IN /\ q \in Process /\ Sane(q) /\ q.state = p.state /\ q.killed = p.killed
         /\ ~q.stopped /\ (q.answer <=> p.state = "waiting")
         /\ q.batch = p.batch /\ q.inbox = p.inbox /\ q.kept = p.kept
  BY DEF Process, Sane, Continued
<1> QED BY <1>1, <1>2, <1>3

\* A process that is stopped.
LEMMA HaltKeeps ==
    ASSUME NEW w \in WorkerId, WorkTyped, NEW rest, Range(rest) \subseteq ItemId
    PROVE  LET p == proc[w]
               q == Halted(w, rest)
           IN /\ q \in Process /\ Sane(q) /\ q.stopped = Alive(w) /\ q.state = p.state
              /\ q.killed = p.killed /\ q.answer = p.answer
              /\ q.batch = p.batch /\ q.inbox = p.inbox /\ q.kept = p.kept \cup Range(rest)
<1>0. PICK p, b, K : p = proc[w] /\ b = Alive(w) /\ K = Range(rest)
  OBVIOUS
<1>1. p \in Process /\ Sane(p) /\ b \in BOOLEAN /\ K \in SUBSET ItemId
  BY <1>0 DEF WorkTyped, Working, Alive
<1>2. PICK M : M = p.kept \cup K
  OBVIOUS
<1>3. PICK q : q = [p EXCEPT !.stopped = b, !.kept = M]
  OBVIOUS
<1>4. Halted(w, rest) = q
  BY <1>0, <1>1, <1>2, <1>3 DEF Halted, Process
<1>5. M \in SUBSET ItemId
  BY <1>1, <1>2 DEF Process
<1>6. /\ q \in Process /\ Sane(q) /\ q.stopped = b /\ q.state = p.state
      /\ q.killed = p.killed /\ q.answer = p.answer
      /\ q.batch = p.batch /\ q.inbox = p.inbox /\ q.kept = M
  BY <1>1, <1>3, <1>5 DEF Process, Sane
<1> QED BY <1>0, <1>2, <1>4, <1>6

\* A worker is dropped with its leases.
LEMMA LossKeeps ==
    ASSUME NEW c, NEW c1, NEW c2, NEW ws, NEW fz, Good(c), Leases(c, ws), Blocked(c, ws, fz),
           NEW w \in DOMAIN ws, Holding(c, ws[w]), NEW i, NEW rest,
           Lost(c, c1, c2, ws[w], i, rest)
    PROVE  Good(c2) /\ Leases(c2, Without(ws, w)) /\ Blocked(c2, Without(ws, w), fz)
<1>1. Good(c2) /\ Took(c, c2, Range(ws[w]))
  BY LossTook
<1>2. c2.executing = c.executing \ Range(ws[w])
  BY <1>1 DEF Took, Keeps
<1>3. \A p \in Resumed(c) \ Range(ws[w]) : p \in Resumed(c2)
  BY <1>1, ResumedStay
<1>4. Leases(c2, Without(ws, w))
  BY <1>2, <1>3, DropLeases
<1>5. \A v \in DOMAIN Without(ws, w) : v \in DOMAIN ws /\ Without(ws, w)[v] = ws[v]
  BY DEF Without
<1>6. Blocked(c2, Without(ws, w), fz)
  BY <1>1, <1>5, StayBlocked DEF Took
<1> QED BY <1>1, <1>4, <1>6

LEMMA DropIdle ==
    ASSUME NEW c, NEW ws, NEW fz, Leases(c, ws), Blocked(c, ws, fz),
           NEW w \in DOMAIN ws, ws[w] = << >>
    PROVE  Leases(c, Without(ws, w)) /\ Blocked(c, Without(ws, w), fz)
<1>1. Range(ws[w]) = {}
  BY DEF Range
<1>2. Leases(c, Without(ws, w))
  BY <1>1, DropLeases
<1>3. Keeps(c, c, {})
  BY SameGroups DEF Took
<1>4. \A v \in DOMAIN Without(ws, w) : v \in DOMAIN ws /\ Without(ws, w)[v] = ws[v]
  BY DEF Without
<1>5. Blocked(c, Without(ws, w), fz)
  BY <1>3, <1>4, StayBlocked
<1> QED BY <1>2, <1>5

LEMMA StepCompletedKeeps ==
    ASSUME PoolInv, NEW w \in WorkerId, StepCompleted(w)
    PROVE  PoolInv'
<1> DEFINE i == Head(out[w]).arg
<1>1. /\ ToldTyped' /\ WorkTyped'
      /\ UNCHANGED <<frozen, next_worker_id, proc>>
  BY ReceiveTyped DEF PoolInv, PoolTyped, StepCompleted, WorkTyped
<1>2. CASE HasLease(w, i)
  <2>1. w \in DOMAIN workers /\ i \in Range(workers[w])
    BY <1>2 DEF HasLease
  <2>12. workers' = Put(workers, w, RemoveFirst(workers[w], i))
    BY <1>2 DEF StepCompleted, Put
  <2>2. PICK order \in ReleaseOrders(co, i, {}) : co' = OnItemCompleted(co, i, order)
    BY <1>2 DEF StepCompleted
  <2> HIDE DEF i
  <2>3. Holding(co, workers[w]) /\ i \in Running(co)
    BY <2>1, WorkerHolds, LeaseRuns
  <2>4. PICK t \in Seq(ItemId) :
          /\ t = RemoveFirst(workers[w], i)
          /\ Distinct(t) /\ Range(t) = Range(workers[w]) \ {i}
    BY <2>1, <2>3, WithoutLease DEF Holding
  <2>5. Good(co') /\ Took(co, co', {i})
    BY <2>2, <2>3, CompletionTook DEF PoolInv
  <2>6. workers' = Put(workers, w, t)
    BY <2>4, <2>12
  <2>7. /\ co'.executing = co.executing \ {i}
        /\ \A p \in Resumed(co) \ {i} : p \in Resumed(co')
    BY <2>5, ResumedStay DEF Took, Keeps
  <2>8. Leases(co', workers')
    BY <2>1, <2>3, <2>4, <2>6, <2>7, TakeLease DEF PoolInv
  <2>9. /\ DOMAIN workers' = DOMAIN workers
        /\ \A v \in DOMAIN workers' : Range(workers'[v]) \subseteq Range(workers[v])
    BY <2>4, <2>6 DEF Put
  <2>10. Blocked(co', workers', frozen)
    BY <2>1, <2>5, <2>9, StayBlocked DEF PoolInv, Took
  <2>11. Mapped(workers')
    BY <2>1, <2>4, <2>6, MapChanges DEF PoolInv, PoolTyped, HeldTyped
  <2> QED BY <1>1, <2>5, <2>8, <2>9, <2>10, <2>11
      DEF PoolInv, PoolTyped, HeldTyped, Named
<1>3. CASE ~HasLease(w, i)
  BY <1>1, <1>3, LoopIdle DEF StepCompleted
<1> QED BY <1>2, <1>3

LEMMA StepErrorKeeps ==
    ASSUME PoolInv, NEW w \in WorkerId, StepError(w)
    PROVE  PoolInv'
<1> DEFINE i == Head(out[w]).arg
<1>1. ToldTyped' /\ UNCHANGED <<frozen, next_worker_id>>
  BY ReceiveTyped DEF PoolInv, PoolTyped, StepError
<1>2. CASE HasLease(w, i)
  <2>1. /\ w \in DOMAIN workers /\ i \in Range(workers[w])
        /\ workers' = Without(workers, w)
        /\ proc' = [proc EXCEPT ![w].killed = Alive(w)]
    BY <1>2 DEF StepError, HasLease
  <2> DEFINE rest == RemoveFirst(workers[w], i)
  <2>2. PICK order \in FailureOrders(co, i) :
          co' = ReturnLeases(OnItemFailed(co, i, order), rest)
    BY <1>2 DEF StepError
  <2> DEFINE c1 == OnItemFailed(co, i, order)
  <2> HIDE DEF i
  <2>3. Holding(co, workers[w])
    BY <2>1, WorkerHolds
  <2>4. rest \in Seq(ItemId) /\ Distinct(rest) /\ Range(rest) = Range(workers[w]) \ {i}
    BY <2>1, <2>3, WithoutLease DEF Holding
  <2> HIDE DEF rest
  <2>5. Lost(co, c1, co', workers[w], i, rest)
    BY <2>1, <2>2, <2>4 DEF Lost
  <2> HIDE DEF c1
  <2>6. Good(co') /\ Leases(co', workers') /\ Blocked(co', workers', frozen)
    BY <2>1, <2>3, <2>5, LossKeeps DEF PoolInv
  <2>7. Mapped(workers') /\ DOMAIN workers' = DOMAIN workers \ {w}
    BY <2>1, <2>4, MapChanges DEF PoolInv, PoolTyped, HeldTyped
  <2>8. WorkTyped'
    <3>1. Working(proc) /\ proc[w] \in Process /\ Sane(proc[w]) /\ Alive(w) \in BOOLEAN
      BY DEF PoolInv, PoolTyped, WorkTyped, Working, Alive
    <3> QED BY <2>1, <3>1, FlagsKeep, WorkChanges DEF WorkTyped
  <2> QED BY <1>1, <2>6, <2>7, <2>8
      DEF PoolInv, PoolTyped, HeldTyped, Named, NamedOnce
<1>3. CASE ~HasLease(w, i)
  BY <1>1, <1>3, LoopIdle DEF StepError, PoolInv, PoolTyped, WorkTyped
<1> QED BY <1>2, <1>3

LEMMA DisconnectedKeeps ==
    ASSUME PoolInv, NEW w \in WorkerId, Disconnected(w)
    PROVE  PoolInv'
<1>1. ToldTyped' /\ WorkTyped' /\ UNCHANGED <<frozen, next_worker_id, proc>>
  BY ReceiveTyped DEF PoolInv, PoolTyped, Disconnected, WorkTyped
<1>2. CASE w \in DOMAIN workers
  <2>1. workers' = Without(workers, w)
    BY <1>2 DEF Disconnected
  <2>2. Holding(co, workers[w]) /\ workers[w] \in Seq(ItemId)
    BY <1>2, WorkerHolds
  <2>3. Good(co') /\ Leases(co', workers') /\ Blocked(co', workers', frozen)
    <3>1. CASE workers[w] = << >>
      <4>1. co' = co
        BY <1>2, <3>1 DEF Disconnected
      <4> QED BY <1>2, <2>1, <3>1, <4>1, DropIdle DEF PoolInv
    <3>2. CASE workers[w] # << >>
      <4> DEFINE i    == Head(workers[w])
                 rest == Tail(workers[w])
      <4>1. PICK order \in FailureOrders(co, i) :
              co' = ReturnLeases(OnItemFailed(co, i, order), rest)
        BY <1>2, <3>2 DEF Disconnected
      <4> DEFINE c1 == OnItemFailed(co, i, order)
      <4>2. /\ i \in Range(workers[w]) /\ rest \in Seq(ItemId) /\ Distinct(rest)
            /\ Range(rest) = Range(workers[w]) \ {i}
        BY <2>2, <3>2, WithoutHead DEF Holding
      <4> HIDE DEF i, rest
      <4>3. Lost(co, c1, co', workers[w], i, rest)
        BY <4>1, <4>2 DEF Lost
      <4> HIDE DEF c1
      <4> QED BY <1>2, <2>1, <2>2, <4>3, LossKeeps DEF PoolInv
    <3> QED BY <3>1, <3>2
  <2>4. Mapped(workers') /\ DOMAIN workers' = DOMAIN workers \ {w}
    BY <2>1, <2>2, MapChanges DEF PoolInv, PoolTyped, HeldTyped
  <2> QED BY <1>1, <2>3, <2>4 DEF PoolInv, PoolTyped, HeldTyped, Named, NamedOnce
<1>3. CASE w \notin DOMAIN workers
  BY <1>1, <1>3, LoopIdle DEF Disconnected
<1> QED BY <1>2, <1>3

LEMMA RetryReadyKeeps ==
    ASSUME PoolInv, NEW i, RetryReady(i)
    PROVE  PoolInv'
<1>1. /\ i \in co.waiting_retry /\ co' = RequeueItem(co, i)
      /\ UNCHANGED <<workers, frozen, next_worker_id, proc, out>>
  BY DEF RetryReady
<1>2. Good(co)
  BY DEF PoolInv
<1>3. Queueing(co, co', i)
  BY <1>1, <1>2, RequeueQueues, QueueFields DEF Good
<1>4. Sound(co') /\ Budgeted(co')
  BY <1>1, <1>2, <1>3, QueueKeeps, RequeueInBudget DEF Good
<1>5. i \notin co.executing /\ i \notin Parked(co)
  BY <1>1, <1>2 DEF Good, Sound, Apart, Parked
<1>6. /\ co'.executing = co.executing /\ Parked(co') = Parked(co)
      /\ co'.groups = co.groups /\ co'.done = co.done /\ co'.failed = co.failed
  BY <1>3, <1>5 DEF Queueing, SameResults
<1>7. Counted(co') /\ Took(co, co', {})
  BY <1>2, <1>6, SameCounts, SameGroups DEF Good
<1>8. Resumed(co') = Resumed(co)
  BY <1>6 DEF Resumed, IsGroupComplete
<1>9. Leases(co', workers)
  BY <1>6, <1>8 DEF PoolInv, Leases
<1>10. Blocked(co', workers, frozen)
  BY <1>7, StayBlocked DEF PoolInv, Took
<1>11. HeldTyped' /\ ToldTyped' /\ WorkTyped' /\ Named'
  BY <1>1 DEF PoolInv, PoolTyped, HeldTyped, ToldTyped, WorkTyped, Named
<1> QED BY <1>1, <1>4, <1>7, <1>9, <1>10, <1>11 DEF PoolInv, PoolTyped, Good

\* The worker of a call is frozen, and a new id may be active in its stead.
LEMMA FreezeNamed ==
    ASSUME NEW D, NEW fz \in Seq(Frozen), NEW n \in Nat, D \subseteq Nat, NamedOnce(D, fz, n),
           NEW w \in D, NEW e \in Frozen, e.worker = w,
           NEW D1, D1 \subseteq (D \ {w}) \cup {n}
    PROVE  NamedOnce(D1, Append(fz, e), n + 1)
<1> DEFINE fz1 == Append(fz, e)
           m   == Len(fz) + 1
<1>1. /\ DOMAIN fz1 = DOMAIN fz \cup {m} /\ m \notin DOMAIN fz /\ fz1[m] = e
      /\ \A k \in DOMAIN fz : fz1[k] = fz[k]
  BY AppendProperties
<1> HIDE DEF fz1, m
<1>2. w < n /\ w \in Nat
  BY DEF NamedOnce
<1>3. \A k \in DOMAIN fz : /\ fz[k].worker \in Nat /\ fz[k].worker < n
                           /\ fz[k].worker \notin D
  <2>1. \A k \in DOMAIN fz : fz[k] \in Frozen
    OBVIOUS
  <2>2. WorkerId \subseteq Nat
    BY WorkerPoolAssumption DEF WorkerId
  <2>3. \A k \in DOMAIN fz : fz[k].worker \in Nat
    BY <2>1, <2>2 DEF Frozen
  <2> QED BY <2>3 DEF NamedOnce
<1>4. \A v \in D1 : v < n + 1
  <2>1. \A v \in D : v \in Nat /\ v < n
    BY DEF NamedOnce
  <2>2. \A v \in D1 : v \in D \/ v = n
    OBVIOUS
  <2>3. ASSUME NEW v \in D1 PROVE v < n + 1
    BY <2>1, <2>2
  <2> QED BY <2>3
<1>5. ASSUME NEW k \in DOMAIN fz1
      PROVE  fz1[k].worker < n + 1 /\ fz1[k].worker \notin D1
  <2>1. fz1[k].worker \in Nat /\ fz1[k].worker < n /\ fz1[k].worker \notin D \ {w}
    BY <1>1, <1>2, <1>3
  <2> QED BY <2>1
<1>6. \A j, k \in DOMAIN fz1 : fz1[j].worker = fz1[k].worker => j = k
  <2>1. \A j, k \in DOMAIN fz : fz[j].worker = fz[k].worker => j = k
    BY DEF NamedOnce
  <2> QED BY <1>1, <1>3, <2>1
<1> QED BY <1>4, <1>5, <1>6 DEF NamedOnce, fz1

\* What a handled call of parallel() does, replaced or not.
Freezes(w, n, r) ==
    LET L == workers[w]
    IN /\ w \in DOMAIN workers /\ r = next_worker_id /\ r \in WorkerId
       /\ Forked(co, co', L, n)
       /\ \E e \in Frozen : /\ e.worker = w /\ e.parent = Head(L)
                            /\ e.group = Len(co.groups) + 1 /\ e.replacement = r
                            /\ frozen' = Append(frozen, e)
       /\ workers' \in {Without(workers, w), With(Without(workers, w), r, << >>)}
       /\ next_worker_id' = r + 1

LEMMA SubmitFreezes ==
    ASSUME PoolInv, NEW w \in WorkerId, Submit(w), w \in DOMAIN workers, workers[w] # << >>
    PROVE  Freezes(w, Head(out[w]).arg, next_worker_id)
<1> DEFINE n == Head(out[w]).arg
           r == next_worker_id
           L == workers[w]
<1>1. n \in 1 .. MaxWidth
  BY ReceiveTyped DEF PoolInv, PoolTyped, Submit
<1>2. /\ r \in WorkerId /\ co.next_item_id + n <= MaxItems /\ next_worker_id' = r + 1
      /\ co' = ReturnLeases(OnParallelRequested(co, Head(L), n), Tail(L))
      /\ frozen' = Append(frozen, [worker |-> w, parent |-> Head(L),
                                   group |-> Len(co.groups) + 1, replacement |-> r])
  BY DEF Submit
<1>3. workers' \in {Without(workers, w), With(Without(workers, w), r, << >>)}
  BY DEF Submit
<1>4. Forked(co, co', L, n)
  BY <1>1, <1>2 DEF Forked
<1>5. L \in Seq(ItemId) /\ Head(L) \in ItemId
  BY WorkerHolds, FirstAndRest
<1>6. Len(co.groups) + 1 \in Nat
  BY DEF PoolInv, Good, Sound, Typed, Coordinators
<1>7. [worker |-> w, parent |-> Head(L), group |-> Len(co.groups) + 1, replacement |-> r]
         \in Frozen
  BY <1>2, <1>5, <1>6 DEF Frozen
<1> HIDE DEF n, r, L
<1>8. \E e \in Frozen : /\ e.worker = w /\ e.parent = Head(L)
                        /\ e.group = Len(co.groups) + 1 /\ e.replacement = r
                        /\ frozen' = Append(frozen, e)
  BY <1>2, <1>7
<1> QED BY <1>2, <1>3, <1>4, <1>8 DEF Freezes, n, r, L

LEMMA FreezeKeeps ==
    ASSUME PoolInv, NEW w, NEW n, NEW r, Freezes(w, n, r), ToldTyped', WorkTyped'
    PROVE  PoolInv'
<1> DEFINE L      == workers[w]
           active == Without(workers, w)
<1>1. /\ w \in DOMAIN workers /\ r = next_worker_id /\ r \in WorkerId /\ Forked(co, co', L, n)
      /\ workers' \in {active, With(active, r, << >>)} /\ next_worker_id' = r + 1
  BY DEF Freezes
<1>2. PICK e \in Frozen : /\ e.worker = w /\ e.parent = Head(L)
                          /\ e.group = Len(co.groups) + 1
                          /\ frozen' = Append(frozen, e)
  BY DEF Freezes
<1>3. /\ Good(co) /\ Leases(co, workers) /\ Blocked(co, workers, frozen)
      /\ Mapped(workers) /\ frozen \in Seq(Frozen) /\ next_worker_id \in 0 .. MaxWorkers
      /\ NamedOnce(DOMAIN workers, frozen, next_worker_id)
  BY DEF PoolInv, PoolTyped, HeldTyped, Named
<1>4. Holding(co, L) /\ L \in Seq(ItemId) /\ Head(L) \in Range(L)
  BY <1>1, WorkerHolds, WithoutHead DEF Holding, Forked
<1>5. Good(co') /\ ForkTook(co, co', L)
  BY <1>1, <1>3, <1>4, ForkingTook
<1>6. co'.executing = co.executing \ Range(L)
  BY <1>5 DEF ForkTook
<1>7. \A p \in Resumed(co) \ Range(L) : p \in Resumed(co')
  BY <1>4, <1>5, ResumedStayForked
<1>8. Leases(co', active)
  BY <1>1, <1>3, <1>6, <1>7, DropLeases
<1>9. Blocked(co', active, frozen')
  BY <1>1, <1>2, <1>3, <1>4, <1>5, ForkBlocked
<1>10. /\ Mapped(active) /\ DOMAIN active = DOMAIN workers \ {w}
       /\ Mapped(With(active, r, << >>)) /\ DOMAIN With(active, r, << >>) = DOMAIN active \cup {r}
  <2>1. << >> \in Seq(ItemId)
    OBVIOUS
  <2>2. Mapped(active) /\ DOMAIN active = DOMAIN workers \ {w}
    BY <1>3, <2>1, MapChanges
  <2>3. r \in WorkerId
    BY <1>1
  <2>5. Mapped(active)
    BY <2>2
  <2> HIDE DEF active
  <2>4. Mapped(With(active, r, << >>)) /\ DOMAIN With(active, r, << >>) = DOMAIN active \cup {r}
    BY <2>3, <2>5, JoinMapped
  <2> QED BY <2>2, <2>4
<1>11. r \notin DOMAIN active /\ DOMAIN workers \subseteq Nat /\ r \in Nat
  BY <1>1, <1>3, <1>10 DEF NamedOnce, Mapped, WorkerId
<1> HIDE DEF active, L
<1>12. Leases(co', With(active, r, << >>)) /\ Blocked(co', With(active, r, << >>), frozen')
  BY <1>8, <1>9, <1>11, JoinLeases, JoinBlocked
<1>13. /\ Leases(co', workers') /\ Blocked(co', workers', frozen') /\ Mapped(workers')
       /\ DOMAIN workers' \subseteq (DOMAIN workers \ {w}) \cup {r}
  BY <1>1, <1>8, <1>9, <1>10, <1>12
<1>14. NamedOnce(DOMAIN workers', frozen', next_worker_id')
  <2>1. NamedOnce(DOMAIN workers', Append(frozen, e), r + 1)
    BY <1>1, <1>2, <1>3, <1>11, <1>13, FreezeNamed
  <2> QED BY <1>1, <1>2, <2>1
<1>15. frozen' \in Seq(Frozen)
  BY <1>2, <1>3, AppendProperties
<1>16. next_worker_id' \in 0 .. MaxWorkers
  BY <1>1, WorkerPoolAssumption DEF WorkerId
<1>17. HeldTyped' /\ Named'
  BY <1>13, <1>14, <1>15, <1>16 DEF HeldTyped, Named
<1> QED BY <1>5, <1>13, <1>17 DEF PoolInv, PoolTyped

LEMMA SubmitKeeps ==
    ASSUME PoolInv, NEW w \in WorkerId, Submit(w)
    PROVE  PoolInv'
<1>1. ToldTyped' /\ WorkTyped
  BY ReceiveTyped DEF PoolInv, PoolTyped, Submit
<1>2. CASE w \in DOMAIN workers /\ workers[w] # << >>
  <2> DEFINE r == next_worker_id
             q == Halted(w, Tail(workers[w]))
             s == [proc[r] EXCEPT !.state = "idle"]
             f == [proc EXCEPT ![w] = q]
  <2>1. Freezes(w, Head(out[w]).arg, r)
    BY <1>2, SubmitFreezes
  <2>2. r \in WorkerId /\ r # w
    BY <1>2, WorkerHolds, <2>1 DEF Freezes, WorkerId
  <2>3. /\ proc[w] \in Process /\ Sane(proc[w]) /\ proc[r] \in Process /\ Sane(proc[r])
        /\ proc \in [WorkerId -> Process] /\ Alive(w) \in BOOLEAN
    BY <1>1, <2>2 DEF WorkTyped, Working, Alive
  <2>4. q \in Process /\ Sane(q) /\ s \in Process /\ Sane(s)
    <3>1. Range(Tail(workers[w])) \subseteq ItemId
      <4>1. Tail(workers[w]) \in Seq(ItemId)
        BY <1>2, WorkerHolds, WithoutHead DEF Holding
      <4> QED BY <4>1 DEF Range
    <3>2. TRUE \in BOOLEAN
      OBVIOUS
    <3> QED BY <1>1, <2>3, <3>1, <3>2, HaltKeeps, FlagsKeep
  <2>5. proc' \in {f, [f EXCEPT ![r] = s]}
    BY <1>2, <2>2, <2>3 DEF Submit
  <2> HIDE DEF q, s
  <2>6. Working(f)
    BY <1>1, <2>4, WorkChanges DEF WorkTyped
  <2> HIDE DEF f, r
  <2>7. Working([f EXCEPT ![r] = s])
    BY <2>2, <2>4, <2>6, WorkChanges
  <2>8. WorkTyped'
    BY <2>5, <2>6, <2>7 DEF WorkTyped
  <2> QED BY <1>1, <2>1, <2>8, FreezeKeeps
<1>3. CASE ~(w \in DOMAIN workers /\ workers[w] # << >>)
  BY <1>1, <1>3, LoopIdle DEF Submit, WorkTyped
<1> QED BY <1>2, <1>3

\* A frozen worker is active again, and another one may be gone.
LEMMA ResumeNamed ==
    ASSUME NEW D, NEW fz \in Seq(Frozen), NEW n, NamedOnce(D, fz, n), NEW k \in DOMAIN fz,
           NEW D1, D1 \subseteq D \cup {fz[k].worker}
    PROVE  NamedOnce(D1, SwapRemove(fz, k), n)
<1> DEFINE t == SwapRemove(fz, k)
<1>1. /\ \A j \in DOMAIN t : At(fz, k, j) \in DOMAIN fz \ {k}
      /\ \A j \in DOMAIN t : t[j] = fz[At(fz, k, j)]
      /\ \A i, j \in DOMAIN t : At(fz, k, i) = At(fz, k, j) => i = j
  <2> HIDE DEF t
  <2>1. t = SwapRemove(fz, k)
    BY DEF t
  <2> QED BY <2>1, SwapRemoved
<1> HIDE DEF t
<1>2. \A v \in D1 : v < n
  BY DEF NamedOnce
<1>3. \A j \in DOMAIN t : t[j].worker < n /\ t[j].worker \notin D1
  <2>1. \A l \in DOMAIN fz \ {k} : fz[l].worker < n /\ fz[l].worker \notin D1
    BY DEF NamedOnce
  <2> QED BY <1>1, <2>1
<1>4. \A i, j \in DOMAIN t : t[i].worker = t[j].worker => i = j
  <2>1. \A l, m \in DOMAIN fz : fz[l].worker = fz[m].worker => l = m
    BY DEF NamedOnce
  <2> QED BY <1>1, <2>1
<1> QED BY <1>2, <1>3, <1>4 DEF NamedOnce, t

\* What resume_frozen does to one frozen worker.
Resumes(k) ==
    LET fw == frozen[k]
        ws == Without(workers, fw.replacement)
    IN /\ k \in DOMAIN frozen /\ IsGroupComplete(co, fw.group)
       /\ frozen' = SwapRemove(frozen, k)
       /\ workers' = With(ws, fw.worker, <<fw.parent>>)
       /\ co' = IF fw.replacement \in DOMAIN workers
                THEN ReturnReplacement(co, workers[fw.replacement])
                ELSE co
       /\ next_worker_id' = next_worker_id

LEMMA ResumeKeeps ==
    ASSUME PoolInv, NEW k, Resumes(k), ToldTyped', WorkTyped'
    PROVE  PoolInv'
<1> DEFINE fw == frozen[k]
           r  == fw.replacement
           w  == fw.worker
           p  == fw.parent
           ws == Without(workers, r)
<1>1. /\ k \in DOMAIN frozen /\ IsGroupComplete(co, fw.group)
      /\ frozen' = SwapRemove(frozen, k) /\ workers' = With(ws, w, <<p>>)
      /\ next_worker_id' = next_worker_id
  BY DEF Resumes
<1>2. /\ Good(co) /\ Leases(co, workers) /\ Blocked(co, workers, frozen)
      /\ Mapped(workers) /\ frozen \in Seq(Frozen) /\ next_worker_id \in 0 .. MaxWorkers
      /\ NamedOnce(DOMAIN workers, frozen, next_worker_id)
  BY DEF PoolInv, PoolTyped, HeldTyped, Named
<1>3. w \in WorkerId /\ p \in ItemId /\ w \notin DOMAIN workers
  <2>1. fw \in Frozen
    BY <1>1, <1>2, ElementOfSeq
  <2> QED BY <1>1, <1>2, <2>1 DEF Frozen, NamedOnce
<1>4. DOMAIN ws = DOMAIN workers \ {r} /\ \A v \in DOMAIN ws : ws[v] = workers[v]
  BY DEF Without
<1>5. /\ Good(co') /\ Leases(co', ws) /\ Blocked(co', ws, frozen)
      /\ IsGroupComplete(co', fw.group)
  <2>1. CASE r \in DOMAIN workers
    <3>1. co' = ReturnReplacement(co, workers[r])
      BY <2>1 DEF Resumes
    <3>2. Holding(co, workers[r])
      BY <2>1, WorkerHolds
    <3> HIDE DEF r
    <3>3. Good(co') /\ Took(co, co', Range(workers[r])) /\ co'.groups = co.groups
      BY <1>2, <3>1, <3>2, ReplacementTook
    <3>4. /\ co'.executing = co.executing \ Range(workers[r])
          /\ \A x \in Resumed(co) \ Range(workers[r]) : x \in Resumed(co')
      BY <3>3, ResumedStay DEF Took
    <3>5. Leases(co', ws)
      BY <1>2, <2>1, <3>4, DropLeases
    <3>6. Keeps(co, co', Range(workers[r]))
      BY <3>3 DEF Took
    <3>7. Blocked(co', ws, frozen)
      BY <1>2, <1>4, <2>1, <3>6, StayBlocked
    <3>8. IsGroupComplete(co', fw.group)
      BY <1>1, <3>3 DEF IsGroupComplete
    <3> QED BY <3>3, <3>5, <3>7, <3>8
  <2>2. CASE r \notin DOMAIN workers
    <3>1. co' = co
      BY <2>2 DEF Resumes
    <3>2. ws = workers
      BY <1>2, <1>4, <2>2 DEF Mapped, Without
    <3> QED BY <1>1, <1>2, <3>1, <3>2
  <2> QED BY <2>1, <2>2
<1>6. p \in Resumed(co') /\ w \notin DOMAIN ws /\ \A v \in DOMAIN ws : p \notin Range(ws[v])
  BY <1>1, <1>3, <1>4, <1>5, StoppedResumes DEF Blocked
<1>7. Mapped(ws)
  <2>1. <<p>> \in Seq(ItemId)
    BY <1>3, OneLease
  <2> QED BY <1>2, <2>1, MapChanges
<1> HIDE DEF ws
<1>8. Leases(co', With(ws, w, <<p>>))
  BY <1>5, <1>6, JoinLeases
<1>9. Blocked(co', With(ws, w, <<p>>), SwapRemove(frozen, k))
  BY <1>1, <1>2, <1>5, <1>6, ResumeBlocked
<1>10. Mapped(With(ws, w, <<p>>)) /\ DOMAIN With(ws, w, <<p>>) = DOMAIN ws \cup {w}
  <2>1. <<p>> \in Seq(ItemId)
    BY <1>3, OneLease
  <2> DEFINE L == <<p>>
  <2> HIDE DEF L
  <2>2. L \in Seq(ItemId)
    BY <2>1 DEF L
  <2>3. Mapped(With(ws, w, L)) /\ DOMAIN With(ws, w, L) = DOMAIN ws \cup {w}
    BY <1>3, <1>7, <2>2, MapChanges
  <2> QED BY <2>3 DEF L
<1>11. NamedOnce(DOMAIN workers', frozen', next_worker_id')
  <2>1. DOMAIN workers' \subseteq DOMAIN workers \cup {w}
    BY <1>1, <1>4, <1>10
  <2>2. NamedOnce(DOMAIN workers', SwapRemove(frozen, k), next_worker_id)
    BY <1>1, <1>2, <2>1, ResumeNamed
  <2> QED BY <1>1, <2>2
<1>12. frozen' \in Seq(Frozen)
  BY <1>1, <1>2, SwapRemoved
<1>13. HeldTyped' /\ Named'
  BY <1>1, <1>2, <1>10, <1>11, <1>12 DEF HeldTyped, Named
<1> QED BY <1>1, <1>5, <1>8, <1>9, <1>13 DEF PoolInv, PoolTyped

LEMMA ResumeFrozenKeeps ==
    ASSUME PoolInv, ResumeFrozen
    PROVE  PoolInv'
<1>1. PICK k \in Resumable :
        LET fw == frozen[k]
            r  == fw.replacement
        IN /\ frozen' = SwapRemove(frozen, k)
           /\ workers' = With(Without(workers, r), fw.worker, <<fw.parent>>)
           /\ IF r \in DOMAIN workers
              THEN /\ co' = ReturnReplacement(co, workers[r])
                   /\ proc' = [proc EXCEPT ![r] = Dead, ![fw.worker] = Continued(@)]
                   /\ Emit(r, "disconnected", 0) \/ UNCHANGED out
              ELSE /\ proc' = [proc EXCEPT ![fw.worker] = Continued(@)]
                   /\ UNCHANGED <<co, out>>
  BY DEF ResumeFrozen, Discarded
<1> DEFINE r == frozen[k].replacement
           w == frozen[k].worker
<1>2. Resumes(k)
  BY <1>1 DEF Resumes, ResumeFrozen, Resumable
<1>3. r \in WorkerId /\ w \in WorkerId /\ w \notin DOMAIN workers
  <2>1. k \in DOMAIN frozen /\ frozen \in Seq(Frozen)
        /\ NamedOnce(DOMAIN workers, frozen, next_worker_id)
    BY DEF PoolInv, PoolTyped, HeldTyped, Resumable, Named
  <2>2. frozen[k] \in Frozen
    BY <2>1, ElementOfSeq
  <2> QED BY <2>1, <2>2 DEF Frozen, NamedOnce
<1>4. ToldTyped /\ Working(proc)
  BY DEF PoolInv, PoolTyped, WorkTyped
<1>5. ToldTyped'
  <2>1. [kind |-> "disconnected", arg |-> 0] \in Message
    BY DEF Message
  <2>2. CASE Emit(r, "disconnected", 0)
    BY <1>3, <1>4, <2>1, <2>2, EmitTyped
  <2>3. CASE UNCHANGED out
    BY <1>4, <2>3 DEF ToldTyped
  <2> QED BY <1>1, <2>2, <2>3
<1> DEFINE q == Continued(proc[w])
           f == [proc EXCEPT ![r] = Dead]
<1>6. q \in Process /\ Sane(q)
  <2>1. proc[w] \in Process /\ Sane(proc[w]) /\ TRUE \in BOOLEAN
    BY <1>3, <1>4 DEF Working
  <2> QED BY <2>1, FlagsKeep
<1>7. proc' = [f EXCEPT ![w] = q] \/ proc' = [proc EXCEPT ![w] = q]
  <2>1. CASE r \in DOMAIN workers
    <3>1. w # r
      BY <1>3, <2>1
    <3>2. proc' = [proc EXCEPT ![r] = Dead, ![w] = Continued(@)]
      BY <1>1, <2>1
    <3>3. proc' = [f EXCEPT ![w] = q]
      BY <1>3, <1>4, <3>1, <3>2 DEF Working
    <3> QED BY <3>3
  <2>2. CASE r \notin DOMAIN workers
    BY <1>1, <1>4, <2>2
  <2> QED BY <2>1, <2>2
<1> HIDE DEF q
<1>8. Working(f)
  BY <1>3, <1>4, NewProcess, WorkChanges
<1> HIDE DEF f, w
<1>9. Working([f EXCEPT ![w] = q]) /\ Working([proc EXCEPT ![w] = q])
  BY <1>3, <1>4, <1>6, <1>8, WorkChanges
<1>10. WorkTyped'
  BY <1>7, <1>9 DEF WorkTyped
<1> QED BY <1>2, <1>5, <1>10, ResumeKeeps

LEMMA PullsSome == \A k \in PullSizes : k \in 1 .. Len(co.ready) /\ k \in 0 .. Len(co.ready) /\ k >= 1
BY DEF PullSizes

LEMMA AssignBatchKeeps ==
    ASSUME PoolInv, NEW w \in WorkerId, AssignBatch(w)
    PROVE  PoolInv'
<1>1. /\ w \in DOMAIN workers /\ workers[w] = << >>
      /\ UNCHANGED <<frozen, next_worker_id, out>>
  BY DEF AssignBatch, Idle
<1>0. PICK k \in PullSizes : \E s :
        /\ s = SubSeq(co.ready, 1, k)
        /\ co' = Lease(co, k) /\ workers' = Put(workers, w, s)
        /\ proc' = IF Alive(w) THEN [proc EXCEPT ![w].inbox = Append(@, s)] ELSE proc
  BY DEF AssignBatch, Put
<1>2. PICK s :
        /\ s = SubSeq(co.ready, 1, k)
        /\ co' = Lease(co, k) /\ workers' = Put(workers, w, s)
        /\ proc' = IF Alive(w) THEN [proc EXCEPT ![w].inbox = Append(@, s)] ELSE proc
  BY <1>0
<1>3. /\ Good(co) /\ Leases(co, workers) /\ Blocked(co, workers, frozen)
      /\ Mapped(workers) /\ Working(proc) /\ Sound(co)
  BY DEF PoolInv, PoolTyped, HeldTyped, WorkTyped, Good
<1>4. k \in 0 .. Len(co.ready) /\ k >= 1
  BY PullsSome
<1>5. s \in Seq(ItemId) /\ Distinct(s) /\ Leasing(co, co', Range(s))
  BY <1>2, <1>3, <1>4, LeaseFields
<1>6. s # << >>
  <2>1. co.ready \in Seq(ItemId)
    BY <1>3 DEF Sound, Typed, Coordinators
  <2>2. Len(s) = k
    BY <1>2, <1>4, <2>1
  <2> QED BY <1>4, <2>2
<1>7. Good(co')
  BY <1>3, <1>5, LeaseKeeps, LeaseInBudget, SameCounts DEF Good, Leasing, SameResults
<1>8. Leases(co', workers')
  BY <1>1, <1>2, <1>3, <1>5, FillLeases
<1>9. Keeps(co, co', {}) /\ Range(s) \cap Parked(co) = {}
  <2>1. co'.groups = co.groups /\ Parked(co') = Parked(co) /\ Range(s) \subseteq Range(co.ready)
    BY <1>5 DEF Leasing
  <2> QED BY <2>1 DEF Keeps, IsGroupComplete, Parked, Queued
<1>10. Blocked(co', workers', frozen)
  <2>1. \A v \in DOMAIN workers' : workers'[v] \in {s, workers[v]}
                                   /\ (v # w => v \in DOMAIN workers /\ workers'[v] = workers[v])
    BY <1>2 DEF Put
  <2>2. \A v \in DOMAIN workers' : \A x \in Range(workers'[v]) :
          x \notin Parked(co) \/ \E u \in DOMAIN workers : x \in Range(workers[u])
    BY <1>1, <1>9, <2>1
  <2>3. \A x \in {} : \E v \in DOMAIN workers : x \in Range(workers[v])
    OBVIOUS
  <2> QED BY <1>3, <1>9, <2>2, <2>3, StayBlocked
<1>11. Mapped(workers') /\ DOMAIN workers' = DOMAIN workers
  <2>1. Mapped(workers) /\ w \in DOMAIN workers /\ s \in Seq(ItemId)
    BY <1>1, <1>3, <1>5
  <2>2. Mapped(Put(workers, w, s)) /\ DOMAIN Put(workers, w, s) = DOMAIN workers
    BY <2>1 DEF Put, Mapped
  <2> QED BY <1>2, <2>2
<1>12. WorkTyped'
  <2>1. CASE Alive(w)
    <3> DEFINE q == [proc[w] EXCEPT !.inbox = Append(@, s)]
    <3>1. proc[w] \in Process /\ Sane(proc[w])
      BY <1>3 DEF Working
    <3>2. Append(proc[w].inbox, s) \in Seq(Seq(ItemId))
          /\ \A j \in DOMAIN Append(proc[w].inbox, s) : Append(proc[w].inbox, s)[j] # << >>
      <4>1. proc[w].inbox \in Seq(Seq(ItemId)) /\ \A j \in DOMAIN proc[w].inbox : proc[w].inbox[j] # << >>
        BY <3>1 DEF Process, Sane
      <4> QED BY <1>5, <1>6, <4>1, AppendProperties
    <3>3. q \in Process /\ Sane(q)
      BY <3>1, <3>2 DEF Process, Sane
    <3>4. proc' = [proc EXCEPT ![w] = q]
      BY <1>2, <2>1
    <3> HIDE DEF q
    <3> QED BY <1>3, <3>3, <3>4, WorkChanges DEF WorkTyped
  <2>2. CASE ~Alive(w)
    BY <1>2, <1>3, <2>2 DEF WorkTyped
  <2> QED BY <2>1, <2>2
<1>13. HeldTyped' /\ ToldTyped' /\ Named'
  BY <1>1, <1>11 DEF PoolInv, PoolTyped, HeldTyped, ToldTyped, Named
<1> QED BY <1>7, <1>8, <1>10, <1>12, <1>13, <1>1 DEF PoolInv, PoolTyped

LEMMA AssignToDeadKeeps ==
    ASSUME PoolInv, NEW w \in WorkerId, AssignToDead(w)
    PROVE  PoolInv'
<1>1. /\ w \in DOMAIN workers /\ workers[w] = << >> /\ workers' = Without(workers, w)
      /\ UNCHANGED <<co, frozen, next_worker_id, proc, out>>
  BY DEF AssignToDead, Idle
<1>2. Leases(co, workers') /\ Blocked(co, workers', frozen)
  BY <1>1, DropIdle DEF PoolInv
<1>3. Mapped(workers') /\ DOMAIN workers' = DOMAIN workers \ {w}
  <2>1. workers[w] \in Seq(ItemId)
    BY <1>1, WorkerHolds
  <2> QED BY <1>1, <2>1, MapChanges DEF PoolInv, PoolTyped, HeldTyped
<1> QED BY <1>1, <1>2, <1>3
    DEF PoolInv, PoolTyped, HeldTyped, ToldTyped, WorkTyped, Named, NamedOnce

LEMMA SpawnWorkerKeeps ==
    ASSUME PoolInv, SpawnWorker
    PROVE  PoolInv'
<1> DEFINE n == next_worker_id
<1>1. /\ n \in WorkerId /\ next_worker_id' = n + 1
      /\ UNCHANGED <<co, frozen, out>>
      /\ \/ /\ workers' = With(workers, n, << >>)
            /\ proc' = [proc EXCEPT ![n].state = "idle"]
         \/ UNCHANGED <<workers, proc>>
  BY DEF SpawnWorker
<1>2. /\ Good(co) /\ Leases(co, workers) /\ Blocked(co, workers, frozen)
      /\ Mapped(workers) /\ frozen \in Seq(Frozen)
      /\ NamedOnce(DOMAIN workers, frozen, n) /\ Working(proc)
  BY DEF PoolInv, PoolTyped, HeldTyped, Named, WorkTyped
<1>3. n \in Nat /\ n + 1 \in 0 .. MaxWorkers /\ WorkerId \subseteq Nat
  BY <1>1, WorkerPoolAssumption DEF WorkerId
<1>4. n \notin DOMAIN workers
  BY <1>2, <1>3 DEF NamedOnce
<1>5. /\ Leases(co, workers') /\ Blocked(co, workers', frozen) /\ Mapped(workers')
      /\ DOMAIN workers' \subseteq DOMAIN workers \cup {n}
  <2>1. CASE workers' = With(workers, n, << >>)
    <3>1. Leases(co, With(workers, n, << >>))
      BY <1>2, <1>4, JoinLeases
    <3>2. Blocked(co, With(workers, n, << >>), frozen)
      BY <1>2, <1>4, JoinBlocked
    <3>3. /\ Mapped(With(workers, n, << >>))
          /\ DOMAIN With(workers, n, << >>) = DOMAIN workers \cup {n}
      BY <1>1, <1>2, JoinMapped
    <3> QED BY <2>1, <3>1, <3>2, <3>3
  <2>2. CASE workers' = workers
    BY <1>2, <2>2
  <2> QED BY <1>1, <2>1, <2>2
<1>6. NamedOnce(DOMAIN workers', frozen, n + 1)
  <2>1. \A v \in DOMAIN workers : v \in Nat /\ v < n
    BY <1>2, <1>3 DEF NamedOnce, Mapped
  <2>2. \A v \in DOMAIN workers' : v < n + 1
    BY <1>3, <1>5, <2>1
  <2>3. \A k \in DOMAIN frozen : /\ frozen[k].worker \in Nat /\ frozen[k].worker < n
                                 /\ frozen[k].worker \notin DOMAIN workers
    <3>1. \A k \in DOMAIN frozen : frozen[k] \in Frozen
      BY <1>2, ElementOfSeq
    <3> QED BY <1>2, <1>3, <3>1 DEF NamedOnce, Frozen
  <2>4. \A k \in DOMAIN frozen : frozen[k].worker < n + 1 /\ frozen[k].worker \notin DOMAIN workers'
    BY <1>3, <1>5, <2>3
  <2>5. \A j, k \in DOMAIN frozen : frozen[j].worker = frozen[k].worker => j = k
    BY <1>2 DEF NamedOnce
  <2> QED BY <2>2, <2>4, <2>5 DEF NamedOnce
<1>7. WorkTyped'
  <2>1. CASE proc' = [proc EXCEPT ![n].state = "idle"]
    <3> DEFINE q == [proc[n] EXCEPT !.state = "idle"]
    <3>1. proc' = [proc EXCEPT ![n] = q]
      BY <2>1
    <3>2. q \in Process /\ Sane(q)
      <4>1. proc[n] \in Process /\ Sane(proc[n]) /\ TRUE \in BOOLEAN
        BY <1>1, <1>2 DEF Working
      <4> QED BY <4>1, FlagsKeep
    <3> HIDE DEF q
    <3> QED BY <1>1, <1>2, <3>1, <3>2, WorkChanges DEF WorkTyped
  <2>2. CASE proc' = proc
    BY <1>2, <2>2 DEF WorkTyped
  <2> QED BY <1>1, <2>1, <2>2
<1>8. HeldTyped' /\ ToldTyped' /\ Named'
  BY <1>1, <1>2, <1>3, <1>5, <1>6 DEF PoolInv, PoolTyped, HeldTyped, ToldTyped, Named
<1> QED BY <1>1, <1>2, <1>5, <1>7, <1>8 DEF PoolInv, PoolTyped

\* Nothing the books say changes when the loop moves on or ends.
LEMMA LoopMoves ==
    ASSUME PoolInv, NothingToResume \/ Assigned \/ EndPhase \/ Cancel \/ Shutdown \/ Down
    PROVE  PoolInv'
<1>1. UNCHANGED <<co, workers, frozen, next_worker_id, out>>
  BY DEF NothingToResume, Assigned, EndPhase, Cancel, Shutdown, Down, poolVars
<1>2. ToldTyped' /\ Working(proc)
  BY <1>1 DEF PoolInv, PoolTyped, ToldTyped, WorkTyped
<1>3. proc' = proc
      \/ proc' = [w \in WorkerId |-> IF w \in DOMAIN workers \cup FrozenWorkers
                                     THEN Dead ELSE proc[w]]
  BY DEF NothingToResume, Assigned, EndPhase, Cancel, Shutdown, Down, poolVars
<1>4. WorkTyped'
  BY <1>2, <1>3, NewProcess DEF WorkTyped, Working
<1> QED BY <1>1, <1>2, <1>4, LoopIdle

LEMMA PoolKeeps == PoolInv /\ [PoolNext]_poolVars => PoolInv'
<1> SUFFICES ASSUME PoolInv, [PoolNext]_poolVars PROVE PoolInv'
  OBVIOUS
<1>1. CASE LoopStep
  BY <1>1, ResumeFrozenKeeps, AssignBatchKeeps, AssignToDeadKeeps, SpawnWorkerKeeps, LoopMoves
  DEF LoopStep
<1>2. CASE Cancel \/ Down
  BY <1>2, LoopMoves
<1>3. CASE \E w \in WorkerId : ProcStep(w) \/ Crash(w)
  BY <1>3, ProcessesKeep
<1>4. CASE \E w \in WorkerId : Handle(w)
  BY <1>4, StepCompletedKeeps, StepErrorKeeps, SubmitKeeps, DisconnectedKeeps DEF Handle
<1>5. CASE \E i \in PhaseItem : RetryReady(i)
  BY <1>5, RetryReadyKeeps
<1>6. CASE UNCHANGED poolVars
  BY <1>6, LoopIdle DEF poolVars, PoolInv, PoolTyped, ToldTyped, WorkTyped
<1> QED BY <1>1, <1>2, <1>3, <1>4, <1>5, <1>6 DEF PoolNext

LEMMA InitPool == PoolInit => PoolInv
<1> SUFFICES ASSUME PoolInit PROVE PoolInv
  OBVIOUS
<1>1. /\ Init /\ workers = << >> /\ frozen = << >> /\ next_worker_id = 0
      /\ proc = [w \in WorkerId |-> NoProc] /\ out = [w \in WorkerId |-> << >>]
  BY DEF PoolInit
<1>2. Sound(co) /\ Budgeted(co) /\ co.groups = << >> /\ co.executing = {}
  <2>1. CoreInv /\ BudgetInv
    BY <1>1, InitCore, InitBudget
  <2>2. co.groups = << >> /\ co.executing = {}
    BY <1>1 DEF Init, LoadPhase
  <2> QED BY <2>1, <2>2 DEF CoreInv, BudgetInv
<1>3. DOMAIN workers = {} /\ DOMAIN frozen = {} /\ DOMAIN co.groups = {}
  BY <1>1, <1>2
<1>4. HeldTyped
  BY <1>1, <1>3, WorkerPoolAssumption DEF HeldTyped, Mapped
<1>5. ToldTyped
  BY <1>1 DEF ToldTyped
<1>6. WorkTyped
  BY <1>1, NewProcess DEF WorkTyped, Working
<1>7. Named /\ Counted(co) /\ Leases(co, workers) /\ Blocked(co, workers, frozen)
  BY <1>2, <1>3 DEF Named, NamedOnce, Counted, Leases, Blocked
<1> QED BY <1>2, <1>4, <1>5, <1>6, <1>7 DEF PoolInv, PoolTyped, Good

LEMMA PoolAlways == PoolSpec => []PoolInv
BY InitPool, PoolKeeps, PTL DEF PoolSpec

-----------------------------------------------------------------------------
(***************************************************************************)
(* What holds of every phase the loop drives.                              *)
(***************************************************************************)
\* The coordinator's guarantees hold under the loop, whose calls are all calls
\* the coordinator's contract allows: the inductive invariant of the
\* coordinator alone is one of the pool too (io_loop.rs calls coordinator.rs
\* only with items that are leased).
THEOREM PoolKeepsCoordinator == PoolSpec => []CoreInv
<1>1. PoolInv => CoreInv
  BY DEF PoolInv, Good, CoreInv
<1> QED BY <1>1, PoolAlways, PTL

\* So no step is dispatched beyond its retry budget, whatever workers fail, die
\* or are replaced (requeue_unstarted gives the attempt back).
THEOREM PoolBudget == PoolSpec => []AttemptsWithinBudget
<1>1. PoolInv => CoreInv /\ BudgetInv
  BY DEF PoolInv, Good, CoreInv, BudgetInv
<1> QED BY <1>1, BudgetImplies, PoolAlways, PTL

\* The loop's leases and the coordinator's `executing` are the same books
\* (take_lease, return_leases, assign_ready, resume_frozen).
THEOREM LeasesMatch == PoolSpec => []LeasesMatchExecuting
<1>1. PoolInv => LeasesMatchExecuting
  <2> SUFFICES ASSUME PoolInv PROVE LeasesMatchExecuting
    OBVIOUS
  <2>1. Leases(co, workers)
    BY DEF PoolInv
  <2>2. \A i \in co.executing : \E w \in DOMAIN workers :
          i \in Leased(w) /\ \A v \in DOMAIN workers \ {w} : i \notin Leased(v)
    BY <2>1 DEF Leases, Leased
  <2>3. \A w \in DOMAIN workers :
          Leased(w) \subseteq co.executing \/ \E i \in Resumed(co) : workers[w] = <<i>>
    BY <2>1 DEF Leases, Leased
  <2> QED BY <2>2, <2>3 DEF LeasesMatchExecuting
<1> QED BY <1>1, PoolAlways, PTL

-----------------------------------------------------------------------------
(***************************************************************************)
(* No orphans.  That every live process is tracked is inductive with two   *)
(* more facts: ids that were not handed out have no process, and the end   *)
(* of a stream is only ever reported of a process that is gone.            *)
(***************************************************************************)
Said(o) == { o[j].kind : j \in DOMAIN o }

TrackInv ==
    /\ \A w \in WorkerId : w >= next_worker_id => proc[w] = NoProc /\ out[w] = << >>
    /\ \A w \in WorkerId : "disconnected" \in Said(out[w]) => ~Alive(w)
    /\ EveryProcessTracked

LEMMA EmitSays ==
    ASSUME ToldTyped, NEW w \in WorkerId, NEW kind, NEW arg, Emit(w, kind, arg)
    PROVE  /\ \A v \in WorkerId \ {w} : out'[v] = out[v]
           /\ Said(out'[w]) = Said(out[w]) \cup {kind}
<1> DEFINE m == [kind |-> kind, arg |-> arg]
           o == Append(out[w], m)
<1>1. out \in [WorkerId -> Seq(Message)] /\ out' = [out EXCEPT ![w] = o] /\ m.kind = kind
  BY DEF ToldTyped, Emit
<1> HIDE DEF m
<1>2. /\ DOMAIN o = DOMAIN out[w] \cup {Len(out[w]) + 1}
      /\ \A j \in DOMAIN out[w] : o[j] = out[w][j]
      /\ o[Len(out[w]) + 1] = m
  <2>1. out[w] \in Seq(Message \cup {m}) /\ m \in Message \cup {m}
    BY <1>1
  <2> QED BY <2>1, AppendProperties
<1> HIDE DEF o
<1>3. out'[w] = o /\ \A v \in WorkerId \ {w} : out'[v] = out[v]
  BY <1>1
<1>4. Said(o) = Said(out[w]) \cup {kind}
  BY <1>1, <1>2 DEF Said
<1> QED BY <1>3, <1>4

LEMMA ReceiveSays ==
    ASSUME ToldTyped, NEW w \in WorkerId, NEW kind, Received(w, kind)
    PROVE  /\ \A v \in WorkerId \ {w} : out'[v] = out[v]
           /\ Said(out'[w]) \subseteq Said(out[w])
           /\ kind \in Said(out[w]) /\ out[w] # << >>
<1>1. /\ out \in [WorkerId -> Seq(Message)] /\ out[w] # << >> /\ Head(out[w]).kind = kind
      /\ out' = [out EXCEPT ![w] = Tail(out[w])] /\ out[w] \in Seq(Message)
  BY DEF ToldTyped, Received
<1>2. /\ Head(out[w]) = out[w][1] /\ 1 \in DOMAIN out[w]
      /\ \A j \in DOMAIN Tail(out[w]) : j + 1 \in DOMAIN out[w] /\ Tail(out[w])[j] = out[w][j + 1]
  BY <1>1, FirstAndRest
<1>3. Said(Tail(out[w])) \subseteq Said(out[w]) /\ kind \in Said(out[w])
  BY <1>1, <1>2 DEF Said
<1>4. out'[w] = Tail(out[w]) /\ \A v \in WorkerId \ {w} : out'[v] = out[v]
  BY <1>1
<1> QED BY <1>1, <1>3, <1>4

\* What a step must do with worker v.
Tracks(v) ==
    /\ v >= next_worker_id' => v >= next_worker_id /\ proc'[v] = proc[v] /\ out'[v] = out[v]
    /\ "disconnected" \in Said(out'[v]) /\ Alive(v)' => "disconnected" \in Said(out[v])
    /\ Alive(v)' => Alive(v) \/ v >= next_worker_id
    /\ Alive(v)' /\ ~proc'[v].killed => pc' # "down" /\ v \in DOMAIN workers' \cup FrozenWorkers'

LEMMA TracksKeep ==
    ASSUME TrackInv, \A v \in WorkerId : Tracks(v)
    PROVE  TrackInv'
<1>1. \A v \in WorkerId : v >= next_worker_id' => proc'[v] = NoProc /\ out'[v] = << >>
  BY DEF TrackInv, Tracks
<1>2. \A v \in WorkerId : "disconnected" \in Said(out'[v]) => ~Alive(v)'
  <2> SUFFICES ASSUME NEW v \in WorkerId, "disconnected" \in Said(out'[v]), Alive(v)'
               PROVE  FALSE
    OBVIOUS
  <2>1. "disconnected" \in Said(out[v]) /\ (Alive(v) \/ v >= next_worker_id)
    BY DEF Tracks
  <2>2. ~Alive(v)
    BY <2>1 DEF TrackInv
  <2>3. out[v] = << >>
    BY <2>1, <2>2 DEF TrackInv
  <2> QED BY <2>1, <2>3 DEF Said
<1>3. \A v \in WorkerId : Alive(v)' /\ ~proc'[v].killed =>
        pc' # "down" /\ v \in DOMAIN workers' \cup FrozenWorkers'
  BY DEF Tracks
<1>4. EveryProcessTracked'
  BY <1>3 DEF EveryProcessTracked
<1> QED BY <1>1, <1>2, <1>4 DEF TrackInv

\* A worker the step does not touch, and that stays where it is.
LEMMA Untouched ==
    ASSUME TrackInv, NEW v \in WorkerId, proc'[v] = proc[v],
           Said(out'[v]) \subseteq Said(out[v]),
           v >= next_worker_id' => v >= next_worker_id /\ out'[v] = out[v],
           v \in DOMAIN workers \cup FrozenWorkers => v \in DOMAIN workers' \cup FrozenWorkers',
           pc' # "down" \/ pc' = pc
    PROVE  Tracks(v)
<1>1. Alive(v)' <=> Alive(v)
  BY DEF Alive
<1> QED BY <1>1 DEF Tracks, TrackInv, EveryProcessTracked

\* The worker of a message, a process or a call has been handed out.
LEMMA HandedOut ==
    ASSUME PoolInv, TrackInv, NEW w \in WorkerId,
           Alive(w) \/ w \in DOMAIN workers \cup FrozenWorkers \/ out[w] # << >>
    PROVE  ~(w >= next_worker_id) /\ next_worker_id \in Nat /\ w \in Nat
<1>1. next_worker_id \in Nat /\ WorkerId \subseteq Nat
  BY WorkerPoolAssumption DEF PoolInv, PoolTyped, HeldTyped, WorkerId
<1>2. Alive(w) \/ out[w] # << >> => ~(w >= next_worker_id)
  BY DEF TrackInv, Alive, NoProc
<1>3. w \in DOMAIN workers \cup FrozenWorkers => w < next_worker_id
  BY DEF PoolInv, Named, NamedOnce, FrozenWorkers
<1> QED BY <1>1, <1>2, <1>3

LEMMA ProcessesTracked ==
    ASSUME PoolInv, TrackInv, NEW w \in WorkerId, ProcStep(w) \/ Crash(w)
    PROVE  TrackInv'
<1> DEFINE p == proc[w]
<1>1. ToldTyped /\ Working(proc) /\ p \in Process /\ Sane(p) /\ WorkTyped
  BY DEF PoolInv, PoolTyped, WorkTyped, Working
<1>2. Alive(w) /\ UNCHANGED loopVars
  BY DEF ProcStep, StartStep, FinishStep, ErrStep, SubmitCall, ReceiveAnswer, Reap, Crash, Moving
<1>3. ~(w >= next_worker_id) /\ UNCHANGED <<pc, workers, frozen, next_worker_id>>
  BY <1>2, HandedOut DEF loopVars
<1>4. \A v \in WorkerId \ {w} : proc'[v] = proc[v]
  <2>1. \E q : proc' = [proc EXCEPT ![w] = q]
    BY <1>1, ProcessSteps DEF ProcStep
  <2> QED BY <1>1, <2>1 DEF Working
<1>5. /\ \A v \in WorkerId \ {w} : out'[v] = out[v]
      /\ Said(out'[w]) \subseteq Said(out[w]) \cup {"completed", "error", "submit", "disconnected"}
  <2>1. UNCHANGED out \/ \E kind \in {"completed", "error", "submit", "disconnected"} :
                               \E arg : Emit(w, kind, arg)
    BY DEF ProcStep, StartStep, FinishStep, ErrStep, SubmitCall, ReceiveAnswer, Reap, Crash
  <2>2. CASE UNCHANGED out
    BY <2>2
  <2>3. ASSUME NEW kind \in {"completed", "error", "submit", "disconnected"}, NEW arg,
               Emit(w, kind, arg)
        PROVE  /\ \A v \in WorkerId \ {w} : out'[v] = out[v]
               /\ Said(out'[w]) = Said(out[w]) \cup {kind}
    BY <1>1, <2>3, EmitSays
  <2> QED BY <2>1, <2>2, <2>3
<1>6. Alive(w)' => /\ p.killed = proc'[w].killed /\ ~p.killed
                   /\ Said(out'[w]) \subseteq Said(out[w]) \cup {"completed", "error", "submit"}
  <2>1. CASE Crash(w) \/ Reap(w)
    <3>1. proc'[w] = Dead
      BY <1>1, <2>1, ProcessSteps DEF Working
    <3> QED BY <3>1 DEF Alive, Dead, NoProc
  <2>2. CASE StartStep(w) \/ FinishStep(w) \/ ErrStep(w) \/ SubmitCall(w) \/ ReceiveAnswer(w)
    <3>1. ~p.killed
      BY <2>2 DEF StartStep, FinishStep, ErrStep, SubmitCall, ReceiveAnswer, Moving
    <3>2. UNCHANGED out \/ \E kind \in {"completed", "error", "submit"} :
                                \E arg : Emit(w, kind, arg)
      BY <2>2 DEF StartStep, FinishStep, ErrStep, SubmitCall, ReceiveAnswer
    <3>3. Said(out'[w]) \subseteq Said(out[w]) \cup {"completed", "error", "submit"}
      <4>1. CASE UNCHANGED out
        BY <4>1
      <4>2. ASSUME NEW kind \in {"completed", "error", "submit"}, NEW arg, Emit(w, kind, arg)
            PROVE  Said(out'[w]) = Said(out[w]) \cup {kind}
        BY <1>1, <4>2, EmitSays
      <4> QED BY <3>2, <4>1, <4>2
    <3>4. proc'[w] \in {Begun(p), Finished(p), Failed(p), Calling(p), GoingOn(p)}
      BY <1>1, <2>2, ProcessSteps DEF Working
    <3>5. proc'[w].killed = p.killed
      <4>1. /\ Begun(p).killed = p.killed /\ Finished(p).killed = p.killed
            /\ Failed(p).killed = p.killed /\ Calling(p).killed = p.killed
            /\ GoingOn(p).killed = p.killed
        BY <1>1 DEF Begun, Finished, Failed, Calling, GoingOn, Process
      <4> QED BY <3>4, <4>1
    <3> QED BY <3>1, <3>3, <3>5
  <2> QED BY <2>1, <2>2 DEF ProcStep
<1>7. FrozenWorkers' = FrozenWorkers
  BY <1>3 DEF FrozenWorkers
<1>8. \A v \in WorkerId \ {w} : Tracks(v)
  BY <1>3, <1>4, <1>5, <1>7, Untouched
<1>9. Tracks(w)
  <2>1. "disconnected" \notin Said(out[w])
    BY <1>2 DEF TrackInv
  <2>2. ~p.killed => pc # "down" /\ w \in DOMAIN workers \cup FrozenWorkers
    BY <1>2 DEF TrackInv, EveryProcessTracked
  <2> QED BY <1>2, <1>3, <1>6, <1>7, <2>1, <2>2 DEF Tracks
<1> QED BY <1>8, <1>9, TracksKeep

LEMMA StepEndTracked ==
    ASSUME PoolInv, TrackInv, NEW w \in WorkerId,
           StepCompleted(w) \/ StepError(w) \/ Disconnected(w)
    PROVE  TrackInv'
<1>1. PICK kind \in {"completed", "error", "disconnected"} : Received(w, kind)
  BY DEF StepCompleted, StepError, Disconnected
<1>2. ToldTyped /\ Working(proc) /\ Mapped(workers)
  BY DEF PoolInv, PoolTyped, HeldTyped, WorkTyped
<1>3. /\ \A v \in WorkerId \ {w} : out'[v] = out[v]
      /\ Said(out'[w]) \subseteq Said(out[w]) /\ kind \in Said(out[w]) /\ out[w] # << >>
  BY <1>1, <1>2, ReceiveSays
<1>4. ~(w >= next_worker_id) /\ UNCHANGED <<frozen, next_worker_id>> /\ FrozenWorkers' = FrozenWorkers
  BY <1>3, HandedOut DEF StepCompleted, StepError, Disconnected, FrozenWorkers
<1>5. pc' # "down"
  BY DEF StepCompleted, StepError, Disconnected, Received, Selecting
<1>6. \A v \in WorkerId \ {w} : proc'[v] = proc[v] /\ (v \in DOMAIN workers => v \in DOMAIN workers')
  BY <1>2 DEF StepCompleted, StepError, Disconnected, Without, Working
<1>7. \A v \in WorkerId \ {w} : Tracks(v)
  BY <1>3, <1>4, <1>5, <1>6, Untouched
<1>8. Tracks(w)
  <2>1. CASE proc'[w] = proc[w] /\ (w \in DOMAIN workers => w \in DOMAIN workers')
    BY <1>3, <1>4, <1>5, <2>1, Untouched
  <2>2. CASE StepError(w) /\ HasLease(w, Head(out[w]).arg)
    <3>1. proc' = [proc EXCEPT ![w].killed = Alive(w)]
      BY <2>2 DEF StepError
    <3>2. proc'[w].killed = Alive(w) /\ proc'[w].state = proc[w].state
      BY <1>2, <3>1 DEF Working, Process
    <3>3. Alive(w)' = Alive(w)
      BY <3>2 DEF Alive
    <3> QED BY <1>3, <1>4, <3>2, <3>3 DEF Tracks
  <2>3. CASE Disconnected(w)
    <3>1. "disconnected" \in Said(out[w])
      BY <1>2, <2>3, ReceiveSays DEF Disconnected
    <3>2. ~Alive(w)
      BY <3>1 DEF TrackInv
    <3>3. proc' = proc
      BY <2>3 DEF Disconnected
    <3> QED BY <1>3, <1>4, <3>2, <3>3 DEF Tracks, Alive
  <2> QED BY <2>1, <2>2, <2>3 DEF StepCompleted, StepError
<1> QED BY <1>7, <1>8, TracksKeep

LEMMA SubmitTracked ==
    ASSUME PoolInv, TrackInv, NEW w \in WorkerId, Submit(w)
    PROVE  TrackInv'
<1>1. ToldTyped /\ Working(proc) /\ Mapped(workers) /\ frozen \in Seq(Frozen)
  BY DEF PoolInv, PoolTyped, HeldTyped, WorkTyped
<1>2. /\ \A v \in WorkerId \ {w} : out'[v] = out[v]
      /\ Said(out'[w]) \subseteq Said(out[w]) /\ out[w] # << >>
  BY <1>1, ReceiveSays DEF Submit
<1>3. ~(w >= next_worker_id) /\ next_worker_id \in Nat /\ w \in Nat
  BY <1>2, HandedOut
<1>4. pc' # "down"
  BY DEF Submit, Received, Selecting
<1>5. CASE w \in DOMAIN workers /\ workers[w] # << >>
  <2>0. PICK r : r = next_worker_id
    OBVIOUS
  <2>1. /\ Freezes(w, Head(out[w]).arg, r) /\ r \in WorkerId /\ r # w
        /\ next_worker_id' = r + 1
    BY <1>3, <1>5, <2>0, SubmitFreezes DEF Freezes
  <2>2. \/ /\ workers' = With(Without(workers, w), r, << >>)
           /\ proc' = [proc EXCEPT ![w] = Halted(w, Tail(workers[w])), ![r].state = "idle"]
        \/ /\ workers' = Without(workers, w)
           /\ proc' = [proc EXCEPT ![w] = Halted(w, Tail(workers[w]))]
    BY <1>5, <2>0 DEF Submit
  <2>3. FrozenWorkers' = FrozenWorkers \cup {w}
    <3>1. PICK e \in Frozen : e.worker = w /\ frozen' = Append(frozen, e)
      BY <2>1 DEF Freezes
    <3>2. /\ DOMAIN frozen' = DOMAIN frozen \cup {Len(frozen) + 1}
          /\ \A k \in DOMAIN frozen : frozen'[k] = frozen[k]
          /\ frozen'[Len(frozen) + 1] = e
      BY <1>1, <3>1, AppendProperties
    <3> QED BY <3>1, <3>2 DEF FrozenWorkers
  <2>4. proc'[w].state = proc[w].state /\ proc'[w].killed = proc[w].killed
    <3>1. proc'[w] = Halted(w, Tail(workers[w]))
      BY <1>1, <2>1, <2>2 DEF Working
    <3> QED BY <1>1, <3>1 DEF Working, Process, Halted
  <2>5. \A v \in WorkerId \ {w, r} : proc'[v] = proc[v] /\ (v \in DOMAIN workers => v \in DOMAIN workers')
    BY <1>1, <2>1, <2>2 DEF Without, With, Working
  <2>6. proc'[r] = proc[r] \/ r \in DOMAIN workers'
    BY <1>1, <2>1, <2>2 DEF With, Working
  <2>7. \A v \in WorkerId : v >= r + 1 => v >= r /\ v # w /\ v # r
    BY <1>3, <2>0, WorkerPoolAssumption DEF WorkerId
  <2>8. proc[r] = NoProc /\ out'[r] = << >>
    BY <1>2, <1>3, <2>0, <2>1 DEF TrackInv
  <2>9. ASSUME NEW v \in WorkerId \ {w, r}
        PROVE  Tracks(v)
    <3>1. proc'[v] = proc[v] /\ out'[v] = out[v]
      BY <1>2, <2>5
    <3>2. v \in DOMAIN workers \cup FrozenWorkers => v \in DOMAIN workers' \cup FrozenWorkers'
      BY <2>3, <2>5
    <3>3. v >= next_worker_id' => v >= next_worker_id
      BY <2>0, <2>1, <2>7
    <3> QED BY <1>4, <3>1, <3>2, <3>3, Untouched
  <2>10. Tracks(w)
    <3>1. Alive(w)' = Alive(w)
      BY <2>4 DEF Alive
    <3> QED BY <1>2, <1>4, <2>0, <2>1, <2>3, <2>7, <3>1 DEF Tracks
  <2>11. Tracks(r)
    <3>1. "disconnected" \notin Said(out'[r])
      BY <2>8 DEF Said
    <3>2. Alive(r)' => r \in DOMAIN workers'
      BY <2>6, <2>8 DEF Alive, NoProc
    <3>3. r >= next_worker_id
      BY <1>3, <2>0
    <3> QED BY <1>4, <2>0, <2>1, <2>7, <3>1, <3>2, <3>3 DEF Tracks
  <2> QED BY <2>9, <2>10, <2>11, TracksKeep
<1>6. CASE ~(w \in DOMAIN workers /\ workers[w] # << >>)
  <2>1. UNCHANGED <<workers, frozen, next_worker_id, proc>> /\ FrozenWorkers' = FrozenWorkers
    BY <1>6 DEF Submit, FrozenWorkers
  <2>2. \A v \in WorkerId : Said(out'[v]) \subseteq Said(out[v])
    BY <1>2
  <2>3. \A v \in WorkerId : Tracks(v)
    BY <1>2, <1>3, <1>4, <2>1, <2>2, Untouched
  <2> QED BY <2>3, TracksKeep
<1> QED BY <1>5, <1>6

LEMMA ResumeTracked ==
    ASSUME PoolInv, TrackInv, ResumeFrozen
    PROVE  TrackInv'
<1>1. PICK k \in Resumable :
        LET fw == frozen[k]
            r  == fw.replacement
        IN /\ frozen' = SwapRemove(frozen, k)
           /\ workers' = With(Without(workers, r), fw.worker, <<fw.parent>>)
           /\ IF r \in DOMAIN workers
              THEN /\ proc' = [proc EXCEPT ![r] = Dead, ![fw.worker] = Continued(@)]
                   /\ Emit(r, "disconnected", 0) \/ UNCHANGED out
              ELSE /\ proc' = [proc EXCEPT ![fw.worker] = Continued(@)]
                   /\ UNCHANGED out
  BY DEF ResumeFrozen, Discarded
<1>0. PICK r, w : r = frozen[k].replacement /\ w = frozen[k].worker
  OBVIOUS
<1>2. /\ ToldTyped /\ Working(proc) /\ Mapped(workers) /\ frozen \in Seq(Frozen)
      /\ k \in DOMAIN frozen /\ NamedOnce(DOMAIN workers, frozen, next_worker_id)
      /\ UNCHANGED <<pc, next_worker_id>> /\ pc = "resume"
  BY DEF PoolInv, PoolTyped, HeldTyped, WorkTyped, Named, Resumable, ResumeFrozen
<1>3. r \in WorkerId /\ w \in WorkerId /\ w \notin DOMAIN workers /\ w \in FrozenWorkers
  <2>1. frozen[k] \in Frozen
    BY <1>2, ElementOfSeq
  <2> QED BY <1>0, <1>2, <2>1 DEF Frozen, NamedOnce, FrozenWorkers
<1>4. \A v \in FrozenWorkers : v = w \/ v \in FrozenWorkers'
  <2>1. \A m \in DOMAIN frozen \ {k} :
          \E j \in DOMAIN SwapRemove(frozen, k) : SwapRemove(frozen, k)[j] = frozen[m]
    BY <1>2, SwapRemoved
  <2> QED BY <1>0, <1>1, <2>1 DEF FrozenWorkers
<1>5. DOMAIN workers' = (DOMAIN workers \ {r}) \cup {w}
  BY <1>0, <1>1 DEF With, Without
<1>6. /\ proc'[w].state = proc[w].state /\ proc'[w].killed = proc[w].killed
      /\ r \in DOMAIN workers => proc'[r] = Dead /\ r # w
      /\ \A v \in WorkerId \ {w} : v # r \/ r \notin DOMAIN workers => proc'[v] = proc[v]
  <2>1. r \in DOMAIN workers => r # w
    BY <1>3
  <2>2. proc[w] \in Process
    BY <1>2, <1>3 DEF Working
  <2>3. Continued(proc[w]).state = proc[w].state /\ Continued(proc[w]).killed = proc[w].killed
    BY <2>2 DEF Continued, Process
  <2>4. proc'[w] = Continued(proc[w])
    BY <1>0, <1>1, <1>2, <1>3, <2>1 DEF Working
  <2>5. \A v \in WorkerId \ {w} : v # r \/ r \notin DOMAIN workers => proc'[v] = proc[v]
    BY <1>0, <1>1, <1>2 DEF Working
  <2>6. r \in DOMAIN workers => proc'[r] = Dead
    BY <1>0, <1>1, <1>2, <1>3, <2>1 DEF Working
  <2> QED BY <2>1, <2>3, <2>4, <2>5, <2>6
<1>7. /\ \A v \in WorkerId \ {r} : out'[v] = out[v]
      /\ r \notin DOMAIN workers => out'[r] = out[r]
  BY <1>0, <1>1, <1>2, <1>3, EmitSays
<1>8. /\ ~(w >= next_worker_id)
      /\ r \in DOMAIN workers => ~(r >= next_worker_id)
  BY <1>3, HandedOut
<1>9. ASSUME NEW v \in WorkerId \ {w}, v # r \/ r \notin DOMAIN workers
      PROVE  Tracks(v)
  <2>1. proc'[v] = proc[v] /\ out'[v] = out[v]
    BY <1>6, <1>7, <1>9
  <2>2. v \in DOMAIN workers \cup FrozenWorkers => v \in DOMAIN workers' \cup FrozenWorkers'
    BY <1>4, <1>5, <1>9
  <2> QED BY <1>2, <2>1, <2>2, Untouched
<1>10. ASSUME r \in DOMAIN workers PROVE Tracks(r)
  <2>1. ~Alive(r)'
    BY <1>6, <1>10 DEF Alive, Dead, NoProc
  <2> QED BY <1>2, <1>8, <1>10, <2>1 DEF Tracks
<1>11. Tracks(w)
  <2>1. Alive(w)' = Alive(w) /\ out'[w] = out[w]
    BY <1>3, <1>6, <1>7 DEF Alive
  <2> QED BY <1>2, <1>5, <1>8, <2>1 DEF Tracks
<1>12. \A v \in WorkerId : Tracks(v)
  BY <1>9, <1>10, <1>11
<1> QED BY <1>12, TracksKeep

LEMMA LoopTracked ==
    ASSUME PoolInv, TrackInv, [PoolNext]_poolVars,
           ~\E w \in WorkerId : ProcStep(w) \/ Crash(w) \/ Handle(w),
           ~ResumeFrozen
    PROVE  TrackInv'
<1>1. Working(proc) /\ Mapped(workers) /\ UNCHANGED <<frozen, out>> /\ FrozenWorkers' = FrozenWorkers
  BY DEF PoolInv, PoolTyped, HeldTyped, WorkTyped, PoolNext, LoopStep, NothingToResume, AssignBatch,
         AssignToDead, SpawnWorker, Assigned, EndPhase, Cancel, Shutdown, Down, RetryReady, poolVars,
         FrozenWorkers
<1>2. CASE SpawnWorker
  <2>1. PICK r : r = next_worker_id
    OBVIOUS
  <2>2. /\ r \in WorkerId /\ next_worker_id' = r + 1 /\ pc = "assign" /\ pc' # "down"
        /\ \/ /\ workers' = With(workers, r, << >>)
              /\ proc' = [proc EXCEPT ![r].state = "idle"]
           \/ UNCHANGED <<workers, proc>>
    BY <1>2, <2>1 DEF SpawnWorker, Assigning
  <2>3. \A v \in WorkerId : v >= r + 1 => v >= r /\ v # r
    BY <2>2, WorkerPoolAssumption DEF WorkerId
  <2>4. \A v \in WorkerId \ {r} : proc'[v] = proc[v] /\ (v \in DOMAIN workers => v \in DOMAIN workers')
    BY <1>1, <2>2 DEF With, Working
  <2>5. proc'[r] = proc[r] \/ r \in DOMAIN workers'
    BY <1>1, <2>2 DEF With, Working
  <2>6. proc[r] = NoProc /\ out[r] = << >> /\ r >= next_worker_id
    <3>1. r \in Nat
      BY <2>2, WorkerPoolAssumption DEF WorkerId
    <3> QED BY <2>1, <2>2, <3>1 DEF TrackInv
  <2>7. ASSUME NEW v \in WorkerId \ {r} PROVE Tracks(v)
    <3>1. v >= next_worker_id' => v >= next_worker_id
      BY <2>1, <2>2, <2>3
    <3>2. v \in DOMAIN workers \cup FrozenWorkers => v \in DOMAIN workers' \cup FrozenWorkers'
      BY <1>1, <2>4
    <3> QED BY <1>1, <2>2, <2>4, <3>1, <3>2, Untouched
  <2>8. Tracks(r)
    <3>1. "disconnected" \notin Said(out'[r])
      BY <1>1, <2>6 DEF Said
    <3>2. Alive(r)' => r \in DOMAIN workers'
      BY <2>5, <2>6 DEF Alive, NoProc
    <3>3. ~(r >= next_worker_id')
      BY <2>2, <2>3
    <3> QED BY <2>2, <2>6, <3>1, <3>2, <3>3 DEF Tracks
  <2> QED BY <2>7, <2>8, TracksKeep
<1>3. CASE Shutdown
  <2>1. /\ UNCHANGED <<workers, next_worker_id>>
        /\ proc' = [w \in WorkerId |-> IF w \in DOMAIN workers \cup FrozenWorkers
                                       THEN Dead ELSE proc[w]]
    BY <1>3 DEF Shutdown
  <2>2. ASSUME NEW v \in WorkerId PROVE Tracks(v)
    <3>1. CASE v \in DOMAIN workers \cup FrozenWorkers
      <4>1. ~Alive(v)'
        BY <2>1, <3>1 DEF Alive, Dead, NoProc
      <4>2. ~(v >= next_worker_id)
        BY <3>1, HandedOut
      <4> QED BY <2>1, <4>1, <4>2 DEF Tracks
    <3>2. CASE v \notin DOMAIN workers \cup FrozenWorkers
      <4>1. proc'[v] = proc[v]
        BY <2>1, <3>2
      <4>2. Alive(v)' => Alive(v) /\ proc[v].killed
        BY <3>2, <4>1 DEF Alive, TrackInv, EveryProcessTracked
      <4> QED BY <1>1, <2>1, <4>1, <4>2 DEF Tracks
    <3> QED BY <3>1, <3>2
  <2> QED BY <2>2, TracksKeep
<1>4. CASE \E w \in WorkerId : AssignBatch(w) \/ AssignToDead(w)
  <2>1. PICK w \in WorkerId : AssignBatch(w) \/ AssignToDead(w)
    BY <1>4
  <2>2. /\ w \in DOMAIN workers /\ UNCHANGED next_worker_id /\ pc = "assign" /\ pc' = pc
        /\ ~(w >= next_worker_id)
    BY <2>1, HandedOut DEF AssignBatch, AssignToDead, Idle, Assigning
  <2>3. \A v \in WorkerId \ {w} : proc'[v] = proc[v] /\ (v \in DOMAIN workers => v \in DOMAIN workers')
    BY <1>1, <2>1 DEF AssignBatch, AssignToDead, Without, Working
  <2>4. proc'[w].state = proc[w].state
    BY <1>1, <2>1 DEF AssignBatch, AssignToDead, Working, Process
  <2>5. ASSUME NEW v \in WorkerId \ {w} PROVE Tracks(v)
    <3>1. v \in DOMAIN workers \cup FrozenWorkers => v \in DOMAIN workers' \cup FrozenWorkers'
      BY <1>1, <2>3
    <3> QED BY <1>1, <2>2, <2>3, <3>1, Untouched
  <2>6. Tracks(w)
    <3>1. Alive(w)' = Alive(w)
      BY <2>4 DEF Alive
    <3>2. Alive(w) => w \in DOMAIN workers'
      BY <2>1, <2>2 DEF AssignBatch, AssignToDead
    <3> QED BY <1>1, <2>2, <3>1, <3>2 DEF Tracks
  <2> QED BY <2>5, <2>6, TracksKeep
<1>5. CASE NothingToResume \/ Assigned \/ EndPhase \/ Cancel \/ Down \/ UNCHANGED poolVars
           \/ \E i \in PhaseItem : RetryReady(i)
  <2>1. UNCHANGED <<workers, next_worker_id, proc>> /\ (pc' # "down" \/ pc' = pc)
    BY <1>5 DEF NothingToResume, Assigned, EndPhase, Cancel, Down, RetryReady, poolVars
  <2>2. \A v \in WorkerId : Tracks(v)
    BY <1>1, <2>1, Untouched
  <2> QED BY <2>2, TracksKeep
<1> QED BY <1>2, <1>3, <1>4, <1>5 DEF PoolNext, LoopStep

LEMMA InitTracks == PoolInit => TrackInv
<1> SUFFICES ASSUME PoolInit PROVE TrackInv
  OBVIOUS
<1>1. proc = [w \in WorkerId |-> NoProc] /\ out = [w \in WorkerId |-> << >>]
  BY DEF PoolInit
<1> QED BY <1>1 DEF TrackInv, EveryProcessTracked, Said, Alive, NoProc

LEMMA TrackKeeps == PoolInv /\ TrackInv /\ [PoolNext]_poolVars => TrackInv'
BY ProcessesTracked, StepEndTracked, SubmitTracked, ResumeTracked, LoopTracked DEF Handle

\* A live worker process is one the loop tracks, or is being killed, whatever
\* fails, dies or is cancelled: nothing survives a shutdown (WorkerPool::drop,
\* kill_all, graceful_kill).
THEOREM NoOrphans == PoolSpec => []EveryProcessTracked
<1>1. TrackInv => EveryProcessTracked
  BY DEF TrackInv
<1> QED BY <1>1, InitTracks, TrackKeeps, PoolAlways, PTL DEF PoolSpec

-----------------------------------------------------------------------------
(***************************************************************************)
(* The loop keeps the contract of a phase: what its handlers do to the     *)
(* coordinator, whole, is a step of the contract or invisible to it.       *)
(***************************************************************************)
InContract == Contract!Next \/ StepStatus(co') = StepStatus(co)

LEMMA CompletionInContract ==
    ASSUME CoreInv, CoreInv', NEW i \in Running(co),
           NEW order \in ReleaseOrders(co, i, {}), co' = OnItemCompleted(co, i, order)
    PROVE  InContract
<1>1. PICK lost : lost = {}
  OBVIOUS
<1>2. Resolving(co, co', i, lost, order)
  BY <1>1 DEF Resolving
<1>3. LET S == SkippedWith(co, i, lost)
      IN /\ co'.done = co.done \cup ({i} \ lost)
         /\ co'.failed = co.failed \cup lost
         /\ co'.skipped = co.skipped \cup S
         /\ Waits(co') = Waits(co) \ S
  BY <1>2, ResolvingResolves
<1>4. Resolved(i, lost, {})
  BY <1>1, <1>3 DEF Resolved
<1> QED BY <1>4, ResolutionInContract DEF InContract

\* A worker is lost: one lease fails, for good or not, the others are put back.
LEMMA LossInContract ==
    ASSUME CoreInv, CoreInv', Good(co), NEW c1, NEW L, Holding(co, L), NEW i, NEW rest,
           Lost(co, c1, co', L, i, rest)
    PROVE  InContract
<1>1. /\ Returning(c1, co', rest) /\ Range(rest) \subseteq co.executing \ {i}
      /\ i \in Running(co) /\ Sound(co)
  BY LossTook, LeaseRuns DEF Lost, CoreInv
<1>2. PICK order \in FailureOrders(co, i) : c1 = OnItemFailed(co, i, order)
  BY DEF Lost
<1>3. /\ co'.done = c1.done /\ co'.failed = c1.failed /\ co'.skipped = c1.skipped
      /\ Waits(co') = Waits(c1) \cup Range(rest)
  BY <1>1 DEF Returning, SameResults, Waits
<1>4. CASE CanRetry(co, i) /\ c1 = RetryItem(co, i)
  <2>1. Parking(co, c1, i) \/ Queueing(co, c1, i)
    BY <1>1, <1>4, RetryMoves
  <2>2. /\ c1.done = co.done /\ c1.failed = co.failed /\ c1.skipped = co.skipped
        /\ Waits(c1) = Waits(co) \cup {i}
    <3>1. i \notin co.waiting_retry
      BY <1>1, RunningItem
    <3> QED BY <2>1, <3>1 DEF Parking, Queueing, SameResults, Waits
  <2> DEFINE B == {i} \cup Range(rest)
  <2>3. B \subseteq co.executing \cup Parked(co)
    BY <1>1 DEF Running, Resumed
  <2>4. Waits(co') = Waits(co) \cup B
    BY <1>3, <2>2
  <2> HIDE DEF B
  <2>5. \E S \in SUBSET PhaseItem : Contract!PutBack(S)
    BY <1>3, <2>2, <2>3, <2>4, PutsBack
  <2> QED BY <2>5 DEF Contract!Next, InContract
<1>5. CASE Resolving(co, c1, i, {i}, order)
  <2>1. LET S == SkippedWith(co, i, {i})
        IN /\ c1.done = co.done \cup ({i} \ {i})
           /\ c1.failed = co.failed \cup {i}
           /\ c1.skipped = co.skipped \cup S
           /\ Waits(c1) = Waits(co) \ S
    BY <1>5, ResolvingResolves
  <2>2. Resolved(i, {i}, Range(rest))
    BY <1>1, <1>3, <2>1 DEF Resolved
  <2> QED BY <2>2, ResolutionInContract DEF InContract
<1> QED BY <1>1, <1>2, <1>4, <1>5, FailResolves

\* A call of parallel() is not seen, but for the leases that are put back.
LEMMA ForkInContract ==
    ASSUME CoreInv, CoreInv', Good(co), NEW L, Holding(co, L), NEW n, Forked(co, co', L, n)
    PROVE  InContract
<1>1. PICK c1 : /\ Sound(c1) /\ Forking(co, c1, Head(L), n)
                /\ Returning(c1, co', Tail(L)) /\ Range(Tail(L)) \subseteq c1.executing
  BY ForkingTook
<1>2. /\ co'.done = c1.done /\ co'.failed = c1.failed /\ co'.skipped = c1.skipped
      /\ Waits(co') = Waits(c1) \cup Range(Tail(L))
  BY <1>1 DEF Returning, SameResults, Waits
<1>3. /\ c1.done = co.done /\ c1.failed = co.failed /\ c1.skipped = co.skipped
      /\ Waits(c1) = Waits(co) \cup Branches(co, n) /\ Branches(co, n) \cap PhaseItem = {}
      /\ c1.executing \subseteq co.executing
  BY <1>1 DEF Forking, SameResults, Waits
<1> DEFINE B == Range(Tail(L))
<1>4. B \subseteq co.executing \cup Parked(co)
  BY <1>1, <1>3
<1>5. \A i \in PhaseItem : i \in Waits(co') <=> i \in Waits(co) \cup B
  BY <1>2, <1>3
<1> HIDE DEF B
<1>6. \E S \in SUBSET PhaseItem : Contract!PutBack(S)
  BY <1>2, <1>3, <1>4, <1>5, PutsBack
<1> QED BY <1>6 DEF Contract!Next, InContract

\* A replacement is killed: what it held is put back.
LEMMA ReplacementInContract ==
    ASSUME CoreInv, CoreInv', Good(co), NEW L, Holding(co, L), co' = ReturnReplacement(co, L)
    PROVE  InContract
<1> DEFINE B == Range(L) \cap co.executing
<1>1. /\ co'.done = co.done /\ co'.failed = co.failed /\ co'.skipped = co.skipped
      /\ Waits(co') = Waits(co) \cup B
  BY ReplacementTook
<1>2. B \subseteq co.executing \cup Parked(co)
  OBVIOUS
<1> HIDE DEF B
<1>3. \E S \in SUBSET PhaseItem : Contract!PutBack(S)
  BY <1>1, <1>2, PutsBack
<1> QED BY <1>3 DEF Contract!Next, InContract

LEMMA HandlersInContract ==
    ASSUME PoolInv, CoreInv, CoreInv', NEW w \in WorkerId, Handle(w)
    PROVE  InContract
<1>0. Good(co)
  BY DEF PoolInv
<1>1. CASE co' = co
  BY <1>1 DEF InContract
<1>2. CASE StepCompleted(w)
  <2>0. PICK i : i = Head(out[w]).arg
    OBVIOUS
  <2>1. CASE HasLease(w, i)
    <3>1. \E order \in ReleaseOrders(co, i, {}) : co' = OnItemCompleted(co, i, order)
      BY <1>2, <2>0, <2>1 DEF StepCompleted
    <3>2. i \in Running(co)
      BY <2>1, WorkerHolds, LeaseRuns DEF HasLease
    <3> QED BY <3>1, <3>2, CompletionInContract
  <2>2. CASE ~HasLease(w, i)
    BY <1>1, <1>2, <2>0, <2>2 DEF StepCompleted
  <2> QED BY <2>1, <2>2
<1>3. CASE StepError(w)
  <2>0. PICK i : i = Head(out[w]).arg
    OBVIOUS
  <2>1. CASE HasLease(w, i)
    <3>1. w \in DOMAIN workers /\ i \in Range(workers[w]) /\ Holding(co, workers[w])
          /\ workers[w] \in Seq(ItemId)
      BY <2>1, WorkerHolds DEF HasLease
    <3>2. PICK rest : rest = RemoveFirst(workers[w], i)
      OBVIOUS
    <3>3. PICK order \in FailureOrders(co, i) :
            co' = ReturnLeases(OnItemFailed(co, i, order), rest)
      BY <1>3, <2>0, <2>1, <3>2 DEF StepError
    <3>4. rest \in Seq(ItemId) /\ Distinct(rest) /\ Range(rest) = Range(workers[w]) \ {i}
      BY <3>1, <3>2, WithoutLease DEF Holding
    <3>5. Lost(co, OnItemFailed(co, i, order), co', workers[w], i, rest)
      BY <3>1, <3>3, <3>4 DEF Lost
    <3> QED BY <1>0, <3>1, <3>5, LossInContract
  <2>2. CASE ~HasLease(w, i)
    BY <1>1, <1>3, <2>0, <2>2 DEF StepError
  <2> QED BY <2>1, <2>2
<1>4. CASE Submit(w)
  <2>1. CASE w \in DOMAIN workers /\ workers[w] # << >>
    <3>1. Forked(co, co', workers[w], Head(out[w]).arg)
      BY <1>4, <2>1, SubmitFreezes DEF Freezes
    <3>2. Holding(co, workers[w])
      BY <2>1, WorkerHolds
    <3> QED BY <1>0, <3>1, <3>2, ForkInContract
  <2>2. CASE ~(w \in DOMAIN workers /\ workers[w] # << >>)
    BY <1>1, <1>4, <2>2 DEF Submit
  <2> QED BY <2>1, <2>2
<1>5. CASE Disconnected(w)
  <2>1. CASE w \in DOMAIN workers /\ workers[w] # << >>
    <3>1. Holding(co, workers[w]) /\ workers[w] \in Seq(ItemId)
      BY <2>1, WorkerHolds
    <3>2. PICK i, rest : i = Head(workers[w]) /\ rest = Tail(workers[w])
      OBVIOUS
    <3>3. PICK order \in FailureOrders(co, i) :
            co' = ReturnLeases(OnItemFailed(co, i, order), rest)
      BY <1>5, <2>1, <3>2 DEF Disconnected
    <3>4. /\ i \in Range(workers[w]) /\ rest \in Seq(ItemId) /\ Distinct(rest)
          /\ Range(rest) = Range(workers[w]) \ {i}
      BY <2>1, <3>1, <3>2, WithoutHead DEF Holding
    <3>5. Lost(co, OnItemFailed(co, i, order), co', workers[w], i, rest)
      BY <3>3, <3>4 DEF Lost
    <3> QED BY <1>0, <3>1, <3>5, LossInContract
  <2>2. CASE ~(w \in DOMAIN workers /\ workers[w] # << >>)
    BY <1>1, <1>5, <2>2 DEF Disconnected
  <2> QED BY <2>1, <2>2
<1> QED BY <1>2, <1>3, <1>4, <1>5 DEF Handle

LEMMA LoopInContract ==
    ASSUME PoolInv, CoreInv, CoreInv', [PoolNext]_poolVars,
           ~\E w \in WorkerId : Handle(w)
    PROVE  InContract
<1>0. Good(co) /\ Sound(co)
  BY DEF PoolInv, CoreInv
<1>1. CASE co' = co
  BY <1>1 DEF InContract
<1>2. CASE ResumeFrozen
  <2>1. PICK r : \/ co' = co
                 \/ r \in DOMAIN workers /\ co' = ReturnReplacement(co, workers[r])
    <3>1. PICK k \in Resumable :
            \/ UNCHANGED co
            \/ /\ frozen[k].replacement \in DOMAIN workers
               /\ co' = ReturnReplacement(co, workers[frozen[k].replacement])
      BY <1>2 DEF ResumeFrozen
    <3> QED BY <3>1
  <2>2. ASSUME r \in DOMAIN workers, co' = ReturnReplacement(co, workers[r])
        PROVE  InContract
    <3>1. Holding(co, workers[r])
      BY <2>2, WorkerHolds
    <3> QED BY <1>0, <2>2, <3>1, ReplacementInContract
  <2> QED BY <1>1, <2>1, <2>2
<1>3. CASE \E w \in WorkerId : AssignBatch(w)
  <2>1. PICK k \in PullSizes : co' = Lease(co, k)
    BY <1>3 DEF AssignBatch
  <2>2. k \in 0 .. Len(co.ready)
    BY PullsSome
  <2>3. \E B : Leasing(co, co', B)
    BY <1>0, <2>1, <2>2, LeaseFields
  <2> QED BY <2>3, LeasingStarts DEF Contract!Next, InContract
<1>4. CASE \E i \in PhaseItem : RetryReady(i)
  <2>1. PICK i \in co.waiting_retry : co' = RequeueItem(co, i)
    BY <1>4 DEF RetryReady
  <2>2. co' = QueuedAs(co, i)
    BY <1>0, <2>1, RequeueQueues
  <2>3. Queueing(co, co', i)
    BY <1>0, <2>1, <2>2, QueueFields
  <2> QED BY <2>1, <2>3, RequeueUnseen DEF InContract
<1>5. CASE UNCHANGED poolVars \/ Cancel \/ Down \/ LoopStep
           \/ \E w \in WorkerId : ProcStep(w) \/ Crash(w)
  <2>1. CASE UNCHANGED loopVars \/ UNCHANGED co
    BY <1>1, <2>1 DEF loopVars
  <2>2. CASE \E w \in WorkerId : ProcStep(w) \/ Crash(w)
    BY <2>1, <2>2 DEF ProcStep, StartStep, FinishStep, ErrStep, SubmitCall, ReceiveAnswer, Reap, Crash
  <2>3. CASE UNCHANGED poolVars \/ Cancel \/ Down
    BY <2>1, <2>3 DEF Cancel, Down, poolVars
  <2>4. CASE LoopStep
    BY <1>2, <1>3, <2>1, <2>4
    DEF LoopStep, NothingToResume, AssignToDead, SpawnWorker, Assigned, EndPhase, Shutdown
  <2> QED BY <1>5, <2>2, <2>3, <2>4
<1> QED BY <1>4, <1>5 DEF PoolNext

\* Every behaviour of the loop over a pool of workers that crash, fail, stop
\* and are replaced is one of the contract of a phase: no item starts before
\* its inputs exist, none ends twice, and a failure for good skips exactly the
\* items that need its output.
THEOREM PoolKeepsContract == PoolSpec => ImplementsContract
<1>1. PoolInit => CoreInv /\ Contract!Init
  BY InitCore, InitContract DEF PoolInit
<1>2. PoolInv => CoreInv
  BY DEF PoolInv, Good, CoreInv
<1>3. PoolInv /\ CoreInv /\ CoreInv' /\ [PoolNext]_poolVars => [Contract!Next]_(StepStatus(co))
  BY HandlersInContract, LoopInContract DEF InContract
<1> QED BY <1>1, <1>2, <1>3, PoolAlways, PTL DEF PoolSpec, ImplementsContract, Contract!Spec

-----------------------------------------------------------------------------
(***************************************************************************)
(* The steps of the processes and the loop, one worker at a time.          *)
(***************************************************************************)
LEMMA WorkerTyped ==
    ASSUME PoolInv, NEW w \in WorkerId
    PROVE  /\ out[w] \in Seq(Message) /\ proc[w] \in Process /\ Sane(proc[w])
           /\ w \in DOMAIN workers => workers[w] \in Seq(ItemId) /\ w \notin FrozenWorkers
BY DEF PoolInv, PoolTyped, HeldTyped, ToldTyped, WorkTyped, Working, Mapped, Named, NamedOnce,
       FrozenWorkers

\* The handlers take a worker's first message.
LEMMA Hears ==
    ASSUME PoolInv, NEW w \in WorkerId, NEW kind, Received(w, kind)
    PROVE  /\ out[w] # << >> /\ Head(out[w]).kind = kind /\ out'[w] = Tail(out[w])
           /\ \A v \in WorkerId \ {w} : out'[v] = out[v]
BY DEF PoolInv, PoolTyped, ToldTyped, Received

\* The other workers, while one process moves.
LEMMA OthersMove ==
    ASSUME PoolInv, NEW w \in WorkerId, ProcStep(w) \/ Crash(w)
    PROVE  /\ UNCHANGED loopVars
           /\ \A v \in WorkerId \ {w} : proc'[v] = proc[v] /\ out'[v] = out[v]
<1>1. WorkTyped /\ Working(proc) /\ ToldTyped
  BY DEF PoolInv, PoolTyped, WorkTyped
<1>2. \E q : proc' = [proc EXCEPT ![w] = q]
  BY <1>1, ProcessSteps DEF ProcStep
<1>3. UNCHANGED out \/ \E kind, arg : Emit(w, kind, arg)
  BY DEF ProcStep, StartStep, FinishStep, ErrStep, SubmitCall, ReceiveAnswer, Reap, Crash
<1>4. \A v \in WorkerId \ {w} : out'[v] = out[v]
  <2>1. ASSUME NEW kind, NEW arg, Emit(w, kind, arg)
        PROVE  \A v \in WorkerId \ {w} : out'[v] = out[v]
    BY <1>1, <2>1, EmitSays
  <2> QED BY <1>3, <2>1
<1>5. \A v \in WorkerId \ {w} : proc'[v] = proc[v]
  BY <1>1, <1>2 DEF Working
<1>6. UNCHANGED loopVars
  BY DEF ProcStep, StartStep, FinishStep, ErrStep, SubmitCall, ReceiveAnswer, Reap, Crash
<1> QED BY <1>4, <1>5, <1>6

\* The message a process sends.
LEMMA Sends ==
    ASSUME PoolInv, NEW w \in WorkerId, NEW kind, NEW arg, Emit(w, kind, arg)
    PROVE  out'[w] = Append(out[w], [kind |-> kind, arg |-> arg])
BY DEF PoolInv, PoolTyped, ToldTyped, Emit

\* The process after its step, by name.
LEMMA ProcessMoves ==
    ASSUME PoolInv, NEW w \in WorkerId
    PROVE  /\ StartStep(w)     => proc'[w] = Begun(proc[w])
           /\ FinishStep(w)    => proc'[w] = Finished(proc[w])
           /\ ErrStep(w)       => proc'[w] = Failed(proc[w])
           /\ SubmitCall(w)    => proc'[w] = Calling(proc[w])
           /\ ReceiveAnswer(w) => proc'[w] = GoingOn(proc[w])
           /\ Crash(w) \/ Reap(w) => proc'[w] = Dead
<1>1. WorkTyped /\ DOMAIN proc = WorkerId
  BY DEF PoolInv, PoolTyped, WorkTyped, Working
<1>2. \A q : proc' = [proc EXCEPT ![w] = q] => proc'[w] = q
  BY <1>1
<1>3. StartStep(w) => proc'[w] = Begun(proc[w])
  BY <1>1, <1>2, ProcessSteps
<1>4. FinishStep(w) => proc'[w] = Finished(proc[w])
  BY <1>1, <1>2, ProcessSteps
<1>5. ErrStep(w) => proc'[w] = Failed(proc[w])
  BY <1>1, <1>2, ProcessSteps
<1>6. SubmitCall(w) => proc'[w] = Calling(proc[w])
  BY <1>1, <1>2, ProcessSteps
<1>7. ReceiveAnswer(w) => proc'[w] = GoingOn(proc[w])
  BY <1>1, <1>2, ProcessSteps
<1>8. Crash(w) \/ Reap(w) => proc'[w] = Dead
  BY <1>1, <1>2, ProcessSteps
<1> QED BY <1>3, <1>4, <1>5, <1>6, <1>7, <1>8

\* The next id is nobody's.
LEMMA NewIsNobody ==
    ASSUME PoolInv
    PROVE  next_worker_id \notin DOMAIN workers
<1>1. \A w \in DOMAIN workers : w < next_worker_id /\ w \in Nat
  BY WorkerPoolAssumption DEF PoolInv, PoolTyped, HeldTyped, Mapped, WorkerId, Named, NamedOnce
<1> QED BY <1>1

-----------------------------------------------------------------------------
(***************************************************************************)
(* Who has a step in hand.  What a process that goes on has in hand, and   *)
(* what it has reported and the loop has not heard, is among its worker's  *)
(* leases, or is the parent it is stopped in; but for the steps that were  *)
(* taken back from it.                                                     *)
(***************************************************************************)
InHand(p) == Range(p.batch) \cup UNION { Range(b) : b \in Range(p.inbox) }

StoppedIn(w) == { frozen[k].parent : k \in { j \in DOMAIN frozen : frozen[j].worker = w } }

\* The steps the loop has down for worker w.
Booked(w) == IF w \in DOMAIN workers THEN Range(workers[w]) ELSE StoppedIn(w)

\* No step is twice in the batches of a process, but for those taken back.
Apiece(p) ==
    /\ Distinct(p.batch) /\ \A m \in DOMAIN p.inbox : Distinct(p.inbox[m])
    /\ \A m \in DOMAIN p.inbox : Range(p.batch) \cap Range(p.inbox[m]) \subseteq p.kept
    /\ \A m, n \in DOMAIN p.inbox : m # n =>
          Range(p.inbox[m]) \cap Range(p.inbox[n]) \subseteq p.kept

Ends(m) == m.kind \in {"completed", "error"}

\* What worker o has said of ends: each once, of a step it no more has in hand.
Tells(o, p, B) ==
    \A j \in DOMAIN o : Ends(o[j]) /\ o[j].arg \notin p.kept =>
        /\ o[j].arg \in B /\ o[j].arg \notin InHand(p)
        /\ \A l \in DOMAIN o : Ends(o[l]) /\ o[l].arg = o[j].arg => l = j

Orderly(o, p, B) == Apiece(p) /\ InHand(p) \subseteq B \cup p.kept /\ Tells(o, p, B)

LEMMA HandParts ==
    ASSUME NEW p
    PROVE  /\ \A i \in Range(p.batch) : i \in InHand(p)
           /\ \A m \in DOMAIN p.inbox : Range(p.inbox[m]) \subseteq InHand(p)
           /\ \A i \in InHand(p) : i \in Range(p.batch) \/ \E m \in DOMAIN p.inbox : i \in Range(p.inbox[m])
<1>1. \A m \in DOMAIN p.inbox : p.inbox[m] \in Range(p.inbox)
  BY DEF Range
<1>2. \A b \in Range(p.inbox) : \E m \in DOMAIN p.inbox : b = p.inbox[m]
  BY DEF Range
<1>3. \A m \in DOMAIN p.inbox : Range(p.inbox[m]) \in { Range(b) : b \in Range(p.inbox) }
  BY <1>1
<1> QED BY <1>2, <1>3 DEF InHand

\* A step of the process that moves what it has in hand.
LEMMA LessInHand ==
    ASSUME NEW o, NEW p, NEW B, Orderly(o, p, B),
           NEW q, Apiece(q), InHand(q) \subseteq InHand(p), q.kept = p.kept
    PROVE  Orderly(o, q, B)
BY DEF Orderly, Tells

LEMMA SameInHand ==
    ASSUME NEW o, NEW p, NEW B, Orderly(o, p, B),
           NEW q, q.batch = p.batch, q.inbox = p.inbox, q.kept = p.kept
    PROVE  Orderly(o, q, B)
<1>1. InHand(q) = InHand(p) /\ Apiece(q)
  BY DEF InHand, Orderly, Apiece
<1> QED BY <1>1, LessInHand

\* The next batch is taken up.
LEMMA BegunOrderly ==
    ASSUME NEW o, NEW p \in Process, Sane(p), NEW B, Orderly(o, p, B),
           p.batch # << >> \/ p.inbox # << >>
    PROVE  Orderly(o, Begun(p), B)
<1>1. PICK q : q = Begun(p)
  OBVIOUS
<1>2. q.kept = p.kept /\ (IF p.batch # << >> THEN q.batch = p.batch /\ q.inbox = p.inbox
                          ELSE q.batch = Head(p.inbox) /\ q.inbox = Tail(p.inbox))
  BY <1>1, ProcessFields
<1>3. CASE p.batch # << >>
  BY <1>1, <1>2, <1>3, SameInHand
<1>4. CASE p.batch = << >>
  <2>1. p.inbox \in Seq(Seq(ItemId)) /\ p.inbox # << >>
    BY <1>4 DEF Process
  <2>2. /\ q.batch = p.inbox[1] /\ q.inbox = Tail(p.inbox) /\ 1 \in DOMAIN p.inbox
        /\ \A j \in DOMAIN q.inbox : j + 1 \in DOMAIN p.inbox /\ q.inbox[j] = p.inbox[j + 1]
    BY <1>2, <1>4, <2>1, FirstAndRest
  <2>3. q.inbox \in Seq(Seq(ItemId))
    BY <1>2, <1>4, <2>1, FirstAndRest
  <2>4. \A j \in DOMAIN q.inbox : j \in Nat \ {0}
    BY <2>3
  <2>5. Apiece(q)
    <3>1. Distinct(q.batch) /\ \A m \in DOMAIN q.inbox : Distinct(q.inbox[m])
      BY <2>2 DEF Orderly, Apiece
    <3>2. ASSUME NEW m \in DOMAIN q.inbox
          PROVE  Range(q.batch) \cap Range(q.inbox[m]) \subseteq q.kept
      <4>1. m + 1 # 1
        BY <2>4
      <4> QED BY <1>2, <2>2, <4>1 DEF Orderly, Apiece
    <3>3. ASSUME NEW m \in DOMAIN q.inbox, NEW n \in DOMAIN q.inbox, m # n
          PROVE  Range(q.inbox[m]) \cap Range(q.inbox[n]) \subseteq q.kept
      <4>1. m + 1 # n + 1
        BY <2>4, <3>3
      <4> QED BY <1>2, <2>2, <4>1 DEF Orderly, Apiece
    <3> QED BY <3>1, <3>2, <3>3 DEF Apiece
  <2>6. InHand(q) \subseteq InHand(p)
    <3>1. Range(q.batch) \subseteq InHand(p)
      BY <2>2, HandParts
    <3>2. \A m \in DOMAIN q.inbox : Range(q.inbox[m]) \subseteq InHand(p)
      BY <2>2, HandParts
    <3>3. \A i \in InHand(q) : i \in Range(q.batch) \/ \E m \in DOMAIN q.inbox : i \in Range(q.inbox[m])
      BY HandParts
    <3> QED BY <3>1, <3>2, <3>3
  <2> QED BY <1>1, <1>2, <2>5, <2>6, LessInHand
<1> QED BY <1>3, <1>4

LEMMA Appended ==
    ASSUME NEW S, NEW s \in Seq(S), NEW e
    PROVE  /\ DOMAIN Append(s, e) = DOMAIN s \cup {Len(s) + 1} /\ Len(s) + 1 \notin DOMAIN s
           /\ \A j \in DOMAIN s : Append(s, e)[j] = s[j]
           /\ Append(s, e)[Len(s) + 1] = e
           /\ Len(Append(s, e)) = Len(s) + 1 /\ Append(s, e) # << >>
           /\ \A j \in DOMAIN s : j \in 1 .. Len(s)
<1>1. s \in Seq(S \cup {e}) /\ e \in S \cup {e}
  OBVIOUS
<1>2. /\ DOMAIN Append(s, e) = DOMAIN s \cup {Len(s) + 1}
      /\ \A j \in DOMAIN s : Append(s, e)[j] = s[j]
      /\ Append(s, e)[Len(s) + 1] = e /\ Len(Append(s, e)) = Len(s) + 1
  BY <1>1, AppendProperties
<1>3. Append(s, e) # << >>
  BY <1>1, AppendProperties
<1>4. DOMAIN s = 1 .. Len(s) /\ Len(s) \in Nat
  OBVIOUS
<1>5. Len(s) + 1 \notin DOMAIN s
  BY <1>4
<1> QED BY <1>2, <1>3, <1>4, <1>5

\* The process reports the end of its step, and has it in hand no more.
LEMMA EndOrderly ==
    ASSUME NEW o \in Seq(Message), NEW p \in Process, NEW B, Orderly(o, p, B), p.batch # << >>,
           NEW q, q.batch \in {Tail(p.batch), << >>}, q.inbox = p.inbox, q.kept = p.kept,
           NEW m, Ends(m), m.arg = Head(p.batch)
    PROVE  Orderly(Append(o, m), q, B)
<1>1. PICK i : i = Head(p.batch)
  OBVIOUS
<1>2. p.batch \in Seq(ItemId) /\ Distinct(p.batch)
  BY DEF Process, Orderly, Apiece
<1>3. i \in Range(p.batch) /\ Distinct(Tail(p.batch)) /\ Range(Tail(p.batch)) = Range(p.batch) \ {i}
  BY <1>1, <1>2, WithoutHead
<1>4. Range(<< >>) = {} /\ Distinct(<< >>)
  BY DEF Range, Distinct
<1>5. Distinct(q.batch) /\ Range(q.batch) \subseteq Range(p.batch) \ {i}
  BY <1>3, <1>4
<1>6. Apiece(q)
  BY <1>5 DEF Orderly, Apiece
<1>7. InHand(q) \subseteq InHand(p)
  BY <1>5 DEF InHand
<1>8. i \in InHand(p)
  BY <1>3, HandParts
<1>9. i \notin p.kept => i \notin InHand(q)
  <2>1. \A k \in DOMAIN p.inbox : Range(p.batch) \cap Range(p.inbox[k]) \subseteq p.kept
    BY DEF Orderly, Apiece
  <2>2. i \notin Range(q.batch)
    BY <1>5
  <2> QED BY <1>3, <2>1, <2>2, HandParts
<1>10. Tells(o, q, B)
  BY <1>6, <1>7, LessInHand DEF Orderly
<1>11. \A j \in DOMAIN o : Ends(o[j]) /\ o[j].arg \notin p.kept => o[j].arg # i
  BY <1>8 DEF Orderly, Tells
<1>12. i \notin p.kept => i \in B
  BY <1>8 DEF Orderly
<1>13. PICK o1, n : o1 = Append(o, m) /\ n = Len(o) + 1
  OBVIOUS
<1>14. /\ DOMAIN o1 = DOMAIN o \cup {n} /\ o1[n] = m
       /\ \A j \in DOMAIN o : o1[j] = o[j]
  BY <1>13, Appended
<1>15. Tells(o1, q, B)
  <2> SUFFICES ASSUME NEW j \in DOMAIN o1, Ends(o1[j]), o1[j].arg \notin q.kept
               PROVE  /\ o1[j].arg \in B /\ o1[j].arg \notin InHand(q)
                      /\ \A l \in DOMAIN o1 : Ends(o1[l]) /\ o1[l].arg = o1[j].arg => l = j
    BY DEF Tells
  <2>1. CASE j = n
    <3>1. o1[j].arg = i /\ i \notin p.kept
      BY <1>1, <1>14, <2>1
    <3>2. \A l \in DOMAIN o1 : Ends(o1[l]) /\ o1[l].arg = i => l = n
      BY <1>11, <1>14, <3>1
    <3> QED BY <1>9, <1>12, <2>1, <3>1, <3>2
  <2>2. CASE j \in DOMAIN o
    <3>1. o1[j] = o[j]
      BY <1>14, <2>2
    <3>2. o[j].arg \in B /\ o[j].arg \notin InHand(q) /\ o[j].arg # i
      BY <1>10, <1>11, <2>2, <3>1 DEF Tells
    <3>3. \A l \in DOMAIN o : Ends(o[l]) /\ o[l].arg = o[j].arg => l = j
      BY <1>10, <2>2, <3>1 DEF Tells
    <3> QED BY <1>1, <1>14, <3>1, <3>2, <3>3
  <2> QED BY <1>14, <2>1, <2>2
<1> QED BY <1>6, <1>7, <1>13, <1>15 DEF Orderly

\* It says something else.
LEMMA SaysOrderly ==
    ASSUME NEW o \in Seq(Message), NEW p, NEW B, Orderly(o, p, B), NEW m, ~Ends(m)
    PROVE  Orderly(Append(o, m), p, B)
<1>1. PICK o1, n : o1 = Append(o, m) /\ n = Len(o) + 1
  OBVIOUS
<1>2. /\ DOMAIN o1 = DOMAIN o \cup {n} /\ o1[n] = m
      /\ \A j \in DOMAIN o : o1[j] = o[j]
  BY <1>1, Appended
<1>3. \A j \in DOMAIN o1 : Ends(o1[j]) => j \in DOMAIN o
  BY <1>2
<1>4. Tells(o, p, B)
  BY DEF Orderly
<1>5. Tells(o1, p, B)
  BY <1>2, <1>3, <1>4 DEF Tells
<1> QED BY <1>1, <1>5 DEF Orderly

\* The loop hears a message; what it says has ended is booked no more.
LEMMA HeardOrderly ==
    ASSUME NEW o \in Seq(Message), o # << >>, NEW p, NEW B, Orderly(o, p, B)
    PROVE  /\ Orderly(Tail(o), p, B)
           /\ Ends(Head(o)) => Orderly(Tail(o), p, B \ {Head(o).arg})
<1>1. PICK o1 : o1 = Tail(o)
  OBVIOUS
<1>2. /\ Head(o) = o[1] /\ 1 \in DOMAIN o /\ o1 \in Seq(Message)
      /\ \A j \in DOMAIN o1 : j + 1 \in DOMAIN o /\ o1[j] = o[j + 1]
  BY <1>1, FirstAndRest
<1>3. \A j \in DOMAIN o1 : j \in Nat \ {0}
  BY <1>2
<1>4. \A j, l \in DOMAIN o1 : j + 1 = l + 1 => j = l
  BY <1>3
<1>5. \A j \in DOMAIN o1 : j + 1 # 1
  BY <1>3
<1>6. Tells(o, p, B)
  BY DEF Orderly
<1>7. ASSUME NEW j \in DOMAIN o1, Ends(o1[j]), o1[j].arg \notin p.kept
      PROVE  /\ o1[j].arg \in B /\ o1[j].arg \notin InHand(p)
             /\ \A l \in DOMAIN o1 : Ends(o1[l]) /\ o1[l].arg = o1[j].arg => l = j
             /\ Ends(Head(o)) => o1[j].arg # Head(o).arg
  <2>1. PICK k \in DOMAIN o : k = j + 1 /\ o1[j] = o[k]
    BY <1>2
  <2>2. /\ o[k].arg \in B /\ o[k].arg \notin InHand(p)
        /\ \A l \in DOMAIN o : Ends(o[l]) /\ o[l].arg = o[k].arg => l = k
    BY <1>6, <1>7, <2>1 DEF Tells
  <2>3. \A l \in DOMAIN o1 : Ends(o1[l]) /\ o1[l].arg = o1[j].arg => l = j
    BY <1>2, <1>4, <2>1, <2>2
  <2>4. Ends(Head(o)) => o1[j].arg # Head(o).arg
    BY <1>2, <1>5, <2>1, <2>2
  <2> QED BY <2>1, <2>2, <2>3, <2>4
<1>8. Tells(o1, p, B)
  BY <1>7 DEF Tells
<1>9. ASSUME Ends(Head(o)) PROVE Orderly(o1, p, B \ {Head(o).arg})
  <2>1. Tells(o1, p, B \ {Head(o).arg})
    BY <1>7, <1>9 DEF Tells
  <2>2. Head(o).arg \notin p.kept => Head(o).arg \notin InHand(p)
    BY <1>2, <1>6, <1>9 DEF Tells
  <2> QED BY <2>1, <2>2 DEF Orderly
<1> QED BY <1>1, <1>8, <1>9 DEF Orderly

\* Steps are taken back from a process that is stopped.
LEMMA HaltOrderly ==
    ASSUME NEW o, NEW p, NEW B, Orderly(o, p, B), NEW K, NEW B1, B \subseteq B1 \cup K,
           NEW q, q.batch = p.batch, q.inbox = p.inbox, q.kept = p.kept \cup K
    PROVE  Orderly(o, q, B1)
<1>1. InHand(q) = InHand(p)
  BY DEF InHand
<1>2. Apiece(q)
  BY DEF Orderly, Apiece
<1>3. Tells(o, q, B1)
  BY <1>1 DEF Orderly, Tells
<1> QED BY <1>1, <1>2, <1>3 DEF Orderly

\* A batch is sent to a process that has nothing booked.
LEMMA PullOrderly ==
    ASSUME NEW o, NEW p \in Process, Orderly(o, p, {}), NEW b, Distinct(b),
           NEW q, q.batch = p.batch, q.inbox = Append(p.inbox, b), q.kept = p.kept
    PROVE  Orderly(o, q, Range(b))
<1>1. InHand(p) \subseteq p.kept
  BY DEF Orderly
<1>2. PICK n : n = Len(p.inbox) + 1
  OBVIOUS
<1>3. /\ DOMAIN q.inbox = DOMAIN p.inbox \cup {n} /\ q.inbox[n] = b
      /\ \A j \in DOMAIN p.inbox : q.inbox[j] = p.inbox[j]
  BY <1>2, Appended DEF Process
<1>4. Range(p.batch) \subseteq p.kept /\ \A m \in DOMAIN p.inbox : Range(p.inbox[m]) \subseteq p.kept
  BY <1>1, HandParts
<1>5. Apiece(q)
  BY <1>3, <1>4 DEF Orderly, Apiece
<1>6. InHand(q) \subseteq Range(b) \cup q.kept
  <2>1. \A i \in InHand(q) : i \in Range(q.batch) \/ \E m \in DOMAIN q.inbox : i \in Range(q.inbox[m])
    BY HandParts
  <2> QED BY <1>3, <1>4, <2>1
<1>7. \A j \in DOMAIN o : ~(Ends(o[j]) /\ o[j].arg \notin p.kept)
  BY DEF Orderly, Tells
<1>8. Tells(o, q, Range(b))
  BY <1>7 DEF Tells
<1> QED BY <1>5, <1>6, <1>8 DEF Orderly

\* A new process.
LEMMA NewOrderly ==
    ASSUME NEW q, q.batch = << >>, q.inbox = << >>
    PROVE  Orderly(<< >>, q, {})
<1>1. InHand(q) = {}
  BY DEF InHand, Range
<1> QED BY <1>1 DEF Orderly, Apiece, Tells, Distinct

HandOf(w) == Lives(w) => Orderly(out[w], proc[w], Booked(w))

HandInv == \A w \in WorkerId : HandOf(w)

\* A worker that the step leaves alone.
LEMMA AloneInHand ==
    ASSUME NEW v, HandOf(v), proc'[v] = proc[v], out'[v] = out[v], Booked(v)' = Booked(v)
    PROVE  HandOf(v)'
BY DEF HandOf, Lives, Alive

LEMMA SameBooked ==
    ASSUME NEW v, StoppedIn(v)' = StoppedIn(v), v \in DOMAIN workers' <=> v \in DOMAIN workers,
           v \in DOMAIN workers => workers'[v] = workers[v]
    PROVE  Booked(v)' = Booked(v)
BY DEF Booked

LEMMA SameStopped ==
    UNCHANGED frozen => \A v : StoppedIn(v)' = StoppedIn(v)
BY DEF StoppedIn

LEMMA ProcessesHand ==
    ASSUME PoolInv, HandInv, NEW w \in WorkerId, ProcStep(w) \/ Crash(w)
    PROVE  HandInv'
<1>1. /\ \A v \in WorkerId \ {w} : proc'[v] = proc[v] /\ out'[v] = out[v]
      /\ UNCHANGED <<workers, frozen>>
  BY OthersMove DEF loopVars
<1>2. \A v : Booked(v)' = Booked(v)
  BY <1>1, SameStopped, SameBooked
<1>3. PICK p, o, B : p = proc[w] /\ o = out[w] /\ B = Booked(w)
  OBVIOUS
<1>4. p \in Process /\ Sane(p) /\ o \in Seq(Message)
  BY <1>3, WorkerTyped
<1>5. Moving(w) => Lives(w) /\ Orderly(o, p, B)
  BY <1>3 DEF Moving, Lives, HandInv, HandOf
<1>6. HandOf(w)'
  <2>1. CASE StartStep(w)
    <3>0. Moving(w) /\ UNCHANGED out /\ (p.batch # << >> \/ p.inbox # << >>)
      BY <1>3, <2>1 DEF StartStep
    <3>1. proc'[w] = Begun(p)
      BY <1>3, <2>1, ProcessMoves
    <3>2. Orderly(o, Begun(p), B)
      BY <1>4, <1>5, <3>0, BegunOrderly
    <3> QED BY <1>2, <1>3, <3>0, <3>1, <3>2 DEF HandOf
  <2>2. CASE FinishStep(w) \/ ErrStep(w)
    <3>1. PICK kind \in {"completed", "error"} : Emit(w, kind, Head(p.batch))
      BY <1>3, <2>2 DEF FinishStep, ErrStep
    <3>2. PICK m : m = [kind |-> kind, arg |-> Head(p.batch)]
      OBVIOUS
    <3>3. out'[w] = Append(o, m) /\ Ends(m) /\ m.arg = Head(p.batch)
      BY <1>3, <3>1, <3>2, Sends DEF Ends
    <3>4. Moving(w) /\ p.batch # << >>
      BY <1>3, <1>4, <2>2 DEF FinishStep, ErrStep, Sane
    <3>5. PICK q : q = proc'[w]
      OBVIOUS
    <3>6. q.batch \in {Tail(p.batch), << >>} /\ q.inbox = p.inbox /\ q.kept = p.kept
      <4>1. CASE FinishStep(w)
        <5>1. p.state = "running" /\ q = Finished(p)
          BY <1>3, <3>5, <4>1, ProcessMoves DEF FinishStep
        <5> QED BY <1>4, <5>1, ProcessFields
      <4>2. CASE ErrStep(w)
        <5>1. q = Failed(p)
          BY <1>3, <3>5, <4>2, ProcessMoves
        <5> QED BY <1>4, <5>1, ProcessFields
      <4> QED BY <2>2, <4>1, <4>2
    <3>7. Orderly(Append(o, m), q, B)
      <4>1. Orderly(o, p, B)
        BY <1>5, <3>4
      <4>2. Ends(m) /\ m.arg = Head(p.batch)
        BY <3>3
      <4> QED BY <1>4, <3>4, <3>6, <4>1, <4>2, EndOrderly
    <3> QED BY <1>2, <1>3, <3>3, <3>5, <3>7 DEF HandOf
  <2>3. CASE SubmitCall(w)
    <3>1. PICK kind, arg : kind = "submit" /\ Emit(w, kind, arg)
      BY <2>3 DEF SubmitCall
    <3>2. PICK m : m = [kind |-> kind, arg |-> arg]
      OBVIOUS
    <3>3. out'[w] = Append(o, m) /\ ~Ends(m)
      BY <1>3, <3>1, <3>2, Sends DEF Ends
    <3>4. proc'[w] = Calling(p)
      BY <1>3, <2>3, ProcessMoves
    <3>8. Moving(w) /\ p.state = "running"
      BY <1>3, <2>3 DEF SubmitCall
    <3>5. PICK q : q = Calling(p)
      OBVIOUS
    <3>6. q.batch = p.batch /\ q.inbox = p.inbox /\ q.kept = p.kept
      BY <1>4, <3>5, <3>8, ProcessFields
    <3>7. Orderly(Append(o, m), q, B)
      BY <1>4, <1>5, <3>3, <3>6, <3>8, SameInHand, SaysOrderly
    <3> QED BY <1>2, <1>3, <3>3, <3>4, <3>5, <3>7 DEF HandOf
  <2>4. CASE ReceiveAnswer(w)
    <3>0. proc'[w] = GoingOn(p)
      BY <1>3, <2>4, ProcessMoves
    <3>1. Moving(w) /\ p.state = "waiting" /\ UNCHANGED out
      BY <1>3, <2>4 DEF ReceiveAnswer
    <3>2. PICK q : q = GoingOn(p)
      OBVIOUS
    <3>3. q.batch = p.batch /\ q.inbox = p.inbox /\ q.kept = p.kept
      BY <1>4, <3>1, <3>2, ProcessFields
    <3>4. Orderly(o, q, B)
      BY <1>5, <3>1, <3>3, SameInHand
    <3> QED BY <1>2, <1>3, <3>0, <3>1, <3>2, <3>4 DEF HandOf
  <2>5. CASE Crash(w) \/ Reap(w)
    <3>1. proc'[w] = Dead
      BY <2>5, ProcessMoves
    <3> QED BY <3>1 DEF HandOf, Lives, Alive, Dead, NoProc
  <2> QED BY <2>1, <2>2, <2>3, <2>4, <2>5 DEF ProcStep
<1>7. \A v \in WorkerId \ {w} : HandOf(v)'
  BY <1>1, <1>2, AloneInHand DEF HandInv
<1> QED BY <1>6, <1>7 DEF HandInv

\* A worker reports the end of a step, or of itself.
LEMMA StepEndHand ==
    ASSUME PoolInv, TrackInv, HandInv, NEW w \in WorkerId,
           StepCompleted(w) \/ StepError(w) \/ Disconnected(w)
    PROVE  HandInv'
<1>1. PICK kind \in {"completed", "error", "disconnected"} : Received(w, kind)
  BY DEF StepCompleted, StepError, Disconnected
<1>2. /\ out[w] # << >> /\ Head(out[w]).kind = kind /\ out'[w] = Tail(out[w])
      /\ \A v \in WorkerId \ {w} : out'[v] = out[v]
  BY <1>1, Hears
<1>3. /\ Working(proc) /\ Mapped(workers) /\ UNCHANGED frozen
      /\ \A v \in WorkerId \ {w} : proc'[v] = proc[v]
      /\ \A v \in WorkerId \ {w} : v \in DOMAIN workers' <=> v \in DOMAIN workers
      /\ \A v \in DOMAIN workers \ {w} : workers'[v] = workers[v]
  <2>1. Working(proc) /\ Mapped(workers)
    BY DEF PoolInv, PoolTyped, HeldTyped, WorkTyped
  <2> QED BY <2>1 DEF StepCompleted, StepError, Disconnected, Without, Working
<1>4. \A v \in WorkerId \ {w} : Booked(v)' = Booked(v)
  BY <1>3, SameStopped, SameBooked
<1>5. \A v \in WorkerId \ {w} : HandOf(v)'
  BY <1>2, <1>3, <1>4, AloneInHand DEF HandInv
<1>6. PICK p, o, B, i : p = proc[w] /\ o = out[w] /\ B = Booked(w) /\ i = Head(o).arg
  OBVIOUS
<1>7. o \in Seq(Message) /\ (Lives(w) => Orderly(o, p, B))
  BY <1>6, WorkerTyped DEF HandInv, HandOf
<1>8. CASE UNCHANGED <<workers, proc>>
  <2>1. Booked(w)' = Booked(w)
    BY <1>3, <1>8, SameStopped, SameBooked
  <2>2. Lives(w)' <=> Lives(w)
    BY <1>8 DEF Lives, Alive
  <2>3. Lives(w) => Orderly(Tail(o), p, B)
    BY <1>2, <1>6, <1>7, HeardOrderly
  <2>4. HandOf(w)'
    BY <1>2, <1>6, <1>8, <2>1, <2>2, <2>3 DEF HandOf
  <2> QED BY <1>5, <2>4 DEF HandInv
<1>9. CASE StepCompleted(w) /\ HasLease(w, i)
  <2>1. /\ w \in DOMAIN workers /\ workers' = [workers EXCEPT ![w] = RemoveFirst(@, i)]
        /\ UNCHANGED proc /\ Ends(Head(o)) /\ i \in Range(workers[w])
    BY <1>6, <1>9 DEF StepCompleted, HasLease, Received, Ends
  <2>2. workers[w] \in Seq(ItemId) /\ Distinct(workers[w])
    BY <2>1, WorkerTyped DEF PoolInv, Leases
  <2>3. workers'[w] = RemoveFirst(workers[w], i) /\ w \in DOMAIN workers'
    BY <2>1
  <2>4. Range(workers'[w]) = Range(workers[w]) \ {i}
    BY <2>1, <2>2, <2>3, WithoutLease
  <2>5. Booked(w)' = B \ {i}
    BY <1>6, <2>1, <2>3, <2>4 DEF Booked
  <2>6. Lives(w) => Orderly(Tail(o), p, B \ {i})
    BY <1>2, <1>6, <1>7, <2>1, HeardOrderly
  <2>7. Lives(w)' <=> Lives(w)
    BY <2>1 DEF Lives, Alive
  <2>8. HandOf(w)'
    BY <1>2, <1>6, <2>1, <2>5, <2>6, <2>7 DEF HandOf
  <2> QED BY <1>5, <2>8 DEF HandInv
<1>10. CASE StepError(w) /\ HasLease(w, i)
  <2>1. proc' = [proc EXCEPT ![w].killed = Alive(w)]
    BY <1>6, <1>10 DEF StepError
  <2>2. proc'[w].killed = Alive(w) /\ proc'[w].state = proc[w].state
    BY <1>3, <2>1 DEF Working, Process
  <2>3. ~Lives(w)'
    BY <2>2 DEF Lives, Alive
  <2> QED BY <1>5, <2>3 DEF HandInv, HandOf
<1>11. CASE Disconnected(w)
  <2>1. "disconnected" \in Said(out[w]) /\ UNCHANGED proc
    BY <1>11, ReceiveSays DEF Disconnected, PoolInv, PoolTyped
  <2>2. ~Lives(w)'
    BY <2>1 DEF TrackInv, Lives, Alive
  <2> QED BY <1>5, <2>2 DEF HandInv, HandOf
<1> QED BY <1>6, <1>8, <1>9, <1>10, <1>11 DEF StepCompleted, StepError

\* The stopped workers, as frozen grows and shrinks.
LEMMA StoppedMore ==
    ASSUME frozen \in Seq(Frozen), NEW e, frozen' = Append(frozen, e)
    PROVE  /\ \A v : v # e.worker => StoppedIn(v)' = StoppedIn(v)
           /\ FrozenWorkers' = FrozenWorkers \cup {e.worker}
           /\ StoppedIn(e.worker)' = StoppedIn(e.worker) \cup {e.parent}
<1>1. PICK n : n = Len(frozen) + 1
  OBVIOUS
<1>2. /\ DOMAIN frozen' = DOMAIN frozen \cup {n} /\ frozen'[n] = e
      /\ \A j \in DOMAIN frozen : frozen'[j] = frozen[j]
  BY <1>1, Appended
<1> QED BY <1>2 DEF StoppedIn, FrozenWorkers

LEMMA StoppedLess ==
    ASSUME frozen \in Seq(Frozen), NEW k \in DOMAIN frozen, frozen' = SwapRemove(frozen, k)
    PROVE  /\ \A v : v # frozen[k].worker => StoppedIn(v)' = StoppedIn(v)
           /\ \A v : v # frozen[k].worker => (v \in FrozenWorkers' <=> v \in FrozenWorkers)
<1>1. /\ \A j \in DOMAIN frozen' : \E m \in DOMAIN frozen : frozen'[j] = frozen[m]
      /\ \A m \in DOMAIN frozen \ {k} : \E j \in DOMAIN frozen' : frozen'[j] = frozen[m]
  BY SwapRemoved
<1>2. ASSUME NEW v, v # frozen[k].worker
      PROVE  \A i : (\E j \in DOMAIN frozen' : frozen'[j].worker = v /\ frozen'[j].parent = i)
                    <=> \E m \in DOMAIN frozen : frozen[m].worker = v /\ frozen[m].parent = i
  BY <1>1, <1>2
<1>3. ASSUME NEW v, v # frozen[k].worker PROVE StoppedIn(v)' = StoppedIn(v)
  <2>1. \A i : i \in StoppedIn(v) <=>
          \E m \in DOMAIN frozen : frozen[m].worker = v /\ frozen[m].parent = i
    BY DEF StoppedIn
  <2>2. \A i : i \in StoppedIn(v)' <=>
          \E j \in DOMAIN frozen' : frozen'[j].worker = v /\ frozen'[j].parent = i
    BY DEF StoppedIn
  <2>3. \A i : i \in StoppedIn(v)' <=> i \in StoppedIn(v)
    BY <1>2, <1>3, <2>1, <2>2
  <2> QED BY <2>3
<1>4. \A v : v # frozen[k].worker => (v \in FrozenWorkers' <=> v \in FrozenWorkers)
  BY <1>1 DEF FrozenWorkers
<1> QED BY <1>3, <1>4

Fresh == [NoProc EXCEPT !.state = "idle"]

LEMMA FreshIsEmpty ==
    /\ Fresh.state = "idle" /\ Fresh.batch = << >> /\ Fresh.inbox = << >> /\ Fresh.kept = {}
    /\ ~Fresh.answer /\ ~Fresh.stopped /\ ~Fresh.killed
    /\ NoProc.state = "none" /\ ~NoProc.answer /\ ~NoProc.killed
    /\ Dead.state = "dead" /\ ~Dead.answer /\ ~Dead.killed
BY DEF Fresh, NoProc, Dead

\* A worker is stopped, and r is spawned in its place, or fails to be.
Stops(w, r) ==
    /\ r \in WorkerId /\ r # w /\ r \notin DOMAIN workers \cup FrozenWorkers
    /\ w \in DOMAIN workers /\ workers[w] # << >> /\ w \notin DOMAIN workers'
    /\ \A v \in WorkerId \ {w, r} : /\ v \in DOMAIN workers' <=> v \in DOMAIN workers
                                    /\ v \in DOMAIN workers => workers'[v] = workers[v]
                                    /\ proc'[v] = proc[v]
    /\ r \in DOMAIN workers' => workers'[r] = << >>
    /\ \E e : e.worker = w /\ e.parent = Head(workers[w]) /\ frozen' = Append(frozen, e)
    /\ proc'[w] = Halted(w, Tail(workers[w]))
    /\ proc[r] = NoProc /\ proc'[r] \in {NoProc, Fresh} /\ out[r] = << >>

LEMMA SubmitStops ==
    ASSUME PoolInv, TrackInv, NEW w \in WorkerId, Submit(w), w \in DOMAIN workers, workers[w] # << >>
    PROVE  \E r : Stops(w, r)
<1>1. Working(proc) /\ Mapped(workers) /\ frozen \in Seq(Frozen)
  BY DEF PoolInv, PoolTyped, HeldTyped, WorkTyped
<1>2. PICK r : r = next_worker_id
  OBVIOUS
<1>3. ~(w >= next_worker_id) /\ r \in Nat /\ w \in Nat /\ r >= r
  BY <1>2, HandedOut
<1>4. r \in WorkerId /\ r # w
  BY <1>2, <1>3 DEF Submit
<1>5. r \notin DOMAIN workers \cup FrozenWorkers
  BY <1>2, <1>3, <1>4, HandedOut
<1>6. proc[r] = NoProc /\ out[r] = << >>
  BY <1>2, <1>3, <1>4 DEF TrackInv
<1>7. PICK h : h = Halted(w, Tail(workers[w]))
  OBVIOUS
<1>8. \/ /\ workers' = With(Without(workers, w), r, << >>)
         /\ proc' = [proc EXCEPT ![w] = h, ![r].state = "idle"]
      \/ /\ workers' = Without(workers, w)
         /\ proc' = [proc EXCEPT ![w] = h]
  BY <1>2, <1>7 DEF Submit
<1>9. PICK e : e.worker = w /\ e.parent = Head(workers[w]) /\ frozen' = Append(frozen, e)
  BY SubmitFreezes DEF Freezes
<1>10. /\ w \notin DOMAIN workers' /\ (r \in DOMAIN workers' => workers'[r] = << >>)
       /\ \A v \in WorkerId \ {w, r} : /\ v \in DOMAIN workers' <=> v \in DOMAIN workers
                                       /\ v \in DOMAIN workers => workers'[v] = workers[v]
  BY <1>4, <1>5, <1>8 DEF With, Without
<1>11. /\ \A v \in WorkerId \ {w, r} : proc'[v] = proc[v]
       /\ proc'[w] = h /\ proc'[r] \in {proc[r], [proc[r] EXCEPT !.state = "idle"]}
  BY <1>1, <1>4, <1>8 DEF Working
<1>12. proc'[r] \in {NoProc, Fresh}
  BY <1>6, <1>11 DEF Fresh
<1> QED BY <1>4, <1>5, <1>6, <1>7, <1>9, <1>10, <1>11, <1>12 DEF Stops

\* A worker goes on; the one in its place, if it is still there, is killed.
Revives(k, w, r) ==
    /\ w \in WorkerId /\ w = frozen[k].worker /\ r = frozen[k].replacement
    /\ w \in FrozenWorkers /\ w \notin DOMAIN workers
    /\ frozen' = SwapRemove(frozen, k)
    /\ w \in DOMAIN workers' /\ workers'[w] = <<frozen[k].parent>>
    /\ proc'[w] = Continued(proc[w]) /\ out'[w] = out[w]
    /\ r \in DOMAIN workers => r \in WorkerId /\ proc'[r] = Dead /\ r \notin DOMAIN workers'
    /\ \A v \in WorkerId \ {w} : v # r \/ r \notin DOMAIN workers =>
         /\ proc'[v] = proc[v] /\ out'[v] = out[v]
         /\ v \in DOMAIN workers' <=> v \in DOMAIN workers
         /\ v \in DOMAIN workers => workers'[v] = workers[v]

LEMMA ResumeRevives ==
    ASSUME PoolInv, ResumeFrozen
    PROVE  \E k \in DOMAIN frozen : \E w, r : Revives(k, w, r)
<1>1. PICK k \in Resumable :
        LET fw == frozen[k]
            r  == fw.replacement
        IN /\ frozen' = SwapRemove(frozen, k)
           /\ workers' = With(Without(workers, r), fw.worker, <<fw.parent>>)
           /\ IF r \in DOMAIN workers
              THEN /\ proc' = [proc EXCEPT ![r] = Dead, ![fw.worker] = Continued(@)]
                   /\ Emit(r, "disconnected", 0) \/ UNCHANGED out
              ELSE /\ proc' = [proc EXCEPT ![fw.worker] = Continued(@)]
                   /\ UNCHANGED out
  BY DEF ResumeFrozen, Discarded
<1>2. PICK r, w, i : r = frozen[k].replacement /\ w = frozen[k].worker /\ i = frozen[k].parent
  OBVIOUS
<1>3. /\ ToldTyped /\ Working(proc) /\ frozen \in Seq(Frozen)
      /\ k \in DOMAIN frozen /\ NamedOnce(DOMAIN workers, frozen, next_worker_id)
  BY DEF PoolInv, PoolTyped, HeldTyped, WorkTyped, Named, Resumable
<1>4. r \in WorkerId /\ w \in WorkerId /\ w \notin DOMAIN workers /\ w \in FrozenWorkers
  <2>1. frozen[k] \in Frozen
    BY <1>3, ElementOfSeq
  <2> QED BY <1>2, <1>3, <2>1 DEF Frozen, NamedOnce, FrozenWorkers
<1>5. r \in DOMAIN workers => r # w
  BY <1>4
<1>6. workers' = With(Without(workers, r), w, <<i>>)
  BY <1>1, <1>2
<1>7. /\ w \in DOMAIN workers' /\ workers'[w] = <<i>>
      /\ r \in DOMAIN workers => r \notin DOMAIN workers'
      /\ \A v \in WorkerId \ {w} : v # r \/ r \notin DOMAIN workers =>
           /\ v \in DOMAIN workers' <=> v \in DOMAIN workers
           /\ v \in DOMAIN workers => workers'[v] = workers[v]
  BY <1>4, <1>5, <1>6 DEF With, Without
<1>8. /\ proc'[w] = Continued(proc[w]) /\ (r \in DOMAIN workers => proc'[r] = Dead)
      /\ \A v \in WorkerId \ {w} : v # r \/ r \notin DOMAIN workers => proc'[v] = proc[v]
  BY <1>1, <1>2, <1>3, <1>4, <1>5 DEF Working
<1>9. /\ \A v \in WorkerId \ {r} : out'[v] = out[v]
      /\ r \notin DOMAIN workers => out'[r] = out[r]
  BY <1>1, <1>2, <1>3, <1>4, EmitSays
<1>10. out'[w] = out[w]
  BY <1>4, <1>5, <1>9
<1>11. frozen' = SwapRemove(frozen, k)
  BY <1>1
<1>12. \A v \in WorkerId \ {w} : v # r \/ r \notin DOMAIN workers => out'[v] = out[v]
  BY <1>9
<1> QED BY <1>2, <1>3, <1>4, <1>7, <1>8, <1>10, <1>11, <1>12 DEF Revives

\* What the loop does by itself to worker v and its process.
Given(v, b) ==
    /\ v \in DOMAIN workers /\ workers[v] = << >> /\ Distinct(b)
    /\ v \in DOMAIN workers' /\ workers'[v] = b
    /\ proc'[v] = IF Alive(v) THEN [proc[v] EXCEPT !.inbox = Append(@, b)] ELSE proc[v]

Spawned(v) ==
    /\ v \notin DOMAIN workers \cup FrozenWorkers /\ proc[v] = NoProc /\ proc'[v] \in {NoProc, Fresh}
    /\ out[v] = << >> /\ (v \in DOMAIN workers' => workers'[v] = << >>)

Gone(v) == ~Alive(v) /\ proc'[v] = proc[v]

Stays(v) ==
    /\ v \in DOMAIN workers' <=> v \in DOMAIN workers
    /\ v \in DOMAIN workers => workers'[v] = workers[v]

LEMMA LoopGives ==
    ASSUME PoolInv, TrackInv, [PoolNext]_poolVars, ~ResumeFrozen,
           ~\E w \in WorkerId : ProcStep(w) \/ Crash(w) \/ Handle(w)
    PROVE  /\ UNCHANGED <<frozen, out>>
           /\ \A v \in WorkerId :
                \/ proc'[v] = proc[v] /\ Stays(v)
                \/ proc'[v] = Dead /\ Stays(v)
                \/ Gone(v) /\ (v \in DOMAIN workers' => v \in DOMAIN workers)
                \/ \E b : Given(v, b)
                \/ Spawned(v)
<1>1. Working(proc) /\ Mapped(workers) /\ UNCHANGED <<frozen, out>>
  BY DEF PoolInv, PoolTyped, HeldTyped, WorkTyped, PoolNext, LoopStep, NothingToResume, AssignBatch,
         AssignToDead, SpawnWorker, Assigned, EndPhase, Cancel, Shutdown, Down, RetryReady, poolVars
<1>2. CASE SpawnWorker
  <2>1. PICK r : r = next_worker_id
    OBVIOUS
  <2>2. /\ r \in WorkerId
        /\ \/ workers' = With(workers, r, << >>) /\ proc' = [proc EXCEPT ![r].state = "idle"]
           \/ UNCHANGED <<workers, proc>>
    BY <1>2, <2>1 DEF SpawnWorker
  <2>3. r \in Nat /\ r >= r
    BY <2>2, WorkerPoolAssumption DEF WorkerId
  <2>4. proc[r] = NoProc /\ out[r] = << >>
    BY <2>1, <2>2, <2>3 DEF TrackInv
  <2>5. r \notin DOMAIN workers \cup FrozenWorkers
    BY <2>1, <2>2, <2>3, HandedOut
  <2>6. \A v \in WorkerId \ {r} : proc'[v] = proc[v] /\ Stays(v)
    BY <1>1, <2>2 DEF With, Working, Stays
  <2>7. proc'[r] \in {NoProc, Fresh} /\ (r \in DOMAIN workers' => workers'[r] = << >>)
    BY <1>1, <2>2, <2>4, <2>5 DEF With, Working, Fresh
  <2>8. Spawned(r)
    BY <2>4, <2>5, <2>7 DEF Spawned
  <2> QED BY <1>1, <2>6, <2>8
<1>3. CASE Shutdown
  <2>1. \A v \in WorkerId : proc'[v] \in {Dead, proc[v]} /\ Stays(v)
    BY <1>3 DEF Shutdown, Stays
  <2> QED BY <1>1, <2>1
<1>4. ASSUME NEW w \in WorkerId, AssignBatch(w)
      PROVE  \E b : Given(w, b) /\ \A v \in WorkerId \ {w} : proc'[v] = proc[v] /\ Stays(v)
  <2>1. PICK k \in PullSizes : \E b :
          /\ b = SubSeq(co.ready, 1, k)
          /\ workers' = [workers EXCEPT ![w] = b]
          /\ proc' = IF Alive(w) THEN [proc EXCEPT ![w].inbox = Append(@, b)] ELSE proc
    BY <1>4 DEF AssignBatch
  <2>2. PICK b :
          /\ b = SubSeq(co.ready, 1, k)
          /\ workers' = [workers EXCEPT ![w] = b]
          /\ proc' = IF Alive(w) THEN [proc EXCEPT ![w].inbox = Append(@, b)] ELSE proc
    BY <2>1
  <2>3. w \in DOMAIN workers /\ workers[w] = << >>
    BY <1>4 DEF AssignBatch, Idle
  <2>4. co.ready \in Seq(ItemId) /\ Distinct(co.ready) /\ k \in 0 .. Len(co.ready)
    BY PullsSome DEF PoolInv, Good, Sound, Typed, Coordinators
  <2>5. Distinct(b)
    BY <2>2, <2>4, SplitDistinct
  <2>6. w \in DOMAIN workers' /\ workers'[w] = b
    BY <2>2, <2>3
  <2>7. proc'[w] = IF Alive(w) THEN [proc[w] EXCEPT !.inbox = Append(@, b)] ELSE proc[w]
    BY <1>1, <2>2 DEF Working
  <2>8. \A v \in WorkerId \ {w} : proc'[v] = proc[v] /\ Stays(v)
    BY <1>1, <2>2 DEF Working, Stays
  <2> QED BY <2>3, <2>5, <2>6, <2>7, <2>8 DEF Given
<1>5. CASE \E w \in WorkerId : AssignBatch(w)
  BY <1>1, <1>4, <1>5
<1>6. CASE \E w \in WorkerId : AssignToDead(w)
  <2>1. PICK w \in WorkerId : AssignToDead(w)
    BY <1>6
  <2>2. Gone(w) /\ w \notin DOMAIN workers'
    BY <2>1 DEF AssignToDead, Gone, Without
  <2>3. \A v \in WorkerId \ {w} : proc'[v] = proc[v] /\ Stays(v)
    BY <2>1 DEF AssignToDead, Without, Stays
  <2> QED BY <1>1, <2>2, <2>3
<1>7. CASE NothingToResume \/ Assigned \/ EndPhase \/ Cancel \/ Down \/ UNCHANGED poolVars
           \/ \E i \in PhaseItem : RetryReady(i)
  <2>1. UNCHANGED <<workers, proc>>
    BY <1>7 DEF NothingToResume, Assigned, EndPhase, Cancel, Down, RetryReady, poolVars
  <2> QED BY <1>1, <2>1 DEF Stays
<1> QED BY <1>2, <1>3, <1>5, <1>6, <1>7 DEF PoolNext, LoopStep

LEMMA NotStopped ==
    ASSUME NEW w, w \notin FrozenWorkers
    PROVE  StoppedIn(w) = {}
BY DEF StoppedIn, FrozenWorkers

LEMMA EmptyInHand ==
    ASSUME NEW w, out[w] = << >>, proc'[w] \in {NoProc, Fresh}, out'[w] = out[w], Booked(w)' = {}
    PROVE  HandOf(w)'
<1>1. CASE proc'[w] = NoProc
  BY <1>1, FreshIsEmpty DEF HandOf, Lives, Alive
<1>2. CASE proc'[w] = Fresh
  BY <1>2, FreshIsEmpty, NewOrderly DEF HandOf
<1> QED BY <1>1, <1>2

LEMMA SubmitHand ==
    ASSUME PoolInv, TrackInv, HandInv, NEW w \in WorkerId, Submit(w)
    PROVE  HandInv'
<1>1. /\ out[w] # << >> /\ out'[w] = Tail(out[w])
      /\ \A v \in WorkerId \ {w} : out'[v] = out[v]
  BY Hears DEF Submit
<1>2. PICK p, o, B : p = proc[w] /\ o = out[w] /\ B = Booked(w)
  OBVIOUS
<1>3. p \in Process /\ o \in Seq(Message) /\ (Lives(w) => Orderly(Tail(o), p, B))
  BY <1>1, <1>2, WorkerTyped, HeardOrderly DEF HandInv, HandOf
<1>4. CASE ~(w \in DOMAIN workers /\ workers[w] # << >>)
  <2>1. UNCHANGED <<workers, frozen, proc>>
    BY <1>4 DEF Submit
  <2>2. \A v : Booked(v)' = Booked(v)
    BY <2>1, SameStopped, SameBooked
  <2>3. Lives(w)' <=> Lives(w)
    BY <2>1 DEF Lives, Alive
  <2>4. HandOf(w)'
    BY <1>1, <1>2, <1>3, <2>1, <2>2, <2>3 DEF HandOf
  <2>5. \A v \in WorkerId \ {w} : HandOf(v)'
    BY <1>1, <2>1, <2>2, AloneInHand DEF HandInv
  <2> QED BY <2>4, <2>5 DEF HandInv
<1>5. CASE w \in DOMAIN workers /\ workers[w] # << >>
  <2>1. PICK r : Stops(w, r)
    BY <1>5, SubmitStops
  <2>2. PICK e : e.worker = w /\ e.parent = Head(workers[w]) /\ frozen' = Append(frozen, e)
    BY <2>1 DEF Stops
  <2>3. frozen \in Seq(Frozen) /\ w \notin FrozenWorkers
    BY <1>5, WorkerTyped DEF PoolInv, PoolTyped, HeldTyped
  <2>4. /\ \A v : v # w => StoppedIn(v)' = StoppedIn(v)
        /\ StoppedIn(w)' = StoppedIn(w) \cup {Head(workers[w])}
    BY <2>2, <2>3, StoppedMore
  <2>5. ASSUME NEW v \in WorkerId \ {w, r} PROVE HandOf(v)'
    <3>1. /\ v \in DOMAIN workers' <=> v \in DOMAIN workers
          /\ v \in DOMAIN workers => workers'[v] = workers[v]
          /\ proc'[v] = proc[v]
      BY <2>1 DEF Stops
    <3>2. Booked(v)' = Booked(v)
      BY <2>4, <3>1, SameBooked
    <3> QED BY <1>1, <3>1, <3>2, AloneInHand DEF HandInv
  <2>6. HandOf(r)'
    <3>1. /\ r \in WorkerId /\ r # w /\ r \notin DOMAIN workers \cup FrozenWorkers
          /\ r \in DOMAIN workers' => workers'[r] = << >>
          /\ proc'[r] \in {NoProc, Fresh} /\ out[r] = << >>
      BY <2>1 DEF Stops
    <3>2. StoppedIn(r)' = {}
      BY <2>4, <3>1, NotStopped
    <3>3. Booked(r)' = {}
      BY <3>1, <3>2 DEF Booked, Range
    <3> QED BY <1>1, <3>1, <3>3, EmptyInHand
  <2>7. HandOf(w)'
    <3>1. PICK L, q : L = workers[w] /\ q = proc'[w]
      OBVIOUS
    <3>2. L \in Seq(ItemId) /\ Distinct(L) /\ L # << >>
      BY <1>5, <3>1, WorkerTyped DEF PoolInv, Leases
    <3>3. Range(Tail(L)) = Range(L) \ {Head(L)} /\ Tail(L) \in Seq(ItemId)
      BY <3>2, WithoutHead
    <3>4. Range(Tail(L)) \subseteq ItemId
      BY <3>3 DEF Range
    <3>5. q = Halted(w, Tail(L))
      BY <2>1, <3>1 DEF Stops
    <3>6. WorkTyped
      BY DEF PoolInv, PoolTyped
    <3>7. /\ q.state = p.state /\ q.killed = p.killed
          /\ q.batch = p.batch /\ q.inbox = p.inbox /\ q.kept = p.kept \cup Range(Tail(L))
      BY <1>2, <3>4, <3>5, <3>6, HaltKeeps
    <3>8. B = Range(L) /\ Booked(w)' = StoppedIn(w)' /\ Head(L) \in Booked(w)'
      BY <1>2, <1>5, <2>1, <2>4, <3>1 DEF Booked, Stops
    <3>9. B \subseteq Booked(w)' \cup Range(Tail(L))
      BY <3>3, <3>8
    <3>10. Lives(w) => Orderly(Tail(o), q, Booked(w)')
      BY <1>3, <3>7, <3>9, HaltOrderly
    <3>11. Lives(w)' <=> Lives(w)
      BY <1>2, <3>1, <3>7 DEF Lives, Alive
    <3> QED BY <1>1, <1>2, <3>1, <3>10, <3>11 DEF HandOf
  <2> QED BY <2>5, <2>6, <2>7 DEF HandInv
<1> QED BY <1>4, <1>5

LEMMA ResumeHand ==
    ASSUME PoolInv, HandInv, ResumeFrozen
    PROVE  HandInv'
<1>1. PICK k \in DOMAIN frozen : \E w, r : Revives(k, w, r)
  BY ResumeRevives
<1>2. PICK w, r : Revives(k, w, r)
  BY <1>1
<1>3. frozen \in Seq(Frozen) /\ NamedOnce(DOMAIN workers, frozen, next_worker_id)
  BY DEF PoolInv, PoolTyped, HeldTyped, Named
<1>4. \A v : v # w => StoppedIn(v)' = StoppedIn(v)
  BY <1>2, <1>3, StoppedLess DEF Revives
<1>5. ASSUME NEW v \in WorkerId \ {w}, v # r \/ r \notin DOMAIN workers
      PROVE  HandOf(v)'
  <2>1. /\ proc'[v] = proc[v] /\ out'[v] = out[v]
        /\ v \in DOMAIN workers' <=> v \in DOMAIN workers
        /\ v \in DOMAIN workers => workers'[v] = workers[v]
    BY <1>2, <1>5 DEF Revives
  <2>2. Booked(v)' = Booked(v)
    BY <1>4, <2>1, SameBooked
  <2> QED BY <2>1, <2>2, AloneInHand DEF HandInv
<1>6. ASSUME r \in DOMAIN workers PROVE HandOf(r)'
  <2>1. proc'[r] = Dead
    BY <1>2, <1>6 DEF Revives
  <2> QED BY <2>1, FreshIsEmpty DEF HandOf, Lives, Alive
<1>7. HandOf(w)'
  <2>1. PICK p, q, o : p = proc[w] /\ q = proc'[w] /\ o = out[w]
    OBVIOUS
  <2>2. w \in WorkerId /\ q = Continued(p) /\ out'[w] = o
    BY <1>2, <2>1 DEF Revives
  <2>3. p \in Process /\ Sane(p)
    BY <2>1, <2>2, WorkerTyped
  <2>4. /\ q.state = p.state /\ q.killed = p.killed
        /\ q.batch = p.batch /\ q.inbox = p.inbox /\ q.kept = p.kept
    BY <2>2, <2>3, FlagsKeep
  <2>5. Booked(w)' = {frozen[k].parent}
    <3>1. w \in DOMAIN workers' /\ workers'[w] = <<frozen[k].parent>>
      BY <1>2 DEF Revives
    <3>2. \A i : Range(<<i>>) = {i}
      BY DEF Range
    <3> QED BY <3>1, <3>2 DEF Booked
  <2>6. Booked(w) = {frozen[k].parent}
    <3>1. w \notin DOMAIN workers /\ w = frozen[k].worker
      BY <1>2 DEF Revives
    <3>2. \A j \in DOMAIN frozen : frozen[j].worker = w => j = k
      BY <1>3, <3>1 DEF NamedOnce
    <3>3. { j \in DOMAIN frozen : frozen[j].worker = w } = {k}
      BY <3>1, <3>2
    <3> QED BY <3>1, <3>3 DEF Booked, StoppedIn
  <2>7. Lives(w) => Orderly(o, p, Booked(w))
    BY <2>1, <2>2 DEF HandInv, HandOf
  <2>8. Lives(w) => Orderly(o, q, Booked(w)')
    BY <2>4, <2>5, <2>6, <2>7, SameInHand
  <2>9. Lives(w)' <=> Lives(w)
    BY <2>1, <2>4 DEF Lives, Alive
  <2> QED BY <2>1, <2>2, <2>8, <2>9 DEF HandOf
<1> QED BY <1>5, <1>6, <1>7 DEF HandInv

LEMMA GivenHand ==
    ASSUME PoolInv, HandInv, NEW w \in WorkerId, NEW b, Given(w, b), out'[w] = out[w]
    PROVE  HandOf(w)'
<1>1. PICK p, q, o : p = proc[w] /\ q = proc'[w] /\ o = out[w]
  OBVIOUS
<1>2. p \in Process
  BY <1>1, WorkerTyped
<1>3. Booked(w) = {} /\ Booked(w)' = Range(b)
  BY DEF Given, Booked, Range
<1>4. CASE ~Alive(w)
  <2>1. ~Alive(w)'
    BY <1>4 DEF Given, Alive
  <2> QED BY <2>1 DEF HandOf, Lives
<1>5. CASE Alive(w)
  <2>1. q = [p EXCEPT !.inbox = Append(@, b)]
    BY <1>1, <1>5 DEF Given
  <2>2. /\ q.state = p.state /\ q.killed = p.killed
        /\ q.batch = p.batch /\ q.inbox = Append(p.inbox, b) /\ q.kept = p.kept
    BY <1>2, <2>1 DEF Process
  <2>3. Lives(w)' <=> Lives(w)
    BY <1>1, <2>2 DEF Lives, Alive
  <2>4. Distinct(b)
    BY DEF Given
  <2>5. Lives(w) => Orderly(o, p, {})
    BY <1>1, <1>3 DEF HandInv, HandOf
  <2>6. Lives(w) => Orderly(o, q, Range(b))
    BY <1>2, <2>2, <2>4, <2>5, PullOrderly
  <2> QED BY <1>1, <1>3, <2>3, <2>6 DEF HandOf
<1> QED BY <1>4, <1>5

LEMMA LoopHand ==
    ASSUME PoolInv, TrackInv, HandInv, [PoolNext]_poolVars, ~ResumeFrozen,
           ~\E w \in WorkerId : ProcStep(w) \/ Crash(w) \/ Handle(w)
    PROVE  HandInv'
<1>1. UNCHANGED <<frozen, out>>
  BY LoopGives
<1>2. \A v : StoppedIn(v)' = StoppedIn(v)
  BY <1>1, SameStopped
<1>3. ASSUME NEW v \in WorkerId PROVE HandOf(v)'
  <2>1. CASE proc'[v] = proc[v] /\ Stays(v)
    <3>1. Booked(v)' = Booked(v)
      BY <1>2, <2>1, SameBooked DEF Stays
    <3> QED BY <1>1, <2>1, <3>1, AloneInHand DEF HandInv
  <2>2. CASE proc'[v] = Dead
    BY <2>2, FreshIsEmpty DEF HandOf, Lives, Alive
  <2>3. CASE Gone(v)
    BY <2>3 DEF Gone, HandOf, Lives, Alive
  <2>4. CASE \E b : Given(v, b)
    BY <1>1, <2>4, GivenHand
  <2>5. CASE Spawned(v)
    <3>1. StoppedIn(v) = {}
      BY <2>5, NotStopped DEF Spawned
    <3>2. Booked(v)' = {}
      BY <1>2, <2>5, <3>1 DEF Spawned, Booked, Range
    <3> QED BY <1>1, <2>5, <3>2, EmptyInHand DEF Spawned
  <2> QED BY <1>3, <2>1, <2>2, <2>3, <2>4, <2>5, LoopGives
<1> QED BY <1>3 DEF HandInv

LEMMA HandKeeps == PoolInv /\ TrackInv /\ HandInv /\ [PoolNext]_poolVars => HandInv'
BY ProcessesHand, StepEndHand, SubmitHand, ResumeHand, LoopHand DEF Handle

LEMMA InitHand == PoolInit => HandInv
<1> SUFFICES ASSUME PoolInit PROVE HandInv
  OBVIOUS
<1>1. \A w \in WorkerId : proc[w] = NoProc
  BY DEF PoolInit
<1> QED BY <1>1, FreshIsEmpty DEF HandInv, HandOf, Lives, Alive

LEMMA BooksAlways == PoolSpec => [](PoolInv /\ TrackInv /\ HandInv)
<1>1. PoolInv /\ TrackInv /\ HandInv /\ [PoolNext]_poolVars => PoolInv' /\ TrackInv' /\ HandInv'
  BY PoolKeeps, TrackKeeps, HandKeeps
<1> QED BY <1>1, InitPool, InitTracks, InitHand, PTL DEF PoolSpec

LEMMA BookedOnce ==
    ASSUME PoolInv, NEW w
    PROVE  /\ \A v : v # w => Booked(v) \cap Booked(w) = {}
           /\ Booked(w) \cap Range(co.ready) = {}
<1>1. Leases(co, workers) /\ Blocked(co, workers, frozen) /\ Apart(co)
  BY DEF PoolInv, Good, Sound
<1>2. Parked(co) \cap Range(co.ready) = {}
  BY DEF Parked, Queued
<1>3. Booked(w) \cap Range(co.ready) = {}
  <2>1. CASE w \in DOMAIN workers
    <3>1. CASE Range(workers[w]) \subseteq co.executing
      BY <1>1, <2>1, <3>1 DEF Apart, Booked
    <3>2. CASE \E i \in Resumed(co) : workers[w] = <<i>>
      <4>1. PICK i \in Resumed(co) : workers[w] = <<i>>
        BY <3>2
      <4>2. Range(<<i>>) = {i} /\ i \in Parked(co)
        BY DEF Resumed, Range
      <4> QED BY <1>2, <2>1, <4>1, <4>2 DEF Booked
    <3> QED BY <1>1, <2>1, <3>1, <3>2 DEF Leases
  <2>2. CASE w \notin DOMAIN workers
    BY <1>1, <1>2, <2>2 DEF Booked, StoppedIn, Blocked
  <2> QED BY <2>1, <2>2
<1>4. ASSUME NEW v, v # w, NEW i \in Booked(v) \cap Booked(w) PROVE FALSE
  <2>1. CASE v \in DOMAIN workers /\ w \in DOMAIN workers
    BY <1>1, <1>4, <2>1 DEF Leases, Booked
  <2>2. CASE v \notin DOMAIN workers /\ w \notin DOMAIN workers
    <3>1. PICK j, k \in DOMAIN frozen : /\ frozen[j].worker = v /\ frozen[j].parent = i
                                        /\ frozen[k].worker = w /\ frozen[k].parent = i
      BY <1>4, <2>2 DEF Booked, StoppedIn
    <3> QED BY <1>1, <1>4, <3>1 DEF Blocked
  <2>3. CASE v \in DOMAIN workers /\ w \notin DOMAIN workers
    BY <1>1, <1>4, <2>3 DEF Blocked, Booked, StoppedIn
  <2>4. CASE v \notin DOMAIN workers /\ w \in DOMAIN workers
    BY <1>1, <1>4, <2>4 DEF Blocked, Booked, StoppedIn
  <2> QED BY <2>1, <2>2, <2>3, <2>4
<1> QED BY <1>3, <1>4

\* No step is in the hands of two processes, nor queued while it is in the
\* hands of one, however workers fail, die, stop and are replaced, whatever is
\* pulled together and however many steps call parallel(): but for the steps
\* that return_leases takes back from a worker that is stopped (io_loop.rs).
THEOREM OneExecution == PoolSpec => []OneLiveExecution
<1>1. ASSUME PoolInv, TrackInv, HandInv PROVE OneLiveExecution
  <2>1. ASSUME NEW w \in WorkerId, Lives(w)
        PROVE  Ordered(w) \subseteq Booked(w)
    <3>1. Orderly(out[w], proc[w], Booked(w))
      BY <1>1, <2>1 DEF HandInv, HandOf
    <3>2. Held(w) = InHand(proc[w])
      BY DEF Held, InHand
    <3> QED BY <3>1, <3>2 DEF Orderly, Ordered
  <2>2. \A w : /\ \A v : v # w => Booked(v) \cap Booked(w) = {}
               /\ Booked(w) \cap Range(co.ready) = {}
    BY <1>1, BookedOnce
  <2> SUFFICES ASSUME NEW w \in WorkerId, Lives(w)
               PROVE  /\ \A v \in WorkerId \ {w} : Lives(v) => Ordered(w) \cap Ordered(v) = {}
                      /\ Ordered(w) \cap Range(co.ready) = {}
    BY DEF OneLiveExecution
  <2>3. ASSUME NEW v \in WorkerId \ {w}, Lives(v) PROVE Ordered(w) \cap Ordered(v) = {}
    <3>1. Ordered(w) \subseteq Booked(w) /\ Ordered(v) \subseteq Booked(v)
      BY <2>1, <2>3
    <3>2. Booked(w) \cap Booked(v) = {}
      BY <2>2
    <3> QED BY <3>1, <3>2
  <2>4. Ordered(w) \subseteq Booked(w) /\ Booked(w) \cap Range(co.ready) = {}
    BY <2>1, <2>2
  <2> QED BY <2>3, <2>4
<1> QED BY <1>1, BooksAlways, PTL

-----------------------------------------------------------------------------
(***************************************************************************)
(* When a parallel() call is answered.  A process that nothing was taken   *)
(* back from has one batch at a time, stops talking when it has failed, and*)
(* when it has asked for branches says nothing but that it failed.         *)
(***************************************************************************)
Calm(o, p) ==
    /\ p.inbox # << >> => Tail(p.inbox) = << >> /\ p.batch = << >>
    /\ \A j \in DOMAIN o :
         /\ o[j].kind = "error" =>
              j = Len(o) /\ p.state = "idle" /\ p.batch = << >> /\ p.inbox = << >>
         /\ o[j].kind = "submit" =>
              \/ j = Len(o) /\ p.state = "waiting"
              \/ j + 1 = Len(o) /\ o[Len(o)].kind = "error"

Only(o, kinds) == \A j \in DOMAIN o : o[j].kind \in kinds

\* What process p of worker w is when nothing was taken back from it.
Steady(w, o, p) ==
    /\ Calm(o, p)
    /\ w \in FrozenWorkers => p.stopped /\ Only(o, {"error"})
    /\ p.answer => /\ p.state = "waiting" /\ ~p.stopped /\ o = << >>
                   /\ w \in DOMAIN workers /\ workers[w] # << >>

CalmOf(w) ==
    /\ w \in DOMAIN workers \cup FrozenWorkers => ~proc[w].killed
    /\ ~Alive(w) => ~proc[w].answer
    /\ Alive(w) /\ proc[w].kept = {} => Steady(w, out[w], proc[w])

CalmInv == \A w \in WorkerId : CalmOf(w)

LEMMA CalmSilent ==
    ASSUME NEW o \in Seq(Message), NEW p, Calm(o, p)
    PROVE  /\ (p.state # "idle" \/ p.batch # << >> \/ p.inbox # << >>) =>
                Only(o, {"completed", "submit", "disconnected"})
           /\ (p.state = "running" \/ (p.state = "idle" /\ (p.batch # << >> \/ p.inbox # << >>))) =>
                Only(o, {"completed", "disconnected"})
<1>1. \A j \in DOMAIN o : o[j].kind \in {"completed", "error", "submit", "disconnected"}
  <2>1. \A j \in DOMAIN o : o[j] \in Message
    OBVIOUS
  <2> QED BY <2>1 DEF Message
<1>2. (p.state # "idle" \/ p.batch # << >> \/ p.inbox # << >>) =>
        \A j \in DOMAIN o : o[j].kind # "error"
  BY DEF Calm
<1>3. ASSUME p.state # "idle" \/ p.batch # << >> \/ p.inbox # << >>, p.state # "waiting"
      PROVE  \A j \in DOMAIN o : o[j].kind # "submit"
  <2> SUFFICES ASSUME NEW j \in DOMAIN o, o[j].kind = "submit" PROVE FALSE
    OBVIOUS
  <2>1. o[Len(o)].kind = "error"
    BY <1>3 DEF Calm
  <2>2. Len(o) \in DOMAIN o
    OBVIOUS
  <2> QED BY <1>2, <1>3, <2>1, <2>2
<1> QED BY <1>1, <1>2, <1>3 DEF Only

\* The process says how its step went.
LEMMA CalmEnds ==
    ASSUME NEW o \in Seq(Message), NEW p, Calm(o, p), Only(o, {"completed", "submit", "disconnected"}),
           NEW q, q.inbox = << >>, NEW m,
           \/ m.kind = "error" /\ q.state = "idle" /\ q.batch = << >>
           \/ m.kind = "completed" /\ Only(o, {"completed", "disconnected"})
           \/ m.kind = "submit" /\ Only(o, {"completed", "disconnected"}) /\ q.state = "waiting"
    PROVE  Calm(Append(o, m), q)
<1>1. PICK o1, n : o1 = Append(o, m) /\ n = Len(o) + 1
  OBVIOUS
<1>2. /\ DOMAIN o1 = DOMAIN o \cup {n} /\ o1[n] = m /\ Len(o1) = n
      /\ \A j \in DOMAIN o : o1[j] = o[j]
      /\ \A j \in DOMAIN o : j \in 1 .. Len(o)
  BY <1>1, Appended
<1>3. \A j \in DOMAIN o : o1[j].kind # "error"
  BY <1>2 DEF Only
<1>4. ASSUME NEW j \in DOMAIN o1, o1[j].kind = "error"
      PROVE  j = Len(o1) /\ q.state = "idle" /\ q.batch = << >> /\ q.inbox = << >>
  <2>1. j = n
    BY <1>2, <1>3, <1>4
  <2> QED BY <1>2, <1>4, <2>1
<1>5. ASSUME NEW j \in DOMAIN o1, o1[j].kind = "submit"
      PROVE  \/ j = Len(o1) /\ q.state = "waiting"
             \/ j + 1 = Len(o1) /\ o1[Len(o1)].kind = "error"
  <2>1. CASE j = n
    BY <1>2, <1>5, <2>1
  <2>2. CASE j \in DOMAIN o
    <3>1. o[j].kind = "submit"
      BY <1>2, <1>5, <2>2
    <3>2. m.kind = "error"
      BY <2>2, <3>1 DEF Only
    <3>3. j = Len(o)
      <4>1. Len(o) \in DOMAIN o
        BY <2>2
      <4>2. o[Len(o)].kind # "error"
        BY <4>1 DEF Only
      <4> QED BY <2>2, <3>1, <4>2 DEF Calm
    <3> QED BY <1>1, <1>2, <3>2, <3>3
  <2> QED BY <1>2, <2>1, <2>2
<1>6. q.inbox # << >> => Tail(q.inbox) = << >> /\ q.batch = << >>
  OBVIOUS
<1>7. Calm(o1, q)
  BY <1>4, <1>5, <1>6 DEF Calm
<1> QED BY <1>1, <1>7

\* The loop hears a message; after a call for branches only an error can be left.
LEMMA CalmHeard ==
    ASSUME NEW o \in Seq(Message), o # << >>, NEW p, Calm(o, p)
    PROVE  /\ Calm(Tail(o), p)
           /\ \A kinds : Only(o, kinds) => Only(Tail(o), kinds)
           /\ Head(o).kind = "submit" => Only(Tail(o), {"error"})
<1>1. PICK o1, n : o1 = Tail(o) /\ n = Len(o)
  OBVIOUS
<1>2. /\ Head(o) = o[1] /\ 1 \in DOMAIN o /\ o1 \in Seq(Message) /\ n \in Nat \ {0} /\ Len(o1) = n - 1
      /\ \A j \in DOMAIN o1 : j + 1 \in DOMAIN o /\ o1[j] = o[j + 1]
  BY <1>1, FirstAndRest
<1>3. DOMAIN o1 = 1 .. n - 1
  BY <1>2
<1>4. ASSUME NEW j \in DOMAIN o1
      PROVE  /\ j \in Nat /\ j \in 1 .. n - 1 /\ (j + 1 = n => j = Len(o1)) /\ (j + 1 + 1 = n => j + 1 = Len(o1))
  BY <1>2, <1>3
<1>5. n - 1 \in DOMAIN o1 => o1[Len(o1)] = o[n]
  BY <1>2
<1>6. ASSUME NEW j \in DOMAIN o1
      PROVE  /\ o1[j].kind = "error" =>
                  j = Len(o1) /\ p.state = "idle" /\ p.batch = << >> /\ p.inbox = << >>
             /\ o1[j].kind = "submit" =>
                  \/ j = Len(o1) /\ p.state = "waiting"
                  \/ j + 1 = Len(o1) /\ o1[Len(o1)].kind = "error"
  <2>1. PICK k \in DOMAIN o : k = j + 1 /\ o1[j] = o[k]
    BY <1>2
  <2>2. /\ o[k].kind = "error" =>
             k = n /\ p.state = "idle" /\ p.batch = << >> /\ p.inbox = << >>
        /\ o[k].kind = "submit" =>
             \/ k = n /\ p.state = "waiting"
             \/ k + 1 = n /\ o[n].kind = "error"
    BY <1>1, <2>1 DEF Calm
  <2>3. n - 1 \in DOMAIN o1
    BY <1>2, <1>3, <1>4
  <2> QED BY <1>4, <1>5, <2>1, <2>2, <2>3
<1>7. Calm(o1, p)
  <2>1. p.inbox # << >> => Tail(p.inbox) = << >> /\ p.batch = << >>
    BY DEF Calm
  <2> QED BY <1>6, <2>1 DEF Calm
<1>8. \A kinds : Only(o, kinds) => Only(o1, kinds)
  BY <1>2 DEF Only
<1>9. Head(o).kind = "submit" => Only(o1, {"error"})
  <2> SUFFICES ASSUME o[1].kind = "submit", NEW j \in DOMAIN o1 PROVE o1[j].kind = "error"
    BY <1>2 DEF Only
  <2>1. n # 1
    BY <1>3, <1>4
  <2>2. 1 + 1 = n /\ o[n].kind = "error"
    BY <1>1, <1>2, <2>1 DEF Calm
  <2>3. j = 1
    BY <1>3, <2>2
  <2> QED BY <1>2, <2>2, <2>3
<1> QED BY <1>1, <1>7, <1>8, <1>9

\* A process that waits and of which nothing but errors is left has said nothing.
LEMMA CalmWaits ==
    ASSUME NEW o \in Seq(Message), NEW p, Calm(o, p), Only(o, {"error"}), p.state = "waiting"
    PROVE  o = << >>
<1> SUFFICES ASSUME o # << >> PROVE FALSE
  OBVIOUS
<1>1. 1 \in DOMAIN o
  BY FirstAndRest
<1> QED BY <1>1 DEF Only, Calm

\* Only the flags of the process change.
LEMMA CalmSame ==
    ASSUME NEW o, NEW p, Calm(o, p), NEW q, q.state = p.state, q.batch = p.batch, q.inbox = p.inbox
    PROVE  Calm(o, q)
BY DEF Calm

\* The next batch is taken up, the answer is received.
LEMMA CalmGoesOn ==
    ASSUME NEW o \in Seq(Message), NEW p \in Process, Sane(p), Calm(o, p)
    PROVE  /\ p.state = "idle" /\ (p.batch # << >> \/ p.inbox # << >>) => Calm(o, Begun(p))
           /\ p.state = "waiting" /\ o = << >> => Calm(o, GoingOn(p))
<1>1. ASSUME p.state = "idle", p.batch # << >> \/ p.inbox # << >> PROVE Calm(o, Begun(p))
  <2>1. PICK q : q = Begun(p)
    OBVIOUS
  <2>2. /\ IF p.batch # << >> THEN q.batch = p.batch /\ q.inbox = p.inbox
           ELSE q.batch = Head(p.inbox) /\ q.inbox = Tail(p.inbox)
    BY <1>1, <2>1, ProcessFields
  <2>3. q.inbox = << >>
    BY <1>1, <2>2 DEF Calm
  <2>4. Only(o, {"completed", "disconnected"})
    BY <1>1, CalmSilent
  <2> QED BY <2>1, <2>3, <2>4 DEF Calm, Only
<1>2. ASSUME p.state = "waiting", o = << >> PROVE Calm(o, GoingOn(p))
  <2>1. PICK q : q = GoingOn(p)
    OBVIOUS
  <2>2. q.batch = p.batch /\ q.inbox = p.inbox
    BY <1>2, <2>1, ProcessFields
  <2> QED BY <1>2, <2>1, <2>2 DEF Calm
<1> QED BY <1>1, <1>2

\* A worker that the step leaves alone.
LEMMA AloneCalm ==
    ASSUME NEW v, CalmOf(v), proc'[v] = proc[v], out'[v] = out[v], Stays(v),
           v \in FrozenWorkers' <=> v \in FrozenWorkers
    PROVE  CalmOf(v)'
BY DEF CalmOf, Steady, Stays, Alive

LEMMA SameFrozen ==
    UNCHANGED frozen => FrozenWorkers' = FrozenWorkers
BY DEF FrozenWorkers

\* A process that moves is not stopped, and has no answer when it is through.
LEMMA MovedCalm ==
    ASSUME NEW w, w \notin FrozenWorkers', ~proc'[w].killed, Alive(w)',
           proc'[w].kept = {} => Calm(out'[w], proc'[w]) /\ ~proc'[w].answer
    PROVE  CalmOf(w)'
BY DEF CalmOf, Steady

LEMMA ProcessesCalm ==
    ASSUME PoolInv, CalmInv, NEW w \in WorkerId, ProcStep(w) \/ Crash(w)
    PROVE  CalmInv'
<1>1. /\ \A v \in WorkerId \ {w} : proc'[v] = proc[v] /\ out'[v] = out[v]
      /\ UNCHANGED <<workers, frozen>> /\ FrozenWorkers' = FrozenWorkers
  BY OthersMove, SameFrozen DEF loopVars
<1>2. \A v \in WorkerId \ {w} : CalmOf(v)'
  <2>1. \A v : Stays(v)
    BY <1>1 DEF Stays
  <2> QED BY <1>1, <2>1, AloneCalm DEF CalmInv
<1>3. PICK p, o, q, o1 : p = proc[w] /\ o = out[w] /\ q = proc'[w] /\ o1 = out'[w]
  OBVIOUS
<1>4. p \in Process /\ Sane(p) /\ o \in Seq(Message)
  BY <1>3, WorkerTyped
<1>5. ASSUME Moving(w), p.kept = {} PROVE Steady(w, o, p) /\ Calm(o, p) /\ w \notin FrozenWorkers
  BY <1>3, <1>5 DEF CalmInv, CalmOf, Steady, Moving
<1>6. p.batch # << >> /\ Calm(o, p) => p.inbox = << >>
  BY DEF Calm
<1>7. Moving(w) => ~p.killed
  BY <1>3 DEF Moving
<1>8. ASSUME Moving(w), ~q.killed, q.state \in {"idle", "running", "waiting"}, q.kept = p.kept,
             p.kept = {} => Calm(o1, q) /\ ~q.answer
      PROVE  CalmInv'
  <2>1. Alive(w)' /\ ~proc'[w].killed
    BY <1>3, <1>8 DEF Alive
  <2>2. CalmOf(w)'
    BY <1>1, <1>3, <1>5, <1>8, <2>1 DEF CalmOf, Steady
  <2> QED BY <1>2, <2>2 DEF CalmInv
<1>9. CASE StartStep(w)
  <2>1. Moving(w) /\ UNCHANGED out /\ p.state = "idle" /\ (p.batch # << >> \/ p.inbox # << >>)
    BY <1>3, <1>9 DEF StartStep
  <2>2. q = Begun(p)
    BY <1>3, <1>9, ProcessMoves
  <2>3. q.state = "running" /\ q.killed = p.killed /\ q.answer = p.answer /\ q.kept = p.kept
    BY <1>4, <2>1, <2>2, ProcessFields
  <2>4. ASSUME p.kept = {} PROVE Calm(o1, q) /\ ~q.answer
    <3>1. Steady(w, o, p) /\ Calm(o, p)
      BY <1>5, <2>1, <2>4
    <3>2. Calm(o, q)
      BY <1>4, <2>1, <2>2, <3>1, CalmGoesOn
    <3>3. ~p.answer
      BY <2>1, <3>1 DEF Steady
    <3> QED BY <1>3, <2>1, <2>3, <3>2, <3>3
  <2> QED BY <1>7, <1>8, <2>1, <2>3, <2>4
<1>10. CASE FinishStep(w)
  <2>1. Moving(w) /\ p.state = "running" /\ \E arg : Emit(w, "completed", arg)
    BY <1>3, <1>10 DEF FinishStep
  <2>2. PICK kind, arg : kind = "completed" /\ Emit(w, kind, arg)
    BY <2>1
  <2>3. PICK m : m = [kind |-> kind, arg |-> arg]
    OBVIOUS
  <2>4. o1 = Append(o, m) /\ m.kind = "completed"
    BY <1>3, <2>2, <2>3, Sends
  <2>5. q = Finished(p) /\ p.batch # << >>
    BY <1>3, <1>4, <1>10, <2>1, ProcessMoves DEF Sane
  <2>6. q.state = "idle" /\ q.inbox = p.inbox /\ q.killed = p.killed /\ q.answer = p.answer /\ q.kept = p.kept
    BY <1>4, <2>1, <2>5, ProcessFields
  <2>7. ASSUME p.kept = {} PROVE Calm(o1, q) /\ ~q.answer
    <3>1. Steady(w, o, p) /\ Calm(o, p)
      BY <1>5, <2>1, <2>7
    <3>2. Only(o, {"completed", "disconnected"})
      BY <1>4, <2>1, <3>1, CalmSilent
    <3>3. Only(o, {"completed", "submit", "disconnected"})
      BY <3>2 DEF Only
    <3>4. q.inbox = << >>
      BY <1>6, <2>5, <2>6, <3>1
    <3>5. Calm(Append(o, m), q)
      BY <1>4, <2>4, <3>1, <3>2, <3>3, <3>4, CalmEnds
    <3>6. ~p.answer
      BY <2>1, <3>1 DEF Steady
    <3> QED BY <2>4, <2>6, <3>5, <3>6
  <2> QED BY <1>7, <1>8, <2>1, <2>6, <2>7
<1>11. CASE ErrStep(w)
  <2>1. Moving(w) /\ p.state \in {"running", "waiting"} /\ \E arg : Emit(w, "error", arg)
    BY <1>3, <1>11 DEF ErrStep
  <2>2. PICK kind, arg : kind = "error" /\ Emit(w, kind, arg)
    BY <2>1
  <2>3. PICK m : m = [kind |-> kind, arg |-> arg]
    OBVIOUS
  <2>4. o1 = Append(o, m) /\ m.kind = "error"
    BY <1>3, <2>2, <2>3, Sends
  <2>5. q = Failed(p) /\ p.batch # << >>
    BY <1>3, <1>4, <1>11, <2>1, ProcessMoves DEF Sane
  <2>6. /\ q.state = "idle" /\ q.batch = << >> /\ q.inbox = p.inbox /\ q.killed = p.killed
        /\ ~q.answer /\ q.kept = p.kept
    BY <1>4, <2>5, ProcessFields
  <2>7. ASSUME p.kept = {} PROVE Calm(o1, q) /\ ~q.answer
    <3>1. Calm(o, p)
      BY <1>5, <2>1, <2>7
    <3>2. Only(o, {"completed", "submit", "disconnected"})
      BY <1>4, <2>5, <3>1, CalmSilent
    <3>3. q.inbox = << >>
      BY <1>6, <2>5, <2>6, <3>1
    <3>4. Calm(Append(o, m), q)
      BY <1>4, <2>4, <2>6, <3>1, <3>2, <3>3, CalmEnds
    <3> QED BY <2>4, <2>6, <3>4
  <2> QED BY <1>7, <1>8, <2>1, <2>6, <2>7
<1>12. CASE SubmitCall(w)
  <2>1. Moving(w) /\ p.state = "running" /\ \E arg : Emit(w, "submit", arg)
    BY <1>3, <1>12 DEF SubmitCall
  <2>2. PICK kind, arg : kind = "submit" /\ Emit(w, kind, arg)
    BY <2>1
  <2>3. PICK m : m = [kind |-> kind, arg |-> arg]
    OBVIOUS
  <2>4. o1 = Append(o, m) /\ m.kind = "submit"
    BY <1>3, <2>2, <2>3, Sends
  <2>5. q = Calling(p) /\ p.batch # << >>
    BY <1>3, <1>4, <1>12, <2>1, ProcessMoves DEF Sane
  <2>6. /\ q.state = "waiting" /\ q.inbox = p.inbox /\ q.killed = p.killed
        /\ q.answer = p.answer /\ q.kept = p.kept
    BY <1>4, <2>1, <2>5, ProcessFields
  <2>7. ASSUME p.kept = {} PROVE Calm(o1, q) /\ ~q.answer
    <3>1. Steady(w, o, p) /\ Calm(o, p)
      BY <1>5, <2>1, <2>7
    <3>2. Only(o, {"completed", "disconnected"})
      BY <1>4, <2>1, <3>1, CalmSilent
    <3>3. Only(o, {"completed", "submit", "disconnected"})
      BY <3>2 DEF Only
    <3>4. q.inbox = << >>
      BY <1>6, <2>5, <2>6, <3>1
    <3>5. Calm(Append(o, m), q)
      BY <1>4, <2>4, <2>6, <3>1, <3>2, <3>3, <3>4, CalmEnds
    <3>6. ~p.answer
      BY <2>1, <3>1 DEF Steady
    <3> QED BY <2>4, <2>6, <3>5, <3>6
  <2> QED BY <1>7, <1>8, <2>1, <2>6, <2>7
<1>13. CASE ReceiveAnswer(w)
  <2>1. Moving(w) /\ UNCHANGED out /\ p.state = "waiting" /\ p.answer
    BY <1>3, <1>13 DEF ReceiveAnswer
  <2>2. q = GoingOn(p)
    BY <1>3, <1>13, ProcessMoves
  <2>3. q.state = "running" /\ q.killed = p.killed /\ ~q.answer /\ q.kept = p.kept
    BY <1>4, <2>1, <2>2, ProcessFields
  <2>4. ASSUME p.kept = {} PROVE Calm(o1, q) /\ ~q.answer
    <3>1. Steady(w, o, p) /\ Calm(o, p)
      BY <1>5, <2>1, <2>4
    <3>2. o = << >>
      BY <2>1, <3>1 DEF Steady
    <3>3. Calm(o, q)
      BY <1>4, <2>1, <2>2, <3>1, <3>2, CalmGoesOn
    <3> QED BY <1>3, <2>1, <2>3, <3>3
  <2> QED BY <1>7, <1>8, <2>1, <2>3, <2>4
<1>14. CASE Crash(w) \/ Reap(w)
  <2>1. proc'[w] = Dead
    BY <1>14, ProcessMoves
  <2> QED BY <1>2, <2>1, FreshIsEmpty DEF CalmInv, CalmOf, Alive
<1> QED BY <1>9, <1>10, <1>11, <1>12, <1>13, <1>14 DEF ProcStep

\* The loop hears of a worker, and leaves its process as it is, or stops it.
LEMMA HeardCalm ==
    ASSUME PoolInv, NEW w \in WorkerId, CalmOf(w), out[w] # << >>, out'[w] = Tail(out[w]),
           NEW q, q = proc'[w], q.state = proc[w].state, q.batch = proc[w].batch,
           q.inbox = proc[w].inbox, q.answer = proc[w].answer,
           q.kept = {} => proc[w].kept = {},
           w \in DOMAIN workers' \cup FrozenWorkers' => ~q.killed,
           Alive(w) /\ q.kept = {} /\ w \in FrozenWorkers' =>
              q.stopped /\ Only(Tail(out[w]), {"error"})
    PROVE  CalmOf(w)'
<1>1. PICK p, o : p = proc[w] /\ o = out[w]
  OBVIOUS
<1>2. o \in Seq(Message) /\ o # << >>
  BY <1>1, WorkerTyped
<1>3. Alive(w)' <=> Alive(w)
  BY DEF Alive
<1>4. ~Alive(w)' => ~q.answer
  BY <1>3 DEF CalmOf
<1>5. ASSUME Alive(w), q.kept = {}
      PROVE  Calm(Tail(o), q) /\ ~q.answer
  <2>1. Steady(w, o, p)
    BY <1>1, <1>5 DEF CalmOf
  <2>2. Calm(o, p) /\ ~p.answer
    BY <1>2, <2>1 DEF Steady
  <2>3. Calm(Tail(o), p)
    BY <1>2, <2>2, CalmHeard
  <2> QED BY <1>1, <2>2, <2>3, CalmSame
<1> QED BY <1>1, <1>3, <1>4, <1>5 DEF CalmOf, Steady

LEMMA WithoutNothing ==
    ASSUME NEW s \in Seq(ItemId), Range(s) = {}
    PROVE  s = << >>
<1>1. DOMAIN s = {}
  BY DEF Range
<1> QED BY <1>1

LEMMA StepEndCalm ==
    ASSUME PoolInv, TrackInv, CalmInv, NEW w \in WorkerId,
           StepCompleted(w) \/ StepError(w) \/ Disconnected(w)
    PROVE  CalmInv'
<1>1. PICK kind \in {"completed", "error", "disconnected"} : Received(w, kind)
  BY DEF StepCompleted, StepError, Disconnected
<1>2. /\ out[w] # << >> /\ Head(out[w]).kind = kind /\ out'[w] = Tail(out[w])
      /\ \A v \in WorkerId \ {w} : out'[v] = out[v]
  BY <1>1, Hears
<1>3. /\ UNCHANGED frozen /\ FrozenWorkers' = FrozenWorkers
      /\ \A v \in WorkerId \ {w} : proc'[v] = proc[v] /\ Stays(v)
  <2>1. Working(proc) /\ Mapped(workers)
    BY DEF PoolInv, PoolTyped, HeldTyped, WorkTyped
  <2> QED BY <2>1, SameFrozen DEF StepCompleted, StepError, Disconnected, Without, Working, Stays
<1>4. \A v \in WorkerId \ {w} : CalmOf(v)'
  BY <1>2, <1>3, AloneCalm DEF CalmInv
<1>5. CASE Disconnected(w)
  <2>1. "disconnected" \in Said(out[w]) /\ UNCHANGED proc /\ (w \in DOMAIN workers' => w \in DOMAIN workers)
    BY <1>5, ReceiveSays DEF Disconnected, PoolInv, PoolTyped, Without
  <2>2. ~Alive(w) /\ ~Alive(w)'
    BY <2>1 DEF TrackInv, Alive
  <2>3. CalmOf(w)'
    BY <1>3, <2>1, <2>2 DEF CalmInv, CalmOf
  <2> QED BY <1>4, <2>3 DEF CalmInv
<1>6. CASE StepCompleted(w) \/ StepError(w)
  <2>1. PICK q, p, o : q = proc'[w] /\ p = proc[w] /\ o = out[w]
    OBVIOUS
  <2>2. /\ q.state = p.state /\ q.batch = p.batch /\ q.inbox = p.inbox /\ q.answer = p.answer
        /\ q.kept = p.kept /\ q.stopped = p.stopped
        /\ w \in DOMAIN workers' \cup FrozenWorkers' => ~q.killed
    <3>1. CASE UNCHANGED proc
      <4>1. w \in DOMAIN workers' => w \in DOMAIN workers
        BY <1>6 DEF StepCompleted, StepError, Without
      <4> QED BY <1>3, <2>1, <3>1, <4>1 DEF CalmInv, CalmOf
    <3>2. CASE StepError(w) /\ HasLease(w, Head(out[w]).arg)
      <4>1. proc' = [proc EXCEPT ![w].killed = Alive(w)] /\ workers' = Without(workers, w)
        BY <3>2 DEF StepError
      <4>2. q = [p EXCEPT !.killed = Alive(w)] /\ p \in Process
        BY <2>1, <4>1 DEF PoolInv, PoolTyped, WorkTyped, Working
      <4>3. w \notin DOMAIN workers' \cup FrozenWorkers'
        BY <1>3, <3>2, <4>1, WorkerTyped DEF HasLease, Without
      <4> QED BY <4>2, <4>3 DEF Process
    <3> QED BY <1>6, <3>1, <3>2 DEF StepCompleted, StepError
  <2>3. ASSUME Alive(w), q.kept = {}, w \in FrozenWorkers'
        PROVE  q.stopped /\ Only(Tail(o), {"error"})
    <3>1. Steady(w, o, p) /\ w \in FrozenWorkers
      BY <1>3, <2>1, <2>2, <2>3 DEF CalmInv, CalmOf
    <3>2. p.stopped /\ Only(o, {"error"}) /\ Calm(o, p)
      BY <3>1 DEF Steady
    <3>3. o \in Seq(Message) /\ o # << >>
      BY <1>2, <2>1, WorkerTyped
    <3>4. Only(Tail(o), {"error"})
      BY <3>2, <3>3, CalmHeard
    <3> QED BY <2>2, <3>2, <3>4
  <2>4. CalmOf(w)
    BY DEF CalmInv
  <2>5. CalmOf(w)'
    BY <1>2, <2>1, <2>2, <2>3, <2>4, HeardCalm
  <2> QED BY <1>4, <2>5 DEF CalmInv
<1> QED BY <1>5, <1>6

LEMMA EmptyCalm ==
    ASSUME NEW w, proc'[w] \in {NoProc, Fresh}, out'[w] = << >>, w \notin FrozenWorkers'
    PROVE  CalmOf(w)'
<1>1. CASE proc'[w] = NoProc
  BY <1>1, FreshIsEmpty DEF CalmOf, Alive
<1>2. CASE proc'[w] = Fresh
  <2>1. Calm(<< >>, Fresh)
    BY FreshIsEmpty DEF Calm
  <2> QED BY <1>2, <2>1, FreshIsEmpty DEF CalmOf, Steady, Alive
<1> QED BY <1>1, <1>2

LEMMA SubmitCalm ==
    ASSUME PoolInv, TrackInv, CalmInv, NEW w \in WorkerId, Submit(w)
    PROVE  CalmInv'
<1>1. /\ out[w] # << >> /\ Head(out[w]).kind = "submit" /\ out'[w] = Tail(out[w])
      /\ \A v \in WorkerId \ {w} : out'[v] = out[v]
  BY Hears DEF Submit
<1>2. PICK p, o, q : p = proc[w] /\ o = out[w] /\ q = proc'[w]
  OBVIOUS
<1>3. o \in Seq(Message) /\ o # << >> /\ CalmOf(w)
  BY <1>1, <1>2, WorkerTyped DEF CalmInv
<1>4. ASSUME Alive(w), p.kept = {} PROVE Only(Tail(o), {"error"})
  <2>1. Calm(o, p)
    BY <1>2, <1>3, <1>4 DEF CalmOf, Steady
  <2> QED BY <1>1, <1>2, <1>3, <2>1, CalmHeard
<1>5. CASE ~(w \in DOMAIN workers /\ workers[w] # << >>)
  <2>1. UNCHANGED <<workers, frozen, proc>> /\ FrozenWorkers' = FrozenWorkers
    BY <1>5, SameFrozen DEF Submit
  <2>2. \A v \in WorkerId \ {w} : CalmOf(v)'
    BY <1>1, <2>1, AloneCalm DEF CalmInv, Stays
  <2>3. Alive(w) /\ p.kept = {} /\ w \in FrozenWorkers => p.stopped
    BY <1>2, <1>3 DEF CalmOf, Steady
  <2>4. w \in DOMAIN workers \cup FrozenWorkers => ~p.killed
    BY <1>2, <1>3 DEF CalmOf
  <2>5. CalmOf(w)'
    BY <1>1, <1>2, <1>3, <1>4, <2>1, <2>3, <2>4, HeardCalm
  <2> QED BY <2>2, <2>5 DEF CalmInv
<1>6. CASE w \in DOMAIN workers /\ workers[w] # << >>
  <2>1. PICK r : Stops(w, r)
    BY <1>6, SubmitStops
  <2>2. PICK e : e.worker = w /\ e.parent = Head(workers[w]) /\ frozen' = Append(frozen, e)
    BY <2>1 DEF Stops
  <2>3. FrozenWorkers' = FrozenWorkers \cup {w}
    <3>1. frozen \in Seq(Frozen)
      BY DEF PoolInv, PoolTyped, HeldTyped
    <3> QED BY <2>2, <3>1, StoppedMore
  <2>4. ASSUME NEW v \in WorkerId \ {w, r} PROVE CalmOf(v)'
    <3>1. Stays(v) /\ proc'[v] = proc[v]
      BY <2>1 DEF Stops, Stays
    <3> QED BY <1>1, <2>3, <3>1, AloneCalm DEF CalmInv
  <2>5. CalmOf(r)'
    BY <1>1, <2>1, <2>3, EmptyCalm DEF Stops
  <2>6. CalmOf(w)'
    <3>1. PICK rest : rest = Tail(workers[w])
      OBVIOUS
    <3>2. q = Halted(w, rest)
      BY <1>2, <2>1, <3>1 DEF Stops
    <3>3. Range(rest) \subseteq ItemId
      <4>1. rest \in Seq(ItemId)
        BY <1>6, <3>1, WorkerTyped, FirstAndRest
      <4> QED BY <4>1 DEF Range
    <3>4. WorkTyped
      BY DEF PoolInv, PoolTyped
    <3>5. /\ q.stopped = Alive(w) /\ q.state = p.state /\ q.killed = p.killed /\ q.answer = p.answer
          /\ q.batch = p.batch /\ q.inbox = p.inbox /\ q.kept = p.kept \cup Range(rest)
      BY <1>2, <3>2, <3>3, <3>4, HaltKeeps
    <3>6. q.kept = {} => p.kept = {}
      BY <3>5
    <3>7. ~q.killed
      BY <1>2, <1>3, <1>6, <3>5 DEF CalmOf
    <3> QED BY <1>1, <1>2, <1>3, <1>4, <3>5, <3>6, <3>7, HeardCalm
  <2> QED BY <2>4, <2>5, <2>6 DEF CalmInv
<1> QED BY <1>5, <1>6

LEMMA ResumeCalm ==
    ASSUME PoolInv, PoolInv', CalmInv, ResumeFrozen
    PROVE  CalmInv'
<1>1. PICK k \in DOMAIN frozen : \E w, r : Revives(k, w, r)
  BY ResumeRevives
<1>2. PICK w, r : Revives(k, w, r)
  BY <1>1
<1>3. \A v : v # w => (v \in FrozenWorkers' <=> v \in FrozenWorkers)
  <2>1. frozen \in Seq(Frozen)
    BY DEF PoolInv, PoolTyped, HeldTyped
  <2> QED BY <1>2, <2>1, StoppedLess DEF Revives
<1>4. ASSUME NEW v \in WorkerId \ {w}, v # r \/ r \notin DOMAIN workers
      PROVE  CalmOf(v)'
  <2>1. proc'[v] = proc[v] /\ out'[v] = out[v] /\ Stays(v)
    BY <1>2, <1>4 DEF Revives, Stays
  <2> QED BY <1>3, <1>4, <2>1, AloneCalm DEF CalmInv
<1>5. ASSUME r \in DOMAIN workers PROVE CalmOf(r)'
  <2>1. proc'[r] = Dead
    BY <1>2, <1>5 DEF Revives
  <2> QED BY <2>1, FreshIsEmpty DEF CalmOf, Alive
<1>6. CalmOf(w)'
  <2>1. PICK p, q, o : p = proc[w] /\ q = proc'[w] /\ o = out[w]
    OBVIOUS
  <2>2. /\ w \in WorkerId /\ q = Continued(p) /\ out'[w] = o /\ w \in FrozenWorkers
        /\ w \in DOMAIN workers' /\ workers'[w] # << >>
    BY <1>2, <2>1 DEF Revives
  <2>3. p \in Process /\ Sane(p) /\ o \in Seq(Message) /\ CalmOf(w)
    BY <2>1, <2>2, WorkerTyped DEF CalmInv
  <2>4. /\ q.state = p.state /\ q.killed = p.killed /\ ~q.stopped
        /\ q.answer <=> p.state = "waiting"
        /\ q.batch = p.batch /\ q.inbox = p.inbox /\ q.kept = p.kept
    BY <2>2, <2>3, FlagsKeep
  <2>5. w \notin FrozenWorkers'
    BY <2>2 DEF PoolInv, Named, NamedOnce, FrozenWorkers
  <2>6. Alive(w)' <=> Alive(w)
    BY <2>1, <2>4 DEF Alive
  <2>7. ~q.killed
    BY <2>1, <2>2, <2>3, <2>4 DEF CalmOf
  <2>8. ~Alive(w) => ~q.answer
    BY <2>1, <2>4 DEF Alive
  <2>9. ASSUME Alive(w), p.kept = {}
        PROVE  Calm(o, q) /\ (q.answer => q.state = "waiting" /\ ~q.stopped /\ o = << >>)
    <3>1. Calm(o, p) /\ Only(o, {"error"})
      BY <2>1, <2>2, <2>3, <2>9 DEF CalmOf, Steady
    <3>2. Calm(o, q)
      BY <2>4, <3>1, CalmSame
    <3>3. p.state = "waiting" => o = << >>
      BY <2>3, <3>1, CalmWaits
    <3> QED BY <2>4, <3>2, <3>3
  <2> QED BY <2>1, <2>2, <2>4, <2>5, <2>6, <2>7, <2>8, <2>9 DEF CalmOf, Steady
<1> QED BY <1>4, <1>5, <1>6 DEF CalmInv

LEMMA GivenCalm ==
    ASSUME PoolInv, HandInv, CalmInv, NEW w \in WorkerId, NEW b, Given(w, b),
           out'[w] = out[w], UNCHANGED frozen
    PROVE  CalmOf(w)'
<1>1. PICK p, q, o : p = proc[w] /\ q = proc'[w] /\ o = out[w]
  OBVIOUS
<1>2. p \in Process /\ Sane(p) /\ o \in Seq(Message)
  BY <1>1, WorkerTyped
<1>3. w \in DOMAIN workers /\ w \in DOMAIN workers' /\ w \notin FrozenWorkers' /\ ~p.killed /\ CalmOf(w)
  BY <1>1, SameFrozen, WorkerTyped DEF Given, CalmInv, CalmOf
<1>4. CASE ~Alive(w)
  <2>1. proc'[w] = proc[w] /\ ~Alive(w)'
    BY <1>4 DEF Given, Alive
  <2> QED BY <1>1, <1>3, <1>4, <2>1 DEF CalmOf
<1>5. CASE Alive(w)
  <2>1. q = [p EXCEPT !.inbox = Append(@, b)]
    BY <1>1, <1>5 DEF Given
  <2>2. /\ q.state = p.state /\ q.killed = p.killed /\ q.answer = p.answer
        /\ q.batch = p.batch /\ q.inbox = Append(p.inbox, b) /\ q.kept = p.kept
    BY <1>2, <2>1 DEF Process
  <2>3. Alive(w)'
    BY <1>1, <1>5, <2>2 DEF Alive
  <2>4. ASSUME p.kept = {} PROVE Calm(o, q) /\ ~q.answer
    <3>1. Steady(w, o, p)
      BY <1>1, <1>3, <1>5, <2>4 DEF CalmOf
    <3>2. Calm(o, p) /\ ~p.answer
      BY <3>1 DEF Steady, Given
    <3>3. Orderly(o, p, Booked(w))
      BY <1>1, <1>3, <1>5 DEF HandInv, HandOf, Lives
    <3>4. Booked(w) = {}
      BY DEF Given, Booked, Range
    <3>5. InHand(p) = {} /\ Tells(o, p, {})
      BY <2>4, <3>3, <3>4 DEF Orderly
    <3>6. p.batch = << >>
      <4>1. Range(p.batch) = {}
        BY <3>5, HandParts
      <4> QED BY <1>2, <4>1, WithoutNothing DEF Process
    <3>7. p.inbox = << >>
      <4>1. \A m \in DOMAIN p.inbox : Range(p.inbox[m]) = {} /\ p.inbox[m] # << >>
        BY <1>2, <3>5, HandParts DEF Sane
      <4>2. p.inbox \in Seq(Seq(ItemId))
        BY <1>2 DEF Process
      <4>3. \A m \in DOMAIN p.inbox : p.inbox[m] \in Seq(ItemId)
        BY <4>2
      <4>4. DOMAIN p.inbox = {}
        BY <4>1, <4>3, WithoutNothing
      <4> QED BY <4>2, <4>4, FirstAndRest
    <3>8. \A j \in DOMAIN o : o[j].kind # "error" /\ o[j].kind # "submit"
      <4>1. \A j \in DOMAIN o : ~Ends(o[j])
        BY <2>4, <3>5 DEF Tells
      <4>2. \A j \in DOMAIN o : o[j].kind # "error"
        BY <4>1 DEF Ends
      <4>3. p.state # "waiting"
        BY <1>2, <3>6 DEF Sane
      <4>4. ASSUME NEW j \in DOMAIN o, o[j].kind = "submit" PROVE FALSE
        <5>1. o[Len(o)].kind = "error"
          BY <3>2, <4>3, <4>4 DEF Calm
        <5>2. Len(o) \in DOMAIN o
          BY <1>2
        <5> QED BY <4>2, <5>1, <5>2
      <4> QED BY <4>2, <4>4
    <3>9. Tail(q.inbox) = << >> /\ q.batch = << >>
      <4>1. \A x : Tail(Append(<< >>, x)) = << >>
        OBVIOUS
      <4> QED BY <2>2, <3>6, <3>7, <4>1
    <3> QED BY <2>2, <3>2, <3>8, <3>9 DEF Calm
  <2> QED BY <1>1, <1>3, <2>2, <2>3, <2>4 DEF CalmOf, Steady
<1> QED BY <1>4, <1>5

LEMMA LoopCalm ==
    ASSUME PoolInv, TrackInv, HandInv, CalmInv, [PoolNext]_poolVars, ~ResumeFrozen,
           ~\E w \in WorkerId : ProcStep(w) \/ Crash(w) \/ Handle(w)
    PROVE  CalmInv'
<1>1. UNCHANGED <<frozen, out>> /\ FrozenWorkers' = FrozenWorkers
  BY LoopGives, SameFrozen
<1>2. ASSUME NEW v \in WorkerId PROVE CalmOf(v)'
  <2>1. CASE proc'[v] = proc[v] /\ Stays(v)
    BY <1>1, <2>1, AloneCalm DEF CalmInv
  <2>2. CASE proc'[v] = Dead
    BY <2>2, FreshIsEmpty DEF CalmOf, Alive
  <2>3. CASE Gone(v) /\ (v \in DOMAIN workers' => v \in DOMAIN workers)
    <3>1. ~Alive(v)' /\ ~Alive(v) /\ proc'[v] = proc[v]
      BY <2>3 DEF Gone, Alive
    <3> QED BY <1>1, <2>3, <3>1 DEF CalmInv, CalmOf
  <2>4. CASE \E b : Given(v, b)
    BY <1>1, <2>4, GivenCalm
  <2>5. CASE Spawned(v)
    BY <1>1, <2>5, EmptyCalm DEF Spawned
  <2> QED BY <1>2, <2>1, <2>2, <2>3, <2>4, <2>5, LoopGives
<1> QED BY <1>2 DEF CalmInv

LEMMA CalmKeeps ==
    PoolInv /\ PoolInv' /\ TrackInv /\ HandInv /\ CalmInv /\ [PoolNext]_poolVars => CalmInv'
BY ProcessesCalm, StepEndCalm, SubmitCalm, ResumeCalm, LoopCalm DEF Handle

LEMMA InitCalm == PoolInit => CalmInv
<1> SUFFICES ASSUME PoolInit PROVE CalmInv
  OBVIOUS
<1>1. \A w \in WorkerId : proc[w] = NoProc
  BY DEF PoolInit
<1> QED BY <1>1, FreshIsEmpty DEF CalmInv, CalmOf, Alive

\* A parallel() call is answered only when every branch it asked for has ended,
\* to the process that made it, which then goes on with the step that called
\* (resume_frozen): where nothing was taken back from that process.
THEOREM AnswersAreComplete == PoolSpec => []AnsweredWhenComplete
<1>1. ASSUME PoolInv, CalmInv PROVE AnsweredWhenComplete
  <2> SUFFICES ASSUME NEW w \in WorkerId, proc[w].answer, proc[w].kept = {}
               PROVE  /\ ~proc[w].stopped /\ w \in DOMAIN workers /\ workers[w] # << >>
                      /\ \A g \in DOMAIN co.groups :
                           co.groups[g].parent = Head(workers[w]) =>
                              co.groups[g].items \subseteq co.done \cup co.failed
    BY DEF AnsweredWhenComplete
  <2>1. Alive(w) /\ CalmOf(w)
    BY <1>1 DEF CalmInv, CalmOf
  <2>2. ~proc[w].stopped /\ w \in DOMAIN workers /\ workers[w] # << >>
    BY <2>1 DEF CalmOf, Steady
  <2>3. Head(workers[w]) \in Range(workers[w])
    BY <1>1, <2>2, WorkerTyped, FirstAndRest DEF Range
  <2>4. ASSUME NEW g \in DOMAIN co.groups, co.groups[g].parent = Head(workers[w])
        PROVE  co.groups[g].items \subseteq co.done \cup co.failed
    <3>1. Blocked(co, workers, frozen) /\ Counted(co)
      BY <1>1 DEF PoolInv, Good
    <3>2. IsGroupComplete(co, g)
      BY <2>2, <2>3, <2>4, <3>1 DEF Blocked
    <3> QED BY <3>1, <3>2, CompleteIsEnded
  <2> QED BY <2>2, <2>4
<1>2. PoolInv /\ PoolInv' /\ TrackInv /\ HandInv /\ CalmInv /\ [PoolNext]_poolVars => CalmInv'
  BY CalmKeeps
<1>3. PoolInv /\ CalmInv => AnsweredWhenComplete
  BY <1>1
<1> QED BY <1>2, <1>3, InitCalm, BooksAlways, PTL DEF PoolSpec

-----------------------------------------------------------------------------
(***************************************************************************)
(* What a lost worker had not begun.                                       *)
(***************************************************************************)
\* take_lease of the front lease.
LEMMA FrontLease ==
    ASSUME NEW s \in Seq(ItemId), s # << >>
    PROVE  RemoveFirst(s, Head(s)) = Tail(s)
<1>0. PICK h : h = Head(s)
  OBVIOUS
<1>1. h = s[1] /\ Len(s) \in Nat \ {0} /\ 1 \in 1 .. Len(s)
  BY <1>0, FirstAndRest
<1>2. PICK I : I = { j \in 1 .. Len(s) : s[j] = h }
  OBVIOUS
<1>3. 1 \in I /\ I # {} /\ \A j \in I : 1 <= j
  BY <1>1, <1>2
<1>4. Min(I) = 1
  <2>1. \A x \in I : (\A y \in I : x <= y) => x = 1
    BY <1>1, <1>2
  <2> QED BY <1>3, <2>1 DEF Min
<1>5. SelectInSeq(s, LAMBDA v : v = h) = 1
  <2>1. SelectInSeq(s, LAMBDA v : v = h) = IF I # {} THEN Min(I) ELSE 0
    BY <1>2 DEF SelectInSeq
  <2>2. (IF I # {} THEN Min(I) ELSE 0) = 1
    BY <1>3, <1>4
  <2> QED BY <2>1, <2>2
<1>6. RemoveFirst(s, h) = SubSeq(s, 1, 0) \o SubSeq(s, 2, Len(s))
  <2>1. \E j \in 1 .. Len(s) : s[j] = h
    BY <1>1
  <2>2. RemoveFirst(s, h) = RemoveAt(s, SelectInSeq(s, LAMBDA v : v = h))
    BY <2>1 DEF RemoveFirst
  <2>3. RemoveFirst(s, h) = RemoveAt(s, 1)
    BY <1>5, <2>2
  <2>4. RemoveAt(s, 1) = SubSeq(s, 1, 0) \o SubSeq(s, 2, Len(s))
    BY DEF RemoveAt
  <2> QED BY <2>3, <2>4
<1>7. SubSeq(s, 1, 0) = << >> /\ SubSeq(s, 2, Len(s)) = Tail(s) /\ Tail(s) \in Seq(ItemId)
  BY <1>1
<1> QED BY <1>0, <1>6, <1>7

\* The steps in rest are at the front of the queue again, and not charged.
Uncharged(rest) ==
    /\ SubSeq(co'.ready, 1, Len(rest)) = rest
    /\ \A i \in Range(rest) : co'.attempts[i] = co.attempts[i] - 1

LEMMA FrontOfConcat ==
    ASSUME NEW s \in Seq(ItemId), NEW t \in Seq(ItemId)
    PROVE  SubSeq(s \o t, 1, Len(s)) = s
<1> DEFINE u == SubSeq(s \o t, 1, Len(s))
<1>1. /\ s \o t \in Seq(ItemId) /\ Len(s \o t) = Len(s) + Len(t)
      /\ Len(s) \in Nat /\ Len(t) \in Nat
      /\ \A j \in 1 .. Len(s) : (s \o t)[j] = s[j]
  BY ConcatProperties
<1>2. Len(s) <= Len(s \o t) /\ Len(s \o t) \in Nat
  BY <1>1
<1>3. u \in Seq(ItemId) /\ Len(u) = Len(s) /\ \A j \in 1 .. Len(s) : u[j] = (s \o t)[j]
  BY <1>1, <1>2
<1>4. \A j \in 1 .. Len(s) : u[j] = s[j]
  BY <1>1, <1>3
<1> HIDE DEF u
<1> QED BY <1>3, <1>4 DEF u

LEMMA ReturnUncharged ==
    ASSUME Good(co), NEW c1, Sound(c1), c1.attempts = co.attempts,
           NEW rest \in Seq(ItemId), Range(rest) \subseteq co.executing,
           Returning(c1, co', rest)
    PROVE  Uncharged(rest)
<1>1. c1.ready \in Seq(ItemId) /\ co.attempts \in [ItemId -> Nat]
  BY DEF Good, Sound, Typed, Coordinators
<1>2. co'.ready = rest \o c1.ready /\ co'.attempts = OneLess(c1, Range(rest))
  BY DEF Returning
<1>3. SubSeq(co'.ready, 1, Len(rest)) = rest
  BY <1>1, <1>2, FrontOfConcat
<1>4. ASSUME NEW i \in Range(rest) PROVE co'.attempts[i] = co.attempts[i] - 1
  <2>1. i \in ItemId
    BY DEF Good, Sound, Typed, Coordinators
  <2>2. co.attempts[i] > 0
    BY <2>1 DEF Good, Budgeted, InBudget
  <2> QED BY <1>1, <1>2, <2>1, <2>2 DEF OneLess
<1> QED BY <1>3, <1>4 DEF Uncharged

\* A worker that failed or died over its lease i.
LEMMA LossUncharged ==
    ASSUME Good(co), NEW L, Holding(co, L), NEW i, NEW rest, NEW c1, Lost(co, c1, co', L, i, rest)
    PROVE  Uncharged(rest)
<1>1. /\ Good(c1) /\ Returning(c1, co', rest) /\ Range(rest) \subseteq co.executing
      /\ c1.attempts = co.attempts /\ rest \in Seq(ItemId)
  BY LossTook DEF Lost
<1>2. Sound(c1)
  BY <1>1 DEF Good
<1> QED BY <1>1, <1>2, ReturnUncharged

\* A worker that was stopped.
LEMMA FreezeUncharged ==
    ASSUME Good(co), NEW L \in Seq(ItemId), Holding(co, L), L # << >>, NEW n, Forked(co, co', L, n)
    PROVE  Uncharged(Tail(L))
<1>1. PICK c1 : /\ Sound(c1) /\ Forking(co, c1, Head(L), n) /\ c1.attempts = co.attempts
                /\ Returning(c1, co', Tail(L)) /\ Range(Tail(L)) \subseteq c1.executing
  BY ForkingTook
<1>2. Tail(L) \in Seq(ItemId) /\ Range(Tail(L)) \subseteq co.executing
  BY <1>1, WithoutHead DEF Holding, Forking
<1> QED BY <1>1, <1>2, ReturnUncharged

\* A worker is lost in one of three ways, and what it had leased but for the one
\* lease goes back.
LEMMA WorkerLost ==
    ASSUME PoolInv, [PoolNext]_poolVars, pc = "select",
           NEW w \in DOMAIN workers \ DOMAIN workers', workers[w] # << >>
    PROVE  Uncharged(RemoveFirst(workers[w], LostOver(w)))
<1>0. PICK L, i, rest : L = workers[w] /\ i = LostOver(w) /\ rest = RemoveFirst(L, i)
  OBVIOUS
<1>1. /\ Good(co) /\ w \in WorkerId /\ L \in Seq(ItemId) /\ Holding(co, L) /\ L # << >>
  BY <1>0, WorkerHolds DEF PoolInv
<1>2. StepError(w) \/ Submit(w) \/ Disconnected(w)
  <2>1. DOMAIN workers' # DOMAIN workers
    OBVIOUS
  <2>2. PICK v \in WorkerId : StepError(v) \/ Submit(v) \/ Disconnected(v)
    BY <2>1 DEF PoolNext, LoopStep, ResumeFrozen, NothingToResume, AssignBatch, AssignToDead,
       SpawnWorker, Assigning, Assigned, EndPhase, Shutdown, Cancel, Down, ProcStep, StartStep,
       FinishStep, ErrStep, SubmitCall, ReceiveAnswer, Reap, Crash, Handle, StepCompleted,
       RetryReady, loopVars, poolVars
  <2>3. v = w
    BY <2>2 DEF StepError, Submit, Disconnected, Without, With
  <2> QED BY <2>2, <2>3
<1>3. i \in Range(L) => /\ rest \in Seq(ItemId) /\ Distinct(rest)
                       /\ Range(rest) = Range(L) \ {i}
  BY <1>0, <1>1, WithoutLease DEF Holding
<1>4. CASE StepError(w)
  <2>1. HasLease(w, Head(out[w]).arg) /\ Head(out[w]).kind = "error"
    BY <1>4 DEF StepError, Received
  <2>2. i = Head(out[w]).arg /\ i \in Range(L)
    BY <1>0, <2>1 DEF LostOver, HasLease
  <2>3. PICK order \in FailureOrders(co, i) : co' = ReturnLeases(OnItemFailed(co, i, order), rest)
    BY <1>0, <1>4, <2>1, <2>2 DEF StepError
  <2>4. Lost(co, OnItemFailed(co, i, order), co', L, i, rest)
    BY <1>3, <2>2, <2>3 DEF Lost
  <2>5. Uncharged(rest)
    BY <1>1, <2>4, LossUncharged
  <2> QED BY <1>0, <2>5
<1>5. ASSUME Head(out[w]).kind # "error"
      PROVE  i = Head(L) /\ rest = Tail(L) /\ i \in Range(L)
  <2>1. i = Head(L)
    BY <1>0, <1>5 DEF LostOver
  <2> QED BY <1>0, <1>1, <2>1, FrontLease, WithoutHead DEF Holding
<1>6. CASE Submit(w)
  <2>1. Head(out[w]).kind # "error"
    BY <1>6 DEF Submit, Received
  <2>2. Freezes(w, Head(out[w]).arg, next_worker_id)
    BY <1>0, <1>1, <1>6, SubmitFreezes
  <2>3. Uncharged(Tail(L))
    BY <1>0, <1>1, <2>2, FreezeUncharged DEF Freezes
  <2> QED BY <1>0, <1>5, <2>1, <2>3
<1>7. CASE Disconnected(w)
  <2>1. Head(out[w]).kind # "error"
    BY <1>7 DEF Disconnected, Received
  <2>2. PICK order \in FailureOrders(co, i) : co' = ReturnLeases(OnItemFailed(co, i, order), rest)
    BY <1>0, <1>1, <1>5, <1>7, <2>1 DEF Disconnected
  <2>3. Lost(co, OnItemFailed(co, i, order), co', L, i, rest)
    BY <1>3, <1>5, <2>1, <2>2 DEF Lost
  <2>4. Uncharged(rest)
    BY <1>1, <2>3, LossUncharged
  <2> QED BY <1>0, <2>4
<1> QED BY <1>2, <1>4, <1>6, <1>7

\* When a worker fails, dies or is stopped, only one of its leases was begun,
\* the one it is lost over: whatever the cost model put in its batch, the
\* others go back to the front of the queue, in order, and the dispatch that
\* came to nothing is taken off their attempts (return_leases, return_leased).
THEOREM LostIsUncharged == PoolSpec => UnstartedUncharged
<1>1. PoolInv /\ [PoolNext]_poolVars =>
        [ \A w \in DOMAIN workers \ DOMAIN workers' :
             LET rest == RemoveFirst(workers[w], LostOver(w))
             IN pc = "select" /\ workers[w] # << >> =>
                   /\ SubSeq(co'.ready, 1, Len(rest)) = rest
                   /\ \A i \in Range(rest) : co'.attempts[i] = co.attempts[i] - 1 ]_poolVars
  BY WorkerLost DEF Uncharged
<1> QED BY <1>1, PoolAlways, PTL DEF PoolSpec, UnstartedUncharged

-----------------------------------------------------------------------------
(***************************************************************************)
(* What gets lost.  What can go missing is a parked parent: everything else*)
(* is accounted for by the coordinator and by the leases.  A parent is     *)
(* frozen or leased, and stays so unless its worker is killed as the       *)
(* replacement of another.                                                 *)
(***************************************************************************)
KeptAt(i) == i \in Parents \/ \E w \in DOMAIN workers : i \in Range(workers[w])

\* The steps that a step of the pool does not lose.
KeptOn == \A i \in Parked(co') : KeptAt(i)' \/ (i \in Parked(co) /\ ~KeptAt(i))

\* Of a worker's leases only a resumed parent is parked, and it is alone.
LEMMA LeasedParked ==
    ASSUME NEW c, NEW L, Holding(c, L), NEW i \in Range(L), i \in Parked(c)
    PROVE  Range(L) = {i} /\ i \in Resumed(c)
<1>1. ~(Range(L) \subseteq c.executing)
  BY DEF Parked
<1>2. PICK j \in Resumed(c) : L = <<j>>
  BY <1>1 DEF Holding
<1>3. Range(<<j>>) = {j}
  BY DEF Range
<1> QED BY <1>2, <1>3

\* What the calls of the coordinator leave parked.
Settles(X) == Parked(co') \subseteq Parked(co) \ X

LEMMA TookSettles ==
    ASSUME NEW X, Keeps(co, co', X), NEW Y, Y \cap Parked(co') = {}
    PROVE  Settles(Y)
BY DEF Keeps, Settles

LEMMA EndSettles ==
    ASSUME NEW c, NEW c1, NEW i
    PROVE  /\ \A order : c1 = OnItemCompleted(c, i, order) => i \notin Parked(c1)
           /\ \A order : Sound(c) /\ i \in Running(c) /\ order \in FailureOrders(c, i)
                            /\ c1 = OnItemFailed(c, i, order) => i \notin Parked(c1)
<1>1. ASSUME NEW order, c1 = OnItemCompleted(c, i, order) PROVE i \notin Parked(c1)
  <2>1. c1.done = c.done \cup {i}
    BY <1>1 DEF OnItemCompleted, Resolve
  <2> QED BY <2>1 DEF Parked, Terminal
<1>2. ASSUME Sound(c), i \in Running(c), NEW order \in FailureOrders(c, i),
             c1 = OnItemFailed(c, i, order)
      PROVE  i \notin Parked(c1)
  <2>1. CASE CanRetry(c, i)
    <3>1. c1 = RetryItem(c, i)
      BY <1>2, <2>1 DEF OnItemFailed
    <3>2. Parking(c, c1, i) \/ Queueing(c, c1, i)
      BY <1>2, <3>1, RetryMoves
    <3> QED BY <3>2 DEF Parking, Queueing, Parked
  <2>2. CASE ~CanRetry(c, i)
    <3>1. c1.failed = c.failed \cup {i}
      BY <1>2, <2>2 DEF OnItemFailed, FailItem, Resolve
    <3> QED BY <3>1 DEF Parked, Terminal
  <2> QED BY <2>1, <2>2
<1> QED BY <1>1, <1>2

LEMMA LossSettles ==
    ASSUME Good(co), NEW L, Holding(co, L), NEW i, NEW rest, NEW c1, Lost(co, c1, co', L, i, rest)
    PROVE  Settles({i})
<1>1. Took(co, co', Range(L)) /\ Returning(c1, co', rest)
  BY LossTook
<1>2. i \notin Parked(c1)
  BY LeaseRuns, EndSettles DEF Lost, Good
<1>3. {i} \cap Parked(co') = {}
  BY <1>1, <1>2 DEF Returning
<1> QED BY <1>1, <1>3, TookSettles DEF Took

\* A parked parent stays where it is, but for the leases of one worker.
LEMMA StayKept ==
    ASSUME Parked(co') \subseteq Parked(co), Parents \subseteq Parents', NEW w,
           \A v \in DOMAIN workers \ {w} : v \in DOMAIN workers' /\ workers'[v] = workers[v],
           \A i \in Parked(co') : w \in DOMAIN workers /\ i \in Range(workers[w]) => KeptAt(i)'
    PROVE  KeptOn
<1>1. ASSUME NEW i \in Parked(co'), KeptAt(i)
      PROVE  KeptAt(i)'
  <2>1. CASE i \in Parents
    BY <2>1 DEF KeptAt
  <2>2. CASE \E v \in DOMAIN workers : i \in Range(workers[v])
    <3>1. PICK v \in DOMAIN workers : i \in Range(workers[v])
      BY <2>2
    <3>2. CASE v = w
      BY <1>1, <3>1, <3>2
    <3>3. CASE v # w
      BY <3>1, <3>3 DEF KeptAt
    <3> QED BY <3>2, <3>3
  <2> QED BY <1>1, <2>1, <2>2 DEF KeptAt
<1> QED BY <1>1 DEF KeptOn

\* A worker that has lost the step that ends with it.
LEMMA LoserKept ==
    ASSUME Parents' = Parents, NEW w \in DOMAIN workers, Holding(co, workers[w]),
           NEW i \in Range(workers[w]), Settles({i}),
           \A v \in DOMAIN workers \ {w} : v \in DOMAIN workers' /\ workers'[v] = workers[v]
    PROVE  KeptOn
<1>1. Parked(co') \subseteq Parked(co) \ {i}
  BY DEF Settles
<1>2. ASSUME NEW j \in Parked(co'), j \in Range(workers[w]) PROVE FALSE
  <2>1. Range(workers[w]) = {j} /\ j # i
    BY <1>1, <1>2, LeasedParked
  <2> QED BY <2>1
<1> QED BY <1>1, <1>2, StayKept

LEMMA SameParents ==
    UNCHANGED frozen => Parents' = Parents
BY DEF Parents

LEMMA StepEndKept ==
    ASSUME PoolInv, NEW w \in WorkerId,
           StepCompleted(w) \/ StepError(w) \/ Disconnected(w)
    PROVE  KeptOn
<1>1. Good(co) /\ Parents' = Parents
  BY SameParents DEF PoolInv, StepCompleted, StepError, Disconnected
<1>2. CASE UNCHANGED <<co, workers>>
  BY <1>1, <1>2 DEF KeptOn, KeptAt
<1>3. ASSUME w \in DOMAIN workers, NEW i \in Range(workers[w]), Settles({i}),
             \A v \in DOMAIN workers \ {w} : v \in DOMAIN workers' /\ workers'[v] = workers[v]
      PROVE  KeptOn
  <2>1. Holding(co, workers[w])
    BY <1>1, <1>3, WorkerHolds
  <2> QED BY <1>1, <1>3, <2>1, LoserKept
<1>4. CASE StepCompleted(w) /\ HasLease(w, Head(out[w]).arg)
  <2>1. PICK i : i = Head(out[w]).arg
    OBVIOUS
  <2>2. PICK order \in ReleaseOrders(co, i, {}) : co' = OnItemCompleted(co, i, order)
    BY <1>4, <2>1 DEF StepCompleted
  <2>3. w \in DOMAIN workers /\ i \in Range(workers[w])
    BY <1>4, <2>1 DEF HasLease
  <2>4. Holding(co, workers[w])
    BY <1>1, <2>3, WorkerHolds
  <2>5. i \in Running(co)
    BY <2>3, <2>4, LeaseRuns
  <2>6. Took(co, co', {i})
    BY <1>1, <2>2, <2>5, CompletionTook
  <2>7. {i} \cap Parked(co') = {}
    BY <2>2, EndSettles
  <2>8. Settles({i})
    BY <2>6, <2>7, TookSettles DEF Took
  <2>9. \A v \in DOMAIN workers \ {w} : v \in DOMAIN workers' /\ workers'[v] = workers[v]
    BY <1>4 DEF StepCompleted
  <2> QED BY <1>3, <2>3, <2>8, <2>9
<1>5. CASE StepError(w) /\ HasLease(w, Head(out[w]).arg)
  <2>1. PICK i, rest : i = Head(out[w]).arg /\ rest = RemoveFirst(workers[w], i)
    OBVIOUS
  <2>2. PICK order \in FailureOrders(co, i) :
          co' = ReturnLeases(OnItemFailed(co, i, order), rest)
    BY <1>5, <2>1 DEF StepError
  <2>3. w \in DOMAIN workers /\ i \in Range(workers[w]) /\ workers' = Without(workers, w)
    BY <1>5, <2>1 DEF HasLease, StepError
  <2>4. Holding(co, workers[w])
    BY <1>1, <2>3, WorkerHolds
  <2>5. /\ rest \in Seq(ItemId) /\ Distinct(rest)
        /\ Range(rest) = Range(workers[w]) \ {i}
    BY <2>1, <2>3, <2>4, WithoutLease DEF Holding
  <2>6. Lost(co, OnItemFailed(co, i, order), co', workers[w], i, rest)
    BY <2>2, <2>3, <2>5 DEF Lost
  <2>7. Settles({i})
    BY <1>1, <2>4, <2>6, LossSettles
  <2>8. \A v \in DOMAIN workers \ {w} : v \in DOMAIN workers' /\ workers'[v] = workers[v]
    BY <2>3 DEF Without
  <2> QED BY <1>3, <2>3, <2>7, <2>8
<1>6. CASE Disconnected(w) /\ w \in DOMAIN workers
  <2>1. workers' = Without(workers, w)
    BY <1>6 DEF Disconnected
  <2>2. \A v \in DOMAIN workers \ {w} : v \in DOMAIN workers' /\ workers'[v] = workers[v]
    BY <2>1 DEF Without
  <2>3. CASE workers[w] = << >>
    <3>1. co' = co
      BY <1>6, <2>3 DEF Disconnected
    <3>2. Range(workers[w]) = {}
      BY <2>3 DEF Range
    <3> QED BY <1>1, <2>2, <3>1, <3>2, StayKept
  <2>4. CASE workers[w] # << >>
    <3>1. PICK i, rest : i = Head(workers[w]) /\ rest = Tail(workers[w])
      OBVIOUS
    <3>2. Holding(co, workers[w]) /\ workers[w] \in Seq(ItemId)
      BY <1>1, <1>6, WorkerHolds
    <3>3. PICK order \in FailureOrders(co, i) :
            co' = ReturnLeases(OnItemFailed(co, i, order), rest)
      BY <1>6, <2>4, <3>1 DEF Disconnected
    <3>4. /\ i \in Range(workers[w]) /\ rest \in Seq(ItemId) /\ Distinct(rest)
          /\ Range(rest) = Range(workers[w]) \ {i}
      BY <2>4, <3>1, <3>2, WithoutHead DEF Holding
    <3>5. Lost(co, OnItemFailed(co, i, order), co', workers[w], i, rest)
      BY <3>3, <3>4 DEF Lost
    <3>6. Settles({i})
      BY <1>1, <3>2, <3>5, LossSettles
    <3> QED BY <1>3, <1>6, <2>2, <3>4, <3>6
  <2> QED BY <2>3, <2>4
<1> QED BY <1>2, <1>4, <1>5, <1>6 DEF StepCompleted, StepError, Disconnected

\* The parent of a call is frozen.
LEMMA FreezeKept ==
    ASSUME PoolInv, NEW w \in WorkerId, Submit(w)
    PROVE  KeptOn
<1>1. Good(co)
  BY DEF PoolInv
<1>2. CASE ~(w \in DOMAIN workers /\ workers[w] # << >>)
  <2>1. UNCHANGED <<co, workers, frozen>>
    BY <1>2 DEF Submit
  <2> QED BY <2>1, SameParents DEF KeptOn, KeptAt
<1>3. CASE w \in DOMAIN workers /\ workers[w] # << >>
  <2>1. PICK L, r, n : L = workers[w] /\ r = next_worker_id /\ n = Head(out[w]).arg
    OBVIOUS
  <2>2. Freezes(w, n, r)
    BY <1>1, <1>3, <2>1, SubmitFreezes
  <2>3. PICK e \in Frozen : e.parent = Head(L) /\ frozen' = Append(frozen, e)
    BY <2>1, <2>2 DEF Freezes
  <2>4. Holding(co, L) /\ L \in Seq(ItemId) /\ L # << >>
    BY <1>1, <1>3, <2>1, WorkerHolds
  <2>5. ForkTook(co, co', L)
    BY <1>1, <2>1, <2>2, <2>4, ForkingTook DEF Freezes
  <2>8. Parents' = Parents \cup {Head(L)}
    <3>1. frozen \in Seq(Frozen)
      BY <1>1 DEF PoolInv, PoolTyped, HeldTyped
    <3>2. PICK fz : fz = frozen'
      OBVIOUS
    <3>3. /\ Len(frozen) \in Nat /\ DOMAIN frozen = 1 .. Len(frozen)
          /\ DOMAIN fz = 1 .. Len(frozen) + 1
          /\ \A k \in 1 .. Len(frozen) : fz[k] = frozen[k]
          /\ fz[Len(frozen) + 1] = e
      BY <2>3, <3>1, <3>2, AppendProperties
    <3>4. DOMAIN fz = DOMAIN frozen \cup {Len(frozen) + 1}
      BY <3>3
    <3>5. { fz[k].parent : k \in DOMAIN fz } = { frozen[k].parent : k \in DOMAIN frozen } \cup {e.parent}
      BY <3>3, <3>4
    <3> QED BY <2>3, <3>2, <3>5 DEF Parents
  <2>9. \A v \in DOMAIN workers \ {w} : v \in DOMAIN workers' /\ workers'[v] = workers[v]
    <3>1. \A v \in DOMAIN workers : v # r
      BY <2>1, NewIsNobody
    <3> QED BY <2>2, <3>1 DEF Freezes, With, Without
  <2>10. ASSUME NEW i \in Parked(co'), KeptAt(i) \/ i \notin Parked(co) PROVE KeptAt(i)'
    <3>1. CASE i = Head(L)
      BY <2>8, <3>1 DEF KeptAt
    <3>2. CASE i # Head(L)
      <4>1. i \in Parked(co)
        BY <2>5, <2>10, <3>2 DEF ForkTook
      <4>2. i \notin Range(L)
        <5>1. Head(L) \in Range(L)
          BY <2>4, WithoutHead DEF Holding
        <5> QED BY <2>4, <3>2, <4>1, <5>1, LeasedParked
      <4> QED BY <2>1, <2>8, <2>9, <2>10, <4>1, <4>2 DEF KeptAt
    <3> QED BY <3>1, <3>2
  <2> QED BY <2>10 DEF KeptOn
<1> QED BY <1>2, <1>3

\* The kill of a replacement that holds a resumed parent: that step is lost.
KilledWith(i) ==
    /\ pc = "resume" /\ i \in Resumed(co)
    /\ \E k \in DOMAIN frozen :
         LET r == frozen[k].replacement
         IN r \in DOMAIN workers \ DOMAIN workers' /\ workers[r] = <<i>>

\* A parent is active again, and its replacement is killed.
LEMMA ResumeKept ==
    ASSUME PoolInv, ResumeFrozen, NEW i \in Parked(co')
    PROVE  KeptAt(i)' \/ (i \in Parked(co) /\ ~KeptAt(i)) \/ KilledWith(i)
<1>1. Good(co) /\ pc = "resume"
  BY DEF PoolInv, ResumeFrozen
<1>2. PICK k \in Resumable :
        LET fw == frozen[k]
            r  == fw.replacement
        IN /\ frozen' = SwapRemove(frozen, k)
           /\ workers' = With(Without(workers, r), fw.worker, <<fw.parent>>)
           /\ IF r \in DOMAIN workers
              THEN co' = ReturnReplacement(co, workers[r]) ELSE UNCHANGED co
  BY DEF ResumeFrozen
<1>3. PICK r, w, p : r = frozen[k].replacement /\ w = frozen[k].worker /\ p = frozen[k].parent
  OBVIOUS
<1>4. /\ k \in DOMAIN frozen /\ frozen \in Seq(Frozen) /\ frozen[k] \in Frozen
      /\ w \in WorkerId /\ p \in ItemId /\ w \notin DOMAIN workers
  <2>1. /\ k \in DOMAIN frozen /\ frozen \in Seq(Frozen)
        /\ NamedOnce(DOMAIN workers, frozen, next_worker_id)
    BY <1>1 DEF PoolInv, PoolTyped, HeldTyped, Resumable, Named
  <2>2. frozen[k] \in Frozen
    BY <2>1, ElementOfSeq
  <2> QED BY <1>3, <2>1, <2>2 DEF Frozen, NamedOnce
<1>5. /\ w \in DOMAIN workers' /\ workers'[w] = <<p>> /\ Range(<<p>>) = {p}
      /\ \A v \in DOMAIN workers \ {r} : v \in DOMAIN workers' /\ workers'[v] = workers[v]
  BY <1>2, <1>3, <1>4 DEF With, Without, Range
<1>6. Parents \subseteq Parents' \cup {p}
  <2>1. PICK t : t = SwapRemove(frozen, k)
    OBVIOUS
  <2>2. \A m \in DOMAIN frozen \ {k} : \E j \in DOMAIN t : t[j] = frozen[m]
    BY <1>4, <2>1, SwapRemoved
  <2>3. frozen' = t
    BY <1>2, <2>1
  <2> QED BY <1>3, <2>2, <2>3 DEF Parents
<1>7. IF r \in DOMAIN workers THEN co' = ReturnReplacement(co, workers[r]) ELSE co' = co
  BY <1>2, <1>3
<1>8. Parked(co') = Parked(co)
  <2>1. ASSUME r \in DOMAIN workers, co' = ReturnReplacement(co, workers[r])
        PROVE  Parked(co') = Parked(co)
    BY <1>1, <2>1, WorkerHolds, ReplacementTook
  <2> QED BY <1>7, <2>1
<1>9. ASSUME r \in DOMAIN workers, i \in Range(workers[r]) PROVE KilledWith(i)
  <2>1. Holding(co, workers[r])
    BY <1>1, <1>9, WorkerHolds
  <2>2. Range(workers[r]) = {i} /\ i \in Resumed(co) /\ ~(Range(workers[r]) \subseteq co.executing)
    BY <1>8, <1>9, <2>1, LeasedParked DEF Parked
  <2>3. PICK j \in Resumed(co) : workers[r] = <<j>>
    BY <2>1, <2>2 DEF Holding
  <2>4. workers[r] = <<i>>
    <3>1. Range(<<j>>) = {j}
      BY DEF Range
    <3> QED BY <2>2, <2>3, <3>1
  <2>5. r \notin DOMAIN workers'
    BY <1>2, <1>3, <1>4, <1>9 DEF With, Without
  <2> QED BY <1>1, <1>3, <1>4, <1>9, <2>2, <2>4, <2>5 DEF KilledWith
<1>10. CASE i \in Parents
  BY <1>5, <1>6, <1>10 DEF KeptAt
<1>11. CASE \E v \in DOMAIN workers : i \in Range(workers[v])
  <2>1. PICK v \in DOMAIN workers : i \in Range(workers[v])
    BY <1>11
  <2>2. CASE v = r
    BY <1>9, <2>1, <2>2
  <2>3. CASE v # r
    BY <1>5, <2>1, <2>3 DEF KeptAt
  <2> QED BY <2>2, <2>3
<1> QED BY <1>8, <1>10, <1>11 DEF KeptAt

LEMMA LoopKept ==
    ASSUME PoolInv, [PoolNext]_poolVars, ~ResumeFrozen, ~\E w \in WorkerId : Handle(w)
    PROVE  KeptOn
<1>1. Good(co)
  BY DEF PoolInv
<1>2. CASE UNCHANGED <<co, workers, frozen>>
  BY <1>2, SameParents DEF KeptOn, KeptAt
<1>3. CASE SpawnWorker
  <2>1. PICK r : r = next_worker_id
    OBVIOUS
  <2>2. /\ UNCHANGED <<co, frozen>> /\ r \notin DOMAIN workers
        /\ (UNCHANGED workers \/ workers' = With(workers, r, << >>))
    BY <1>3, <2>1, NewIsNobody DEF SpawnWorker
  <2>3. \A v \in DOMAIN workers \ {r} : v \in DOMAIN workers' /\ workers'[v] = workers[v]
    BY <2>2 DEF With
  <2> QED BY <2>2, <2>3, SameParents, StayKept
<1>4. CASE \E w \in WorkerId : AssignBatch(w) \/ AssignToDead(w)
  <2>1. PICK w \in WorkerId : AssignBatch(w) \/ AssignToDead(w)
    BY <1>4
  <2>2. w \in DOMAIN workers /\ workers[w] = << >> /\ UNCHANGED frozen
    BY <2>1 DEF AssignBatch, AssignToDead, Idle
  <2>3. \A v \in DOMAIN workers \ {w} : v \in DOMAIN workers' /\ workers'[v] = workers[v]
    BY <2>1 DEF AssignBatch, AssignToDead, Without
  <2>4. Range(workers[w]) = {}
    BY <2>2 DEF Range
  <2>5. Parked(co') = Parked(co)
    <3>1. CASE AssignBatch(w)
      <4>1. PICK k \in PullSizes : co' = Lease(co, k)
        BY <3>1 DEF AssignBatch
      <4>2. k \in 0 .. Len(co.ready) /\ Sound(co)
        BY <1>1, <4>1, PullsSome DEF Good
      <4>3. \E B : Leasing(co, co', B)
        BY <4>1, <4>2, LeaseFields
      <4> QED BY <4>3 DEF Leasing
    <3>2. CASE AssignToDead(w)
      BY <3>2 DEF AssignToDead
    <3> QED BY <2>1, <3>1, <3>2
  <2> QED BY <2>2, <2>3, <2>4, <2>5, SameParents, StayKept
<1>5. CASE \E i \in PhaseItem : RetryReady(i)
  <2>1. PICK i \in co.waiting_retry : co' = RequeueItem(co, i) /\ UNCHANGED <<workers, frozen>>
    BY <1>5 DEF RetryReady
  <2>2. Queueing(co, co', i)
    BY <1>1, <2>1, RequeueQueues, QueueFields DEF Good
  <2>3. Parked(co') \subseteq Parked(co)
    BY <2>2 DEF Queueing
  <2>4. \A j : KeptAt(j)' <=> KeptAt(j)
    BY <2>1, SameParents DEF KeptAt
  <2> QED BY <2>3, <2>4 DEF KeptOn
<1>6. CASE \E w \in WorkerId : ProcStep(w) \/ Crash(w)
  BY <1>2, <1>6, OthersMove DEF loopVars
<1>7. CASE UNCHANGED poolVars \/ NothingToResume \/ Assigned \/ EndPhase \/ Shutdown \/ Cancel \/ Down
  BY <1>2, <1>7 DEF NothingToResume, Assigned, EndPhase, Shutdown, Cancel, Down, poolVars
<1> QED BY <1>3, <1>4, <1>5, <1>6, <1>7 DEF PoolNext, LoopStep

\* No step is lost between the coordinator, the leases and the stopped workers,
\* the step accounting invariant of architecture-decisions.md, however many steps
\* call parallel(): but for the parent of a group that is complete, which is lost
\* when the worker that went on with it is killed as another's replacement
\* (resume_frozen).
THEOREM LostByKill == PoolSpec => LostOnlyByKill
<1>1. ASSUME PoolInv, PoolInv', [PoolNext]_poolVars,
             NEW i \in Items(co') \ Terminal(co'), ~InBooks(i)'
      PROVE  (i \in Items(co) \ Terminal(co) /\ ~InBooks(i)) \/ KilledWith(i)
  <2>1. i \in Parked(co') /\ ~KeptAt(i)'
    <3>1. i \notin co'.executing
      BY <1>1 DEF PoolInv, Leases, InBooks, Leased
    <3> QED BY <1>1, <3>1 DEF Parked, InBooks, KeptAt, Leased
  <2>2. i \in Parked(co) /\ ~KeptAt(i) => i \in Items(co) \ Terminal(co) /\ ~InBooks(i)
    BY DEF Parked, InBooks, KeptAt, Leased
  <2>3. CASE ResumeFrozen
    BY <1>1, <2>1, <2>2, <2>3, ResumeKept
  <2>4. CASE ~ResumeFrozen
    <3>1. KeptOn
      BY <1>1, <2>4, StepEndKept, FreezeKept, LoopKept DEF Handle
    <3> QED BY <2>1, <2>2, <3>1 DEF KeptOn
  <2> QED BY <2>3, <2>4
<1>2. PoolInv /\ PoolInv' /\ [PoolNext]_poolVars =>
        [ \A i \in Items(co') \ Terminal(co') : ~InBooks(i)' =>
            \/ i \in Items(co) \ Terminal(co) /\ ~InBooks(i)
            \/ /\ pc = "resume" /\ i \in Resumed(co)
               /\ \E k \in DOMAIN frozen :
                    LET r == frozen[k].replacement
                    IN r \in DOMAIN workers \ DOMAIN workers' /\ workers[r] = <<i>> ]_poolVars
  BY <1>1 DEF KilledWith
<1> QED BY <1>2, PoolAlways, PTL DEF PoolSpec, LostOnlyByKill
=============================================================================
