-------------------------- MODULE ExecutionProofs --------------------------
(***************************************************************************)
(* Theorems about module Execution, for any pipelines, lists, edits and    *)
(* sequences of runs, whether they end, fail, are cancelled or die: what a *)
(* run takes from the cache is what it would compute, and what it runs     *)
(* again no earlier run computed.                                          *)
(***************************************************************************)
EXTENDS Execution, FiniteSetTheorems, WellFoundedInduction, TLAPS

-----------------------------------------------------------------------------
\* Every set of naturals has a least element.
LEMMA Least ==
    ASSUME NEW T \in SUBSET Nat, T # {}
    PROVE  \E n \in T : \A m \in T : ~(m < n)
<1>1. PICK R : R = OpToRel(<, Nat)
  OBVIOUS
<1>2. IsWellFoundedOn(R, Nat)
  BY <1>1, NatLessThanWellFounded
<1>3. \A a, b \in Nat : <<a, b>> \in R <=> a < b
  BY <1>1 DEF OpToRel
<1>4. PICK n \in T : \A m \in T : <<m, n>> \notin R
  BY <1>2, WFMin
<1> QED BY <1>3, <1>4

-----------------------------------------------------------------------------
(***************************************************************************)
(* Pipelines and worlds.                                                   *)
(***************************************************************************)
\* The nodes are numbered, and each is of a known kind and reads earlier ones:
\* a sensor none, an asset no tasks.
DagOk ==
    /\ Nodes(dag) \subseteq Nat
    /\ \A n \in Nodes(dag) :
        /\ dag.kind[n] \in {"asset", "sensor", "task"}
        /\ \A r \in dag.reads[n] : r = <<r[1], r[2]>> /\ r[1] \in Nodes(dag) /\ r[1] < n
        /\ dag.kind[n] = "sensor" => dag.reads[n] = {}
        /\ dag.kind[n] = "asset" => \A m \in Reads(dag, n) : dag.kind[m] # "task"

Worlds == [version : [Nodes(dag) -> Versions], reading : [Nodes(dag) -> Versions]]

Ids(w) == IdsIn(w, Nodes(dag))

KeysFit == KeysFitIn(world)

LEMMA IdIn ==
    ASSUME NEW w, NEW S, NEW id
    PROVE  id \in IdsIn(w, S) <=> /\ id = <<id[1], id[2]>> /\ id[1] \in S
                                  /\ id[2] \in KeysIn(w, id[1])
BY DEF IdsIn

\* What an id reads are ids of earlier nodes, each of the node it is read for.
LEMMA MeantIs ==
    ASSUME DagOk, NEW w, KeysFitIn(w), NEW id \in Ids(w), NEW r \in dag.reads[id[1]],
           NEW up \in Meant(w, id[2], r)
    PROVE  /\ up \in Ids(w) /\ up[1] = r[1] /\ up[1] \in Nodes(dag) /\ up[1] < id[1]
           /\ up \in IdsIn(w, {r[1]})
<1>1. id[1] \in Nodes(dag) /\ id[2] \in KeysIn(w, id[1])
  BY IdIn DEF Ids
<1>2. up \in IdsIn(w, {r[1]}) /\ r[1] \in Nodes(dag) /\ r[1] < id[1]
  BY <1>1 DEF KeysFitIn, DagOk
<1>3. up = <<up[1], up[2]>> /\ up[1] = r[1] /\ up[2] \in KeysIn(w, up[1])
  BY <1>2, IdIn
<1>4. up \in Ids(w)
  BY <1>2, <1>3, IdIn DEF Ids
<1> QED BY <1>2, <1>3, <1>4

-----------------------------------------------------------------------------
(***************************************************************************)
(* The functions FromScratch and HashFor are recursive: of use only once   *)
(* functions with these equations are known to exist.  They do because     *)
(* nodes read earlier ones.                                                *)
(***************************************************************************)
ScratchOf(w, f, id) ==
    [id |-> id, code |-> CodeIn(w, id[1]),
     args |-> { <<r, { f[up] : up \in Meant(w, id[2], r) }>> : r \in dag.reads[id[1]] }]

HashOf(w, f, id) ==
    <<id, w.version[id[1]],
      UNION { { TokenFor(w, up, f[up]) : up \in Meant(w, id[2], r) } : r \in dag.reads[id[1]] }>>

\* Only the values of earlier ids count.
LEMMA OfEarlier ==
    ASSUME DagOk, NEW w, KeysFitIn(w), NEW f, NEW g, NEW id \in Ids(w),
           \A up \in Ids(w) : up[1] < id[1] => f[up] = g[up]
    PROVE  ScratchOf(w, f, id) = ScratchOf(w, g, id) /\ HashOf(w, f, id) = HashOf(w, g, id)
<1>1. \A r \in dag.reads[id[1]] : \A up \in Meant(w, id[2], r) : f[up] = g[up]
  BY MeantIs
<1>2. \A r \in dag.reads[id[1]] :
        { f[up] : up \in Meant(w, id[2], r) } = { g[up] : up \in Meant(w, id[2], r) }
  BY <1>1
<1>3. \A r \in dag.reads[id[1]] :
        { TokenFor(w, up, f[up]) : up \in Meant(w, id[2], r) }
            = { TokenFor(w, up, g[up]) : up \in Meant(w, id[2], r) }
  BY <1>1
<1>4. ScratchOf(w, f, id) = ScratchOf(w, g, id)
  BY <1>2 DEF ScratchOf
<1>5. HashOf(w, f, id) = HashOf(w, g, id)
  BY <1>3 DEF HashOf
<1> QED BY <1>4, <1>5

Upto(w, n) == { id \in Ids(w) : id[1] < n }
Solves(w, f, n) == f = [id \in Upto(w, n) |-> ScratchOf(w, f, id)]
Hashes(w, f, n) == f = [id \in Upto(w, n) |-> HashOf(w, f, id)]

LEMMA NextSolves ==
    ASSUME DagOk, NEW w, KeysFitIn(w), NEW n \in Nat, NEW f, Solves(w, f, n)
    PROVE  \E g : Solves(w, g, n + 1)
<1> DEFINE g == [id \in Upto(w, n + 1) |-> ScratchOf(w, f, id)]
<1>1. \A id \in Ids(w) : id[1] \in Nat
  BY IdIn DEF Ids, DagOk
<1>2. \A a \in Nat : a < n => a < n + 1
  OBVIOUS
<1>3. \A a, b \in Nat : b < a /\ a < n + 1 => b < n
  OBVIOUS
<1>4. Upto(w, n) \subseteq Upto(w, n + 1)
  BY <1>1, <1>2 DEF Upto
<1>5. \A id \in Upto(w, n) : g[id] = f[id]
  BY <1>4 DEF Solves
<1>6. \A id \in Upto(w, n + 1) : ScratchOf(w, f, id) = ScratchOf(w, g, id)
  <2> TAKE id \in Upto(w, n + 1)
  <2>1. id \in Ids(w) /\ id[1] \in Nat /\ id[1] < n + 1
    BY <1>1 DEF Upto
  <2>2. \A up \in Ids(w) : up[1] < id[1] => f[up] = g[up]
    BY <1>1, <1>3, <1>5, <2>1 DEF Upto
  <2> HIDE DEF g
  <2> QED BY <2>1, <2>2, OfEarlier
<1>7. g = [id \in Upto(w, n + 1) |-> ScratchOf(w, g, id)]
  BY <1>6
<1> QED BY <1>7 DEF Solves

LEMMA NextHashes ==
    ASSUME DagOk, NEW w, KeysFitIn(w), NEW n \in Nat, NEW f, Hashes(w, f, n)
    PROVE  \E g : Hashes(w, g, n + 1)
<1> DEFINE g == [id \in Upto(w, n + 1) |-> HashOf(w, f, id)]
<1>1. \A id \in Ids(w) : id[1] \in Nat
  BY IdIn DEF Ids, DagOk
<1>2. \A a \in Nat : a < n => a < n + 1
  OBVIOUS
<1>3. \A a, b \in Nat : b < a /\ a < n + 1 => b < n
  OBVIOUS
<1>4. Upto(w, n) \subseteq Upto(w, n + 1)
  BY <1>1, <1>2 DEF Upto
<1>5. \A id \in Upto(w, n) : g[id] = f[id]
  BY <1>4 DEF Hashes
<1>6. \A id \in Upto(w, n + 1) : HashOf(w, f, id) = HashOf(w, g, id)
  <2> TAKE id \in Upto(w, n + 1)
  <2>1. id \in Ids(w) /\ id[1] \in Nat /\ id[1] < n + 1
    BY <1>1 DEF Upto
  <2>2. \A up \in Ids(w) : up[1] < id[1] => f[up] = g[up]
    BY <1>1, <1>3, <1>5, <2>1 DEF Upto
  <2> HIDE DEF g
  <2> QED BY <2>1, <2>2, OfEarlier
<1>7. g = [id \in Upto(w, n + 1) |-> HashOf(w, g, id)]
  BY <1>6
<1> QED BY <1>7 DEF Hashes

LEMMA AllSolved ==
    ASSUME DagOk, NEW w, KeysFitIn(w), NEW n \in Nat
    PROVE  (\E f : Solves(w, f, n)) /\ \E f : Hashes(w, f, n)
<1> DEFINE Both(m) == (\E f : Solves(w, f, m)) /\ \E f : Hashes(w, f, m)
<1>1. Both(0)
  <2>1. \A id \in Ids(w) : id[1] \in Nat
    BY IdIn DEF Ids, DagOk
  <2>2. Upto(w, 0) = {}
    BY <2>1 DEF Upto
  <2>3. Solves(w, [id \in {} |-> 0], 0) /\ Hashes(w, [id \in {} |-> 0], 0)
    BY <2>2 DEF Solves, Hashes
  <2> QED BY <2>3
<1>2. \A m \in Nat : Both(m) => Both(m + 1)
  BY NextSolves, NextHashes
<1> HIDE DEF Both
<1>3. SUFFICES ASSUME ~Both(n) PROVE FALSE
  BY DEF Both
<1>4. PICK T : T = { m \in Nat : ~Both(m) }
  OBVIOUS
<1>5. PICK m \in T : \A k \in T : ~(k < m)
  BY <1>3, <1>4, Least
<1>6. m \in Nat /\ m # 0
  BY <1>1, <1>4
<1>7. m - 1 \in Nat /\ (m - 1) + 1 = m /\ m - 1 < m
  BY <1>6
<1>8. Both(m - 1)
  BY <1>4, <1>5, <1>7
<1>9. Both(m)
  BY <1>2, <1>7, <1>8
<1> QED BY <1>4, <1>9

\* So the two functions are what their definitions say, if there is a node
\* number above all.
NodesEnd == \E n \in Nat : \A m \in Nodes(dag) : m < n

LEMMA FunctionsAre ==
    ASSUME DagOk, NodesEnd, NEW w, KeysFitIn(w)
    PROVE  \A id \in Ids(w) : /\ FromScratch(w)[id] = ScratchOf(w, FromScratch(w), id)
                              /\ HashFor(w)[id] = HashOf(w, HashFor(w), id)
<1>1. PICK n \in Nat : \A m \in Nodes(dag) : m < n
  BY DEF NodesEnd
<1>2. Upto(w, n) = Ids(w)
  BY <1>1, IdIn DEF Upto, Ids
<1>3. PICK s : s = [id \in Ids(w) |-> ScratchOf(w, s, id)]
  BY <1>2, AllSolved DEF Solves
<1>4. PICK h : h = [id \in Ids(w) |-> HashOf(w, h, id)]
  BY <1>2, AllSolved DEF Hashes
<1>5. FromScratch(w) = [id \in Ids(w) |-> ScratchOf(w, FromScratch(w), id)]
  BY <1>3 DEF FromScratch, ScratchOf, Ids
<1>6. HashFor(w) = [id \in Ids(w) |-> HashOf(w, HashFor(w), id)]
  BY <1>4 DEF HashFor, HashOf, Ids
<1> QED BY <1>5, <1>6

-----------------------------------------------------------------------------
(***************************************************************************)
(* A run hash tells the output.  In any two worlds an id has one token in  *)
(* both exactly if a run from scratch gives it one output in both.         *)
(***************************************************************************)
TokenIn(w, id) == TokenFor(w, id, HashFor(w)[id])

\* One token, one output.
Tells(v, w, id) == TokenIn(v, id) = TokenIn(w, id) <=> FromScratch(v)[id] = FromScratch(w)[id]

TokensOf(w, id) ==
    UNION { { TokenIn(w, up) : up \in Meant(w, id[2], r) } : r \in dag.reads[id[1]] }
ValuesOf(w, id, r) == { FromScratch(w)[up] : up \in Meant(w, id[2], r) }
ArgsOf(w, id) == { <<r, ValuesOf(w, id, r)>> : r \in dag.reads[id[1]] }

LEMMA PartsAre ==
    ASSUME DagOk, NodesEnd, NEW w, KeysFitIn(w), NEW id \in Ids(w)
    PROVE  /\ HashFor(w)[id] = <<id, w.version[id[1]], TokensOf(w, id)>>
           /\ FromScratch(w)[id] = [id |-> id, code |-> CodeIn(w, id[1]), args |-> ArgsOf(w, id)]
BY FunctionsAre DEF HashOf, ScratchOf, TokensOf, ArgsOf, ValuesOf, TokenIn

\* A token and an output name their id.
LEMMA Named ==
    ASSUME DagOk, NodesEnd, NEW v, KeysFitIn(v), NEW w, KeysFitIn(w),
           NEW a \in Ids(v), NEW b \in Ids(w)
    PROVE  /\ TokenIn(v, a) = TokenIn(w, b) => a = b
           /\ FromScratch(v)[a] = FromScratch(w)[b] => a = b
<1>1. /\ HashFor(v)[a] = <<a, v.version[a[1]], TokensOf(v, a)>>
      /\ HashFor(w)[b] = <<b, w.version[b[1]], TokensOf(w, b)>>
      /\ FromScratch(v)[a] = [id |-> a, code |-> CodeIn(v, a[1]), args |-> ArgsOf(v, a)]
      /\ FromScratch(w)[b] = [id |-> b, code |-> CodeIn(w, b[1]), args |-> ArgsOf(w, b)]
  BY PartsAre
<1>2. TokenIn(v, a)[1] = HashFor(v)[a] /\ TokenIn(w, b)[1] = HashFor(w)[b]
  BY DEF TokenIn, TokenFor
<1>3. TokenIn(v, a) = TokenIn(w, b) => HashFor(v)[a] = HashFor(w)[b]
  BY <1>2
<1>4. FromScratch(v)[a].id = a /\ FromScratch(w)[b].id = b
  BY <1>1
<1>5. HashFor(v)[a][1] = a /\ HashFor(w)[b][1] = b
  BY <1>1
<1> QED BY <1>3, <1>4, <1>5

MeantOf(w, id) ==
    \A r \in dag.reads[id[1]] : \A up \in Meant(w, id[2], r) : 
        up \in Ids(w) /\ up[1] = r[1] /\ up[1] < id[1]

LEMMA MeantAre ==
    ASSUME DagOk, NEW w, KeysFitIn(w), NEW id \in Ids(w)
    PROVE  MeantOf(w, id)
<1>1. SUFFICES ASSUME NEW r \in dag.reads[id[1]], NEW up \in Meant(w, id[2], r)
               PROVE  up \in Ids(w) /\ up[1] = r[1] /\ up[1] < id[1]
  BY DEF MeantOf
<1>2. up \in Ids(w) /\ up \in IdsIn(w, {r[1]}) /\ up[1] < id[1]
  BY MeantIs
<1>3. up[1] = r[1]
  BY <1>2, IdIn
<1> QED BY <1>2, <1>3

\* Hashes with one set of tokens are of ids that are meant to read the same.
LEMMA SameTokens ==
    ASSUME DagOk, NodesEnd, NEW v, KeysFitIn(v), NEW w, KeysFitIn(w),
           NEW id \in Ids(v), id \in Ids(w), TokensOf(v, id) = TokensOf(w, id),
           NEW r \in dag.reads[id[1]], NEW up \in Meant(v, id[2], r)
    PROVE  up \in Meant(w, id[2], r) /\ TokenIn(v, up) = TokenIn(w, up)
<1>1. up \in Ids(v) /\ up[1] = r[1]
  BY MeantAre DEF MeantOf
<1>2. PICK q \in dag.reads[id[1]] : \E p \in Meant(w, id[2], q) : TokenIn(v, up) = TokenIn(w, p)
  BY DEF TokensOf
<1>3. PICK p \in Meant(w, id[2], q) : TokenIn(v, up) = TokenIn(w, p)
  BY <1>2
<1>4. p \in Ids(w) /\ p[1] = q[1]
  BY MeantAre DEF MeantOf
<1>5. up = p
  BY <1>1, <1>3, <1>4, Named
<1>6. up \in Meant(w, id[2], r)
  <2>1. CASE ~Partitioned(dag, r[1]) \/ r[2] # "collect"
    BY <2>1 DEF Meant
  <2>2. CASE Partitioned(dag, r[1]) /\ r[2] = "collect"
    BY <1>1, <1>4, <1>5, <2>2, IdIn DEF Meant, Ids
  <2> QED BY <2>1, <2>2
<1> QED BY <1>3, <1>5, <1>6

\* So are outputs with one set of arguments.
LEMMA SameArgs ==
    ASSUME DagOk, NodesEnd, NEW v, KeysFitIn(v), NEW w, KeysFitIn(w),
           NEW id \in Ids(v), id \in Ids(w), ArgsOf(v, id) = ArgsOf(w, id),
           NEW r \in dag.reads[id[1]], NEW up \in Meant(v, id[2], r)
    PROVE  up \in Meant(w, id[2], r) /\ FromScratch(v)[up] = FromScratch(w)[up]
<1>1. <<r, ValuesOf(v, id, r)>> \in ArgsOf(w, id)
  <2>1. <<r, ValuesOf(v, id, r)>> \in ArgsOf(v, id)
    BY DEF ArgsOf
  <2> QED BY <2>1
<1>2. PICK q \in dag.reads[id[1]] : <<r, ValuesOf(v, id, r)>> = <<q, ValuesOf(w, id, q)>>
  BY <1>1 DEF ArgsOf
<1>3. ValuesOf(v, id, r) = ValuesOf(w, id, r)
  BY <1>2
<1>4. PICK p \in Meant(w, id[2], r) : FromScratch(v)[up] = FromScratch(w)[p]
  <2>1. FromScratch(v)[up] \in ValuesOf(v, id, r)
    BY DEF ValuesOf
  <2> QED BY <1>3, <2>1 DEF ValuesOf
<1>5. up \in Ids(v) /\ p \in Ids(w)
  BY MeantIs
<1>6. up = p
  BY <1>4, <1>5, Named
<1> QED BY <1>4, <1>6

TellsBefore(v, w, n) ==
    \A up : up \in Ids(v) /\ up \in Ids(w) /\ up[1] < n => Tells(v, w, up)

LEMMA TellsNext ==
    ASSUME DagOk, NodesEnd, NEW v, KeysFitIn(v), NEW w, KeysFitIn(w),
           NEW id, id \in Ids(v), id \in Ids(w), TellsBefore(v, w, id[1])
    PROVE  Tells(v, w, id)
<1>1. /\ HashFor(v)[id] = <<id, v.version[id[1]], TokensOf(v, id)>>
      /\ HashFor(w)[id] = <<id, w.version[id[1]], TokensOf(w, id)>>
      /\ FromScratch(v)[id] = [id |-> id, code |-> CodeIn(v, id[1]), args |-> ArgsOf(v, id)]
      /\ FromScratch(w)[id] = [id |-> id, code |-> CodeIn(w, id[1]), args |-> ArgsOf(w, id)]
  BY PartsAre
<1>2. \A r \in dag.reads[id[1]] : /\ \A up \in Meant(v, id[2], r) : up \in Ids(v) /\ up[1] < id[1]
                                  /\ \A up \in Meant(w, id[2], r) : up \in Ids(w) /\ up[1] < id[1]
  BY MeantIs
<1>3. ASSUME TokenIn(v, id) = TokenIn(w, id) PROVE FromScratch(v)[id] = FromScratch(w)[id]
  <2>1. TokenIn(v, id)[1] = HashFor(v)[id] /\ TokenIn(w, id)[1] = HashFor(w)[id]
    BY DEF TokenIn, TokenFor
  <2>2. HashFor(v)[id] = HashFor(w)[id]
    BY <1>3, <2>1
  <2>3. v.version[id[1]] = w.version[id[1]] /\ TokensOf(v, id) = TokensOf(w, id)
    BY <1>1, <2>2
  <2>4. CodeIn(v, id[1]) = CodeIn(w, id[1])
    <3>1. CASE dag.kind[id[1]] = "sensor"
      <4>1. TokenIn(v, id)[2] = CodeIn(v, id[1]) /\ TokenIn(w, id)[2] = CodeIn(w, id[1])
        BY <3>1 DEF TokenIn, TokenFor
      <4> QED BY <1>3, <4>1
    <3>2. CASE dag.kind[id[1]] # "sensor"
      BY <2>3, <3>2 DEF CodeIn
    <3> QED BY <3>1, <3>2
  <2>5. ASSUME NEW r \in dag.reads[id[1]] PROVE ValuesOf(v, id, r) = ValuesOf(w, id, r)
    <3>1. \A up \in Meant(v, id[2], r) : up \in Meant(w, id[2], r) /\ TokenIn(v, up) = TokenIn(w, up)
      BY <2>3, SameTokens
    <3>2. \A up \in Meant(w, id[2], r) : up \in Meant(v, id[2], r)
      BY <2>3, SameTokens
    <3>3. Meant(v, id[2], r) = Meant(w, id[2], r)
      BY <3>1, <3>2
    <3>4. \A up \in Meant(v, id[2], r) : FromScratch(v)[up] = FromScratch(w)[up]
      BY <1>2, <3>1, <3>3 DEF TellsBefore, Tells
    <3> QED BY <3>3, <3>4 DEF ValuesOf
  <2>6. ArgsOf(v, id) = ArgsOf(w, id)
    BY <2>5 DEF ArgsOf
  <2> QED BY <1>1, <2>4, <2>6
<1>4. ASSUME FromScratch(v)[id] = FromScratch(w)[id] PROVE TokenIn(v, id) = TokenIn(w, id)
  <2>1. CodeIn(v, id[1]) = CodeIn(w, id[1]) /\ ArgsOf(v, id) = ArgsOf(w, id)
    BY <1>1, <1>4
  <2>2. v.version[id[1]] = w.version[id[1]]
    BY <2>1 DEF CodeIn
  <2>3. ASSUME NEW r \in dag.reads[id[1]]
        PROVE  { TokenIn(v, up) : up \in Meant(v, id[2], r) } = { TokenIn(w, up) : up \in Meant(w, id[2], r) }
    <3>1. \A up \in Meant(v, id[2], r) : up \in Meant(w, id[2], r)
                                         /\ FromScratch(v)[up] = FromScratch(w)[up]
      BY <2>1, SameArgs
    <3>2. \A up \in Meant(w, id[2], r) : up \in Meant(v, id[2], r)
      BY <2>1, SameArgs
    <3>3. Meant(v, id[2], r) = Meant(w, id[2], r)
      BY <3>1, <3>2
    <3>4. \A up \in Meant(v, id[2], r) : TokenIn(v, up) = TokenIn(w, up)
      BY <1>2, <3>1, <3>3 DEF TellsBefore, Tells
    <3> QED BY <3>3, <3>4
  <2>4. TokensOf(v, id) = TokensOf(w, id)
    BY <2>3 DEF TokensOf
  <2>5. HashFor(v)[id] = HashFor(w)[id]
    BY <1>1, <2>2, <2>4
  <2> QED BY <2>1, <2>5 DEF TokenIn, TokenFor
<1> QED BY <1>3, <1>4 DEF Tells

\* Two worlds agree on the token of an id exactly if they agree on its output:
\* the hash covers the code and all that is read, and nothing else (hash.rs).
THEOREM HashTells ==
    ASSUME DagOk, NodesEnd, NEW v, KeysFitIn(v), NEW w, KeysFitIn(w),
           NEW id, id \in Ids(v), id \in Ids(w)
    PROVE  Tells(v, w, id)
<1>1. SUFFICES ASSUME ~Tells(v, w, id) PROVE FALSE
  OBVIOUS
<1>2. PICK T : T = { n \in Nodes(dag) : \E b : b \in Ids(v) /\ b \in Ids(w) /\ b[1] = n /\ ~Tells(v, w, b) }
  OBVIOUS
<1>3. T \in SUBSET Nat /\ id[1] \in T
  BY <1>1, <1>2, IdIn DEF DagOk, Ids
<1>4. PICK n \in T : \A m \in T : ~(m < n)
  BY <1>3, Least
<1>5. PICK b : b \in Ids(v) /\ b \in Ids(w) /\ b[1] = n /\ ~Tells(v, w, b)
  BY <1>2
<1>6. TellsBefore(v, w, b[1])
  BY <1>2, <1>4, <1>5, IdIn DEF TellsBefore, Ids
<1> QED BY <1>5, <1>6, TellsNext

-----------------------------------------------------------------------------
(***************************************************************************)
(* Decisions (decide_step), provided that all a step reads was decided     *)
(* before it and the sensors among that have run.                          *)
(***************************************************************************)
Recorded(d, id) == <<id, d.hashes[id]>> \in DOMAIN rows

\* The nodes behind the refreshed asset, by inputs.
IsBehind(g) == g = [n \in Nodes(dag) |-> n = run.policy.name \/ \E m \in Reads(dag, n) : g[m]]

\* What is behind the refreshed asset, as far as it is decided, is refreshed
\* as well, and is not served.
Cascaded(d) ==
    run.policy.how = "refresh" =>
        /\ \A id \in d.cached : id[1] # run.policy.name
        /\ run.policy.cascade =>
               \A g : IsBehind(g) =>
                   /\ \A id \in d.cached : ~g[id[1]]
                   /\ \A id \in DOMAIN d.hashes :
                          dag.kind[id[1]] = "asset" /\ g[id[1]] => id[1] \in d.refreshed

PolicyOk == run.policy.how = "refresh" => dag.kind[run.policy.name] = "asset"

DecidedRight(d) ==
    /\ DOMAIN d = {"hashes", "sensorOut", "refreshed", "cached"}
    /\ \A id \in DOMAIN d.hashes : id \in Ids(world) /\ d.hashes[id] = HashFor(world)[id]
    /\ \A id \in DOMAIN d.sensorOut :
           dag.kind[id[1]] = "sensor" /\ d.sensorOut[id] = CodeIn(world, id[1])
    /\ \A id \in d.cached :
           id \in DOMAIN d.hashes /\ dag.kind[id[1]] = "asset" /\ Recorded(d, id)
    /\ run.policy.how = "aware" =>
           \A id \in DOMAIN d.hashes :
               id \notin d.cached /\ dag.kind[id[1]] = "asset" => ~Recorded(d, id)
    /\ Cascaded(d)

\* What the id reads has been decided, and run if it is a sensor.
ReadsKnown(d, id) ==
    \A r \in dag.reads[id[1]] : \A up \in Meant(world, id[2], r) :
        up \in DOMAIN d.hashes /\ (dag.kind[r[1]] = "sensor" => up \in DOMAIN d.sensorOut)

Tokens(d, id, m) ==
    LET token(up) == Token(d.sensorOut, up, d.hashes[up]) IN
    IF <<m, NoKey>> \in DOMAIN d.hashes THEN {token(<<m, NoKey>>)}
    ELSE IF <<m, id[2]>> \in DOMAIN d.hashes THEN {token(<<m, id[2]>>)}
    ELSE { token(up) : up \in { h \in DOMAIN d.hashes : h[1] = m } }

LEMMA TokensAre ==
    ASSUME DagOk, KeysFit, NEW d, DecidedRight(d), NEW id \in Ids(world), ReadsKnown(d, id),
           NEW r \in dag.reads[id[1]]
    PROVE  Tokens(d, id, r[1]) = { TokenIn(world, up) : up \in Meant(world, id[2], r) }
<1> DEFINE m == r[1]
           token(up) == Token(d.sensorOut, up, d.hashes[up])
<1>1. /\ id[1] \in Nodes(dag) /\ id[2] \in KeysIn(world, id[1]) /\ m \in Nodes(dag)
  BY IdIn DEF Ids, DagOk
<1>2. \A up \in DOMAIN d.hashes : /\ up \in Ids(world) /\ up = <<up[1], up[2]>>
                                  /\ up[1] \in Nodes(dag) /\ up[2] \in KeysIn(world, up[1])
                                  /\ d.hashes[up] = HashFor(world)[up]
  BY IdIn DEF Ids, DecidedRight
<1>3. \A up \in Meant(world, id[2], r) : up[1] = m /\ up \in DOMAIN d.hashes
  BY MeantAre DEF MeantOf, ReadsKnown, KeysFit
<1>4. ASSUME NEW up \in Meant(world, id[2], r) PROVE token(up) = TokenIn(world, up)
  <2>1. d.hashes[up] = HashFor(world)[up]
    BY <1>2, <1>3
  <2>2. CASE dag.kind[m] = "sensor"
    <3>1. up \in DOMAIN d.sensorOut /\ d.sensorOut[up] = CodeIn(world, m)
      BY <1>3, <2>2 DEF ReadsKnown, DecidedRight
    <3> QED BY <1>3, <2>1, <2>2, <3>1 DEF Token, TokenIn, TokenFor
  <2>3. CASE dag.kind[m] # "sensor"
    <3>1. up \notin DOMAIN d.sensorOut
      BY <1>3, <2>3 DEF DecidedRight
    <3> QED BY <1>3, <2>1, <2>3, <3>1 DEF Token, TokenIn, TokenFor
  <2> QED BY <2>2, <2>3
<1>5. { token(up) : up \in Meant(world, id[2], r) }
          = { TokenIn(world, up) : up \in Meant(world, id[2], r) }
  BY <1>4
<1>6. Tokens(d, id, m) = IF <<m, NoKey>> \in DOMAIN d.hashes THEN {token(<<m, NoKey>>)}
                         ELSE IF <<m, id[2]>> \in DOMAIN d.hashes THEN {token(<<m, id[2]>>)}
                         ELSE { token(up) : up \in { h \in DOMAIN d.hashes : h[1] = m } }
  BY DEF Tokens
<1> HIDE DEF token
<1>7. CASE ~Partitioned(dag, m)
  <2>1. Meant(world, id[2], r) = {<<m, NoKey>>}
    BY <1>7 DEF Meant
  <2>2. <<m, NoKey>> \in DOMAIN d.hashes
    BY <1>3, <2>1
  <2>3. Tokens(d, id, m) = {token(<<m, NoKey>>)}
    BY <1>6, <2>2
  <2> QED BY <1>5, <2>1, <2>3
<1>8. CASE Partitioned(dag, m)
  <2>1. <<m, NoKey>> \notin DOMAIN d.hashes
    <3>1. \A k \in KeysIn(world, m) : k # NoKey
      BY <1>1, <1>8 DEF KeysFit, KeysFitIn
    <3>2. ASSUME <<m, NoKey>> \in DOMAIN d.hashes PROVE FALSE
      <4>1. PICK up \in DOMAIN d.hashes : up = <<m, NoKey>>
        BY <3>2
      <4>2. up[1] = m /\ up[2] = NoKey
        BY <4>1
      <4> QED BY <1>2, <3>1, <4>2
    <3> QED BY <3>2
  <2>2. CASE r[2] # "collect"
    <3>1. Meant(world, id[2], r) = {<<m, id[2]>>}
      BY <1>8, <2>2 DEF Meant
    <3>2. <<m, id[2]>> \in DOMAIN d.hashes
      BY <1>3, <3>1
    <3>3. Tokens(d, id, m) = {token(<<m, id[2]>>)}
      BY <1>6, <2>1, <3>2
    <3> QED BY <1>5, <3>1, <3>3
  <2>3. CASE r[2] = "collect"
    <3>1. id[2] \notin KeysIn(world, m)
      BY <1>1, <1>8, <2>3 DEF KeysFit, KeysFitIn
    <3>2. ASSUME <<m, id[2]>> \in DOMAIN d.hashes PROVE FALSE
      <4>1. PICK up \in DOMAIN d.hashes : up = <<m, id[2]>>
        BY <3>2
      <4>2. up[1] = m /\ up[2] = id[2]
        BY <4>1
      <4> QED BY <1>2, <3>1, <4>2
    <3>3. Meant(world, id[2], r) = { h \in DOMAIN d.hashes : h[1] = m }
      <4>1. Meant(world, id[2], r) = IdsIn(world, {m})
        BY <1>8, <2>3 DEF Meant
      <4>2. \A h \in DOMAIN d.hashes : h[1] = m => h \in IdsIn(world, {m})
        BY <1>2, IdIn
      <4> QED BY <1>3, <4>1, <4>2
    <3> QED BY <1>5, <1>6, <2>1, <3>2, <3>3
  <2> QED BY <2>2, <2>3
<1> QED BY <1>7, <1>8

\* So the hash of an id is that of all it is computed from (compute_run_hash).
LEMMA HashIsRight ==
    ASSUME DagOk, NodesEnd, KeysFit, NEW d, DecidedRight(d),
           NEW id \in Ids(world), ReadsKnown(d, id)
    PROVE  ComputeRunHash(dag, world.version, d.hashes, d.sensorOut, id) = HashFor(world)[id]
<1>1. HashFor(world)[id] = <<id, world.version[id[1]], TokensOf(world, id)>>
  BY PartsAre DEF KeysFit
<1>2. ComputeRunHash(dag, world.version, d.hashes, d.sensorOut, id)
          = <<id, world.version[id[1]], UNION { Tokens(d, id, m) : m \in Reads(dag, id[1]) }>>
  BY DEF ComputeRunHash, Tokens
<1>3. { Tokens(d, id, m) : m \in Reads(dag, id[1]) }
          = { Tokens(d, id, r[1]) : r \in dag.reads[id[1]] }
  BY DEF Reads
<1>4. { Tokens(d, id, r[1]) : r \in dag.reads[id[1]] }
          = { { TokenIn(world, up) : up \in Meant(world, id[2], r) } : r \in dag.reads[id[1]] }
  BY TokensAre
<1>5. UNION { Tokens(d, id, m) : m \in Reads(dag, id[1]) } = TokensOf(world, id)
  BY <1>3, <1>4 DEF TokensOf
<1> QED BY <1>1, <1>2, <1>5

StepIds(step) == { <<step.node, k>> : k \in KeysOf(step) }

\* The step is new, and what it reads is known.
MayDecide(d, step) ==
    /\ step.node \in Nodes(dag)
    /\ SensorsKnown(dag, d.sensorOut, step.node)
    /\ \A m \in Reads(dag, step.node) : \E up \in DOMAIN d.hashes : up[1] = m
    /\ \A id \in StepIds(step) :
           id \in Ids(world) /\ id \notin DOMAIN d.hashes /\ ReadsKnown(d, id)

Decided(d, step) == DecideStep(dag, world.version, run.policy, DOMAIN rows, d, step)

Follows(d, e, ids) ==
    /\ e.sensorOut = d.sensorOut
    /\ DOMAIN e.hashes = DOMAIN d.hashes \cup ids
    /\ d.cached \subseteq e.cached

LEMMA StepCascades ==
    ASSUME DagOk, PolicyOk, NEW d, DecidedRight(d), NEW step, MayDecide(d, step)
    PROVE  Cascaded(Decided(d, step))
<1> DEFINE e == Decided(d, step)
           n == step.node
           forced == Forced(dag, run.policy, d.refreshed, n)
<1>1. SUFFICES ASSUME run.policy.how = "refresh" PROVE Cascaded(e)
  BY DEF Cascaded
<1>2. /\ e.refreshed = IF Refreshes(dag, run.policy, d.refreshed, n)
                        THEN d.refreshed \cup {n} ELSE d.refreshed
      /\ DOMAIN e.hashes = DOMAIN d.hashes \cup StepIds(step)
      /\ \A id \in e.cached : id \in d.cached \/ (id[1] = n /\ ~forced)
  <2> DEFINE hashes == WithHashes(dag, world.version, d, step)
             hit(k) == /\ ~forced
                       /\ SensorsKnown(dag, d.sensorOut, n)
                       /\ <<<<n, k>>, hashes[<<n, k>>]>> \in DOMAIN rows
             hits == { <<n, k>> : k \in { k \in KeysOf(step) : hit(k) } }
  <2>1. /\ e.refreshed = IF Refreshes(dag, run.policy, d.refreshed, n)
                          THEN d.refreshed \cup {n} ELSE d.refreshed
        /\ e.hashes = hashes /\ e.cached = d.cached \cup hits
    BY DEF Decided, DecideStep, DecidedRight
  <2>2. DOMAIN hashes = DOMAIN d.hashes \cup StepIds(step)
    BY DEF WithHashes, StepIds
  <2>3. ASSUME NEW id \in hits PROVE id[1] = n /\ ~forced
    <3>1. PICK k \in KeysOf(step) : id = <<n, k>> /\ ~forced
      OBVIOUS
    <3> QED BY <3>1
  <2> HIDE DEF e, hashes, hits, forced
  <2> QED BY <2>1, <2>2, <2>3
<1>3. \A id \in StepIds(step) : id[1] = n
  BY DEF StepIds
<1>4. n = run.policy.name => forced
  BY <1>1 DEF Forced
<1>5. \A id \in e.cached : id[1] # run.policy.name
  BY <1>1, <1>2, <1>4 DEF DecidedRight, Cascaded
<1>6. ASSUME run.policy.cascade, NEW g, IsBehind(g)
      PROVE  /\ \A id \in e.cached : ~g[id[1]]
             /\ \A id \in DOMAIN e.hashes :
                    dag.kind[id[1]] = "asset" /\ g[id[1]] => id[1] \in e.refreshed
  <2>1. /\ \A id \in d.cached : ~g[id[1]]
        /\ \A id \in DOMAIN d.hashes :
               dag.kind[id[1]] = "asset" /\ g[id[1]] => id[1] \in d.refreshed
    BY <1>1, <1>6 DEF DecidedRight, Cascaded
  <2>2. \A l \in Nodes(dag) : g[l] => l = run.policy.name \/ \E m \in Reads(dag, l) : g[m]
    BY <1>6 DEF IsBehind
  <2>3. ASSUME g[n] PROVE forced
    <3>1. CASE n = run.policy.name
      BY <1>4, <3>1
    <3>2. CASE dag.kind[n] # "asset"
      BY <3>2 DEF Forced, MayDecide, DagOk
    <3>3. CASE n # run.policy.name /\ dag.kind[n] = "asset"
      <4>1. PICK m \in Reads(dag, n) : g[m]
        BY <2>2, <2>3, <3>3 DEF MayDecide
      <4>2. m \in Nodes(dag) /\ dag.kind[m] # "task"
        BY <3>3 DEF MayDecide, DagOk, Reads
      <4>3. dag.kind[m] # "sensor"
        <5>1. ASSUME dag.kind[m] = "sensor" PROVE FALSE
          <6>1. Reads(dag, m) = {}
            BY <4>2, <5>1 DEF DagOk, Reads
          <6>2. m = run.policy.name
            BY <2>2, <4>1, <4>2, <6>1
          <6> QED BY <1>1, <5>1, <6>2 DEF PolicyOk
        <5> QED BY <5>1
      <4>4. dag.kind[m] = "asset"
        BY <4>2, <4>3 DEF DagOk
      <4>5. PICK up \in DOMAIN d.hashes : up[1] = m
        BY DEF MayDecide
      <4>6. m \in d.refreshed
        BY <2>1, <4>1, <4>4, <4>5
      <4> QED BY <1>1, <1>6, <4>6 DEF Forced
    <3> QED BY <3>1, <3>2, <3>3
  <2>4. dag.kind[n] = "asset" /\ forced => n \in e.refreshed
    BY <1>2 DEF Refreshes
  <2>5. \A l \in d.refreshed : l \in e.refreshed
    BY <1>2
  <2> HIDE DEF e, forced
  <2>6. ASSUME NEW id \in e.cached PROVE ~g[id[1]]
    BY <1>2, <2>1, <2>3
  <2>7. ASSUME NEW id \in DOMAIN e.hashes, dag.kind[id[1]] = "asset", g[id[1]]
        PROVE  id[1] \in e.refreshed
    BY <1>2, <1>3, <2>1, <2>3, <2>4, <2>5, <2>7
  <2> QED BY <2>6, <2>7
<1> HIDE DEF e
<1> QED BY <1>5, <1>6 DEF Cascaded

LEMMA StepIsRight ==
    ASSUME DagOk, NodesEnd, PolicyOk, KeysFit, NEW d, DecidedRight(d), NEW step, MayDecide(d, step)
    PROVE  DecidedRight(Decided(d, step)) /\ Follows(d, Decided(d, step), StepIds(step))
<1> DEFINE e == Decided(d, step)
           n == step.node
           hashes == WithHashes(dag, world.version, d, step)
           hit(k) == /\ ~Forced(dag, run.policy, d.refreshed, n)
                     /\ SensorsKnown(dag, d.sensorOut, n)
                     /\ <<<<n, k>>, hashes[<<n, k>>]>> \in DOMAIN rows
           hits == { <<n, k>> : k \in { k \in KeysOf(step) : hit(k) } }
<1>1. /\ DOMAIN e = DOMAIN d /\ e.hashes = hashes /\ e.sensorOut = d.sensorOut
      /\ e.cached = d.cached \cup hits
  BY DEF Decided, DecideStep, DecidedRight
<1>2. /\ DOMAIN hashes = DOMAIN d.hashes \cup StepIds(step)
      /\ \A id \in DOMAIN d.hashes : hashes[id] = d.hashes[id]
      /\ \A id \in StepIds(step) :
             hashes[id] = ComputeRunHash(dag, world.version, d.hashes, d.sensorOut, id)
  BY DEF WithHashes, StepIds, MayDecide
<1>3. \A id \in StepIds(step) : hashes[id] = HashFor(world)[id]
  BY <1>2, HashIsRight DEF MayDecide
<1>4. \A id \in StepIds(step) : id[1] = n /\ id[2] \in KeysOf(step) /\ id = <<n, id[2]>>
  BY DEF StepIds
<1>5. /\ run.policy.how = "aware" /\ dag.kind[n] = "asset" => ~Forced(dag, run.policy, d.refreshed, n)
      /\ ~Forced(dag, run.policy, d.refreshed, n) => dag.kind[n] = "asset"
  BY DEF Forced, MayDecide, DagOk
<1>6. ASSUME NEW id \in hits
      PROVE  /\ id \in StepIds(step) /\ dag.kind[id[1]] = "asset"
             /\ <<id, hashes[id]>> \in DOMAIN rows
  <2>1. PICK k \in KeysOf(step) : hit(k) /\ id = <<n, k>>
    OBVIOUS
  <2>2. id \in StepIds(step)
    BY <2>1 DEF StepIds
  <2> QED BY <1>4, <1>5, <2>1, <2>2
<1>7. ASSUME NEW id \in StepIds(step), id \notin hits, run.policy.how = "aware",
             dag.kind[id[1]] = "asset"
      PROVE  <<id, hashes[id]>> \notin DOMAIN rows
  <2>1. ~hit(id[2])
    BY <1>4, <1>7
  <2> QED BY <1>4, <1>5, <1>7, <2>1 DEF MayDecide
<1>0. Cascaded(e)
  BY StepCascades
<1> HIDE DEF e, hashes, hits
<1>8. DOMAIN e = {"hashes", "sensorOut", "refreshed", "cached"}
  BY <1>1 DEF DecidedRight
<1>9. \A id \in DOMAIN e.hashes : id \in Ids(world) /\ e.hashes[id] = HashFor(world)[id]
  BY <1>1, <1>2, <1>3 DEF DecidedRight, MayDecide
<1>10. \A id \in DOMAIN e.sensorOut :
           dag.kind[id[1]] = "sensor" /\ e.sensorOut[id] = CodeIn(world, id[1])
  BY <1>1 DEF DecidedRight
<1>11. \A id \in e.cached :
           id \in DOMAIN e.hashes /\ dag.kind[id[1]] = "asset" /\ Recorded(e, id)
  BY <1>1, <1>2, <1>6 DEF DecidedRight, Recorded
<1>12. run.policy.how = "aware" =>
           \A id \in DOMAIN e.hashes :
               id \notin e.cached /\ dag.kind[id[1]] = "asset" => ~Recorded(e, id)
  BY <1>1, <1>2, <1>7 DEF DecidedRight, Recorded
<1>13. DecidedRight(e)
  BY <1>0, <1>8, <1>9, <1>10, <1>11, <1>12 DEF DecidedRight
<1>14. Follows(d, e, StepIds(step))
  BY <1>1, <1>2 DEF Follows
<1> QED BY <1>13, <1>14 DEF e

(***************************************************************************)
(* A phase is decided by a fold over its steps.  The library defines a     *)
(* fold by a recursive function on sets of places, again of use only once  *)
(* there is one.                                                           *)
(***************************************************************************)
FoldsTo(g, base, steps, n) ==
    g = [t \in SUBSET (1 .. n) |->
            IF t = {} THEN base ELSE Decided(g[t \ {Max(t)}], steps[Max(t)])]

LEMMA MaxIs ==
    ASSUME NEW n \in Nat, NEW t \in SUBSET (1 .. n), n \in t
    PROVE  Max(t) = n
<1>1. \A y \in t : n >= y
  OBVIOUS
<1>2. \A x \in t : (\A y \in t : x >= y) => x = n
  OBVIOUS
<1> QED BY <1>1, <1>2 DEF Max

LEMMA UpTo ==
    ASSUME NEW n \in Nat, NEW k \in 1 .. n
    PROVE  /\ 1 .. k \in SUBSET (1 .. n) /\ 1 .. k # {}
           /\ Max(1 .. k) = k /\ (1 .. k) \ {k} = 1 .. k - 1
<1>1. /\ 1 .. k \in SUBSET (1 .. n) /\ 1 .. k # {}
      /\ (1 .. k) \ {k} = 1 .. k - 1 /\ k \in 1 .. k /\ k \in Nat
  OBVIOUS
<1>2. Max(1 .. k) = k
  BY <1>1, MaxIs
<1> QED BY <1>1, <1>2

LEMMA FoldsExist ==
    ASSUME NEW base, NEW steps, NEW n \in Nat
    PROVE  \E g : FoldsTo(g, base, steps, n)
<1> DEFINE Ok(m) == \E g : FoldsTo(g, base, steps, m)
<1>1. Ok(0)
  <2>1. \A t \in SUBSET (1 .. 0) : t = {}
    OBVIOUS
  <2>2. FoldsTo([t \in SUBSET (1 .. 0) |-> base], base, steps, 0)
    BY <2>1 DEF FoldsTo
  <2> QED BY <2>2
<1>2. ASSUME NEW m \in Nat, Ok(m) PROVE Ok(m + 1)
  <2>1. PICK g : FoldsTo(g, base, steps, m)
    BY <1>2
  <2> DEFINE h == [t \in SUBSET (1 .. m + 1) |->
                     IF m + 1 \in t THEN Decided(g[t \ {m + 1}], steps[m + 1]) ELSE g[t]]
  <2>2. \A t \in SUBSET (1 .. m + 1) :
            /\ t \ {m + 1} \in SUBSET (1 .. m)
            /\ m + 1 \notin t => t \in SUBSET (1 .. m)
    OBVIOUS
  <2>3. ASSUME NEW t \in SUBSET (1 .. m + 1)
        PROVE  h[t] = IF t = {} THEN base ELSE Decided(h[t \ {Max(t)}], steps[Max(t)])
    <3>1. CASE m + 1 \in t
      <4>1. Max(t) = m + 1
        BY <3>1, MaxIs
      <4>2. t \ {m + 1} \in SUBSET (1 .. m + 1) /\ m + 1 \notin t \ {m + 1}
        BY <2>2
      <4>3. h[t \ {m + 1}] = g[t \ {m + 1}]
        BY <4>2
      <4> QED BY <3>1, <4>1, <4>3
    <3>2. CASE m + 1 \notin t
      <4>1. t \in SUBSET (1 .. m) /\ h[t] = g[t]
        BY <2>2, <3>2
      <4>2. PICK k : k = Max(t)
        OBVIOUS
      <4>3. t \ {k} \in SUBSET (1 .. m + 1) /\ m + 1 \notin t \ {k}
        BY <3>2
      <4>4. h[t \ {k}] = g[t \ {k}]
        BY <4>3
      <4>5. g[t] = IF t = {} THEN base ELSE Decided(g[t \ {k}], steps[k])
        BY <2>1, <4>1, <4>2 DEF FoldsTo
      <4> QED BY <4>1, <4>2, <4>4, <4>5
    <3> QED BY <3>1, <3>2
  <2>4. FoldsTo(h, base, steps, m + 1)
    BY <2>3 DEF FoldsTo
  <2> QED BY <2>4
<1> HIDE DEF Ok
<1>3. SUFFICES ASSUME ~Ok(n) PROVE FALSE
  BY DEF Ok
<1>4. PICK T : T = { m \in Nat : ~Ok(m) }
  OBVIOUS
<1>5. PICK m \in T : \A k \in T : ~(k < m)
  BY <1>3, <1>4, Least
<1>6. m - 1 \in Nat /\ (m - 1) + 1 = m /\ m - 1 < m
  BY <1>1, <1>4
<1>7. Ok(m - 1)
  BY <1>4, <1>5, <1>6
<1> QED BY <1>2, <1>4, <1>6, <1>7

\* The decisions after each number of steps.
DecidedInTurn(h, base, steps) ==
    /\ h[0] = base
    /\ \A k \in 1 .. Len(steps) : h[k] = Decided(h[k - 1], steps[k])

LEMMA PhaseFold ==
    ASSUME NEW base, NEW phase, NEW steps, steps = FlattenSeq(phase), steps \in Seq(Step)
    PROVE  \E h : /\ DecidedInTurn(h, base, steps)
                  /\ DecidePhase(dag, world.version, run.policy, DOMAIN rows, base, phase)
                         = h[Len(steps)]
<1> DEFINE m == Len(steps)
<1>1. m \in Nat /\ DOMAIN steps = 1 .. m
  OBVIOUS
<1>2. PICK g : FoldsTo(g, base, steps, m)
  BY <1>1, FoldsExist
<1>3. g = [s \in SUBSET (DOMAIN steps) |->
             IF s = {} THEN base ELSE LET x == Max(s) IN Decided(g[s \ {x}], steps[x])]
  BY <1>1, <1>2 DEF FoldsTo
<1> HIDE DEF m
<1>4. PICK it :
        /\ it = [s \in SUBSET (DOMAIN steps) |->
                   IF s = {} THEN base ELSE LET x == Max(s) IN Decided(it[s \ {x}], steps[x])]
        /\ FoldLeft(LAMBDA acc, step : Decided(acc, step), base, steps) = it[DOMAIN steps]
  BY <1>3 DEF FoldLeft, MapThenFoldSet
<1>5. ASSUME NEW k \in 1 .. m
      PROVE  it[1 .. k] = Decided(it[1 .. k - 1], steps[k])
  <2>1. /\ 1 .. k \in SUBSET (1 .. m) /\ 1 .. k # {}
        /\ Max(1 .. k) = k /\ (1 .. k) \ {k} = 1 .. k - 1
    BY <1>1, UpTo
  <2> QED BY <1>1, <1>4, <2>1
<1>6. it[1 .. 0] = base
  <2>1. 1 .. 0 = {} /\ 1 .. 0 \in SUBSET (DOMAIN steps)
    OBVIOUS
  <2> QED BY <1>4, <2>1
<1>7. PICK h : h = [k \in 0 .. m |-> it[1 .. k]]
  OBVIOUS
<1>8. /\ h[0] = base /\ h[m] = it[1 .. m]
      /\ \A k \in 1 .. m : h[k] = it[1 .. k] /\ h[k - 1] = it[1 .. k - 1]
  BY <1>1, <1>6, <1>7
<1>9. DecidedInTurn(h, base, steps)
  BY <1>5, <1>8 DEF DecidedInTurn, m
<1>10. DecidePhase(dag, world.version, run.policy, DOMAIN rows, base, phase)
           = FoldLeft(LAMBDA acc, step : Decided(acc, step), base, steps)
  BY DEF DecidePhase, Decided
<1> QED BY <1>1, <1>4, <1>8, <1>9, <1>10 DEF m

\* Steps in order: each is new, and what it reads is known from before the
\* phase or from an earlier step (the sensors from before the phase).
IdsBefore(base, steps, i) ==
    DOMAIN base.hashes \cup UNION { StepIds(steps[j]) : j \in 1 .. i - 1 }

InOrder(base, steps) ==
    \A i \in DOMAIN steps :
        /\ steps[i].node \in Nodes(dag)
        /\ \A id \in StepIds(steps[i]) : id \in Ids(world) /\ id \notin IdsBefore(base, steps, i)
        /\ SensorsKnown(dag, base.sensorOut, steps[i].node)
        /\ \A m \in Reads(dag, steps[i].node) : \E up \in IdsBefore(base, steps, i) : up[1] = m
        /\ \A id \in StepIds(steps[i]) : \A r \in dag.reads[steps[i].node] :
               \A up \in Meant(world, id[2], r) :
                   /\ up \in IdsBefore(base, steps, i)
                   /\ dag.kind[r[1]] = "sensor" => up \in DOMAIN base.sensorOut

LEMMA PhaseIsRight ==
    ASSUME DagOk, NodesEnd, PolicyOk, KeysFit, NEW base, DecidedRight(base),
           NEW phase, NEW steps, steps = FlattenSeq(phase), steps \in Seq(Step),
           InOrder(base, steps),
           NEW d, d = DecidePhase(dag, world.version, run.policy, DOMAIN rows, base, phase)
    PROVE  /\ DecidedRight(d) /\ d.sensorOut = base.sensorOut
           /\ DOMAIN base.hashes \subseteq DOMAIN d.hashes
           /\ base.cached \subseteq d.cached
<1>1. PICK h : DecidedInTurn(h, base, steps) /\ d = h[Len(steps)]
  BY PhaseFold
<1>2. Len(steps) \in Nat /\ DOMAIN steps = 1 .. Len(steps)
  OBVIOUS
<1> DEFINE Good(k) == /\ DecidedRight(h[k]) /\ h[k].sensorOut = base.sensorOut
                      /\ DOMAIN h[k].hashes = IdsBefore(base, steps, k + 1)
                      /\ base.cached \subseteq h[k].cached
<1>3. Good(0)
  <2>1. h[0] = base
    BY <1>1 DEF DecidedInTurn
  <2>2. 1 .. (0 + 1) - 1 = {}
    OBVIOUS
  <2>3. IdsBefore(base, steps, 0 + 1) = DOMAIN base.hashes
    BY <2>2 DEF IdsBefore
  <2> QED BY <2>1, <2>3
<1>4. ASSUME NEW k \in 1 .. Len(steps), Good(k - 1) PROVE Good(k)
  <2>1. h[k] = Decided(h[k - 1], steps[k]) /\ k \in DOMAIN steps /\ (k - 1) + 1 = k
    BY <1>1, <1>2 DEF DecidedInTurn
  <2>2. PICK b : b = h[k - 1]
    OBVIOUS
  <2>3. /\ DecidedRight(b) /\ b.sensorOut = base.sensorOut
        /\ DOMAIN b.hashes = IdsBefore(base, steps, k) /\ base.cached \subseteq b.cached
    BY <1>4, <2>1, <2>2
  <2>4. MayDecide(b, steps[k])
    <3>1. \A id \in StepIds(steps[k]) : id[1] = steps[k].node
      BY DEF StepIds
    <3> QED BY <2>1, <2>3, <3>1 DEF InOrder, MayDecide, ReadsKnown
  <2>5. DecidedRight(h[k]) /\ Follows(b, h[k], StepIds(steps[k]))
    BY <2>1, <2>2, <2>3, <2>4, StepIsRight
  <2>6. IdsBefore(base, steps, k) \cup StepIds(steps[k]) = IdsBefore(base, steps, k + 1)
    <3>1. 1 .. (k + 1) - 1 = (1 .. k - 1) \cup {k}
      BY <1>2
    <3> QED BY <3>1 DEF IdsBefore
  <2> QED BY <2>3, <2>5, <2>6 DEF Follows
<1> HIDE DEF Good
<1>5. Good(Len(steps))
  <2>1. SUFFICES ASSUME ~Good(Len(steps)) PROVE FALSE
    OBVIOUS
  <2>2. PICK T : T = { k \in 0 .. Len(steps) : ~Good(k) }
    OBVIOUS
  <2>3. T \in SUBSET Nat /\ T # {}
    BY <1>2, <2>1, <2>2
  <2>4. PICK k \in T : \A j \in T : ~(j < k)
    BY <2>3, Least
  <2>5. k \in 1 .. Len(steps) /\ k - 1 \in 0 .. Len(steps) /\ k - 1 < k
    BY <1>2, <1>3, <2>2
  <2>6. Good(k - 1)
    BY <2>2, <2>4, <2>5
  <2> QED BY <1>4, <2>2, <2>5, <2>6
<1> QED BY <1>1, <1>5 DEF Good, IdsBefore

-----------------------------------------------------------------------------
(***************************************************************************)
(* What an item computes, given that its inputs arrive.                    *)
(***************************************************************************)
Once(phase) ==
    \A x, y \in PhaseItems(phase) : IdOf(phase, x) = IdOf(phase, y) => x = y

\* Of one item, node_to_item is that item.
LEMMA TheItem ==
    ASSUME NEW phase, Once(phase), NEW x \in PhaseItems(phase)
    PROVE  NodeToItem(phase, IdOf(phase, x)) = x
<1> DEFINE id == IdOf(phase, x)
           Is(y) == /\ IdOf(phase, y) = id
                    /\ \A z \in PhaseItems(phase) : IdOf(phase, z) = id => z = y \/ Before(z, y)
<1>1. \A z \in PhaseItems(phase) : IdOf(phase, z) = id => z = x
  BY DEF Once
<1>2. Is(x)
  BY <1>1
<1>3. NodeToItem(phase, id) = CHOOSE y \in PhaseItems(phase) : Is(y)
  BY DEF NodeToItem
<1>4. \A y \in PhaseItems(phase) : Is(y) => y = x
  BY <1>1
<1> HIDE DEF Is
<1>5. (CHOOSE y \in PhaseItems(phase) : Is(y)) = x
  BY <1>2, <1>4
<1> QED BY <1>3, <1>5

LEMMA UpstreamIs ==
    ASSUME NEW phase, Once(phase), NEW x, NEW m, NEW y \in UpstreamItem(phase, x, m)
    PROVE  y \in PhaseItems(phase)
<1>1. \A id \in IdsOf(phase) : NodeToItem(phase, id) \in PhaseItems(phase)
  BY TheItem DEF IdsOf
<1> QED BY <1>1 DEF UpstreamItem

LEMMA ProvidedIs ==
    ASSUME NEW phase, NEW outs, NEW id \in BuildProvidedInputs(dag, phase, outs)
    PROVE  id \in outs \/ (id[2] = AllKeys /\ OutputsOf(outs, id[1]) # {})
<1> DEFINE of(s, m) ==
               LET aligned == { <<m, k>> : k \in KeysOf(s) } \cap OutputsOf(outs, m)
               IN  IF <<m, NoKey>> \in outs THEN {<<m, NoKey>>}
                   ELSE IF aligned # {} THEN aligned
                   ELSE IF OutputsOf(outs, m) # {} THEN {<<m, AllKeys>>}
                   ELSE {}
<1>1. \A s, m : \A i \in of(s, m) : i \in outs \/ (i[2] = AllKeys /\ OutputsOf(outs, i[1]) # {})
  <2>1. \A m : \A i \in OutputsOf(outs, m) : i \in outs
    BY DEF OutputsOf
  <2> QED BY <2>1
<1>2. id \in UNION { UNION { of(s, m) : m \in Reads(dag, s.node) } : s \in StepsOf(phase) }
  BY DEF BuildProvidedInputs
<1> HIDE DEF of
<1> QED BY <1>1, <1>2

LEMMA InputIs ==
    ASSUME NEW phase, NEW outs, NEW x, NEW m, NEW in, in = Input(dag, phase, outs, x, m)
    PROVE  \/ in.from = "before" /\ \A id \in in.ids : id \in BuildProvidedInputs(dag, phase, outs)
           \/ in.from = "list" /\ \A id \in in.ids : id \in outs
           \/ in.from = "phase" /\ in.ids = { IdOf(phase, y) : y \in UpstreamItem(phase, x, m) }
           \/ in.from = "nowhere" /\ in.ids = {}
<1> DEFINE provided == BuildProvidedInputs(dag, phase, outs)
           key == KeyAt(phase, x)
<1>1. \A id \in OutputsOf(outs, m) : id \in outs
  BY DEF OutputsOf
<1>2. \/ in = [from |-> "before", ids |-> {<<m, key>>}] /\ <<m, key>> \in provided
      \/ in = [from |-> "before", ids |-> {<<m, NoKey>>}] /\ <<m, NoKey>> \in provided
      \/ in = [from |-> "list", ids |-> OutputsOf(outs, m)]
      \/ in = [from |-> "phase", ids |-> { IdOf(phase, y) : y \in UpstreamItem(phase, x, m) }]
      \/ in = [from |-> "nowhere", ids |-> {}]
  BY DEF Input
<1> HIDE DEF provided, key
<1>3. CASE in = [from |-> "before", ids |-> {<<m, key>>}] /\ <<m, key>> \in provided
  BY <1>3 DEF provided
<1>4. CASE in = [from |-> "before", ids |-> {<<m, NoKey>>}] /\ <<m, NoKey>> \in provided
  BY <1>4 DEF provided
<1>5. CASE in = [from |-> "list", ids |-> OutputsOf(outs, m)]
  BY <1>1, <1>5
<1> QED BY <1>2, <1>3, <1>4, <1>5

LEMMA ProvidedFor ==
    ASSUME NEW phase, NEW outs, NEW s \in StepsOf(phase), NEW m \in Reads(dag, s.node),
           NEW provided, provided = BuildProvidedInputs(dag, phase, outs)
    PROVE  /\ <<m, NoKey>> \in outs => <<m, NoKey>> \in provided
           /\ <<m, NoKey>> \notin outs =>
                  /\ \A k \in KeysOf(s) :
                         k # NoKey /\ <<m, k>> \in outs => <<m, k>> \in provided
                  /\ (\A k \in KeysOf(s) : <<m, k>> \notin outs) /\ OutputsOf(outs, m) # {}
                         => <<m, AllKeys>> \in provided
<1> DEFINE aligned(q, l) == { <<l, k>> : k \in KeysOf(q) } \cap OutputsOf(outs, l)
           of(q, l) == IF <<l, NoKey>> \in outs THEN {<<l, NoKey>>}
                       ELSE IF aligned(q, l) # {} THEN aligned(q, l)
                       ELSE IF OutputsOf(outs, l) # {} THEN {<<l, AllKeys>>}
                       ELSE {}
<1>1. provided = UNION { UNION { of(q, l) : l \in Reads(dag, q.node) } : q \in StepsOf(phase) }
  BY DEF BuildProvidedInputs
<1> HIDE DEF of
<1>2. \A id \in of(s, m) : id \in provided
  BY <1>1
<1> HIDE DEF aligned
<1>3. CASE <<m, NoKey>> \in outs
  BY <1>2, <1>3 DEF of
<1>4. CASE <<m, NoKey>> \notin outs
  <2>1. of(s, m) = IF aligned(s, m) # {} THEN aligned(s, m)
                   ELSE IF OutputsOf(outs, m) # {} THEN {<<m, AllKeys>>} ELSE {}
    BY <1>4 DEF of
  <2>2. ASSUME NEW k \in KeysOf(s), k # NoKey, <<m, k>> \in outs PROVE <<m, k>> \in provided
    <3>1. <<m, k>> \in aligned(s, m)
      BY <2>2 DEF aligned, OutputsOf
    <3> QED BY <1>2, <2>1, <3>1
  <2>3. ASSUME \A k \in KeysOf(s) : <<m, k>> \notin outs, OutputsOf(outs, m) # {}
        PROVE  <<m, AllKeys>> \in provided
    <3>1. aligned(s, m) = {}
      BY <2>3 DEF aligned, OutputsOf
    <3> QED BY <1>2, <2>1, <2>3, <3>1
  <2> QED BY <1>4, <2>2, <2>3
<1> QED BY <1>3, <1>4

\* The step of an item, and the items of a step.
LEMMA StepOfItem ==
    ASSUME NEW phase \in Seq(Seq(Step)), NEW x \in PhaseItems(phase)
    PROVE  /\ StepAt(phase, x) \in StepsOf(phase)
           /\ KeyAt(phase, x) \in KeysOf(StepAt(phase, x))
           /\ \A k \in KeysOf(StepAt(phase, x)) : <<StepAt(phase, x).node, k>> \in IdsOf(phase)
<1>i. PICK i \in DOMAIN phase : \E j \in DOMAIN phase[i] : \E c \in 1 .. Weight(phase[i][j]) :
          x = <<i, j, c>>
  BY DEF PhaseItems
<1>j. PICK j \in DOMAIN phase[i] : \E c \in 1 .. Weight(phase[i][j]) : x = <<i, j, c>>
  BY <1>i
<1>1. PICK c \in 1 .. Weight(phase[i][j]) : x = <<i, j, c>>
  BY <1>j
<1>2. PICK s : s = phase[i][j]
  OBVIOUS
<1>3. x[1] = i /\ x[2] = j /\ x[3] = c
  BY <1>1
<1>4. StepAt(phase, x) = s
  BY <1>2, <1>3 DEF StepAt
<1>5. s \in Step
  BY <1>2
<1>6. s.keys \in Seq(STRING)
  BY <1>5 DEF Step
<1>7. s \in StepsOf(phase)
  BY <1>2 DEF StepsOf, Range
<1>8. CASE s.keys = <<>>
  <2>1. KeysOf(s) = {NoKey} /\ KeyAt(phase, x) = NoKey
    BY <1>4, <1>8 DEF KeysOf, KeyAt
  <2>2. IdOf(phase, x) = <<s.node, NoKey>>
    BY <1>4, <2>1 DEF IdOf
  <2> QED BY <1>4, <1>7, <2>1, <2>2 DEF IdsOf
<1>9. CASE s.keys # <<>>
  <2>1. /\ KeysOf(s) = { s.keys[e] : e \in 1 .. Len(s.keys) } /\ Weight(s) = Len(s.keys)
        /\ KeyAt(phase, x) = s.keys[c]
    BY <1>3, <1>4, <1>6, <1>9 DEF KeysOf, KeyAt, Range, Weight
  <2>2. KeyAt(phase, x) \in KeysOf(s)
    BY <1>2, <2>1
  <2>3. ASSUME NEW k \in KeysOf(s) PROVE <<s.node, k>> \in IdsOf(phase)
    <3>1. PICK e \in 1 .. Len(s.keys) : k = s.keys[e]
      BY <2>1
    <3>2. PICK y : y = <<i, j, e>>
      OBVIOUS
    <3>3. y \in PhaseItems(phase)
      <4>1. e \in 1 .. Weight(phase[i][j])
        BY <1>2, <2>1
      <4> QED BY <3>2, <4>1 DEF PhaseItems
    <3>4. y[1] = i /\ y[2] = j /\ y[3] = e
      BY <3>2
    <3>5. StepAt(phase, y) = s
      BY <1>2, <3>4 DEF StepAt
    <3>6. IdOf(phase, y) = <<s.node, k>>
      BY <1>9, <3>1, <3>4, <3>5 DEF IdOf, KeyAt
    <3> QED BY <3>3, <3>6 DEF IdsOf
  <2> QED BY <1>4, <1>7, <2>2, <2>3
<1> QED BY <1>8, <1>9

\* A run whose plan fits, as far as it has come.
OnTrack ==
    /\ KeysFit /\ InputsInReach
    /\ DecidedRight(run.decided) /\ DOMAIN run.outputs \subseteq DOMAIN run.decided.hashes

LEMMA FlightIs ==
    ASSUME OnTrack
    PROVE  /\ Once(run.flight)
           /\ \A x \in PhaseItems(run.flight) :
                  /\ IdOf(run.flight, x) \in IdsOf(run.flight)
                  /\ IdOf(run.flight, x) \in Ids(world)
                  /\ IdOf(run.flight, x) \in DOMAIN run.decided.hashes
           /\ \A id \in IdsOf(run.flight) : id \in Ids(world)
           /\ \A id \in DOMAIN run.outputs : id \in Ids(world)
<1>1. Once(run.flight)
  BY DEF OnTrack, InputsInReach, Once
<1>2. \A id \in IdsOf(run.flight) : id \in DOMAIN run.decided.hashes
  BY DEF OnTrack, InputsInReach
<1>3. \A id \in DOMAIN run.decided.hashes : id \in Ids(world)
  BY DEF OnTrack, DecidedRight
<1>4. \A x \in PhaseItems(run.flight) : IdOf(run.flight, x) \in IdsOf(run.flight)
  BY DEF IdsOf
<1>5. \A id \in DOMAIN run.outputs : id \in DOMAIN run.decided.hashes
  BY DEF OnTrack
<1> QED BY <1>1, <1>2, <1>3, <1>4, <1>5

\* Of an id in the phase, the item is of that id.
LEMMA ItemOf ==
    ASSUME NEW phase, Once(phase), NEW id \in IdsOf(phase)
    PROVE  IdOf(phase, NodeToItem(phase, id)) = id
<1>1. PICK x \in PhaseItems(phase) : id = IdOf(phase, x)
  BY DEF IdsOf
<1> QED BY <1>1, TheItem

LEMMA InputOf ==
    ASSUME DagOk, OnTrack, NEW x \in PhaseItems(run.flight),
           NEW r \in dag.reads[IdOf(run.flight, x)[1]]
    PROVE  Input(dag, run.flight, DOMAIN run.outputs, x, r[1]).ids
               = Meant(world, KeyAt(run.flight, x), r)
<1> DEFINE F    == run.flight
           outs == DOMAIN run.outputs
           m    == r[1]
           k    == KeyAt(F, x)
           s    == StepAt(F, x)
           provided == BuildProvidedInputs(dag, F, outs)
           useWhole == k = NoKey \/ <<m, k>> \notin IdsOf(F)
           up   == UpstreamItem(F, x, m)
           in   == Input(dag, F, outs, x, m)
<1>1. PICK id : id = IdOf(F, x)
  OBVIOUS
<1>2. /\ id = <<s.node, k>> /\ id[1] = s.node /\ id[2] = k
      /\ id[1] \in Nodes(dag) /\ k \in KeysIn(world, id[1]) /\ m \in Nodes(dag) /\ m < id[1]
      /\ r \in dag.reads[id[1]]
  <2>1. id = <<s.node, k>> /\ id[1] = s.node /\ id[2] = k
    BY <1>1 DEF IdOf
  <2>2. id[1] \in Nodes(dag) /\ k \in KeysIn(world, id[1])
    BY <1>1, <2>1, FlightIs, IdIn DEF Ids
  <2> QED BY <1>1, <2>1, <2>2 DEF DagOk
<1>3. ASSUME NEW l, NEW c, <<l, c>> \in Ids(world)
      PROVE  l \in Nodes(dag) /\ c \in KeysIn(world, l) /\ c # AllKeys
  <2>1. l \in Nodes(dag) /\ c \in KeysIn(world, l)
    <3>1. PICK u : u = <<l, c>>
      OBVIOUS
    <3>2. u \in Ids(world) /\ u[1] = l /\ u[2] = c
      BY <1>3, <3>1
    <3> QED BY <3>2, IdIn DEF Ids
  <2> QED BY <2>1 DEF OnTrack, KeysFit, KeysFitIn
<1>4. /\ \A u \in outs : u \in Ids(world)
      /\ \A u \in IdsOf(F) : u \in Ids(world)
  BY FlightIs
<1>5. /\ s \in StepsOf(F) /\ k \in KeysOf(s)
      /\ \A c \in KeysOf(s) : <<s.node, c>> \in IdsOf(F)
  BY StepOfItem DEF OnTrack, InputsInReach
<1>6. \A c \in KeysOf(s) : c \in KeysIn(world, id[1])
  BY <1>2, <1>3, <1>4, <1>5
<1>7. m \in Reads(dag, s.node)
  BY <1>2 DEF Reads
<1>8. ASSUME NEW c, <<m, c>> \in provided
      PROVE  <<m, c>> \in outs \/ (c = AllKeys /\ OutputsOf(outs, m) # {})
  <2>1. PICK u \in provided : u = <<m, c>>
    BY <1>8
  <2>2. u[1] = m /\ u[2] = c
    BY <2>1
  <2> QED BY <2>1, <2>2, ProvidedIs
<1>9. k # AllKeys /\ NoKey # AllKeys
  BY <1>2 DEF OnTrack, KeysFit, KeysFitIn, NoKey, AllKeys
<1>10. \/ Meant(world, k, r) \subseteq outs
       \/ ~(Partitioned(dag, m) /\ r[2] = "collect") /\ Meant(world, k, r) \subseteq IdsOf(F)
  BY <1>1, <1>2, FlightIs DEF OnTrack, InputsInReach
<1>11. up = IF <<m, k>> \in IdsOf(F) THEN {NodeToItem(F, <<m, k>>)}
            ELSE IF <<m, NoKey>> \in IdsOf(F) THEN {NodeToItem(F, <<m, NoKey>>)}
            ELSE {}
  BY DEF UpstreamItem
<1>12. in.ids = IF <<m, k>> \in provided THEN {<<m, k>>}
                ELSE IF useWhole /\ <<m, NoKey>> \in provided THEN {<<m, NoKey>>}
                ELSE IF useWhole /\ <<m, AllKeys>> \in provided THEN OutputsOf(outs, m)
                ELSE IF up # {} THEN { IdOf(F, y) : y \in up } ELSE {}
  BY DEF Input
<1>13. \A u \in IdsOf(F) : up = {NodeToItem(F, u)} => { IdOf(F, y) : y \in up } = {u} /\ up # {}
  BY ItemOf, FlightIs
<1>14. \A u \in outs : u[1] = m => u = <<m, u[2]>> /\ u[2] \in KeysIn(world, m)
  BY <1>4, IdIn DEF Ids
<1> SUFFICES in.ids = Meant(world, k, r)
  OBVIOUS
<1> HIDE DEF F, outs, k, s, provided, up, in
<1>15. CASE ~Partitioned(dag, m)
  <2>1. Meant(world, k, r) = {<<m, NoKey>>} /\ KeysIn(world, m) = {NoKey}
    BY <1>15 DEF Meant, KeysIn, Partitioned
  <2>2. OutputsOf(outs, m) = {}
    BY <1>14, <2>1 DEF OutputsOf
  <2>3. /\ <<m, k>> \in provided => k = NoKey
        /\ <<m, k>> \in IdsOf(F) => k = NoKey
        /\ <<m, AllKeys>> \notin provided
    BY <1>3, <1>4, <1>8, <1>9, <2>1, <2>2
  <2>4. useWhole
    BY <2>3
  <2>5. CASE <<m, NoKey>> \in outs
    <3>1. <<m, NoKey>> \in provided
      BY <1>5, <1>7, <2>5, ProvidedFor DEF provided
    <3> QED BY <1>12, <2>1, <2>3, <2>4, <3>1
  <2>6. CASE <<m, NoKey>> \notin outs
    <3>1. <<m, NoKey>> \in IdsOf(F) /\ <<m, NoKey>> \notin provided
      BY <1>8, <1>9, <1>10, <2>1, <2>6
    <3>2. up = {NodeToItem(F, <<m, NoKey>>)}
      BY <1>11, <2>3, <3>1
    <3>3. <<m, k>> \notin provided
      BY <2>3, <3>1
    <3> QED BY <1>12, <1>13, <2>1, <2>3, <3>1, <3>2, <3>3
  <2> QED BY <2>5, <2>6
<1>16. CASE Partitioned(dag, m)
  <2>1. /\ \A c \in KeysIn(world, m) : c # NoKey
        /\ <<m, NoKey>> \notin outs /\ <<m, NoKey>> \notin IdsOf(F) /\ <<m, NoKey>> \notin provided
    <3>1. \A c \in KeysIn(world, m) : c # NoKey
      BY <1>2, <1>16 DEF OnTrack, KeysFit, KeysFitIn
    <3> QED BY <1>3, <1>4, <1>8, <1>9, <3>1
  <2>2. CASE r[2] # "collect"
    <3>1. Meant(world, k, r) = {<<m, k>>}
      BY <1>16, <2>2 DEF Meant
    <3>2. k # NoKey
      <4>1. <<m, k>> \in Ids(world)
        BY <1>4, <1>10, <3>1
      <4> QED BY <1>3, <2>1, <4>1
    <3>3. CASE <<m, k>> \in outs
      <4>1. <<m, k>> \in provided
        BY <1>5, <1>7, <2>1, <3>2, <3>3, ProvidedFor DEF provided
      <4> QED BY <1>12, <3>1, <4>1
    <3>4. CASE <<m, k>> \notin outs
      <4>1. <<m, k>> \in IdsOf(F) /\ <<m, k>> \notin provided
        BY <1>8, <1>9, <1>10, <3>1, <3>4
      <4>2. up = {NodeToItem(F, <<m, k>>)} /\ ~useWhole
        BY <1>11, <3>2, <4>1
      <4> QED BY <1>12, <1>13, <3>1, <4>1, <4>2
    <3> QED BY <3>3, <3>4
  <2>3. CASE r[2] = "collect"
    <3>1. Meant(world, k, r) = IdsIn(world, {m}) /\ Meant(world, k, r) \subseteq outs
      BY <1>10, <1>16, <2>3 DEF Meant
    <3>2. \A c \in KeysIn(world, id[1]) : c \notin KeysIn(world, m)
      BY <1>2, <1>16, <2>3 DEF OnTrack, KeysFit, KeysFitIn
    <3>3. /\ \A c \in KeysOf(s) : <<m, c>> \notin outs /\ <<m, c>> \notin IdsOf(F)
          /\ <<m, k>> \notin provided
      BY <1>3, <1>4, <1>5, <1>6, <1>8, <1>9, <3>2
    <3>4. OutputsOf(outs, m) = Meant(world, k, r)
      <4>1. \A u \in OutputsOf(outs, m) : u \in IdsIn(world, {m})
        BY <1>14, IdIn DEF OutputsOf
      <4>2. \A u \in IdsIn(world, {m}) : u \in outs /\ u[1] = m /\ u[2] # NoKey
        BY <2>1, <3>1, IdIn
      <4>3. \A u \in IdsIn(world, {m}) : u \in OutputsOf(outs, m)
        BY <4>2 DEF OutputsOf
      <4> QED BY <3>1, <4>1, <4>3
    <3>5. useWhole
      BY <1>5, <3>3
    <3>6. CASE <<m, AllKeys>> \in provided
      BY <1>12, <2>1, <3>3, <3>4, <3>5, <3>6
    <3>7. CASE <<m, AllKeys>> \notin provided
      <4>1. OutputsOf(outs, m) = {}
        BY <1>5, <1>7, <2>1, <3>3, <3>7, ProvidedFor DEF provided
      <4>2. up = {}
        BY <1>5, <1>11, <2>1, <3>3
      <4> QED BY <1>12, <2>1, <3>3, <3>4, <3>7, <4>1, <4>2
    <3> QED BY <3>6, <3>7
  <2> QED BY <2>2, <2>3
<1> QED BY <1>15, <1>16

\* So the inputs of every item arrive (build_provided_inputs, load_phase and
\* build_step_json agree).
LEMMA Arrives == ASSUME DagOk, OnTrack PROVE InputsArrive
BY InputOf DEF InputsArrive

\* What an item computes when f says what the others do.
ComputedOf(f, x) ==
    [id |-> IdOf(run.flight, x), code |-> Code(IdOf(run.flight, x)[1]),
     args |-> { <<r, Argument(run.outputs, f, x, r[1])>> :
                    r \in dag.reads[IdOf(run.flight, x)[1]] }]

RightBefore(f, n) ==
    \A y \in PhaseItems(run.flight) :
        IdOf(run.flight, y)[1] < n => f[y] = FromScratch(world)[IdOf(run.flight, y)]

LEMMA ArgumentIs ==
    ASSUME DagOk, OnTrack, AsFromScratch, NEW f, NEW x \in PhaseItems(run.flight),
           NEW id, id = IdOf(run.flight, x), RightBefore(f, id[1]), NEW r \in dag.reads[id[1]]
    PROVE  Argument(run.outputs, f, x, r[1]) = ValuesOf(world, id, r)
<1> DEFINE outs == DOMAIN run.outputs
<1>1. PICK in : in = Input(dag, run.flight, outs, x, r[1])
  OBVIOUS
<1>2. id \in Ids(world) /\ id[2] = KeyAt(run.flight, x)
  BY FlightIs DEF IdOf
<1>3. in.ids = Meant(world, id[2], r)
  BY <1>1, <1>2, Arrives DEF InputsArrive
<1>4. \A up \in in.ids : up \in Ids(world) /\ up[1] < id[1]
  BY <1>2, <1>3, MeantAre DEF MeantOf, OnTrack, KeysFit
<1>5. \A up \in in.ids : up[2] # AllKeys
  BY <1>4, IdIn DEF Ids, OnTrack, KeysFit, KeysFitIn
<1>6. Argument(run.outputs, f, x, r[1]) =
          IF in.from = "phase" THEN { f[y] : y \in UpstreamItem(run.flight, x, r[1]) }
                               ELSE { run.outputs[up] : up \in in.ids }
  BY <1>1 DEF Argument
<1>7. \A up \in outs : run.outputs[up] = FromScratch(world)[up]
  BY DEF AsFromScratch
<1>8. CASE in.from = "phase"
  <2>1. in.ids = { IdOf(run.flight, y) : y \in UpstreamItem(run.flight, x, r[1]) }
    BY <1>1, <1>8, InputIs
  <2>2. ASSUME NEW y \in UpstreamItem(run.flight, x, r[1])
        PROVE  f[y] = FromScratch(world)[IdOf(run.flight, y)]
    <3>1. y \in PhaseItems(run.flight)
      BY FlightIs, UpstreamIs
    <3>2. IdOf(run.flight, y)[1] < id[1]
      BY <1>4, <2>1
    <3> QED BY <3>1, <3>2 DEF RightBefore
  <2>3. { f[y] : y \in UpstreamItem(run.flight, x, r[1]) } = { FromScratch(world)[up] : up \in in.ids }
    BY <2>1, <2>2
  <2> QED BY <1>3, <1>6, <1>8, <2>3 DEF ValuesOf
<1>9. CASE in.from # "phase"
  <2>1. \A up \in in.ids : up \in outs
    <3>1. CASE in.from = "before"
      BY <1>1, <1>5, <3>1, InputIs, ProvidedIs
    <3>2. CASE in.from = "list"
      BY <1>1, <3>2, InputIs
    <3>3. CASE in.from = "nowhere"
      BY <1>1, <3>3, InputIs
    <3> QED BY <1>1, <1>9, <3>1, <3>2, <3>3, InputIs
  <2>2. { run.outputs[up] : up \in in.ids } = { FromScratch(world)[up] : up \in in.ids }
    BY <1>7, <2>1
  <2> QED BY <1>3, <1>6, <1>9, <2>2 DEF ValuesOf
<1> QED BY <1>8, <1>9

LEMMA NextIsRight ==
    ASSUME DagOk, NodesEnd, OnTrack, AsFromScratch, NEW f, NEW x \in PhaseItems(run.flight),
           RightBefore(f, IdOf(run.flight, x)[1])
    PROVE  ComputedOf(f, x) = FromScratch(world)[IdOf(run.flight, x)]
<1>1. PICK id : id = IdOf(run.flight, x)
  OBVIOUS
<1>2. id \in Ids(world)
  BY <1>1, FlightIs
<1>3. FromScratch(world)[id] = [id |-> id, code |-> CodeIn(world, id[1]), args |-> ArgsOf(world, id)]
  BY <1>2, PartsAre DEF OnTrack, KeysFit
<1>4. \A r \in dag.reads[id[1]] : Argument(run.outputs, f, x, r[1]) = ValuesOf(world, id, r)
  BY <1>1, ArgumentIs
<1> QED BY <1>1, <1>3, <1>4 DEF ComputedOf, ArgsOf, Code

\* Every item computes what a run from scratch would: the recursive function
\* has a solution, and no other, as items read items of earlier nodes.
LEMMA ComputesRight ==
    ASSUME DagOk, NodesEnd, OnTrack, AsFromScratch
    PROVE  \A x \in PhaseItems(run.flight) : Computed[x] = FromScratch(world)[IdOf(run.flight, x)]
<1> DEFINE items == PhaseItems(run.flight)
<1>1. PICK g : g = [x \in items |-> FromScratch(world)[IdOf(run.flight, x)]]
  OBVIOUS
<1>2. \A n : RightBefore(g, n)
  BY <1>1 DEF RightBefore
<1>3. \A x \in items : ComputedOf(g, x) = FromScratch(world)[IdOf(run.flight, x)]
  BY <1>2, NextIsRight
<1>4. g = [x \in items |-> ComputedOf(g, x)]
  BY <1>1, <1>3
<1>5. Computed = [x \in items |-> ComputedOf(Computed, x)]
  BY <1>4 DEF Computed, ComputedOf
<1> DEFINE Right(x) == Computed[x] = FromScratch(world)[IdOf(run.flight, x)]
<1>6. \A x \in items : IdOf(run.flight, x)[1] \in Nodes(dag)
  BY FlightIs, IdIn DEF Ids
<1>7. SUFFICES ASSUME NEW x \in items, ~Right(x) PROVE FALSE
  OBVIOUS
<1> HIDE DEF Right
<1>8. PICK T : T = { n \in Nodes(dag) : \E y \in items : IdOf(run.flight, y)[1] = n /\ ~Right(y) }
  OBVIOUS
<1>9. T \in SUBSET Nat /\ T # {}
  BY <1>6, <1>7, <1>8 DEF DagOk
<1>10. PICK n \in T : \A m \in T : ~(m < n)
  BY <1>9, Least
<1>11. PICK y \in items : IdOf(run.flight, y)[1] = n /\ ~Right(y)
  BY <1>8
<1>12. \A z \in items : IdOf(run.flight, z)[1] < n => Right(z)
  BY <1>6, <1>8, <1>10
<1>13. RightBefore(Computed, n)
  BY <1>12 DEF RightBefore, Right
<1>14. ComputedOf(Computed, y) = FromScratch(world)[IdOf(run.flight, y)]
  BY <1>11, <1>13, NextIsRight
<1>15. Computed[y] = ComputedOf(Computed, y)
  BY <1>5
<1> QED BY <1>11, <1>14, <1>15 DEF Right

-----------------------------------------------------------------------------
(***************************************************************************)
(* The invariant.  Each row was recorded in some world, not known any more *)
(* (the definitions and the sensors have moved on), under the hash and     *)
(* with the output that its id has there.                                  *)
(***************************************************************************)
RowIn(key, output, w) ==
    /\ KeysFitIn(w) /\ key = <<key[1], key[2]>> /\ key[1] \in Ids(w)
    /\ key[2] = HashFor(w)[key[1]]
    /\ output = FromScratch(w)[key[1]]

RowsTell == \A key \in DOMAIN rows : \E w \in Worlds : RowIn(key, rows[key], w)

IInv ==
    /\ DagOk /\ NodesEnd /\ world \in Worlds
    /\ DOMAIN run = DOMAIN NoRun /\ PolicyOk
    /\ DecidedRight(run.decided) /\ DOMAIN run.outputs \subseteq DOMAIN run.decided.hashes
    /\ AsFromScratch
    /\ RowsTell

LEMMA OnTrackIs == ASSUME IInv, PlanFits PROVE OnTrack
BY DEF IInv, PlanFits, OnTrack, KeysFit

\* A key is decided by the hash of all that it is computed from: it is served
\* only if an asset's success is recorded under that hash, and, unless a refresh
\* is asked for, runs only if none is.
DecidedAsMeant ==
    LET hashes == run.decided.hashes
        recorded(id) == <<id, hashes[id]>> \in DOMAIN rows
    IN  /\ DOMAIN run.outputs \subseteq DOMAIN hashes
        /\ DOMAIN hashes \subseteq IdsIn(world, Nodes(dag))
        /\ \A id \in DOMAIN hashes : hashes[id] = HashFor(world)[id]
        /\ \A id \in run.decided.cached :
               id \in DOMAIN hashes /\ dag.kind[id[1]] = "asset" /\ recorded(id)
        /\ \A id \in IdsOf(run.flight) :
               /\ id \in DOMAIN hashes
               /\ run.policy.how = "aware" /\ dag.kind[id[1]] = "asset" => ~ recorded(id)

LEMMA Decisions == ASSUME IInv, PlanFits PROVE DecidedAsMeant
<1>1. \A id \in IdsOf(run.flight) : id \in DOMAIN run.decided.hashes /\ id \notin run.decided.cached
  BY DEF PlanFits, InputsInReach
<1> QED BY <1>1 DEF DecidedAsMeant, IInv, DecidedRight, Recorded, Ids

\* And the cascade of a refresh reaches all that is behind it, there being a
\* solution to the recursion: the least set closed under reading.
LEMMA BehindExists == ASSUME DagOk PROVE \E g : IsBehind(g)
<1> DEFINE Reached(T, n) == n = run.policy.name \/ \E m \in Reads(dag, n) : m \in T
           Closed(T) == \A n \in Nodes(dag) : Reached(T, n) => n \in T
<1>1. PICK S : S = { n \in Nodes(dag) : \A T \in SUBSET Nodes(dag) : Closed(T) => n \in T }
  OBVIOUS
<1>2. S \in SUBSET Nodes(dag) /\ \A T \in SUBSET Nodes(dag) : Closed(T) => S \subseteq T
  BY <1>1
<1>3. Closed(S)
  <2>1. ASSUME NEW n \in Nodes(dag), Reached(S, n), NEW T \in SUBSET Nodes(dag), Closed(T)
        PROVE  n \in T
    <3>1. Reached(T, n)
      BY <1>2, <2>1
    <3> QED BY <2>1, <3>1
  <2> HIDE DEF Reached, Closed
  <2> QED BY <1>1, <2>1 DEF Closed
<1>4. ASSUME NEW n \in S PROVE Reached(S, n)
  <2>1. SUFFICES ASSUME ~Reached(S, n) PROVE FALSE
    OBVIOUS
  <2>2. Closed(S \ {n})
    BY <1>3, <2>1
  <2>3. S \ {n} \in SUBSET Nodes(dag)
    BY <1>2
  <2> HIDE DEF Closed
  <2> QED BY <1>2, <2>2, <2>3
<1>5. PICK g : g = [n \in Nodes(dag) |-> n \in S]
  OBVIOUS
<1>6. \A n \in Nodes(dag) : (n \in S) = Reached(S, n)
  BY <1>3, <1>4
<1>7. ASSUME NEW n \in Nodes(dag)
      PROVE  (n \in S) = (n = run.policy.name \/ \E m \in Reads(dag, n) : g[m])
  <2>1. \A m \in Reads(dag, n) : g[m] = (m \in S)
    BY <1>5 DEF DagOk, Reads
  <2> QED BY <1>6, <2>1
<1> QED BY <1>5, <1>7 DEF IsBehind

LEMMA Cascades == ASSUME IInv PROVE CascadeReaches
<1> DEFINE behind == CHOOSE g : IsBehind(g)
<1>1. IsBehind(behind)
  BY BehindExists DEF IInv
<1>2. Cascaded(run.decided)
  BY DEF IInv, DecidedRight
<1>3. CascadeReaches <=>
          (run.policy.how = "refresh" =>
              \A id \in run.decided.cached :
                  id[1] # run.policy.name /\ (run.policy.cascade => ~behind[id[1]]))
  BY DEF CascadeReaches, IsBehind
<1> HIDE DEF behind
<1> QED BY <1>1, <1>2, <1>3 DEF Cascaded

LEMMA StepsAre ==
    ASSUME StepsInOrder, MayStart
    PROVE  FlattenSeq(NextPhase) \in Seq(Step) /\ InOrder(run.decided, FlattenSeq(NextPhase))
<1> DEFINE steps    == FlattenSeq(NextPhase)
           ids(i)   == { <<steps[i].node, k>> : k \in KeysOf(steps[i]) }
           known(i) == DOMAIN run.decided.hashes \cup UNION { ids(j) : j \in 1 .. i - 1 }
<1>1. /\ steps \in Seq(Step)
      /\ \A i \in DOMAIN steps :
          /\ ids(i) \subseteq IdsIn(world, Nodes(dag)) \ known(i)
          /\ SensorsKnown(dag, run.decided.sensorOut, steps[i].node)
          /\ Reads(dag, steps[i].node) \subseteq { up[1] : up \in known(i) }
          /\ \A id \in ids(i), r \in dag.reads[steps[i].node] :
                 \A up \in Meant(world, id[2], r) :
                     /\ up \in known(i)
                     /\ dag.kind[r[1]] = "sensor" => up \in DOMAIN run.decided.sensorOut
  BY DEF StepsInOrder
<1>2. \A i : ids(i) = StepIds(steps[i]) /\ known(i) = IdsBefore(run.decided, steps, i)
  BY DEF StepIds, IdsBefore
<1> HIDE DEF steps, ids, known
<1>3. \A i \in DOMAIN steps : steps[i].node \in Nodes(dag)
  <2>1. \A s \in Step : s.node \in Nodes(dag)
    BY DEF Step
  <2>2. steps \in Seq(Step)
    BY <1>1
  <2>3. \A i \in DOMAIN steps : steps[i] \in Step
    BY <2>2
  <2> QED BY <2>1, <2>3
<1>4. \A i \in DOMAIN steps : \A m \in Reads(dag, steps[i].node) : \E up \in known(i) : up[1] = m
  BY <1>1
<1>5. steps \in Seq(Step) /\ InOrder(run.decided, steps)
  BY <1>1, <1>2, <1>3, <1>4 DEF InOrder, Ids
<1> QED BY <1>5 DEF steps

\* A row found under the hash of an asset holds the output it has from scratch.
LEMMA RowIsRight ==
    ASSUME DagOk, NodesEnd, RowsTell, KeysFit, NEW id \in Ids(world),
           dag.kind[id[1]] = "asset", <<id, HashFor(world)[id]>> \in DOMAIN rows
    PROVE  rows[<<id, HashFor(world)[id]>>] = FromScratch(world)[id]
<1>1. PICK w \in Worlds : RowIn(<<id, HashFor(world)[id]>>, rows[<<id, HashFor(world)[id]>>], w)
  BY DEF RowsTell
<1>2. /\ KeysFitIn(w) /\ id \in Ids(w) /\ HashFor(world)[id] = HashFor(w)[id]
      /\ rows[<<id, HashFor(world)[id]>>] = FromScratch(w)[id]
  BY <1>1 DEF RowIn
<1>3. TokenIn(world, id) = TokenIn(w, id)
  BY <1>2 DEF TokenIn, TokenFor
<1>4. Tells(world, w, id)
  BY <1>2, HashTells DEF KeysFit
<1> QED BY <1>2, <1>3, <1>4 DEF Tells

\* An output that is in a row is that of the asset whose hash the row is under.
LEMMA RowOfOutput ==
    ASSUME DagOk, NodesEnd, RowsTell, KeysFit, NEW id \in Ids(world),
           dag.kind[id[1]] = "asset",
           NEW key \in DOMAIN rows, rows[key] = FromScratch(world)[id]
    PROVE  key = <<id, HashFor(world)[id]>>
<1>1. PICK w \in Worlds : RowIn(key, rows[key], w)
  BY DEF RowsTell
<1>2. PICK a : a = key[1]
  OBVIOUS
<1>3. /\ KeysFitIn(w) /\ key = <<a, key[2]>> /\ a \in Ids(w) /\ key[2] = HashFor(w)[a]
      /\ rows[key] = FromScratch(w)[a]
  BY <1>1, <1>2 DEF RowIn
<1>4. a = id
  BY <1>3, Named DEF KeysFit
<1>5. Tells(world, w, id)
  BY <1>3, <1>4, HashTells DEF KeysFit
<1>6. TokenIn(world, id) = TokenIn(w, id)
  BY <1>3, <1>4, <1>5 DEF Tells
<1>7. TokenIn(world, id)[1] = HashFor(world)[id] /\ TokenIn(w, id)[1] = HashFor(w)[id]
  BY DEF TokenIn, TokenFor
<1> QED BY <1>3, <1>4, <1>6, <1>7

LEMMA OnlyIf == ASSUME IInv, PlanFits PROVE OnlyWhatChanged
<1>1. SUFFICES ASSUME run.policy.how = "aware", NEW id \in IdsOf(run.flight),
                      dag.kind[id[1]] = "asset", NEW key \in DOMAIN rows,
                      rows[key] = FromScratch(world)[id]
               PROVE  FALSE
  BY DEF OnlyWhatChanged
<1>2. id \in DOMAIN run.decided.hashes /\ <<id, run.decided.hashes[id]>> \notin DOMAIN rows
  BY <1>1, Decisions DEF DecidedAsMeant
<1>3. id \in Ids(world) /\ run.decided.hashes[id] = HashFor(world)[id]
  BY <1>2 DEF IInv, DecidedRight
<1>4. key = <<id, HashFor(world)[id]>>
  BY <1>1, <1>3, RowOfOutput DEF IInv, PlanFits, KeysFit
<1> QED BY <1>2, <1>3, <1>4

-----------------------------------------------------------------------------
(***************************************************************************)
(* The steps.                                                              *)
(***************************************************************************)
\* While the pipeline stays, so does what it says of each world.
LEMMA SameIds ==
    ASSUME dag' = dag, NEW w
    PROVE  /\ Ids(w)' = Ids(w)
           /\ \A n : CodeIn(w, n)' = CodeIn(w, n) /\ KeysIn(w, n)' = KeysIn(w, n)
           /\ \A S : IdsIn(w, S)' = IdsIn(w, S)
           /\ \A k, r : Meant(w, k, r)' = Meant(w, k, r)
           /\ \A id, hash : TokenFor(w, id, hash)' = TokenFor(w, id, hash)
<1>1. \A n : CodeIn(w, n)' = CodeIn(w, n)
  BY DEF CodeIn
<1>2. \A n : KeysIn(w, n)' = KeysIn(w, n)
  BY <1>1 DEF KeysIn
<1>3. \A S : IdsIn(w, S)' = IdsIn(w, S)
  BY <1>2 DEF IdsIn
<1>4. Ids(w)' = Ids(w)
  BY <1>3 DEF Ids, Nodes
<1>5. \A k, r : Meant(w, k, r)' = Meant(w, k, r)
  BY <1>3 DEF Meant, Partitioned
<1>6. \A id, hash : TokenFor(w, id, hash)' = TokenFor(w, id, hash)
  BY <1>1 DEF TokenFor
<1> QED BY <1>1, <1>2, <1>3, <1>4, <1>5, <1>6

SolvesAll(w, f) == f = [id \in Ids(w) |-> ScratchOf(w, f, id)]
HashesAll(w, f) == f = [id \in Ids(w) |-> HashOf(w, f, id)]

LEMMA SameValues ==
    ASSUME dag' = dag, NEW w
    PROVE  FromScratch(w)' = FromScratch(w) /\ HashFor(w)' = HashFor(w)
<1>1. ASSUME NEW f, NEW id
      PROVE  ScratchOf(w, f, id)' = ScratchOf(w, f, id) /\ HashOf(w, f, id)' = HashOf(w, f, id)
  <2>1. /\ CodeIn(w, id[1])' = CodeIn(w, id[1])
        /\ \A k, r : Meant(w, k, r)' = Meant(w, k, r)
        /\ \A up, hash : TokenFor(w, up, hash)' = TokenFor(w, up, hash)
    BY SameIds
  <2>2. \A r : { f[up] : up \in Meant(w, id[2], r)' } = { f[up] : up \in Meant(w, id[2], r) }
    BY <2>1
  <2>3. \A r : { TokenFor(w, up, f[up])' : up \in Meant(w, id[2], r)' }
                  = { TokenFor(w, up, f[up]) : up \in Meant(w, id[2], r) }
    BY <2>1
  <2>4. ScratchOf(w, f, id)' = ScratchOf(w, f, id)
    BY <2>1, <2>2 DEF ScratchOf
  <2>5. HashOf(w, f, id)' = HashOf(w, f, id)
    BY <2>3 DEF HashOf
  <2> QED BY <2>4, <2>5
<1>2. \A f : (SolvesAll(w, f)' <=> SolvesAll(w, f)) /\ (HashesAll(w, f)' <=> HashesAll(w, f))
  BY <1>1, SameIds DEF SolvesAll, HashesAll
<1>3. FromScratch(w) = CHOOSE f : SolvesAll(w, f)
  BY DEF FromScratch, SolvesAll, ScratchOf, Ids
<1>4. FromScratch(w)' = CHOOSE f : SolvesAll(w, f)'
  BY DEF FromScratch, SolvesAll, ScratchOf, Ids
<1>5. HashFor(w) = CHOOSE f : HashesAll(w, f)
  BY DEF HashFor, HashesAll, HashOf, Ids
<1>6. HashFor(w)' = CHOOSE f : HashesAll(w, f)'
  BY DEF HashFor, HashesAll, HashOf, Ids
<1>7. (CHOOSE f : SolvesAll(w, f)') = (CHOOSE f : SolvesAll(w, f))
  BY <1>2
<1>8. (CHOOSE f : HashesAll(w, f)') = (CHOOSE f : HashesAll(w, f))
  BY <1>2
<1> QED BY <1>3, <1>4, <1>5, <1>6, <1>7, <1>8

LEMMA SamePipeline ==
    ASSUME dag' = dag
    PROVE  /\ DagOk => DagOk'
           /\ NodesEnd => NodesEnd'
           /\ Worlds' = Worlds
           /\ \A w : KeysFitIn(w) => KeysFitIn(w)'
           /\ \A w, key, output : RowIn(key, output, w) => RowIn(key, output, w)'
<1>1. (DagOk => DagOk') /\ (NodesEnd => NodesEnd')
  BY DEF DagOk, NodesEnd, Nodes
<1>2. Worlds' = Worlds
  BY DEF Worlds, Nodes
<1>3. ASSUME NEW w, KeysFitIn(w) PROVE KeysFitIn(w)'
  <2>1. /\ \A n : KeysIn(w, n)' = KeysIn(w, n)
        /\ \A S : IdsIn(w, S)' = IdsIn(w, S)
        /\ \A k, r : Meant(w, k, r)' = Meant(w, k, r)
    BY SameIds
  <2> QED BY <1>3, <2>1 DEF KeysFitIn, Nodes
<1>4. ASSUME NEW w, NEW key, NEW output, RowIn(key, output, w) PROVE RowIn(key, output, w)'
  BY <1>3, <1>4, SameIds, SameValues DEF RowIn
<1> QED BY <1>1, <1>2, <1>3, <1>4

LEMMA SameWorld ==
    ASSUME dag' = dag, world' = world
    PROVE  /\ FromScratch(world)' = FromScratch(world)
           /\ HashFor(world)' = HashFor(world)
           /\ Ids(world)' = Ids(world)
           /\ \A n : CodeIn(world, n)' = CodeIn(world, n)
<1>1. PICK w : w = world
  OBVIOUS
<1>2. /\ FromScratch(w)' = FromScratch(w) /\ HashFor(w)' = HashFor(w) /\ Ids(w)' = Ids(w)
      /\ \A n : CodeIn(w, n)' = CodeIn(w, n)
  BY SameValues, SameIds
<1> QED BY <1>1, <1>2

LEMMA NoOutputs == DOMAIN NoRun.outputs = {} /\ DecidedRight(NoRun.decided)
BY DEF NoRun, DecidedRight, Cascaded

\* Decisions stay right while the run and what it has found stay.
LEMMA StillRight ==
    ASSUME UNCHANGED <<dag, world, rows>>, run'.policy = run.policy, DecidedRight(run'.decided)
    PROVE  DecidedRight(run.decided)'
<1>1. /\ FromScratch(world)' = FromScratch(world) /\ HashFor(world)' = HashFor(world)
      /\ Ids(world)' = Ids(world) /\ \A n : CodeIn(world, n)' = CodeIn(world, n)
  BY SameWorld
<1>2. \A g : IsBehind(g)' <=> IsBehind(g)
  BY DEF IsBehind, Nodes, Reads
<1>3. Cascaded(run.decided)'
  BY <1>2 DEF DecidedRight, Cascaded
<1> QED BY <1>1, <1>3 DEF DecidedRight, Recorded

LEMMA NoneRight == ASSUME run'.decided = NoRun.decided PROVE DecidedRight(run.decided)'
BY DEF NoRun, DecidedRight, Cascaded

LEMMA InsertIs ==
    ASSUME NEW new, NEW map, NEW x, x \in DOMAIN Insert(new, map)
    PROVE  /\ Insert(new, map)[x] = (IF x \in DOMAIN new THEN new[x] ELSE map[x])
           /\ x \in DOMAIN new \/ x \in DOMAIN map
BY DEF Insert

\* What the pipeline is when it has been resolved.
LEMMA ResolvedIs ==
    ASSUME NEW p \in Pipelines, dag = ResolvePartitionsFrom(p), Builds(dag)
    PROVE  DagOk /\ NodesEnd
<1>1. /\ DOMAIN p = {"kind", "reads", "parts"}
      /\ IsFiniteSet(Nodes(p)) /\ Nodes(p) = 1 .. Cardinality(Nodes(p))
      /\ DOMAIN p.reads = Nodes(p) /\ DOMAIN p.parts = Nodes(p)
      /\ \A n \in Nodes(p) :
            /\ p.kind[n] \in {"asset", "sensor", "task"}
            /\ \A r \in p.reads[n] : r = <<r[1], r[2]>> /\ r[1] \in Nodes(p) /\ r[1] < n
            /\ p.parts[n].how = "from" => p.parts[n].source \in Nodes(p) /\ p.parts[n].source < n
  BY ExecutionAssumption DEF Numbered
<1>2. PICK c \in Nat : Nodes(p) = 1 .. c
  BY <1>1, FS_CardinalityType
<1>3. Nodes(dag) = Nodes(p) /\ dag.kind = p.kind
  BY <1>1 DEF ResolvePartitionsFrom, Nodes
<1>4. ASSUME NEW n \in Nodes(dag), NEW r \in dag.reads[n]
      PROVE  r = <<r[1], r[2]>> /\ r[1] \in Nodes(dag) /\ r[1] < n
  <2>1. r \in p.reads[n] \/ (p.parts[n].how = "from" /\ r = <<p.parts[n].source, "direct">>)
    BY <1>1, <1>3, <1>4 DEF ResolvePartitionsFrom
  <2> QED BY <1>1, <1>3, <2>1
<1>5. DagOk
  BY <1>1, <1>2, <1>3, <1>4 DEF DagOk, Builds
<1>6. \A m \in Nodes(dag) : m < c + 1
  BY <1>2, <1>3
<1> QED BY <1>2, <1>5, <1>6 DEF NodesEnd

LEMMA IInvInit == ASSUME Init PROVE IInv
<1>1. PICK p \in Pipelines : dag = ResolvePartitionsFrom(p) /\ Builds(dag)
  BY DEF Init
<1>2. DagOk /\ NodesEnd
  BY <1>1, ResolvedIs
<1>3. world \in Worlds
  BY ExecutionAssumption DEF Init, Worlds
<1>4. /\ DOMAIN run = DOMAIN NoRun /\ PolicyOk /\ AsFromScratch
      /\ DecidedRight(run.decided) /\ DOMAIN run.outputs \subseteq DOMAIN run.decided.hashes
  BY NoOutputs DEF Init, AsFromScratch, PolicyOk, NoRun
<1>5. RowsTell
  BY DEF Init, RowsTell
<1> QED BY <1>2, <1>3, <1>4, <1>5 DEF IInv

\* Rows keep telling the truth while neither they nor the pipeline change.
LEMMA SameRows ==
    ASSUME dag' = dag, rows' = rows, RowsTell
    PROVE  RowsTell'
<1>1. SUFFICES ASSUME NEW key \in DOMAIN rows PROVE (\E w \in Worlds : RowIn(key, rows[key], w))'
  BY DEF RowsTell
<1>2. PICK w \in Worlds : RowIn(key, rows[key], w)
  BY DEF RowsTell
<1> QED BY <1>2, SamePipeline

LEMMA IInvStart ==
    ASSUME IInv, NEW goals, NEW policy \in Policies(goals), Start(goals, policy)
    PROVE  IInv'
<1>1. /\ dag' = dag /\ rows' = rows /\ (world' = world \/ world' \in Changes(world))
      /\ run' = [NoRun EXCEPT !.at = 1, !.goals = goals, !.policy = policy,
                              !.needed = Needed(goals), !.plan = PlanFor(dag, Pool, Needed(goals))]
  BY DEF Start
<1>2. DagOk' /\ NodesEnd' /\ RowsTell' /\ Worlds' = Worlds
  BY <1>1, SamePipeline, SameRows DEF IInv
<1>3. ASSUME world' \in Changes(world) PROVE world' \in Worlds
  <2>1. world \in [version : [Nodes(dag) -> Versions], reading : [Nodes(dag) -> Versions]]
    BY DEF IInv, Worlds
  <2>2. CASE world' = world
    BY <2>2 DEF IInv
  <2>3. ASSUME NEW n \in Nodes(dag), NEW v \in Versions, world' = [world EXCEPT !.version[n] = v]
        PROVE  world' \in Worlds
    BY <2>1, <2>3 DEF Worlds
  <2>4. ASSUME NEW n \in Nodes(dag), NEW v \in Versions, world' = [world EXCEPT !.reading[n] = v]
        PROVE  world' \in Worlds
    BY <2>1, <2>4 DEF Worlds
  <2> QED BY <1>3, <2>2, <2>3, <2>4 DEF Changes
<1>4. world' \in Worlds'
  BY <1>1, <1>2, <1>3 DEF IInv
<1>5. /\ run'.outputs = NoRun.outputs /\ run'.decided = NoRun.decided
      /\ DOMAIN run' = DOMAIN NoRun /\ run'.policy = policy
  BY <1>1 DEF NoRun
<1>7. PolicyOk'
  BY <1>1, <1>5 DEF Policies, PolicyOk
<1>6. AsFromScratch' /\ DecidedRight(run.decided)' /\ DOMAIN run'.outputs = {}
  BY <1>5, NoOutputs, NoneRight DEF AsFromScratch
<1> QED BY <1>2, <1>4, <1>5, <1>6, <1>7 DEF IInv, NoRun

\* A step of a run: the outputs and the decisions that come are right.
LEMMA IInvOutputs ==
    ASSUME IInv, UNCHANGED <<dag, world, rows>>, DOMAIN run' = DOMAIN NoRun,
           run'.policy = run.policy, DecidedRight(run'.decided),
           DOMAIN run.decided.hashes \subseteq DOMAIN run'.decided.hashes,
           NEW new, run'.outputs = Insert(new, run.outputs),
           \A id \in DOMAIN new :
               id \in DOMAIN run'.decided.hashes /\ new[id] = FromScratch(world)[id]
    PROVE  IInv'
<1>1. /\ DagOk' /\ NodesEnd' /\ RowsTell' /\ Worlds' = Worlds
      /\ FromScratch(world)' = FromScratch(world)
  BY SamePipeline, SameRows, SameWorld DEF IInv
<1>2. AsFromScratch'
  <2>1. \A id \in DOMAIN run'.outputs : run'.outputs[id] = FromScratch(world)[id]
    BY InsertIs DEF IInv, AsFromScratch
  <2> QED BY <1>1, <2>1 DEF AsFromScratch
<1>3. DecidedRight(run.decided)'
  BY StillRight
<1>4. \A id \in DOMAIN run'.outputs : id \in DOMAIN run'.decided.hashes
  BY InsertIs DEF IInv
<1> QED BY <1>1, <1>2, <1>3, <1>4 DEF IInv, NoRun, PolicyOk

LEMMA IInvSameOutputs ==
    ASSUME IInv, UNCHANGED <<dag, world, rows>>, DOMAIN run' = DOMAIN NoRun,
           \/ run'.outputs = run.outputs /\ run'.decided = run.decided /\ run'.policy = run.policy
           \/ run' = NoRun
    PROVE  IInv'
<1>1. /\ DagOk' /\ NodesEnd' /\ RowsTell' /\ Worlds' = Worlds
      /\ FromScratch(world)' = FromScratch(world)
  BY SamePipeline, SameRows, SameWorld DEF IInv
<1>2. AsFromScratch'
  BY <1>1, NoOutputs DEF IInv, AsFromScratch
<1>3. /\ DecidedRight(run.decided)'
      /\ \A id \in DOMAIN run'.outputs : id \in DOMAIN run'.decided.hashes
  BY StillRight, NoneRight, NoOutputs DEF IInv
<1>4. PolicyOk'
  BY DEF IInv, PolicyOk, NoRun
<1> QED BY <1>1, <1>2, <1>3, <1>4 DEF IInv, NoRun

\* What is served is the row of the same hash.
LEMMA IInvStartPhase ==
    ASSUME IInv, PlanFits, StartPhase
    PROVE  IInv'
<1>1. UNCHANGED <<dag, world, rows>> /\ MayStart
  BY DEF StartPhase
<1>2. PICK base : base = run.decided
  OBVIOUS
<1>3. PICK decided : decided = DecidePhase(dag, world.version, run.policy, DOMAIN rows, base, NextPhase)
  OBVIOUS
<1> DEFINE fresh == decided.cached \ base.cached
           new == [id \in fresh |-> rows[<<id, decided.hashes[id]>>]]
<1>4. /\ run'.decided = decided /\ run'.policy = run.policy
      /\ run'.outputs = Insert(new, run.outputs)
      /\ DOMAIN run' = DOMAIN NoRun
  BY <1>2, <1>3 DEF StartPhase, IInv, NoRun
<1>5. PICK steps : steps = FlattenSeq(NextPhase)
  OBVIOUS
<1>6. steps \in Seq(Step) /\ InOrder(base, steps)
  BY <1>1, <1>2, <1>5, StepsAre DEF PlanFits
<1>7. DecidedRight(decided) /\ DOMAIN base.hashes \subseteq DOMAIN decided.hashes
  BY <1>2, <1>3, <1>5, <1>6, PhaseIsRight DEF IInv, PlanFits, KeysFit
<1>8. ASSUME NEW id \in fresh
      PROVE  id \in DOMAIN decided.hashes /\ rows[<<id, decided.hashes[id]>>] = FromScratch(world)[id]
  <2>1. /\ id \in DOMAIN decided.hashes /\ dag.kind[id[1]] = "asset"
        /\ <<id, decided.hashes[id]>> \in DOMAIN rows
        /\ id \in Ids(world) /\ decided.hashes[id] = HashFor(world)[id]
    BY <1>7 DEF DecidedRight, Recorded
  <2> HIDE DEF fresh
  <2> QED BY <2>1, RowIsRight DEF IInv, PlanFits, KeysFit
<1>9. \A id \in DOMAIN new : id \in DOMAIN decided.hashes /\ new[id] = FromScratch(world)[id]
  BY <1>8
<1> HIDE DEF new
<1> QED BY <1>1, <1>2, <1>4, <1>7, <1>9, IInvOutputs

\* What is collected was computed from inputs that arrived.
LEMMA IInvCollect ==
    ASSUME IInv, PlanFits, UNCHANGED <<dag, world, rows>>,
           NEW done, \A x \in done : x \in PhaseItems(run.flight), DOMAIN run' = DOMAIN NoRun,
           run'.outputs = Collect(done).outputs, run'.decided = Collect(done).decided,
           run'.policy = Collect(done).policy
    PROVE  IInv'
<1> DEFINE ids == { IdOf(run.flight, x) : x \in done }
           sensors == { id \in ids : dag.kind[id[1]] = "sensor" }
           new == [id \in ids |-> Computed[NodeToItem(run.flight, id)]]
           observed == [id \in sensors |-> Code(id[1])]
<1>1. run'.outputs = Insert(new, run.outputs) /\ run'.policy = run.policy
  BY DEF Collect, IInv, NoRun
<1>2. run'.decided = [run.decided EXCEPT !.sensorOut = Insert(observed, @)]
  BY DEF Collect, IInv, NoRun
<1>3. OnTrack
  BY OnTrackIs
<1>4. \A x \in done : /\ Computed[NodeToItem(run.flight, IdOf(run.flight, x))]
                              = FromScratch(world)[IdOf(run.flight, x)]
                      /\ IdOf(run.flight, x) \in DOMAIN run.decided.hashes
  BY <1>3, FlightIs, TheItem, ComputesRight DEF IInv
<1>5. \A id \in DOMAIN new : id \in DOMAIN run.decided.hashes /\ new[id] = FromScratch(world)[id]
  BY <1>4
<1>6. \A id \in DOMAIN observed : dag.kind[id[1]] = "sensor" /\ observed[id] = CodeIn(world, id[1])
  BY DEF Code
<1> HIDE DEF new, observed
<1>7. /\ DOMAIN run'.decided = DOMAIN run.decided /\ run'.decided.hashes = run.decided.hashes
      /\ run'.decided.cached = run.decided.cached
      /\ run'.decided.sensorOut = Insert(observed, run.decided.sensorOut)
  BY <1>2 DEF IInv, DecidedRight
<1>8. \A id \in DOMAIN run'.decided.sensorOut :
          dag.kind[id[1]] = "sensor" /\ run'.decided.sensorOut[id] = CodeIn(world, id[1])
  BY <1>6, <1>7, InsertIs DEF IInv, DecidedRight
<1>9. DecidedRight(run'.decided)
  <2>1. run'.decided.refreshed = run.decided.refreshed
    BY <1>2 DEF IInv, DecidedRight
  <2>2. Cascaded(run'.decided)
    BY <1>7, <2>1 DEF IInv, DecidedRight, Cascaded
  <2> QED BY <1>7, <1>8, <2>2 DEF IInv, DecidedRight, Recorded
<1> QED BY <1>1, <1>5, <1>7, <1>9, IInvOutputs

\* What is recorded was computed in this world.
LEMMA IInvFinish ==
    ASSUME IInv, PlanFits, Finish
    PROVE  IInv'
<1> DEFINE ran == DOMAIN run.outputs \ run.decided.cached
           new == [key \in { <<id, run.decided.hashes[id]>> : id \in ran } |-> run.outputs[key[1]]]
<1>1. /\ UNCHANGED <<dag, world>> /\ run' = NoRun /\ rows' = Insert(new, rows)
  BY DEF Finish
<1>2. /\ DagOk' /\ NodesEnd' /\ Worlds' = Worlds
      /\ \A w, key, output : RowIn(key, output, w) => RowIn(key, output, w)'
  BY <1>1, SamePipeline DEF IInv
<1>3. ASSUME NEW key \in DOMAIN new
      PROVE  RowIn(key, new[key], world)
  <2>1. PICK id \in ran : key = <<id, run.decided.hashes[id]>>
    OBVIOUS
  <2>2. key = <<key[1], key[2]>> /\ key[1] = id /\ key[2] = run.decided.hashes[id]
    BY <2>1
  <2>3. new[key] = run.outputs[id]
    BY <2>1
  <2>4. id \in Ids(world) /\ run.decided.hashes[id] = HashFor(world)[id]
    BY <2>1 DEF IInv, DecidedRight
  <2>5. run.outputs[id] = FromScratch(world)[id]
    BY <2>1 DEF IInv, AsFromScratch
  <2> HIDE DEF new
  <2> QED BY <2>2, <2>3, <2>4, <2>5 DEF RowIn, PlanFits
<1> HIDE DEF new
<1>4. ASSUME NEW key \in DOMAIN rows'
      PROVE  \E w \in Worlds : RowIn(key, rows'[key], w)
  <2>1. CASE key \in DOMAIN new
    BY <1>1, <1>3, <2>1, InsertIs DEF IInv
  <2>2. CASE key \notin DOMAIN new
    BY <1>1, <2>2, InsertIs DEF IInv, RowsTell
  <2> QED BY <2>1, <2>2
<1>5. RowsTell'
  BY <1>2, <1>4 DEF RowsTell
<1>6. AsFromScratch' /\ DecidedRight(run.decided)' /\ DOMAIN run'.outputs = {}
  BY <1>1, NoOutputs, NoneRight DEF AsFromScratch
<1>7. PolicyOk'
  BY <1>1 DEF PolicyOk, NoRun
<1> QED BY <1>1, <1>2, <1>5, <1>6, <1>7 DEF IInv

LEMMA IInvNext ==
    ASSUME IInv, PlanFits, [Next]_vars
    PROVE  IInv'
<1>1. CASE UNCHANGED vars
  BY <1>1, IInvSameOutputs DEF vars, IInv
<1>2. ASSUME NEW goals \in Targets, NEW policy \in Policies(goals), Start(goals, policy)
      PROVE  IInv'
  BY <1>2, IInvStart
<1>3. CASE StartPhase
  BY <1>3, IInvStartPhase
<1>4. CASE PhaseDone
  <2>1. UNCHANGED <<dag, world, rows>> /\ run' = Collect(PhaseItems(run.flight))
    BY <1>4 DEF PhaseDone
  <2>2. DOMAIN run' = DOMAIN NoRun
    BY <2>1 DEF Collect, IInv
  <2> QED BY <2>1, <2>2, IInvCollect
<1>5. ASSUME NEW x \in PhaseItems(run.flight), PhaseFails(x)
      PROVE  IInv'
  <2>1. PICK done : done = PhaseItems(run.flight) \ Behind({x}, DataDeps)
    OBVIOUS
  <2>2. /\ UNCHANGED <<dag, world, rows>>
        /\ run' = [Collect(done) EXCEPT !.failed = @ \cup {IdOf(run.flight, x)[1]},
                                        !.stop = IF KeepGoing THEN "no" ELSE "failed"]
    BY <1>5, <2>1 DEF PhaseFails
  <2>3. DOMAIN Collect(done) = DOMAIN NoRun
    BY DEF Collect, IInv
  <2>4. /\ DOMAIN run' = DOMAIN NoRun /\ run'.outputs = Collect(done).outputs
        /\ run'.decided = Collect(done).decided /\ run'.policy = Collect(done).policy
    BY <2>2, <2>3 DEF NoRun
  <2>5. \A y \in done : y \in PhaseItems(run.flight)
    BY <2>1
  <2> QED BY <2>2, <2>4, <2>5, IInvCollect
<1>6. ASSUME NEW x \in PhaseItems(run.flight), Cancel(x)
      PROVE  IInv'
  <2>1. PICK done : done = PhaseItems(run.flight) \ Behind({x}, AllDeps)
    OBVIOUS
  <2>2. UNCHANGED <<dag, world, rows>> /\ run' = [Collect(done) EXCEPT !.stop = "cancelled"]
    BY <1>6, <2>1 DEF Cancel
  <2>3. DOMAIN Collect(done) = DOMAIN NoRun
    BY DEF Collect, IInv
  <2>4. /\ DOMAIN run' = DOMAIN NoRun /\ run'.outputs = Collect(done).outputs
        /\ run'.decided = Collect(done).decided /\ run'.policy = Collect(done).policy
    BY <2>2, <2>3 DEF NoRun
  <2>5. \A y \in done : y \in PhaseItems(run.flight)
    BY <2>1
  <2> QED BY <2>2, <2>4, <2>5, IInvCollect
<1>7. CASE CancelBetween
  <2>1. UNCHANGED <<dag, world, rows>> /\ run' = [run EXCEPT !.stop = "cancelled"]
    BY <1>7 DEF CancelBetween
  <2>2. /\ DOMAIN run' = DOMAIN NoRun /\ run'.outputs = run.outputs
        /\ run'.decided = run.decided /\ run'.policy = run.policy
    BY <2>1 DEF IInv, NoRun
  <2> QED BY <2>1, <2>2, IInvSameOutputs
<1>8. CASE Finish
  BY <1>8, IInvFinish
<1>9. CASE Die
  BY <1>9, IInvSameOutputs DEF Die
<1> QED BY <1>1, <1>2, <1>3, <1>4, <1>5, <1>6, <1>7, <1>8, <1>9 DEF Next

\* Whatever was edited, observed, refreshed, or went wrong in the runs before, a
\* run decides each key by the hash of all that the key is computed from, serves
\* only what is recorded under it, and runs no asset again that is (unless a
\* refresh is asked for): provided the plan fits.
THEOREM DecisionsAreRight == Spec /\ []PlanFits => []DecidedAsMeant
<1>1. Init => IInv
  BY IInvInit
<1>2. IInv /\ PlanFits /\ [Next]_vars => IInv'
  BY IInvNext
<1>3. IInv /\ PlanFits => DecidedAsMeant
  BY Decisions
<1> QED BY <1>1, <1>2, <1>3, PTL DEF Spec

\* Every input of a dispatched item is delivered and is the one meant, whichever
\* way it goes (from an earlier phase, as a list, or within the phase).
THEOREM InputsDelivered == Spec /\ []PlanFits => []InputsArrive
<1>1. Init => IInv
  BY IInvInit
<1>2. IInv /\ PlanFits /\ [Next]_vars => IInv'
  BY IInvNext
<1>3. IInv /\ PlanFits => InputsArrive
  BY OnTrackIs, Arrives DEF IInv
<1> QED BY <1>1, <1>2, <1>3, PTL DEF Spec

\* Whatever a run takes from the cache, its outputs are those of a run from
\* scratch, after any edits, observations, failures, cancellations and deaths
\* of runs before it.
THEOREM CacheIsRight == Spec /\ []PlanFits => []AsFromScratch
<1>1. Init => IInv
  BY IInvInit
<1>2. IInv /\ PlanFits /\ [Next]_vars => IInv'
  BY IInvNext
<1>3. IInv => AsFromScratch
  BY DEF IInv
<1> QED BY <1>1, <1>2, <1>3, PTL DEF Spec

\* And no asset is run again whose output, as it would be computed now, is
\* recorded of any earlier run (unless a refresh is asked for).
THEOREM NothingRunsAgain == Spec /\ []PlanFits => []OnlyWhatChanged
<1>1. Init => IInv
  BY IInvInit
<1>2. IInv /\ PlanFits /\ [Next]_vars => IInv'
  BY IInvNext
<1>3. IInv /\ PlanFits => OnlyWhatChanged
  BY OnlyIf
<1> QED BY <1>1, <1>2, <1>3, PTL DEF Spec

\* --refresh with its cascade: no asset behind the named one, by inputs and
\* however far, is served from the cache.
THEOREM RefreshReaches == Spec /\ []PlanFits => []CascadeReaches
<1>1. Init => IInv
  BY IInvInit
<1>2. IInv /\ PlanFits /\ [Next]_vars => IInv'
  BY IInvNext
<1>3. IInv => CascadeReaches
  BY Cascades
<1> QED BY <1>1, <1>2, <1>3, PTL DEF Spec

=============================================================================
