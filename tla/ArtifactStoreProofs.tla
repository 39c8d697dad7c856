------------------------ MODULE ArtifactStoreProofs ------------------------
(***************************************************************************)
(* Theorems about module ArtifactStore, for any workers, steps, formats,   *)
(* caches and bounds, remote and local, and with any number of crashes,    *)
(* exceptions and failing transfers.                                       *)
(***************************************************************************)
EXTENDS ArtifactStore, SequenceTheorems, WellFoundedInduction, TLAPS

-----------------------------------------------------------------------------
(***************************************************************************)
(* Folds.  The library defines them by a CHOOSE of a recursive function,   *)
(* which is of use only once such a function is known to exist; that there *)
(* is one for every length is shown through the least length for which     *)
(* there were none.                                                        *)
(***************************************************************************)
\* Every set of naturals has a least element.
LEMMA LeastNat ==
    ASSUME NEW T \in SUBSET Nat, T # {}
    PROVE  \E n \in T : \A m \in T : n <= m
<1>1. PICK R : R = OpToRel(<, Nat)
  OBVIOUS
<1>2. IsWellFoundedOn(R, Nat)
  BY <1>1, NatLessThanWellFounded
<1>3. \A a, b \in Nat : <<a, b>> \in R <=> a < b
  BY <1>1 DEF OpToRel
<1>4. PICK n \in T : \A m \in T : <<m, n>> \notin R
  BY <1>2, WFMin
<1>5. n \in Nat /\ \A m \in T : m \in Nat /\ ~(m < n)
  BY <1>3, <1>4
<1>6. \A m \in Nat : ~(m < n) => n <= m
  BY <1>5
<1> QED BY <1>5, <1>6

\* A set of naturals with a bound has its Max.
LEMMA Greatest ==
    ASSUME NEW n \in Nat, NEW t \in SUBSET (1 .. n), t # {}
    PROVE  Max(t) \in t /\ \A k \in t : k <= Max(t)
<1>1. PICK U : U = { m \in Nat : \A k \in t : k <= m }
  OBVIOUS
<1>2. n \in U /\ U \subseteq Nat
  BY <1>1
<1>3. PICK m \in U : \A j \in U : m <= j
  BY <1>2, LeastNat
<1>4. m \in t
  <2> SUFFICES ASSUME m \notin t PROVE FALSE
    OBVIOUS
  <2>1. m \in Nat /\ \A k \in t : k \in Nat /\ k > 0 /\ k < m
    BY <1>1
  <2>0. PICK i : i \in t
    OBVIOUS
  <2>2. m - 1 \in Nat /\ \A k \in t : k <= m - 1
    <3>1. \A k \in Nat : k > 0 /\ k < m => m - 1 \in Nat /\ k <= m - 1
      BY <2>1
    <3> QED BY <2>0, <2>1, <3>1
  <2>3. m - 1 \in U
    BY <1>1, <2>2
  <2> QED BY <1>3, <2>1, <2>3
<1>5. \A k \in t : k \in Nat /\ k <= m
  BY <1>1
<1>6. \E x \in t : \A y \in t : x >= y
  BY <1>4, <1>5
<1>7. Max(t) \in t /\ \A y \in t : Max(t) >= y
  BY <1>6 DEF Max
<1> QED BY <1>5, <1>7

\* What a fold over a sequence of length n satisfies, for a function F.
Folds(g, F, base, n) ==
    \A t \in SUBSET (1 .. n) :
        g[t] = IF t = {} THEN base ELSE F[<<g[t \ {Max(t)}], Max(t)>>]

\* There is such a function.
LEMMA FoldExists ==
    ASSUME NEW D, NEW n \in Nat, NEW F \in [D \X (1 .. n) -> D], NEW base \in D
    PROVE  \E g \in [SUBSET (1 .. n) -> D] : Folds(g, F, base, n)
<1> DEFINE Ok(m) == \E g \in [SUBSET (1 .. m) -> D] : Folds(g, F, base, m)
<1>1. Ok(0)
  <2> DEFINE g == [t \in SUBSET (1 .. 0) |-> base]
  <2>1. g \in [SUBSET (1 .. 0) -> D]
    OBVIOUS
  <2>2. \A t \in SUBSET (1 .. 0) : t = {} /\ g[t] = base
    OBVIOUS
  <2>3. Folds(g, F, base, 0)
    BY <2>2 DEF Folds
  <2> QED BY <2>1, <2>3
<1>2. ASSUME NEW m \in 0 .. n - 1, Ok(m) PROVE Ok(m + 1)
  <2>1. PICK g \in [SUBSET (1 .. m) -> D] : Folds(g, F, base, m)
    BY <1>2
  <2> DEFINE h == [t \in SUBSET (1 .. m + 1) |->
                     IF m + 1 \in t THEN F[<<g[t \ {m + 1}], m + 1>>] ELSE g[t]]
  <2>2. m \in Nat /\ m + 1 \in 1 .. n /\ \A t \in SUBSET (1 .. m + 1) : t \ {m + 1} \in SUBSET (1 .. m)
    BY <1>2
  <2>3. ASSUME NEW t \in SUBSET (1 .. m + 1)
        PROVE  h[t] \in D /\ h[t] = IF t = {} THEN base ELSE F[<<h[t \ {Max(t)}], Max(t)>>]
    <3>1. CASE m + 1 \in t
      <4>1. Max(t) = m + 1
        <5>1. PICK k : k = Max(t)
          OBVIOUS
        <5>2. k \in t /\ \A j \in t : j <= k
          <6>1. m + 1 \in Nat /\ t # {}
            BY <2>2, <3>1
          <6> QED BY <5>1, <6>1, Greatest
        <5>3. \A j \in 1 .. m + 1 : m + 1 <= j => j = m + 1
          BY <2>2
        <5> QED BY <3>1, <5>1, <5>2, <5>3
      <4>2. t \ {m + 1} \in SUBSET (1 .. m) /\ m + 1 \notin t \ {m + 1}
        BY <2>2
      <4>3. t \ {m + 1} \in SUBSET (1 .. m + 1)
        BY <2>2
      <4>4. h[t \ {m + 1}] = g[t \ {m + 1}] /\ g[t \ {m + 1}] \in D
        BY <4>2, <4>3
      <4>5. h[t] = F[<<g[t \ {m + 1}], m + 1>>] /\ t # {}
        BY <3>1
      <4> QED BY <2>2, <4>1, <4>4, <4>5
    <3>2. CASE m + 1 \notin t
      <4>1. t \in SUBSET (1 .. m) /\ h[t] = g[t] /\ g[t] \in D
        BY <2>2, <3>2
      <4>2. CASE t = {}
        BY <2>1, <4>1, <4>2 DEF Folds
      <4>3. CASE t # {}
        <5>1. PICK k : k = Max(t)
          OBVIOUS
        <5>2. k \in t
          BY <2>2, <4>1, <4>3, <5>1, Greatest
        <5>3. t \ {k} \in SUBSET (1 .. m + 1) /\ m + 1 \notin t \ {k}
          BY <3>2
        <5>4. h[t \ {k}] = g[t \ {k}]
          BY <5>3
        <5>5. g[t] = F[<<g[t \ {k}], k>>]
          BY <2>1, <4>1, <4>3, <5>1 DEF Folds
        <5> QED BY <4>1, <4>3, <5>1, <5>4, <5>5
      <4> QED BY <4>2, <4>3
    <3> QED BY <3>1, <3>2
  <2>4. h \in [SUBSET (1 .. m + 1) -> D]
    BY <2>3
  <2>5. Folds(h, F, base, m + 1)
    BY <2>3 DEF Folds
  <2> QED BY <2>4, <2>5
<1> HIDE DEF Ok
<1>3. ASSUME ~Ok(n) PROVE FALSE
  <2>1. PICK T : T = { m \in 0 .. n : ~Ok(m) }
    OBVIOUS
  <2>2. T \in SUBSET Nat /\ n \in T
    BY <1>3, <2>1
  <2>3. PICK m \in T : \A j \in T : m <= j
    BY <2>2, LeastNat
  <2>4. m \in 0 .. n /\ ~Ok(m) /\ m # 0
    BY <1>1, <2>1, <2>3
  <2>5. m - 1 \in 0 .. n - 1 /\ m - 1 \in 0 .. n /\ (m - 1) + 1 = m
    BY <2>4
  <2>6. Ok(m - 1)
    BY <2>1, <2>3, <2>5
  <2> QED BY <1>2, <2>4, <2>5, <2>6
<1>4. Ok(n)
  BY <1>3
<1> QED BY <1>4 DEF Ok

\* Up to k.
LEMMA UpTo ==
    ASSUME NEW n \in Nat, NEW k \in 1 .. n
    PROVE  /\ 1 .. k \in SUBSET (1 .. n) /\ 1 .. k # {}
           /\ Max(1 .. k) = k /\ (1 .. k) \ {k} = 1 .. k - 1
<1>1. 1 .. k \in SUBSET (1 .. n) /\ 1 .. k # {} /\ (1 .. k) \ {k} = 1 .. k - 1 /\ k \in 1 .. k
  OBVIOUS
<1>2. PICK j : j = Max(1 .. k)
  OBVIOUS
<1>3. j \in 1 .. k /\ k <= j
  BY <1>1, <1>2, Greatest
<1>4. \A i \in 1 .. k : k <= i => i = k
  OBVIOUS
<1> QED BY <1>1, <1>2, <1>3, <1>4

\* Caching the first m threads of a worker, in order.
CachedEach(w, lru, m) == FoldLeft(LAMBDA l, i : Cached(w, l, i), lru, [i \in 1 .. m |-> i])

CachedIn(w, D, m) == \A l \in D, i \in 1 .. m : Cached(w, l, i) \in D

CachedBy(h, w, L, m) ==
    /\ h[0] = L /\ CachedEach(w, L, m) = h[m]
    /\ \A k \in 1 .. m : h[k] = Cached(w, h[k - 1], k)

LEMMA CachedFold ==
    ASSUME NEW w, NEW D, NEW m \in Nat, NEW L \in D, CachedIn(w, D, m)
    PROVE  \E h : CachedBy(h, w, L, m)
<1> DEFINE F   == [p \in D \X (1 .. m) |-> Cached(w, p[1], p[2])]
           idx == [i \in 1 .. m |-> i]
<1>1. F \in [D \X (1 .. m) -> D]
  BY DEF CachedIn
<1>2. PICK g \in [SUBSET (1 .. m) -> D] : Folds(g, F, L, m)
  BY <1>1, FoldExists
<1>3. DOMAIN idx = 1 .. m /\ \A i \in 1 .. m : idx[i] = i
  OBVIOUS
<1>4. g = [s \in SUBSET (DOMAIN idx) |->
             IF s = {} THEN L ELSE LET x == Max(s) IN Cached(w, g[s \ {x}], idx[x])]
  <2>1. ASSUME NEW s \in SUBSET (1 .. m), s # {}
        PROVE  g[s] = Cached(w, g[s \ {Max(s)}], idx[Max(s)])
    <3>1. PICK x : x = Max(s)
      OBVIOUS
    <3>2. x \in 1 .. m
      BY <2>1, <3>1, Greatest
    <3>3. g[s \ {x}] \in D /\ g[s] = F[<<g[s \ {x}], x>>]
      BY <1>2, <2>1, <3>1 DEF Folds
    <3> QED BY <1>3, <3>1, <3>2, <3>3
  <2>2. \A s \in SUBSET (1 .. m) : s = {} => g[s] = L
    BY <1>2 DEF Folds
  <2> QED BY <1>3, <2>1, <2>2
<1> HIDE DEF F, idx
<1>5. PICK it :
        /\ it = [s \in SUBSET (DOMAIN idx) |->
                   IF s = {} THEN L ELSE LET x == Max(s) IN Cached(w, it[s \ {x}], idx[x])]
        /\ FoldLeft(LAMBDA l, i : Cached(w, l, i), L, idx) = it[DOMAIN idx]
  BY <1>4 DEF FoldLeft, MapThenFoldSet
<1>6. ASSUME NEW k \in 1 .. m
      PROVE  it[1 .. k] = Cached(w, it[1 .. k - 1], k)
  <2>1. /\ 1 .. k \in SUBSET (DOMAIN idx) /\ 1 .. k # {}
        /\ Max(1 .. k) = k /\ (1 .. k) \ {k} = 1 .. k - 1
    BY <1>3, UpTo
  <2> QED BY <1>3, <1>5, <2>1
<1>7. it[1 .. 0] = L
  <2>1. 1 .. 0 = {} /\ 1 .. 0 \in SUBSET (DOMAIN idx)
    OBVIOUS
  <2> QED BY <1>5, <2>1
<1>8. PICK h : h = [k \in 0 .. m |-> it[1 .. k]]
  OBVIOUS
<1>9. /\ h[0] = L /\ h[m] = it[1 .. m]
      /\ \A k \in 1 .. m : h[k] = it[1 .. k] /\ h[k - 1] = it[1 .. k - 1]
  BY <1>7, <1>8
<1>10. FoldLeft(LAMBDA l, i : Cached(w, l, i), L, idx) = h[m]
  BY <1>3, <1>5, <1>9
<1>11. CachedEach(w, L, m) = h[m]
  BY <1>10 DEF idx, CachedEach
<1>12. \A k \in 1 .. m : h[k] = Cached(w, h[k - 1], k)
  BY <1>6, <1>9
<1> QED BY <1>9, <1>11, <1>12 DEF CachedBy

-----------------------------------------------------------------------------
Out(s) == Value(Result[s], s)

Kinds  == {"none", "plain", "frame", "pandas"} \cup {Result[s] : s \in Steps} \cup {Frame[s] : s \in Steps}
Frames == {"pandas"} \cup {Frame[s] : s \in Steps}
Fmts   == {"none", "parquet", "json", "pickle"} \cup {Serializer[s] : s \in Steps}
          \cup UNION {{Sinks[s][i].fmt : i \in DOMAIN Sinks[s]} : s \in Steps}

ValueSet  == [kind : Kinds, of : Steps \cup {"none"}]
FileSet   == [fmt : Fmts, value : ValueSet]
TempSet   == [in : {"none", "staging", "beside"}, file : FileSet]
EntrySet  == [key : [path : Steps, frame : Frames], value : ValueSet]
Argument  == [value : ValueSet, shared : {FALSE}]
WriteSet  == [to : Files, fmt : Fmts]
ThreadSet == [at : {"hot", "queued", "fetch", "fetched", "done", "failed"},
              value : ValueSet, temp : 0 .. MaxTemps]

Places == {"down", "idle", "read", "write", "fill", "finalize", "unlink", "report", "keep", "error"}

WorkerSet ==
    [at : Places, step : Steps \cup {"none"}, given : Seq(Seq(Argument)),
     threads : Seq(ThreadSet), lru : Seq(EntrySet), result : ValueSet,
     writes : Seq(WriteSet), temp : 0 .. MaxTemps, outcome : Seq({"ok", "error"})]

\* The reads of a step: a parameter after the other, a thread for each source.
ReadsInTurn(x) ==
    /\ x.at # "read" => x.threads = << >>
    /\ x.at = "read" => x.outcome = << >> /\ Len(x.given) <= Len(Params[x.step])
    /\ x.threads # << >> =>
         /\ Len(x.given) < Len(Params[x.step])
         /\ Len(x.threads) = Len(Params[x.step][Len(x.given) + 1])
    /\ \A i \in DOMAIN x.threads :
         x.threads[i].temp # NoTemp <=> x.threads[i].at \in {"fetch", "fetched"}

\* Its writes: the artifact, then the sinks; what is not over is to do.
WritesInTurn(x) ==
    /\ x.temp # NoTemp <=> x.at \in {"fill", "finalize", "unlink"}
    /\ x.at \in {"write", "fill", "finalize", "unlink", "report"} =>
         /\ x.result = Out(x.step)
         /\ Len(x.outcome) + Len(x.writes) = Len(Writes(x.step, Out(x.step)))
         /\ \A j \in DOMAIN x.writes :
              x.writes[j] = Writes(x.step, Out(x.step))[Len(x.outcome) + j]
         /\ x.at = "report" <=> x.writes = << >>
         /\ x.outcome # << >> => x.outcome[1] = "ok"
    /\ x.at = "keep" => x.result = Out(x.step)

Shaped(x) ==
    /\ x \in WorkerSet
    /\ x.at \notin {"down", "idle", "error"} => x.step \in Steps
    /\ ReadsInTurn(x) /\ WritesInTurn(x)

Typed ==
    /\ remote \in BOOLEAN
    /\ store \in [Files -> FileSet]
    /\ temps \in [Temps -> TempSet]
    /\ DOMAIN worker = Workers /\ worker = [w \in Workers |-> worker[w]]
    /\ \A w \in Workers : Shaped(worker[w])

-----------------------------------------------------------------------------
LEMMA OutTyped ==
    ASSUME NEW s \in Steps
    PROVE  Out(s) \in ValueSet /\ (Out(s) = None \/ (Out(s).kind = Result[s] /\ Out(s).of = s))
BY DEF Out, Value, None, ValueSet, Kinds

LEMMA NoFileTyped == None \in ValueSet /\ NoFile \in FileSet
BY DEF None, NoFile, ValueSet, FileSet, Kinds, Fmts

LEMMA WrittenTyped ==
    ASSUME NEW v \in ValueSet, NEW f \in Fmts
    PROVE  Written(v, f) \in FileSet
BY DEF Written, Value, None, ValueSet, FileSet, Kinds

LEMMA ReadBackTyped ==
    ASSUME NEW f \in FileSet, NEW fr \in Frames
    PROVE  ReadBack(f, fr) \in ValueSet
BY DEF ReadBack, Value, None, ValueSet, FileSet, Kinds, Frames

LEMMA FormatTyped ==
    ASSUME NEW s \in Steps, NEW v
    PROVE  /\ FormatOf(s, v) \in Fmts
           /\ \A i \in DOMAIN Sinks[s] : SinkFormat(Sinks[s][i], v, FormatOf(s, v)) \in Fmts
BY DEF FormatOf, SinkFormat, ResolveFormat, DetectFormat, Fmts

Dest(s, i) == DaemonSinkDest(Sinks[s][i].path, s)

LEMMA DestIs ==
    ASSUME NEW s \in Steps
    PROVE  /\ Artifact(s) \in Files
           /\ \A i \in DOMAIN Sinks[s] :
                Dest(s, i) = SinkFile(Sinks[s][i].path, "none") /\ Dest(s, i) \in Files
BY DEF Dest, DaemonSinkDest, SinkDest, Files

LEMMA SinksAre ==
    ASSUME NEW s \in Steps
    PROVE  Len(Sinks[s]) \in Nat /\ DOMAIN Sinks[s] = 1 .. Len(Sinks[s])
BY StoreAssumption DEF StoreAssumption

\* The writes of a step, in order.
LEMMA WritesAre ==
    ASSUME NEW s \in Steps
    PROVE  /\ Writes(s, Out(s)) \in Seq(WriteSet)
           /\ Len(Writes(s, Out(s))) = 1 + Len(Sinks[s])
           /\ Writes(s, Out(s))[1] = [to |-> Artifact(s), fmt |-> FormatOf(s, Out(s))]
           /\ \A i \in DOMAIN Sinks[s] :
                Writes(s, Out(s))[i + 1] =
                  [to |-> Dest(s, i), fmt |-> SinkFormat(Sinks[s][i], Out(s), FormatOf(s, Out(s)))]
<1> DEFINE first == <<[to |-> Artifact(s), fmt |-> FormatOf(s, Out(s))]>>
           rest  == [i \in DOMAIN Sinks[s] |->
                       [to |-> DaemonSinkDest(Sinks[s][i].path, s),
                        fmt |-> SinkFormat(Sinks[s][i], Out(s), FormatOf(s, Out(s)))]]
<1>1. first \in Seq(WriteSet) /\ Len(first) = 1
  BY DestIs, FormatTyped DEF WriteSet
<1>2. PICK n \in Nat : n = Len(Sinks[s]) /\ DOMAIN Sinks[s] = 1 .. n
  BY SinksAre
<1>3. \A i \in 1 .. n : rest[i] \in WriteSet
  BY <1>2, DestIs, FormatTyped DEF WriteSet, Dest
<1>4. rest \in [1 .. n -> WriteSet]
  BY <1>2, <1>3
<1>5. rest \in Seq(WriteSet) /\ Len(rest) = n
  BY <1>4, IsASeq, LenProperties
<1>6. Writes(s, Out(s)) = first \o rest
  BY DEF Writes
<1>7. /\ first[1] = [to |-> Artifact(s), fmt |-> FormatOf(s, Out(s))]
      /\ \A i \in 1 .. n : rest[i] = [to |-> Dest(s, i), fmt |-> SinkFormat(Sinks[s][i], Out(s), FormatOf(s, Out(s)))]
  BY <1>2 DEF Dest
<1> HIDE DEF first, rest
<1>8. PICK all : all = first \o rest
  OBVIOUS
<1>9. /\ all \in Seq(WriteSet) /\ Len(all) = 1 + n
      /\ \A j \in 1 .. 1 + n : all[j] = IF j <= 1 THEN first[j] ELSE rest[j - 1]
  <2>1. /\ first \o rest \in Seq(WriteSet)
        /\ Len(first \o rest) = Len(first) + Len(rest)
        /\ \A j \in 1 .. Len(first) + Len(rest) : (first \o rest)[j] =
             IF j <= Len(first) THEN first[j] ELSE rest[j - Len(first)]
    BY <1>1, <1>5, ConcatProperties
  <2> QED BY <1>1, <1>5, <1>8, <2>1
<1>10. 1 \in 1 .. 1 + n /\ \A i \in 1 .. n : i + 1 \in 1 .. 1 + n /\ ~(i + 1 <= 1) /\ (i + 1) - 1 = i
  OBVIOUS
<1>11. all[1] = first[1] /\ \A i \in 1 .. n : all[i + 1] = rest[i]
  BY <1>9, <1>10
<1> QED BY <1>2, <1>6, <1>7, <1>8, <1>9, <1>11

-----------------------------------------------------------------------------
(***************************************************************************)
(* The cache.  E is a set of entries.                                      *)
(***************************************************************************)
LEMMA EntryIn ==
    ASSUME NEW E, NEW l \in Seq(E), NEW key, Has(l, key)
    PROVE  Entry(l, key) \in E /\ Entry(l, key).key = key
<1>1. Entry(l, key) \in ToSet(l) /\ Entry(l, key).key = key
  BY DEF Has, Entry
<1>2. ToSet(l) \subseteq E
  BY DEF ToSet
<1> QED BY <1>1, <1>2

\* One element less.
LEMMA RemovedIn ==
    ASSUME NEW E, NEW l \in Seq(E), NEW e
    PROVE  RemoveFirst(l, e) \in Seq(E)
<1>1. CASE ~\E i \in 1 .. Len(l) : l[i] = e
  BY <1>1 DEF RemoveFirst
<1>2. CASE \E i \in 1 .. Len(l) : l[i] = e
  <2>1. PICK I : I = { i \in 1 .. Len(l) : l[i] = e }
    OBVIOUS
  <2>2. I \in SUBSET Nat /\ I # {} /\ Len(l) \in Nat
    BY <1>2, <2>1
  <2>3. \E i \in I : \A j \in I : i <= j
    BY <2>2, LeastNat
  <2>4. PICK k : k = Min(I)
    OBVIOUS
  <2>5. k \in I
    BY <2>3, <2>4 DEF Min
  <2>6. SelectInSeq(l, LAMBDA v : v = e) = k
    BY <2>1, <2>2, <2>4 DEF SelectInSeq
  <2>7. k \in 1 .. Len(l)
    BY <2>1, <2>5
  <2>8. RemoveFirst(l, e) = SubSeq(l, 1, k - 1) \o SubSeq(l, k + 1, Len(l))
    BY <1>2, <2>6 DEF RemoveFirst, RemoveAt
  <2>9. /\ 1 \in 1 .. Len(l) + 1 /\ k - 1 \in 0 .. Len(l)
        /\ k + 1 \in 1 .. Len(l) + 1 /\ Len(l) \in 0 .. Len(l)
    BY <2>2, <2>7
  <2>10. SubSeq(l, 1, k - 1) \in Seq(E) /\ SubSeq(l, k + 1, Len(l)) \in Seq(E)
    BY <2>9, SubSeqProperties
  <2> QED BY <2>8, <2>10, ConcatProperties
<1> QED BY <1>1, <1>2

LEMMA OthersIn ==
    ASSUME NEW E, NEW l \in Seq(E), NEW key
    PROVE  Others(l, key) \in Seq(E)
BY RemovedIn DEF Others

LEMMA PutIn ==
    ASSUME NEW E, NEW l \in Seq(E), NEW key, NEW v,
           Copyable(v) => [key |-> key, value |-> v] \in E
    PROVE  LruPut(l, key, v) \in Seq(E)
<1>1. CASE ~Copyable(v)
  BY <1>1 DEF LruPut
<1>2. CASE Copyable(v)
  <2>1. PICK put : put = Append(Others(l, key), [key |-> key, value |-> v])
    OBVIOUS
  <2>2. put \in Seq(E) /\ Len(put) \in Nat
    BY <1>2, <2>1, OthersIn, AppendProperties
  <2>3. PICK k : k = IF Len(put) > LruEntries THEN Len(put) - LruEntries + 1 ELSE 1
    OBVIOUS
  <2>4. k \in 1 .. Len(put) + 1 /\ Len(put) \in 0 .. Len(put)
    <3>1. LruEntries \in Nat
      BY StoreAssumption DEF StoreAssumption
    <3>2. \A n, m \in Nat : n > m => n - m + 1 \in 1 .. n + 1
      OBVIOUS
    <3>3. 1 \in 1 .. Len(put) + 1
      BY <2>2
    <3> QED BY <2>2, <2>3, <3>1, <3>2, <3>3
  <2>5. SubSeq(put, k, Len(put)) \in Seq(E)
    BY <2>2, <2>4, SubSeqProperties
  <2>6. LruPut(l, key, v) = SubSeq(put, k, Len(put))
    BY <1>2, <2>1, <2>3 DEF LruPut
  <2> QED BY <2>5, <2>6
<1> QED BY <1>1, <1>2

LEMMA GetIn ==
    ASSUME NEW E, NEW l \in Seq(E), NEW key, NEW copied
    PROVE  LruGet(l, key, copied) \in Seq(E)
<1>1. CASE ~Has(l, key)
  BY <1>1 DEF LruGet
<1>2. CASE Has(l, key)
  <2>1. Others(l, key) \in Seq(E) /\ <<Entry(l, key)>> \in Seq(E) /\ << >> \in Seq(E)
    BY <1>2, OthersIn, EntryIn
  <2>2. /\ Others(l, key) \o <<Entry(l, key)>> \in Seq(E)
        /\ Others(l, key) \o << >> \in Seq(E)
    BY <2>1, ConcatProperties
  <2> QED BY <1>2, <2>2 DEF LruGet
<1> QED BY <1>1, <1>2

-----------------------------------------------------------------------------
(***************************************************************************)
(* The two folds: looking up the sources of a parameter, and caching what  *)
(* was read of them.                                                       *)
(***************************************************************************)
Queued == Thread("queued", None)

\* The fold's state after the first k sources.
LookedUp(f, k, src, frame, E) ==
    /\ f \in [lru : Seq(E), threads : Seq(ThreadSet)]
    /\ Len(f.threads) = k
    /\ \A i \in 1 .. k :
         \/ f.threads[i] = Queued
         \/ \E e \in E : e.key = Key(src[i], frame) /\ f.threads[i] = Thread("hot", e.value)

LEMMA ThreadsTyped ==
    /\ Queued \in ThreadSet
    /\ \A v \in ValueSet : Thread("hot", v) \in ThreadSet /\ Thread("done", v) \in ThreadSet
    /\ Thread("fetch", None) \in ThreadSet /\ Thread("failed", None) \in ThreadSet
BY NoFileTyped, StoreAssumption DEF Queued, Thread, ThreadSet, NoTemp, StoreAssumption

LEMMA LookUpKeeps ==
    ASSUME NEW E \in SUBSET EntrySet, NEW frame, NEW copied, NEW f, NEW k \in Nat, NEW src,
           LookedUp(f, k, src, frame, E)
    PROVE  LookedUp(LookUp(frame, copied, f, src[k + 1]), k + 1, src, frame, E)
<1> DEFINE key == Key(src[k + 1], frame)
           hit == Has(f.lru, key) /\ copied /\ Entry(f.lru, key).value # None
           new == IF hit THEN Thread("hot", Entry(f.lru, key).value) ELSE Queued
<1>1. f.lru \in Seq(E) /\ f.threads \in Seq(ThreadSet) /\ Len(f.threads) = k
  BY DEF LookedUp
<1>2. \/ new = Queued
      \/ \E e \in E : e.key = key /\ new = Thread("hot", e.value)
  BY <1>1, EntryIn
<1>3. new \in ThreadSet
  <2>1. \A e \in E : e.value \in ValueSet
    BY DEF EntrySet
  <2> QED BY <1>2, <2>1, ThreadsTyped
<1>4. LookUp(frame, copied, f, src[k + 1]) =
        [lru |-> LruGet(f.lru, key, copied), threads |-> Append(f.threads, new)]
  BY DEF LookUp, Queued
<1>5. LruGet(f.lru, key, copied) \in Seq(E)
  BY <1>1, GetIn
<1> HIDE DEF new, hit
<1>6. PICK t : t = Append(f.threads, new)
  OBVIOUS
<1>7. /\ t \in Seq(ThreadSet) /\ Len(t) = k + 1 /\ t[k + 1] = new
      /\ \A i \in 1 .. k : t[i] = f.threads[i]
  BY <1>1, <1>3, <1>6, AppendProperties
<1>8. ASSUME NEW i \in 1 .. k + 1
      PROVE  \/ t[i] = Queued
             \/ \E e \in E : e.key = Key(src[i], frame) /\ t[i] = Thread("hot", e.value)
  <2>1. CASE i = k + 1
    BY <1>2, <1>7, <2>1
  <2>2. CASE i \in 1 .. k
    BY <1>7, <2>2 DEF LookedUp
  <2> QED BY <2>1, <2>2
<1>9. PICK f1 : f1 = [lru |-> LruGet(f.lru, key, copied), threads |-> t]
  OBVIOUS
<1>10. LookedUp(f1, k + 1, src, frame, E)
  BY <1>5, <1>7, <1>8, <1>9 DEF LookedUp
<1> QED BY <1>4, <1>6, <1>9, <1>10

LookUpEach(w, copied, base, src) ==
    FoldLeft(LAMBDA f, s : LookUp(FrameOf(w), copied, f, s), base, src)

LookUpIn(w, copied, D, m, src) ==
    \A f \in D, i \in 1 .. m : LookUp(FrameOf(w), copied, f, src[i]) \in D

LookedUpBy(h, w, copied, base, m, src) ==
    /\ h[0] = base /\ LookUpEach(w, copied, base, src) = h[m]
    /\ \A k \in 1 .. m : h[k] = LookUp(FrameOf(w), copied, h[k - 1], src[k])

LEMMA LookUpFold ==
    ASSUME NEW w, NEW copied, NEW D, NEW m \in Nat, NEW src, DOMAIN src = 1 .. m,
           NEW base \in D, LookUpIn(w, copied, D, m, src)
    PROVE  \E h : LookedUpBy(h, w, copied, base, m, src)
<1> DEFINE F == [p \in D \X (1 .. m) |-> LookUp(FrameOf(w), copied, p[1], src[p[2]])]
<1>1. F \in [D \X (1 .. m) -> D]
  BY DEF LookUpIn
<1>2. PICK g \in [SUBSET (1 .. m) -> D] : Folds(g, F, base, m)
  BY <1>1, FoldExists
<1>4. g = [s \in SUBSET (DOMAIN src) |->
             IF s = {} THEN base
             ELSE LET x == Max(s) IN LookUp(FrameOf(w), copied, g[s \ {x}], src[x])]
  <2>1. ASSUME NEW s \in SUBSET (1 .. m), s # {}
        PROVE  g[s] = LookUp(FrameOf(w), copied, g[s \ {Max(s)}], src[Max(s)])
    <3>1. PICK x : x = Max(s)
      OBVIOUS
    <3>2. x \in 1 .. m
      BY <2>1, <3>1, Greatest
    <3>3. g[s \ {x}] \in D /\ g[s] = F[<<g[s \ {x}], x>>]
      BY <1>2, <2>1, <3>1 DEF Folds
    <3> QED BY <3>1, <3>2, <3>3
  <2>2. \A s \in SUBSET (1 .. m) : s = {} => g[s] = base
    BY <1>2 DEF Folds
  <2> QED BY <2>1, <2>2
<1> HIDE DEF F
<1>5. PICK it :
        /\ it = [s \in SUBSET (DOMAIN src) |->
                   IF s = {} THEN base
                   ELSE LET x == Max(s) IN LookUp(FrameOf(w), copied, it[s \ {x}], src[x])]
        /\ LookUpEach(w, copied, base, src) = it[DOMAIN src]
  BY <1>4 DEF FoldLeft, MapThenFoldSet, LookUpEach
<1>6. ASSUME NEW k \in 1 .. m
      PROVE  it[1 .. k] = LookUp(FrameOf(w), copied, it[1 .. k - 1], src[k])
  <2>1. /\ 1 .. k \in SUBSET (DOMAIN src) /\ 1 .. k # {}
        /\ Max(1 .. k) = k /\ (1 .. k) \ {k} = 1 .. k - 1
    BY UpTo
  <2> QED BY <1>5, <2>1
<1>7. it[1 .. 0] = base
  <2>1. 1 .. 0 = {} /\ 1 .. 0 \in SUBSET (DOMAIN src)
    OBVIOUS
  <2> QED BY <1>5, <2>1
<1>8. PICK h : h = [k \in 0 .. m |-> it[1 .. k]]
  OBVIOUS
<1>9. /\ h[0] = base /\ h[m] = it[1 .. m]
      /\ \A k \in 1 .. m : h[k] = it[1 .. k] /\ h[k - 1] = it[1 .. k - 1]
  BY <1>7, <1>8
<1>10. LookUpEach(w, copied, base, src) = h[m]
  BY <1>5, <1>9
<1>11. \A k \in 1 .. m : h[k] = LookUp(FrameOf(w), copied, h[k - 1], src[k])
  BY <1>6, <1>9
<1> QED BY <1>9, <1>10, <1>11 DEF LookedUpBy

\* Induction, by the least counterexample.
LEMMA Inductive ==
    ASSUME NEW P, NEW m \in Nat, 0 \in P, \A k \in 0 .. m - 1 : k \in P => k + 1 \in P
    PROVE  m \in P
<1> SUFFICES ASSUME m \notin P PROVE FALSE
  OBVIOUS
<1>1. PICK T : T = (0 .. m) \ P
  OBVIOUS
<1>2. T \in SUBSET Nat /\ T # {}
  BY <1>1
<1>3. PICK k \in T : \A j \in T : k <= j
  BY <1>2, LeastNat
<1>4. k \in 1 .. m /\ k \notin P
  BY <1>1
<1>5. k - 1 \in 0 .. m /\ k - 1 \in 0 .. m - 1 /\ (k - 1) + 1 = k /\ ~(k <= k - 1)
  BY <1>4
<1> QED BY <1>1, <1>3, <1>4, <1>5

LEMMA LookUpAllKeeps ==
    ASSUME NEW E \in SUBSET EntrySet, NEW w, NEW copied, NEW lru \in Seq(E),
           NEW src \in Seq(Steps)
    PROVE  LookedUp(LookUpEach(w, copied, [lru |-> lru, threads |-> << >>], src),
                    Len(src), src, FrameOf(w), E)
<1>1. PICK m \in Nat : m = Len(src) /\ DOMAIN src = 1 .. m
  BY LenProperties
<1>2. PICK base : base = [lru |-> lru, threads |-> << >>]
  OBVIOUS
<1>3. PICK D : D = [lru : Seq(E), threads : Seq(ThreadSet)]
  OBVIOUS
<1>4. base \in D /\ LookedUp(base, 0, src, FrameOf(w), E)
  BY <1>2, <1>3 DEF LookedUp
<1>5. ASSUME NEW f \in D, NEW i \in 1 .. m PROVE LookUp(FrameOf(w), copied, f, src[i]) \in D
  <2> DEFINE key == Key(src[i], FrameOf(w))
  <2>1. f.lru \in Seq(E) /\ f.threads \in Seq(ThreadSet)
    BY <1>3
  <2>2. Queued \in ThreadSet
    BY ThreadsTyped
  <2>3. Has(f.lru, key) => Thread("hot", Entry(f.lru, key).value) \in ThreadSet
    BY <2>1, EntryIn, ThreadsTyped DEF EntrySet
  <2>4. LruGet(f.lru, key, copied) \in Seq(E)
    BY <2>1, GetIn
  <2> QED BY <1>3, <2>1, <2>2, <2>3, <2>4 DEF LookUp, Queued
<1>6. PICK h : LookedUpBy(h, w, copied, base, m, src)
  <2>1. LookUpIn(w, copied, D, m, src)
    BY <1>5 DEF LookUpIn
  <2> QED BY <1>1, <1>4, <2>1, LookUpFold
<1>7. PICK P : P = { k \in 0 .. m : LookedUp(h[k], k, src, FrameOf(w), E) }
  OBVIOUS
<1>8. 0 \in P
  BY <1>4, <1>6, <1>7 DEF LookedUpBy
<1>9. ASSUME NEW k \in 0 .. m - 1, k \in P PROVE k + 1 \in P
  <2>1. k \in Nat /\ k + 1 \in 1 .. m /\ k + 1 \in 0 .. m /\ (k + 1) - 1 = k
    BY <1>9
  <2>2. h[k + 1] = LookUp(FrameOf(w), copied, h[k], src[k + 1])
    BY <1>6, <2>1 DEF LookedUpBy
  <2>3. LookedUp(h[k + 1], k + 1, src, FrameOf(w), E)
    BY <1>7, <1>9, <2>1, <2>2, LookUpKeeps
  <2> QED BY <1>7, <2>1, <2>3
<1>10. m \in P
  BY <1>8, <1>9, Inductive
<1> QED BY <1>1, <1>2, <1>6, <1>7, <1>10 DEF LookedUpBy

\* What was read is cached: the first n threads, or those before a failed one.
Worth(w, E, n) ==
    \A i \in 1 .. n :
        LET thread == worker[w].threads[i] IN
        thread.at = "done" =>
            [key |-> Key(Sources(w)[i], FrameOf(w)), value |-> thread.value] \in E

LEMMA CachedKeeps ==
    ASSUME NEW E, NEW w, NEW n \in Nat, NEW lru \in Seq(E), Worth(w, E, n)
    PROVE  CachedEach(w, lru, n) \in Seq(E)
<1>1. ASSUME NEW l \in Seq(E), NEW i \in 1 .. n PROVE Cached(w, l, i) \in Seq(E)
  BY PutIn DEF Cached, Worth
<1>2. PICK h : CachedBy(h, w, lru, n)
  <2>1. CachedIn(w, Seq(E), n)
    BY <1>1 DEF CachedIn
  <2> QED BY <2>1, CachedFold
<1>3. PICK P : P = { k \in 0 .. n : h[k] \in Seq(E) }
  OBVIOUS
<1>4. 0 \in P
  BY <1>2, <1>3 DEF CachedBy
<1>5. ASSUME NEW k \in 0 .. n - 1, k \in P PROVE k + 1 \in P
  <2>1. k + 1 \in 1 .. n /\ k + 1 \in 0 .. n /\ (k + 1) - 1 = k
    BY <1>5
  <2>2. h[k + 1] = Cached(w, h[k], k + 1)
    BY <1>2, <2>1 DEF CachedBy
  <2> QED BY <1>1, <1>3, <1>5, <2>1, <2>2
<1>6. n \in P
  BY <1>4, <1>5, Inductive
<1> QED BY <1>2, <1>3, <1>6 DEF CachedBy

-----------------------------------------------------------------------------
(***************************************************************************)
(* The inductive invariants.                                               *)
(***************************************************************************)
\* A temporary file has one holder.
OneHolder ==
    /\ \A v, w \in Workers : v # w => Held(v) \cap Held(w) \subseteq {NoTemp}
    /\ \A w \in Workers : \A i, j \in DOMAIN worker[w].threads :
         i # j /\ worker[w].threads[i].temp = worker[w].threads[j].temp =>
             worker[w].threads[i].temp = NoTemp

FilesInv == Typed /\ OneHolder

\* What a filled temporary file holds, unless it was swept.
Holds(ts, t, file) == ts[t].in = "none" \/ ts[t].file = file

Filled(ts, x) ==
    x.at \in {"finalize", "unlink"} =>
        Holds(ts, x.temp, Written(x.result, Head(x.writes).fmt))

\* The sources a worker reads.
Source(x, i) == Params[x.step][Len(x.given) + 1][i]

ReadRight(st, ts, x) ==
    \A i \in DOMAIN x.threads :
        LET thread == x.threads[i]
            u      == Source(x, i)
        IN  /\ thread.at \in {"hot", "done"} => thread.value = ReadBack(Content(u), Frame[x.step])
            /\ thread.at = "fetch" => st[Artifact(u)] = Content(u)
            /\ thread.at = "fetched" => Holds(ts, thread.temp, Content(u))

GivenRight(x) ==
    \A i \in DOMAIN x.given :
        /\ DOMAIN x.given[i] = DOMAIN Params[x.step][i]
        /\ \A j \in DOMAIN x.given[i] :
             x.given[i][j].value = ReadBack(Content(Params[x.step][i][j]), Frame[x.step])

\* Some step reads s under a frame type.
ReadAs(s, frame) ==
    \E u \in Steps : \E i \in DOMAIN Params[u] : \E j \in DOMAIN Params[u][i] :
        Params[u][i][j] = s /\ Frame[u] = frame

\* Entries that say what the store says to those who look them up.
TrueEntries ==
    { e \in EntrySet : ReadAs(e.key.path, e.key.frame) =>
                         e.value = ReadBack(Content(e.key.path), e.key.frame) }

\* A worker has right what it reads, was given, keeps and writes.
Right(st, ts, x) ==
    Filled(ts, x) /\ ReadRight(st, ts, x) /\ GivenRight(x) /\ x.lru \in Seq(TrueEntries)

Whole(st) == \A s \in Steps : st[Artifact(s)] \in {NoFile, Content(s)}

CacheInv == Whole(store) /\ \A w \in Workers : Right(store, temps, worker[w])

Stored(st, s) == st[Artifact(s)] = Content(s)
SinkStored(st, s, i) == st[Dest(s, i)] = Written(Out(s), st[Dest(s, i)].fmt)

\* What a worker has written is in the store.
Delivered(st, x) ==
    x.at \in {"write", "fill", "finalize", "unlink", "report"} =>
        /\ x.outcome # << >> \/ x.at = "unlink" => Stored(st, x.step)
        /\ \A i \in DOMAIN x.outcome :
             i > 1 /\ x.outcome[i] = "ok" => SinkStored(st, x.step, i - 1)
        /\ x.at = "unlink" /\ x.outcome # << >> => SinkStored(st, x.step, Len(x.outcome))

\* What was reported is in the store.
Told(st, r) ==
    /\ r.step \in Steps /\ Stored(st, r.step) /\ r.fmt = Content(r.step).fmt
    /\ r.step \in Sensors => r.hashOf = Content(r.step)
    /\ DOMAIN r.sinks = DOMAIN Sinks[r.step]
    /\ \A i \in DOMAIN r.sinks : r.sinks[i] = "ok" => SinkStored(st, r.step, i)

WrittenInv ==
    /\ Whole(store)
    /\ \A w \in Workers : Filled(temps, worker[w]) /\ Delivered(store, worker[w])
    /\ \A r \in reports : Told(store, r)

\* No two steps have a sink in common (premise).
OwnSinks ==
    \A s, u \in Steps : \A i \in DOMAIN Sinks[s], j \in DOMAIN Sinks[u] :
        Sinks[s][i].path = Sinks[u][j].path => s = u

\* A result that is read as "pandas" is read back as it was (premise).
ReadAlike ==
    \A s \in Steps :
        ReadAs(s, "pandas") /\ Copyable(Out(s)) => Out(s) = ReadBack(Content(s), "pandas")

-----------------------------------------------------------------------------
(***************************************************************************)
(* A worker stays in shape.                                                *)
(***************************************************************************)
LEMMA Params1 ==
    ASSUME NEW s \in Steps
    PROVE  /\ Params[s] \in Seq(Seq(Steps)) /\ Len(Params[s]) \in Nat
           /\ \A i \in 1 .. Len(Params[s]) : Params[s][i] \in Seq(Steps)
<1>1. Params[s] \in Seq(Seq(Steps))
  BY StoreAssumption DEF StoreAssumption
<1> QED BY <1>1, LenProperties, ElementOfSeq

LEMMA Sizes ==
    /\ MaxTemps \in Nat /\ NoTemp \in 0 .. MaxTemps
    /\ Temps \subseteq 0 .. MaxTemps /\ NoTemp \notin Temps
BY StoreAssumption DEF StoreAssumption, NoTemp, Temps

LEMMA RestShaped ==
    ASSUME NEW l \in Seq(EntrySet)
    PROVE  Shaped(Gone) /\ Shaped(Idle(l))
<1>1. Gone \in WorkerSet /\ Idle(l) \in WorkerSet
  <2>1. PICK e : /\ e = << >> /\ e \in Seq(Seq(Argument)) /\ e \in Seq(ThreadSet)
                 /\ e \in Seq(EntrySet) /\ e \in Seq(WriteSet) /\ e \in Seq({"ok", "error"})
    BY EmptySeq
  <2>2. Gone = [at |-> "down", step |-> "none", given |-> e, threads |-> e, lru |-> e,
                result |-> None, writes |-> e, temp |-> NoTemp, outcome |-> e]
    BY <2>1 DEF Gone
  <2>3. Gone \in WorkerSet
    BY <2>1, <2>2, NoFileTyped, Sizes DEF WorkerSet, Places
  <2> QED BY <2>3 DEF Idle, WorkerSet, Places
<1>2. /\ Gone.at = "down" /\ Gone.threads = << >> /\ Gone.outcome = << >> /\ Gone.temp = NoTemp
      /\ Idle(l).at = "idle" /\ Idle(l).threads = << >> /\ Idle(l).outcome = << >> /\ Idle(l).temp = NoTemp
  BY DEF Gone, Idle
<1> QED BY <1>1, <1>2 DEF Shaped, ReadsInTurn, WritesInTurn

LEMMA ExecuteShaped ==
    ASSUME NEW x, Shaped(x), NEW s \in Steps
    PROVE  Shaped([Idle(x.lru) EXCEPT !.at = "read", !.step = s])
<1>1. PICK y : y = [Idle(x.lru) EXCEPT !.at = "read", !.step = s]
  OBVIOUS
<1>2. x.lru \in Seq(EntrySet)
  BY DEF Shaped, WorkerSet
<1>3. Idle(x.lru) \in WorkerSet /\ Idle(x.lru).threads = << >> /\ Idle(x.lru).outcome = << >>
      /\ Idle(x.lru).temp = NoTemp /\ Idle(x.lru).given = << >>
  BY <1>2, RestShaped DEF Shaped, Gone, Idle
<1>4. /\ y \in WorkerSet /\ y.at = "read" /\ y.step = s /\ y.threads = << >> /\ y.given = << >>
      /\ y.outcome = << >> /\ y.temp = NoTemp
  BY <1>1, <1>3 DEF WorkerSet, Places
<1>5. Len(y.given) <= Len(Params[y.step])
  BY <1>4, Params1
<1> QED BY <1>1, <1>4, <1>5 DEF Shaped, ReadsInTurn, WritesInTurn

LEMMA LookUpShaped ==
    ASSUME NEW x, Shaped(x), x.at = "read", Len(x.given) < Len(Params[x.step]),
           NEW l \in Seq(EntrySet), NEW t \in Seq(ThreadSet),
           Len(t) = Len(Params[x.step][Len(x.given) + 1]),
           \A i \in DOMAIN t : t[i].temp = NoTemp /\ t[i].at \notin {"fetch", "fetched"}
    PROVE  Shaped([x EXCEPT !.lru = l, !.threads = t])
<1>1. PICK y : y = [x EXCEPT !.lru = l, !.threads = t]
  OBVIOUS
<1>2. /\ y \in WorkerSet /\ y.threads = t
      /\ y.at = x.at /\ y.step = x.step /\ y.given = x.given /\ y.outcome = x.outcome
      /\ y.temp = x.temp /\ y.writes = x.writes /\ y.result = x.result
  BY <1>1 DEF Shaped, WorkerSet
<1> QED BY <1>1, <1>2 DEF Shaped, ReadsInTurn, WritesInTurn

LEMMA ThreadShaped ==
    ASSUME NEW x, Shaped(x), x.at = "read", NEW i \in DOMAIN x.threads, NEW th \in ThreadSet,
           th.temp # NoTemp <=> th.at \in {"fetch", "fetched"}
    PROVE  Shaped([x EXCEPT !.threads[i] = th])
<1>1. PICK t : t = [x.threads EXCEPT ![i] = th]
  OBVIOUS
<1>2. x.threads \in Seq(ThreadSet) /\ x.threads # << >> /\ i \in 1 .. Len(x.threads)
  BY LenProperties DEF Shaped, WorkerSet
<1>3. /\ t \in Seq(ThreadSet) /\ Len(t) = Len(x.threads) /\ DOMAIN t = DOMAIN x.threads
      /\ \A j \in DOMAIN x.threads : t[j] = IF j = i THEN th ELSE x.threads[j]
  BY <1>1, <1>2, ExceptSeq
<1>4. PICK y : y = [x EXCEPT !.threads = t]
  OBVIOUS
<1>5. /\ y \in WorkerSet /\ y.threads = t
      /\ y.at = x.at /\ y.step = x.step /\ y.given = x.given /\ y.outcome = x.outcome
      /\ y.temp = x.temp /\ y.writes = x.writes /\ y.result = x.result
  BY <1>3, <1>4 DEF Shaped, WorkerSet
<1>6. ReadsInTurn(y)
  BY <1>2, <1>3, <1>5 DEF Shaped, ReadsInTurn
<1>7. Shaped(y)
  BY <1>5, <1>6 DEF Shaped, WritesInTurn
<1>8. [x EXCEPT !.threads[i] = th] = y
  BY <1>1, <1>4
<1> QED BY <1>7, <1>8

LEMMA GivenShaped ==
    ASSUME NEW x, Shaped(x), x.at = "read", Len(x.given) < Len(Params[x.step]),
           NEW l \in Seq(EntrySet), NEW a \in Seq(Argument)
    PROVE  /\ Shaped([Idle(l) EXCEPT !.at = "error", !.step = x.step])
           /\ Shaped([x EXCEPT !.lru = l, !.threads = << >>, !.given = Append(@, a)])
<1>1. PICK y : y = [Idle(l) EXCEPT !.at = "error", !.step = x.step]
  OBVIOUS
<1>2. x \in WorkerSet /\ x.step \in Steps
  BY DEF Shaped
<1>3. Idle(l) \in WorkerSet /\ Idle(l).threads = << >> /\ Idle(l).temp = NoTemp
  BY RestShaped DEF Shaped, Gone, Idle
<1>4. y \in WorkerSet /\ y.at = "error" /\ y.threads = << >> /\ y.temp = NoTemp
  BY <1>1, <1>2, <1>3 DEF WorkerSet, Places
<1>5. Shaped(y)
  BY <1>4 DEF Shaped, ReadsInTurn, WritesInTurn
<1>6. PICK g : g = Append(x.given, a)
  OBVIOUS
<1>7. g \in Seq(Seq(Argument)) /\ Len(g) = Len(x.given) + 1 /\ Len(x.given) \in Nat
  BY <1>2, <1>6, AppendProperties DEF WorkerSet
<1>8. Len(g) <= Len(Params[x.step])
  BY <1>2, <1>7, Params1
<1>9. PICK z, e : z = [x EXCEPT !.lru = l, !.threads = e, !.given = g] /\ e = << >> /\ e \in Seq(ThreadSet)
  BY EmptySeq
<1>10. /\ z \in WorkerSet /\ z.threads = << >> /\ z.given = g
       /\ z.at = x.at /\ z.step = x.step /\ z.outcome = x.outcome
       /\ z.temp = x.temp /\ z.writes = x.writes /\ z.result = x.result
  BY <1>2, <1>7, <1>9 DEF WorkerSet
<1>11. Shaped(z)
  BY <1>8, <1>10 DEF Shaped, ReadsInTurn, WritesInTurn
<1>12. z = [x EXCEPT !.lru = l, !.threads = << >>, !.given = Append(@, a)]
  BY <1>6, <1>9
<1> QED BY <1>1, <1>5, <1>11, <1>12

LEMMA ReturnsShaped ==
    ASSUME NEW x, Shaped(x), x.at = "read", Len(x.given) = Len(Params[x.step]),
           NEW l \in Seq(EntrySet)
    PROVE  /\ Shaped([x EXCEPT !.at = "error"])
           /\ Shaped([x EXCEPT !.at = "write", !.given = << >>, !.result = Out(x.step),
                         !.writes = Writes(x.step, Out(x.step)), !.lru = l])
<1>1. x \in WorkerSet /\ x.step \in Steps /\ ReadsInTurn(x) /\ WritesInTurn(x)
  BY DEF Shaped
<1>2. x.threads = << >> /\ x.outcome = << >> /\ x.temp = NoTemp
  <2>1. Len(x.given) \in Nat
    BY <1>1, LenProperties DEF WorkerSet
  <2> QED BY <1>1, <2>1 DEF ReadsInTurn, WritesInTurn
<1>3. Shaped([x EXCEPT !.at = "error"])
  <2>1. PICK y : y = [x EXCEPT !.at = "error"]
    OBVIOUS
  <2>2. y \in WorkerSet /\ y.at = "error" /\ y.threads = << >> /\ y.temp = NoTemp
    BY <1>1, <1>2, <2>1 DEF WorkerSet, Places
  <2> QED BY <2>1, <2>2 DEF Shaped, ReadsInTurn, WritesInTurn
<1>4. PICK todo : todo = Writes(x.step, Out(x.step))
  OBVIOUS
<1>5. todo \in Seq(WriteSet) /\ Len(todo) \in Nat /\ todo # << >>
  <2>1. todo \in Seq(WriteSet) /\ Len(todo) = 1 + Len(Sinks[x.step]) /\ Len(Sinks[x.step]) \in Nat
    BY <1>1, <1>4, WritesAre, SinksAre
  <2>2. \A n \in Nat : 1 + n \in Nat /\ 1 + n # 0
    OBVIOUS
  <2> QED BY <2>1, <2>2, EmptySeq
<1>6. PICK y, e : /\ y = [x EXCEPT !.at = "write", !.given = e, !.result = Out(x.step),
                            !.writes = todo, !.lru = l]
                  /\ e = << >> /\ e \in Seq(Seq(Argument))
  BY EmptySeq
<1>7. /\ y \in WorkerSet /\ y.at = "write" /\ y.step = x.step /\ y.threads = << >>
      /\ y.outcome = << >> /\ y.temp = NoTemp /\ y.result = Out(x.step) /\ y.writes = todo
  BY <1>1, <1>2, <1>5, <1>6, OutTyped DEF WorkerSet, Places
<1>8. WritesInTurn(y)
  <2>1. Len(y.outcome) = 0
    BY <1>7
  <2>2. 0 + Len(todo) = Len(todo) /\ \A j \in DOMAIN todo : 0 + j = j
    BY <1>5, LenProperties
  <2> QED BY <1>4, <1>5, <1>7, <2>1, <2>2 DEF WritesInTurn
<1>9. Shaped(y)
  BY <1>1, <1>7, <1>8 DEF Shaped, ReadsInTurn
<1> QED BY <1>3, <1>4, <1>6, <1>9

LEMMA TempShaped ==
    ASSUME NEW x, Shaped(x), x.at = "write", NEW t \in Temps
    PROVE  Shaped([x EXCEPT !.at = "fill", !.temp = t])
<1>1. PICK y : y = [x EXCEPT !.at = "fill", !.temp = t]
  OBVIOUS
<1>2. /\ y \in WorkerSet /\ y.at = "fill" /\ y.temp = t /\ t # NoTemp
      /\ y.threads = x.threads /\ y.step = x.step /\ y.given = x.given /\ y.outcome = x.outcome
      /\ y.writes = x.writes /\ y.result = x.result
  BY <1>1, Sizes DEF Shaped, WorkerSet, Places
<1>3. ReadsInTurn(y)
  BY <1>2 DEF Shaped, ReadsInTurn
<1>4. WritesInTurn(y)
  BY <1>2 DEF Shaped, WritesInTurn
<1>5. x.step \in Steps
  BY DEF Shaped
<1> QED BY <1>1, <1>2, <1>3, <1>4, <1>5 DEF Shaped

LEMMA GoShaped ==
    ASSUME NEW x, Shaped(x), NEW place,
           \/ x.at = "fill" /\ place = "finalize"
           \/ x.at = "finalize" /\ place = "unlink"
           \/ x.at = "report" /\ place = "keep"
    PROVE  Shaped([x EXCEPT !.at = place])
<1>1. PICK y : y = [x EXCEPT !.at = place]
  OBVIOUS
<1>2. /\ y \in WorkerSet /\ y.at = place /\ y.temp = x.temp
      /\ y.threads = x.threads /\ y.step = x.step /\ y.given = x.given /\ y.outcome = x.outcome
      /\ y.writes = x.writes /\ y.result = x.result
  BY <1>1 DEF Shaped, WorkerSet, Places
<1>3. ReadsInTurn(y)
  BY <1>2 DEF Shaped, ReadsInTurn
<1>4. WritesInTurn(y)
  BY <1>2 DEF Shaped, WritesInTurn
<1>5. x.step \in Steps
  BY DEF Shaped
<1> QED BY <1>1, <1>2, <1>3, <1>4, <1>5 DEF Shaped

\* One write is over.
Over(x, o) ==
    [x EXCEPT
        !.at = IF o = "error" /\ x.outcome = << >> THEN "error"
               ELSE IF Len(x.writes) = 1 THEN "report" ELSE "write",
        !.writes = Tail(@), !.temp = NoTemp, !.outcome = Append(@, o)]

LEMMA OverIs ==
    ASSUME NEW x, Shaped(x), x.at \in {"fill", "finalize", "unlink"}, NEW o \in {"ok", "error"}
    PROVE  /\ Over(x, o) \in WorkerSet
           /\ Over(x, o).at = IF o = "error" /\ x.outcome = << >> THEN "error"
                              ELSE IF Len(x.writes) = 1 THEN "report" ELSE "write"
           /\ Over(x, o).writes = Tail(x.writes) /\ Over(x, o).temp = NoTemp
           /\ Over(x, o).outcome = Append(x.outcome, o) /\ Over(x, o).threads = << >>
           /\ Over(x, o).step = x.step /\ Over(x, o).result = x.result
           /\ Over(x, o).given = x.given /\ Over(x, o).lru = x.lru
           /\ x.step \in Steps /\ x.result = Out(x.step)
           /\ x.writes \in Seq(WriteSet) /\ x.writes # << >>
           /\ x.outcome \in Seq({"ok", "error"})
<1>1. /\ x \in WorkerSet /\ x.step \in Steps /\ x.result = Out(x.step) /\ x.threads = << >>
      /\ x.writes # << >>
  BY DEF Shaped, ReadsInTurn, WritesInTurn
<1>2. x.writes \in Seq(WriteSet) /\ x.outcome \in Seq({"ok", "error"})
  BY <1>1 DEF WorkerSet
<1>3. PICK t, a : /\ t = Tail(x.writes) /\ t \in Seq(WriteSet)
                  /\ a = Append(x.outcome, o) /\ a \in Seq({"ok", "error"})
  BY <1>1, <1>2, HeadTailProperties, AppendProperties
<1>4. PICK p \in Places : p = IF o = "error" /\ x.outcome = << >> THEN "error"
                    ELSE IF Len(x.writes) = 1 THEN "report" ELSE "write"
  BY DEF Places
<1>5. Over(x, o) = [x EXCEPT !.at = p, !.writes = t, !.temp = NoTemp, !.outcome = a]
  BY <1>3, <1>4 DEF Over
<1>6. PICK y : y = [x EXCEPT !.at = p, !.writes = t, !.temp = NoTemp, !.outcome = a]
  OBVIOUS
<1>7. /\ y \in WorkerSet /\ y.at = p /\ y.writes = t /\ y.temp = NoTemp /\ y.outcome = a
      /\ y.threads = x.threads /\ y.step = x.step /\ y.result = x.result
      /\ y.given = x.given /\ y.lru = x.lru
  BY <1>1, <1>3, <1>6, Sizes DEF WorkerSet
<1> QED BY <1>1, <1>2, <1>3, <1>4, <1>5, <1>6, <1>7

LEMMA OverShaped ==
    ASSUME NEW x, Shaped(x), x.at \in {"fill", "finalize", "unlink"}, NEW o \in {"ok", "error"}
    PROVE  Shaped(Over(x, o))
<1>1. PICK y : y = Over(x, o)
  OBVIOUS
<1>2. /\ y \in WorkerSet
      /\ y.at = IF o = "error" /\ x.outcome = << >> THEN "error"
                ELSE IF Len(x.writes) = 1 THEN "report" ELSE "write"
      /\ y.writes = Tail(x.writes) /\ y.temp = NoTemp
      /\ y.outcome = Append(x.outcome, o) /\ y.threads = << >>
      /\ y.step = x.step /\ y.result = x.result
      /\ x.step \in Steps /\ x.result = Out(x.step)
      /\ x.writes \in Seq(WriteSet) /\ x.writes # << >>
      /\ x.outcome \in Seq({"ok", "error"})
  BY <1>1, OverIs
<1>3. PICK todo : todo = Writes(x.step, Out(x.step))
  OBVIOUS
<1>4. /\ Len(x.outcome) + Len(x.writes) = Len(todo)
      /\ \A j \in DOMAIN x.writes : x.writes[j] = todo[Len(x.outcome) + j]
      /\ x.outcome # << >> => x.outcome[1] = "ok"
  BY <1>3 DEF Shaped, WritesInTurn
<1>5. PICK n, m \in Nat : n = Len(x.outcome) /\ m + 1 = Len(x.writes)
  <2>1. Len(x.outcome) \in Nat /\ Len(x.writes) \in Nat \ {0}
    BY <1>2, LenProperties, EmptySeq
  <2>2. \A k \in Nat \ {0} : k - 1 \in Nat /\ (k - 1) + 1 = k
    OBVIOUS
  <2> QED BY <2>1, <2>2
<1>6. /\ Len(y.writes) = m /\ DOMAIN y.writes = 1 .. m /\ y.writes \in Seq(WriteSet)
      /\ \A j \in 1 .. m : j + 1 \in DOMAIN x.writes /\ y.writes[j] = x.writes[j + 1]
  <2>1. /\ y.writes \in Seq(WriteSet) /\ Len(y.writes) = Len(x.writes) - 1
        /\ \A j \in 1 .. Len(y.writes) : y.writes[j] = x.writes[j + 1]
    BY <1>2, HeadTailProperties
  <2>2. Len(y.writes) = m
    BY <1>5, <2>1
  <2>3. DOMAIN y.writes = 1 .. m /\ DOMAIN x.writes = 1 .. m + 1
    BY <1>2, <1>5, <2>1, <2>2, LenProperties
  <2> QED BY <1>5, <2>1, <2>2, <2>3
<1>7. /\ Len(y.outcome) = n + 1 /\ y.outcome # << >>
      /\ n = 0 => y.outcome[1] = o
      /\ n # 0 => y.outcome[1] = x.outcome[1] /\ x.outcome # << >>
      /\ n = 0 <=> x.outcome = << >>
  <2>1. /\ Len(y.outcome) = n + 1 /\ \A j \in 1 .. n : y.outcome[j] = x.outcome[j]
        /\ y.outcome[n + 1] = o
    BY <1>2, <1>5, AppendProperties
  <2>2. n = 0 <=> x.outcome = << >>
    BY <1>2, <1>5, EmptySeq
  <2> QED BY <1>5, <2>1, <2>2
<1>8. y.at # "error" => y.outcome[1] = "ok"
  BY <1>2, <1>4, <1>7
<1>9. \A j \in 1 .. m : y.writes[j] = todo[(n + 1) + j]
  <2>1. \A j \in 1 .. m : n + (j + 1) = (n + 1) + j
    OBVIOUS
  <2> QED BY <1>4, <1>5, <1>6, <2>1
<1>10. (n + 1) + m = Len(todo)
  BY <1>4, <1>5
<1>11. y.at # "error" => (y.at = "report" <=> y.writes = << >>)
  <2>1. m = 0 <=> y.writes = << >>
    BY <1>6, EmptySeq
  <2>2. m = 0 <=> Len(x.writes) = 1
    <3>1. \A k \in Nat : k = 0 <=> k + 1 = 1
      OBVIOUS
    <3> QED BY <1>5, <3>1
  <2> QED BY <1>2, <2>1, <2>2
<1>12. WritesInTurn(y)
  BY <1>2, <1>3, <1>6, <1>7, <1>8, <1>9, <1>10, <1>11 DEF WritesInTurn
<1> QED BY <1>1, <1>2, <1>12 DEF Shaped, ReadsInTurn

-----------------------------------------------------------------------------
(***************************************************************************)
(* Every action leaves its worker in shape and its temporary files tidy.   *)
(***************************************************************************)
HeldBy(x) == {x.temp} \cup {x.threads[i].temp : i \in DOMAIN x.threads}

\* The files of others are at most swept, and those let go of are removed.
Tidy(w, y) ==
    /\ temps' \in [Temps -> TempSet]
    /\ \A t \in Temps : t \notin HeldBy(worker[w]) \cup FreeTemps =>
         temps'[t] = temps[t] \/ temps'[t].in = "none"
    /\ HeldBy(y) \subseteq HeldBy(worker[w]) \cup FreeTemps \cup {NoTemp}
    /\ y = Gone \/ \A t \in Temps : t \in HeldBy(worker[w]) \ HeldBy(y) => temps'[t].in = "none"
    /\ \A i, j \in DOMAIN y.threads :
         i # j /\ y.threads[i].temp = y.threads[j].temp => y.threads[i].temp = NoTemp

Turns(w, y) ==
    Set(w, y) /\ Shaped(y) /\ Tidy(w, y) /\ store' \in [Files -> FileSet] /\ UNCHANGED remote

LEMMA Turned ==
    ASSUME Typed, NEW w \in Workers, NEW y, Set(w, y)
    PROVE  /\ DOMAIN worker' = Workers /\ worker' = [v \in Workers |-> worker'[v]]
           /\ worker'[w] = y /\ \A v \in Workers \ {w} : worker'[v] = worker[v]
BY DEF Typed, Set

LEMMA HeldIs ==
    ASSUME NEW x, Shaped(x)
    PROVE  /\ x.at = "read" => x.temp = NoTemp
           /\ x.threads = << >> => HeldBy(x) = {x.temp}
           /\ x.at # "read" => HeldBy(x) = {x.temp}
           /\ x.at \notin {"fill", "finalize", "unlink"}
                /\ (\A i \in DOMAIN x.threads : x.threads[i].at \notin {"fetch", "fetched"}) =>
                HeldBy(x) = {NoTemp}
BY DEF Shaped, ReadsInTurn, WritesInTurn, HeldBy

LEMMA QuietTidy ==
    ASSUME Typed, NEW w \in Workers, NEW y, UNCHANGED temps, HeldBy(y) = {NoTemp},
           HeldBy(worker[w]) = {NoTemp} \/ y = Gone
    PROVE  Tidy(w, y)
BY DEF Tidy, HeldBy, Typed

LEMMA UnlinkedTyped ==
    ASSUME Typed, NEW ts
    PROVE  /\ Unlinked(ts) \in [Temps -> TempSet]
           /\ \A t \in Temps : /\ t \in ts => Unlinked(ts)[t].in = "none"
                               /\ t \notin ts => Unlinked(ts)[t] = temps[t]
BY NoFileTyped DEF Typed, Unlinked, TempSet

LEMMA RestTurns ==
    ASSUME Typed, NEW w \in Workers, StartWorker(w) \/ Leave(w) \/ Crash(w)
    PROVE  \E y : Turns(w, y)
<1>1. Shaped(worker[w]) /\ store' \in [Files -> FileSet] /\ UNCHANGED remote
  BY DEF Typed, StartWorker, Leave, Crash
<1>2. PICK e : e = << >> /\ e \in Seq(EntrySet)
  BY EmptySeq
<1>3. Shaped(Gone) /\ Shaped(Idle(<< >>))
  BY <1>2, RestShaped
<1>4. HeldBy(Gone) = {NoTemp} /\ HeldBy(Idle(<< >>)) = {NoTemp}
  BY <1>3, HeldIs DEF Gone, Idle
<1>5. CASE StartWorker(w)
  <2>1. Set(w, Idle(<< >>)) /\ worker[w].at = "down"
    BY <1>5 DEF StartWorker
  <2>2. HeldBy(worker[w]) = {NoTemp}
    <3>1. worker[w].temp = NoTemp
      BY <1>1, <2>1 DEF Shaped, WritesInTurn
    <3> QED BY <1>1, <2>1, <3>1, HeldIs
  <2>3. PICK ts : ts = { t \in Temps : temps[t].in = "staging" }
    OBVIOUS
  <2>4. temps' = Unlinked(ts)
    BY <1>5, <2>3 DEF StartWorker
  <2>5. /\ temps' \in [Temps -> TempSet]
        /\ \A t \in Temps : temps'[t] = temps[t] \/ temps'[t].in = "none"
    BY <2>4, UnlinkedTyped
  <2>6. Idle(<< >>).threads = << >>
    BY DEF Idle, Gone
  <2>7. Tidy(w, Idle(<< >>))
    BY <1>4, <2>2, <2>5, <2>6 DEF Tidy
  <2> QED BY <1>1, <1>3, <2>1, <2>7 DEF Turns
<1>6. CASE Leave(w) \/ Crash(w)
  <2>1. Set(w, Gone) /\ UNCHANGED temps
    BY <1>6 DEF Leave, Crash
  <2>2. Tidy(w, Gone)
    BY <1>4, <2>1, QuietTidy
  <2> QED BY <1>1, <1>3, <2>1, <2>2 DEF Turns
<1> QED BY <1>5, <1>6

LEMMA EndTurns ==
    ASSUME Typed, NEW w \in Workers, Report(w) \/ Keep(w) \/ Raises(w) \/ \E s \in Steps : Execute(w, s)
    PROVE  \E y : Turns(w, y)
<1>1. /\ Shaped(worker[w]) /\ store' \in [Files -> FileSet] /\ UNCHANGED remote /\ UNCHANGED temps
      /\ worker[w] \in WorkerSet
  BY DEF Typed, Report, Keep, Raises, Execute, Shaped
<1>2. ASSUME NEW y, Set(w, y), Shaped(y), worker[w].threads = << >>, y.threads = << >>,
             worker[w].at \notin {"fill", "finalize", "unlink"}, y.at \notin {"fill", "finalize", "unlink"}
      PROVE  Turns(w, y)
  <2>1. HeldBy(worker[w]) = {NoTemp} /\ HeldBy(y) = {NoTemp}
    BY <1>1, <1>2, HeldIs
  <2> QED BY <1>1, <1>2, <2>1, QuietTidy DEF Turns
<1>3. CASE Report(w)
  <2>1. PICK y : y = [worker[w] EXCEPT !.at = "keep"]
    OBVIOUS
  <2>2. Set(w, y) /\ worker[w].at = "report"
    BY <1>3, <2>1 DEF Report, Go
  <2>3. Shaped(y)
    BY <1>1, <2>1, <2>2, GoShaped
  <2>4. y.threads = worker[w].threads /\ worker[w].threads = << >> /\ y.at = "keep"
    BY <1>1, <2>1, <2>2 DEF WorkerSet, Shaped, ReadsInTurn
  <2> QED BY <1>2, <2>2, <2>3, <2>4
<1>4. CASE Keep(w)
  <2>1. PICK s, l : /\ s = worker[w].step
                    /\ l = IF Cacheable(s) THEN LruPut(worker[w].lru, Key(s, "pandas"), worker[w].result)
                           ELSE worker[w].lru
    OBVIOUS
  <2>2. worker[w].at = "keep" /\ Set(w, Idle(l))
    BY <1>4, <2>1 DEF Keep
  <2>3. s \in Steps /\ worker[w].lru \in Seq(EntrySet) /\ worker[w].result \in ValueSet
    BY <1>1, <2>1, <2>2 DEF Shaped, WorkerSet
  <2>4. [key |-> Key(s, "pandas"), value |-> worker[w].result] \in EntrySet
    BY <2>3 DEF EntrySet, Key, Frames
  <2>5. l \in Seq(EntrySet)
    BY <2>1, <2>3, <2>4, PutIn
  <2>6. Shaped(Idle(l)) /\ Idle(l).threads = << >> /\ Idle(l).at = "idle" /\ worker[w].threads = << >>
    BY <1>1, <2>2, <2>5, RestShaped DEF Idle, Gone, Shaped, ReadsInTurn
  <2> QED BY <1>2, <2>2, <2>6
<1>5. CASE Raises(w)
  <2>1. PICK y : y = [worker[w] EXCEPT !.at = "error"]
    OBVIOUS
  <2>2. Set(w, y) /\ worker[w].at = "read" /\ Len(worker[w].given) = Len(Params[worker[w].step])
    BY <1>5, <2>1 DEF Raises, Go, AllGiven
  <2>3. worker[w].lru \in Seq(EntrySet) /\ worker[w].given \in Seq(Seq(Argument))
    BY <1>1 DEF WorkerSet
  <2>4. Shaped(y)
    BY <1>1, <2>1, <2>2, <2>3, ReturnsShaped
  <2>5. Len(worker[w].given) \in Nat
    BY <2>3, LenProperties
  <2>6. y.threads = worker[w].threads /\ worker[w].threads = << >> /\ y.at = "error"
    BY <1>1, <2>1, <2>2, <2>5 DEF WorkerSet, Shaped, ReadsInTurn
  <2> QED BY <1>2, <2>2, <2>4, <2>6
<1>6. CASE \E s \in Steps : Execute(w, s)
  <2>1. PICK s \in Steps : Execute(w, s)
    BY <1>6
  <2>2. PICK y : y = [Idle(worker[w].lru) EXCEPT !.at = "read", !.step = s]
    OBVIOUS
  <2>3. Set(w, y) /\ worker[w].at = "idle"
    BY <2>1, <2>2 DEF Execute
  <2>4. Shaped(y)
    BY <1>1, <2>2, ExecuteShaped
  <2>5. Idle(worker[w].lru) = [Gone EXCEPT !.at = "idle", !.lru = worker[w].lru]
    BY DEF Idle
  <2>6. y.at = "read" /\ y.threads = << >>
    BY <2>2, <2>5 DEF Gone
  <2>7. worker[w].threads = << >>
    BY <1>1, <2>3 DEF Shaped, ReadsInTurn
  <2> QED BY <1>2, <2>3, <2>4, <2>6, <2>7
<1> QED BY <1>3, <1>4, <1>5, <1>6

\* The sources of the parameter that is read.
LEMMA SourcesAre ==
    ASSUME Typed, NEW w \in Workers, worker[w].at = "read",
           Len(worker[w].given) < Len(Params[worker[w].step])
    PROVE  /\ worker[w].step \in Steps /\ Sources(w) \in Seq(Steps) /\ Len(Sources(w)) \in Nat
           /\ FrameOf(w) = Frame[worker[w].step] /\ FrameOf(w) \in Frames
           /\ \A i : Sources(w)[i] = Source(worker[w], i)
           /\ \A i \in 1 .. Len(Sources(w)) : Sources(w)[i] \in Steps
<1>1. worker[w].step \in Steps /\ worker[w].given \in Seq(Seq(Argument))
  BY DEF Typed, Shaped, WorkerSet
<1>2. Len(worker[w].given) \in Nat /\ Len(Params[worker[w].step]) \in Nat
  BY <1>1, LenProperties, Params1
<1>3. \A n, m \in Nat : n < m => n + 1 \in 1 .. m
  OBVIOUS
<1>4. Len(worker[w].given) + 1 \in 1 .. Len(Params[worker[w].step])
  BY <1>2, <1>3
<1>5. Sources(w) \in Seq(Steps)
  BY <1>1, <1>4, Params1 DEF Sources
<1>6. Len(Sources(w)) \in Nat /\ \A i \in 1 .. Len(Sources(w)) : Sources(w)[i] \in Steps
  BY <1>5, LenProperties, ElementOfSeq
<1> QED BY <1>1, <1>5, <1>6 DEF FrameOf, Frames, Source, Sources

LEMMA SourcesRead ==
    ASSUME Typed, NEW w \in Workers, worker[w].at = "read",
           Len(worker[w].given) < Len(Params[worker[w].step]), NEW i \in 1 .. Len(Sources(w))
    PROVE  ReadAs(Sources(w)[i], FrameOf(w))
<1>1. PICK s, n : s = worker[w].step /\ n = Len(worker[w].given)
  OBVIOUS
<1>2. s \in Steps /\ worker[w].given \in Seq(Seq(Argument))
  BY <1>1 DEF Typed, Shaped, WorkerSet
<1>3. n \in Nat /\ Len(Params[s]) \in Nat /\ DOMAIN Params[s] = 1 .. Len(Params[s])
  BY <1>1, <1>2, LenProperties, Params1
<1>4. \A k, m \in Nat : k < m => k + 1 \in 1 .. m
  OBVIOUS
<1>5. n + 1 \in DOMAIN Params[s]
  BY <1>1, <1>3, <1>4
<1>6. Sources(w) = Params[s][n + 1] /\ i \in DOMAIN Params[s][n + 1]
  BY <1>1, SourcesAre, LenProperties DEF Sources
<1> QED BY <1>1, <1>2, <1>5, <1>6 DEF ReadAs, FrameOf

LEMMA ThreadsAre ==
    ASSUME Typed, NEW w \in Workers, NEW i \in DOMAIN worker[w].threads
    PROVE  /\ worker[w].at = "read" /\ Len(worker[w].given) < Len(Params[worker[w].step])
           /\ worker[w].threads \in Seq(ThreadSet) /\ worker[w].threads[i] \in ThreadSet
           /\ Len(worker[w].threads) = Len(Sources(w))
           /\ DOMAIN worker[w].threads = 1 .. Len(Sources(w))
           /\ Sources(w)[i] \in Steps /\ Sources(w)[i] = Source(worker[w], i)
           /\ worker[w].temp = NoTemp
           /\ worker[w].threads[i].temp # NoTemp <=> worker[w].threads[i].at \in {"fetch", "fetched"}
<1>1. Shaped(worker[w]) /\ worker[w].threads \in Seq(ThreadSet)
  BY DEF Typed, Shaped, WorkerSet
<1>2. worker[w].threads # << >>
  OBVIOUS
<1>3. /\ worker[w].at = "read" /\ Len(worker[w].given) < Len(Params[worker[w].step])
      /\ Len(worker[w].threads) = Len(Sources(w))
      /\ worker[w].temp = NoTemp
      /\ worker[w].threads[i].temp # NoTemp <=> worker[w].threads[i].at \in {"fetch", "fetched"}
  BY <1>1, <1>2 DEF Shaped, ReadsInTurn, WritesInTurn, Sources
<1>4. DOMAIN worker[w].threads = 1 .. Len(worker[w].threads) /\ worker[w].threads[i] \in ThreadSet
  BY <1>1, LenProperties, ElementOfSeq
<1>5. \A j : Sources(w)[j] = Source(worker[w], j)
  BY <1>3, SourcesAre
<1>6. \A j \in 1 .. Len(Sources(w)) : Sources(w)[j] \in Steps
  BY <1>3, SourcesAre
<1>7. i \in 1 .. Len(Sources(w)) /\ DOMAIN worker[w].threads = 1 .. Len(Sources(w))
  BY <1>3, <1>4
<1> QED BY <1>1, <1>3, <1>4, <1>5, <1>6, <1>7

LEMMA LookUpAllIs ==
    ASSUME Typed, NEW w \in Workers, NEW copied, LookUpAll(w, copied),
           NEW E \in SUBSET EntrySet, worker[w].lru \in Seq(E)
    PROVE  \E f : /\ LookedUp(f, Len(Sources(w)), Sources(w), FrameOf(w), E)
                  /\ Set(w, [worker[w] EXCEPT !.lru = f.lru, !.threads = f.threads])
<1>1. worker[w].at = "read" /\ Len(worker[w].given) < Len(Params[worker[w].step])
  BY DEF LookUpAll, Reading
<1>2. Sources(w) \in Seq(Steps)
  BY <1>1, SourcesAre
<1>3. PICK f : f = LookUpEach(w, copied, [lru |-> worker[w].lru, threads |-> << >>], Sources(w))
  OBVIOUS
<1>4. LookedUp(f, Len(Sources(w)), Sources(w), FrameOf(w), E)
  BY <1>2, <1>3, LookUpAllKeeps
<1>5. Set(w, [worker[w] EXCEPT !.lru = f.lru, !.threads = f.threads])
  BY <1>3 DEF LookUpAll, LookUpEach
<1> QED BY <1>4, <1>5

LEMMA LookUpTurns ==
    ASSUME Typed, NEW w \in Workers, NEW copied, LookUpAll(w, copied)
    PROVE  \E y : Turns(w, y)
<1>1. /\ worker[w].at = "read" /\ Len(worker[w].given) < Len(Params[worker[w].step])
      /\ worker[w].threads = << >> /\ UNCHANGED temps
      /\ store' \in [Files -> FileSet] /\ UNCHANGED remote /\ Shaped(worker[w])
      /\ worker[w].lru \in Seq(EntrySet)
  BY DEF LookUpAll, Reading, Typed, Shaped, WorkerSet
<1>2. PICK f : /\ LookedUp(f, Len(Sources(w)), Sources(w), FrameOf(w), EntrySet)
               /\ Set(w, [worker[w] EXCEPT !.lru = f.lru, !.threads = f.threads])
  BY <1>1, LookUpAllIs
<1>3. PICK l, t : /\ l = f.lru /\ l \in Seq(EntrySet)
                  /\ t = f.threads /\ t \in Seq(ThreadSet) /\ Len(t) = Len(Sources(w))
  BY <1>2 DEF LookedUp
<1>4. \A i \in DOMAIN t : t[i].temp = NoTemp /\ t[i].at \notin {"fetch", "fetched"}
  <2>1. DOMAIN t = 1 .. Len(Sources(w))
    BY <1>3, LenProperties
  <2>2. \A i \in DOMAIN t : t[i] = Queued \/ \E v : t[i] = Thread("hot", v)
    BY <1>2, <1>3, <2>1 DEF LookedUp
  <2>3. /\ Queued.temp = NoTemp /\ Queued.at = "queued"
        /\ \A v : Thread("hot", v).temp = NoTemp /\ Thread("hot", v).at = "hot"
    BY DEF Queued, Thread
  <2> QED BY <2>2, <2>3
<1>5. PICK y : y = [worker[w] EXCEPT !.lru = l, !.threads = t]
  OBVIOUS
<1>6. Shaped(y)
  BY <1>1, <1>3, <1>4, <1>5, LookUpShaped DEF Sources
<1>7. y.threads = t /\ y.at = "read"
  BY <1>1, <1>5 DEF Shaped, WorkerSet
<1>8. HeldBy(y) = {NoTemp} /\ HeldBy(worker[w]) = {NoTemp}
  <2>1. y.at \notin {"fill", "finalize", "unlink"}
        /\ \A i \in DOMAIN y.threads : y.threads[i].at \notin {"fetch", "fetched"}
    BY <1>4, <1>7
  <2>2. worker[w].temp = NoTemp
    BY <1>1, HeldIs
  <2> QED BY <1>1, <1>6, <2>1, <2>2, HeldIs
<1>9. Tidy(w, y)
  BY <1>1, <1>8, QuietTidy
<1> QED BY <1>1, <1>2, <1>3, <1>5, <1>6, <1>9 DEF Turns

\* A thread goes on.
LEMMA ThreadTurns ==
    ASSUME Typed, OneHolder, NEW w \in Workers, NEW i \in DOMAIN worker[w].threads,
           NEW th \in ThreadSet, th.temp # NoTemp <=> th.at \in {"fetch", "fetched"},
           SetThread(w, i, th), UNCHANGED <<remote, store>>,
           temps' \in [Temps -> TempSet],
           \A t \in Temps : t \notin {worker[w].threads[i].temp} \cup FreeTemps =>
             temps'[t] = temps[t],
           th.temp \in {worker[w].threads[i].temp, NoTemp} \cup FreeTemps,
           th.temp = worker[w].threads[i].temp \/ worker[w].threads[i].temp = NoTemp
             \/ temps'[worker[w].threads[i].temp].in = "none"
    PROVE  \E y : Turns(w, y)
<1>1. PICK x : x = worker[w]
  OBVIOUS
<1>2. /\ x.at = "read" /\ x.threads \in Seq(ThreadSet) /\ x.temp = NoTemp /\ Shaped(x)
      /\ store' \in [Files -> FileSet] /\ UNCHANGED remote
  BY <1>1, ThreadsAre DEF Typed
<1>3. PICK y : y = [x EXCEPT !.threads[i] = th]
  OBVIOUS
<1>4. Set(w, y) /\ Shaped(y)
  BY <1>1, <1>2, <1>3, ThreadShaped DEF SetThread
<1>5. /\ DOMAIN y.threads = DOMAIN x.threads /\ y.temp = NoTemp
      /\ y.threads[i] = th
      /\ \A j \in DOMAIN x.threads : j # i => y.threads[j] = x.threads[j]
  <2>1. x \in WorkerSet
    BY <1>2 DEF Shaped
  <2> QED BY <1>1, <1>2, <1>3, <2>1 DEF WorkerSet
<1>6. /\ HeldBy(y) = {NoTemp, th.temp} \cup {x.threads[j].temp : j \in DOMAIN x.threads \ {i}}
      /\ HeldBy(x) = {NoTemp} \cup {x.threads[j].temp : j \in DOMAIN x.threads}
  BY <1>1, <1>2, <1>5 DEF HeldBy
<1>7. \A t \in FreeTemps : t \in Temps /\ t # NoTemp /\ t \notin HeldBy(x)
  BY <1>1, Sizes DEF FreeTemps, Held, HeldBy
<1>8. \A j, k \in DOMAIN x.threads :
        j # k /\ x.threads[j].temp = x.threads[k].temp => x.threads[j].temp = NoTemp
  BY <1>1 DEF OneHolder
<1>9. \A j, k \in DOMAIN y.threads :
        j # k /\ y.threads[j].temp = y.threads[k].temp => y.threads[j].temp = NoTemp
  BY <1>1, <1>5, <1>6, <1>7, <1>8
<1>10. \A t \in Temps : t \notin HeldBy(x) \cup FreeTemps => temps'[t] = temps[t]
  BY <1>1, <1>6
<1>11. HeldBy(y) \subseteq HeldBy(x) \cup FreeTemps \cup {NoTemp}
  BY <1>1, <1>6
<1>12. \A t \in Temps : t \in HeldBy(x) \ HeldBy(y) => temps'[t].in = "none"
  BY <1>1, <1>6, Sizes
<1>13. Tidy(w, y)
  BY <1>1, <1>9, <1>10, <1>11, <1>12 DEF Tidy
<1> QED BY <1>2, <1>4, <1>13 DEF Turns

LEMMA FreshTyped ==
    ASSUME Typed, NEW t \in FreshTemp, NEW place \in {"staging", "beside"}, MakeTemp(t, place)
    PROVE  /\ t \in FreeTemps /\ t \in Temps /\ t \in 0 .. MaxTemps /\ t # NoTemp
           /\ temps' \in [Temps -> TempSet]
           /\ \A u \in Temps : u # t => temps'[u] = temps[u]
<1>1. t \in FreeTemps /\ t \in Temps
  BY DEF FreshTemp, FreeTemps
<1>2. [in |-> place, file |-> NoFile] \in TempSet
  BY NoFileTyped DEF TempSet
<1> QED BY <1>1, <1>2, Sizes DEF Typed, MakeTemp

LEMMA StartTurns ==
    ASSUME Typed, OneHolder, NEW w \in Workers, NEW i \in DOMAIN worker[w].threads, StartThread(w, i)
    PROVE  \E y : Turns(w, y)
<1>1. /\ worker[w].threads[i].at = "queued" /\ worker[w].threads[i].temp = NoTemp
      /\ Sources(w)[i] \in Steps /\ worker[w].at = "read"
      /\ Len(worker[w].given) < Len(Params[worker[w].step])
  BY ThreadsAre DEF StartThread
<1>2. FrameOf(w) \in Frames
  BY <1>1, SourcesAre
<1>3. PICK file : file = store[Artifact(Sources(w)[i])] /\ file \in FileSet
  BY <1>1, DestIs DEF Typed
<1>4. UNCHANGED <<remote, store>>
  BY DEF StartThread
<1>5. Thread("failed", None) \in ThreadSet /\ Thread("failed", None).temp = NoTemp
      /\ Thread("failed", None).at = "failed"
  BY ThreadsTyped DEF Thread
<1>6. PICK v : v = ReadBack(file, FrameOf(w)) /\ v \in ValueSet
  BY <1>2, <1>3, ReadBackTyped
<1>7. /\ Thread("done", v) \in ThreadSet /\ Thread("done", v).temp = NoTemp
      /\ Thread("done", v).at = "done"
  BY <1>6, ThreadsTyped DEF Thread
<1>8. \/ SetThread(w, i, Thread("failed", None)) /\ UNCHANGED temps
      \/ SetThread(w, i, Thread("done", v)) /\ UNCHANGED temps
      \/ \E t \in FreshTemp : /\ MakeTemp(t, "staging")
                              /\ SetThread(w, i, [Thread("fetch", None) EXCEPT !.temp = t])
  BY <1>3, <1>6 DEF StartThread
<1>9. ASSUME NEW th \in ThreadSet, th.temp = NoTemp, th.at \notin {"fetch", "fetched"},
             SetThread(w, i, th), UNCHANGED temps
      PROVE  \E y : Turns(w, y)
  <2>1. temps' \in [Temps -> TempSet]
    BY <1>9 DEF Typed
  <2> QED BY <1>1, <1>4, <1>9, <2>1, ThreadTurns
<1>10. ASSUME NEW t \in FreshTemp, MakeTemp(t, "staging"),
              SetThread(w, i, [Thread("fetch", None) EXCEPT !.temp = t])
       PROVE  \E y : Turns(w, y)
  <2>1. PICK th : th = [Thread("fetch", None) EXCEPT !.temp = t]
    OBVIOUS
  <2>2. /\ t \in FreeTemps /\ t \in 0 .. MaxTemps /\ t # NoTemp
        /\ temps' \in [Temps -> TempSet]
        /\ \A u \in Temps : u # t => temps'[u] = temps[u]
    BY <1>10, FreshTyped
  <2>3. th \in ThreadSet /\ th.temp = t /\ th.at = "fetch"
    BY <2>1, <2>2, ThreadsTyped DEF Thread, ThreadSet
  <2> QED BY <1>1, <1>4, <1>10, <2>1, <2>2, <2>3, ThreadTurns
<1> QED BY <1>5, <1>7, <1>8, <1>9, <1>10

LEMMA FetchTurns ==
    ASSUME Typed, OneHolder, NEW w \in Workers, NEW i \in DOMAIN worker[w].threads,
           Fetch(w, i) \/ FetchFails(w, i) \/ ReadFetched(w, i)
    PROVE  \E y : Turns(w, y)
<1>1. PICK thread : thread = worker[w].threads[i]
  OBVIOUS
<1>2. /\ thread \in ThreadSet /\ thread.at \in {"fetch", "fetched"} /\ thread.temp # NoTemp
      /\ Sources(w)[i] \in Steps /\ worker[w].at = "read"
      /\ Len(worker[w].given) < Len(Params[worker[w].step])
  BY <1>1, ThreadsAre DEF Fetch, FetchFails, ReadFetched
<1>3. thread.temp \in Temps
  <2>1. \A k \in 0 .. MaxTemps : k # 0 => k \in 1 .. MaxTemps
    BY Sizes
  <2> QED BY <1>2, <2>1 DEF ThreadSet, NoTemp, Temps
<1>4. UNCHANGED <<remote, store>>
  BY DEF Fetch, FetchFails, ReadFetched
<1>5. CASE Fetch(w, i)
  <2>1. PICK file, th : /\ file = store[Artifact(Sources(w)[i])] /\ file \in FileSet
                        /\ th = [thread EXCEPT !.at = "fetched"]
    BY <1>2, DestIs DEF Typed
  <2>2. th \in ThreadSet /\ th.at = "fetched" /\ th.temp = thread.temp
    BY <1>2, <2>1 DEF ThreadSet
  <2>3. SetThread(w, i, th) /\ temps' = [temps EXCEPT ![thread.temp] = [in |-> "staging", file |-> file]]
    BY <1>1, <1>5, <2>1 DEF Fetch
  <2>4. temps' \in [Temps -> TempSet] /\ \A u \in Temps : u # thread.temp => temps'[u] = temps[u]
    BY <1>3, <2>1, <2>3 DEF Typed, TempSet
  <2> QED BY <1>1, <1>2, <1>4, <2>2, <2>3, <2>4, ThreadTurns
<1>6. ASSUME NEW th \in ThreadSet, th.temp = NoTemp, th.at \notin {"fetch", "fetched"},
             SetThread(w, i, th), temps' = Unlinked({thread.temp})
      PROVE  \E y : Turns(w, y)
  <2>1. PICK ts : ts = {thread.temp}
    OBVIOUS
  <2>2. /\ temps' \in [Temps -> TempSet] /\ temps'[thread.temp].in = "none"
        /\ \A u \in Temps : u # thread.temp => temps'[u] = temps[u]
    BY <1>3, <1>6, <2>1, UnlinkedTyped
  <2> QED BY <1>1, <1>2, <1>4, <1>6, <2>2, ThreadTurns
<1>7. Thread("failed", None) \in ThreadSet /\ Thread("failed", None).temp = NoTemp
      /\ Thread("failed", None).at = "failed"
  BY ThreadsTyped DEF Thread
<1>8. CASE FetchFails(w, i)
  BY <1>1, <1>6, <1>7, <1>8 DEF FetchFails
<1>9. CASE ReadFetched(w, i)
  <2>1. temps[thread.temp].file \in FileSet /\ FrameOf(w) \in Frames
    BY <1>2, <1>3, SourcesAre DEF Typed, TempSet
  <2>2. PICK v : v = ReadBack(temps[thread.temp].file, FrameOf(w)) /\ v \in ValueSet
    BY <2>1, ReadBackTyped
  <2>3. /\ Thread("done", v) \in ThreadSet /\ Thread("done", v).temp = NoTemp
        /\ Thread("done", v).at = "done"
    BY <2>2, ThreadsTyped DEF Thread
  <2>4. /\ temps' = Unlinked({thread.temp})
        /\ SetThread(w, i, Thread("failed", None)) \/ SetThread(w, i, Thread("done", v))
    BY <1>1, <1>9, <2>2 DEF ReadFetched
  <2> QED BY <1>6, <1>7, <2>3, <2>4
<1> QED BY <1>5, <1>8, <1>9

\* There is a first failed source, or none.
LEMMA FirstFailedIs ==
    ASSUME NEW threads \in Seq(ThreadSet)
    PROVE  \E m \in Nat : /\ FirstFailed(threads) = m + 1 /\ m <= Len(threads)
                          /\ \A i \in 1 .. m : threads[i].at # "failed"
<1>1. PICK len \in Nat : len = Len(threads)
  BY LenProperties
<1>2. PICK T : T = { i \in 1 .. len + 1 : i <= len => threads[i].at = "failed" }
  OBVIOUS
<1>3. len + 1 \in T /\ T \in SUBSET Nat
  BY <1>2
<1>4. PICK k \in T : \A j \in T : k <= j
  BY <1>3, LeastNat
<1>5. \A j \in 1 .. k - 1 : threads[j].at # "failed"
  <2>1. k \in 1 .. len + 1
    BY <1>2
  <2>2. \A j \in 1 .. k - 1 : j \in 1 .. len + 1 /\ j <= len /\ ~(k <= j)
    BY <2>1
  <2> QED BY <1>2, <1>4, <2>2
<1>6. PICK n : n = FirstFailed(threads)
  OBVIOUS
<1>7. /\ n \in 1 .. len + 1
      /\ \A j \in 1 .. n - 1 : threads[j].at # "failed"
  <2>1. k \in 1 .. len + 1 /\ (k <= len => threads[k].at = "failed")
    BY <1>2
  <2> QED BY <1>1, <1>5, <1>6, <2>1 DEF FirstFailed
<1>8. \A m \in 1 .. len + 1 : m - 1 \in Nat /\ (m - 1) + 1 = m /\ m - 1 <= len
  OBVIOUS
<1>9. n \in 1 .. len + 1
  BY <1>7
<1> QED BY <1>1, <1>6, <1>7, <1>8, <1>9

\* A step is given its values, or fails for a source; what was read is cached.
LEMMA GivenIs ==
    ASSUME Typed, NEW w \in Workers, Given(w), NEW E, worker[w].lru \in Seq(E),
           \A n \in Nat : n <= Len(worker[w].threads) => Worth(w, E, n)
    PROVE  \E l \in Seq(E) :
             \/ Set(w, [Idle(l) EXCEPT !.at = "error", !.step = worker[w].step])
             \/ /\ \A i \in DOMAIN worker[w].threads : worker[w].threads[i].at \in {"hot", "done"}
                /\ Set(w, [worker[w] EXCEPT !.lru = l, !.threads = << >>,
                             !.given = Append(@, [i \in DOMAIN worker[w].threads |->
                                                    Handed(worker[w].threads[i])])])
<1>1. PICK threads : threads = worker[w].threads
  OBVIOUS
<1>2. threads \in Seq(ThreadSet)
  BY <1>1 DEF Typed, Shaped, WorkerSet
<1>3. PICK m \in Nat : /\ FirstFailed(threads) = m + 1 /\ m <= Len(threads)
                       /\ \A i \in 1 .. m : threads[i].at # "failed"
  BY <1>2, FirstFailedIs
<1>4. PICK n : n = FirstFailed(threads) /\ n - 1 = m
  BY <1>3
<1>5. PICK l : l = CachedEach(w, worker[w].lru, n - 1)
  OBVIOUS
<1>6. l \in Seq(E)
  BY <1>1, <1>3, <1>4, <1>5, CachedKeeps
<1>7. IF n <= Len(threads)
      THEN Set(w, [Idle(l) EXCEPT !.at = "error", !.step = worker[w].step])
      ELSE Set(w, [worker[w] EXCEPT !.lru = l, !.threads = << >>,
                     !.given = Append(@, [i \in DOMAIN threads |-> Handed(threads[i])])])
  BY <1>1, <1>4, <1>5 DEF Given, CachedEach
<1>8. CASE n <= Len(threads)
  BY <1>6, <1>7, <1>8
<1>9. CASE ~(n <= Len(threads))
  <2>1. Len(threads) \in Nat /\ DOMAIN threads = 1 .. Len(threads)
    BY <1>2, LenProperties
  <2>2. \A i \in DOMAIN threads : i \in 1 .. m
    BY <1>3, <1>4, <1>9, <2>1
  <2>3. \A i \in DOMAIN threads : threads[i].at \in {"hot", "done"}
    BY <1>1, <1>3, <2>2 DEF Given
  <2> QED BY <1>1, <1>6, <1>7, <1>9, <2>3
<1> QED BY <1>8, <1>9

\* The values handed over, and that they are the reader's own.
LEMMA HandedTyped ==
    ASSUME NEW threads \in Seq(ThreadSet), NEW a, a = [i \in DOMAIN threads |-> Handed(threads[i])]
    PROVE  /\ a \in Seq(Argument) /\ DOMAIN a = DOMAIN threads
           /\ \A i \in DOMAIN threads : a[i].value = threads[i].value
<1>1. PICK n \in Nat : n = Len(threads) /\ DOMAIN threads = 1 .. n
  BY LenProperties
<1>2. \A i \in 1 .. n : threads[i] \in ThreadSet
  BY <1>1, ElementOfSeq
<1>3. \A i \in 1 .. n : Handed(threads[i]) \in Argument /\ Handed(threads[i]).value = threads[i].value
  BY <1>2 DEF Handed, Argument, ThreadSet
<1>4. a \in [1 .. n -> Argument]
  BY <1>1, <1>3
<1>5. a \in Seq(Argument)
  BY <1>4, IsASeq
<1> QED BY <1>1, <1>3, <1>5

LEMMA GivenTurns ==
    ASSUME Typed, NEW w \in Workers, Given(w)
    PROVE  \E y : Turns(w, y)
<1>1. /\ worker[w].at = "read" /\ Len(worker[w].given) < Len(Params[worker[w].step])
      /\ UNCHANGED <<remote, store, temps>>
      /\ \A i \in DOMAIN worker[w].threads : worker[w].threads[i].at \in {"hot", "done", "failed"}
  BY DEF Given, Reading
<1>2. /\ Shaped(worker[w]) /\ worker[w].threads \in Seq(ThreadSet)
      /\ worker[w].lru \in Seq(EntrySet) /\ store' \in [Files -> FileSet]
  BY <1>1 DEF Typed, Shaped, WorkerSet
<1>3. ASSUME NEW n \in Nat, n <= Len(worker[w].threads) PROVE Worth(w, EntrySet, n)
  <2>1. Len(worker[w].threads) \in Nat /\ DOMAIN worker[w].threads = 1 .. Len(worker[w].threads)
    BY <1>2, LenProperties
  <2>2. ASSUME NEW i \in 1 .. n
        PROVE  [key |-> Key(Sources(w)[i], FrameOf(w)), value |-> worker[w].threads[i].value] \in EntrySet
    <3>1. i \in DOMAIN worker[w].threads
      BY <1>3, <2>1
    <3>2. Sources(w)[i] \in Steps /\ worker[w].threads[i] \in ThreadSet
      BY <3>1, ThreadsAre
    <3>3. FrameOf(w) \in Frames
      BY <1>1, SourcesAre
    <3> QED BY <3>2, <3>3 DEF EntrySet, Key, ThreadSet
  <2> QED BY <2>2 DEF Worth
<1>4. PICK l \in Seq(EntrySet) :
        \/ Set(w, [Idle(l) EXCEPT !.at = "error", !.step = worker[w].step])
        \/ Set(w, [worker[w] EXCEPT !.lru = l, !.threads = << >>,
                     !.given = Append(@, [i \in DOMAIN worker[w].threads |->
                                            Handed(worker[w].threads[i])])])
  BY <1>2, <1>3, GivenIs
<1>5. PICK a : a = [i \in DOMAIN worker[w].threads |-> Handed(worker[w].threads[i])]
  OBVIOUS
<1>6. a \in Seq(Argument)
  BY <1>2, <1>5, HandedTyped
<1>7. /\ Shaped([Idle(l) EXCEPT !.at = "error", !.step = worker[w].step])
      /\ Shaped([worker[w] EXCEPT !.lru = l, !.threads = << >>, !.given = Append(@, a)])
  BY <1>1, <1>2, <1>6, GivenShaped
<1>8. HeldBy(worker[w]) = {NoTemp}
  BY <1>1, <1>2, HeldIs
<1>9. ASSUME NEW y, Set(w, y), Shaped(y), y.threads = << >>, y.at \in {"error", "read"}
      PROVE  Turns(w, y)
  <2>1. HeldBy(y) = {NoTemp}
    BY <1>9, HeldIs
  <2> QED BY <1>1, <1>2, <1>8, <1>9, <2>1, QuietTidy DEF Turns
<1>10. PICK y, z : /\ y = [Idle(l) EXCEPT !.at = "error", !.step = worker[w].step]
                   /\ z = [worker[w] EXCEPT !.lru = l, !.threads = << >>, !.given = Append(@, a)]
  OBVIOUS
<1>11. y.threads = << >> /\ y.at = "error"
  BY <1>10 DEF Idle, Gone
<1>12. z.threads = << >> /\ z.at = "read"
  BY <1>1, <1>2, <1>10 DEF Shaped, WorkerSet
<1> QED BY <1>4, <1>5, <1>7, <1>9, <1>10, <1>11, <1>12

\* What the function does to its arguments is its own affair.
LEMMA ReturnsIs ==
    ASSUME Typed, NEW w \in Workers, NEW changes, Returns(w, changes)
    PROVE  Set(w, [worker[w] EXCEPT !.at = "write", !.given = << >>,
                     !.result = Out(worker[w].step),
                     !.writes = Writes(worker[w].step, Out(worker[w].step)), !.lru = worker[w].lru])
<1>1. worker[w] \in WorkerSet
  BY DEF Typed, Shaped
<1>2. PICK lru, given : /\ lru = worker[w].lru /\ given = worker[w].given
                        /\ lru \in Seq(EntrySet) /\ given \in Seq(Seq(Argument))
  BY <1>1 DEF WorkerSet
<1>3. ASSUME NEW i \in DOMAIN given, NEW j \in DOMAIN given[i] PROVE ~given[i][j].shared
  <2>1. given[i] \in Seq(Argument)
    BY <1>2, LenProperties, ElementOfSeq
  <2>2. given[i][j] \in Argument
    BY <2>1, LenProperties, ElementOfSeq
  <2> QED BY <2>2 DEF Argument
<1>4. \A k \in DOMAIN lru : ~Touched(w, lru[k])
  BY <1>2, <1>3 DEF Touched
<1>5. Changed(w, lru) = [k \in DOMAIN lru |-> lru[k]]
  BY <1>4 DEF Changed
<1>6. Changed(w, lru) = lru
  BY <1>2, <1>5
<1>7. PICK n : n = [worker[w] EXCEPT !.at = "write", !.given = << >>,
                     !.result = Out(worker[w].step),
                     !.writes = Writes(worker[w].step, Out(worker[w].step)),
                     !.lru = IF changes THEN Changed(w, @) ELSE @]
  OBVIOUS
<1>8. Set(w, n)
  BY <1>7 DEF Returns, Out
<1>9. n = [worker[w] EXCEPT !.at = "write", !.given = << >>,
                     !.result = Out(worker[w].step),
                     !.writes = Writes(worker[w].step, Out(worker[w].step)), !.lru = lru]
  BY <1>2, <1>6, <1>7
<1> QED BY <1>2, <1>8, <1>9

LEMMA ReturnsTurns ==
    ASSUME Typed, NEW w \in Workers, NEW changes, Returns(w, changes)
    PROVE  \E y : Turns(w, y)
<1>1. /\ worker[w].at = "read" /\ Len(worker[w].given) = Len(Params[worker[w].step])
      /\ UNCHANGED <<remote, store, temps>>
  BY DEF Returns, AllGiven
<1>2. /\ Shaped(worker[w]) /\ worker[w].lru \in Seq(EntrySet) /\ store' \in [Files -> FileSet]
      /\ Len(worker[w].given) \in Nat
  BY <1>1, LenProperties DEF Typed, Shaped, WorkerSet
<1>3. PICK y : y = [worker[w] EXCEPT !.at = "write", !.given = << >>,
                     !.result = Out(worker[w].step),
                     !.writes = Writes(worker[w].step, Out(worker[w].step)), !.lru = worker[w].lru]
  OBVIOUS
<1>4. Set(w, y) /\ Shaped(y)
  BY <1>1, <1>2, <1>3, ReturnsIs, ReturnsShaped
<1>5. worker[w].threads = << >> /\ worker[w].temp = NoTemp /\ y.at = "write"
  BY <1>1, <1>2, <1>3 DEF Shaped, ReadsInTurn, WritesInTurn, WorkerSet
<1>6. y.threads = << >>
  BY <1>4, <1>5 DEF Shaped, ReadsInTurn
<1>7. HeldBy(worker[w]) = {NoTemp} /\ HeldBy(y) = {NoTemp}
  BY <1>2, <1>4, <1>5, <1>6, HeldIs
<1> QED BY <1>1, <1>2, <1>4, <1>7, QuietTidy DEF Turns

\* A write goes on: its worker holds one temporary file, or none.
LEMMA WriteTurns ==
    ASSUME Typed, NEW w \in Workers, worker[w].at # "read",
           NEW y, Set(w, y), Shaped(y), y.at # "read",
           temps' \in [Temps -> TempSet], store' \in [Files -> FileSet], UNCHANGED remote,
           \A t \in Temps : t \notin {worker[w].temp} \cup FreeTemps => temps'[t] = temps[t],
           y.temp \in {worker[w].temp, NoTemp} \cup FreeTemps,
           worker[w].temp \in {y.temp, NoTemp} \/ temps'[worker[w].temp].in = "none"
    PROVE  Turns(w, y)
<1>1. HeldBy(worker[w]) = {worker[w].temp} /\ HeldBy(y) = {y.temp} /\ y.threads = << >>
  BY HeldIs DEF Typed, Shaped, ReadsInTurn
<1>2. NoTemp \notin Temps /\ FreeTemps \subseteq Temps
  BY Sizes DEF FreeTemps
<1>3. HeldBy(y) \subseteq HeldBy(worker[w]) \cup FreeTemps \cup {NoTemp}
  BY <1>1
<1>4. \A t \in Temps : t \in HeldBy(worker[w]) \ HeldBy(y) => temps'[t].in = "none"
  BY <1>1, <1>2
<1>5. \A t \in Temps : t \notin HeldBy(worker[w]) \cup FreeTemps => temps'[t] = temps[t]
  BY <1>1
<1>6. \A i \in DOMAIN y.threads : FALSE
  BY <1>1
<1>7. Tidy(w, y)
  BY <1>3, <1>4, <1>5, <1>6 DEF Tidy
<1> QED BY <1>7 DEF Turns

LEMMA WriterIs ==
    ASSUME Typed, NEW w \in Workers, worker[w].at \in {"fill", "finalize", "unlink"}
    PROVE  /\ Shaped(worker[w]) /\ worker[w].temp \in Temps /\ worker[w].temp # NoTemp
           /\ worker[w].writes \in Seq(WriteSet) /\ worker[w].writes # << >>
           /\ Write(w) = Head(worker[w].writes) /\ Write(w) \in WriteSet
           /\ worker[w].result = Out(worker[w].step) /\ worker[w].step \in Steps
           /\ Written(worker[w].result, Write(w).fmt) \in FileSet
           /\ temps[worker[w].temp].file \in FileSet
<1>1. /\ Shaped(worker[w]) /\ worker[w] \in WorkerSet /\ worker[w].temp # NoTemp
      /\ worker[w].writes # << >> /\ worker[w].result = Out(worker[w].step)
      /\ worker[w].step \in Steps
  BY DEF Typed, Shaped, WritesInTurn
<1>2. worker[w].temp \in Temps
  <2>1. \A k \in 0 .. MaxTemps : k # 0 => k \in 1 .. MaxTemps
    BY Sizes
  <2> QED BY <1>1, <2>1 DEF WorkerSet, NoTemp, Temps
<1>3. worker[w].writes \in Seq(WriteSet) /\ worker[w].result \in ValueSet
  BY <1>1 DEF WorkerSet
<1>4. Write(w) = Head(worker[w].writes) /\ Write(w) \in WriteSet
  BY <1>1, <1>3, HeadTailProperties DEF Write
<1>5. Written(worker[w].result, Write(w).fmt) \in FileSet
  BY <1>3, <1>4, WrittenTyped DEF WriteSet
<1>6. temps[worker[w].temp].file \in FileSet
  BY <1>2 DEF Typed, TempSet
<1> QED BY <1>1, <1>2, <1>3, <1>4, <1>5, <1>6

LEMMA NextWriteIs ==
    ASSUME NEW w, NEW o, NextWrite(w, o)
    PROVE  Set(w, Over(worker[w], o))
BY DEF NextWrite, Over

LEMMA OverTurns ==
    ASSUME Typed, NEW w \in Workers, worker[w].at \in {"fill", "finalize", "unlink"},
           NEW o \in {"ok", "error"}, NextWrite(w, o), temps' = Unlinked({worker[w].temp}),
           store' \in [Files -> FileSet], UNCHANGED remote
    PROVE  Turns(w, Over(worker[w], o))
<1>1. PICK y : y = Over(worker[w], o)
  OBVIOUS
<1>2. Shaped(worker[w]) /\ worker[w].temp \in Temps
  BY WriterIs
<1>3. Set(w, y) /\ Shaped(y) /\ y.temp = NoTemp /\ y.at # "read"
  BY <1>1, <1>2, NextWriteIs, OverShaped, OverIs
<1>4. PICK ts : ts = {worker[w].temp}
  OBVIOUS
<1>5. /\ temps' \in [Temps -> TempSet] /\ temps'[worker[w].temp].in = "none"
      /\ \A u \in Temps : u # worker[w].temp => temps'[u] = temps[u]
  BY <1>2, <1>4, UnlinkedTyped
<1> QED BY <1>1, <1>3, <1>5, WriteTurns

LEMMA WritesTurn ==
    ASSUME Typed, NEW w \in Workers,
           \/ WriteTemp(w) \/ Fill(w) \/ FillFails(w) \/ Finalize(w) \/ FinalizeFails(w) \/ Unlink(w)
    PROVE  \E y : Turns(w, y)
<1>1. /\ Shaped(worker[w]) /\ worker[w] \in WorkerSet /\ store \in [Files -> FileSet]
      /\ temps \in [Temps -> TempSet]
  BY DEF Typed, Shaped
<1>2. UNCHANGED remote
  BY DEF WriteTemp, Fill, FillFails, Finalize, FinalizeFails, Unlink
<1>3. CASE WriteTemp(w)
  <2>1. worker[w].at = "write" /\ UNCHANGED store
    BY <1>3 DEF WriteTemp
  <2>2. PICK t \in FreshTemp : /\ MakeTemp(t, Staging(w))
                               /\ Set(w, [worker[w] EXCEPT !.at = "fill", !.temp = t])
    BY <1>3 DEF WriteTemp
  <2>3. Staging(w) \in {"staging", "beside"}
    BY DEF Staging
  <2>4. /\ t \in FreeTemps /\ t \in Temps
        /\ temps' \in [Temps -> TempSet] /\ \A u \in Temps : u # t => temps'[u] = temps[u]
    BY <2>2, <2>3, FreshTyped
  <2>5. PICK y : y = [worker[w] EXCEPT !.at = "fill", !.temp = t]
    OBVIOUS
  <2>6. Shaped(y) /\ y.at = "fill" /\ y.temp = t
    BY <1>1, <2>1, <2>4, <2>5, TempShaped DEF WorkerSet
  <2>7. worker[w].temp = NoTemp
    BY <1>1, <2>1 DEF Shaped, WritesInTurn
  <2> QED BY <1>1, <1>2, <2>1, <2>2, <2>4, <2>5, <2>6, <2>7, WriteTurns
<1>4. CASE Fill(w)
  <2>1. worker[w].at = "fill" /\ UNCHANGED store
    BY <1>4 DEF Fill
  <2>2. worker[w].temp \in Temps /\ Written(worker[w].result, Write(w).fmt) \in FileSet
    BY <2>1, WriterIs
  <2>3. [in |-> Staging(w), file |-> Written(worker[w].result, Write(w).fmt)] \in TempSet
    BY <2>2 DEF Staging, TempSet
  <2>4. /\ temps' \in [Temps -> TempSet]
        /\ \A u \in Temps : u # worker[w].temp => temps'[u] = temps[u]
    BY <1>1, <1>4, <2>2, <2>3 DEF Fill
  <2>5. PICK y : y = [worker[w] EXCEPT !.at = "finalize"]
    OBVIOUS
  <2>6. Set(w, y) /\ Shaped(y) /\ y.at = "finalize" /\ y.temp = worker[w].temp
    BY <1>1, <1>4, <2>1, <2>5, GoShaped DEF Fill, Go, WorkerSet
  <2> QED BY <1>1, <1>2, <2>1, <2>4, <2>6, WriteTurns
<1>5. CASE FillFails(w) \/ FinalizeFails(w)
  <2>1. /\ worker[w].at \in {"fill", "finalize"} /\ NextWrite(w, "error")
        /\ temps' = Unlinked({worker[w].temp}) /\ UNCHANGED store
    BY <1>5 DEF FillFails, FinalizeFails, WriteFails
  <2> QED BY <1>1, <1>2, <2>1, OverTurns
<1>6. CASE Finalize(w)
  <2>1. /\ worker[w].at = "finalize"
        /\ store' = [store EXCEPT ![Write(w).to] = temps[worker[w].temp].file]
        /\ \/ Go(w, "unlink") /\ UNCHANGED temps
           \/ NextWrite(w, "ok") /\ temps' = Unlinked({worker[w].temp})
    BY <1>6 DEF Finalize
  <2>2. temps[worker[w].temp].file \in FileSet /\ Write(w) \in WriteSet
    BY <2>1, WriterIs
  <2>3. store' \in [Files -> FileSet]
    BY <1>1, <2>1, <2>2 DEF WriteSet
  <2>4. CASE Go(w, "unlink") /\ UNCHANGED temps
    <3>1. PICK y : y = [worker[w] EXCEPT !.at = "unlink"]
      OBVIOUS
    <3>2. Set(w, y) /\ Shaped(y) /\ y.at = "unlink" /\ y.temp = worker[w].temp
      BY <1>1, <2>1, <2>4, <3>1, GoShaped DEF Go, WorkerSet
    <3> QED BY <1>1, <1>2, <2>1, <2>3, <2>4, <3>2, WriteTurns
  <2>5. CASE NextWrite(w, "ok") /\ temps' = Unlinked({worker[w].temp})
    BY <1>2, <2>1, <2>3, <2>5, OverTurns
  <2> QED BY <2>1, <2>4, <2>5
<1>7. CASE Unlink(w)
  <2>1. /\ worker[w].at = "unlink" /\ NextWrite(w, "ok")
        /\ temps' = Unlinked({worker[w].temp}) /\ UNCHANGED store
    BY <1>7 DEF Unlink
  <2> QED BY <1>1, <1>2, <2>1, OverTurns
<1> QED BY <1>3, <1>4, <1>5, <1>6, <1>7

\* A step of a worker, and no other.
Acts(w) ==
    \/ StartWorker(w) \/ Leave(w) \/ Crash(w)
    \/ \E s \in Steps : Execute(w, s)
    \/ \E copied \in BOOLEAN : LookUpAll(w, copied)
    \/ \E i \in DOMAIN worker[w].threads :
        StartThread(w, i) \/ Fetch(w, i) \/ FetchFails(w, i) \/ ReadFetched(w, i)
    \/ Given(w) \/ Raises(w)
    \/ \E changes \in BOOLEAN : Returns(w, changes)
    \/ WriteTemp(w) \/ Fill(w) \/ FillFails(w)
    \/ Finalize(w) \/ FinalizeFails(w) \/ Unlink(w)
    \/ Report(w) \/ Keep(w)

LEMMA ActsTurn ==
    ASSUME Typed, OneHolder, NEW w \in Workers, Acts(w)
    PROVE  \E y : Turns(w, y)
BY RestTurns, EndTurns, LookUpTurns, StartTurns, FetchTurns, GivenTurns, ReturnsTurns, WritesTurn
   DEF Acts

-----------------------------------------------------------------------------
(***************************************************************************)
(* Every temporary file has one holder, and only a crash leaves one.       *)
(***************************************************************************)
LEMMA HeldNow ==
    /\ \A v : Held(v) = HeldBy(worker[v])
    /\ \A v : Held(v)' = HeldBy(worker'[v])
BY DEF Held, HeldBy

LEMMA HolderKept ==
    ASSUME FilesInv, NEW w \in Workers, NEW y, Turns(w, y)
    PROVE  FilesInv'
<1>1. /\ Typed /\ OneHolder /\ Set(w, y) /\ Shaped(y) /\ Tidy(w, y)
      /\ store' \in [Files -> FileSet] /\ UNCHANGED remote /\ temps' \in [Temps -> TempSet]
  BY DEF FilesInv, Turns, Tidy
<1>2. /\ DOMAIN worker' = Workers /\ worker' = [v \in Workers |-> worker'[v]]
      /\ worker'[w] = y /\ \A v \in Workers \ {w} : worker'[v] = worker[v]
  BY <1>1, Turned
<1>3. Typed'
  <2>1. \A v \in Workers : Shaped(worker'[v])
    BY <1>1, <1>2 DEF Typed
  <2>2. (\A v \in Workers : Shaped(worker[v]))'
    BY <2>1 DEF Shaped, ReadsInTurn, WritesInTurn, WorkerSet
  <2> QED BY <1>1, <1>2, <2>2 DEF Typed
<1>4. \A v \in Workers \ {w} : HeldBy(worker[v]) \cap HeldBy(y) \subseteq {NoTemp}
  <2>1. HeldBy(y) \subseteq HeldBy(worker[w]) \cup FreeTemps \cup {NoTemp}
    BY <1>1 DEF Tidy
  <2>2. \A v \in Workers : FreeTemps \cap HeldBy(worker[v]) = {}
    BY HeldNow DEF FreeTemps
  <2>3. \A v \in Workers \ {w} : HeldBy(worker[v]) \cap HeldBy(worker[w]) \subseteq {NoTemp}
    BY <1>1, HeldNow DEF OneHolder
  <2> QED BY <2>1, <2>2, <2>3
<1>5. \A u, v \in Workers : u # v => HeldBy(worker'[u]) \cap HeldBy(worker'[v]) \subseteq {NoTemp}
  <2>1. \A u, v \in Workers : u # v => HeldBy(worker[u]) \cap HeldBy(worker[v]) \subseteq {NoTemp}
    BY <1>1, HeldNow DEF OneHolder
  <2> QED BY <1>2, <1>4, <2>1
<1>6. \A v \in Workers : \A i, j \in DOMAIN worker'[v].threads :
         i # j /\ worker'[v].threads[i].temp = worker'[v].threads[j].temp =>
             worker'[v].threads[i].temp = NoTemp
  BY <1>1, <1>2 DEF OneHolder, Tidy
<1>7. OneHolder'
  BY <1>5, <1>6, HeldNow DEF OneHolder
<1> QED BY <1>3, <1>7 DEF FilesInv

LEMMA FilesStep ==
    ASSUME FilesInv, [Next]_vars
    PROVE  FilesInv'
<1>1. CASE Next
  <2>1. PICK w \in Workers : Acts(w)
    BY <1>1 DEF Next, Acts
  <2>2. PICK y : Turns(w, y)
    BY <2>1, ActsTurn DEF FilesInv
  <2> QED BY <2>2, HolderKept
<1>2. CASE UNCHANGED vars
  <2>1. Typed'
    <3>1. UNCHANGED <<remote, store, temps, worker>> /\ Typed
      BY <1>2 DEF vars, FilesInv
    <3>2. \A v \in Workers : Shaped(worker'[v])
      BY <3>1 DEF Typed
    <3>3. (\A v \in Workers : Shaped(worker[v]))'
      BY <3>2 DEF Shaped, ReadsInTurn, WritesInTurn, WorkerSet
    <3> QED BY <3>1, <3>3 DEF Typed
  <2>2. OneHolder'
    <3>1. worker' = worker /\ OneHolder
      BY <1>2 DEF vars, FilesInv
    <3>2. \A v \in Workers : Held(v)' = Held(v)
      BY <3>1 DEF Held
    <3> QED BY <3>1, <3>2 DEF OneHolder
  <2> QED BY <2>1, <2>2 DEF FilesInv
<1> QED BY <1>1, <1>2

LEMMA FilesInit ==
    ASSUME Init
    PROVE  FilesInv
<1>1. Shaped(Gone) /\ Gone.threads = << >> /\ Gone.temp = NoTemp
  <2>1. PICK e : e = << >> /\ e \in Seq(EntrySet)
    BY EmptySeq
  <2> QED BY <2>1, RestShaped DEF Gone
<1>2. \A w \in Workers : worker[w] = Gone
  BY DEF Init
<1>3. /\ remote \in BOOLEAN /\ store \in [Files -> FileSet]
      /\ temps \in [Temps -> TempSet]
      /\ DOMAIN worker = Workers /\ worker = [w \in Workers |-> worker[w]]
  BY NoFileTyped, StoreAssumption DEF Init, StoreAssumption, TempSet
<1>4. \A w \in Workers : Held(w) = {NoTemp}
  BY <1>1, <1>2 DEF Held
<1>5. OneHolder
  BY <1>1, <1>2, <1>4 DEF OneHolder
<1> QED BY <1>1, <1>2, <1>3, <1>5 DEF FilesInv, Typed

\* LeftByCrashesOnly, of one step.
Swept ==
    \A t \in Temps : t \in AllHeld /\ t \notin AllHeld' /\ temps'[t].in # "none"
        => \E w \in Workers : t \in Held(w) /\ worker'[w] = Gone

LEMMA SweptStep ==
    ASSUME FilesInv, [Next]_vars
    PROVE  [Swept]_vars
<1>1. CASE Next
  <2>1. PICK w \in Workers : Acts(w)
    BY <1>1 DEF Next, Acts
  <2>2. PICK y : Turns(w, y)
    BY <2>1, ActsTurn DEF FilesInv
  <2>3. worker'[w] = y /\ \A v \in Workers \ {w} : worker'[v] = worker[v]
    BY <2>2, Turned DEF FilesInv, Turns
  <2>4. /\ \A v \in Workers : HeldBy(worker[v]) \subseteq AllHeld
        /\ \A v \in Workers : HeldBy(worker'[v]) \subseteq AllHeld'
        /\ \A t \in AllHeld : \E v \in Workers : t \in HeldBy(worker[v])
    BY HeldNow DEF AllHeld
  <2>5. ASSUME NEW t \in Temps, t \in AllHeld, t \notin AllHeld', temps'[t].in # "none"
        PROVE  \E v \in Workers : t \in Held(v) /\ worker'[v] = Gone
    <3>1. PICK v \in Workers : t \in HeldBy(worker[v])
      BY <2>4, <2>5
    <3>2. v = w
      BY <2>3, <2>4, <2>5, <3>1
    <3>3. t \in HeldBy(worker[w]) \ HeldBy(y)
      BY <2>3, <2>4, <2>5, <3>1, <3>2
    <3>4. y = Gone
      BY <2>2, <2>5, <3>3 DEF Turns, Tidy
    <3> QED BY <2>3, <3>1, <3>2, <3>4, HeldNow
  <2> QED BY <2>5 DEF Swept
<1>2. CASE UNCHANGED vars
  BY <1>2
<1> QED BY <1>1, <1>2

\* The inductive invariant holds: every worker is at a place of its program, and
\* a temporary file has one holder (mkstemp).
THEOREM FilesHeld == Spec => []FilesInv
<1>1. Init => FilesInv
  BY FilesInit
<1>2. FilesInv /\ [Next]_vars => FilesInv'
  BY FilesStep
<1> QED BY <1>1, <1>2, PTL DEF Spec

\* Only a crash leaves a temporary file behind: reads remove theirs, and so does
\* _staged_write, whether it ends well or not.
THEOREM Tidied == Spec => LeftByCrashesOnly
<1>1. FilesInv /\ [Next]_vars => [Swept]_vars
  BY SweptStep
<1>2. [][Swept]_vars => LeftByCrashesOnly
  BY DEF Swept, LeftByCrashesOnly
<1> QED BY <1>1, <1>2, FilesHeld, PTL DEF Spec

-----------------------------------------------------------------------------
(***************************************************************************)
(* A function is called with what the store gives.                         *)
(***************************************************************************)
LEMMA WriteIs ==
    ASSUME NEW x, Shaped(x), x.at \in {"fill", "finalize", "unlink"}
    PROVE  /\ x.step \in Steps /\ x.result = Out(x.step)
           /\ x.outcome \in Seq({"ok", "error"}) /\ Len(x.outcome) \in Nat
           /\ x.outcome = << >> => /\ Head(x.writes).to = Artifact(x.step)
                                   /\ Head(x.writes).fmt = FormatOf(x.step, Out(x.step))
           /\ x.outcome # << >> => /\ Len(x.outcome) \in DOMAIN Sinks[x.step]
                                   /\ Head(x.writes).to = Dest(x.step, Len(x.outcome))
<1>1. PICK todo : todo = Writes(x.step, Out(x.step))
  OBVIOUS
<1>2. /\ x \in WorkerSet /\ x.step \in Steps /\ x.result = Out(x.step) /\ x.writes # << >>
      /\ Len(x.outcome) + Len(x.writes) = Len(todo)
      /\ \A j \in DOMAIN x.writes : x.writes[j] = todo[Len(x.outcome) + j]
  BY <1>1 DEF Shaped, WritesInTurn
<1>3. x.writes \in Seq(WriteSet) /\ x.outcome \in Seq({"ok", "error"})
  BY <1>2 DEF WorkerSet
<1>4. PICK n, m, k \in Nat : n = Len(x.outcome) /\ m = Len(x.writes) /\ k = Len(Sinks[x.step])
  BY <1>2, <1>3, LenProperties, SinksAre
<1>5. /\ Len(todo) = 1 + k /\ DOMAIN Sinks[x.step] = 1 .. k
      /\ todo[1] = [to |-> Artifact(x.step), fmt |-> FormatOf(x.step, Out(x.step))]
      /\ \A i \in 1 .. k : todo[i + 1].to = Dest(x.step, i)
  <2>1. /\ Len(Writes(x.step, Out(x.step))) = 1 + Len(Sinks[x.step])
        /\ Writes(x.step, Out(x.step))[1] = [to |-> Artifact(x.step), fmt |-> FormatOf(x.step, Out(x.step))]
        /\ \A i \in DOMAIN Sinks[x.step] :
             Writes(x.step, Out(x.step))[i + 1] =
               [to |-> Dest(x.step, i),
                fmt |-> SinkFormat(Sinks[x.step][i], Out(x.step), FormatOf(x.step, Out(x.step)))]
    BY <1>2, WritesAre
  <2>2. DOMAIN Sinks[x.step] = 1 .. k
    BY <1>2, <1>4, SinksAre
  <2>3. \A i \in 1 .. k : todo[i + 1].to = Dest(x.step, i)
    <3> SUFFICES ASSUME NEW i \in 1 .. k PROVE todo[i + 1].to = Dest(x.step, i)
      OBVIOUS
    <3>1. i \in DOMAIN Sinks[x.step]
      BY <2>2
    <3>2. PICK f : f = SinkFormat(Sinks[x.step][i], Out(x.step), FormatOf(x.step, Out(x.step)))
      OBVIOUS
    <3>3. todo[i + 1] = [to |-> Dest(x.step, i), fmt |-> f]
      BY <1>1, <2>1, <3>1, <3>2
    <3> QED BY <3>3
  <2>4. Len(todo) = 1 + k /\ todo[1] = [to |-> Artifact(x.step), fmt |-> FormatOf(x.step, Out(x.step))]
    BY <1>1, <1>4, <2>1
  <2> QED BY <2>2, <2>3, <2>4
<1>6. m # 0 /\ 1 \in DOMAIN x.writes
  <2>1. DOMAIN x.writes = 1 .. m
    BY <1>3, <1>4, LenProperties
  <2>2. m # 0
    BY <1>2, <1>3, <1>4, EmptySeq
  <2> QED BY <1>4, <2>1, <2>2
<1>7. Head(x.writes) = todo[n + 1]
  <2>1. Head(x.writes) = x.writes[1]
    BY DEF Head
  <2> QED BY <1>2, <1>4, <1>6, <2>1
<1>8. n = 0 <=> x.outcome = << >>
  BY <1>3, <1>4, EmptySeq
<1>9. n # 0 => n \in 1 .. k
  <2>1. \A a, b, c \in Nat : a + b = 1 + c /\ a # 0 /\ b # 0 => a \in 1 .. c
    OBVIOUS
  <2>2. n + m = 1 + k
    BY <1>2, <1>4, <1>5
  <2> QED BY <1>6, <2>1, <2>2
<1>10. n = 0 => n + 1 = 1
  OBVIOUS
<1> QED BY <1>2, <1>3, <1>4, <1>5, <1>7, <1>8, <1>9, <1>10

\* What a step does to the store.
LEMMA Lands ==
    ASSUME Typed, NEW w \in Workers, Filled(temps, worker[w]), Acts(w)
    PROVE  \/ UNCHANGED store
           \/ /\ Finalize(w) /\ worker[w].at = "finalize" /\ Head(worker[w].writes).to \in Files
              /\ store' = [store EXCEPT ![Head(worker[w].writes).to] =
                             Written(Out(worker[w].step), Head(worker[w].writes).fmt)]
<1>1. CASE Finalize(w)
  <2>1. /\ worker[w].at = "finalize" /\ temps[worker[w].temp].in # "none"
        /\ store' = [store EXCEPT ![Write(w).to] = temps[worker[w].temp].file]
    BY <1>1 DEF Finalize
  <2>2. temps[worker[w].temp].file = Written(Out(worker[w].step), Head(worker[w].writes).fmt)
    BY <2>1, WriterIs DEF Filled, Holds
  <2>3. Write(w) = Head(worker[w].writes) /\ Head(worker[w].writes).to \in Files
    BY <2>1, WriterIs DEF WriteSet
  <2> QED BY <1>1, <2>1, <2>2, <2>3
<1>2. CASE ~Finalize(w)
  <2>1. ASSUME StartWorker(w) \/ Leave(w) \/ Crash(w) \/ \E s \in Steps : Execute(w, s)
        PROVE UNCHANGED store
    BY <2>1 DEF StartWorker, Leave, Crash, Execute
  <2>2. ASSUME \E copied \in BOOLEAN : LookUpAll(w, copied) PROVE UNCHANGED store
    BY <2>2 DEF LookUpAll
  <2>3. ASSUME \E i \in DOMAIN worker[w].threads :
                 StartThread(w, i) \/ Fetch(w, i) \/ FetchFails(w, i) \/ ReadFetched(w, i)
        PROVE UNCHANGED store
    BY <2>3 DEF StartThread, Fetch, FetchFails, ReadFetched
  <2>4. ASSUME Given(w) \/ Raises(w) \/ \E changes \in BOOLEAN : Returns(w, changes)
        PROVE UNCHANGED store
    BY <2>4 DEF Given, Raises, Returns
  <2>5. ASSUME WriteTemp(w) \/ Fill(w) \/ FillFails(w) \/ FinalizeFails(w) \/ Unlink(w)
               \/ Report(w) \/ Keep(w)
        PROVE UNCHANGED store
    BY <2>5 DEF WriteTemp, Fill, FillFails, FinalizeFails, WriteFails, Unlink, Report, Keep
  <2> QED BY <1>2, <2>1, <2>2, <2>3, <2>4, <2>5 DEF Acts
<1> QED BY <1>1, <1>2

\* An artifact changes from nothing, or from what it is, to what it is.
LEMMA ArtifactsKeep ==
    ASSUME Typed, NEW w \in Workers, Filled(temps, worker[w]), Acts(w)
    PROVE  \A s \in Steps : store'[Artifact(s)] \in {store[Artifact(s)], Content(s)}
<1>1. CASE UNCHANGED store
  BY <1>1
<1>2. PICK x : x = worker[w]
  OBVIOUS
<1>3. CASE /\ x.at = "finalize" /\ Head(x.writes).to \in Files
           /\ store' = [store EXCEPT ![Head(x.writes).to] = Written(Out(x.step), Head(x.writes).fmt)]
  <2>1. Shaped(x) /\ store \in [Files -> FileSet]
    BY <1>2 DEF Typed
  <2>2. /\ x.step \in Steps
        /\ x.outcome = << >> => /\ Head(x.writes).to = Artifact(x.step)
                                /\ Head(x.writes).fmt = FormatOf(x.step, Out(x.step))
        /\ x.outcome # << >> => /\ Len(x.outcome) \in DOMAIN Sinks[x.step]
                                /\ Head(x.writes).to = Dest(x.step, Len(x.outcome))
    BY <1>3, <2>1, WriteIs
  <2>3. \A s \in Steps : Artifact(s) \in Files
    BY DestIs
  <2>4. CASE x.outcome = << >>
    <3>1. store' = [store EXCEPT ![Artifact(x.step)] = Content(x.step)]
      BY <1>3, <2>2, <2>4 DEF Content, Out
    <3>2. \A s \in Steps : Artifact(s) = Artifact(x.step) => s = x.step
      BY DEF Artifact
    <3> QED BY <2>1, <2>3, <3>1, <3>2
  <2>5. CASE x.outcome # << >>
    <3>1. Head(x.writes).to = SinkFile(Sinks[x.step][Len(x.outcome)].path, "none")
      BY <2>2, <2>5, DestIs
    <3>2. \A s \in Steps : Artifact(s) # Head(x.writes).to
      BY <3>1 DEF Artifact, SinkFile
    <3> QED BY <1>3, <2>1, <2>3, <3>2
  <2> QED BY <2>4, <2>5
<1> QED BY <1>1, <1>2, <1>3, Lands

\* The others have right what they had right.
LEMMA OthersKept ==
    ASSUME FilesInv, NEW w \in Workers, NEW y, Turns(w, y), NEW v \in Workers, v # w,
           NEW t \in HeldBy(worker[v]), t # NoTemp, NEW file, Holds(temps, t, file)
    PROVE  Holds(temps', t, file)
<1>1. t \in Temps
  <2>1. worker[v] \in WorkerSet
    BY DEF FilesInv, Typed, Shaped
  <2>2. worker[v].temp \in 0 .. MaxTemps /\ worker[v].threads \in Seq(ThreadSet)
    BY <2>1 DEF WorkerSet
  <2>3. \A i \in DOMAIN worker[v].threads : worker[v].threads[i] \in ThreadSet
    BY <2>2, LenProperties, ElementOfSeq
  <2>4. t \in 0 .. MaxTemps
    BY <2>2, <2>3 DEF HeldBy, ThreadSet
  <2>5. \A k \in 0 .. MaxTemps : k # 0 => k \in 1 .. MaxTemps
    BY Sizes
  <2> QED BY <2>4, <2>5 DEF NoTemp, Temps
<1>2. t \notin HeldBy(worker[w]) /\ t \notin FreeTemps
  BY HeldNow DEF FilesInv, OneHolder, FreeTemps
<1>3. temps'[t] = temps[t] \/ temps'[t].in = "none"
  BY <1>1, <1>2 DEF Turns, Tidy
<1> QED BY <1>3 DEF Holds

LEMMA OthersFilled ==
    ASSUME FilesInv, NEW w \in Workers, NEW y, Turns(w, y), NEW v \in Workers, v # w,
           Filled(temps, worker[v])
    PROVE  Filled(temps', worker[v])
<1>1. worker[v].at \in {"finalize", "unlink"} => worker[v].temp # NoTemp
  BY DEF FilesInv, Typed, Shaped, WritesInTurn
<1>2. worker[v].temp \in HeldBy(worker[v])
  BY DEF HeldBy
<1> QED BY <1>1, <1>2, OthersKept DEF Filled

LEMMA OthersRight ==
    ASSUME FilesInv, NEW w \in Workers, NEW y, Turns(w, y), NEW v \in Workers, v # w,
           Right(store, temps, worker[v]),
           \A s \in Steps : store'[Artifact(s)] \in {store[Artifact(s)], Content(s)}
    PROVE  Right(store', temps', worker[v])
<1>1. Filled(temps', worker[v])
  BY OthersFilled DEF Right
<1>2. ASSUME NEW i \in DOMAIN worker[v].threads
      PROVE  /\ Source(worker[v], i) \in Steps
             /\ worker[v].threads[i].at = "fetched" =>
                  /\ worker[v].threads[i].temp # NoTemp
                  /\ worker[v].threads[i].temp \in HeldBy(worker[v])
  BY ThreadsAre DEF FilesInv, HeldBy
<1>3. ReadRight(store', temps', worker[v])
  <2>1. ASSUME NEW i \in DOMAIN worker[v].threads
        PROVE  /\ worker[v].threads[i].at \in {"hot", "done"} =>
                    worker[v].threads[i].value =
                      ReadBack(Content(Source(worker[v], i)), Frame[worker[v].step])
               /\ worker[v].threads[i].at = "fetch" =>
                    store'[Artifact(Source(worker[v], i))] = Content(Source(worker[v], i))
               /\ worker[v].threads[i].at = "fetched" =>
                    Holds(temps', worker[v].threads[i].temp, Content(Source(worker[v], i)))
    <3>1. /\ worker[v].threads[i].at \in {"hot", "done"} =>
               worker[v].threads[i].value =
                 ReadBack(Content(Source(worker[v], i)), Frame[worker[v].step])
          /\ worker[v].threads[i].at = "fetch" =>
               store[Artifact(Source(worker[v], i))] = Content(Source(worker[v], i))
          /\ worker[v].threads[i].at = "fetched" =>
               Holds(temps, worker[v].threads[i].temp, Content(Source(worker[v], i)))
      BY DEF Right, ReadRight
    <3>2. worker[v].threads[i].at = "fetched" =>
            Holds(temps', worker[v].threads[i].temp, Content(Source(worker[v], i)))
      BY <1>2, <3>1, OthersKept
    <3> QED BY <1>2, <3>1, <3>2
  <2> QED BY <2>1 DEF ReadRight
<1> QED BY <1>1, <1>3 DEF Right

\* A worker that neither reads nor has a file to move.
LEMMA QuietRight ==
    ASSUME NEW st, NEW ts, NEW y, y.threads = << >>, y.at \notin {"finalize", "unlink"},
           GivenRight(y), y.lru \in Seq(TrueEntries)
    PROVE  Right(st, ts, y)
BY DEF Right, Filled, ReadRight

LEMMA SameGiven ==
    ASSUME NEW x, GivenRight(x), NEW y, y.given = << >> \/ (y.given = x.given /\ y.step = x.step)
    PROVE  GivenRight(y)
BY DEF GivenRight

LEMMA RestRight ==
    ASSUME Typed, NEW w \in Workers, Right(store, temps, worker[w]),
           StartWorker(w) \/ Leave(w) \/ Crash(w)
    PROVE  \E y : Set(w, y) /\ Right(store', temps', y)
<1>1. PICK y : Set(w, y) /\ y \in {Gone, Idle(<< >>)}
  BY DEF StartWorker, Leave, Crash
<1>2. PICK e : e = << >> /\ e \in Seq(TrueEntries)
  BY EmptySeq
<1>3. y.threads = << >> /\ y.given = << >> /\ y.lru = << >> /\ y.at \in {"down", "idle"}
  <2>1. CASE y = Gone
    BY <2>1 DEF Gone
  <2>2. CASE y = Idle(<< >>)
    BY <2>2 DEF Gone, Idle
  <2> QED BY <1>1, <2>1, <2>2
<1>4. GivenRight(y)
  BY <1>3 DEF GivenRight
<1> QED BY <1>1, <1>2, <1>3, <1>4, QuietRight

LEMMA EndRight ==
    ASSUME Typed, ReadAlike, NEW w \in Workers, Right(store, temps, worker[w]),
           Report(w) \/ Keep(w) \/ Raises(w) \/ \E s \in Steps : Execute(w, s)
    PROVE  \E y : Set(w, y) /\ Right(store', temps', y)
<1>1. /\ Shaped(worker[w]) /\ worker[w] \in WorkerSet
      /\ worker[w].lru \in Seq(TrueEntries) /\ GivenRight(worker[w])
  BY DEF Typed, Shaped, Right
<1>2. CASE Report(w)
  <2>1. PICK y : y = [worker[w] EXCEPT !.at = "keep"]
    OBVIOUS
  <2>2. Set(w, y) /\ worker[w].at = "report"
    BY <1>2, <2>1 DEF Report, Go
  <2>3. /\ y.threads = << >> /\ y.at = "keep" /\ y.given = worker[w].given
        /\ y.step = worker[w].step /\ y.lru = worker[w].lru
    BY <1>1, <2>1, <2>2 DEF WorkerSet, Shaped, ReadsInTurn
  <2> QED BY <1>1, <2>2, <2>3, SameGiven, QuietRight
<1>3. CASE Raises(w)
  <2>1. PICK y : y = [worker[w] EXCEPT !.at = "error"]
    OBVIOUS
  <2>2. Set(w, y) /\ worker[w].at = "read" /\ Len(worker[w].given) = Len(Params[worker[w].step])
    BY <1>3, <2>1 DEF Raises, Go, AllGiven
  <2>3. Len(worker[w].given) \in Nat
    BY <1>1, LenProperties DEF WorkerSet
  <2>4. worker[w].threads = << >>
    BY <1>1, <2>2, <2>3 DEF Shaped, ReadsInTurn
  <2>5. /\ y.threads = << >> /\ y.at = "error" /\ y.given = worker[w].given
        /\ y.step = worker[w].step /\ y.lru = worker[w].lru
    BY <1>1, <2>1, <2>4 DEF WorkerSet
  <2> QED BY <1>1, <2>2, <2>5, SameGiven, QuietRight
<1>4. CASE \E s \in Steps : Execute(w, s)
  <2>1. PICK s \in Steps : Execute(w, s)
    BY <1>4
  <2>2. PICK y : y = [Idle(worker[w].lru) EXCEPT !.at = "read", !.step = s]
    OBVIOUS
  <2>3. Set(w, y)
    BY <2>1, <2>2 DEF Execute
  <2>4. Idle(worker[w].lru) = [Gone EXCEPT !.at = "idle", !.lru = worker[w].lru]
    BY DEF Idle
  <2>5. y.threads = << >> /\ y.at = "read" /\ y.given = << >> /\ y.lru = worker[w].lru
    BY <2>2, <2>4 DEF Gone
  <2> QED BY <1>1, <2>3, <2>5, SameGiven, QuietRight
<1>5. CASE Keep(w)
  <2>1. PICK s, l : /\ s = worker[w].step
                    /\ l = IF Cacheable(s) THEN LruPut(worker[w].lru, Key(s, "pandas"), worker[w].result)
                           ELSE worker[w].lru
    OBVIOUS
  <2>2. worker[w].at = "keep" /\ Set(w, Idle(l))
    BY <1>5, <2>1 DEF Keep
  <2>3. s \in Steps /\ worker[w].result = Out(s) /\ Out(s) \in ValueSet
    BY <1>1, <2>1, <2>2, OutTyped DEF Shaped, WritesInTurn
  <2>4. Copyable(Out(s)) => [key |-> Key(s, "pandas"), value |-> Out(s)] \in TrueEntries
    <3>1. ReadAs(s, "pandas") /\ Copyable(Out(s)) => Out(s) = ReadBack(Content(s), "pandas")
      BY <2>3 DEF ReadAlike
    <3> QED BY <2>3, <3>1 DEF TrueEntries, EntrySet, Key, Frames
  <2>5. l \in Seq(TrueEntries)
    BY <1>1, <2>1, <2>3, <2>4, PutIn
  <2>6. Idle(l).threads = << >> /\ Idle(l).at = "idle" /\ Idle(l).given = << >> /\ Idle(l).lru = l
    BY DEF Idle, Gone
  <2> QED BY <1>1, <2>2, <2>5, <2>6, SameGiven, QuietRight
<1> QED BY <1>2, <1>3, <1>4, <1>5

LEMMA LookUpRight ==
    ASSUME Typed, NEW w \in Workers, Right(store, temps, worker[w]), NEW copied, LookUpAll(w, copied)
    PROVE  \E y : Set(w, y) /\ Right(store', temps', y)
<1>1. /\ worker[w] \in WorkerSet /\ worker[w].lru \in Seq(TrueEntries) /\ GivenRight(worker[w])
      /\ worker[w].at = "read" /\ Len(worker[w].given) < Len(Params[worker[w].step])
  BY DEF Typed, Shaped, Right, LookUpAll, Reading
<1>2. TrueEntries \in SUBSET EntrySet
  BY DEF TrueEntries
<1>3. PICK f : /\ LookedUp(f, Len(Sources(w)), Sources(w), FrameOf(w), TrueEntries)
               /\ Set(w, [worker[w] EXCEPT !.lru = f.lru, !.threads = f.threads])
  BY <1>1, <1>2, LookUpAllIs
<1>4. PICK l, t : /\ l = f.lru /\ l \in Seq(TrueEntries)
                  /\ t = f.threads /\ t \in Seq(ThreadSet) /\ Len(t) = Len(Sources(w))
  BY <1>3 DEF LookedUp
<1>5. PICK y : y = [worker[w] EXCEPT !.lru = l, !.threads = t]
  OBVIOUS
<1>6. /\ y.threads = t /\ y.lru = l /\ y.at = "read"
      /\ y.given = worker[w].given /\ y.step = worker[w].step
  BY <1>1, <1>5 DEF WorkerSet
<1>7. ASSUME NEW i \in DOMAIN t
      PROVE  /\ t[i].at \in {"hot", "done"} =>
                  t[i].value = ReadBack(Content(Source(y, i)), Frame[y.step])
             /\ t[i].at \notin {"fetch", "fetched"}
  <2>1. i \in 1 .. Len(Sources(w))
    BY <1>4, LenProperties
  <2>2. Source(y, i) = Sources(w)[i] /\ Frame[y.step] = FrameOf(w)
    BY <1>6 DEF Source, Sources, FrameOf
  <2>3. \/ t[i] = Queued
        \/ \E e \in TrueEntries : e.key = Key(Sources(w)[i], FrameOf(w)) /\ t[i] = Thread("hot", e.value)
    BY <1>3, <1>4, <2>1 DEF LookedUp
  <2>4. CASE t[i] = Queued
    BY <2>4 DEF Queued, Thread
  <2>5. CASE \E e \in TrueEntries : e.key = Key(Sources(w)[i], FrameOf(w)) /\ t[i] = Thread("hot", e.value)
    <3>1. PICK e \in TrueEntries : e.key = Key(Sources(w)[i], FrameOf(w)) /\ t[i] = Thread("hot", e.value)
      BY <2>5
    <3>2. e.value = ReadBack(Content(Sources(w)[i]), FrameOf(w))
      <4>1. ReadAs(Sources(w)[i], FrameOf(w))
        BY <1>1, <2>1, SourcesRead
      <4> QED BY <3>1, <4>1 DEF TrueEntries, Key
    <3>3. t[i].at = "hot" /\ t[i].value = e.value
      BY <3>1 DEF Thread
    <3> QED BY <2>2, <3>2, <3>3
  <2> QED BY <2>3, <2>4, <2>5
<1>8. ReadRight(store', temps', y)
  BY <1>6, <1>7 DEF ReadRight
<1>9. GivenRight(y)
  BY <1>1, <1>6, SameGiven
<1> QED BY <1>3, <1>4, <1>5, <1>6, <1>8, <1>9 DEF Right, Filled

ThreadRight(st, ts, x, thread, i) ==
    /\ thread.at \in {"hot", "done"} => thread.value = ReadBack(Content(Source(x, i)), Frame[x.step])
    /\ thread.at = "fetch" => st[Artifact(Source(x, i))] = Content(Source(x, i))
    /\ thread.at = "fetched" => Holds(ts, thread.temp, Content(Source(x, i)))

\* One thread has its own right, and leaves those of the others alone.
LEMMA OneThreadRight ==
    ASSUME Typed, NEW w \in Workers, Right(store, temps, worker[w]),
           NEW i \in DOMAIN worker[w].threads, NEW th, SetThread(w, i, th), UNCHANGED store,
           ThreadRight(store, temps', worker[w], th, i),
           \A j \in DOMAIN worker[w].threads : j # i /\ worker[w].threads[j].at = "fetched" =>
             temps'[worker[w].threads[j].temp] = temps[worker[w].threads[j].temp]
    PROVE  \E y : Set(w, y) /\ Right(store', temps', y)
<1>1. PICK x : x = worker[w]
  OBVIOUS
<1>2. /\ x \in WorkerSet /\ x.at = "read" /\ x.lru \in Seq(TrueEntries) /\ GivenRight(x)
      /\ ReadRight(store, temps, x)
  BY <1>1, ThreadsAre DEF Typed, Shaped, Right
<1>3. PICK y : y = [x EXCEPT !.threads[i] = th]
  OBVIOUS
<1>4. Set(w, y)
  BY <1>1, <1>3 DEF SetThread
<1>5. /\ y.at = "read" /\ y.lru = x.lru /\ y.given = x.given /\ y.step = x.step
      /\ DOMAIN y.threads = DOMAIN x.threads /\ y.threads[i] = th
      /\ \A j \in DOMAIN x.threads : j # i => y.threads[j] = x.threads[j]
  BY <1>1, <1>2, <1>3 DEF WorkerSet
<1>6. \A j : Source(y, j) = Source(x, j)
  BY <1>5 DEF Source
<1>7. ASSUME NEW j \in DOMAIN y.threads PROVE ThreadRight(store, temps', y, y.threads[j], j)
  <2>1. CASE j = i
    BY <1>1, <1>5, <1>6, <2>1 DEF ThreadRight
  <2>2. CASE j # i
    <3>1. ThreadRight(store, temps, x, x.threads[j], j)
      BY <1>2, <1>5 DEF ReadRight, ThreadRight
    <3> QED BY <1>1, <1>5, <1>6, <2>2, <3>1 DEF ThreadRight, Holds
  <2> QED BY <2>1, <2>2
<1>8. ReadRight(store', temps', y)
  BY <1>7 DEF ReadRight, ThreadRight
<1>9. GivenRight(y)
  BY <1>2, <1>5, SameGiven
<1> QED BY <1>2, <1>4, <1>5, <1>8, <1>9 DEF Right, Filled

LEMMA ThreadsRight ==
    ASSUME FilesInv, Whole(store), NEW w \in Workers, Right(store, temps, worker[w]),
           NEW i \in DOMAIN worker[w].threads,
           StartThread(w, i) \/ Fetch(w, i) \/ FetchFails(w, i) \/ ReadFetched(w, i)
    PROVE  \E y : Set(w, y) /\ Right(store', temps', y)
<1>1. PICK x, u, thread, frame :
        x = worker[w] /\ u = Sources(w)[i] /\ thread = x.threads[i] /\ frame = FrameOf(w)
  OBVIOUS
<1>2. /\ u \in Steps /\ u = Source(x, i) /\ thread \in ThreadSet
      /\ thread.temp # NoTemp <=> thread.at \in {"fetch", "fetched"}
  BY <1>1, ThreadsAre DEF FilesInv
<1>3. frame = Frame[x.step] /\ UNCHANGED store /\ Typed
  BY <1>1 DEF FrameOf, FilesInv, StartThread, Fetch, FetchFails, ReadFetched
<1>4. ThreadRight(store, temps, x, thread, i)
  BY <1>1 DEF Right, ReadRight, ThreadRight
<1>5. ASSUME NEW j \in DOMAIN x.threads, j # i, x.threads[j].at = "fetched"
      PROVE  /\ x.threads[j].temp \in Temps /\ x.threads[j].temp \notin FreeTemps
             /\ x.threads[j].temp # thread.temp
  <2>1. x.threads[j].temp # NoTemp /\ x.threads[j].temp \in 0 .. MaxTemps
    BY <1>1, <1>5, ThreadsAre DEF FilesInv, ThreadSet
  <2>2. \A k \in 0 .. MaxTemps : k # 0 => k \in 1 .. MaxTemps
    BY Sizes
  <2>3. x.threads[j].temp \in Held(w)
    BY <1>1, <1>5 DEF Held
  <2> QED BY <1>1, <1>5, <2>1, <2>2, <2>3 DEF FilesInv, OneHolder, FreeTemps, NoTemp, Temps
<1>6. ASSUME NEW th, SetThread(w, i, th), ThreadRight(store, temps', x, th, i),
             \A t \in Temps : t \notin FreeTemps \cup {thread.temp} => temps'[t] = temps[t]
      PROVE  \E y : Set(w, y) /\ Right(store', temps', y)
  <2>1. \A j \in DOMAIN worker[w].threads : j # i /\ worker[w].threads[j].at = "fetched" =>
          temps'[worker[w].threads[j].temp] = temps[worker[w].threads[j].temp]
    BY <1>1, <1>5, <1>6
  <2>2. ThreadRight(store, temps', worker[w], th, i)
    BY <1>1, <1>6
  <2> QED BY <1>3, <1>6, <2>1, <2>2, OneThreadRight
<1>7. PICK failed : failed = Thread("failed", None) /\ ThreadRight(store, temps', x, failed, i)
  <2>1. PICK failed : failed = Thread("failed", None)
    OBVIOUS
  <2>2. failed.at = "failed"
    BY <2>1 DEF Thread
  <2> QED BY <2>1, <2>2 DEF ThreadRight
<1>8. CASE StartThread(w, i)
  <2>1. PICK file : file = store[Artifact(u)]
    OBVIOUS
  <2>2. \/ SetThread(w, i, failed) /\ UNCHANGED temps
        \/ file # NoFile /\ SetThread(w, i, Thread("done", ReadBack(file, frame))) /\ UNCHANGED temps
        \/ /\ file # NoFile
           /\ \E t \in FreshTemp : /\ MakeTemp(t, "staging")
                                   /\ SetThread(w, i, [Thread("fetch", None) EXCEPT !.temp = t])
    BY <1>1, <1>7, <1>8, <2>1 DEF StartThread
  <2>3. file # NoFile => file = Content(u)
    BY <1>2, <2>1 DEF Whole
  <2>4. CASE SetThread(w, i, failed) /\ UNCHANGED temps
    BY <1>6, <1>7, <2>4
  <2>5. CASE file # NoFile /\ SetThread(w, i, Thread("done", ReadBack(file, frame))) /\ UNCHANGED temps
    <3>1. PICK th : th = Thread("done", ReadBack(file, frame))
      OBVIOUS
    <3>2. th.at = "done" /\ th.value = ReadBack(file, frame)
      BY <3>1 DEF Thread
    <3>3. ThreadRight(store, temps', x, th, i)
      BY <1>2, <1>3, <2>3, <2>5, <3>2 DEF ThreadRight
    <3> QED BY <1>6, <2>5, <3>1, <3>3
  <2>6. CASE /\ file # NoFile
             /\ \E t \in FreshTemp : /\ MakeTemp(t, "staging")
                                     /\ SetThread(w, i, [Thread("fetch", None) EXCEPT !.temp = t])
    <3>1. PICK t \in FreshTemp : /\ MakeTemp(t, "staging")
                                 /\ SetThread(w, i, [Thread("fetch", None) EXCEPT !.temp = t])
      BY <2>6
    <3>2. PICK th : th = [Thread("fetch", None) EXCEPT !.temp = t]
      OBVIOUS
    <3>3. th.at = "fetch"
      BY <3>2 DEF Thread
    <3>4. ThreadRight(store, temps', x, th, i)
      BY <1>2, <2>1, <2>3, <2>6, <3>3 DEF ThreadRight
    <3>5. t \in FreeTemps /\ \A v \in Temps : v # t => temps'[v] = temps[v]
      BY <1>3, <3>1, FreshTyped
    <3> QED BY <1>6, <3>1, <3>2, <3>4, <3>5
  <2> QED BY <2>2, <2>4, <2>5, <2>6
<1>9. thread.at \in {"fetch", "fetched"} => thread.temp \in Temps
  <2>1. \A k \in 0 .. MaxTemps : k # 0 => k \in 1 .. MaxTemps
    BY Sizes
  <2> QED BY <1>2, <2>1 DEF ThreadSet, NoTemp, Temps
<1>10. ASSUME thread.at \in {"fetch", "fetched"}, temps' = Unlinked({thread.temp})
       PROVE  \A t \in Temps : t \notin FreeTemps \cup {thread.temp} => temps'[t] = temps[t]
  <2>1. PICK ts : ts = {thread.temp}
    OBVIOUS
  <2> QED BY <1>3, <1>10, <2>1, UnlinkedTyped
<1>11. CASE Fetch(w, i)
  <2>1. PICK th : th = [thread EXCEPT !.at = "fetched"]
    OBVIOUS
  <2>2. th.at = "fetched" /\ th.temp = thread.temp
    BY <1>2, <2>1 DEF ThreadSet
  <2>3. /\ SetThread(w, i, th) /\ thread.at = "fetch"
        /\ temps' = [temps EXCEPT ![thread.temp] = [in |-> "staging", file |-> store[Artifact(u)]]]
    BY <1>1, <1>11, <2>1 DEF Fetch
  <2>4. /\ temps'[thread.temp] = [in |-> "staging", file |-> store[Artifact(u)]]
        /\ \A t \in Temps : t # thread.temp => temps'[t] = temps[t]
    BY <1>3, <1>9, <2>3 DEF Typed
  <2>5. store[Artifact(u)] = Content(u)
    BY <1>2, <1>4, <2>3 DEF ThreadRight
  <2>6. ThreadRight(store, temps', x, th, i)
    BY <1>2, <2>2, <2>4, <2>5 DEF ThreadRight, Holds
  <2> QED BY <1>6, <2>3, <2>4, <2>6
<1>12. CASE FetchFails(w, i)
  <2>1. SetThread(w, i, failed) /\ thread.at = "fetch" /\ temps' = Unlinked({thread.temp})
    BY <1>1, <1>7, <1>12 DEF FetchFails
  <2> QED BY <1>6, <1>7, <1>10, <2>1
<1>13. CASE ReadFetched(w, i)
  <2>1. PICK th : th = Thread("done", ReadBack(temps[thread.temp].file, frame))
    OBVIOUS
  <2>2. /\ thread.at = "fetched" /\ temps' = Unlinked({thread.temp})
        /\ IF temps[thread.temp].in = "none" THEN SetThread(w, i, failed) ELSE SetThread(w, i, th)
    BY <1>1, <1>7, <1>13, <2>1 DEF ReadFetched
  <2>3. Holds(temps, thread.temp, Content(u))
    BY <1>2, <1>4, <2>2 DEF ThreadRight
  <2>4. temps[thread.temp].in # "none" => ThreadRight(store, temps', x, th, i)
    <3>1. th.at = "done" /\ th.value = ReadBack(temps[thread.temp].file, frame)
      BY <2>1 DEF Thread
    <3> QED BY <1>2, <1>3, <2>3, <3>1 DEF ThreadRight, Holds
  <2> QED BY <1>6, <1>7, <1>10, <2>2, <2>4
<1> QED BY <1>8, <1>11, <1>12, <1>13

LEMMA CalledRight ==
    ASSUME FilesInv, NEW w \in Workers, Right(store, temps, worker[w]),
           Given(w) \/ \E changes \in BOOLEAN : Returns(w, changes)
    PROVE  \E y : Set(w, y) /\ Right(store', temps', y)
<1>1. PICK x : x = worker[w]
  OBVIOUS
<1>2. /\ x \in WorkerSet /\ Shaped(x) /\ x.lru \in Seq(TrueEntries) /\ GivenRight(x) /\ Typed
      /\ ReadRight(store, temps, x) /\ x.threads \in Seq(ThreadSet)
      /\ x.given \in Seq(Seq(Argument))
  BY <1>1 DEF FilesInv, Typed, Shaped, Right, WorkerSet
<1>3. CASE \E changes \in BOOLEAN : Returns(w, changes)
  <2>1. PICK y : y = [x EXCEPT !.at = "write", !.given = << >>, !.result = Out(x.step),
                        !.writes = Writes(x.step, Out(x.step)), !.lru = x.lru]
    OBVIOUS
  <2>2. Set(w, y)
    BY <1>1, <1>2, <1>3, <2>1, ReturnsIs
  <2>3. x.at = "read" /\ Len(x.given) = Len(Params[x.step]) /\ Len(x.given) \in Nat
    BY <1>1, <1>2, <1>3, LenProperties DEF Returns, AllGiven
  <2>4. x.threads = << >>
    BY <1>2, <2>3 DEF Shaped, ReadsInTurn
  <2>5. y.threads = << >> /\ y.at = "write" /\ y.given = << >> /\ y.lru = x.lru
    BY <1>2, <2>1, <2>4 DEF WorkerSet
  <2> QED BY <1>2, <2>2, <2>5, SameGiven, QuietRight
<1>4. CASE Given(w)
  <2>1. /\ x.at = "read" /\ Len(x.given) < Len(Params[x.step])
        /\ x.threads # << >> \/ Sources(w) = << >>
    BY <1>1, <1>4 DEF Given, Reading
  <2>2. /\ x.step \in Steps /\ FrameOf(w) = Frame[x.step] /\ FrameOf(w) \in Frames
        /\ Sources(w) \in Seq(Steps) /\ Sources(w) = Params[x.step][Len(x.given) + 1]
    BY <1>1, <1>2, <2>1, SourcesAre DEF Sources
  <2>3. ASSUME NEW n \in Nat, n <= Len(worker[w].threads) PROVE Worth(w, TrueEntries, n)
    <3>1. Len(x.threads) \in Nat /\ DOMAIN x.threads = 1 .. Len(x.threads)
      BY <1>2, LenProperties
    <3>2. ASSUME NEW i \in 1 .. n, x.threads[i].at = "done"
          PROVE  [key |-> Key(Sources(w)[i], FrameOf(w)), value |-> x.threads[i].value] \in TrueEntries
      <4>1. i \in DOMAIN x.threads
        BY <1>1, <2>3, <3>1
      <4>2. Sources(w)[i] \in Steps /\ Sources(w)[i] = Source(x, i) /\ x.threads[i] \in ThreadSet
        BY <1>1, <1>2, <4>1, ThreadsAre
      <4>3. x.threads[i].value = ReadBack(Content(Sources(w)[i]), FrameOf(w))
        BY <1>2, <2>2, <3>2, <4>1, <4>2 DEF ReadRight
      <4> QED BY <2>2, <4>2, <4>3 DEF TrueEntries, EntrySet, Key, ThreadSet
    <3> QED BY <1>1, <3>2 DEF Worth
  <2>4. PICK l \in Seq(TrueEntries) :
          \/ Set(w, [Idle(l) EXCEPT !.at = "error", !.step = x.step])
          \/ /\ \A i \in DOMAIN x.threads : x.threads[i].at \in {"hot", "done"}
             /\ Set(w, [x EXCEPT !.lru = l, !.threads = << >>,
                          !.given = Append(@, [i \in DOMAIN x.threads |-> Handed(x.threads[i])])])
    BY <1>1, <1>2, <1>4, <2>3, GivenIs
  <2>5. CASE Set(w, [Idle(l) EXCEPT !.at = "error", !.step = x.step])
    <3>1. PICK y : y = [Idle(l) EXCEPT !.at = "error", !.step = x.step]
      OBVIOUS
    <3>2. y.threads = << >> /\ y.at = "error" /\ y.given = << >> /\ y.lru = l
      BY <3>1 DEF Idle, Gone
    <3> QED BY <1>2, <2>5, <3>1, <3>2, SameGiven, QuietRight
  <2>6. CASE /\ \A i \in DOMAIN x.threads : x.threads[i].at \in {"hot", "done"}
             /\ Set(w, [x EXCEPT !.lru = l, !.threads = << >>,
                          !.given = Append(@, [i \in DOMAIN x.threads |-> Handed(x.threads[i])])])
    <3>1. PICK a : a = [i \in DOMAIN x.threads |-> Handed(x.threads[i])]
      OBVIOUS
    <3>2. /\ a \in Seq(Argument) /\ DOMAIN a = DOMAIN x.threads
          /\ \A i \in DOMAIN x.threads : a[i].value = x.threads[i].value
      BY <1>2, <3>1, HandedTyped
    <3>3. PICK n \in Nat : n = Len(x.given) /\ DOMAIN x.given = 1 .. n
      BY <1>2, LenProperties
    <3>4. PICK g : g = Append(x.given, a)
      OBVIOUS
    <3>5. g \in Seq(Seq(Argument)) /\ Len(g) = n + 1 /\ g[n + 1] = a /\ \A i \in 1 .. n : g[i] = x.given[i]
      BY <1>2, <3>2, <3>3, <3>4, AppendProperties
    <3>6. DOMAIN a = DOMAIN Params[x.step][n + 1]
      <4>1. CASE x.threads = << >>
        BY <2>1, <2>2, <3>2, <3>3, <4>1
      <4>2. CASE x.threads # << >>
        <5>1. Len(x.threads) = Len(Sources(w))
          BY <1>2, <2>2, <4>2 DEF Shaped, ReadsInTurn
        <5>2. DOMAIN x.threads = 1 .. Len(x.threads) /\ DOMAIN Sources(w) = 1 .. Len(Sources(w))
          BY <1>2, <2>2, LenProperties
        <5> QED BY <2>2, <3>2, <3>3, <5>1, <5>2
      <4> QED BY <4>1, <4>2
    <3>7. \A j \in DOMAIN a : a[j].value = ReadBack(Content(Params[x.step][n + 1][j]), Frame[x.step])
      BY <1>2, <2>6, <3>2, <3>3 DEF ReadRight, Source
    <3>8. PICK y : y = [x EXCEPT !.lru = l, !.threads = << >>, !.given = g]
      OBVIOUS
    <3>9. /\ y.threads = << >> /\ y.at = "read" /\ y.given = g /\ y.lru = l /\ y.step = x.step
      BY <1>2, <2>1, <3>8 DEF WorkerSet
    <3>10. GivenRight(y)
      <4>1. DOMAIN g = 1 .. n + 1
        BY <3>5, LenProperties
      <4>2. ASSUME NEW i \in 1 .. n + 1
            PROVE  /\ DOMAIN g[i] = DOMAIN Params[x.step][i]
                   /\ \A j \in DOMAIN g[i] :
                        g[i][j].value = ReadBack(Content(Params[x.step][i][j]), Frame[x.step])
        <5>1. CASE i = n + 1
          BY <3>5, <3>6, <3>7, <5>1
        <5>2. CASE i \in 1 .. n
          BY <1>2, <3>3, <3>5, <5>2 DEF GivenRight
        <5> QED BY <5>1, <5>2
      <4> QED BY <3>9, <4>1, <4>2 DEF GivenRight
    <3> QED BY <2>6, <3>1, <3>4, <3>8, <3>9, <3>10, QuietRight
  <2> QED BY <2>4, <2>5, <2>6
<1> QED BY <1>3, <1>4

LEMMA OverRight ==
    ASSUME Typed, NEW w \in Workers, Right(store, temps, worker[w]),
           worker[w].at \in {"fill", "finalize", "unlink"}, NEW o \in {"ok", "error"}, NextWrite(w, o)
    PROVE  \E y : Set(w, y) /\ Right(store', temps', y)
<1>1. PICK y : y = Over(worker[w], o)
  OBVIOUS
<1>2. Set(w, y) /\ Shaped(worker[w])
  BY <1>1, NextWriteIs DEF Typed
<1>3. /\ y.threads = << >> /\ y.given = worker[w].given /\ y.step = worker[w].step
      /\ y.lru = worker[w].lru /\ y.at \in {"error", "report", "write"}
  BY <1>1, <1>2, OverIs
<1> QED BY <1>2, <1>3, SameGiven, QuietRight DEF Right

LEMMA WriteRight ==
    ASSUME Typed, NEW w \in Workers, Right(store, temps, worker[w]),
           \/ WriteTemp(w) \/ Fill(w) \/ FillFails(w) \/ Finalize(w) \/ FinalizeFails(w) \/ Unlink(w)
    PROVE  \E y : Set(w, y) /\ Right(store', temps', y)
<1>1. PICK x : x = worker[w]
  OBVIOUS
<1>2. /\ x \in WorkerSet /\ Shaped(x) /\ x.lru \in Seq(TrueEntries) /\ GivenRight(x)
      /\ x.at # "read" => x.threads = << >>
  BY <1>1 DEF Typed, Shaped, Right, ReadsInTurn
<1>3. CASE WriteTemp(w)
  <2>1. PICK t : Set(w, [x EXCEPT !.at = "fill", !.temp = t]) /\ x.at = "write"
    BY <1>1, <1>3 DEF WriteTemp
  <2>2. PICK y : y = [x EXCEPT !.at = "fill", !.temp = t]
    OBVIOUS
  <2>3. y.threads = << >> /\ y.at = "fill" /\ y.given = x.given /\ y.step = x.step /\ y.lru = x.lru
    BY <1>2, <2>1, <2>2 DEF WorkerSet
  <2> QED BY <1>2, <2>1, <2>2, <2>3, SameGiven, QuietRight
<1>4. ASSUME NEW place, Go(w, place), x.at # "read",
             Holds(temps', x.temp, Written(x.result, Head(x.writes).fmt))
      PROVE  \E y : Set(w, y) /\ Right(store', temps', y)
  <2>1. PICK y : y = [x EXCEPT !.at = place]
    OBVIOUS
  <2>2. /\ y.threads = << >> /\ y.given = x.given /\ y.step = x.step /\ y.lru = x.lru
        /\ y.temp = x.temp /\ y.result = x.result /\ y.writes = x.writes
    BY <1>2, <1>4, <2>1 DEF WorkerSet
  <2>3. Set(w, y)
    BY <1>1, <1>4, <2>1 DEF Go
  <2>4. GivenRight(y)
    BY <1>2, <2>2, SameGiven
  <2> QED BY <1>2, <1>4, <2>2, <2>3, <2>4 DEF Right, Filled, ReadRight
<1>5. CASE Fill(w)
  <2>1. x.at = "fill" /\ Go(w, "finalize")
        /\ temps' = [temps EXCEPT ![x.temp] =
                       [in |-> Staging(w), file |-> Written(x.result, Write(w).fmt)]]
    BY <1>1, <1>5 DEF Fill
  <2>2. x.temp \in Temps /\ Write(w) = Head(x.writes)
    BY <1>1, <2>1, WriterIs
  <2>3. temps'[x.temp].file = Written(x.result, Head(x.writes).fmt)
    BY <2>1, <2>2 DEF Typed
  <2> QED BY <1>4, <2>1, <2>3 DEF Holds
<1>6. CASE FillFails(w) \/ FinalizeFails(w) \/ Unlink(w)
  <2>1. /\ x.at \in {"fill", "finalize", "unlink"}
        /\ NextWrite(w, "error") \/ NextWrite(w, "ok")
    BY <1>1, <1>6 DEF FillFails, FinalizeFails, WriteFails, Unlink
  <2> QED BY <1>1, <2>1, OverRight
<1>7. CASE Finalize(w)
  <2>1. /\ x.at = "finalize"
        /\ \/ Go(w, "unlink") /\ UNCHANGED temps
           \/ NextWrite(w, "ok")
    BY <1>1, <1>7 DEF Finalize
  <2>2. CASE Go(w, "unlink") /\ UNCHANGED temps
    <3>1. Holds(temps, x.temp, Written(x.result, Head(x.writes).fmt))
      BY <1>1, <2>1 DEF Right, Filled
    <3> QED BY <1>4, <2>1, <2>2, <3>1 DEF Holds
  <2>3. CASE NextWrite(w, "ok")
    BY <1>1, <2>1, <2>3, OverRight
  <2> QED BY <2>1, <2>2, <2>3
<1> QED BY <1>3, <1>5, <1>6, <1>7

LEMMA ActsRight ==
    ASSUME FilesInv, ReadAlike, Whole(store), NEW w \in Workers, Right(store, temps, worker[w]), Acts(w)
    PROVE  \E y : Set(w, y) /\ Right(store', temps', y)
BY RestRight, EndRight, LookUpRight, ThreadsRight, CalledRight, WriteRight DEF Acts, FilesInv

LEMMA CacheNow ==
    CacheInv' <=> Whole(store') /\ \A v \in Workers : Right(store', temps', worker'[v])
BY DEF CacheInv, Whole, Right, Filled, ReadRight, GivenRight, Holds, Source

LEMMA CacheStep ==
    ASSUME FilesInv, CacheInv, ReadAlike, [Next]_vars
    PROVE  CacheInv'
<1>1. CASE Next
  <2>1. PICK w \in Workers : Acts(w)
    BY <1>1 DEF Next, Acts
  <2>2. PICK y : Turns(w, y)
    BY <2>1, ActsTurn DEF FilesInv
  <2>3. Typed /\ worker'[w] = y /\ \A v \in Workers \ {w} : worker'[v] = worker[v]
    BY <2>2, Turned DEF FilesInv, Turns
  <2>4. Whole(store) /\ \A v \in Workers : Right(store, temps, worker[v])
    BY DEF CacheInv
  <2>5. \A s \in Steps : store'[Artifact(s)] \in {store[Artifact(s)], Content(s)}
    BY <2>1, <2>3, <2>4, ArtifactsKeep DEF Right
  <2>6. Right(store', temps', worker'[w])
    <3>1. PICK z : Set(w, z) /\ Right(store', temps', z)
      BY <2>1, <2>4, ActsRight
    <3> QED BY <2>3, <3>1, Turned
  <2>7. \A v \in Workers \ {w} : Right(store', temps', worker'[v])
    BY <2>2, <2>3, <2>4, <2>5, OthersRight
  <2>8. Whole(store')
    BY <2>4, <2>5 DEF Whole
  <2> QED BY <2>6, <2>7, <2>8, CacheNow
<1>2. CASE UNCHANGED vars
  <2>1. UNCHANGED <<store, temps, worker>>
    BY <1>2 DEF vars
  <2> QED BY <2>1, CacheNow DEF CacheInv
<1> QED BY <1>1, <1>2

LEMMA CacheInit ==
    ASSUME Init
    PROVE  CacheInv
<1>1. Gone.threads = << >> /\ Gone.given = << >> /\ Gone.lru = << >> /\ Gone.at = "down"
  BY DEF Gone
<1>2. PICK e : e = << >> /\ e \in Seq(TrueEntries)
  BY EmptySeq
<1>3. Right(store, temps, Gone)
  <2>1. PICK y : y = Gone
    OBVIOUS
  <2>2. GivenRight(y)
    BY <1>1, <2>1 DEF GivenRight
  <2> QED BY <1>1, <1>2, <2>1, <2>2, QuietRight
<1>4. \A s \in Steps : Artifact(s) \in Files
  BY DestIs
<1> QED BY <1>3, <1>4 DEF Init, CacheInv, Whole

LEMMA CacheImplies ==
    ASSUME FilesInv, CacheInv
    PROVE  HandedAsStored
<1> SUFFICES ASSUME NEW w \in Workers, NEW i \in DOMAIN worker[w].given
             PROVE  LET sources == Params[worker[w].step][i] IN
                    /\ DOMAIN worker[w].given[i] = DOMAIN sources
                    /\ \A j \in DOMAIN sources :
                        worker[w].given[i][j].value = ReadBack(Content(sources[j]), FrameOf(w))
  BY DEF HandedAsStored
<1>1. GivenRight(worker[w])
  BY DEF CacheInv, Right
<1> QED BY <1>1 DEF GivenRight, FrameOf

\* A function is called with what a read of the store gives under the frame type
\* its parameter declares, whether the input came from the cache of the worker or
\* from a file (_load_artifact, _load_collected_artifacts).  The premise: what a
\* step returns and another reads as "pandas" is what a read of its file gives,
\* since _ArtifactLRU keeps it under "pandas" as it was returned.
THEOREM HandedRight == ReadAlike => (Spec => []HandedAsStored)
<1> SUFFICES ASSUME ReadAlike PROVE Spec => []HandedAsStored
  OBVIOUS
<1>1. Init => CacheInv
  BY CacheInit
<1>2. FilesInv /\ CacheInv /\ [Next]_vars => CacheInv'
  BY CacheStep
<1>3. FilesInv /\ CacheInv => HandedAsStored
  BY CacheImplies
<1> QED BY <1>1, <1>2, <1>3, FilesHeld, PTL DEF Spec

-----------------------------------------------------------------------------
(***************************************************************************)
(* What was reported is stored.                                            *)
(***************************************************************************)
\* What is stored stays stored.
Stays ==
    /\ \A s \in Steps : Stored(store, s) => Stored(store', s)
    /\ \A s \in Steps : \A i \in DOMAIN Sinks[s] : SinkStored(store, s, i) => SinkStored(store', s, i)

LEMMA StoreStays ==
    ASSUME Typed, OwnSinks, NEW w \in Workers, Filled(temps, worker[w]), Acts(w)
    PROVE  Stays
<1>1. \A s \in Steps : Stored(store, s) => Stored(store', s)
  BY ArtifactsKeep DEF Stored
<1>2. CASE UNCHANGED store
  BY <1>1, <1>2 DEF Stays, SinkStored
<1>3. PICK x : x = worker[w]
  OBVIOUS
<1>4. CASE /\ x.at = "finalize" /\ Head(x.writes).to \in Files
           /\ store' = [store EXCEPT ![Head(x.writes).to] = Written(Out(x.step), Head(x.writes).fmt)]
  <2>1. Shaped(x) /\ store \in [Files -> FileSet]
    BY <1>3 DEF Typed
  <2>2. /\ x.step \in Steps
        /\ x.outcome = << >> => Head(x.writes).to = Artifact(x.step)
        /\ x.outcome # << >> => /\ Len(x.outcome) \in DOMAIN Sinks[x.step]
                                /\ Head(x.writes).to = Dest(x.step, Len(x.outcome))
    BY <1>4, <2>1, WriteIs
  <2>3. PICK to, fmt : to = Head(x.writes).to /\ fmt = Head(x.writes).fmt
    OBVIOUS
  <2>4. to \in Files /\ store' = [store EXCEPT ![to] = Written(Out(x.step), fmt)]
    BY <1>4, <2>3
  <2>5. /\ store'[to] = Written(Out(x.step), fmt) /\ store'[to].fmt = fmt
        /\ \A f \in Files : f # to => store'[f] = store[f]
    BY <2>1, <2>4 DEF Written
  <2>6. ASSUME NEW s \in Steps, NEW i \in DOMAIN Sinks[s], SinkStored(store, s, i)
        PROVE  SinkStored(store', s, i)
    <3>1. Dest(s, i) = SinkFile(Sinks[s][i].path, "none") /\ Dest(s, i) \in Files
      BY DestIs
    <3>2. CASE to # Dest(s, i)
      BY <2>5, <2>6, <3>1, <3>2 DEF SinkStored
    <3>3. CASE to = Dest(s, i)
      <4>1. x.outcome # << >>
        BY <2>2, <2>3, <3>1, <3>3 DEF Artifact, SinkFile
      <4>2. PICK k \in DOMAIN Sinks[x.step] : to = Dest(x.step, k)
        BY <2>2, <2>3, <4>1
      <4>3. to = SinkFile(Sinks[x.step][k].path, "none")
        BY <2>2, <4>2, DestIs
      <4>4. Sinks[x.step][k].path = Sinks[s][i].path
        BY <3>1, <3>3, <4>3 DEF SinkFile
      <4>5. s = x.step
        BY <2>2, <4>2, <4>4 DEF OwnSinks
      <4> QED BY <2>5, <3>3, <4>5 DEF SinkStored
    <3> QED BY <3>2, <3>3
  <2> QED BY <1>1, <2>6 DEF Stays
<1> QED BY <1>2, <1>3, <1>4, Lands

\* The outcome of a write has a place among the sinks.
LEMMA OutcomeIs ==
    ASSUME NEW x, Shaped(x), x.at \in {"write", "fill", "finalize", "unlink", "report"}
    PROVE  /\ x.step \in Steps /\ x.outcome \in Seq({"ok", "error"}) /\ Len(x.outcome) \in Nat
           /\ \A i \in DOMAIN x.outcome : i > 1 => i - 1 \in DOMAIN Sinks[x.step]
           /\ x.at = "report" => /\ DOMAIN Tail(x.outcome) = DOMAIN Sinks[x.step]
                                 /\ \A i \in DOMAIN Sinks[x.step] :
                                      /\ Tail(x.outcome)[i] = x.outcome[i + 1]
                                      /\ i + 1 \in DOMAIN x.outcome /\ i + 1 > 1 /\ (i + 1) - 1 = i
                                 /\ x.outcome # << >>
<1>1. /\ x \in WorkerSet /\ x.step \in Steps
      /\ Len(x.outcome) + Len(x.writes) = Len(Writes(x.step, Out(x.step)))
      /\ x.at = "report" => x.writes = << >>
  BY DEF Shaped, WritesInTurn
<1>2. x.writes \in Seq(WriteSet) /\ x.outcome \in Seq({"ok", "error"})
  BY <1>1 DEF WorkerSet
<1>3. PICK n, m, k \in Nat : n = Len(x.outcome) /\ m = Len(x.writes) /\ k = Len(Sinks[x.step])
  BY <1>1, <1>2, LenProperties, SinksAre
<1>4. n + m = 1 + k /\ DOMAIN Sinks[x.step] = 1 .. k /\ DOMAIN x.outcome = 1 .. n
  BY <1>1, <1>2, <1>3, WritesAre, SinksAre, LenProperties
<1>5. \A i \in 1 .. n : i > 1 => i - 1 \in 1 .. k
  BY <1>4
<1>6. CASE x.at = "report"
  <2>1. n = k + 1
    <3>1. m = 0
      BY <1>1, <1>2, <1>3, <1>6, EmptySeq
    <3> QED BY <1>4, <3>1
  <2>2. x.outcome # << >>
    <3>1. n # 0
      BY <2>1
    <3> QED BY <1>2, <1>3, <3>1, EmptySeq
  <2>3. /\ Tail(x.outcome) \in Seq({"ok", "error"}) /\ Len(Tail(x.outcome)) = k
        /\ \A i \in 1 .. k : Tail(x.outcome)[i] = x.outcome[i + 1]
    <3>1. /\ Tail(x.outcome) \in Seq({"ok", "error"})
          /\ Len(Tail(x.outcome)) = Len(x.outcome) - 1
          /\ \A i \in 1 .. Len(Tail(x.outcome)) : Tail(x.outcome)[i] = x.outcome[i + 1]
      BY <1>2, <2>2, HeadTailProperties
    <3>2. n - 1 = k
      BY <2>1
    <3> QED BY <1>3, <3>1, <3>2
  <2>4. DOMAIN Tail(x.outcome) = 1 .. k
    BY <2>3, LenProperties
  <2>5. \A i \in 1 .. k : i + 1 \in 1 .. n /\ i + 1 > 1 /\ (i + 1) - 1 = i
    BY <2>1
  <2> QED BY <1>1, <1>2, <1>3, <1>4, <1>5, <2>2, <2>3, <2>4, <2>5
<1> QED BY <1>1, <1>2, <1>3, <1>4, <1>5, <1>6

LEMMA DeliveredStays ==
    ASSUME Stays, NEW x, Shaped(x), Delivered(store, x)
    PROVE  Delivered(store', x)
<1> SUFFICES ASSUME x.at \in {"write", "fill", "finalize", "unlink", "report"}
             PROVE  Delivered(store', x)
  BY DEF Delivered
<1>1. /\ x.step \in Steps
      /\ \A i \in DOMAIN x.outcome : i > 1 => i - 1 \in DOMAIN Sinks[x.step]
  BY OutcomeIs
<1>2. x.at = "unlink" /\ x.outcome # << >> => Len(x.outcome) \in DOMAIN Sinks[x.step]
  BY WriteIs
<1> QED BY <1>1, <1>2 DEF Delivered, Stays

LEMMA ToldStays ==
    ASSUME Stays, NEW r, Told(store, r)
    PROVE  Told(store', r)
BY DEF Stays, Told

\* A write that is over, well or not.
LEMMA DeliveredOver ==
    ASSUME NEW x, Shaped(x), x.at \in {"fill", "finalize", "unlink"}, NEW o \in {"ok", "error"},
           NEW st, Delivered(st, x),
           o = "ok" => IF x.outcome = << >> THEN Stored(st, x.step)
                       ELSE SinkStored(st, x.step, Len(x.outcome))
    PROVE  Delivered(st, Over(x, o))
<1>1. PICK y : y = Over(x, o)
  OBVIOUS
<1>2. /\ y.at = IF o = "error" /\ x.outcome = << >> THEN "error"
                ELSE IF Len(x.writes) = 1 THEN "report" ELSE "write"
      /\ y.outcome = Append(x.outcome, o) /\ y.step = x.step
      /\ x.outcome \in Seq({"ok", "error"})
  BY <1>1, OverIs
<1> SUFFICES ASSUME y.at # "error" PROVE Delivered(st, y)
  BY <1>1 DEF Delivered
<1>3. PICK n \in Nat : n = Len(x.outcome) /\ DOMAIN x.outcome = 1 .. n
  BY <1>2, LenProperties
<1>4. /\ y.outcome \in Seq({"ok", "error"}) /\ Len(y.outcome) = n + 1
      /\ y.outcome[n + 1] = o /\ \A i \in 1 .. n : y.outcome[i] = x.outcome[i]
  BY <1>2, <1>3, AppendProperties
<1>5. DOMAIN y.outcome = 1 .. n + 1
  BY <1>4, LenProperties
<1>6. n = 0 <=> x.outcome = << >>
  BY <1>2, <1>3, EmptySeq
<1>7. Stored(st, x.step)
  BY <1>2 DEF Delivered
<1>8. ASSUME NEW i \in 1 .. n + 1, i > 1, y.outcome[i] = "ok"
      PROVE  SinkStored(st, x.step, i - 1)
  <2>1. CASE i = n + 1
    <3>1. o = "ok" /\ n # 0 /\ i - 1 = n
      BY <1>4, <1>8, <2>1
    <3> QED BY <1>3, <1>6, <3>1
  <2>2. CASE i \in 1 .. n
    BY <1>3, <1>4, <1>8, <2>2 DEF Delivered
  <2> QED BY <2>1, <2>2
<1> QED BY <1>2, <1>5, <1>7, <1>8 DEF Delivered

\* Every step leaves its worker right about what it wrote.
Leaves(w) == \E y : Set(w, y) /\ Filled(temps', y) /\ Delivered(store', y)

LEMMA ElseLeaves ==
    ASSUME Typed, NEW w \in Workers, NEW y, Set(w, y),
           \/ y.at \notin {"write", "fill", "finalize", "unlink", "report"}
           \/ y.at = "write" /\ y.outcome = << >>
    PROVE  Leaves(w)
BY DEF Leaves, Filled, Delivered

LEMMA OverLeaves ==
    ASSUME Typed, Stays, NEW w \in Workers, Delivered(store, worker[w]),
           worker[w].at \in {"fill", "finalize", "unlink"}, NEW o \in {"ok", "error"}, NextWrite(w, o),
           o = "ok" => IF worker[w].outcome = << >> THEN Stored(store', worker[w].step)
                       ELSE SinkStored(store', worker[w].step, Len(worker[w].outcome))
    PROVE  Leaves(w)
<1>1. PICK x : x = worker[w]
  OBVIOUS
<1>2. Shaped(x) /\ Delivered(store', x)
  BY <1>1, DeliveredStays DEF Typed
<1>3. PICK y : y = Over(x, o)
  OBVIOUS
<1>4. Set(w, y) /\ y.at \notin {"finalize", "unlink"}
  BY <1>1, <1>2, <1>3, NextWriteIs, OverIs
<1>5. Delivered(store', y)
  BY <1>1, <1>2, <1>3, DeliveredOver
<1> QED BY <1>4, <1>5 DEF Leaves, Filled

\* The worker goes from one place to the next of a write.
LEMMA GoLeaves ==
    ASSUME Typed, Stays, NEW w \in Workers, Delivered(store, worker[w]),
           worker[w].at \in {"write", "fill", "finalize"},
           NEW y, Set(w, y), y.outcome = worker[w].outcome, y.step = worker[w].step,
           Filled(temps', y),
           y.at = "unlink" => IF y.outcome = << >> THEN Stored(store', y.step)
                              ELSE SinkStored(store', y.step, Len(y.outcome))
    PROVE  Leaves(w)
<1>1. Delivered(store', worker[w])
  BY DeliveredStays DEF Typed
<1>2. Delivered(store', y)
  BY <1>1 DEF Delivered
<1> QED BY <1>2 DEF Leaves

LEMMA WriteLeaves ==
    ASSUME Typed, Stays, NEW w \in Workers, Filled(temps, worker[w]), Delivered(store, worker[w]), Acts(w),
           \/ WriteTemp(w) \/ Fill(w) \/ FillFails(w) \/ Finalize(w) \/ FinalizeFails(w) \/ Unlink(w)
    PROVE  Leaves(w)
<1>1. PICK x : x = worker[w]
  OBVIOUS
<1>2. x \in WorkerSet /\ Shaped(x)
  BY <1>1 DEF Typed, Shaped
<1>3. CASE WriteTemp(w)
  <2>1. PICK t : Set(w, [x EXCEPT !.at = "fill", !.temp = t]) /\ x.at = "write"
    BY <1>1, <1>3 DEF WriteTemp
  <2>2. PICK y : y = [x EXCEPT !.at = "fill", !.temp = t]
    OBVIOUS
  <2>3. y.at = "fill" /\ y.outcome = x.outcome /\ y.step = x.step
    BY <1>2, <2>1, <2>2 DEF WorkerSet
  <2>4. Filled(temps', y)
    BY <2>3 DEF Filled
  <2> QED BY <1>1, <2>1, <2>2, <2>3, <2>4, GoLeaves
<1>4. ASSUME NEW place, Go(w, place)
      PROVE  \E y : /\ Set(w, y) /\ y.at = place /\ y.outcome = x.outcome /\ y.step = x.step
                    /\ y.temp = x.temp /\ y.result = x.result /\ y.writes = x.writes
  <2>1. PICK y : y = [x EXCEPT !.at = place]
    OBVIOUS
  <2>2. Set(w, y)
    BY <1>1, <1>4, <2>1 DEF Go
  <2>3. /\ y.at = place /\ y.outcome = x.outcome /\ y.step = x.step
        /\ y.temp = x.temp /\ y.result = x.result /\ y.writes = x.writes
    BY <1>2, <2>1 DEF WorkerSet
  <2> QED BY <2>2, <2>3
<1>5. CASE Fill(w)
  <2>1. /\ x.at = "fill" /\ Go(w, "finalize")
        /\ temps' = [temps EXCEPT ![x.temp] =
                       [in |-> Staging(w), file |-> Written(x.result, Write(w).fmt)]]
    BY <1>1, <1>5 DEF Fill
  <2>2. x.temp \in Temps /\ Write(w) = Head(x.writes)
    BY <1>1, <2>1, WriterIs
  <2>3. temps'[x.temp].file = Written(x.result, Head(x.writes).fmt)
    BY <2>1, <2>2 DEF Typed
  <2>4. PICK y : /\ Set(w, y) /\ y.at = "finalize" /\ y.outcome = x.outcome /\ y.step = x.step
                 /\ y.temp = x.temp /\ y.result = x.result /\ y.writes = x.writes
    BY <1>4, <2>1
  <2>5. Filled(temps', y)
    BY <2>3, <2>4 DEF Filled, Holds
  <2> QED BY <1>1, <2>1, <2>4, <2>5, GoLeaves
<1>6. CASE FillFails(w) \/ FinalizeFails(w)
  <2>1. x.at \in {"fill", "finalize"} /\ NextWrite(w, "error")
    BY <1>1, <1>6 DEF FillFails, FinalizeFails, WriteFails
  <2> QED BY <1>1, <2>1, OverLeaves
<1>7. CASE Finalize(w)
  <2>1. /\ x.at = "finalize" /\ temps[x.temp].in # "none"
        /\ store' = [store EXCEPT ![Write(w).to] = temps[x.temp].file]
        /\ \/ Go(w, "unlink") /\ UNCHANGED temps
           \/ NextWrite(w, "ok")
    BY <1>1, <1>7 DEF Finalize
  <2>2. Write(w) = Head(x.writes) /\ Write(w).to \in Files /\ x.result = Out(x.step)
    BY <1>1, <2>1, WriterIs DEF WriteSet
  <2>3. temps[x.temp].file = Written(Out(x.step), Head(x.writes).fmt)
    BY <1>1, <2>1, <2>2 DEF Filled, Holds
  <2>4. store'[Head(x.writes).to] = Written(Out(x.step), Head(x.writes).fmt)
    BY <2>1, <2>2, <2>3 DEF Typed
  <2>5. /\ x.outcome = << >> => /\ Head(x.writes).to = Artifact(x.step)
                                /\ Head(x.writes).fmt = FormatOf(x.step, Out(x.step))
        /\ x.outcome # << >> => Head(x.writes).to = Dest(x.step, Len(x.outcome))
    BY <1>2, <2>1, WriteIs
  <2>6. IF x.outcome = << >> THEN Stored(store', x.step) ELSE SinkStored(store', x.step, Len(x.outcome))
    <3>1. CASE x.outcome = << >>
      BY <2>4, <2>5, <3>1 DEF Stored, Content, Out
    <3>2. CASE x.outcome # << >>
      <4>1. Written(Out(x.step), Head(x.writes).fmt).fmt = Head(x.writes).fmt
        BY DEF Written
      <4> QED BY <2>4, <2>5, <3>2, <4>1 DEF SinkStored
    <3> QED BY <3>1, <3>2
  <2>7. CASE Go(w, "unlink") /\ UNCHANGED temps
    <3>1. PICK y : /\ Set(w, y) /\ y.at = "unlink" /\ y.outcome = x.outcome /\ y.step = x.step
                   /\ y.temp = x.temp /\ y.result = x.result /\ y.writes = x.writes
      BY <1>4, <2>7
    <3>2. Filled(temps', y)
      BY <1>1, <2>1, <2>7, <3>1 DEF Filled, Holds
    <3> QED BY <1>1, <2>1, <2>6, <3>1, <3>2, GoLeaves
  <2>8. CASE NextWrite(w, "ok")
    BY <1>1, <2>1, <2>6, <2>8, OverLeaves
  <2> QED BY <2>1, <2>7, <2>8
<1>8. CASE Unlink(w)
  <2>1. x.at = "unlink" /\ NextWrite(w, "ok") /\ store' = store
    BY <1>1, <1>8 DEF Unlink
  <2>2. IF x.outcome = << >> THEN Stored(store', x.step) ELSE SinkStored(store', x.step, Len(x.outcome))
    BY <1>1, <2>1 DEF Delivered
  <2> QED BY <1>1, <2>1, <2>2, OverLeaves
<1> QED BY <1>3, <1>5, <1>6, <1>7, <1>8

LEMMA ReadLeaves ==
    ASSUME Typed, NEW w \in Workers,
           \/ \E copied \in BOOLEAN : LookUpAll(w, copied)
           \/ \E i \in DOMAIN worker[w].threads :
                StartThread(w, i) \/ Fetch(w, i) \/ FetchFails(w, i) \/ ReadFetched(w, i)
           \/ Given(w)
    PROVE  Leaves(w)
<1>1. worker[w] \in WorkerSet
  BY DEF Typed, Shaped
<1>2. CASE \E copied \in BOOLEAN : LookUpAll(w, copied)
  <2>1. PICK l, t : worker[w].at = "read" /\ Set(w, [worker[w] EXCEPT !.lru = l, !.threads = t])
    BY <1>2 DEF LookUpAll, Reading
  <2>2. PICK y : y = [worker[w] EXCEPT !.lru = l, !.threads = t]
    OBVIOUS
  <2>3. y.at = "read"
    BY <1>1, <2>1, <2>2 DEF WorkerSet
  <2> QED BY <2>1, <2>2, <2>3, ElseLeaves
<1>3. CASE \E i \in DOMAIN worker[w].threads :
                StartThread(w, i) \/ Fetch(w, i) \/ FetchFails(w, i) \/ ReadFetched(w, i)
  <2>1. PICK i \in DOMAIN worker[w].threads : \E th : SetThread(w, i, th)
    BY <1>3 DEF StartThread, Fetch, FetchFails, ReadFetched
  <2>2. PICK th : SetThread(w, i, th)
    BY <2>1
  <2>3. PICK y : y = [worker[w] EXCEPT !.threads[i] = th]
    OBVIOUS
  <2>4. worker[w].at = "read"
    BY ThreadsAre
  <2>5. y.at = "read" /\ Set(w, y)
    BY <1>1, <2>2, <2>3, <2>4 DEF WorkerSet, SetThread
  <2> QED BY <2>5, ElseLeaves
<1>4. CASE Given(w)
  <2>1. worker[w].at = "read"
    BY <1>4 DEF Given, Reading
  <2>2. PICK l, g : \/ Set(w, [Idle(l) EXCEPT !.at = "error", !.step = worker[w].step])
                    \/ Set(w, [worker[w] EXCEPT !.lru = l, !.threads = << >>, !.given = g])
    BY <1>4 DEF Given
  <2>3. PICK y, z : /\ y = [Idle(l) EXCEPT !.at = "error", !.step = worker[w].step]
                    /\ z = [worker[w] EXCEPT !.lru = l, !.threads = << >>, !.given = g]
    OBVIOUS
  <2>4. y.at = "error"
    BY <2>3 DEF Idle, Gone
  <2>5. z.at = "read"
    BY <1>1, <2>1, <2>3 DEF WorkerSet
  <2> QED BY <2>2, <2>3, <2>4, <2>5, ElseLeaves
<1> QED BY <1>2, <1>3, <1>4

LEMMA RestLeaves ==
    ASSUME Typed, NEW w \in Workers,
           \/ StartWorker(w) \/ Leave(w) \/ Crash(w)
           \/ \E s \in Steps : Execute(w, s)
           \/ Raises(w) \/ Report(w) \/ Keep(w)
           \/ \E changes \in BOOLEAN : Returns(w, changes)
    PROVE  Leaves(w)
<1>1. Shaped(worker[w]) /\ worker[w] \in WorkerSet
  BY DEF Typed, Shaped
<1>2. CASE StartWorker(w) \/ Leave(w) \/ Crash(w) \/ Keep(w)
  <2>1. PICK l, y : Set(w, y) /\ (y = Gone \/ y = Idle(l))
    BY <1>2 DEF StartWorker, Leave, Crash, Keep
  <2>2. Gone.at = "down" /\ Idle(l).at = "idle"
    BY DEF Gone, Idle
  <2> QED BY <2>1, <2>2, ElseLeaves
<1>3. CASE \E s \in Steps : Execute(w, s)
  <2>1. PICK s \in Steps : Execute(w, s)
    BY <1>3
  <2>2. PICK y : y = [Idle(worker[w].lru) EXCEPT !.at = "read", !.step = s]
    OBVIOUS
  <2>3. Set(w, y)
    BY <2>1, <2>2 DEF Execute
  <2>4. y.at = "read"
    BY <2>2 DEF Gone, Idle
  <2> QED BY <2>3, <2>4, ElseLeaves
<1>4. CASE Raises(w) \/ Report(w)
  <2>1. PICK place \in {"error", "keep"} : Set(w, [worker[w] EXCEPT !.at = place])
    BY <1>4 DEF Raises, Report, Go
  <2>2. PICK y : y = [worker[w] EXCEPT !.at = place]
    OBVIOUS
  <2>3. y.at = place
    BY <1>1, <2>2 DEF WorkerSet
  <2> QED BY <2>1, <2>2, <2>3, ElseLeaves
<1>5. CASE \E changes \in BOOLEAN : Returns(w, changes)
  <2>1. PICK y : y = [worker[w] EXCEPT !.at = "write", !.given = << >>,
                        !.result = Out(worker[w].step),
                        !.writes = Writes(worker[w].step, Out(worker[w].step)), !.lru = worker[w].lru]
    OBVIOUS
  <2>2. Set(w, y) /\ worker[w].at = "read"
    BY <1>5, <2>1, ReturnsIs DEF Returns, AllGiven
  <2>3. worker[w].outcome = << >>
    BY <1>1, <2>2 DEF Shaped, ReadsInTurn
  <2>4. y.at = "write" /\ y.outcome = << >>
    BY <1>1, <2>1, <2>3 DEF WorkerSet
  <2> QED BY <2>2, <2>4, ElseLeaves
<1> QED BY <1>2, <1>3, <1>4, <1>5

LEMMA ActsLeave ==
    ASSUME Typed, Stays, NEW w \in Workers, Filled(temps, worker[w]), Delivered(store, worker[w]), Acts(w)
    PROVE  Leaves(w)
BY WriteLeaves, ReadLeaves, RestLeaves DEF Acts

\* What is reported is true.
LEMMA ReportTold ==
    ASSUME Typed, NEW w \in Workers, Delivered(store, worker[w]), Acts(w),
           \A r \in reports : Told(store, r)
    PROVE  \A r \in reports' : Told(store, r)
<1>1. CASE Report(w)
  <2>1. PICK x, s, fmt : x = worker[w] /\ s = x.step /\ fmt = FormatOf(s, x.result)
    OBVIOUS
  <2>2. PICK r : r = [step |-> s, fmt |-> fmt, sinks |-> Tail(x.outcome),
                      hashOf |-> IF s \in Sensors THEN Written(x.result, fmt) ELSE NoFile]
    OBVIOUS
  <2>3. x.at = "report" /\ reports' = reports \cup {r}
    BY <1>1, <2>1, <2>2 DEF Report
  <2>4. Shaped(x) /\ x.result = Out(s) /\ s \in Steps
    BY <2>1, <2>3 DEF Typed, Shaped, WritesInTurn
  <2>5. /\ DOMAIN Tail(x.outcome) = DOMAIN Sinks[s] /\ x.outcome # << >>
        /\ \A i \in DOMAIN Sinks[s] :
             /\ Tail(x.outcome)[i] = x.outcome[i + 1]
             /\ i + 1 \in DOMAIN x.outcome /\ i + 1 > 1 /\ (i + 1) - 1 = i
    BY <2>1, <2>3, <2>4, OutcomeIs
  <2>6. /\ Stored(store, s)
        /\ \A i \in DOMAIN x.outcome :
             i > 1 /\ x.outcome[i] = "ok" => SinkStored(store, s, i - 1)
    BY <2>1, <2>3, <2>5 DEF Delivered
  <2>7. Written(x.result, fmt) = Content(s) /\ fmt = Content(s).fmt
    BY <2>1, <2>4 DEF Content, Out, Written
  <2>8. /\ r.step = s /\ r.fmt = Content(s).fmt /\ r.sinks = Tail(x.outcome)
        /\ s \in Sensors => r.hashOf = Content(s)
    BY <2>2, <2>7
  <2>9. \A i \in DOMAIN Sinks[s] : r.sinks[i] = "ok" => SinkStored(store, s, i)
    BY <2>5, <2>6, <2>8
  <2>10. Told(store, r)
    BY <2>4, <2>5, <2>6, <2>8, <2>9 DEF Told
  <2> QED BY <2>3, <2>10
<1>2. CASE ~Report(w)
  <2>1. ASSUME StartWorker(w) \/ Leave(w) \/ Crash(w) \/ \E s \in Steps : Execute(w, s)
        PROVE UNCHANGED reports
    BY <2>1 DEF StartWorker, Leave, Crash, Execute
  <2>2. ASSUME \E copied \in BOOLEAN : LookUpAll(w, copied) PROVE UNCHANGED reports
    BY <2>2 DEF LookUpAll
  <2>3. ASSUME \E i \in DOMAIN worker[w].threads :
                 StartThread(w, i) \/ Fetch(w, i) \/ FetchFails(w, i) \/ ReadFetched(w, i)
        PROVE UNCHANGED reports
    BY <2>3 DEF StartThread, Fetch, FetchFails, ReadFetched
  <2>4. ASSUME Given(w) \/ Raises(w) \/ \E changes \in BOOLEAN : Returns(w, changes)
        PROVE UNCHANGED reports
    BY <2>4 DEF Given, Raises, Returns
  <2>5. ASSUME WriteTemp(w) \/ Fill(w) \/ FillFails(w) \/ Finalize(w) \/ FinalizeFails(w) \/ Unlink(w)
               \/ Keep(w)
        PROVE UNCHANGED reports
    BY <2>5 DEF WriteTemp, Fill, FillFails, Finalize, FinalizeFails, Unlink, Keep
  <2> QED BY <1>2, <2>1, <2>2, <2>3, <2>4, <2>5 DEF Acts
<1> QED BY <1>1, <1>2

LEMMA WrittenNow ==
    WrittenInv' <=>
      /\ Whole(store')
      /\ \A v \in Workers : Filled(temps', worker'[v]) /\ Delivered(store', worker'[v])
      /\ \A r \in reports' : Told(store', r)
BY DEF WrittenInv, Whole, Filled, Holds, Delivered, Told, Stored, SinkStored

LEMMA WrittenStep ==
    ASSUME FilesInv, WrittenInv, OwnSinks, [Next]_vars
    PROVE  WrittenInv'
<1>1. CASE Next
  <2>1. PICK w \in Workers : Acts(w)
    BY <1>1 DEF Next, Acts
  <2>2. PICK y : Turns(w, y)
    BY <2>1, ActsTurn DEF FilesInv
  <2>3. Typed /\ worker'[w] = y /\ \A v \in Workers \ {w} : worker'[v] = worker[v]
    BY <2>2, Turned DEF FilesInv, Turns
  <2>4. /\ Whole(store) /\ \A v \in Workers : Filled(temps, worker[v]) /\ Delivered(store, worker[v])
        /\ \A r \in reports : Told(store, r)
    BY DEF WrittenInv
  <2>5. Stays
    BY <2>1, <2>3, <2>4, StoreStays
  <2>6. Whole(store')
    <3>1. \A s \in Steps : store'[Artifact(s)] \in {store[Artifact(s)], Content(s)}
      BY <2>1, <2>3, <2>4, ArtifactsKeep
    <3> QED BY <2>4, <3>1 DEF Whole
  <2>7. Filled(temps', worker'[w]) /\ Delivered(store', worker'[w])
    <3>1. Leaves(w)
      BY <2>1, <2>3, <2>4, <2>5, ActsLeave
    <3>2. PICK z : Set(w, z) /\ Filled(temps', z) /\ Delivered(store', z)
      BY <3>1 DEF Leaves
    <3> QED BY <2>3, <3>2, Turned
  <2>8. ASSUME NEW v \in Workers \ {w}
        PROVE  Filled(temps', worker'[v]) /\ Delivered(store', worker'[v])
    <3>1. Filled(temps', worker[v])
      BY <2>2, <2>4, OthersFilled
    <3>2. Delivered(store', worker[v])
      BY <2>3, <2>4, <2>5, DeliveredStays DEF Typed
    <3> QED BY <2>3, <3>1, <3>2
  <2>9. \A r \in reports' : Told(store', r)
    BY <2>1, <2>3, <2>4, <2>5, ReportTold, ToldStays
  <2> QED BY <2>6, <2>7, <2>8, <2>9, WrittenNow
<1>2. CASE UNCHANGED vars
  <2>1. UNCHANGED <<store, temps, worker, reports>>
    BY <1>2 DEF vars
  <2> QED BY <2>1, WrittenNow DEF WrittenInv
<1> QED BY <1>1, <1>2

LEMMA WrittenInit ==
    ASSUME Init
    PROVE  WrittenInv
<1>1. Gone.at = "down"
  BY DEF Gone
<1>2. Filled(temps, Gone) /\ Delivered(store, Gone)
  BY <1>1 DEF Filled, Delivered
<1>3. \A s \in Steps : Artifact(s) \in Files
  BY DestIs
<1> QED BY <1>2, <1>3 DEF Init, WrittenInv, Whole

LEMMA WrittenImplies ==
    ASSUME WrittenInv
    PROVE  ReportedIsStored
BY DEF WrittenInv, Whole, Told, Stored, SinkStored, Dest, Out, ReportedIsStored

\* What a worker reported is in the store and whole, with the format and the hash
\* it reported, and its sinks with it (_materialize).  The premise: no two steps
\* have a sink in common.
THEOREM ReportedRight == OwnSinks => (Spec => []ReportedIsStored)
<1> SUFFICES ASSUME OwnSinks PROVE Spec => []ReportedIsStored
  OBVIOUS
<1>1. Init => WrittenInv
  BY WrittenInit
<1>2. FilesInv /\ WrittenInv /\ [Next]_vars => WrittenInv'
  BY WrittenStep
<1>3. WrittenInv => ReportedIsStored
  BY WrittenImplies
<1> QED BY <1>1, <1>2, <1>3, FilesHeld, PTL DEF Spec
=============================================================================
