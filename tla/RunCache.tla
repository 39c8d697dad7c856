------------------------------ MODULE RunCache ------------------------------
(***************************************************************************)
(* Run hashes (crates/barca-core/src/cache.rs, hash.rs) and the decision   *)
(* whether a step runs or is served from cache (decide_step in             *)
(* commands.rs).                                                           *)
(*                                                                         *)
(* A hash is what it covers: the node, the version of its definition, the  *)
(* key and the set of upstream tokens, so two hashes are equal when and    *)
(* only when SHA-256 gets the same input.  Declared environment variables  *)
(* count as part of the version.                                           *)
(***************************************************************************)
EXTENDS Dispatch

(***************************************************************************)
(* The state of the decisions (DecideState): the hashes so far, by id; the *)
(* outputs of the sensors that ran; the assets refreshed in this run; the  *)
(* ids served from the cache.                                              *)
(***************************************************************************)
\* Mutant: a sensor's output is not part of its readers' hashes.
TokenOfHash(sensorOut, id, hash) == <<hash>>

Token(sensorOut, id, hash) ==
    IF id \in DOMAIN sensorOut THEN <<hash, sensorOut[id]>> ELSE <<hash>>

\* Mutant: every key of a partitioned upstream counts, not the key's own.
HashOfAllKeys(d, version, hashes, sensorOut, id) ==
    LET ups(m) == { h \in DOMAIN hashes : h[1] = m }
        tokens(m) == { Token(sensorOut, up, hashes[up]) : up \in ups(m) }
    IN  <<id, version[id[1]], UNION { tokens(m) : m \in Reads(d, id[1]) }>>

ComputeRunHash(d, version, hashes, sensorOut, id) ==
    LET token(up) == Token(sensorOut, up, hashes[up])
        tokens(m) ==
            IF <<m, NoKey>> \in DOMAIN hashes THEN {token(<<m, NoKey>>)}
            ELSE IF <<m, id[2]>> \in DOMAIN hashes THEN {token(<<m, id[2]>>)}
            ELSE { token(up) : up \in { h \in DOMAIN hashes : h[1] = m } }
    IN  <<id, version[id[1]], UNION { tokens(m) : m \in Reads(d, id[1]) }>>

\* The ids of a step, all hashed against the hashes known before it.
WithHashes(d, version, decided, step) ==
    LET ids == { <<step.node, k>> : k \in KeysOf(step) }
    IN  [id \in ids \cup DOMAIN decided.hashes |->
            IF id \in ids
            THEN ComputeRunHash(d, version, decided.hashes, decided.sensorOut, id)
            ELSE decided.hashes[id]]

\* What runs whatever the cache holds: tasks and sensors, and the assets of
\* --refresh-all and of --refresh, which cascades to their readers.
Forced(d, policy, refreshed, n) ==
    \/ d.kind[n] \in {"task", "sensor"}
    \/ policy.how = "refresh_all"
    \/ policy.how = "refresh"
       /\ \/ n = policy.name
          \/ policy.cascade /\ Reads(d, n) \cap refreshed # {}

\* Mutant: the cascade stops at the readers of the named asset.
RefreshesNamed(d, policy, refreshed, n) ==
    policy.how = "refresh" /\ n = policy.name

Refreshes(d, policy, refreshed, n) ==
    d.kind[n] = "asset" /\ Forced(d, policy, refreshed, n)

\* A consumer of a sensor is looked up only when the sensor's output is known.
SensorsKnown(d, sensorOut, n) ==
    \A m \in Reads(d, n) : d.kind[m] = "sensor" => \E id \in DOMAIN sensorOut : id[1] = m

\* decide_step for one step: its ids are hashed, and those with a recorded
\* success under their hash are cached.
DecideStep(d, version, policy, recorded, decided, step) ==
    LET hashes == WithHashes(d, version, decided, step)
        n      == step.node
        hit(k) == /\ ~ Forced(d, policy, decided.refreshed, n)
                  /\ SensorsKnown(d, decided.sensorOut, n)
                  /\ <<<<n, k>>, hashes[<<n, k>>]>> \in recorded
    IN  [decided EXCEPT
            !.hashes    = hashes,
            !.refreshed = IF Refreshes(d, policy, @, n) THEN @ \cup {n} ELSE @,
            !.cached    = @ \cup { <<n, k>> : k \in { k \in KeysOf(step) : hit(k) } }]

\* The steps of a phase are decided stream by stream, in plan order.
DecidePhase(d, version, policy, recorded, decided, phase) ==
    FoldLeft(LAMBDA acc, step : DecideStep(d, version, policy, recorded, acc, step),
             decided, FlattenSeq(phase))

\* What is dispatched of a phase: the keys that are not cached.
Uncached(phase, cached) ==
    LET left(s) == { k \in KeysOf(s) : <<s.node, k>> \notin cached }
        todo(stream) == LET ss == SelectSeq(stream, LAMBDA s : left(s) # {}) IN
            [j \in DOMAIN ss |->
                [ss[j] EXCEPT !.keys = SelectSeq(@, LAMBDA k : k \in left(ss[j]))]]
    IN  SelectSeq([i \in DOMAIN phase |-> todo(phase[i])], LAMBDA s : s # <<>>)
=============================================================================
