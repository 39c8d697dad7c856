--------------------------- MODULE ArtifactStore ---------------------------
(***************************************************************************)
(* How workers hand values to one another: python/barca/_artifacts.py and  *)
(* the part of _worker.py that calls it.  A worker reads the inputs of a   *)
(* step, from the artifact store or from its own cache, calls the step's   *)
(* function, writes the result and the sinks, each through a temporary     *)
(* file, and reports.  Several workers, of several runs in one project,    *)
(* share the store and the staging directory; any of them may die.         *)
(*                                                                         *)
(* The store is addressed by content: who executes a step with the same    *)
(* run hash writes the same path.  So a step stands for its path.          *)
(***************************************************************************)
EXTENDS Naturals, Sequences, FiniteSets, SequencesExt, Formats

CONSTANTS
    Workers,
    Steps,
    Params,          \* a step's parameters, each the sequence of the steps it reads
    Frame,           \* the frame type its parameters declare, "pandas" if none
    Result,          \* the kind of value its function returns
    Serializer,      \* its declared format, or "auto"
    Sensors,         \* steps whose output is hashed
    Sinks,           \* a step's sinks, in order: [path, fmt], fmt = "auto" for the artifact's
    Large,           \* steps whose local artifact is over _LRU_MAX_ARTIFACT_BYTES
    Stores,          \* what the store may be: remote (TRUE), local (FALSE)
    RemoteSinks,     \* the sinks with a remote path
    LruEntries,      \* entries of the cache (16 in the code)
    CollectThreads,  \* _COLLECT_IO_MAX_WORKERS (8 in the code)
    MaxTemps,        \* bound: temporary files at a time
    MaxFaults,       \* bound: crashes, exceptions, failing transfers, failing copies
    Executions       \* bound: how often each step is executed

VARIABLES
    remote,     \* BARCA_ARTIFACT_URI is set
    store,      \* a file for each artifact or sink that is written
    temps,      \* the temporary files: where they are and what is in them
    worker,     \* the state of each worker
    reports,    \* the results reported so far
    executed,   \* how often a step was given out
    faults

vars == <<remote, store, temps, worker, reports, executed, faults>>

NoFile == [fmt |-> "none", value |-> None]
Temps == 1..MaxTemps
NoTemp == 0

\* Files of a step: its artifact and those of its sinks.
Artifact(s) == [is |-> "artifact", path |-> s, part |-> "none"]
SinkFile(path, part) == [is |-> "sink", path |-> path, part |-> part]
Files == {Artifact(s) : s \in Steps}
         \cup UNION {{SinkFile(Sinks[s][i].path, part) :
                        i \in DOMAIN Sinks[s], part \in Steps \cup {"none"}} : s \in Steps}

StoreAssumption ==
    /\ Params \in [Steps -> Seq(Seq(Steps))]
    /\ Large \subseteq Steps /\ Sensors \subseteq Steps
    /\ \A s \in Steps : Len(Sinks[s]) \in Nat /\ DOMAIN Sinks[s] = 1 .. Len(Sinks[s])
    /\ Stores \subseteq BOOLEAN
    /\ LruEntries \in Nat /\ CollectThreads \in Nat \ {0}
    /\ MaxTemps \in Nat /\ MaxFaults \in Nat
    /\ Executions \in [Steps -> Nat]
ASSUME StoreAssumption

Gone == [at |-> "down", step |-> "none", given |-> <<>>, threads |-> <<>>, lru |-> <<>>,
         result |-> None, writes |-> <<>>, temp |-> NoTemp, outcome |-> <<>>]

Idle(lru) == [Gone EXCEPT !.at = "idle", !.lru = lru]

Set(w, x) == worker' = [worker EXCEPT ![w] = x]
Go(w, place) == Set(w, [worker[w] EXCEPT !.at = place])

Fault == faults < MaxFaults /\ faults' = faults + 1

-----------------------------------------------------------------------------
(* _ArtifactLRU: entries from the oldest to the newest, under a path and a
   frame type; values are copied in and out. *)

\* Mutant: one cached value serves readers of every frame type.
KeyOfPath(s, frame) == [path |-> s, frame |-> "pandas"]

Key(s, frame) == [path |-> s, frame |-> frame]

Has(lru, key) == \E e \in ToSet(lru) : e.key = key
Entry(lru, key) == CHOOSE e \in ToSet(lru) : e.key = key
Others(lru, key) == IF Has(lru, key) THEN RemoveFirst(lru, Entry(lru, key)) ELSE lru

Copyable(v) == v.kind # "duckdb"

\* put: the oldest entries make room; what cannot be copied is not kept.
LruPut(lru, key, v) ==
    IF Copyable(v)
    THEN LET put == Append(Others(lru, key), [key |-> key, value |-> v])
         IN  SubSeq(put, IF Len(put) > LruEntries THEN Len(put) - LruEntries + 1 ELSE 1, Len(put))
    ELSE lru

\* get: a value found becomes the newest, and is dropped if the copy fails.
LruGet(lru, key, copied) ==
    IF ~Has(lru, key) THEN lru
    ELSE Others(lru, key) \o (IF copied THEN <<Entry(lru, key)>> ELSE <<>>)

\* _lru_cacheable
Cacheable(s) == remote \/ s \notin Large

-----------------------------------------------------------------------------
(* Temporary files: in .barca/staging for a remote file, beside the
   destination for a local one. *)

Held(w) == {worker[w].temp} \cup {worker[w].threads[i].temp : i \in DOMAIN worker[w].threads}

\* mkstemp: a name that no file has, and no other process will hit on.
FreeTemps == {t \in Temps : temps[t].in = "none" /\ \A w \in Workers : t \notin Held(w)}
FreshTemp == IF FreeTemps = {} THEN {} ELSE {CHOOSE t \in FreeTemps : TRUE}
MakeTemp(t, place) ==
    temps' = [temps EXCEPT ![t] = [in |-> place, file |-> NoFile]]
Unlinked(ts) == [t \in Temps |-> IF t \in ts THEN [in |-> "none", file |-> NoFile] ELSE temps[t]]

\* A process starts with clean_staging.
StartWorker(w) ==
    /\ worker[w].at = "down"
    /\ temps' = Unlinked({t \in Temps : temps[t].in = "staging"})
    /\ Set(w, Idle(<<>>))
    /\ UNCHANGED <<remote, store, reports, executed, faults>>

\* A step is given to a worker when what it reads has been reported, in this
\* run or in an earlier one; another run may execute it at the same time.
Execute(w, s) ==
    /\ worker[w].at = "idle"
    /\ executed[s] < Executions[s]
    /\ \A i \in DOMAIN Params[s] : \A u \in ToSet(Params[s][i]) : \E r \in reports : r.step = u
    /\ executed' = [executed EXCEPT ![s] = @ + 1]
    /\ Set(w, [Idle(worker[w].lru) EXCEPT !.at = "read", !.step = s])
    /\ UNCHANGED <<remote, store, temps, reports, faults>>

-----------------------------------------------------------------------------
(* Reading the inputs, one parameter after the other: _load_artifact, and
   _load_collected_artifacts, which does the same for a list: what the cache has
   is taken at once, the rest is fetched by a pool of threads. *)

Reading(w) ==
    /\ worker[w].at = "read"
    /\ Len(worker[w].given) < Len(Params[worker[w].step])
Sources(w) == Params[worker[w].step][Len(worker[w].given) + 1]
FrameOf(w) == Frame[worker[w].step]

Thread(at, v) == [at |-> at, value |-> v, temp |-> NoTemp]

\* One lookup after the other: the cache, and a thread for each source.
\* None in the cache is taken for a miss.
LookUp(frame, copied, found, s) ==
    LET key == Key(s, frame)
        hit == Has(found.lru, key) /\ copied /\ Entry(found.lru, key).value # None
    IN  [lru |-> LruGet(found.lru, key, copied),
         threads |-> Append(found.threads,
                            IF hit THEN Thread("hot", Entry(found.lru, key).value)
                            ELSE Thread("queued", None))]

LookUpAll(w, copied) ==
    /\ Reading(w) /\ worker[w].threads = <<>>
    /\ Sources(w) # <<>>
    /\ IF copied THEN UNCHANGED faults ELSE Fault
    /\ LET found == FoldLeft(LAMBDA f, s : LookUp(FrameOf(w), copied, f, s),
                             [lru |-> worker[w].lru, threads |-> <<>>], Sources(w))
       IN  Set(w, [worker[w] EXCEPT !.lru = found.lru, !.threads = found.threads])
    /\ UNCHANGED <<remote, store, temps, reports, executed>>

SetThread(w, i, thread) == Set(w, [worker[w] EXCEPT !.threads[i] = thread])

Busy(w) == {i \in DOMAIN worker[w].threads : worker[w].threads[i].at \in {"fetch", "fetched"}}

\* A thread takes the next source: a local file is read at once, a remote one
\* is fetched to a temporary file, read, and the temporary file removed.
StartThread(w, i) ==
    LET file == store[Artifact(Sources(w)[i])] IN
    /\ worker[w].threads[i].at = "queued"
    /\ \A j \in 1..i - 1 : worker[w].threads[j].at # "queued"
    /\ Cardinality(Busy(w)) < CollectThreads
    /\ IF file = NoFile
       THEN SetThread(w, i, Thread("failed", None)) /\ UNCHANGED temps
       ELSE IF ~remote
       THEN SetThread(w, i, Thread("done", ReadBack(file, FrameOf(w)))) /\ UNCHANGED temps
       ELSE \E t \in FreshTemp :
                /\ MakeTemp(t, "staging")
                /\ SetThread(w, i, [Thread("fetch", None) EXCEPT !.temp = t])
    /\ UNCHANGED <<remote, store, reports, executed, faults>>

\* get_file writes the file anew, also when it was swept.
Fetch(w, i) ==
    LET thread == worker[w].threads[i] IN
    /\ thread.at = "fetch"
    /\ temps' = [temps EXCEPT ![thread.temp] =
                    [in |-> "staging", file |-> store[Artifact(Sources(w)[i])]]]
    /\ SetThread(w, i, [thread EXCEPT !.at = "fetched"])
    /\ UNCHANGED <<remote, store, reports, executed, faults>>

FetchFails(w, i) ==
    /\ worker[w].threads[i].at = "fetch"
    /\ Fault
    /\ temps' = Unlinked({worker[w].threads[i].temp})
    /\ SetThread(w, i, Thread("failed", None))
    /\ UNCHANGED <<remote, store, reports, executed>>

ReadFetched(w, i) ==
    LET thread == worker[w].threads[i] IN
    /\ thread.at = "fetched"
    /\ SetThread(w, i, IF temps[thread.temp].in = "none" THEN Thread("failed", None)
                       ELSE Thread("done", ReadBack(temps[thread.temp].file, FrameOf(w))))
    /\ temps' = Unlinked({thread.temp})
    /\ UNCHANGED <<remote, store, reports, executed, faults>>

\* The first source that could not be read fails the step, but only what comes
\* before it is put in the cache.
FirstFailed(threads) ==
    CHOOSE i \in 1..Len(threads) + 1 :
        /\ i <= Len(threads) => threads[i].at = "failed"
        /\ \A j \in 1..i - 1 : threads[j].at # "failed"

Cached(w, lru, i) ==
    IF worker[w].threads[i].at = "done" /\ Cacheable(Sources(w)[i])
    THEN LruPut(lru, Key(Sources(w)[i], FrameOf(w)), worker[w].threads[i].value) ELSE lru

\* Mutant: a value that the cache has is handed out as it is.
HandedAsIs(thread) == [value |-> thread.value, shared |-> thread.at = "hot"]

\* A deep copy is the reader's own.
Handed(thread) == [value |-> thread.value, shared |-> FALSE]

Given(w) ==
    /\ Reading(w) /\ (worker[w].threads # <<>> \/ Sources(w) = <<>>)
    /\ \A i \in DOMAIN worker[w].threads : worker[w].threads[i].at \in {"hot", "done", "failed"}
    /\ LET threads == worker[w].threads
           n == FirstFailed(threads)
           lru == FoldLeft(LAMBDA l, i : Cached(w, l, i), worker[w].lru, [i \in 1..n - 1 |-> i])
       IN  IF n <= Len(threads)
           THEN Set(w, [Idle(lru) EXCEPT !.at = "error", !.step = worker[w].step])
           ELSE Set(w, [worker[w] EXCEPT !.lru = lru, !.threads = <<>>,
                           !.given = Append(@, [i \in DOMAIN threads |-> Handed(threads[i])])])
    /\ UNCHANGED <<remote, store, temps, reports, executed, faults>>

-----------------------------------------------------------------------------
(* The function runs; then _materialize writes the artifact and the sinks. *)

AllGiven(w) == worker[w].at = "read" /\ Len(worker[w].given) = Len(Params[worker[w].step])

\* What the function does to its arguments is seen by whoever shares them.
Touched(w, entry) ==
    \E i \in DOMAIN worker[w].given : \E j \in DOMAIN worker[w].given[i] :
        /\ worker[w].given[i][j].shared
        /\ entry.key = Key(Params[worker[w].step][i][j], FrameOf(w))
Changed(w, lru) ==
    [k \in DOMAIN lru |-> IF Touched(w, lru[k])
                          THEN [lru[k] EXCEPT !.value = Value("plain", "changed")] ELSE lru[k]]

\* _sink_dest: a partition's own file.  The daemon passes the step's own id,
\* with its partition, as the base.
SinkDest(path, node, base) == IF node = base THEN SinkFile(path, "none") ELSE SinkFile(path, node)
DaemonSinkDest(path, s) == SinkDest(path, s, s)

FormatOf(s, v) == ResolveFormat(v, DetectFormat(v, Serializer[s]))
SinkFormat(sink, v, primary) == ResolveFormat(v, IF sink.fmt = "auto" THEN primary ELSE sink.fmt)

Writes(s, v) ==
    <<[to |-> Artifact(s), fmt |-> FormatOf(s, v)]>>
    \o [i \in DOMAIN Sinks[s] |-> [to |-> DaemonSinkDest(Sinks[s][i].path, s),
                                  fmt |-> SinkFormat(Sinks[s][i], v, FormatOf(s, v))]]

Returns(w, changes) ==
    LET s == worker[w].step
        v == Value(Result[s], s)
    IN /\ AllGiven(w)
       /\ Set(w, [worker[w] EXCEPT !.at = "write", !.given = <<>>, !.result = v,
                     !.writes = Writes(s, v),
                     !.lru = IF changes THEN Changed(w, @) ELSE @])
       /\ UNCHANGED <<remote, store, temps, reports, executed, faults>>

Raises(w) ==
    /\ AllGiven(w)
    /\ Fault
    /\ Go(w, "error")
    /\ UNCHANGED <<remote, store, temps, reports, executed>>

-----------------------------------------------------------------------------
(* _staged_write: the artifact, then each sink *)

Write(w) == Head(worker[w].writes)
ToRemote(w) == IF worker[w].outcome = <<>> THEN remote ELSE Write(w).to.path \in RemoteSinks
Staging(w) == IF ToRemote(w) THEN "staging" ELSE "beside"

WriteTemp(w) ==
    /\ worker[w].at = "write"
    /\ \E t \in FreshTemp :
        /\ MakeTemp(t, Staging(w))
        /\ Set(w, [worker[w] EXCEPT !.at = "fill", !.temp = t])
    /\ UNCHANGED <<remote, store, reports, executed, faults>>

\* Mutant: a failed artifact is passed over like a failed sink.
NextWriteAnyway(w, outcome) ==
    Set(w, [worker[w] EXCEPT
               !.at = IF Len(worker[w].writes) = 1 THEN "report" ELSE "write",
               !.writes = Tail(@), !.temp = NoTemp, !.outcome = Append(@, outcome)])

\* One write is over; a sink that fails does not fail its step.
NextWrite(w, outcome) ==
    Set(w, [worker[w] EXCEPT
               !.at = IF outcome = "error" /\ worker[w].outcome = <<>> THEN "error"
                      ELSE IF Len(worker[w].writes) = 1 THEN "report" ELSE "write",
               !.writes = Tail(@), !.temp = NoTemp, !.outcome = Append(@, outcome)])

\* Mutant: the temporary file of a failed write stays.
WriteFailsLeft(w) == NextWrite(w, "error") /\ UNCHANGED <<store, temps>>

WriteFails(w) ==
    /\ NextWrite(w, "error")
    /\ temps' = Unlinked({worker[w].temp})
    /\ UNCHANGED store

\* The file is opened anew, also when it was swept.
Fill(w) ==
    /\ worker[w].at = "fill"
    /\ Writable(worker[w].result, Write(w).fmt)
    /\ temps' = [temps EXCEPT ![worker[w].temp] =
                    [in |-> Staging(w), file |-> Written(worker[w].result, Write(w).fmt)]]
    /\ Go(w, "finalize")
    /\ UNCHANGED <<remote, store, reports, executed, faults>>

FillFails(w) ==
    /\ worker[w].at = "fill"
    /\ IF Writable(worker[w].result, Write(w).fmt) THEN Fault ELSE UNCHANGED faults
    /\ WriteFails(w)
    /\ UNCHANGED <<remote, reports, executed>>

\* os.replace, or the upload; then the temporary file is gone, or removed.
Finalize(w) ==
    /\ worker[w].at = "finalize"
    /\ temps[worker[w].temp].in # "none"
    /\ store' = [store EXCEPT ![Write(w).to] = temps[worker[w].temp].file]
    /\ IF ToRemote(w) THEN Go(w, "unlink") /\ UNCHANGED temps
       ELSE NextWrite(w, "ok") /\ temps' = Unlinked({worker[w].temp})
    /\ UNCHANGED <<remote, reports, executed, faults>>

FinalizeFails(w) ==
    /\ worker[w].at = "finalize"
    /\ IF temps[worker[w].temp].in = "none" THEN UNCHANGED faults ELSE Fault
    /\ WriteFails(w)
    /\ UNCHANGED <<remote, reports, executed>>

Unlink(w) ==
    /\ worker[w].at = "unlink"
    /\ temps' = Unlinked({worker[w].temp})
    /\ NextWrite(w, "ok")
    /\ UNCHANGED <<remote, store, reports, executed, faults>>

-----------------------------------------------------------------------------
(* The end of a step *)

\* The hash of a sensor's output is that of the bytes written.
Report(w) ==
    LET s == worker[w].step
        fmt == FormatOf(s, worker[w].result)
    IN /\ worker[w].at = "report"
       /\ reports' = reports \cup
            {[step |-> s, fmt |-> fmt, sinks |-> Tail(worker[w].outcome),
              hashOf |-> IF s \in Sensors THEN Written(worker[w].result, fmt) ELSE NoFile]}
       /\ Go(w, "keep")
       /\ UNCHANGED <<remote, store, temps, executed, faults>>

\* What was produced is kept for a later step of this worker.
Keep(w) ==
    LET s == worker[w].step IN
    /\ worker[w].at = "keep"
    /\ Set(w, Idle(IF Cacheable(s) THEN LruPut(worker[w].lru, Key(s, "pandas"), worker[w].result)
                   ELSE worker[w].lru))
    /\ UNCHANGED <<remote, store, temps, reports, executed, faults>>

\* A worker whose step failed is killed; one that is not needed is dismissed.
Leave(w) ==
    /\ worker[w].at \in {"error", "idle"}
    /\ Set(w, Gone)
    /\ UNCHANGED <<remote, store, temps, reports, executed, faults>>

Crash(w) ==
    /\ worker[w].at # "down"
    /\ Fault
    /\ Set(w, Gone)
    /\ UNCHANGED <<remote, store, temps, reports, executed>>

Init ==
    /\ remote \in Stores
    /\ store = [f \in Files |-> NoFile]
    /\ temps = [t \in Temps |-> [in |-> "none", file |-> NoFile]]
    /\ worker = [w \in Workers |-> Gone]
    /\ reports = {}
    /\ executed = [s \in Steps |-> 0]
    /\ faults = 0

Next == \E w \in Workers :
    \/ StartWorker(w) \/ Leave(w) \/ Crash(w)
    \/ \E s \in Steps : Execute(w, s)
    \/ \E copied \in BOOLEAN : LookUpAll(w, copied)
    \/ \E i \in DOMAIN worker[w].threads :
        StartThread(w, i) \/ Fetch(w, i) \/ FetchFails(w, i) \/ ReadFetched(w, i)
    \/ Given(w) \/ Raises(w)
    \/ \E changes \in BOOLEAN : Returns(w, changes)
    \/ WriteTemp(w) \/ Fill(w) \/ FillFails(w)
    \/ Finalize(w) \/ FinalizeFails(w) \/ Unlink(w)
    \/ Report(w) \/ Keep(w)

Spec == Init /\ [][Next]_vars

-----------------------------------------------------------------------------
(* Properties *)

\* The whole of a step's result, as the store keeps it.
Content(s) == Written(Value(Result[s], s), FormatOf(s, Value(Result[s], s)))

(* A function is called with what a read of the store would give it under the
   frame type it declares, each input in its place, whether it came from the
   cache or from a file, and whoever else reads, writes or changes it. *)
HandedAsStored ==
    \A w \in Workers : \A i \in DOMAIN worker[w].given :
        LET sources == Params[worker[w].step][i] IN
        /\ DOMAIN worker[w].given[i] = DOMAIN sources
        /\ \A j \in DOMAIN sources :
            worker[w].given[i][j].value = ReadBack(Content(sources[j]), FrameOf(w))

(* What is under a path of the store is whole, and what a worker has reported
   is there, in the format and with the hash it reported, its sinks too; crashes,
   failures and the sweeps of other workers do not change that. *)
ReportedIsStored ==
    /\ \A s \in Steps : store[Artifact(s)] \in {NoFile, Content(s)}
    /\ \A r \in reports :
        /\ store[Artifact(r.step)] = Content(r.step)
        /\ r.fmt = Content(r.step).fmt
        /\ r.step \in Sensors => r.hashOf = store[Artifact(r.step)]
        /\ \A i \in DOMAIN r.sinks :
            r.sinks[i] = "ok" =>
                LET file == store[DaemonSinkDest(Sinks[r.step][i].path, r.step)]
                IN  file = Written(Value(Result[r.step], r.step), file.fmt)

AllHeld == UNION {Held(w) : w \in Workers}

(* Only a crash leaves a temporary file behind: every other end of a read or a
   write, well or not, removes it. *)
LeftByCrashesOnly ==
    [][\A t \in Temps : t \in AllHeld /\ t \notin AllHeld' /\ temps'[t].in # "none"
        => \E w \in Workers : t \in Held(w) /\ worker'[w] = Gone]_vars

(* A step fails for a reason of its own: its function raises, a transfer fails,
   or its result cannot be written.  (Departure: a starting worker sweeps the
   files of those at work.) *)
FailsForCause ==
    \A w \in Workers :
        worker[w].at = "error" =>
            \/ faults > 0
            \/ ~Writable(Value(Result[worker[w].step], worker[w].step), Content(worker[w].step).fmt)

=============================================================================
