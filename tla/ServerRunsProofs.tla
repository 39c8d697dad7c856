-------------------------- MODULE ServerRunsProofs --------------------------
(***************************************************************************)
(* What is proved of the server's runs for any jobs, crons, slots and      *)
(* bounds: the recorded end of a run tells what ended it, the passes of a  *)
(* scheduled job do not overlap, and with a prompt scheduler no tick is    *)
(* lost.                                                                   *)
(***************************************************************************)
EXTENDS ServerRuns, FiniteSetTheorems, TLAPS

Status == {"none", "pending", "running"} \cup Finished
Stage  == {"none", "queued", "working", "persisting", "over"}
Alive(r) == task[r] \in {"queued", "working", "persisting"}

TypeOK ==
    /\ server \in {"up", "stopping", "down"}
    /\ issued \in 0 .. MaxRuns
    /\ runs \in [Handle -> Status] /\ task \in [Handle -> Stage]
    /\ target \in [Handle -> Jobs \cup {None}]
    /\ cancelled \in SUBSET Handle /\ cut \in SUBSET Handle
    /\ timed_out \in [Handle -> {"early", "yes", "no"}]
    /\ cause \in [Handle -> {"no", "client", "deadline"}]
    /\ now \in Nat /\ seen \in Nat
    /\ sched \in {"loading", "catch_up", "tick", "sleep"}
    /\ todo \in SUBSET Jobs /\ firing \in Jobs \cup {None}
    /\ last_handle \in [Jobs -> Handle \cup {None}]
    /\ saved \in [Jobs -> Nat \cup {None}]
    /\ since \in [Jobs -> Nat \cup {None}]
    /\ handled \in [Jobs -> Nat \cup {None}]

\* A run has a task while its record says that it is in flight, and the
\* handles not given out have neither.
RecordsFollowTasks ==
    \A r \in Handle :
        /\ InFlight(r) <=> Alive(r)
        /\ r > issued => runs[r] = "none" /\ task[r] = "none"

\* A cancelled token has a cause, and a deadline is the cause exactly of the
\* runs that timed_out says so of.
TokensHaveACause ==
    \A r \in Handle :
        /\ r \in cancelled \cup cut => cause[r] # "no"
        /\ server # "up" /\ Alive(r) => cause[r] # "no"
        /\ timed_out[r] # "early" => r \in Held /\ r \in cancelled
        /\ cause[r] = "deadline" <=> timed_out[r] = "yes"

\* The live run of a job is the last the scheduler started for it, and a job
\* it is about to fire has none.
LastHandleIsLive ==
    /\ \A j \in Jobs : \A r \in Handle :
          Alive(r) /\ target[r] = j => last_handle[j] = r
    /\ \A j \in Jobs : last_handle[j] # None => last_handle[j] <= issued
    /\ sched = "loading" => \A j \in Jobs : last_handle[j] = None
    /\ sched \in {"catch_up", "tick"} =>
          \A j \in todo : last_handle[j] # None => ~ InFlight(last_handle[j])

IInv == TypeOK /\ RecordsFollowTasks /\ TokensHaveACause /\ LastHandleIsLive

-----------------------------------------------------------------------------
(***************************************************************************)
(* The invariant holds at the start and is kept by every action.           *)
(***************************************************************************)
USE SlotsAssumption, JobsAssumption, BoundsAssumption

LEMMA Initially == Init => IInv
<1> SUFFICES ASSUME Init PROVE IInv
    OBVIOUS
<1>1. TypeOK
    BY DEF Init, TypeOK, NoRuns, NoJobs, Handle, Status, Stage, Finished
<1>2. RecordsFollowTasks
    BY DEF Init, RecordsFollowTasks, NoRuns, InFlight, Alive
<1>3. TokensHaveACause
    BY DEF Init, TokensHaveACause, NoRuns, Alive
<1>4. LastHandleIsLive
    BY DEF Init, LastHandleIsLive, NoRuns, NoJobs, Alive
<1> QED
    BY <1>1, <1>2, <1>3, <1>4 DEF IInv

\* A new run: its handle had neither record nor task.
LEMMA SpawnKeepsTypes ==
    ASSUME TypeOK, NEW t \in Jobs \cup {None}, SpawnRun(t)
    PROVE  /\ issued + 1 \in Handle
           /\ issued' \in 0 .. MaxRuns
           /\ runs' \in [Handle -> Status] /\ task' \in [Handle -> Stage]
           /\ target' \in [Handle -> Jobs \cup {None}]
           /\ cancelled' \in SUBSET Handle /\ cut' \in SUBSET Handle
           /\ timed_out' \in [Handle -> {"early", "yes", "no"}]
           /\ cause' \in [Handle -> {"no", "client", "deadline"}]
BY DEF TypeOK, SpawnRun, Handle, Status, Stage

LEMMA SpawnKeepsRecords ==
    ASSUME TypeOK, RecordsFollowTasks, NEW t \in Jobs \cup {None}, SpawnRun(t)
    PROVE  RecordsFollowTasks'
<1>1. issued + 1 \in Handle /\ issued \in Nat
    BY SpawnKeepsTypes DEF TypeOK
<1> SUFFICES ASSUME NEW r \in Handle
             PROVE  /\ InFlight(r)' <=> Alive(r)'
                    /\ r > issued' => runs'[r] = "none" /\ task'[r] = "none"
    BY DEF RecordsFollowTasks
<1>2. CASE r = issued + 1
    BY <1>1, <1>2 DEF TypeOK, SpawnRun, InFlight, Alive
<1>3. CASE r # issued + 1
    <2>1. runs'[r] = runs[r] /\ task'[r] = task[r]
        BY <1>1, <1>3 DEF TypeOK, SpawnRun
    <2>2. r > issued' => r > issued
        BY <1>1 DEF SpawnRun, Handle
    <2> QED
        BY <2>1, <2>2 DEF RecordsFollowTasks, InFlight, Alive
<1> QED
    BY <1>2, <1>3

LEMMA SpawnKeepsCauses ==
    ASSUME TypeOK, RecordsFollowTasks, TokensHaveACause,
           NEW t \in Jobs \cup {None}, SpawnRun(t), UNCHANGED server
    PROVE  TokensHaveACause'
<1>1. issued + 1 \in Handle /\ issued \in Nat
    BY SpawnKeepsTypes DEF TypeOK
<1>2. task[issued + 1] = "none"
    BY <1>1 DEF RecordsFollowTasks
<1>3. timed_out[issued + 1] = "early" /\ cause[issued + 1] # "deadline"
    BY <1>1, <1>2 DEF TokensHaveACause, Held
<1> SUFFICES ASSUME NEW r \in Handle
             PROVE  /\ r \in cancelled' \cup cut' => cause'[r] # "no"
                    /\ server' # "up" /\ Alive(r)' => cause'[r] # "no"
                    /\ timed_out'[r] # "early" => r \in Held' /\ r \in cancelled'
                    /\ cause'[r] = "deadline" <=> timed_out'[r] = "yes"
    BY DEF TokensHaveACause
<1>4. CASE r = issued + 1
    BY <1>1, <1>3, <1>4 DEF TypeOK, SpawnRun, TokensHaveACause
<1>5. CASE r # issued + 1
    <2>1. task'[r] = task[r] /\ cause'[r] = cause[r]
        BY <1>1, <1>5 DEF TypeOK, SpawnRun
    <2> QED
        BY <2>1 DEF SpawnRun, TokensHaveACause, Alive, Held
<1> QED
    BY <1>4, <1>5

\* The end of a run: it is not alive any more, and no token of it is left.
LEMMA OverKeepsTypes ==
    ASSUME TypeOK, NEW r \in Handle, NEW s \in Finished, TaskOver(r, s)
    PROVE  /\ runs' \in [Handle -> Status] /\ task' \in [Handle -> Stage]
           /\ target' \in [Handle -> Jobs \cup {None}]
           /\ cancelled' \in SUBSET Handle /\ cut' \in SUBSET Handle
           /\ timed_out' \in [Handle -> {"early", "yes", "no"}]
           /\ cause' \in [Handle -> {"no", "client", "deadline"}]
BY DEF TypeOK, TaskOver, Status, Stage

LEMMA OverKeepsRecords ==
    ASSUME TypeOK, RecordsFollowTasks, TokensHaveACause,
           NEW r \in Handle, Alive(r), NEW s \in Finished, TaskOver(r, s),
           UNCHANGED server
    PROVE  RecordsFollowTasks' /\ TokensHaveACause'
<1>1. ASSUME NEW x \in Handle, x # r
      PROVE  /\ runs'[x] = runs[x] /\ task'[x] = task[x] /\ cause'[x] = cause[x]
             /\ timed_out'[x] = timed_out[x]
             /\ x \in cancelled' <=> x \in cancelled
             /\ x \in cut' <=> x \in cut
    BY <1>1 DEF TypeOK, TaskOver
<1>2. /\ runs'[r] = s /\ task'[r] = "over" /\ cause'[r] = "no"
      /\ timed_out'[r] = "early" /\ r \notin cancelled' /\ r \notin cut'
    BY DEF TypeOK, TaskOver
<1>3. ~ (r > issued)
    BY DEF RecordsFollowTasks, Alive
<1>4. RecordsFollowTasks'
    BY <1>1, <1>2, <1>3 DEF RecordsFollowTasks, InFlight, Alive, Finished, TaskOver
<1>5. TokensHaveACause'
    BY <1>1, <1>2 DEF TokensHaveACause, Alive, Held
<1> QED
    BY <1>4, <1>5

LEMMA TypesKept == TypeOK /\ [Next]_vars => TypeOK'
<1> SUFFICES ASSUME TypeOK, [Next]_vars PROVE TypeOK'
    OBVIOUS
<1>1. CASE Post
    BY <1>1, SpawnKeepsTypes DEF Post, TypeOK, clock
<1>2. CASE Stop \/ Exit
    BY <1>2 DEF Stop, Exit, TypeOK, tasks, clock
<1>3. CASE Crash \/ Start
    BY <1>3 DEF Crash, Start, Memory, TypeOK, NoRuns, NoJobs, Status, Stage, Handle
<1>4. ASSUME NEW r \in Handle, Begin(r) PROVE TypeOK'
    <2>1. CASE Cancelled(r)
        <3>1. TaskOver(r, "cancelled") /\ "cancelled" \in Finished
            BY <1>4, <2>1 DEF Begin, Finished
        <3> QED
            BY <1>4, <3>1, OverKeepsTypes DEF Begin, TaskOver, TypeOK, clock
    <2>2. CASE ~ Cancelled(r)
        BY <1>4, <2>2 DEF Begin, TypeOK, clock, Status, Stage
    <2> QED
        BY <2>1, <2>2
<1>5. ASSUME NEW r \in Handle, Finish(r) PROVE TypeOK'
    <2>1. PICK o \in Outcomes(r) : TaskOver(r, EndOf(r, o))
        BY <1>5 DEF Finish
    <2>2. EndOf(r, o) \in Finished
        BY DEF EndOf, Outcomes, Finished
    <2> QED
        BY <1>5, <2>1, <2>2, OverKeepsTypes DEF Finish, TaskOver, TypeOK, clock
<1>6. ASSUME NEW r \in Handle, StepsEnd(r) \/ Deadline(r) \/ Evict(r) \/ Cancel(r)
      PROVE  TypeOK'
    BY <1>6 DEF StepsEnd, Deadline, Evict, Cancel, TypeOK, clock, Status, Stage
<1>7. ASSUME NEW j \in Jobs, FireDue(j) PROVE TypeOK'
    BY <1>7, SpawnKeepsTypes DEF FireDue, Fire, SpawnRun, TypeOK
<1>8. ASSUME NEW j \in Jobs, CatchUp(j) PROVE TypeOK'
    <2>1. CASE saved[j] # None /\ NeedsCatchUp(j)
        <3>1. Fire(j) /\ todo' = todo \ {j} /\ UNCHANGED <<server, now, seen, sched, saved, since>>
            BY <1>8, <2>1 DEF CatchUp
        <3> QED
            BY <3>1, SpawnKeepsTypes DEF Fire, SpawnRun, TypeOK
    <2>2. CASE ~ (saved[j] # None /\ NeedsCatchUp(j))
        BY <1>8, <2>2 DEF CatchUp, TypeOK, tasks
    <2> QED
        BY <2>1, <2>2
<1>9. CASE StartCatchUp \/ Tick \/ PersistFired \/ SleepAgain \/ Second
    BY <1>9 DEF StartCatchUp, Tick, PersistFired, SleepAgain, Second, TypeOK, tasks
<1>10. CASE UNCHANGED vars
    BY <1>10 DEF vars, tasks, clock, TypeOK
<1> QED
    BY <1>1, <1>2, <1>3, <1>4, <1>5, <1>6, <1>7, <1>8, <1>9, <1>10 DEF Next

LEMMA RecordsKept == IInv /\ [Next]_vars => RecordsFollowTasks' /\ TokensHaveACause'
<1> SUFFICES ASSUME IInv, [Next]_vars PROVE RecordsFollowTasks' /\ TokensHaveACause'
    OBVIOUS
<1> USE DEF IInv
<1>1. CASE Post
    BY <1>1, SpawnKeepsRecords, SpawnKeepsCauses DEF Post
<1>2. CASE Stop
    <2>1. RecordsFollowTasks'
        BY <1>2 DEF Stop, RecordsFollowTasks, InFlight, Alive
    <2>2. ASSUME NEW r \in Handle
          PROVE  cause'[r] = IF InFlight(r) /\ r \notin cancelled THEN "client" ELSE cause[r]
        BY <1>2 DEF Stop
    <2>3. ASSUME NEW r \in Handle, InFlight(r), r \notin cancelled
          PROVE  timed_out[r] = "early" /\ cause[r] # "deadline"
        BY <2>3 DEF TokensHaveACause
    <2>4. TokensHaveACause'
        BY <1>2, <2>2, <2>3 DEF Stop, TokensHaveACause, RecordsFollowTasks, Alive, Held
    <2> QED
        BY <2>1, <2>4
<1>3. CASE Exit
    <2>1. server # "up"
        BY <1>3 DEF Exit
    <2>2. UNCHANGED tasks
        BY <1>3 DEF Exit
    <2> QED
        BY <2>1, <2>2 DEF tasks, RecordsFollowTasks, TokensHaveACause, InFlight, Alive, Held
<1>4. CASE Crash \/ Start
    BY <1>4 DEF Crash, Start, Memory, NoRuns, RecordsFollowTasks, TokensHaveACause,
                InFlight, Alive, Held
<1>5. ASSUME NEW r \in Handle, Begin(r)
      PROVE  RecordsFollowTasks' /\ TokensHaveACause'
    <2>1. CASE Cancelled(r)
        <3>1. TaskOver(r, "cancelled") /\ "cancelled" \in Finished /\ Alive(r)
            BY <1>5, <2>1 DEF Begin, Finished, Alive
        <3> QED
            BY <1>5, <3>1, OverKeepsRecords DEF Begin
    <2>2. CASE ~ Cancelled(r)
        <3>1. /\ runs' = [runs EXCEPT ![r] = "running"]
              /\ task' = [task EXCEPT ![r] = "working"]
              /\ task[r] = "queued" /\ server = "up"
              /\ UNCHANGED <<server, issued, cancelled, cut, timed_out, cause>>
            BY <1>5, <2>2 DEF Begin, Cancelled
        <3>2. ASSUME NEW x \in Handle
              PROVE  /\ x # r => runs'[x] = runs[x] /\ task'[x] = task[x]
                     /\ x = r => runs'[x] = "running" /\ task'[x] = "working"
            BY <3>1 DEF TypeOK
        <3> QED
            BY <3>1, <3>2 DEF RecordsFollowTasks, TokensHaveACause, InFlight, Alive, Held
    <2> QED
        BY <2>1, <2>2
<1>6. ASSUME NEW r \in Handle, Finish(r)
      PROVE  RecordsFollowTasks' /\ TokensHaveACause'
    <2>1. PICK o \in Outcomes(r) : TaskOver(r, EndOf(r, o))
        BY <1>6 DEF Finish
    <2>2. EndOf(r, o) \in Finished
        BY DEF EndOf, Outcomes, Finished
    <2>3. Alive(r)
        BY <1>6 DEF Finish, Held, Alive
    <2> QED
        BY <1>6, <2>1, <2>2, <2>3, OverKeepsRecords DEF Finish
<1>7. ASSUME NEW r \in Handle, StepsEnd(r)
      PROVE  RecordsFollowTasks' /\ TokensHaveACause'
    <2>1. ASSUME NEW x \in Handle
          PROVE  /\ x # r => task'[x] = task[x] /\ (x \in cut' <=> x \in cut)
                 /\ x = r => task[x] = "working" /\ task'[x] = "persisting"
                 /\ x \in cut' => x \in cut \/ x \in cancelled \/ (server # "up" /\ x = r)
        BY <1>7 DEF StepsEnd, TypeOK, Cancelled
    <2>2. UNCHANGED <<server, issued, runs, cancelled, timed_out, cause>>
        BY <1>7 DEF StepsEnd
    <2> QED
        BY <2>1, <2>2 DEF RecordsFollowTasks, TokensHaveACause, InFlight, Alive, Held
<1>8. ASSUME NEW r \in Handle, Deadline(r)
      PROVE  RecordsFollowTasks' /\ TokensHaveACause'
    <2>1. UNCHANGED <<server, issued, runs, task, cut>> /\ r \in Held
          /\ timed_out[r] = "early" /\ cancelled' = cancelled \cup {r}
        BY <1>8 DEF Deadline
    <2>2. ASSUME NEW x \in Handle
          PROVE  /\ x # r => timed_out'[x] = timed_out[x] /\ cause'[x] = cause[x]
                 /\ x = r => IF Cancelled(r)
                             THEN timed_out'[x] = "no" /\ cause'[x] = cause[x]
                             ELSE timed_out'[x] = "yes" /\ cause'[x] = "deadline"
        BY <1>8 DEF Deadline, TypeOK
    <2> QED
        BY <2>1, <2>2 DEF RecordsFollowTasks, TokensHaveACause, InFlight, Alive, Held,
                          Cancelled
<1>9. ASSUME NEW r \in Handle, Evict(r)
      PROVE  RecordsFollowTasks' /\ TokensHaveACause'
    <2>1. ASSUME NEW x \in Handle
          PROVE  (x # r => runs'[x] = runs[x]) /\ (x = r => runs'[x] = "none")
        BY <1>9 DEF Evict, TypeOK
    <2> QED
        BY <1>9, <2>1 DEF Evict, RecordsFollowTasks, TokensHaveACause, InFlight, Alive,
                          Held, Finished
<1>10. ASSUME NEW r \in Handle, Cancel(r)
       PROVE  RecordsFollowTasks' /\ TokensHaveACause'
    <2>1. ASSUME NEW x \in Handle
          PROVE  (x # r => cause'[x] = cause[x]) /\ (x = r => cause'[x] = "client")
        BY <1>10 DEF Cancel, TypeOK
    <2> QED
        BY <1>10, <2>1 DEF Cancel, RecordsFollowTasks, TokensHaveACause, InFlight, Alive,
                           Held
<1>11. ASSUME NEW j \in Jobs, FireDue(j) \/ CatchUp(j)
       PROVE  RecordsFollowTasks' /\ TokensHaveACause'
    <2>1. CASE SpawnRun(j)
        BY <1>11, <2>1, SpawnKeepsRecords, SpawnKeepsCauses DEF FireDue, CatchUp
    <2>2. CASE UNCHANGED tasks
        BY <1>11, <2>2 DEF FireDue, CatchUp, tasks, RecordsFollowTasks, TokensHaveACause,
                           InFlight, Alive, Held
    <2> QED
        BY <1>11, <2>1, <2>2 DEF FireDue, CatchUp, Fire, tasks
<1>12. CASE StartCatchUp \/ Tick \/ PersistFired \/ SleepAgain \/ Second \/ UNCHANGED vars
    <2>1. UNCHANGED <<server, tasks>>
        BY <1>12 DEF StartCatchUp, Tick, PersistFired, SleepAgain, Second, vars
    <2> QED
        BY <2>1 DEF tasks, RecordsFollowTasks, TokensHaveACause, InFlight, Alive, Held
<1> QED
    BY <1>1, <1>2, <1>3, <1>4, <1>5, <1>6, <1>7, <1>8, <1>9, <1>10, <1>11, <1>12 DEF Next

\* Steps that start no run and fire nothing only make fewer runs live.
LEMMA FewerLive ==
    ASSUME IInv, LastHandleIsLive,
           \A r \in Handle : /\ Alive(r)' => Alive(r) /\ target'[r] = target[r]
                             /\ InFlight(r)' => InFlight(r),
           UNCHANGED <<issued, last_handle, sched, todo>>
    PROVE  LastHandleIsLive'
<1>1. ASSUME NEW j \in Jobs, last_handle'[j] # None
      PROVE  /\ last_handle'[j] \in Handle /\ last_handle'[j] = last_handle[j]
             /\ InFlight(last_handle[j])' => InFlight(last_handle[j])
    <2>1. last_handle'[j] = last_handle[j] /\ last_handle[j] \in Handle
        BY <1>1 DEF IInv, TypeOK
    <2> QED
        BY <2>1 DEF InFlight, Alive
<1>2. \A j \in Jobs : \A r \in Handle : Alive(r)' /\ target'[r] = j => last_handle'[j] = r
    BY DEF LastHandleIsLive, Alive
<1>3. todo' \subseteq Jobs
    BY DEF IInv, TypeOK
<1> QED
    BY <1>1, <1>2, <1>3 DEF LastHandleIsLive, InFlight

\* A job fires when it has no live run.
LEMMA FireKeepsLast ==
    ASSUME IInv, NEW j \in todo, Fire(j), sched \in {"catch_up", "tick"},
           UNCHANGED sched, todo' = todo \ {j}
    PROVE  LastHandleIsLive'
<1> USE DEF IInv
<1>1. /\ issued + 1 \in Handle /\ issued \in Nat /\ issued' = issued + 1
      /\ j \in Jobs /\ None \notin Handle
    BY SpawnKeepsTypes DEF Fire, SpawnRun, TypeOK, Handle
<1>2. ASSUME NEW r \in Handle, r # issued + 1
      PROVE  runs'[r] = runs[r] /\ task'[r] = task[r] /\ target'[r] = target[r]
    BY <1>1, <1>2 DEF Fire, SpawnRun, TypeOK
<1>3. target'[issued + 1] = j /\ last_handle'[j] = issued + 1
    BY <1>1 DEF Fire, SpawnRun, TypeOK
<1>4. ASSUME NEW i \in Jobs, i # j PROVE last_handle'[i] = last_handle[i]
    BY <1>1, <1>4 DEF Fire, TypeOK
<1>5. ASSUME NEW r \in Handle, Alive(r) PROVE target[r] # j
    BY <1>5, <1>1 DEF LastHandleIsLive, RecordsFollowTasks
<1>6. ASSUME NEW i \in Jobs, NEW r \in Handle, Alive(r)', target'[r] = i
      PROVE  last_handle'[i] = r
    <2>1. CASE r = issued + 1
        BY <1>3, <1>6, <2>1
    <2>2. CASE r # issued + 1
        BY <1>2, <1>4, <1>5, <1>6, <2>2 DEF LastHandleIsLive, Alive
    <2> QED
        BY <2>1, <2>2
<1>7. ASSUME NEW i \in Jobs, last_handle'[i] # None PROVE last_handle'[i] <= issued'
    <2>1. CASE i = j
        BY <1>1, <1>3, <2>1
    <2>2. CASE i # j
        <3>1. last_handle[i] \in Handle /\ last_handle[i] <= issued
            BY <1>4, <1>7, <2>2 DEF LastHandleIsLive, TypeOK
        <3> QED
            BY <1>1, <1>4, <2>2, <3>1 DEF Handle
    <2> QED
        BY <2>1, <2>2
<1>8. ASSUME NEW i \in todo', last_handle'[i] # None
      PROVE  runs'[last_handle'[i]] \notin {"pending", "running"}
    <2>1. i \in todo /\ i # j /\ i \in Jobs
        BY <1>8 DEF TypeOK
    <2>2. last_handle'[i] = last_handle[i] /\ last_handle[i] \in Handle
        BY <1>4, <1>8, <2>1 DEF TypeOK
    <2>3. last_handle[i] # issued + 1 /\ ~ InFlight(last_handle[i])
        BY <1>1, <1>8, <2>1, <2>2 DEF LastHandleIsLive, Handle
    <2> QED
        BY <1>2, <2>2, <2>3 DEF InFlight
<1> QED
    BY <1>6, <1>7, <1>8 DEF LastHandleIsLive, InFlight

LEMMA LastKept == IInv /\ [Next]_vars => LastHandleIsLive'
<1> SUFFICES ASSUME IInv, [Next]_vars PROVE LastHandleIsLive'
    OBVIOUS
<1> USE DEF IInv
<1>1. CASE Post
    <2>1. /\ issued + 1 \in Handle /\ issued \in Nat /\ issued' = issued + 1
          /\ None \notin Handle
        BY <1>1, SpawnKeepsTypes DEF Post, SpawnRun, TypeOK, Handle
    <2>2. ASSUME NEW r \in Handle, r # issued + 1
          PROVE  runs'[r] = runs[r] /\ task'[r] = task[r] /\ target'[r] = target[r]
        BY <1>1, <2>1, <2>2 DEF Post, SpawnRun, TypeOK
    <2>3. target'[issued + 1] = None
        BY <1>1, <2>1 DEF Post, SpawnRun, TypeOK
    <2>4. UNCHANGED <<last_handle, sched, todo>>
        BY <1>1 DEF Post, clock
    <2>5. \A j \in Jobs : \A r \in Handle : Alive(r)' /\ target'[r] = j => last_handle'[j] = r
        BY <2>2, <2>3, <2>4 DEF LastHandleIsLive, Alive
    <2>6. ASSUME NEW j \in Jobs, last_handle'[j] # None
          PROVE  /\ last_handle'[j] <= issued'
                 /\ ~ InFlight(last_handle[j]) =>
                       runs'[last_handle'[j]] \notin {"pending", "running"}
        <3>1. last_handle[j] \in Handle /\ last_handle[j] <= issued
            BY <2>4, <2>6 DEF LastHandleIsLive, TypeOK
        <3> QED
            BY <2>1, <2>2, <2>4, <3>1 DEF InFlight, Handle
    <2> QED
        BY <2>4, <2>5, <2>6 DEF LastHandleIsLive, TypeOK, InFlight
<1>2. CASE Crash \/ Start
    BY <1>2 DEF Crash, Start, Memory, NoRuns, NoJobs, LastHandleIsLive, Alive
<1>3. ASSUME NEW r \in Handle, NEW s \in Finished, TaskOver(r, s), UNCHANGED clock
      PROVE  LastHandleIsLive'
    <2>1. ASSUME NEW x \in Handle
          PROVE  /\ x # r => /\ runs'[x] = runs[x] /\ task'[x] = task[x]
                             /\ target'[x] = target[x]
                 /\ x = r => runs'[x] = s /\ task'[x] = "over"
        BY <1>3 DEF TaskOver, TypeOK
    <2> QED
        BY <1>3, <2>1, FewerLive DEF TaskOver, clock, Alive, InFlight, Finished
<1>4. ASSUME NEW r \in Handle, Begin(r) PROVE LastHandleIsLive'
    <2>1. CASE Cancelled(r)
        BY <1>3, <1>4, <2>1 DEF Begin, Finished
    <2>2. CASE ~ Cancelled(r)
        <3>1. ASSUME NEW x \in Handle
              PROVE  x # r => runs'[x] = runs[x] /\ task'[x] = task[x]
            BY <1>4, <2>2 DEF Begin, TypeOK
        <3>2. Alive(r) /\ InFlight(r) /\ UNCHANGED <<issued, target, clock>>
            BY <1>4, <2>2 DEF Begin, Alive, RecordsFollowTasks
        <3> QED
            BY <3>1, <3>2, FewerLive DEF clock, Alive, InFlight
    <2> QED
        BY <2>1, <2>2
<1>5. ASSUME NEW r \in Handle, Finish(r) PROVE LastHandleIsLive'
    <2>1. PICK o \in Outcomes(r) : TaskOver(r, EndOf(r, o))
        BY <1>5 DEF Finish
    <2>2. EndOf(r, o) \in Finished
        BY DEF EndOf, Outcomes, Finished
    <2> QED
        BY <1>3, <1>5, <2>1, <2>2 DEF Finish
<1>6. ASSUME NEW r \in Handle, StepsEnd(r) PROVE LastHandleIsLive'
    <2>1. ASSUME NEW x \in Handle PROVE Alive(x)' => Alive(x)
        BY <1>6 DEF StepsEnd, TypeOK, Alive
    <2> QED
        BY <1>6, <2>1, FewerLive DEF StepsEnd, clock, InFlight
<1>7. ASSUME NEW r \in Handle, Evict(r) PROVE LastHandleIsLive'
    <2>1. ASSUME NEW x \in Handle PROVE InFlight(x)' => InFlight(x)
        BY <1>7 DEF Evict, TypeOK, InFlight
    <2> QED
        BY <1>7, <2>1, FewerLive DEF Evict, clock, Alive
<1>8. CASE \/ Stop \/ Exit \/ Second \/ UNCHANGED vars
           \/ \E r \in Handle : Deadline(r) \/ Cancel(r)
    <2>1. UNCHANGED <<runs, task, target, issued, last_handle, sched, todo>>
        BY <1>8 DEF Stop, Exit, Second, Deadline, Cancel, vars, tasks, clock
    <2> QED
        BY <2>1, FewerLive DEF Alive, InFlight
<1>9. ASSUME NEW j \in Jobs, FireDue(j) PROVE LastHandleIsLive'
    BY <1>9, FireKeepsLast DEF FireDue
<1>10. ASSUME NEW j \in Jobs, CatchUp(j) PROVE LastHandleIsLive'
    <2>1. CASE saved[j] # None /\ NeedsCatchUp(j)
        BY <1>10, <2>1, FireKeepsLast DEF CatchUp
    <2>2. CASE ~ (saved[j] # None /\ NeedsCatchUp(j))
        BY <1>10, <2>2 DEF CatchUp, tasks, LastHandleIsLive, Alive, InFlight
    <2> QED
        BY <2>1, <2>2
<1>11. CASE StartCatchUp \/ PersistFired \/ SleepAgain
    BY <1>11 DEF StartCatchUp, PersistFired, SleepAgain, tasks, LastHandleIsLive, TypeOK,
                 Alive, InFlight
<1>12. CASE Tick
    BY <1>12 DEF Tick, tasks, LastHandleIsLive, TypeOK, Alive, InFlight, Skips
<1> QED
    BY <1>1, <1>2, <1>4, <1>5, <1>6, <1>7, <1>8, <1>9, <1>10, <1>11, <1>12 DEF Next

\* The server's runs keep their invariant.
THEOREM Invariant == Spec => []IInv
<1>1. Init => IInv
    BY Initially
<1>2. IInv /\ [Next]_vars => IInv'
    BY TypesKept, RecordsKept, LastKept DEF IInv
<1> QED
    BY <1>1, <1>2, PTL DEF Spec

\* The recorded end of a run tells what ended it and is final, for any number
\* of runs and slots: a cancellation before the deadline is never reported as
\* a timeout, nor a deadline as a cancellation, nor a run cut short as
\* complete (spawn_run of handlers.rs).
THEOREM EndsTold == Spec => EndsAsCaused
<1> DEFINE Told(r) ==
        /\ runs[r] \in Finished => runs'[r] = "none"
        /\ runs'[r] = "cancelled" => cause[r] = "client"
        /\ runs'[r] = "timed_out" => cause[r] = "deadline"
        /\ runs'[r] = "complete"  => r \notin cut
<1>1. ASSUME IInv, Next, NEW x \in Handle, runs'[x] # runs[x] PROVE Told(x)
    <2> USE <1>1 DEF IInv
    <2>1. ASSUME NEW t \in Jobs \cup {None}, SpawnRun(t) PROVE Told(x)
        <3>1. issued + 1 \in Handle /\ issued \in Nat /\ issued + 1 > issued
            BY <2>1, SpawnKeepsTypes DEF TypeOK
        <3>2. x = issued + 1 /\ runs'[x] = "pending"
            BY <2>1, <3>1 DEF SpawnRun, TypeOK
        <3>3. runs[x] = "none"
            BY <3>1, <3>2 DEF RecordsFollowTasks
        <3> QED
            BY <3>2, <3>3 DEF Finished
    <2>2. CASE Post
        BY <2>1, <2>2 DEF Post
    <2>3. ASSUME NEW j \in Jobs, FireDue(j) \/ CatchUp(j) PROVE Told(x)
        BY <2>1, <2>3 DEF FireDue, CatchUp, Fire, tasks
    <2>4. CASE Crash \/ Start
        BY <2>4 DEF Crash, Start, Memory, NoRuns
    <2>5. ASSUME NEW r \in Handle, NEW s \in Status, Alive(r),
                 runs' = [runs EXCEPT ![r] = s],
                 s = "cancelled" => cause[r] = "client",
                 s = "timed_out" => cause[r] = "deadline",
                 s = "complete"  => r \notin cut
          PROVE  Told(x)
        <3>1. x = r /\ runs'[x] = s
            BY <2>5 DEF TypeOK
        <3>2. runs[r] \notin Finished
            BY <2>5 DEF RecordsFollowTasks, InFlight, Finished
        <3> QED
            BY <2>5, <3>1, <3>2
    <2>6. ASSUME NEW r \in Handle, Begin(r) PROVE Told(x)
        <3>1. Alive(r) /\ task[r] = "queued"
            BY <2>6 DEF Begin, Alive
        <3>2. CASE Cancelled(r)
            <4>1. cause[r] # "no"
                BY <3>1, <3>2 DEF TokensHaveACause, Cancelled
            <4>2. cause[r] # "deadline"
                BY <3>1 DEF TokensHaveACause, Held
            <4>3. cause[r] = "client"
                BY <4>1, <4>2 DEF TypeOK
            <4>4. runs' = [runs EXCEPT ![r] = "cancelled"] /\ "cancelled" \in Status
                BY <2>6, <3>2 DEF Begin, TaskOver, Status, Finished
            <4> QED
                BY <2>5, <3>1, <4>3, <4>4
        <3>3. CASE ~ Cancelled(r)
            <4>1. runs' = [runs EXCEPT ![r] = "running"] /\ "running" \in Status
                BY <2>6, <3>3 DEF Begin, Status
            <4> QED
                BY <2>5, <3>1, <4>1
        <3> QED
            BY <3>2, <3>3
    <2>7. ASSUME NEW r \in Handle, Finish(r) PROVE Told(x)
        <3>1. PICK o \in Outcomes(r) : TaskOver(r, EndOf(r, o))
            BY <2>7 DEF Finish
        <3>2. Alive(r) /\ runs' = [runs EXCEPT ![r] = EndOf(r, o)]
            BY <2>7, <3>1 DEF Finish, Held, Alive, TaskOver
        <3>3. o \in {"error"} \/ (o = "cancelled" /\ r \in cut) \/ (o = "ok" /\ r \notin cut)
            BY DEF Outcomes
        <3>4. /\ r \in cut => cause[r] # "no"
              /\ cause[r] = "deadline" <=> timed_out[r] = "yes"
              /\ cause[r] \in {"no", "client", "deadline"}
            BY DEF TokensHaveACause, TypeOK
        <3>5. /\ EndOf(r, o) = "cancelled" => cause[r] = "client"
              /\ EndOf(r, o) = "timed_out" => cause[r] = "deadline"
              /\ EndOf(r, o) = "complete"  => r \notin cut
              /\ EndOf(r, o) \in Status
            BY <3>3, <3>4 DEF EndOf, Status, Finished
        <3> QED
            BY <2>5, <3>2, <3>5
    <2>8. ASSUME NEW r \in Handle, Evict(r) PROVE Told(x)
        BY <2>8 DEF Evict, TypeOK
    <2>9. CASE \/ StartCatchUp \/ Tick \/ PersistFired \/ SleepAgain \/ Second
               \/ Stop \/ Exit
               \/ \E r \in Handle : StepsEnd(r) \/ Deadline(r) \/ Cancel(r)
        <3>1. UNCHANGED runs
            BY <2>9 DEF StartCatchUp, Tick, PersistFired, SleepAgain, Second, Stop, Exit,
                        StepsEnd, Deadline, Cancel, tasks
        <3> QED
            BY <3>1
    <2> QED
        BY <2>2, <2>3, <2>4, <2>6, <2>7, <2>8, <2>9 DEF Next
<1>2. IInv /\ [Next]_vars =>
          [\A r \in Handle : runs'[r] # runs[r] => Told(r)]_vars
    BY <1>1
<1>3. IInv /\ [Next]_vars =>
          [\A r \in Handle : runs'[r] # runs[r] =>
              /\ runs[r] \in Finished => runs'[r] = "none"
              /\ runs'[r] = "cancelled" => cause[r] = "client"
              /\ runs'[r] = "timed_out" => cause[r] = "deadline"
              /\ runs'[r] = "complete"  => r \notin cut]_vars
    BY <1>2
<1> QED
    BY <1>3, Invariant, PTL DEF Spec, EndsAsCaused

\* Passes of a scheduled job do not overlap, for any jobs, crons and slots, and
\* whatever is swept, crashes or waits for a slot (plan_tick and is_in_flight of
\* scheduler.rs).
THEOREM NoOverlap == Spec => []JobsNeverOverlap
<1>1. IInv => JobsNeverOverlap
    <2> SUFFICES ASSUME IInv, NEW j \in Jobs
                 PROVE  Cardinality({ r \in Handle : /\ target[r] = j
                                                     /\ task[r] \notin {"none", "over"} }) <= 1
        BY DEF JobsNeverOverlap
    <2> DEFINE Live == { r \in Handle : target[r] = j /\ task[r] \notin {"none", "over"} }
    <2>1. Live \subseteq {last_handle[j]}
        BY DEF IInv, LastHandleIsLive, Alive, TypeOK, Stage
    <2>2. IsFiniteSet({last_handle[j]}) /\ Cardinality({last_handle[j]}) = 1
        BY FS_Singleton
    <2>3. IsFiniteSet(Live) /\ Cardinality(Live) <= Cardinality({last_handle[j]})
        BY <2>1, <2>2, FS_Subset
    <2> QED
        BY <2>2, <2>3
<1> QED
    BY <1>1, Invariant, PTL

-----------------------------------------------------------------------------
(***************************************************************************)
(* No tick is lost while the scheduler is prompt.                          *)
(***************************************************************************)
\* The ticks of j up to t that count were fired for or skipped.
Covered(j, t) ==
    since[j] # None =>
        \A d \in Due[j] : since[j] < d /\ d <= t => handled[j] # None /\ d <= handled[j]

\* The scheduler reads the clock before the second is over.
Prompt ==
    /\ server # "down" /\ sched \in {"catch_up", "tick"} => seen = now
    /\ server # "down" /\ sched = "sleep" => seen <= now /\ now <= seen + 1
    /\ \A j \in Jobs : saved[j] # None => saved[j] <= now

\* All ticks up to the record in the database are covered, those up to the
\* second it has read for every job the scheduler is done with.
Accounted ==
    /\ \A j \in Jobs : since[j] # None => saved[j] # None /\ Covered(j, saved[j])
    /\ sched \in {"catch_up", "tick"} => \A j \in Jobs \ (todo \cup {firing}) : Covered(j, seen)
    /\ sched = "sleep" => \A j \in Jobs : Covered(j, seen)
    /\ sched \in {"loading", "sleep"} => firing = None
    /\ firing # None => /\ since[firing] # None => handled[firing] = seen
                        /\ firing \notin todo

DInv == TypeOK /\ Prompt /\ Accounted

LEMMA PromptKept == PromptTicks /\ DInv /\ [Next]_vars => Prompt'
<1> SUFFICES ASSUME PromptTicks, DInv, [Next]_vars PROVE Prompt'
    OBVIOUS
<1> USE DEF DInv
<1>1. CASE UNCHANGED <<server, clock>>
    BY <1>1 DEF clock, Prompt
<1>2. CASE Stop \/ Exit
    BY <1>2 DEF Stop, Exit, clock, Prompt
<1>3. CASE Crash \/ Start
    BY <1>3 DEF Crash, Start, Memory, Prompt
<1>4. CASE Second
    BY <1>4 DEF Second, Prompt, TypeOK
<1>5. CASE StartCatchUp \/ Tick \/ SleepAgain
    BY <1>5 DEF StartCatchUp, Tick, SleepAgain, Prompt, TypeOK
<1>6. CASE PersistFired
    <2>1. seen = now /\ firing \in Jobs
        BY <1>6 DEF PersistFired, Prompt, Accounted, TypeOK
    <2> QED
        BY <1>6, <2>1 DEF PersistFired, Prompt, TypeOK
<1>7. ASSUME NEW j \in Jobs, FireDue(j) \/ CatchUp(j) PROVE Prompt'
    BY <1>7 DEF FireDue, CatchUp, Prompt
<1>8. CASE Post \/ \E r \in Handle : \/ Begin(r) \/ StepsEnd(r) \/ Deadline(r)
                                     \/ Finish(r) \/ Evict(r) \/ Cancel(r)
    <2>1. UNCHANGED <<server, clock>>
        BY <1>8 DEF Post, Begin, StepsEnd, Deadline, Finish, Evict, Cancel
    <2> QED
        BY <1>1, <2>1
<1>9. CASE UNCHANGED vars
    BY <1>1, <1>9 DEF vars
<1> QED
    BY <1>2, <1>3, <1>4, <1>5, <1>6, <1>7, <1>8, <1>9 DEF Next

LEMMA FireCovers ==
    ASSUME DInv, NEW j \in todo, Fire(j), firing = None, server # "down",
           sched \in {"catch_up", "tick"}, todo' = todo \ {j},
           UNCHANGED <<sched, seen, saved, since>>
    PROVE  Accounted'
<1> USE DEF DInv
<1>1. j \in Jobs /\ seen = now /\ seen \in Nat /\ None \notin Jobs
    BY DEF Prompt, TypeOK
<1>2. ASSUME NEW i \in Jobs, i # j PROVE handled'[i] = handled[i]
    BY <1>2 DEF Fire, TypeOK
<1>3. handled'[j] = seen /\ firing' = j
    BY <1>1 DEF Fire, TypeOK
<1>4. ASSUME NEW i \in Jobs, since'[i] # None PROVE saved'[i] # None /\ Covered(i, saved[i])'
    <2>1. CASE i = j
        <3>1. saved[j] # None /\ saved[j] <= seen /\ saved[j] \in Nat /\ Due[j] \subseteq Nat
            BY <1>1, <1>4, <2>1 DEF Accounted, Prompt, TypeOK
        <3>2. ASSUME NEW d \in Due[j], d <= saved[j] PROVE d <= seen
            BY <1>1, <3>1, <3>2
        <3> QED
            BY <1>1, <1>3, <2>1, <3>1, <3>2 DEF Covered
    <2>2. CASE i # j
        BY <1>2, <1>4, <2>2 DEF Accounted, Covered
    <2> QED
        BY <2>1, <2>2
<1>5. ASSUME NEW i \in Jobs \ (todo' \cup {firing'}) PROVE Covered(i, seen)'
    BY <1>1, <1>2, <1>3, <1>5 DEF Accounted, Covered
<1> QED
    BY <1>1, <1>3, <1>4, <1>5 DEF Accounted

LEMMA AccountedKept == PromptTicks /\ DInv /\ [Next]_vars => Accounted'
<1> SUFFICES ASSUME PromptTicks, DInv, [Next]_vars PROVE Accounted'
    OBVIOUS
<1> USE DEF DInv
<1>1. CASE UNCHANGED clock
    BY <1>1 DEF clock, Accounted, Covered
<1>2. CASE Second
    BY <1>2 DEF Second, Accounted, Covered
<1>3. CASE Crash \/ Start
    BY <1>3 DEF Crash, Start, Memory, Accounted, Covered
<1>4. CASE StartCatchUp
    BY <1>4 DEF StartCatchUp, Accounted, Covered, TypeOK
<1>5. CASE SleepAgain
    BY <1>5 DEF SleepAgain, Accounted, Covered, TypeOK
<1>6. CASE Tick
    <2>1. ASSUME NEW j \in Jobs
          PROVE  /\ ~ (now \in Due[j] /\ Skips(j)) => handled'[j] = handled[j]
                 /\ now \in Due[j] /\ Skips(j) => handled'[j] = now
                 /\ j \notin todo' => now \notin Due[j] \/ Skips(j)
        BY <1>6 DEF Tick
    <2>2. /\ seen \in Nat /\ now = seen + 1 /\ seen' = now
          /\ UNCHANGED <<since, saved, firing>> /\ sched' = "tick" /\ firing = None
        BY <1>6 DEF Tick, Prompt, TypeOK, Accounted
    <2>3. ASSUME NEW j \in Jobs, since[j] # None
          PROVE  /\ saved[j] # None /\ saved[j] \in Nat /\ saved[j] <= now
                 /\ since[j] \in Nat /\ Due[j] \subseteq Nat
                 /\ Covered(j, saved[j]) /\ Covered(j, seen)
        BY <1>6, <2>3 DEF Tick, Prompt, TypeOK, Accounted
    <2>4. ASSUME NEW j \in Jobs, since[j] # None PROVE Covered(j, saved[j])'
        BY <2>1, <2>2, <2>3, <2>4 DEF Covered
    <2>5. ASSUME NEW j \in Jobs, j \notin todo' PROVE Covered(j, seen)'
        <3>1. CASE now \in Due[j] /\ Skips(j)
            BY <2>1, <2>2, <2>3, <3>1 DEF Covered
        <3>2. CASE now \notin Due[j]
            <4>1. ASSUME since[j] # None, NEW d \in Due[j], d <= now PROVE d <= seen
                BY <2>2, <2>3, <3>2, <4>1
            <4> QED
                BY <2>1, <2>2, <2>3, <3>2, <4>1 DEF Covered
        <3> QED
            BY <2>1, <2>5, <3>1, <3>2
    <2> QED
        BY <2>2, <2>3, <2>4, <2>5 DEF Accounted
<1>7. CASE PersistFired
    <2>1. /\ firing \in Jobs /\ None \notin Jobs /\ seen \in Nat /\ firing' = None
          /\ UNCHANGED <<handled, seen, todo, sched>> /\ sched \in {"catch_up", "tick"}
        BY <1>7 DEF PersistFired, TypeOK, Accounted
    <2>2. PICK f \in Jobs : f = firing
        BY <2>1
    <2>3. ASSUME NEW j \in Jobs, j # f PROVE saved'[j] = saved[j] /\ since'[j] = since[j]
        BY <1>7, <2>2, <2>3 DEF PersistFired, TypeOK
    <2>4. \/ saved'[f] = seen /\ since[f] = None /\ since'[f] = seen
          \/ saved'[f] = seen /\ since[f] # None /\ since'[f] = since[f]
          \/ saved'[f] = saved[f] /\ since'[f] = since[f]
        BY <1>7, <2>1, <2>2 DEF PersistFired, TypeOK
    <2>5. Due[f] \subseteq Nat /\ (since[f] # None => handled[f] = seen)
        BY <2>1, <2>2 DEF Accounted
    <2>6. Covered(f, seen)' /\ (since'[f] # None => saved'[f] # None)
        BY <2>1, <2>2, <2>4, <2>5 DEF Covered, Accounted
    <2>7. Covered(f, saved[f])'
        BY <2>1, <2>2, <2>4, <2>5 DEF Covered, Accounted
    <2>8. ASSUME NEW j \in Jobs, since'[j] # None PROVE saved'[j] # None /\ Covered(j, saved[j])'
        BY <2>1, <2>3, <2>6, <2>7, <2>8 DEF Covered, Accounted
    <2>9. ASSUME NEW j \in Jobs \ todo PROVE Covered(j, seen)'
        BY <2>1, <2>2, <2>3, <2>6, <2>9 DEF Covered, Accounted
    <2> QED
        BY <2>1, <2>8, <2>9 DEF Accounted
<1>8. ASSUME NEW j \in Jobs, FireDue(j) PROVE Accounted'
    BY <1>8, FireCovers DEF FireDue
<1>9. ASSUME NEW j \in Jobs, CatchUp(j) PROVE Accounted'
    <2>1. CASE saved[j] # None /\ NeedsCatchUp(j)
        BY <1>9, <2>1, FireCovers DEF CatchUp
    <2>2. CASE saved[j] = None
        <3>1. /\ firing' = j /\ todo' = todo \ {j} /\ sched = "catch_up" /\ firing = None
              /\ UNCHANGED <<sched, seen, saved, since, handled>>
            BY <1>9, <2>2 DEF CatchUp
        <3>2. since[j] = None
            BY <2>2 DEF Accounted
        <3> QED
            BY <3>1, <3>2 DEF Accounted, Covered, TypeOK
    <2>3. CASE saved[j] # None /\ ~ NeedsCatchUp(j)
        <3>1. /\ firing' = None /\ todo' = todo \ {j} /\ sched = "catch_up" /\ firing = None
              /\ UNCHANGED <<sched, seen, saved, since, handled>>
            BY <1>9, <2>3 DEF CatchUp
        <3>2. /\ saved[j] \in Nat /\ seen \in Nat /\ Due[j] \subseteq Nat
              /\ since[j] # None => Covered(j, saved[j])
            BY <2>3 DEF Accounted, TypeOK
        <3>3. ASSUME NEW d \in Due[j], d <= seen PROVE d <= saved[j]
            BY <2>3, <3>2, <3>3 DEF NeedsCatchUp
        <3>4. Covered(j, seen)
            BY <3>2, <3>3 DEF Covered
        <3> QED
            BY <3>1, <3>4 DEF Accounted, Covered, TypeOK
    <2> QED
        BY <2>1, <2>2, <2>3
<1>10. CASE \/ Post \/ Stop \/ Exit \/ UNCHANGED vars
            \/ \E r \in Handle : \/ Begin(r) \/ StepsEnd(r) \/ Deadline(r)
                               \/ Finish(r) \/ Evict(r) \/ Cancel(r)
    <2>1. UNCHANGED clock
        BY <1>10 DEF Post, Stop, Exit, Begin, StepsEnd, Deadline, Finish, Evict, Cancel, vars
    <2> QED
        BY <1>1, <2>1
<1> QED
    BY <1>2, <1>3, <1>4, <1>5, <1>6, <1>7, <1>8, <1>9, <1>10 DEF Next

\* With a scheduler that is done with every second before the next, no tick of
\* a recorded job is lost, for any jobs and crons, over crashes, restarts and
\* failed writes (run_scheduler of scheduler.rs).
THEOREM NoTickLost == PromptTicks => (Spec => []DueIsFired)
<1> SUFFICES ASSUME PromptTicks PROVE Spec => []DueIsFired
    OBVIOUS
<1>1. Init => DInv
    <2> SUFFICES ASSUME Init PROVE DInv
        OBVIOUS
    <2>1. TypeOK
        BY Initially DEF IInv
    <2> QED
        BY <2>1 DEF Init, DInv, Prompt, Accounted, NoJobs
<1>2. DInv /\ [Next]_vars => DInv'
    BY TypesKept, PromptKept, AccountedKept DEF DInv
<1>3. DInv => DueIsFired
    BY DEF DInv, Accounted, Covered, DueIsFired
<1> QED
    BY <1>1, <1>2, <1>3, PTL DEF Spec
=============================================================================
