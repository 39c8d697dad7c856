---------------------------- MODULE StepContract ----------------------------
(***************************************************************************)
(* What a phase of a run promises about its steps, whoever schedules them: *)
(* a step starts when its inputs exist and the steps ordered before it are *)
(* over, it succeeds or fails once, a started step may be put back and     *)
(* started again, and a permanent failure skips exactly the steps that     *)
(* need its output, directly or not.  Module Coordinator implements it     *)
(* alone, module WorkerPool with workers that crash and stop.              *)
(***************************************************************************)
CONSTANTS
    Step,      \* the steps of the phase
    Inputs,    \* Inputs[i]: the steps whose output i reads
    After      \* After[i]: the steps i is only ordered after

VARIABLE status

Status   == {"waiting", "running", "done", "failed", "skipped"}
Over     == {"done", "failed", "skipped"}

TypeInvariant == status \in [Step -> Status]

\* The steps that need i's output, directly or through others: the least set
\* that holds the readers of i and the readers of its own members.
Readers(i) ==
    { d \in Step : \A S \in SUBSET Step :
        (\A x \in Step : Inputs[x] \cap ({i} \cup S) # {} => x \in S) => d \in S }

Init == status = [i \in Step |-> "waiting"]

\* A batch of steps starts.
Start(S) ==
    /\ \A i \in S : /\ status[i] = "waiting"
                    /\ \A u \in Inputs[i] : status[u] = "done"
                    /\ \A u \in After[i]  : status[u] \in Over
    /\ status' = [i \in Step |-> IF i \in S THEN "running" ELSE status[i]]

\* Running steps go back to wait: a retry, or a lease that was never used.
PutBack(S) ==
    /\ \A i \in S : status[i] = "running"
    /\ status' = [i \in Step |-> IF i \in S THEN "waiting" ELSE status[i]]

Succeed(i) ==
    /\ status[i] = "running"
    /\ status' = [status EXCEPT ![i] = "done"]

\* i fails for good; steps its worker held besides are put back.
FailStep(i, S) ==
    /\ status[i] = "running"
    /\ \A j \in S : status[j] = "running" /\ j # i
    /\ status' = [j \in Step |-> IF j = i THEN "failed"
                                 ELSE IF j \in Readers(i) THEN "skipped"
                                 ELSE IF j \in S THEN "waiting"
                                 ELSE status[j]]

Next ==
    \/ \E S \in SUBSET Step : Start(S) \/ PutBack(S)
    \/ \E i \in Step : Succeed(i) \/ \E S \in SUBSET Step : FailStep(i, S)

Spec == Init /\ [][Next]_status
=============================================================================
