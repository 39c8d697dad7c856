---------------------------- MODULE WorkerProcess ----------------------------
(***************************************************************************)
(* One Python worker process and its threads: python/barca/_worker.py,     *)
(* _runtime.py and parallel() of __init__.py.  As a daemon it takes        *)
(* batches of steps from the socket until one fails or it is dismissed; in *)
(* batch mode it runs the steps of a file.  A step with a time limit runs  *)
(* on a thread of its own, which is left behind when the limit passes.     *)
(* All threads share the socket, under one lock that a receiver holds      *)
(* until its message is there.                                             *)
(*                                                                         *)
(* The other end is the I/O loop of crates/barca-core/src/io_loop.rs, as   *)
(* far as this one process sees it; WorkerPool has the rest of it.         *)
(***************************************************************************)
EXTENDS Naturals, Sequences, FiniteSets, SequencesExt

CONSTANTS
    Items,        \* the steps, a partition of a step counting as one
    Node, Key,    \* an item's node, and its partition, NoKey if it has none
    NoKey,
    Inputs,       \* the nodes an item reads
    OrderOnly,    \* of these, those whose parameter begins with `_`
    Timed,        \* items with a time limit
    Calls,        \* how often an item calls parallel() at most
    Hangs,        \* items whose function may never return
    Direct,       \* items with arguments of their own: branches of parallel()
    BatchFile,    \* batch mode: the items, in order
    Batches,      \* the daemon: the batches it may be sent
    MaxBatches,   \* bound: batches sent
    Modes,        \* "daemon", "batch"
    PromptStop    \* a process that submits is stopped before it does anything else

VARIABLES
    mode,
    main,         \* the main thread: where it is, and at which item
    code,         \* where the function of each item is, on the main thread or its own
    calls,        \* calls of parallel() each has made
    lock,         \* who holds _socket_lock
    inbox, outbox,
    todo,         \* the rest of the batch
    available, unavailable,   \* batch mode: the cache's keys, and what failed or was blocked
    stopped,      \* by SIGSTOP
    exec,         \* the I/O loop: what it takes the process for, and its leases
    sent,         \* batches sent
    batch, answers            \* the batch the process is at, and its answers to it

proc == <<main, code, calls, lock, todo, available, unavailable>>
vars == <<mode, proc, inbox, outbox, stopped, exec, sent, batch, answers>>

Nobody == "nobody"
\* What is sent is leased: some steps, each once (assign_ready).
WorkerAssumption ==
    /\ Node \in [Items -> STRING] /\ Key \in [Items -> STRING]
    /\ \A i \in Items : OrderOnly[i] \subseteq Inputs[i]
    /\ Calls \in [Items -> Nat]
    /\ BatchFile \in Seq(Items) /\ Batches \subseteq Seq(Items) \ {<<>>}
    /\ \A b \in Batches \cup {BatchFile} : IsInjective(b)
    /\ Modes \subseteq {"daemon", "batch"}
    /\ MaxBatches \in Nat /\ PromptStop \in BOOLEAN
    /\ Items \cap {Nobody, "main"} = {}
ASSUME WorkerAssumption

Running == {"user", "submit", "await", "reading"}
\* The process acts.
Alive == main.at # "over" /\ ~stopped
Connected == exec.at # "gone"
Free == lock = Nobody

At(place) == main' = [main EXCEPT !.at = place]
Code(i, place) == code' = [code EXCEPT ![i] = place]

Answer(is, i) == [is |-> is, item |-> i]

-----------------------------------------------------------------------------
(* run_daemon: receive, and do what the message says. *)

RecvMessage ==
    /\ Alive /\ main.at = "recv" /\ Free
    /\ At("reading") /\ lock' = "main"
    /\ UNCHANGED <<mode, code, calls, todo, available, unavailable, inbox, outbox,
                   stopped, exec, sent, batch, answers>>

TakeMessage ==
    /\ Alive /\ main.at = "reading" /\ inbox # <<>>
    /\ lock' = Nobody /\ inbox' = Tail(inbox)
    /\ LET msg == Head(inbox) IN
        \/ /\ msg.is = "done"
           /\ At("over")
           /\ UNCHANGED <<todo, batch, answers>>
        \/ /\ msg.is = "batch"
           /\ At("next")
           /\ todo' = msg.items /\ batch' = msg.items /\ answers' = <<>>
        \/ /\ msg.is = "response"
           /\ At("recv")
           /\ UNCHANGED <<todo, batch, answers>>
    /\ UNCHANGED <<mode, code, calls, available, unavailable, outbox, stopped, exec, sent>>

\* The connection is gone: the process ends, and with it the threads left behind.
ReceiveFails ==
    /\ Alive /\ main.at = "reading" /\ inbox = <<>> /\ ~Connected
    /\ At("over") /\ lock' = Nobody
    /\ UNCHANGED <<mode, code, calls, todo, available, unavailable, inbox, outbox,
                   stopped, exec, sent, batch, answers>>

-----------------------------------------------------------------------------
(* One item after the other *)

\* run_batch looks for an output of the same partition, then for a whole one.
Ids(i, node) == {<<node, Key[i]>>, <<node, NoKey>>}
\* Mutant: only the output of the same partition is looked for.
BlockedAligned(i) == \E node \in Inputs[i] : <<node, Key[i]>> \in unavailable
Blocked(i) == \E node \in Inputs[i] : Ids(i, node) \cap unavailable # {}

MissingInput(i) ==
    i \notin Direct /\ \E node \in Inputs[i] \ OrderOnly[i] : Ids(i, node) \cap available = {}

\* The inputs are resolved, and the function called.
StartStep(i, place) ==
    /\ main' = [at |-> place, item |-> i]
    /\ code' = [code EXCEPT ![i] = IF place = "join" THEN "user" ELSE @]
    /\ todo' = Tail(todo)
    /\ UNCHANGED <<mode, calls, lock, available, unavailable, inbox, outbox,
                   stopped, exec, sent, batch, answers>>

\* The daemon's inputs are artifacts; a module that does not load, or an artifact
\* that is not found, fails the step.
RunDaemonStep ==
    /\ Alive /\ mode = "daemon" /\ main.at = "next"
    /\ StartStep(Head(todo), "join") \/ StartStep(Head(todo), "fail")

RunBatchStep ==
    /\ Alive /\ mode = "batch" /\ main.at = "next"
    /\ LET i == Head(todo) IN
        \/ Blocked(i) /\ StartStep(i, "blocked")
        \/ ~Blocked(i) /\ MissingInput(i) /\ StartStep(i, "fail")
        \/ ~Blocked(i) /\ ~MissingInput(i) /\ (StartStep(i, "join") \/ StartStep(i, "fail"))

\* Mutant: a thread that ends by sys.exit() leaves no exception behind.
JoinedExited ==
    LET end == code[main.item] IN
    /\ Alive /\ main.at = "join" /\ end \notin Running
    /\ At(IF end = "raised" THEN "fail" ELSE "write")
    /\ UNCHANGED <<mode, code, calls, lock, todo, available, unavailable, inbox, outbox,
                   stopped, exec, sent, batch, answers>>

\* _run_with_timeout, or the call itself.  sys.exit() fails a daemon's step and
\* ends a batch.
Joined ==
    LET end == code[main.item] IN
    /\ Alive /\ main.at = "join" /\ end \notin Running
    /\ At(IF end = "returned" THEN "write"
          ELSE IF end = "exited" /\ mode = "batch" THEN "over" ELSE "fail")
    /\ UNCHANGED <<mode, code, calls, lock, todo, available, unavailable, inbox, outbox,
                   stopped, exec, sent, batch, answers>>

\* Mutant: the time is looked at when the function has returned.
TimeLimitAfter ==
    /\ Alive /\ main.at = "join" /\ main.item \in Timed /\ code[main.item] \notin Running
    /\ At("fail")
    /\ UNCHANGED <<mode, code, calls, lock, todo, available, unavailable, inbox, outbox,
                   stopped, exec, sent, batch, answers>>

\* Whatever its thread is at; the clock also runs while the process is stopped.
TimeLimit ==
    /\ Alive /\ main.at = "join" /\ main.item \in Timed /\ code[main.item] \in Running
    /\ At("fail")
    /\ UNCHANGED <<mode, code, calls, lock, todo, available, unavailable, inbox, outbox,
                   stopped, exec, sent, batch, answers>>

\* _materialize: in batch mode outside the try, except for a direct call.
\* The output is in run_batch's cache before it is written.
Materialize ==
    /\ Alive /\ main.at = "write"
    /\ \/ At("done")
       \/ At(IF mode = "batch" /\ main.item \notin Direct THEN "over" ELSE "fail")
    /\ available' = IF mode = "batch" THEN available \cup {<<Node[main.item], Key[main.item]>>}
                    ELSE available
    /\ UNCHANGED <<mode, code, calls, lock, todo, unavailable, inbox, outbox,
                   stopped, exec, sent, batch, answers>>

\* Mutant: the daemon goes on with the batch after a failure.
RestAnyway(is) == todo

\* What comes after an answer: a failure ends a daemon's batch.
Rest(is) == IF mode = "daemon" /\ is = "error" THEN <<>> ELSE todo

AfterAnswer(is) ==
    /\ todo' = Rest(is)
    /\ At(IF Rest(is) # <<>> THEN "next" ELSE IF mode = "daemon" THEN "recv" ELSE "over")
    /\ unavailable' = IF mode = "batch" /\ is # "completed"
                      THEN unavailable \cup {<<Node[main.item], Key[main.item]>>}
                      ELSE unavailable

Emit ==
    LET is == IF main.at = "done" THEN "completed"
              ELSE IF main.at = "fail" THEN "error" ELSE "blocked" IN
    /\ Alive /\ main.at \in {"done", "fail", "blocked"} /\ Free /\ Connected
    /\ outbox' = Append(outbox, Answer(is, main.item))
    /\ answers' = Append(answers, Answer(is, main.item))
    /\ AfterAnswer(is)
    /\ UNCHANGED <<mode, code, calls, lock, available, inbox, stopped, exec, sent, batch>>

\* Mutant: a socket error is passed over like a step error.
EmitFailsOn ==
    /\ Alive /\ main.at \in {"done", "fail", "blocked"} /\ Free /\ ~Connected
    /\ UNCHANGED vars

\* An answer that cannot be sent is a socket error: the loop and the process end.
EmitFails ==
    /\ Alive /\ main.at \in {"done", "fail", "blocked"} /\ Free /\ ~Connected
    /\ At("over")
    /\ UNCHANGED <<mode, code, calls, lock, todo, available, unavailable, inbox, outbox,
                   stopped, exec, sent, batch, answers>>

-----------------------------------------------------------------------------
(* The function of an item, which goes on when its step has timed out *)

\* parallel(): submit_and_wait sends, then receives; between the two it does not
\* hold the lock.
Call(i) ==
    /\ Alive /\ code[i] = "user" /\ calls[i] < Calls[i]
    /\ Code(i, "submit")
    /\ calls' = [calls EXCEPT ![i] = @ + 1]
    /\ UNCHANGED <<mode, main, lock, todo, available, unavailable, inbox, outbox,
                   stopped, exec, sent, batch, answers>>

Submit(i) ==
    /\ Alive /\ code[i] = "submit" /\ Free
    /\ IF Connected
       THEN /\ Code(i, "await")
            /\ outbox' = Append(outbox, Answer("submit", i))
            /\ stopped' = (PromptStop /\ exec.at = "busy" /\ exec.leases[1] = i)
       ELSE Code(i, "raised") /\ UNCHANGED <<outbox, stopped>>
    /\ UNCHANGED <<mode, main, calls, lock, todo, available, unavailable, inbox,
                   exec, sent, batch, answers>>

Await(i) ==
    /\ Alive /\ code[i] = "await" /\ Free
    /\ Code(i, "reading") /\ lock' = i
    /\ UNCHANGED <<mode, main, calls, todo, available, unavailable, inbox, outbox,
                   stopped, exec, sent, batch, answers>>

TakeResponse(i) ==
    /\ Alive /\ code[i] = "reading"
    /\ \/ /\ inbox # <<>>
          /\ Code(i, IF Head(inbox).is = "response" THEN "user" ELSE "raised")
          /\ inbox' = Tail(inbox)
       \/ /\ inbox = <<>> /\ ~Connected
          /\ Code(i, "raised")
          /\ UNCHANGED inbox
    /\ lock' = Nobody
    /\ UNCHANGED <<mode, main, calls, todo, available, unavailable, outbox,
                   stopped, exec, sent, batch, answers>>

Ends(i, end) ==
    /\ Alive /\ code[i] = "user"
    /\ Code(i, end)
    /\ UNCHANGED <<mode, main, calls, lock, todo, available, unavailable, inbox, outbox,
                   stopped, exec, sent, batch, answers>>

-----------------------------------------------------------------------------
(* The I/O loop *)

Assign(b) ==
    /\ mode = "daemon" /\ exec.at = "idle" /\ sent < MaxBatches
    /\ \A i \in ToSet(b) : code[i] = "none"
    /\ inbox' = Append(inbox, [is |-> "batch", items |-> b])
    /\ exec' = [at |-> "busy", leases |-> b]
    /\ sent' = sent + 1
    /\ UNCHANGED <<mode, proc, outbox, stopped, batch, answers>>

\* What comes from a process that is stopped, or given up, finds no worker.
Handle ==
    LET msg == Head(outbox) IN
    /\ outbox # <<>> /\ Connected
    /\ outbox' = Tail(outbox)
    /\ IF exec.at # "busy" THEN UNCHANGED <<exec, stopped>>
       ELSE \/ /\ msg.is = "completed"
               /\ exec' = [at |-> IF Len(exec.leases) = 1 THEN "idle" ELSE "busy",
                           leases |-> Tail(exec.leases)]
               /\ UNCHANGED stopped
            \/ /\ msg.is = "error"
               /\ exec' = [at |-> "dropped", leases |-> <<>>]
               /\ UNCHANGED stopped
            \/ /\ msg.is = "submit"
               /\ exec' = [at |-> "frozen", leases |-> <<msg.item>>]
               /\ stopped' = TRUE
    /\ UNCHANGED <<mode, proc, inbox, sent, batch, answers>>

Respond ==
    /\ exec.at = "frozen"
    /\ inbox' = Append(inbox, [is |-> "response", items |-> exec.leases])
    /\ stopped' = FALSE
    /\ exec' = [exec EXCEPT !.at = "busy"]
    /\ UNCHANGED <<mode, proc, outbox, sent, batch, answers>>

\* The process of a failed step is killed, on_sigterm or not.
Kill ==
    /\ exec.at = "dropped" /\ main.at # "over"
    /\ At("over")
    /\ UNCHANGED <<mode, code, calls, lock, todo, available, unavailable, inbox, outbox,
                   stopped, exec, sent, batch, answers>>

Dismiss ==
    /\ mode = "daemon" /\ exec.at = "idle"
    /\ inbox' = Append(inbox, [is |-> "done", items |-> <<>>])
    /\ exec' = [exec EXCEPT !.at = "dismissed"]
    /\ UNCHANGED <<mode, proc, outbox, stopped, sent, batch, answers>>

\* The executor dies; whom it had stopped is left to the operating system.
Vanish ==
    /\ exec.at \in {"idle", "busy", "listening"} /\ ~stopped
    /\ exec' = [at |-> "gone", leases |-> <<>>]
    /\ UNCHANGED <<mode, proc, inbox, outbox, stopped, sent, batch, answers>>

-----------------------------------------------------------------------------

Init ==
    /\ mode \in Modes
    /\ main = [at |-> IF mode = "daemon" THEN "recv" ELSE IF BatchFile = <<>> THEN "over" ELSE "next",
               item |-> Nobody]
    /\ code = [i \in Items |-> "none"]
    /\ calls = [i \in Items |-> 0]
    /\ lock = Nobody
    /\ inbox = <<>> /\ outbox = <<>>
    /\ todo = IF mode = "batch" THEN BatchFile ELSE <<>>
    /\ batch = todo /\ answers = <<>>
    /\ available = {} /\ unavailable = {}
    /\ stopped = FALSE
    /\ exec = [at |-> IF mode = "daemon" THEN "idle" ELSE "listening", leases |-> <<>>]
    /\ sent = 0

MainThread ==
    \/ RecvMessage \/ TakeMessage \/ ReceiveFails
    \/ RunDaemonStep \/ RunBatchStep \/ Joined \/ Materialize \/ Emit \/ EmitFails

Function(i) == \/ Call(i) \/ Submit(i) \/ Await(i) \/ TakeResponse(i)
               \/ \E end \in {"returned", "raised", "exited"} : Ends(i, end)

Executor ==
    \/ \E b \in Batches : Assign(b)
    \/ Handle \/ Respond \/ Kill \/ Dismiss \/ Vanish

Next == MainThread \/ TimeLimit \/ (\E i \in Items : Function(i)) \/ Executor

Spec == Init /\ [][Next]_vars

\* Threads are scheduled, clocks run, functions return unless they hang; the
\* loop handles its messages, answers its calls and kills whom it gave up.
FairSpec ==
    /\ Spec
    /\ WF_vars(MainThread) /\ WF_vars(TimeLimit)
    /\ \A i \in Items : WF_vars(i \notin Hangs /\ Function(i))
    /\ \A i \in Items : WF_vars(Submit(i) \/ Await(i) \/ TakeResponse(i))
    /\ WF_vars(Handle) /\ WF_vars(Respond) /\ WF_vars(Kill)

-----------------------------------------------------------------------------
(* Properties *)

ItemsOf(msgs) == [k \in DOMAIN msgs |-> msgs[k].item]
\* The answers on the way: after a submit the process says nothing, being stopped.
Unread == IF outbox # <<>> /\ Last(outbox).is = "submit" THEN Front(outbox) ELSE outbox
\* What the process has of the batch, in front of the loop's messages and behind.
InProcess ==
    IF \E k \in DOMAIN inbox : inbox[k].is = "batch"
    THEN inbox[CHOOSE k \in DOMAIN inbox : inbox[k].is = "batch"].items
    ELSE (IF main.at \in {"join", "write", "done", "fail"} THEN <<main.item>> ELSE <<>>) \o todo

(* The steps of a batch are answered in their order, each once, a success only
   for a function that returned, and a daemon answers nothing after a failure. *)
AnswersFollowBatch ==
    \A k \in DOMAIN answers :
        /\ answers[k].item = batch[k]
        /\ answers[k].is = "completed" => code[batch[k]] = "returned"
        /\ mode = "daemon" /\ answers[k].is = "error" => k = Len(answers)

(* So what the loop takes for this worker's leases is what is on the way to it
   and, unless a failure is, what the process still has to do. *)
LeasesFollow ==
    exec.at = "busy" /\ main.at # "over" =>
        IF \E k \in DOMAIN Unread : Unread[k].is = "error"
        THEN IsPrefix(ItemsOf(Unread), exec.leases)
        ELSE exec.leases = ItemsOf(Unread) \o InProcess

(* The process and the loop keep the same account of a batch. *)
AnsweredInOrder == AnswersFollowBatch /\ LeasesFollow

(* run_batch blocks a step exactly when something it reads, of its own partition
   or unpartitioned, failed or was itself blocked earlier in the batch, so that
   one chain's failure stops no other. *)
BlockedExactly ==
    mode = "batch" =>
        \A k \in DOMAIN answers :
            answers[k].is = "blocked" <=>
                \E j \in 1..k - 1 :
                    /\ answers[j].is # "completed"
                    /\ Node[batch[j]] \in Inputs[batch[k]]
                    /\ Key[batch[j]] \in {Key[batch[k]], NoKey}

(* A step that was started is answered, one with a time limit also when its
   function never returns, whatever its thread is doing then; or the process ends. *)
StepsAnswered ==
    \A i \in Items \ (Hangs \ Timed) :
        (main.item = i /\ main.at = "join")
            ~> (main.at = "over" \/ \E k \in DOMAIN answers : answers[k].item = i)

(* A worker whose executor has died ends by itself. *)
EndsWithExecutor == exec.at = "gone" ~> main.at = "over"

(* The answer to a parallel() call reaches the thread that made it.  (Departure:
   after a time limit the main thread may take it, or a later call of another.) *)
ResponseToCaller ==
    [][\A k \in DOMAIN inbox : inbox[k].is = "response" /\ inbox' = Tail(inbox) /\ k = 1
        => code[inbox[k].items[1]] = "reading" /\ code'[inbox[k].items[1]] = "user"]_vars

=============================================================================
