------------------------- MODULE WorkerProcessProofs -------------------------
(***************************************************************************)
(* Theorems about module WorkerProcess, for any items, batches and calls   *)
(* of parallel(), with time limits that pass at any moment.                *)
(***************************************************************************)
EXTENDS WorkerProcess, SequenceTheorems, TLAPS

Places  == {"recv", "reading", "next", "join", "write", "done", "fail", "blocked", "over"}
AtItem  == {"join", "write", "done", "fail", "blocked"}
AtBatch == {"next"} \cup AtItem
CodeSet == {"none", "returned", "raised", "exited"} \cup Running
AnswerSet  == [is : {"completed", "error", "blocked", "submit"}, item : Items]
MessageSet == [is : {"batch", "response", "done"}, items : Seq(Items)]
LoopPlaces == {"idle", "busy", "frozen", "dropped", "dismissed", "gone", "listening"}

TypeInv ==
    /\ mode \in Modes
    /\ main \in [at : Places, item : Items \cup {Nobody}]
    /\ main.at \in AtItem => main.item \in Items
    /\ code \in [Items -> CodeSet] /\ calls \in [Items -> Nat]
    /\ todo \in Seq(Items) /\ batch \in Seq(Items)
    /\ answers \in Seq(AnswerSet) /\ outbox \in Seq(AnswerSet)
    /\ inbox \in Seq(MessageSet)
    /\ exec \in [at : LoopPlaces, leases : Seq(Items)]
    /\ exec.at \in {"busy", "frozen"} => exec.leases # <<>>
    /\ stopped \in BOOLEAN /\ sent \in Nat

Between == main.at \in {"recv", "reading"}

\* How many items the main thread is at.
Mine == IF main.at \in AtItem THEN 1 ELSE 0

\* What is left of the batch follows what is answered.
TodoFollows ==
    main.at \in AtBatch =>
        /\ Len(answers) + Mine + Len(todo) = Len(batch)
        /\ main.at = "next" => todo # <<>>
        /\ main.at \in AtItem => main.item = batch[Len(answers) + 1]
        /\ \A k \in 1 .. Len(todo) : todo[k] = batch[Len(answers) + Mine + k]

AnsweredFollows ==
    /\ Len(answers) <= Len(batch)
    /\ \A k \in 1 .. Len(answers) :
        /\ answers[k].item = batch[k] /\ answers[k].is # "submit"
        /\ answers[k].is = "completed" => code[batch[k]] = "returned"

\* A daemon answers nothing after a failure.
FailsLast ==
    mode = "daemon" =>
        /\ main.at # "blocked"
        /\ \A k \in 1 .. Len(answers) :
            answers[k].is # "completed" =>
                answers[k].is = "error" /\ k = Len(answers) /\ main.at \notin AtBatch

BatchesSent == \A k \in 1 .. Len(inbox) : inbox[k].is = "batch" => inbox[k].items \in Batches

TurnInv ==
    /\ TypeInv
    /\ IsInjective(batch) /\ BatchesSent
    /\ main.at \in {"recv", "reading"} => todo = <<>> /\ mode = "daemon"
    /\ main.at \in {"write", "done"} => code[main.item] = "returned"
    /\ TodoFollows /\ AnsweredFollows /\ FailsLast

-----------------------------------------------------------------------------
\* What failed or was blocked.
LostIds(as) == {<<Node[batch[j]], Key[batch[j]]>> : j \in {j \in 1 .. Len(as) : as[j].is # "completed"}}

\* Something that an item reads was lost before the k-th answer.
ReadsLost(as, k, i) ==
    \E j \in 1 .. k - 1 :
        /\ as[j].is # "completed"
        /\ Node[batch[j]] \in Inputs[i]
        /\ Key[batch[j]] \in {Key[i], NoKey}

BlockInv ==
    mode = "batch" =>
        /\ unavailable = LostIds(answers)
        /\ main.at = "blocked" => Blocked(main.item)
        /\ main.at \in AtItem \ {"blocked"} => ~Blocked(main.item)
        /\ \A k \in 1 .. Len(answers) :
            answers[k].is = "blocked" <=> ReadsLost(answers, k, batch[k])

-----------------------------------------------------------------------------
(***************************************************************************)
(* The main thread goes through its batch in turn.                         *)
(***************************************************************************)
LEMMA Messages ==
    ASSUME NEW i \in Items
    PROVE  /\ Answer("completed", i) \in AnswerSet /\ Answer("error", i) \in AnswerSet
           /\ Answer("blocked", i) \in AnswerSet /\ Answer("submit", i) \in AnswerSet
           /\ Nobody \notin Items
           /\ \A is \in {"completed", "error", "blocked", "submit"} :
                Answer(is, i).is = is /\ Answer(is, i).item = i
BY WorkerAssumption DEF WorkerAssumption, Answer, AnswerSet

LEMMA TypeInit == Init => TypeInv
<1> SUFFICES ASSUME Init PROVE TypeInv
  OBVIOUS
<1>1. PICK e : e = << >> /\ e \in Seq(Items) /\ e \in Seq(AnswerSet) /\ e \in Seq(MessageSet)
  BY EmptySeq
<1>2. todo \in Seq(Items)
  BY <1>1, WorkerAssumption DEF Init, WorkerAssumption
<1>3. main \in [at : Places, item : Items \cup {Nobody}] /\ main.at \notin AtItem
  BY DEF Init, Places, AtItem
<1>4. exec \in [at : LoopPlaces, leases : Seq(Items)]
  BY <1>1 DEF Init, LoopPlaces
<1>5. code \in [Items -> CodeSet] /\ calls \in [Items -> Nat]
  BY DEF Init, CodeSet
<1> QED BY <1>1, <1>2, <1>3, <1>4, <1>5 DEF Init, TypeInv

LEMMA MainMoves ==
    ASSUME TypeInv, NEW place \in Places, At(place), place \in AtItem => main.at \in AtItem
    PROVE  /\ main' \in [at : Places, item : Items \cup {Nobody}]
           /\ main'.at = place /\ main'.item = main.item
           /\ main'.at \in AtItem => main'.item \in Items
BY DEF TypeInv, At

LEMMA CodeMoves ==
    ASSUME TypeInv, NEW i \in Items, NEW place \in CodeSet, Code(i, place)
    PROVE  code' \in [Items -> CodeSet] /\ code'[i] = place
           /\ \A j \in Items : j # i => code'[j] = code[j]
BY DEF TypeInv, Code

\* A function that has returned stays so.
Lasts == \A i \in Items : code[i] = "returned" => code'[i] = "returned"

\* The main thread is where it was in its batch, or leaves it.
Keeps ==
    /\ main'.item = main.item
    /\ \/ main'.at = main.at
       \/ main'.at = "over"
       \/ Between /\ main'.at \in {"recv", "reading"}
       \/ /\ main.at \in AtItem /\ main'.at \in {"write", "done", "fail"}
          /\ main'.at # "fail" => code[main.item] = "returned"

LEMMA TurnKept ==
    ASSUME TurnInv, TypeInv', BatchesSent', UNCHANGED <<mode, todo, batch, answers>>, Lasts, Keeps
    PROVE  TurnInv'
<1> USE DEF TypeInv, Keeps
<1>1. IsInjective(batch)'
  BY DEF TurnInv
<1>2. (main.at \in {"recv", "reading"} => todo = <<>> /\ mode = "daemon")'
  BY DEF TurnInv, AtItem, Between
<1>3. (main.at \in {"write", "done"} => code[main.item] = "returned")'
  BY DEF TurnInv, Lasts, AtItem, Between
<1>4. TodoFollows'
  <2>1. CASE main'.at \notin AtBatch
    BY <2>1 DEF TodoFollows
  <2>2. CASE main'.at \in AtBatch
    <3>1. main.at \in AtBatch /\ Mine' = Mine /\ (main'.at \in AtItem <=> main.at \in AtItem)
          /\ (main'.at = "next" <=> main.at = "next")
      BY <2>2 DEF AtBatch, AtItem, Between, Mine
    <3> QED BY <3>1 DEF TodoFollows, TurnInv
  <2> QED BY <2>1, <2>2
<1>5. AnsweredFollows'
  <2>1. \A k \in 1 .. Len(answers) : batch[k] \in Items
    BY DEF TurnInv, AnsweredFollows
  <2> QED BY <2>1 DEF AnsweredFollows, TurnInv, Lasts
<1>6. FailsLast'
  BY DEF FailsLast, TurnInv, AtBatch, AtItem, Between
<1> QED BY <1>1, <1>2, <1>3, <1>4, <1>5, <1>6 DEF TurnInv

\* Messages leave from the front and join at the back.
LEMMA InboxTaken ==
    ASSUME TypeInv, BatchesSent, inbox # <<>>, inbox' = Tail(inbox)
    PROVE  inbox' \in Seq(MessageSet) /\ BatchesSent'
<1>1. inbox \in Seq(MessageSet)
  BY DEF TypeInv
<1>2. Tail(inbox) \in Seq(MessageSet) /\ Len(Tail(inbox)) = Len(inbox) - 1 /\ Len(inbox) \in Nat
      /\ \A k \in 1 .. Len(Tail(inbox)) : Tail(inbox)[k] = inbox[k + 1]
  BY <1>1, HeadTailProperties, LenProperties
<1>3. \A k \in 1 .. Len(Tail(inbox)) : k + 1 \in 1 .. Len(inbox)
  BY <1>2
<1> QED BY <1>2, <1>3 DEF BatchesSent

LEMMA InboxSent ==
    ASSUME TypeInv, BatchesSent, NEW m \in MessageSet, inbox' = Append(inbox, m),
           m.is = "batch" => m.items \in Batches
    PROVE  inbox' \in Seq(MessageSet) /\ BatchesSent'
<1>1. inbox \in Seq(MessageSet)
  BY DEF TypeInv
<1>2. Append(inbox, m) \in Seq(MessageSet) /\ Len(Append(inbox, m)) = Len(inbox) + 1 /\ Len(inbox) \in Nat
      /\ Append(inbox, m)[Len(inbox) + 1] = m
      /\ \A k \in 1 .. Len(inbox) : Append(inbox, m)[k] = inbox[k]
  BY <1>1, AppendProperties, LenProperties
<1>3. \A k \in 1 .. Len(inbox) + 1 : k \in 1 .. Len(inbox) \/ k = Len(inbox) + 1
  BY <1>2
<1> QED BY <1>2, <1>3 DEF BatchesSent

LEMMA MainTypes ==
    ASSUME TypeInv, NEW place \in Places, At(place), place \in AtItem => main.at \in AtItem,
           UNCHANGED <<mode, code, calls, todo, batch, answers, inbox, outbox, stopped, exec, sent>>
    PROVE  TypeInv' /\ Lasts /\ (BatchesSent => BatchesSent')
           /\ main'.at = place /\ main'.item = main.item
<1>1. /\ main' \in [at : Places, item : Items \cup {Nobody}]
      /\ main'.at = place /\ main'.item = main.item
      /\ main'.at \in AtItem => main'.item \in Items
  BY MainMoves
<1> QED BY <1>1 DEF TypeInv, Lasts, BatchesSent

\* The moves of the main thread that change nothing else.
LEMMA TurnMain ==
    ASSUME TurnInv,
           RecvMessage \/ ReceiveFails \/ Joined \/ TimeLimit \/ Materialize \/ EmitFails \/ Kill
    PROVE  TurnInv'
<1> USE DEF TurnInv
<1>1. CASE RecvMessage
  <2>1. TypeInv' /\ Lasts /\ BatchesSent' /\ main'.at = "reading" /\ main'.item = main.item
    BY <1>1, MainTypes DEF RecvMessage, Places, AtItem
  <2> QED BY <1>1, <2>1, TurnKept DEF RecvMessage, Keeps, Between
<1>2. CASE ReceiveFails \/ EmitFails \/ Kill
  <2>1. TypeInv' /\ Lasts /\ BatchesSent' /\ main'.at = "over" /\ main'.item = main.item
    BY <1>2, MainTypes DEF ReceiveFails, EmitFails, Kill, Places, AtItem
  <2> QED BY <1>2, <2>1, TurnKept DEF ReceiveFails, EmitFails, Kill, Keeps
<1>3. CASE Joined
  <2>1. PICK place \in Places : At(place) /\ place \in {"write", "over", "fail"}
                                /\ (place = "write" => code[main.item] = "returned")
    BY <1>3 DEF Joined, Places
  <2>2. TypeInv' /\ Lasts /\ BatchesSent' /\ main'.at = place /\ main'.item = main.item
    BY <1>3, <2>1, MainTypes DEF Joined, AtItem
  <2> QED BY <1>3, <2>1, <2>2, TurnKept DEF Joined, Keeps, AtItem
<1>4. CASE TimeLimit
  <2>1. TypeInv' /\ Lasts /\ BatchesSent' /\ main'.at = "fail" /\ main'.item = main.item
    BY <1>4, MainTypes DEF TimeLimit, Places, AtItem
  <2> QED BY <1>4, <2>1, TurnKept DEF TimeLimit, Keeps, AtItem
<1>5. CASE Materialize
  <2>1. PICK place \in Places : At(place) /\ place \in {"done", "over", "fail"}
    BY <1>5 DEF Materialize, Places
  <2>2. TypeInv' /\ Lasts /\ BatchesSent' /\ main'.at = place /\ main'.item = main.item
    BY <1>5, <2>1, MainTypes DEF Materialize, AtItem
  <2> QED BY <1>5, <2>1, <2>2, TurnKept DEF Materialize, Keeps, AtItem
<1> QED BY <1>1, <1>2, <1>3, <1>4, <1>5

\* A function goes on; nothing of it touches the batch.
LEMMA TurnFunction ==
    ASSUME TurnInv, NEW i \in Items, Function(i)
    PROVE  TurnInv'
<1>1. TypeInv /\ BatchesSent
  BY DEF TurnInv
<1>2. UNCHANGED <<mode, main, todo, batch, answers, exec, sent>>
  BY DEF Function, Call, Submit, Await, TakeResponse, Ends
<1>3. PICK place \in CodeSet : Code(i, place) /\ code[i] # "returned"
  BY DEF Function, Call, Submit, Await, TakeResponse, Ends, CodeSet, Running
<1>4. code' \in [Items -> CodeSet] /\ Lasts
  BY <1>1, <1>3, CodeMoves DEF Lasts
<1>5. calls' \in [Items -> Nat]
  BY <1>1 DEF TypeInv, Function, Call, Submit, Await, TakeResponse, Ends
<1>6. outbox' \in Seq(AnswerSet)
  <2>1. outbox' = outbox \/ outbox' = Append(outbox, Answer("submit", i))
    BY DEF Function, Call, Submit, Await, TakeResponse, Ends
  <2>2. outbox \in Seq(AnswerSet) /\ Answer("submit", i) \in AnswerSet
    BY <1>1, Messages DEF TypeInv
  <2>3. Append(outbox, Answer("submit", i)) \in Seq(AnswerSet)
    BY <2>2, AppendProperties
  <2> QED BY <2>1, <2>2, <2>3
<1>7. inbox' \in Seq(MessageSet) /\ BatchesSent'
  <2>1. inbox' = inbox \/ (inbox # <<>> /\ inbox' = Tail(inbox))
    BY DEF Function, Call, Submit, Await, TakeResponse, Ends
  <2>2. CASE inbox' = inbox
    BY <1>1, <2>2 DEF TypeInv, BatchesSent
  <2> QED BY <1>1, <2>1, <2>2, InboxTaken
<1>8. stopped' \in BOOLEAN
  BY <1>1 DEF TypeInv, Function, Call, Submit, Await, TakeResponse, Ends
<1>9. TypeInv'
  BY <1>1, <1>2, <1>4, <1>5, <1>6, <1>7, <1>8 DEF TypeInv
<1> QED BY <1>2, <1>4, <1>7, <1>9, TurnKept DEF Keeps

\* The I/O loop sends and takes messages; it does not touch the batch.
LEMMA TurnExecutor ==
    ASSUME TurnInv, (\E b \in Batches : Assign(b)) \/ Handle \/ Respond \/ Dismiss \/ Vanish
    PROVE  TurnInv'
<1>1. TypeInv /\ BatchesSent
  BY DEF TurnInv
<1>2. PICK e : e = <<>> /\ e \in Seq(Items)
  BY EmptySeq
<1>3. UNCHANGED <<mode, main, code, calls, todo, batch, answers>>
  BY DEF Assign, Handle, Respond, Dismiss, Vanish, proc
<1>4. exec.at \in LoopPlaces /\ exec.leases \in Seq(Items)
  BY <1>1 DEF TypeInv
<1>5. TypeInv' /\ BatchesSent'
  <2>1. CASE \E b \in Batches : Assign(b)
    <3>1. PICK b \in Batches : Assign(b)
      BY <2>1
    <3>2. b \in Seq(Items)
      BY WorkerAssumption DEF WorkerAssumption
    <3>3. PICK m : m = [is |-> "batch", items |-> b]
      OBVIOUS
    <3>4. m \in MessageSet /\ inbox' = Append(inbox, m) /\ m.items \in Batches
      BY <3>1, <3>2, <3>3 DEF MessageSet, Assign
    <3>5. inbox' \in Seq(MessageSet) /\ BatchesSent'
      BY <1>1, <3>4, InboxSent
    <3>6. exec' \in [at : LoopPlaces, leases : Seq(Items)] /\ exec'.leases # <<>>
      BY <3>1, <3>2, WorkerAssumption DEF Assign, LoopPlaces, WorkerAssumption
    <3>7. sent' \in Nat /\ UNCHANGED <<outbox, stopped>>
      BY <1>1, <3>1 DEF Assign, TypeInv
    <3> QED BY <1>1, <1>3, <3>5, <3>6, <3>7 DEF TypeInv
  <2>2. CASE Handle
    <3>1. outbox \in Seq(AnswerSet) /\ outbox # <<>> /\ outbox' = Tail(outbox)
      BY <1>1, <2>2 DEF Handle, TypeInv
    <3>2. outbox' \in Seq(AnswerSet) /\ Head(outbox) \in AnswerSet
      BY <3>1, HeadTailProperties
    <3>3. Head(outbox).item \in Items
      BY <3>2 DEF AnswerSet
    <3>4. PICK l : l = <<Head(outbox).item>> /\ l \in Seq(Items)
      <4>1. PICK j \in Items : j = Head(outbox).item
        BY <3>3
      <4>2. <<j>> \in Seq(Items)
        OBVIOUS
      <4> QED BY <4>1, <4>2
    <3>5. \/ exec' = exec
          \/ \E place \in LoopPlaces : \E l2 \in Seq(Items) :
                exec' = [at |-> place, leases |-> l2] /\ (place \in {"busy", "frozen"} => l2 # <<>>)
      <4>2. CASE exec' = [at |-> "dropped", leases |-> << >>]
        BY <1>2, <4>2 DEF LoopPlaces
      <4>3. CASE exec' = [at |-> "frozen", leases |-> <<Head(outbox).item>>]
        BY <3>4, <4>3 DEF LoopPlaces
      <4>4. CASE /\ exec.at = "busy"
                 /\ exec' = [at |-> IF Len(exec.leases) = 1 THEN "idle" ELSE "busy",
                             leases |-> Tail(exec.leases)]
        <5>1. exec.leases # <<>>
          BY <1>1, <4>4 DEF TypeInv
        <5>2. /\ Tail(exec.leases) \in Seq(Items) /\ Len(exec.leases) \in Nat
              /\ Len(Tail(exec.leases)) = Len(exec.leases) - 1
          BY <1>4, <5>1, HeadTailProperties, LenProperties
        <5>3. Tail(exec.leases) = <<>> => Len(exec.leases) = 1
          <6>1. PICK rest : rest = Tail(exec.leases)
            OBVIOUS
          <6>2. rest = <<>> => Len(rest) = 0
            BY EmptySeq
          <6> QED BY <5>2, <6>1, <6>2
        <5>4. PICK place \in LoopPlaces : place = IF Len(exec.leases) = 1 THEN "idle" ELSE "busy"
          BY DEF LoopPlaces
        <5> QED BY <4>4, <5>2, <5>3, <5>4
      <4> QED BY <2>2, <4>2, <4>3, <4>4 DEF Handle
    <3>6. /\ exec' \in [at : LoopPlaces, leases : Seq(Items)]
          /\ exec'.at \in {"busy", "frozen"} => exec'.leases # <<>>
      BY <1>1, <3>5 DEF TypeInv
    <3>7. stopped' \in BOOLEAN /\ UNCHANGED <<inbox, sent>>
      BY <1>1, <2>2 DEF TypeInv, Handle
    <3> QED BY <1>1, <1>3, <3>2, <3>6, <3>7 DEF TypeInv, BatchesSent
  <2>3. CASE Respond
    <3>1. PICK m : m = [is |-> "response", items |-> exec.leases]
      OBVIOUS
    <3>2. m \in MessageSet /\ inbox' = Append(inbox, m) /\ m.is # "batch"
      BY <1>4, <2>3, <3>1 DEF MessageSet, Respond
    <3>3. inbox' \in Seq(MessageSet) /\ BatchesSent'
      BY <1>1, <3>2, InboxSent
    <3>4. exec' \in [at : LoopPlaces, leases : Seq(Items)] /\ exec'.leases # <<>>
      <4>1. exec' = [at |-> "busy", leases |-> exec.leases] /\ exec.leases # <<>>
        BY <1>1, <2>3 DEF Respond, TypeInv
      <4> QED BY <1>4, <4>1 DEF LoopPlaces
    <3>5. stopped' \in BOOLEAN /\ UNCHANGED <<outbox, sent>>
      BY <2>3 DEF Respond
    <3> QED BY <1>1, <1>3, <3>3, <3>4, <3>5 DEF TypeInv
  <2>4. CASE Dismiss
    <3>1. PICK m : m = [is |-> "done", items |-> << >>]
      OBVIOUS
    <3>2. m \in MessageSet /\ inbox' = Append(inbox, m) /\ m.is # "batch"
      BY <1>2, <2>4, <3>1 DEF MessageSet, Dismiss
    <3>3. inbox' \in Seq(MessageSet) /\ BatchesSent'
      BY <1>1, <3>2, InboxSent
    <3>4. exec' \in [at : LoopPlaces, leases : Seq(Items)] /\ exec'.at = "dismissed"
      <4>1. exec' = [at |-> "dismissed", leases |-> exec.leases]
        BY <1>1, <2>4 DEF Dismiss, TypeInv
      <4> QED BY <1>4, <4>1 DEF LoopPlaces
    <3>5. UNCHANGED <<outbox, stopped, sent>>
      BY <2>4 DEF Dismiss
    <3> QED BY <1>1, <1>3, <3>3, <3>4, <3>5 DEF TypeInv
  <2>5. CASE Vanish
    <3>1. exec' \in [at : LoopPlaces, leases : Seq(Items)] /\ exec'.at = "gone"
      BY <1>2, <2>5 DEF Vanish, LoopPlaces
    <3> QED BY <1>1, <1>3, <2>5, <3>1 DEF TypeInv, Vanish, BatchesSent
  <2> QED BY <2>1, <2>2, <2>3, <2>4, <2>5
<1>6. Lasts /\ Keeps
  BY <1>3 DEF Lasts, Keeps
<1> QED BY <1>3, <1>5, <1>6, TurnKept

LEMMA TurnMessage ==
    ASSUME TurnInv, TakeMessage
    PROVE  TurnInv'
<1>1. TypeInv /\ BatchesSent
  BY DEF TurnInv
<1>2. inbox \in Seq(MessageSet) /\ inbox # <<>> /\ inbox' = Tail(inbox) /\ Between
  BY <1>1 DEF TakeMessage, TypeInv, Between
<1>3. inbox' \in Seq(MessageSet) /\ BatchesSent'
  BY <1>1, <1>2, InboxTaken
<1>4. UNCHANGED <<mode, code, calls, outbox, stopped, exec, sent>> /\ Lasts
  BY DEF TakeMessage, Lasts
<1>5. CASE Head(inbox).is # "batch"
  <2>1. PICK place \in {"over", "recv"} : At(place) /\ UNCHANGED <<todo, batch, answers>>
    BY <1>5 DEF TakeMessage
  <2>2. /\ main' \in [at : Places, item : Items \cup {Nobody}]
        /\ main'.at = place /\ main'.item = main.item /\ main'.at \notin AtItem
    BY <1>1, <2>1, MainMoves DEF Places, AtItem
  <2>3. TypeInv'
    BY <1>1, <1>3, <1>4, <2>1, <2>2 DEF TypeInv
  <2> QED BY <1>2, <1>3, <1>4, <2>1, <2>2, <2>3, TurnKept DEF Keeps
<1>6. CASE Head(inbox).is = "batch"
  <2>1. PICK b : b = Head(inbox).items
    OBVIOUS
  <2>2. b \in Batches /\ b \in Seq(Items)
    <3>1. Head(inbox) = inbox[1] /\ 1 \in 1 .. Len(inbox) /\ Head(inbox) \in MessageSet
      BY <1>2, HeadTailProperties, LenProperties, EmptySeq
    <3> QED BY <1>1, <1>6, <2>1, <3>1 DEF BatchesSent, MessageSet
  <2>3. b # <<>> /\ IsInjective(b)
    BY <2>2, WorkerAssumption DEF WorkerAssumption
  <2>4. At("next") /\ todo' = b /\ batch' = b /\ answers' = <<>>
    BY <1>6, <2>1 DEF TakeMessage
  <2>5. /\ main' \in [at : Places, item : Items \cup {Nobody}] /\ main'.at = "next"
    BY <1>1, <2>4, MainMoves DEF Places, AtItem
  <2>6. answers' \in Seq(AnswerSet) /\ Len(answers') = 0 /\ Len(b) \in Nat
    BY <2>2, <2>4, EmptySeq, LenProperties
  <2>7. TypeInv'
    BY <1>1, <1>3, <1>4, <2>2, <2>4, <2>5, <2>6 DEF TypeInv, AtItem
  <2>8. mode = "daemon"
    BY <1>2 DEF TurnInv, Between
  <2>9. TodoFollows'
    BY <2>3, <2>4, <2>5, <2>6 DEF TodoFollows, Mine, AtItem
  <2>10. AnsweredFollows' /\ FailsLast'
    BY <2>4, <2>5, <2>6 DEF AnsweredFollows, FailsLast
  <2> QED BY <1>3, <1>4, <2>3, <2>4, <2>5, <2>7, <2>8, <2>9, <2>10 DEF TurnInv
<1> QED BY <1>5, <1>6

\* The first of the rest is begun, or fails before it is.
LEMMA TurnStart ==
    ASSUME TurnInv, RunDaemonStep \/ RunBatchStep
    PROVE  TurnInv'
<1>1. TypeInv /\ BatchesSent /\ TodoFollows /\ AnsweredFollows /\ FailsLast /\ IsInjective(batch)
  BY DEF TurnInv
<1>2. main.at = "next" /\ todo # <<>> /\ main.at \notin AtItem /\ main.at \in AtBatch
  BY <1>1 DEF RunDaemonStep, RunBatchStep, TodoFollows, AtBatch, AtItem
<1>3. PICK i : i = Head(todo)
  OBVIOUS
<1>4. /\ todo \in Seq(Items) /\ Len(todo) \in Nat /\ Len(todo) >= 1 /\ i = todo[1] /\ i \in Items
      /\ Tail(todo) \in Seq(Items) /\ Len(Tail(todo)) = Len(todo) - 1
      /\ \A k \in 1 .. Len(Tail(todo)) : Tail(todo)[k] = todo[k + 1]
  <2>1. todo \in Seq(Items)
    BY <1>1 DEF TypeInv
  <2> QED BY <1>2, <1>3, <2>1, HeadTailProperties, LenProperties, EmptySeq
<1>5. PICK place \in {"join", "fail", "blocked"} :
         StartStep(i, place) /\ (mode = "daemon" => place # "blocked")
  BY <1>3 DEF RunDaemonStep, RunBatchStep
<1>6. /\ main' = [at |-> place, item |-> i] /\ todo' = Tail(todo)
      /\ code' = [code EXCEPT ![i] = IF place = "join" THEN "user" ELSE @]
      /\ UNCHANGED <<mode, calls, inbox, outbox, stopped, exec, sent, batch, answers>>
  BY <1>5 DEF StartStep
<1>7. main' \in [at : Places, item : Items \cup {Nobody}] /\ main'.at = place /\ main'.item = i
  BY <1>4, <1>6 DEF Places
<1>8. code' \in [Items -> CodeSet] /\ \A j \in Items : j # i => code'[j] = code[j]
  BY <1>1, <1>6 DEF TypeInv, CodeSet, Running
<1>9. TypeInv'
  BY <1>1, <1>4, <1>6, <1>7, <1>8 DEF TypeInv
<1>10. /\ Len(answers) \in Nat /\ Len(batch) \in Nat /\ DOMAIN batch = 1 .. Len(batch)
       /\ Len(answers) + Len(todo) = Len(batch) /\ i = batch[Len(answers) + 1]
       /\ \A k \in 1 .. Len(todo) : todo[k] = batch[Len(answers) + k]
  <2>1. Mine = 0
    BY <1>2 DEF Mine
  <2>2. Len(answers) \in Nat /\ Len(batch) \in Nat /\ DOMAIN batch = 1 .. Len(batch)
    BY <1>1, LenProperties DEF TypeInv
  <2>3. \A k \in 1 .. Len(todo) : todo[k] = batch[Len(answers) + 0 + k]
    BY <1>1, <1>2, <2>1 DEF TodoFollows
  <2> QED BY <1>1, <1>2, <1>4, <2>1, <2>2, <2>3 DEF TodoFollows
<1>11. TodoFollows'
  <2>1. Mine' = 1
    BY <1>7 DEF Mine, AtItem
  <2>2. \A k \in 1 .. Len(todo) - 1 : Tail(todo)[k] = batch[Len(answers) + 1 + k]
    BY <1>4, <1>10
  <2>3. Len(answers) + 1 + Len(Tail(todo)) = Len(batch)
    BY <1>4, <1>10
  <2>4. main'.at # "next" /\ main'.item = batch[Len(answers) + 1]
    BY <1>7, <1>10
  <2> QED BY <1>4, <1>6, <2>1, <2>2, <2>3, <2>4 DEF TodoFollows
<1>12. AnsweredFollows'
  <2>1. \A k \in 1 .. Len(answers) : batch[k] \in Items /\ batch[k] # i
    <3>1. \A k \in 1 .. Len(answers) :
            k \in 1 .. Len(batch) /\ Len(answers) + 1 \in 1 .. Len(batch) /\ k # Len(answers) + 1
      BY <1>4, <1>10
    <3>2. batch \in Seq(Items)
      BY <1>1 DEF TypeInv
    <3> QED BY <1>1, <1>10, <3>1, <3>2 DEF IsInjective
  <2> QED BY <1>1, <1>6, <1>8, <2>1 DEF AnsweredFollows
<1>13. FailsLast'
  BY <1>1, <1>2, <1>5, <1>6, <1>7 DEF FailsLast
<1>14. BatchesSent' /\ IsInjective(batch)'
  BY <1>1, <1>6 DEF BatchesSent
<1> QED BY <1>7, <1>9, <1>11, <1>12, <1>13, <1>14 DEF TurnInv

\* What an answer changes.
LEMMA Emits ==
    ASSUME TurnInv, Emit
    PROVE  \E is \in {"completed", "error", "blocked"} :
             /\ main.at \in {"done", "fail", "blocked"}
             /\ is = "completed" <=> main.at = "done"
             /\ is = "blocked" <=> main.at = "blocked"
             /\ outbox' = Append(outbox, Answer(is, main.item))
             /\ answers' = Append(answers, Answer(is, main.item))
             /\ AfterAnswer(is) /\ Connected
             /\ main'.at = IF Rest(is) # <<>> THEN "next" ELSE IF mode = "daemon" THEN "recv" ELSE "over"
             /\ main' \in [at : Places, item : Items \cup {Nobody}] /\ main'.at \notin AtItem
<1>1. TypeInv
  BY DEF TurnInv
<1>2. PICK is : is = IF main.at = "done" THEN "completed" ELSE IF main.at = "fail" THEN "error" ELSE "blocked"
  OBVIOUS
<1>3. PICK place : place = IF Rest(is) # <<>> THEN "next" ELSE IF mode = "daemon" THEN "recv" ELSE "over"
  OBVIOUS
<1>4. At(place) /\ place \in Places /\ place \notin AtItem
  BY <1>2, <1>3 DEF Emit, AfterAnswer, Places, AtItem
<1>5. main' \in [at : Places, item : Items \cup {Nobody}] /\ main'.at = place
  BY <1>1, <1>4, MainMoves
<1> QED BY <1>2, <1>3, <1>4, <1>5 DEF Emit

LEMMA TurnEmit ==
    ASSUME TurnInv, Emit
    PROVE  TurnInv'
<1>1. TypeInv /\ BatchesSent /\ TodoFollows /\ AnsweredFollows /\ FailsLast /\ IsInjective(batch)
  BY DEF TurnInv
<1>2. PICK is \in {"completed", "error", "blocked"} :
             /\ main.at \in {"done", "fail", "blocked"}
             /\ is = "completed" <=> main.at = "done"
             /\ is = "blocked" <=> main.at = "blocked"
             /\ outbox' = Append(outbox, Answer(is, main.item))
             /\ answers' = Append(answers, Answer(is, main.item))
             /\ AfterAnswer(is) /\ Connected
             /\ main'.at = IF Rest(is) # <<>> THEN "next" ELSE IF mode = "daemon" THEN "recv" ELSE "over"
             /\ main' \in [at : Places, item : Items \cup {Nobody}] /\ main'.at \notin AtItem
  BY Emits
<1>3. main.at \in AtItem /\ main.at \in AtBatch /\ main.item \in Items
  BY <1>1, <1>2 DEF AtItem, AtBatch, TypeInv
<1>4. PICK n \in Nat : n = Len(answers)
  BY <1>1, LenProperties DEF TypeInv
<1>5. PICK m \in AnswerSet : m = Answer(is, main.item) /\ m.is = is /\ m.item = main.item
  BY <1>3, Messages
<1>6. /\ answers' \in Seq(AnswerSet) /\ outbox' \in Seq(AnswerSet) /\ Len(answers') = n + 1
      /\ answers'[n + 1] = m /\ \A k \in 1 .. n : answers'[k] = answers[k]
  <2>1. answers \in Seq(AnswerSet) /\ outbox \in Seq(AnswerSet)
    BY <1>1 DEF TypeInv
  <2> QED BY <1>2, <1>4, <1>5, <2>1, AppendProperties
<1>7. todo' = Rest(is) /\ UNCHANGED <<mode, code, calls, inbox, stopped, exec, sent, batch>>
  BY <1>2 DEF AfterAnswer, Emit
<1>8. todo \in Seq(Items) /\ Rest(is) \in Seq(Items) /\ (Rest(is) # <<>> => Rest(is) = todo)
  BY <1>1, EmptySeq DEF TypeInv, Rest
<1>9. TypeInv'
  BY <1>1, <1>2, <1>6, <1>7, <1>8 DEF TypeInv
<1>10. /\ Len(batch) \in Nat /\ Len(todo) \in Nat /\ n + 1 + Len(todo) = Len(batch)
       /\ main.item = batch[n + 1] /\ \A k \in 1 .. Len(todo) : todo[k] = batch[n + 1 + k]
  <2>1. Mine = 1
    BY <1>3 DEF Mine
  <2>2. Len(batch) \in Nat /\ Len(todo) \in Nat
    BY <1>1, LenProperties DEF TypeInv
  <2> QED BY <1>1, <1>3, <1>4, <2>1, <2>2 DEF TodoFollows
<1>11. TodoFollows'
  <2>1. CASE Rest(is) = <<>>
    BY <1>2, <2>1 DEF TodoFollows, AtBatch, AtItem
  <2>2. CASE Rest(is) # <<>>
    <3>1. Mine' = 0 /\ main'.at = "next" /\ todo' = todo
      BY <1>2, <1>7, <1>8, <2>2 DEF Mine
    <3>2. \A k \in 1 .. Len(todo) : todo[k] = batch[n + 1 + 0 + k]
      BY <1>10
    <3> QED BY <1>2, <1>6, <1>7, <1>8, <1>10, <2>2, <3>1, <3>2 DEF TodoFollows
  <2> QED BY <2>1, <2>2
<1>12. code[main.item] = "returned" \/ is # "completed"
  <2>1. main.at \in {"write", "done"} => code[main.item] = "returned"
    BY DEF TurnInv
  <2> QED BY <1>2, <2>1
<1>13. AnsweredFollows'
  <2>1. n + 1 <= Len(batch)
    BY <1>10
  <2>2. \A k \in 1 .. n + 1 : k \in 1 .. n \/ k = n + 1
    OBVIOUS
  <2>3. \A k \in 1 .. n : /\ answers[k].item = batch[k] /\ answers[k].is # "submit"
                          /\ answers[k].is = "completed" => code[batch[k]] = "returned"
    BY <1>1, <1>4 DEF AnsweredFollows
  <2>4. m.item = batch[n + 1] /\ m.is # "submit" /\ (m.is = "completed" => code[batch[n + 1]] = "returned")
    BY <1>5, <1>10, <1>12
  <2> QED BY <1>6, <1>7, <2>1, <2>2, <2>3, <2>4 DEF AnsweredFollows
<1>14. FailsLast'
  <2> SUFFICES ASSUME mode = "daemon" PROVE FailsLast'
    BY <1>7 DEF FailsLast
  <2>1. main.at # "blocked" /\ is # "blocked"
    BY <1>1, <1>2 DEF FailsLast
  <2>2. \A k \in 1 .. n : answers[k].is = "completed"
    BY <1>1, <1>3, <1>4 DEF FailsLast
  <2>3. is = "error" => main'.at \notin AtBatch
    BY <1>2 DEF Rest, AtBatch, AtItem
  <2>4. \A k \in 1 .. n + 1 : k \in 1 .. n \/ k = n + 1
    OBVIOUS
  <2> QED BY <1>2, <1>5, <1>6, <2>1, <2>2, <2>3, <2>4 DEF FailsLast, AtItem
<1>15. BatchesSent' /\ IsInjective(batch)'
  BY <1>1, <1>7 DEF BatchesSent
<1>16. (main.at \in {"recv", "reading"} => todo = <<>> /\ mode = "daemon")'
  BY <1>2, <1>7
<1> QED BY <1>2, <1>9, <1>11, <1>13, <1>14, <1>15, <1>16 DEF TurnInv, AtItem

LEMMA TurnInit == Init => TurnInv
<1> SUFFICES ASSUME Init PROVE TurnInv
  OBVIOUS
<1>1. TypeInv
  BY TypeInit
<1>2. mode \in {"daemon", "batch"} /\ IsInjective(BatchFile)
  BY WorkerAssumption DEF Init, WorkerAssumption
<1>3. answers = <<>> /\ batch = todo /\ todo = (IF mode = "batch" THEN BatchFile ELSE <<>>) /\ inbox = <<>>
  BY DEF Init
<1>4. Len(answers) = 0 /\ Len(inbox) = 0 /\ Len(batch) \in Nat
  BY <1>1, <1>3, LenProperties DEF TypeInv
<1>5. IsInjective(batch)
  BY <1>2, <1>3 DEF IsInjective
<1>6. main.at = IF mode = "daemon" THEN "recv" ELSE IF BatchFile = <<>> THEN "over" ELSE "next"
  BY DEF Init
<1>7. TodoFollows
  BY <1>2, <1>3, <1>4, <1>6 DEF TodoFollows, Mine, AtItem, AtBatch
<1> QED BY <1>1, <1>2, <1>3, <1>4, <1>5, <1>6, <1>7 DEF TurnInv, BatchesSent, AnsweredFollows, FailsLast

LEMMA TurnStep == TurnInv /\ [Next]_vars => TurnInv'
<1> SUFFICES ASSUME TurnInv, [Next]_vars PROVE TurnInv'
  OBVIOUS
<1>1. CASE UNCHANGED vars
  <2>1. UNCHANGED <<mode, main, code, calls, todo, batch, answers, inbox, outbox, stopped, exec, sent>>
    BY <1>1 DEF vars, proc
  <2>2. TypeInv' /\ Lasts /\ Keeps /\ BatchesSent'
    BY <2>1 DEF TurnInv, TypeInv, Lasts, Keeps, BatchesSent
  <2> QED BY <2>1, <2>2, TurnKept
<1>2. CASE Next
  BY <1>2, TurnMain, TurnFunction, TurnExecutor, TurnMessage, TurnStart, TurnEmit
     DEF Next, MainThread, Executor
<1> QED BY <1>1, <1>2

\* The inductive invariant holds: whatever its functions and the I/O loop do, a
\* worker goes through its batch in order, each item once (run_daemon, run_batch).
THEOREM InTurn == Spec => []TurnInv
<1>1. Init => TurnInv
  BY TurnInit
<1>2. TurnInv /\ [Next]_vars => TurnInv'
  BY TurnStep
<1> QED BY <1>1, <1>2, PTL DEF Spec

-----------------------------------------------------------------------------
(***************************************************************************)
(* Batch mode: what a failure blocks.                                      *)
(***************************************************************************)
LEMMA BlockedIsLost ==
    ASSUME TurnInv, unavailable = LostIds(answers), NEW i \in Items
    PROVE  Blocked(i) <=> ReadsLost(answers, Len(answers) + 1, i)
<1>1. Len(answers) \in Nat
  BY LenProperties DEF TurnInv, TypeInv
<1>2. \A k : k \in 1 .. (Len(answers) + 1) - 1 <=> k \in 1 .. Len(answers)
  BY <1>1
<1>3. ASSUME Blocked(i) PROVE ReadsLost(answers, Len(answers) + 1, i)
  <2>1. PICK node \in Inputs[i] : Ids(i, node) \cap unavailable # {}
    BY <1>3 DEF Blocked
  <2>2. PICK id : id \in LostIds(answers) /\ id \in {<<node, Key[i]>>, <<node, NoKey>>}
    BY <2>1 DEF Ids
  <2>3. PICK j \in 1 .. Len(answers) :
           answers[j].is # "completed" /\ id = <<Node[batch[j]], Key[batch[j]]>>
    BY <2>2 DEF LostIds
  <2>4. Node[batch[j]] = node /\ Key[batch[j]] \in {Key[i], NoKey}
    BY <2>2, <2>3
  <2> QED BY <1>2, <2>1, <2>3, <2>4 DEF ReadsLost
<1>4. ASSUME ReadsLost(answers, Len(answers) + 1, i) PROVE Blocked(i)
  <2>1. PICK j \in 1 .. Len(answers) :
           /\ answers[j].is # "completed" /\ Node[batch[j]] \in Inputs[i]
           /\ Key[batch[j]] \in {Key[i], NoKey}
    BY <1>2, <1>4 DEF ReadsLost
  <2>2. <<Node[batch[j]], Key[batch[j]]>> \in LostIds(answers)
    BY <2>1 DEF LostIds
  <2>3. <<Node[batch[j]], Key[batch[j]]>> \in Ids(i, Node[batch[j]])
    BY <2>1 DEF Ids
  <2> QED BY <2>1, <2>2, <2>3 DEF Blocked
<1> QED BY <1>3, <1>4

LEMMA BlockInit == Init => BlockInv
<1> SUFFICES ASSUME Init, mode = "batch" PROVE BlockInv
  BY DEF BlockInv
<1>1. answers = <<>> /\ unavailable = {} /\ main.at \notin AtItem
  BY DEF Init, AtItem
<1>2. Len(answers) = 0
  BY <1>1, EmptySeq
<1>3. LostIds(answers) = {}
  BY <1>2 DEF LostIds
<1> QED BY <1>1, <1>2, <1>3 DEF BlockInv, AtItem

\* No item is blocked or cleared but at its start.
LEMMA BlockKept ==
    ASSUME BlockInv, UNCHANGED <<mode, answers, batch, unavailable>>,
           \/ mode = "daemon"
           \/ main' = main
           \/ main'.at \notin AtItem
           \/ /\ main'.item = main.item
              /\ main.at \in AtItem \ {"blocked"} /\ main'.at \in AtItem \ {"blocked"}
    PROVE  BlockInv'
BY DEF BlockInv, LostIds, ReadsLost, Blocked, Ids, AtItem

LEMMA BlockStart ==
    ASSUME TurnInv, BlockInv, RunBatchStep
    PROVE  BlockInv'
<1>1. PICK i : i = Head(todo)
  OBVIOUS
<1>2. PICK place \in {"join", "fail", "blocked"} : StartStep(i, place) /\ (place = "blocked" <=> Blocked(i))
  BY <1>1 DEF RunBatchStep
<1>3. main' = [at |-> place, item |-> i] /\ UNCHANGED <<mode, answers, batch, unavailable>>
  BY <1>2 DEF StartStep
<1>4. main'.at = place /\ main'.item = i /\ (Blocked(i)' <=> Blocked(i))
  BY <1>3 DEF Blocked, Ids
<1>5. Blocked(main.item)' <=> Blocked(i)
  BY <1>3, <1>4 DEF Blocked, Ids
<1> QED BY <1>2, <1>3, <1>4, <1>5 DEF BlockInv, LostIds, ReadsLost, AtItem

LEMMA BlockEmit ==
    ASSUME TurnInv, TurnInv', BlockInv, Emit
    PROVE  BlockInv'
<1> SUFFICES ASSUME mode = "batch", mode' = "batch" PROVE BlockInv'
  BY DEF BlockInv, Emit
<1>1. PICK is \in {"completed", "error", "blocked"} :
             /\ main.at \in {"done", "fail", "blocked"}
             /\ is = "completed" <=> main.at = "done"
             /\ is = "blocked" <=> main.at = "blocked"
             /\ outbox' = Append(outbox, Answer(is, main.item))
             /\ answers' = Append(answers, Answer(is, main.item))
             /\ AfterAnswer(is) /\ Connected
             /\ main'.at = IF Rest(is) # <<>> THEN "next" ELSE IF mode = "daemon" THEN "recv" ELSE "over"
             /\ main' \in [at : Places, item : Items \cup {Nobody}] /\ main'.at \notin AtItem
  BY Emits
<1>2. main.at \in AtItem /\ main.at \in AtBatch /\ main.item \in Items
  BY <1>1 DEF AtItem, AtBatch, TurnInv, TypeInv
<1>3. PICK n \in Nat : n = Len(answers)
  BY LenProperties DEF TurnInv, TypeInv
<1>4. PICK i \in Items : i = main.item /\ i = batch[n + 1]
  BY <1>2, <1>3 DEF TurnInv, TodoFollows
<1>5. PICK m \in AnswerSet : m = Answer(is, main.item) /\ m.is = is
  BY <1>1, <1>2, Messages
<1>6. Len(answers') = n + 1 /\ answers'[n + 1] = m /\ \A k \in 1 .. n : answers'[k] = answers[k]
  <2>1. answers \in Seq(AnswerSet)
    BY DEF TurnInv, TypeInv
  <2> QED BY <1>1, <1>3, <1>5, <2>1, AppendProperties
<1>7. batch' = batch
  BY DEF Emit
<1>8. unavailable' = IF is # "completed" THEN unavailable \cup {<<Node[i], Key[i]>>} ELSE unavailable
  BY <1>1, <1>4 DEF AfterAnswer
<1>9. unavailable = LostIds(answers)
  BY DEF BlockInv
<1>10. \A k \in 1 .. n + 1 : k \in 1 .. n \/ k = n + 1
  OBVIOUS
<1>11. (unavailable = LostIds(answers))'
  <2>1. ASSUME NEW id PROVE id \in LostIds(answers)' <=> id \in unavailable'
    <3>1. id \in LostIds(answers)' <=>
            \E j \in 1 .. n + 1 : answers'[j].is # "completed" /\ id = <<Node[batch[j]], Key[batch[j]]>>
      BY <1>6, <1>7 DEF LostIds
    <3>2. id \in LostIds(answers) <=>
            \E j \in 1 .. n : answers[j].is # "completed" /\ id = <<Node[batch[j]], Key[batch[j]]>>
      BY <1>3 DEF LostIds
    <3>3. (\E j \in 1 .. n + 1 : answers'[j].is # "completed" /\ id = <<Node[batch[j]], Key[batch[j]]>>)
            <=> \/ \E j \in 1 .. n : answers[j].is # "completed" /\ id = <<Node[batch[j]], Key[batch[j]]>>
                \/ is # "completed" /\ id = <<Node[i], Key[i]>>
      <4>1. \A j \in 1 .. n : j \in 1 .. n + 1
        OBVIOUS
      <4>2. n + 1 \in 1 .. n + 1
        OBVIOUS
      <4> QED BY <1>4, <1>5, <1>6, <1>10, <4>1, <4>2
    <3> QED BY <1>8, <1>9, <3>1, <3>2, <3>3
  <2>2. \A id : id \in LostIds(answers)' <=> id \in unavailable'
    BY <2>1
  <2> QED BY <2>2
<1>12. ASSUME NEW k \in 1 .. n + 1, NEW j \in Items
      PROVE ReadsLost(answers, k, j)' <=> ReadsLost(answers, k, j)
  <2>1. \A h \in 1 .. k - 1 : h \in 1 .. n
    OBVIOUS
  <2>2. \A h \in 1 .. k - 1 : answers'[h] = answers[h]
    BY <1>6, <2>1
  <2> QED BY <1>7, <2>2 DEF ReadsLost
<1>13. is = "blocked" <=> ReadsLost(answers, n + 1, i)
  <2>1. Blocked(i) <=> ReadsLost(answers, n + 1, i)
    BY <1>3, <1>9, BlockedIsLost
  <2>2. main.at = "blocked" <=> Blocked(i)
    BY <1>2, <1>4 DEF BlockInv
  <2> QED BY <1>1, <2>1, <2>2
<1>14. ASSUME NEW k \in 1 .. n + 1 PROVE (answers[k].is = "blocked" <=> ReadsLost(answers, k, batch[k]))'
  <2>1. CASE k = n + 1
    <3>1. ReadsLost(answers, k, i)' <=> ReadsLost(answers, k, i)
      BY <1>12
    <3>2. ReadsLost(answers, k, batch[k])' <=> ReadsLost(answers, k, i)'
      BY <1>4, <1>7, <2>1 DEF ReadsLost
    <3> QED BY <1>5, <1>6, <1>13, <2>1, <3>1, <3>2
  <2>2. CASE k \in 1 .. n
    <3>1. PICK j \in Items : j = batch[k]
      <4>1. batch \in Seq(Items) /\ Len(batch) \in Nat /\ n <= Len(batch)
        BY <1>3, LenProperties DEF TurnInv, TypeInv, AnsweredFollows
      <4>2. k \in 1 .. Len(batch)
        BY <2>2, <4>1
      <4> QED BY <4>1, <4>2
    <3>2. ReadsLost(answers, k, j)' <=> ReadsLost(answers, k, j)
      BY <1>12
    <3>3. ReadsLost(answers, k, batch[k])' <=> ReadsLost(answers, k, j)'
      BY <1>7, <3>1 DEF ReadsLost
    <3>4. answers[k].is = "blocked" <=> ReadsLost(answers, k, j)
      BY <1>3, <2>2, <3>1 DEF BlockInv
    <3>5. answers'[k] = answers[k]
      BY <1>6, <2>2
    <3> QED BY <3>2, <3>3, <3>4, <3>5
  <2> QED BY <1>10, <2>1, <2>2
<1>15. main'.at \notin AtItem
  BY <1>1
<1> QED BY <1>6, <1>11, <1>14, <1>15 DEF BlockInv, AtItem

LEMMA BlockStep == TurnInv /\ TurnInv' /\ BlockInv /\ [Next]_vars => BlockInv'
<1> SUFFICES ASSUME TurnInv, TurnInv', BlockInv, [Next]_vars PROVE BlockInv'
  OBVIOUS
<1> USE BlockKept
<1>1. CASE UNCHANGED vars
  BY <1>1 DEF vars, proc
<1>2. CASE RunBatchStep
  BY <1>2, BlockStart
<1>3. CASE Emit
  BY <1>3, BlockEmit
<1>4. CASE RunDaemonStep
  BY <1>4 DEF RunDaemonStep, StartStep, BlockInv
<1>5. CASE RecvMessage \/ ReceiveFails \/ TakeMessage
  BY <1>5 DEF RecvMessage, ReceiveFails, TakeMessage, TurnInv, BlockInv
<1>6. CASE EmitFails \/ Kill
  <2>1. main'.at = "over" /\ UNCHANGED <<mode, answers, batch, unavailable>>
    <3>1. TypeInv /\ At("over") /\ "over" \in Places /\ "over" \notin AtItem
      BY <1>6 DEF EmitFails, Kill, TurnInv, Places, AtItem
    <3> QED BY <1>6, <3>1, MainMoves DEF EmitFails, Kill
  <2> QED BY <2>1 DEF AtItem
<1>7. CASE Joined \/ TimeLimit \/ Materialize
  <2>1. PICK place \in {"write", "done", "fail", "over"} : At(place)
    BY <1>7 DEF Joined, TimeLimit, Materialize
  <2>2. main.at \in {"join", "write"} /\ UNCHANGED <<mode, answers, batch, unavailable>>
    BY <1>7 DEF Joined, TimeLimit, Materialize
  <2>3. main'.at = place /\ main'.item = main.item
    <3>1. TypeInv /\ place \in Places /\ (place \in AtItem => main.at \in AtItem)
      BY <2>2 DEF TurnInv, Places, AtItem
    <3> QED BY <2>1, <3>1, MainMoves
  <2> QED BY <2>2, <2>3 DEF AtItem
<1>8. CASE \E i \in Items : Function(i)
  BY <1>8 DEF Function, Call, Submit, Await, TakeResponse, Ends
<1>9. CASE (\E b \in Batches : Assign(b)) \/ Handle \/ Respond \/ Dismiss \/ Vanish
  BY <1>9 DEF Assign, Handle, Respond, Dismiss, Vanish, proc
<1> QED BY <1>1, <1>2, <1>3, <1>4, <1>5, <1>6, <1>7, <1>8, <1>9 DEF Next, MainThread, Executor

LEMMA BlockImplies ==
    ASSUME TurnInv, BlockInv
    PROVE  BlockedExactly
<1> SUFFICES ASSUME mode = "batch", NEW k \in DOMAIN answers
             PROVE  answers[k].is = "blocked" <=> ReadsLost(answers, k, batch[k])
  BY DEF BlockedExactly, ReadsLost
<1>1. DOMAIN answers = 1 .. Len(answers)
  BY LenProperties DEF TurnInv, TypeInv
<1> QED BY <1>1 DEF BlockInv

\* In batch mode a step is blocked exactly when something it reads, of its own
\* partition or unpartitioned, failed or was blocked earlier (run_batch).
THEOREM BlocksRight == Spec => []BlockedExactly
<1>1. Init => TurnInv /\ BlockInv
  BY TurnInit, BlockInit
<1>2. (TurnInv /\ BlockInv) /\ [Next]_vars => (TurnInv /\ BlockInv)'
  BY TurnStep, BlockStep
<1>3. TurnInv /\ BlockInv => BlockedExactly
  BY BlockImplies
<1> QED BY <1>1, <1>2, <1>3, PTL DEF Spec

-----------------------------------------------------------------------------
(***************************************************************************)
(* Both modes: the answers to a batch.                                     *)
(***************************************************************************)
\* Whatever its functions do, whenever time limits pass and wherever their
\* threads are left, whatever calls of parallel() are under way and whenever the
\* process is stopped: a batch is answered step by step in its order, each step
\* once, a success only if its function returned, and a daemon says nothing
\* after a failure (run_daemon, run_batch).
THEOREM AnswersInOrder == Spec => []AnswersFollowBatch
<1>1. TurnInv => AnswersFollowBatch
  <2>1. TurnInv => DOMAIN answers = 1 .. Len(answers)
    BY LenProperties DEF TurnInv, TypeInv
  <2> QED BY <2>1 DEF TurnInv, AnsweredFollows, FailsLast, AnswersFollowBatch
<1> QED BY <1>1, InTurn, PTL

=============================================================================
