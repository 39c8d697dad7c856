--------------------------- MODULE StateBlobProofs ---------------------------
(***************************************************************************)
(* The transfers of _state.py implement a compare-and-swap register, for   *)
(* any number of clients and runs, on each kind of store, if no SDK sends  *)
(* a put twice and unrelated errors do not read like a refusal.            *)
(***************************************************************************)
EXTENDS StateBlob, TLAPS

\* None, for no object, is neither a generation nor a hash.
NoneIsNoToken == None \notin Nat /\ \A data : Sha256(data) # None

\* No put is sent twice, and the text of no unrelated error reads like a refusal.
PutsOnce == Resends = {} /\ Says \subseteq {{}}

-----------------------------------------------------------------------------
(* The inductive invariant. *)

Stage  == {"rest", "flock", "token", "fetch", "replace", "compare", "copy", "put",
           "answer", "confirm"}
Before == {"flock", "compare", "copy", "replace", "put"}   \* a push that has not written

TypeOK ==
    /\ backend \in Store
    /\ started \in Nat
    /\ blob  \in [data : SUBSET (1 .. started), gen : Nat]
    /\ local \in [Client -> SUBSET (1 .. started)]
    /\ temp  \in [Client -> SUBSET (1 .. started)]
    /\ pc    \in [Client -> Stage]
    /\ verb  \in [Client -> {"pull", "push"}]
    /\ run   \in [Client -> 0 .. started]
    /\ told  \in [Client -> {"pending", "pulled", "ok", "conflict", "error"}]
    /\ base  = [c \in Client |-> base[c]]
    /\ token = [c \in Client |-> token[c]]

\* Where a transfer can be.
Place(c) ==
    /\ told[c] = "pending" <=> pc[c] # "rest"
    /\ pc[c] \in {"token", "fetch"} => verb[c] = "pull"
    /\ pc[c] \in {"compare", "copy", "put", "answer", "confirm"} => verb[c] = "push"
    /\ IF backend = "file" THEN pc[c] \notin {"put", "answer"}
       ELSE pc[c] \notin {"flock", "compare", "copy"} /\ (pc[c] = "replace" => verb[c] = "pull")

\* A token is that of the object as it is or was.
OldToken(c) ==
    \/ token[c] = None
    \/ backend \in {"file", "s3"} /\ \E data \in SUBSET blob.data : token[c] = Sha256(data)
    \/ backend \notin {"file", "s3"} /\ token[c] \in 0 .. blob.gen

\* Has pulled and not written since.
Ready(c)      == \/ pc[c] = "rest" /\ told[c] = "pulled"
                 \/ verb[c] = "push" /\ pc[c] \in Before
Installing(c) == pc[c] = "replace" /\ verb[c] = "pull"
Replacing(c)  == pc[c] = "replace" /\ verb[c] = "push"

\* While its token is current, a client works on what the object holds.
Current(c) ==
    /\ Ready(c) \/ Installing(c) => (token[c] = RemoteToken(blob) => base[c] = blob.data)
    /\ pc[c] = "copy" \/ Replacing(c) => token[c] = RemoteToken(blob)

\* What a push would write: what was pulled, and the run.
Written(c) ==
    /\ Ready(c) => base[c] \subseteq local[c]
    /\ Installing(c) => temp[c] = base[c]
    /\ Replacing(c) => temp[c] = local[c]
    /\ verb[c] = "push" /\ pc[c] \in Before => run[c] \in local[c]

\* A run is in the object once its push has written, and not before.
Published(c) ==
    /\ pc[c] \in {"answer", "confirm"} => run[c] \in blob.data
    /\ \/ told[c] \in {"pulled", "conflict"}
       \/ pc[c] \notin {"rest", "answer", "confirm"}
       => run[c] \notin blob.data

Own(c) == Place(c) /\ OldToken(c) /\ Current(c) /\ Written(c) /\ Published(c)

\* On a directory every transfer past the lock holds it.
Locked == backend = "file" => \A c \in Client : pc[c] \notin {"rest", "flock"} => lock = c

\* A run has one client, and only what is in the object reaches the others.
Private ==
    \A c, d \in Client : c # d =>
        /\ run[c] \in local[d] \cup temp[d] => run[c] \in blob.data
        /\ run[c] = run[d] => run[c] = 0

IInv == TypeOK /\ Locked /\ Private /\ \A c \in Client : Own(c)

-----------------------------------------------------------------------------
(* One client's step. *)

\* A step of c leaves what others have.
Alone(c) ==
    \A d \in Client \ {c} :
        /\ pc'[d] = pc[d] /\ verb'[d] = verb[d] /\ told'[d] = told[d]
        /\ token'[d] = token[d] /\ base'[d] = base[d] /\ run'[d] = run[d]
        /\ local'[d] = local[d] /\ temp'[d] = temp[d]

\* At first nobody has pulled.
LEMMA InitInv == Init => IInv
<1> SUFFICES ASSUME Init PROVE IInv
  OBVIOUS
<1>1. TypeOK
  BY StateBlobAssumption DEF Init, TypeOK, Stage
<1>2. Locked /\ Private
  BY DEF Init, Locked, Private
<1>3. ASSUME NEW c \in Client PROVE Own(c)
  BY DEF Init, Own, Place, OldToken, Current, Written, Published, Ready, Installing,
         Replacing, Before
<1> QED BY <1>1, <1>2, <1>3 DEF IInv

\* Without a write, the others stay as they were.
LEMMA OthersKeep ==
    ASSUME IInv, NEW c \in Client, Alone(c), UNCHANGED <<backend, blob>>
    PROVE  \A d \in Client \ {c} : Own(d)'
<1> SUFFICES ASSUME NEW d \in Client \ {c} PROVE Own(d)'
  OBVIOUS
<1>1. Own(d) /\ RemoteToken(blob)' = RemoteToken(blob)
  BY DEF IInv, RemoteToken
<1>2. Place(d)' /\ OldToken(d)'
  BY <1>1 DEF Own, Place, OldToken, Alone
<1>3. Current(d)' /\ Written(d)' /\ Published(d)'
  BY <1>1 DEF Own, Current, Written, Published, Ready, Installing, Replacing, Alone
<1> QED BY <1>2, <1>3 DEF Own

\* What a write of c puts in the object.
Upload(c) == IF pc[c] = "replace" THEN temp[c] ELSE local[c]

\* When c writes on top of what the object holds, the object grows by no other
\* client's run, and no token is the new one.
LEMMA WriteKeeps ==
    ASSUME IInv, NoneIsNoToken, NEW c \in Client, Alone(c),
           base[c] \subseteq Upload(c), base[c] = blob.data, run[c] \in Upload(c),
           run[c] \notin blob.data,
           blob' = Stored(Upload(c)), backend' = backend,
           backend = "file" => Replacing(c)
    PROVE  /\ \A d \in Client \ {c} : Own(d)'
           /\ blob.data \subseteq blob'.data /\ blob.data # blob'.data
           /\ \A d \in Client \ {c} : run[d] \in blob'.data <=> run[d] \in blob.data
<1> DEFINE data == Upload(c)
<1>0. data \in {local[c], temp[c]}
  BY DEF Upload
<1> HIDE DEF data
<1>1. /\ blob'.data = data /\ blob'.gen = blob.gen + 1
      /\ blob.data \subseteq data /\ blob.data # data /\ data # {}
      /\ blob.gen \in Nat
  BY DEF data, Stored, IInv, TypeOK
<1>2. \A d \in Client \ {c} : run[d] \in data <=> run[d] \in blob.data
  BY <1>0, <1>1 DEF IInv, Private
<1>3. ASSUME NEW d \in Client \ {c} PROVE Own(d)'
  <2>1. Own(d)
    BY DEF IInv
  <2>2. Place(d)'
    BY <2>1 DEF Own, Place, Alone
  <2>3. OldToken(d)'
    <3>1. CASE backend \in {"file", "s3"}
      BY <2>1, <1>1, <3>1 DEF Own, OldToken, Alone
    <3>2. CASE backend \notin {"file", "s3"}
      BY <2>1, <1>1, <3>2 DEF Own, OldToken, Alone
    <3> QED BY <3>1, <3>2
  <2>4. token[d] # RemoteToken(blob)'
    <3>1. CASE backend \in {"file", "s3"}
      <4>1. RemoteToken(blob)' = Sha256(data)
        BY <1>1, <3>1 DEF RemoteToken
      <4>2. \A old \in SUBSET blob.data : Sha256(old) # Sha256(data)
        BY <1>1 DEF Sha256
      <4> QED BY <2>1, <3>1, <4>1, <4>2 DEF Own, OldToken, NoneIsNoToken
    <3>2. CASE backend \notin {"file", "s3"}
      <4>1. RemoteToken(blob)' = blob.gen + 1
        BY <1>1, <3>2 DEF RemoteToken
      <4> QED BY <2>1, <1>1, <3>2, <4>1 DEF Own, OldToken, NoneIsNoToken
    <3> QED BY <3>1, <3>2
  <2>5. ~ (pc[d] = "copy" \/ Replacing(d))
    BY <2>1 DEF IInv, Locked, Own, Place, Replacing
  <2>6. Current(d)'
    BY <2>4, <2>5 DEF Current, Ready, Installing, Replacing, Alone
  <2>7. Written(d)'
    BY <2>1 DEF Own, Written, Ready, Installing, Replacing, Alone
  <2>8. Published(d)'
    BY <2>1, <1>1, <1>2 DEF Own, Published, Alone
  <2> QED BY <2>2, <2>3, <2>6, <2>7, <2>8 DEF Own
<1> QED BY <1>1, <1>2, <1>3

\* A pull begins: the run of a conflict stays, any other is over.
LEMMA StartPullKeeps ==
    ASSUME IInv, NEW c \in Client, StartPull(c)
    PROVE  IInv'
<1>1. TypeOK'
  <2>1. pc' \in [Client -> Stage] /\ verb' \in [Client -> {"pull", "push"}]
    BY DEF IInv, TypeOK, Stage, StartPull, Goto
  <2>2. run' \in [Client -> 0 .. started]
    BY DEF IInv, TypeOK, StartPull, Goto
  <2>3. told' \in [Client -> {"pending", "pulled", "ok", "conflict", "error"}]
    BY DEF IInv, TypeOK, StartPull, Goto
  <2> QED
    BY <2>1, <2>2, <2>3 DEF IInv, TypeOK, StartPull, Goto
<1>2. Alone(c) /\ UNCHANGED <<backend, blob>>
  BY DEF IInv, TypeOK, Alone, StartPull, Goto
<1>3. Locked'
  BY DEF IInv, TypeOK, Own, Place, Locked, StartPull, Goto
<1>4. Private'
  BY DEF IInv, TypeOK, Private, StartPull, Goto
<1>5. Own(c)'
  BY <1>2 DEF IInv, TypeOK, Own, Place, OldToken, Current, Written, Published,
     Ready, Installing, Replacing, Before, RemoteToken, StartPull, Goto
<1> QED BY <1>1, <1>2, <1>3, <1>4, <1>5, OthersKeep DEF IInv

\* A push begins: a new run has a number that nobody has seen.
LEMMA StartPushKeeps ==
    ASSUME IInv, NEW c \in Client, StartPush(c)
    PROVE  IInv'
<1>1. TypeOK'
  BY DEF IInv, TypeOK, Stage, StartPush, Goto
<1>2. Alone(c) /\ UNCHANGED <<backend, blob>>
  BY DEF IInv, TypeOK, Alone, StartPush, Goto
<1>3. Locked'
  BY DEF IInv, TypeOK, Own, Place, Locked, StartPush, Goto
<1>4. Private'
  BY DEF IInv, TypeOK, Private, StartPush, Goto
<1>5. Own(c)'
  BY <1>2 DEF IInv, TypeOK, Own, Place, OldToken, Current, Written, Published,
     Ready, Installing, Replacing, Before, RemoteToken, StartPush, Goto
<1> QED BY <1>1, <1>2, <1>3, <1>4, <1>5, OthersKeep DEF IInv

\* The lock is free, so no other transfer is past it.
LEMMA FlockKeeps ==
    ASSUME IInv, NEW c \in Client, Flock(c)
    PROVE  IInv'
<1>1. TypeOK'
  BY DEF IInv, TypeOK, Stage, Flock, Goto
<1>2. Alone(c) /\ UNCHANGED <<backend, blob>>
  BY DEF IInv, TypeOK, Alone, Flock, Goto
<1>3. Locked'
  BY StateBlobAssumption DEF IInv, TypeOK, Own, Place, Locked, Flock, Goto
<1>4. Private'
  BY DEF IInv, TypeOK, Private, Flock, Goto
<1>5. Own(c)'
  BY <1>2 DEF IInv, TypeOK, Own, Place, OldToken, Current, Written, Published,
     Ready, Installing, Replacing, Before, RemoteToken, Flock, Goto
<1> QED BY <1>1, <1>2, <1>3, <1>4, <1>5, OthersKeep DEF IInv

\* Without an object there is nothing to build on, which is what the client then has.
LEMMA PullsNothingKeeps ==
    ASSUME IInv, NEW c \in Client, PullsNothing(c)
    PROVE  IInv'
<1>1. TypeOK'
  BY DEF IInv, TypeOK, Stage, PullsNothing, Goto, End
<1>2. Alone(c) /\ UNCHANGED <<backend, blob>>
  BY DEF IInv, TypeOK, Alone, PullsNothing, Goto, End
<1>3. Locked'
  BY DEF IInv, TypeOK, Own, Place, Locked, PullsNothing, Goto, End
<1>4. Private'
  BY DEF IInv, TypeOK, Private, PullsNothing, Goto, End
<1>5. Own(c)'
  BY <1>2 DEF IInv, TypeOK, Own, Place, OldToken, Current, Written, Published,
     Ready, Installing, Replacing, Before, RemoteToken, PullsNothing, Goto, End
<1> QED BY <1>1, <1>2, <1>3, <1>4, <1>5, OthersKeep DEF IInv

\* The token is that of the object as it is.
LEMMA ReadTokenKeeps ==
    ASSUME IInv, NEW c \in Client, ReadToken(c)
    PROVE  IInv'
<1>1. TypeOK'
  BY DEF IInv, TypeOK, Stage, ReadToken, Goto, RemoteToken
<1>2. Alone(c) /\ UNCHANGED <<backend, blob>>
  BY DEF IInv, TypeOK, Alone, ReadToken, Goto, RemoteToken
<1>3. Locked'
  BY DEF IInv, TypeOK, Own, Place, Locked, ReadToken, Goto, RemoteToken
<1>4. Private'
  BY DEF IInv, TypeOK, Private, ReadToken, Goto, RemoteToken
<1>5. Own(c)'
  BY <1>2 DEF IInv, TypeOK, Own, Place, OldToken, Current, Written, Published,
     Ready, Installing, Replacing, Before, ReadToken, Goto, RemoteToken
<1> QED BY <1>1, <1>2, <1>3, <1>4, <1>5, OthersKeep DEF IInv

\* What is downloaded may be newer than the token, which is then not current.
LEMMA FetchKeeps ==
    ASSUME IInv, NEW c \in Client, Fetch(c)
    PROVE  IInv'
<1>1. TypeOK'
  BY DEF IInv, TypeOK, Stage, Fetch, Goto
<1>2. Alone(c) /\ UNCHANGED <<backend, blob>>
  BY DEF IInv, TypeOK, Alone, Fetch, Goto
<1>3. Locked'
  BY DEF IInv, TypeOK, Own, Place, Locked, Fetch, Goto
<1>4. Private'
  BY DEF IInv, TypeOK, Private, Fetch, Goto
<1>5. Own(c)'
  BY <1>2 DEF IInv, TypeOK, Own, Place, OldToken, Current, Written, Published,
     Ready, Installing, Replacing, Before, RemoteToken, Fetch, Goto
<1> QED BY <1>1, <1>2, <1>3, <1>4, <1>5, OthersKeep DEF IInv

\* The local file becomes what was downloaded.
LEMMA InstallKeeps ==
    ASSUME IInv, NEW c \in Client, Install(c)
    PROVE  IInv'
<1>1. TypeOK'
  BY DEF IInv, TypeOK, Stage, Install, Goto, End
<1>2. Alone(c) /\ UNCHANGED <<backend, blob>>
  BY DEF IInv, TypeOK, Alone, Install, Goto, End
<1>3. Locked'
  BY DEF IInv, TypeOK, Own, Place, Locked, Install, Goto, End
<1>4. Private'
  BY DEF IInv, TypeOK, Private, Install, Goto, End
<1>5. Own(c)'
  BY <1>2 DEF IInv, TypeOK, Own, Place, OldToken, Current, Written, Published,
     Ready, Installing, Replacing, Before, RemoteToken, Install, Goto, End
<1> QED BY <1>1, <1>2, <1>3, <1>4, <1>5, OthersKeep DEF IInv

\* Under the lock, a token that is current stays so until the rename.
LEMMA CompareKeeps ==
    ASSUME IInv, NEW c \in Client, Compare(c)
    PROVE  IInv'
<1>1. TypeOK'
  BY DEF IInv, TypeOK, Stage, Compare, Goto, End
<1>2. Alone(c) /\ UNCHANGED <<backend, blob>>
  BY DEF IInv, TypeOK, Alone, Compare, Goto, End
<1>3. Locked'
  BY DEF IInv, TypeOK, Own, Place, Locked, Compare, Goto, End
<1>4. Private'
  BY DEF IInv, TypeOK, Private, Compare, Goto, End
<1>5. Own(c)'
  BY <1>2 DEF IInv, TypeOK, Own, Place, OldToken, Current, Written, Published,
     Ready, Installing, Replacing, Before, RemoteToken, Compare, Goto, End
<1> QED BY <1>1, <1>2, <1>3, <1>4, <1>5, OthersKeep DEF IInv

\* What will be renamed over the object is the local file.
LEMMA CopyKeeps ==
    ASSUME IInv, NEW c \in Client, Copy(c)
    PROVE  IInv'
<1>1. TypeOK'
  BY DEF IInv, TypeOK, Stage, Copy, Goto
<1>2. Alone(c) /\ UNCHANGED <<backend, blob>>
  BY DEF IInv, TypeOK, Alone, Copy, Goto
<1>3. Locked'
  BY DEF IInv, TypeOK, Own, Place, Locked, Copy, Goto
<1>4. Private'
  BY DEF IInv, TypeOK, Private, Copy, Goto
<1>5. Own(c)'
  BY <1>2 DEF IInv, TypeOK, Own, Place, OldToken, Current, Written, Published,
     Ready, Installing, Replacing, Before, RemoteToken, Copy, Goto
<1> QED BY <1>1, <1>2, <1>3, <1>4, <1>5, OthersKeep DEF IInv

\* A put that took effect is not sent again, nor called a conflict.
LEMMA AnsweredKeeps ==
    ASSUME IInv, PutsOnce, NEW c \in Client, Answered(c)
    PROVE  IInv'
<1>1. TypeOK'
  BY DEF IInv, TypeOK, Stage, Answered, Goto, End, Raise, IsConflict, PutsOnce,
     ConflictNames
<1>2. Alone(c) /\ UNCHANGED <<backend, blob>>
  BY DEF IInv, TypeOK, Alone, Answered, Goto, End, Raise, IsConflict, PutsOnce,
     ConflictNames
<1>3. Locked'
  BY DEF IInv, TypeOK, Own, Place, Locked, Answered, Goto, End, Raise, IsConflict,
     PutsOnce, ConflictNames
<1>4. Private'
  BY DEF IInv, TypeOK, Private, Answered, Goto, End, Raise, IsConflict, PutsOnce,
     ConflictNames
<1>5. Own(c)'
  BY <1>2 DEF IInv, TypeOK, Own, Place, OldToken, Current, Written, Published,
     Ready, Installing, Replacing, Before, RemoteToken, Answered, Goto, End, Raise,
     IsConflict, PutsOnce, ConflictNames
<1> QED BY <1>1, <1>2, <1>3, <1>4, <1>5, OthersKeep DEF IInv

\* A refused put wrote nothing.
LEMMA RefusedKeeps ==
    ASSUME IInv, NEW c \in Client, Refused(c)
    PROVE  IInv'
<1>1. TypeOK'
  BY DEF IInv, TypeOK, Stage, Refused, Goto, End, Raise
<1>2. Alone(c) /\ UNCHANGED <<backend, blob>>
  BY DEF IInv, TypeOK, Alone, Refused, Goto, End, Raise
<1>3. Locked'
  BY DEF IInv, TypeOK, Own, Place, Locked, Refused, Goto, End, Raise
<1>4. Private'
  BY DEF IInv, TypeOK, Private, Refused, Goto, End, Raise
<1>5. Own(c)'
  BY <1>2 DEF IInv, TypeOK, Own, Place, OldToken, Current, Written, Published,
     Ready, Installing, Replacing, Before, RemoteToken, Refused, Goto, End, Raise
<1> QED BY <1>1, <1>2, <1>3, <1>4, <1>5, OthersKeep DEF IInv

\* A put that was not made wrote nothing.
LEMMA PutFailsKeeps ==
    ASSUME IInv, NEW c \in Client, PutFails(c)
    PROVE  IInv'
<1>1. TypeOK'
  BY DEF IInv, TypeOK, Stage, PutFails, Goto, End, Raise
<1>2. Alone(c) /\ UNCHANGED <<backend, blob>>
  BY DEF IInv, TypeOK, Alone, PutFails, Goto, End, Raise
<1>3. Locked'
  BY DEF IInv, TypeOK, Own, Place, Locked, PutFails, Goto, End, Raise
<1>4. Private'
  BY DEF IInv, TypeOK, Private, PutFails, Goto, End, Raise
<1>5. Own(c)'
  BY <1>2 DEF IInv, TypeOK, Own, Place, OldToken, Current, Written, Published,
     Ready, Installing, Replacing, Before, RemoteToken, PutFails, Goto, End, Raise
<1> QED BY <1>1, <1>2, <1>3, <1>4, <1>5, OthersKeep DEF IInv

\* A push ends well.
LEMMA ConfirmKeeps ==
    ASSUME IInv, NEW c \in Client, Confirm(c)
    PROVE  IInv'
<1>1. TypeOK'
  BY DEF IInv, TypeOK, Stage, Confirm, Goto, End
<1>2. Alone(c) /\ UNCHANGED <<backend, blob>>
  BY DEF IInv, TypeOK, Alone, Confirm, Goto, End
<1>3. Locked'
  BY DEF IInv, TypeOK, Own, Place, Locked, Confirm, Goto, End
<1>4. Private'
  BY DEF IInv, TypeOK, Private, Confirm, Goto, End
<1>5. Own(c)'
  BY <1>2 DEF IInv, TypeOK, Own, Place, OldToken, Current, Written, Published,
     Ready, Installing, Replacing, Before, RemoteToken, Confirm, Goto, End
<1> QED BY <1>1, <1>2, <1>3, <1>4, <1>5, OthersKeep DEF IInv

\* A transfer that fails leaves the object and the local file alone.
LEMMA FailsKeeps ==
    ASSUME IInv, NEW c \in Client, Fails(c)
    PROVE  IInv'
<1>1. TypeOK'
  BY DEF IInv, TypeOK, Stage, Fails, Goto, End
<1>2. Alone(c) /\ UNCHANGED <<backend, blob>>
  BY DEF IInv, TypeOK, Alone, Fails, Goto, End
<1>3. Locked'
  BY DEF IInv, TypeOK, Own, Place, Locked, Fails, Goto, End
<1>4. Private'
  BY DEF IInv, TypeOK, Private, Fails, Goto, End
<1>5. Own(c)'
  BY <1>2 DEF IInv, TypeOK, Own, Place, OldToken, Current, Written, Published,
     Ready, Installing, Replacing, Before, RemoteToken, Fails, Goto, End
<1> QED BY <1>1, <1>2, <1>3, <1>4, <1>5, OthersKeep DEF IInv

\* A push to a directory and a put write on top of what the object holds.
LEMMA WriteStep ==
    ASSUME IInv, NEW c \in Client, Replace(c) \/ Put(c)
    PROVE  /\ Alone(c) /\ blob' = Stored(Upload(c)) /\ backend' = backend
           /\ base[c] \subseteq Upload(c) /\ base[c] = blob.data
           /\ run[c] \in Upload(c) /\ run[c] \notin blob.data
           /\ backend = "file" => Replacing(c)
<1>1. Ready(c) /\ Own(c) /\ token[c] = RemoteToken(blob)
  BY DEF IInv, Own, Place, Current, Ready, Replacing, Before, Replace, Put
<1>2. Alone(c) /\ blob' = Stored(Upload(c)) /\ backend' = backend
  BY DEF IInv, TypeOK, Alone, Upload, Replace, Put, Goto
<1>3. base[c] = blob.data /\ base[c] \subseteq Upload(c) /\ run[c] \in Upload(c)
  BY <1>1 DEF Own, Place, Current, Written, Upload, Replacing, Before, Replace, Put
<1>4. run[c] \notin blob.data /\ (backend = "file" => Replacing(c))
  BY <1>1 DEF IInv, TypeOK, Own, Place, Published, Replacing, Replace, Put
<1> QED BY <1>2, <1>3, <1>4

\* A write keeps the invariant.
LEMMA WriteInv ==
    ASSUME IInv, NoneIsNoToken, NEW c \in Client, Replace(c) \/ Put(c)
    PROVE  IInv'
<1>1. /\ Alone(c) /\ blob' = Stored(Upload(c)) /\ backend' = backend
      /\ base[c] \subseteq Upload(c) /\ base[c] = blob.data
      /\ run[c] \in Upload(c) /\ run[c] \notin blob.data
      /\ backend = "file" => Replacing(c)
  BY WriteStep
<1>2. /\ \A d \in Client \ {c} : Own(d)'
      /\ blob.data \subseteq blob'.data
      /\ \A d \in Client \ {c} : run[d] \in blob'.data <=> run[d] \in blob.data
  BY <1>1, WriteKeeps
<1>3. blob'.data = Upload(c) /\ blob'.gen = blob.gen + 1
  BY <1>1 DEF Stored
<1>4. TypeOK'
  BY <1>1 DEF IInv, TypeOK, Stage, Stored, Upload, Replace, Put, Goto
<1>5. Locked'
  BY DEF IInv, TypeOK, Own, Place, Locked, Replace, Put, Goto
<1>6. Private'
  BY <1>2, <1>3 DEF IInv, TypeOK, Private, Upload, Replace, Put
<1>7. Own(c)'
  <2>1. Own(c)
    BY DEF IInv
  <2>2. Place(c)' /\ Written(c)' /\ Published(c)'
    BY <2>1, <1>1, <1>3 DEF IInv, TypeOK, Own, Place, Written, Published, Ready, Installing,
       Replacing, Before, Upload, Replace, Put, Goto
  <2>3. Current(c)'
    BY <2>1, <1>1 DEF IInv, TypeOK, Own, Place, Current, Ready, Installing, Replacing, Before,
       Replace, Put, Goto
  <2>4. OldToken(c)'
    <3>1. CASE backend \in {"file", "s3"}
      BY <2>1, <1>1, <1>2, <3>1 DEF Own, OldToken, Replace, Put
    <3>2. CASE backend \notin {"file", "s3"}
      BY <2>1, <1>1, <1>3, <3>2 DEF IInv, TypeOK, Own, OldToken, Replace, Put
    <3> QED BY <3>1, <3>2
  <2> QED BY <2>2, <2>3, <2>4 DEF Own
<1> QED BY <1>2, <1>4, <1>5, <1>6, <1>7 DEF IInv

\* Every step keeps the invariant.
LEMMA NextInv ==
    ASSUME IInv, NoneIsNoToken, PutsOnce, [Next]_vars
    PROVE  IInv'
<1>1. CASE UNCHANGED vars
  BY <1>1 DEF vars, IInv, TypeOK, Locked, Private, Own, Place, OldToken, Current, Written,
     Published, Ready, Installing, Replacing, RemoteToken
<1>2. ASSUME NEW c \in Client,
             StartPull(c) \/ StartPush(c) \/ Flock(c) \/ Pull(c) \/ Push(c) \/ Fails(c)
      PROVE  IInv'
  BY <1>2, StartPullKeeps, StartPushKeeps, FlockKeeps, PullsNothingKeeps, ReadTokenKeeps,
     FetchKeeps, InstallKeeps, CompareKeeps, CopyKeeps, AnsweredKeeps, RefusedKeeps,
     PutFailsKeeps, ConfirmKeeps, FailsKeeps, WriteInv DEF Pull, Push
<1> QED BY <1>1, <1>2 DEF Next

-----------------------------------------------------------------------------
(* The refinement. *)

Wrote == {c \in Client : run[c] \in blob.data}
Told  == [c \in Client |-> IF told[c] = "pulled" THEN "pending" ELSE told[c]]
RegisterVars == <<blob.data, base, Wrote, Told>>

\* The object is empty and nobody has read it.
LEMMA InitRegister == Init => Register!Init
<1> SUFFICES ASSUME Init PROVE Register!Init
  OBVIOUS
<1>1. blob.data = {} /\ base = [c \in Client |-> Unread]
  BY DEF Init
<1>2. Wrote = {}
  BY <1>1 DEF Wrote
<1>3. Told = [c \in Client |-> "error"]
  BY DEF Init, Told
<1> QED BY <1>1, <1>2, <1>3 DEF Register!Init, Wrote, Told

\* What a client is told; a pull tells the register's client nothing.
LEMMA Telling ==
    ASSUME IInv, NEW c \in Client, NEW answer, told' = [told EXCEPT ![c] = answer]
    PROVE  Told' = [Told EXCEPT ![c] = IF answer = "pulled" THEN "pending" ELSE answer]
  BY DEF IInv, TypeOK, Told

\* A transfer ends and the register's client is told.
LEMMA Tells ==
    ASSUME IInv, NEW c \in Client, NEW answer \in {"ok", "conflict", "error"},
           pc[c] # "rest", told' = [told EXCEPT ![c] = answer],
           UNCHANGED <<blob, base, run>>,
           answer = "ok" => run[c] \in blob.data,
           answer = "conflict" => run[c] \notin blob.data
    PROVE  Register!Tell(c)
<1>1. told[c] = "pending" /\ Told[c] = "pending"
  BY DEF IInv, Own, Place, Told
<1>2. Told' = [Told EXCEPT ![c] = answer]
  BY Telling
<1>3. Wrote' = Wrote /\ (c \in Wrote <=> run[c] \in blob.data)
  BY DEF Wrote
<1> QED BY <1>1, <1>2, <1>3 DEF Register!Tell, Register!Answer, Wrote, Told

\* c writes: the register is replaced, by c.
LEMMA Replaces ==
    ASSUME IInv, NoneIsNoToken, NEW c \in Client, Replace(c) \/ Put(c)
    PROVE  Register!Replace(c)
<1>1. /\ Alone(c) /\ blob' = Stored(Upload(c)) /\ backend' = backend
      /\ base[c] \subseteq Upload(c) /\ base[c] = blob.data
      /\ run[c] \in Upload(c) /\ run[c] \notin blob.data
      /\ backend = "file" => Replacing(c)
  BY WriteStep
<1>2. /\ blob.data \subseteq blob'.data /\ blob.data # blob'.data
      /\ \A d \in Client \ {c} : run[d] \in blob'.data <=> run[d] \in blob.data
  BY <1>1, WriteKeeps
<1>3. run' = run /\ base' = base /\ told' = told /\ pc[c] # "rest"
  BY DEF Replace, Put
<1>4. told[c] = "pending"
  BY <1>3 DEF IInv, Own, Place
<1>5. run[c] \in blob'.data
  BY <1>1 DEF Stored
<1>6. c \notin Wrote
  BY <1>1 DEF Wrote
<1>7. Wrote' = Wrote \cup {c}
  BY <1>2, <1>3, <1>5 DEF Wrote
<1>8. Told' = Told /\ Told[c] = "pending"
  BY <1>3, <1>4 DEF Told
<1> QED BY <1>1, <1>2, <1>3, <1>6, <1>7, <1>8 DEF Register!Replace, Wrote, Told

\* A pull reads, or begins anew when the last transfer was told.
LEMMA Pulls ==
    ASSUME IInv, NEW c \in Client, StartPull(c) \/ Fetch(c) \/ PullsNothing(c)
    PROVE  Register!Begin(c) \/ Register!Read(c)
<1>1. /\ blob' = blob
      /\ base' \in {[base EXCEPT ![c] = data] : data \in {blob.data, Unread}}
  BY DEF StartPull, Fetch, PullsNothing
<1>2. CASE StartPull(c) /\ told[c] # "pulled"
  <2>1. told[c] # "pending" /\ Told[c] # "pending"
    BY <1>2 DEF IInv, Own, Place, Told, StartPull
  <2>2. Told' = [Told EXCEPT ![c] = "pending"]
    BY <1>2, Telling DEF StartPull
  <2>3. Wrote' = Wrote \ {c}
    <3>1. run'[c] \notin blob.data
      BY <1>2 DEF IInv, TypeOK, Own, Published, StartPull
    <3>2. \A d \in Client \ {c} : run'[d] = run[d]
      BY <1>2 DEF IInv, TypeOK, StartPull
    <3> QED BY <1>1, <3>1, <3>2 DEF Wrote
  <2>4. base' = [base EXCEPT ![c] = Unread]
    BY <1>2 DEF StartPull
  <2> QED BY <1>1, <2>1, <2>2, <2>3, <2>4 DEF Register!Begin, Wrote, Told
<1>3. CASE (StartPull(c) /\ told[c] = "pulled") \/ Fetch(c) \/ PullsNothing(c)
  <2>1. Told[c] = "pending" /\ Told' = Told
    <3>1. told' = [told EXCEPT ![c] = "pending"] \/ told' = told
          \/ told' = [told EXCEPT ![c] = "pulled"]
      BY <1>3 DEF StartPull, Fetch, PullsNothing, End
    <3>2. told[c] \in {"pending", "pulled"}
      BY <1>3 DEF IInv, Own, Place, Fetch, PullsNothing
    <3> QED BY <3>1, <3>2 DEF IInv, TypeOK, Told
  <2>2. run[c] \notin blob.data
    BY <1>3 DEF IInv, Own, Published, Fetch, PullsNothing
  <2>3. Wrote' = Wrote /\ c \notin Wrote
    <3>1. run'[c] \notin blob.data
      BY <1>3, <2>2 DEF IInv, TypeOK, Own, Published, StartPull, Fetch, PullsNothing
    <3>2. \A d \in Client \ {c} : run'[d] = run[d]
      BY <1>3 DEF IInv, TypeOK, StartPull, Fetch, PullsNothing
    <3> QED BY <1>1, <2>2, <3>1, <3>2 DEF Wrote
  <2> QED BY <1>1, <2>1, <2>3 DEF Register!Read, Wrote, Told
<1> QED BY <1>2, <1>3

\* A step that the register does not see.
LEMMA Unnoticed ==
    ASSUME IInv, PutsOnce, NEW c \in Client,
           \/ StartPush(c) \/ Flock(c) \/ ReadToken(c) \/ Install(c) \/ Copy(c)
           \/ Compare(c) /\ pc'[c] # "rest"
           \/ Answered(c) /\ pc'[c] # "rest"
    PROVE  UNCHANGED RegisterVars
<1>1. blob' = blob /\ base' = base
  BY DEF StartPush, Flock, ReadToken, Install, Copy, Compare, Answered
<1>2. Told' = Told
  <2>1. \/ told' = told
        \/ /\ told[c] \in {"pending", "pulled"}
           /\ \/ told' = [told EXCEPT ![c] = "pending"]
              \/ told' = [told EXCEPT ![c] = "pulled"]
    BY DEF IInv, TypeOK, Own, Place, StartPush, Flock, ReadToken, Install, Copy, Compare,
       Answered, End, Raise, Goto
  <2> QED BY <2>1 DEF IInv, TypeOK, Told
<1>3. Wrote' = Wrote
  <2>1. CASE run' = run
    BY <1>1, <2>1 DEF Wrote
  <2>2. CASE StartPush(c) /\ run' # run
    <3>1. run[c] = 0 /\ run' = [run EXCEPT ![c] = started + 1]
      BY <2>2 DEF StartPush
    <3>2. \A d \in Client : run'[d] \in blob.data <=> run[d] \in blob.data
      BY <3>1 DEF IInv, TypeOK
    <3> QED BY <1>1, <3>2 DEF Wrote
  <2> QED BY <2>1, <2>2 DEF Flock, ReadToken, Install, Copy, Compare, Answered
<1> QED BY <1>1, <1>2, <1>3 DEF RegisterVars

\* The end of a push, or a failure.
LEMMA Ends ==
    ASSUME IInv, PutsOnce, NEW c \in Client,
           \/ Compare(c) /\ pc'[c] = "rest"
           \/ Answered(c) /\ pc'[c] = "rest"
           \/ Refused(c) \/ PutFails(c) \/ Confirm(c) \/ Fails(c)
    PROVE  Register!Tell(c)
<1>1. UNCHANGED <<blob, base, run>> /\ pc[c] # "rest"
  BY DEF Compare, Answered, Refused, PutFails, Confirm, Fails
<1>2. ASSUME NEW answer \in {"ok", "conflict", "error"}, End(c, answer),
             answer = "ok" => pc[c] = "confirm",
             answer = "conflict" => pc[c] \in {"compare", "put"}
      PROVE  Register!Tell(c)
  <2>1. answer = "ok" => run[c] \in blob.data
    BY <1>2 DEF IInv, Own, Published
  <2>2. answer = "conflict" => run[c] \notin blob.data
    BY <1>2 DEF IInv, Own, Published
  <2> QED BY <1>1, <1>2, <2>1, <2>2, Tells DEF End
<1>3. CASE Compare(c) /\ pc'[c] = "rest"
  <2>1. End(c, "conflict") /\ pc[c] = "compare"
    BY <1>3 DEF IInv, TypeOK, Compare, Goto
  <2> QED BY <1>2, <2>1
<1>4. CASE Answered(c) /\ pc'[c] = "rest"
  <2>1. End(c, "error")
    BY <1>4 DEF IInv, TypeOK, Answered, Goto, Raise, IsConflict, PutsOnce, ConflictNames
  <2> QED BY <1>2, <2>1
<1>5. CASE Refused(c) \/ PutFails(c)
  <2>1. End(c, "conflict") \/ End(c, "error")
    BY <1>5 DEF Refused, PutFails, Raise
  <2>2. pc[c] = "put"
    BY <1>5 DEF Refused, PutFails
  <2> QED BY <1>2, <2>1, <2>2
<1>6. CASE Confirm(c)
  BY <1>2, <1>6 DEF Confirm
<1>7. CASE Fails(c)
  BY <1>2, <1>7 DEF Fails
<1> QED BY <1>3, <1>4, <1>5, <1>6, <1>7

\* Every step is one of the register, or none.
LEMMA RegisterStep ==
    ASSUME IInv, NoneIsNoToken, PutsOnce, [Next]_vars
    PROVE  [Register!Next]_RegisterVars
<1>1. CASE UNCHANGED vars
  BY <1>1 DEF vars, RegisterVars, Wrote, Told
<1>2. ASSUME NEW c \in Client,
             StartPull(c) \/ StartPush(c) \/ Flock(c) \/ Pull(c) \/ Push(c) \/ Fails(c)
      PROVE  \/ Register!Begin(c) \/ Register!Read(c) \/ Register!Replace(c)
             \/ Register!Tell(c) \/ UNCHANGED RegisterVars
  BY <1>2, Pulls, Replaces, Unnoticed, Ends DEF Pull, Push
<1> QED BY <1>1, <1>2 DEF Next, Register!Next

-----------------------------------------------------------------------------
\* On every kind of store, for any number of clients and runs, and whatever call
\* fails, the shared object is a register with compare-and-swap (_state.py:10-19):
\* a push replaces what its client pulled, and a conflict is told only to a client
\* whose rows are not in the object.
THEOREM PushesCompareAndSwap ==
    ASSUME NoneIsNoToken, PutsOnce
    PROVE  Spec => ImplementsRegister
<1>1. Init => IInv
  BY InitInv
<1>2. IInv /\ [Next]_vars => IInv'
  BY NextInv
<1>3. Init => Register!Init
  BY InitRegister
<1>4. IInv /\ [Next]_vars => [Register!Next]_RegisterVars
  BY RegisterStep
<1> QED
  BY <1>1, <1>2, <1>3, <1>4, PTL
  DEF Spec, ImplementsRegister, Register!Spec, Register!vars, RegisterVars, Wrote, Told
=============================================================================
