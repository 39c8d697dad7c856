----------------------------- MODULE CasRegister -----------------------------
(***************************************************************************)
(* What python/barca/_state.py promises of the object that holds the       *)
(* shared database, whatever store keeps it: a register that clients read  *)
(* and then replace, on the condition that nobody replaced it meanwhile.   *)
(* Its value is the set of updates that were made to it.                   *)
(***************************************************************************)
CONSTANTS Client, Unread   \* Unread: a client has read nothing yet

VARIABLES
    value,    \* the updates in the register
    seen,     \* seen[c]: the value c works on
    wrote,    \* the clients that have replaced it
    told      \* told[c]: "pending", or the answer c got

vars == <<value, seen, wrote, told>>

Answer == {"ok", "conflict", "error"}

Init == /\ value = {}
        /\ seen  = [c \in Client |-> Unread]
        /\ wrote = {}
        /\ told  = [c \in Client |-> "error"]

Begin(c) == /\ told[c] # "pending"
            /\ told'  = [told  EXCEPT ![c] = "pending"]
            /\ seen'  = [seen  EXCEPT ![c] = Unread]
            /\ wrote' = wrote \ {c}
            /\ UNCHANGED value

\* A dry run reads and never replaces: it may read again.
Read(c) == /\ told[c] = "pending" /\ c \notin wrote
           /\ seen' \in {[seen EXCEPT ![c] = v] : v \in {value, Unread}}
           /\ UNCHANGED <<value, wrote, told>>

\* The one write: on top of what the client has seen, if that is still the value.
Replace(c) == /\ told[c] = "pending" /\ c \notin wrote
              /\ seen[c] = value
              /\ value \subseteq value' /\ value # value'
              /\ wrote' = wrote \cup {c}
              /\ UNCHANGED <<seen, told>>

\* Success is told to those who wrote, a conflict only to those who did not;
\* after an error a client does not know.
Tell(c) == /\ told[c] = "pending"
           /\ \E a \in Answer :
                /\ a = "ok" => c \in wrote
                /\ a = "conflict" => c \notin wrote
                /\ told' = [told EXCEPT ![c] = a]
           /\ UNCHANGED <<value, seen, wrote>>

Next == \E c \in Client : Begin(c) \/ Read(c) \/ Replace(c) \/ Tell(c)

Spec == Init /\ [][Next]_vars
=============================================================================
