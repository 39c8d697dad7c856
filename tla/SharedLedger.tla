---------------------------- MODULE SharedLedger ----------------------------
(***************************************************************************)
(* What shared remote state promises to the runs that use it: a run that   *)
(* ends well has its rows in the shared database, and what is in it stays  *)
(* there.  A run that ends with an error may have recorded its rows or not.*)
(* A run may publish, with its own rows, those that earlier runs left in   *)
(* its local file.  Module StateSync implements it with whole files and    *)
(* conditional uploads.                                                    *)
(***************************************************************************)
CONSTANT Run

VARIABLES
    shared,    \* the runs whose rows the shared database holds
    told       \* told[r]: how r ended, as far as its caller can tell

Init == shared = {} /\ told = [r \in Run |-> "pending"]

Publish(r, S, answer) ==
    /\ told[r] = "pending" /\ r \in S
    /\ shared' = shared \cup S
    /\ told' = [told EXCEPT ![r] = answer]

GiveUp(r) ==
    /\ told[r] = "pending"
    /\ told' = [told EXCEPT ![r] = "error"]
    /\ UNCHANGED shared

Next == \E r \in Run :
    \/ \E S \in SUBSET Run : Publish(r, S, "ok") \/ Publish(r, S, "error")
    \/ GiveUp(r)

Spec == Init /\ [][Next]_<<shared, told>>
=============================================================================
