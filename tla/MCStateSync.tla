---------------------------- MODULE MCStateSync -----------------------------
(***************************************************************************)
(* Runs over one remote object.  MCStateSync.cfg: two runs one after the   *)
(* other on machine a and one on b, killed only where the WAL is empty.    *)
(* Each other cfg is the smallest setting in which a stated promise fails. *)
(***************************************************************************)
EXTENDS StateSync, TLC

CONSTANTS a, b

TwoOnA    == [r \in Run |-> IF r <= 2 THEN a ELSE b]
AllOnA    == [r \in Run |-> a]
WalEmpty  == {"pull", "fetch", "verify", "push"}
Anywhere  == Stage \ {"idle"}
Nowhere   == {}
============================================================================
