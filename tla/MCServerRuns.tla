---------------------------- MODULE MCServerRuns ----------------------------
(***************************************************************************)
(* TLC's instance: one job that is due in every second but the first, one  *)
(* slot, one run of a client, two starts of the server.                    *)
(***************************************************************************)
EXTENDS ServerRuns

CONSTANT j1
MCDue == [j \in {j1} |-> {1, 2}]

\* For ticks that may be late: a second that is not due follows one that is.
MCDueOnce == [j \in {j1} |-> {1}]
=============================================================================
