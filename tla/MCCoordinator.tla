--------------------------- MODULE MCCoordinator ---------------------------
(***************************************************************************)
(* Seven items as load_phase loads them, in the streams 1, 2 -> 3 and      *)
(* 0 -> 4 -> 5 -> 6, with every shape a cascade meets: a diamond of data   *)
(* edges (1, 2, 3, 4), an item that waits for a slow stream but whose      *)
(* inputs may have failed long before (4), one that both reads and follows *)
(* failing ones (5), and a stream successor freed only by a skip (6).      *)
(* 1 retries with backoff, 4 at once.                                      *)
(***************************************************************************)
EXTENDS CascadeWalk, TLC

MCNumItems  == 7
MCDataDeps  == 0 :> {} @@ 1 :> {} @@ 2 :> {1} @@ 3 :> {1} @@ 4 :> {2, 3}
               @@ 5 :> {3} @@ 6 :> {}
MCOrderDeps == 0 :> {} @@ 1 :> {} @@ 2 :> {} @@ 3 :> {2} @@ 4 :> {0}
               @@ 5 :> {4} @@ 6 :> {5}
MCRetries   == 0 :> 1 @@ 1 :> 2 @@ 2 :> 1 @@ 3 :> 0 @@ 4 :> 2 @@ 5 :> 1 @@ 6 :> 1
MCBackoff   == {1}
MCMaxItems  == 9
MCMaxWidth  == 2
============================================================================
