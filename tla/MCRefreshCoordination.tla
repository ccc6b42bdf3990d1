------------------------ MODULE MCRefreshCoordination ------------------------
(* Two tabs, one of which was reloaded, and three requests: one in the      *)
(* first tab, and in the other the restoration and a request that meets 401. *)
EXTENDS RefreshCoordination, TLC

CONSTANTS r1, r2, r3, left, right

OneReloaded == (r1 :> left) @@ (r2 :> right) @@ (r3 :> right)

(* A browser with Web Locks and every fault, and one without them.          *)
NewAndOld == {
    [locks |-> TRUE, faults |-> {"slow", "lost", "close"}],
    [locks |-> FALSE, faults |-> {"close"}]}
==============================================================================
