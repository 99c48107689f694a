----------------------------- MODULE MCStreamRing -----------------------------
(* Settings for the two statements about StreamRing that fail: frames further   *)
(* apart than they are long, and a budget of one frame in a ring of sixteen     *)
(* slots.                                                                       *)
EXTENDS StreamRing

Disjoint == [window |-> 2, hop |-> 3, lag |-> 2]
Budgeted == [window |-> 3, hop |-> 2, lag |-> 1]
Failing == {Disjoint, Budgeted}
=============================================================================
