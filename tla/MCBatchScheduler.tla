-------------------------- MODULE MCBatchScheduler --------------------------
(* Model checking of BatchScheduler: one request of a higher priority. *)
EXTENDS BatchScheduler

Ranks == [r \in Requests |-> IF r = 3 THEN 1 ELSE 0]
=============================================================================
