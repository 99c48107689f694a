---------------------------- MODULE RequestLife ----------------------------
(***************************************************************************)
(* What the caller of a batch_scheduler is promised for a request: it is   *)
(* accepted, it may be asked to be cancelled (by cancel, or by its client  *)
(* going away), and it is answered through on_done once, "cancelled" only  *)
(* if that was asked.  How requests share the model is no matter here.     *)
(***************************************************************************)
CONSTANTS Requests

Reasons == {"ended", "cancelled", "error"}

VARIABLES accepted, asked, answers
vars == <<accepted, asked, answers>>

Init == accepted = {} /\ asked = {} /\ answers = [r \in Requests |-> <<>>]

Accept(r) ==
  /\ r \notin accepted
  /\ accepted' = accepted \cup {r}
  /\ UNCHANGED <<asked, answers>>

Ask(r) ==
  /\ r \in accepted
  /\ asked' = asked \cup {r}
  /\ UNCHANGED <<accepted, answers>>

Open == {r \in accepted : answers[r] = <<>>}

\* Several requests may be answered at once: an error ends all that are running.
Answer(S, why) ==
  /\ S \subseteq Open
  /\ why = "cancelled" => S \subseteq asked'
  /\ answers' = [r \in Requests |-> IF r \in S THEN <<why>> ELSE answers[r]]
  /\ accepted' = accepted

Next == \/ \E r \in Requests : Accept(r) \/ Ask(r)
        \/ \E S \in SUBSET Open, why \in Reasons :
             Answer(S, why) /\ \E A \in SUBSET accepted : asked' = asked \cup A

Spec == Init /\ [][Next]_vars

\* No request is forgotten.
AllAnswered == \A r \in Requests : r \in accepted ~> answers[r] # <<>>
=============================================================================
