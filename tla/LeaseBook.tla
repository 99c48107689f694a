------------------------------ MODULE LeaseBook ------------------------------
(***************************************************************************)
(* What a pool of backends comes to for its clients: a book of the         *)
(* backends on offer, each with its limit, and of what each client has on  *)
(* loan.  Nothing is counted: a loan is made when the loans that are out   *)
(* leave room for it, and it outlives the offer it was made under.         *)
(* Circuits, health, queueing and retries only choose among these steps.   *)
(* One thing goes wrong in it, and only one: a loan that comes back when   *)
(* its backend is off the book may be taken off another one instead, a     *)
(* stray, and each stray lets that backend lend one too many.              *)
(***************************************************************************)
EXTENDS Naturals, FiniteSets

CONSTANTS Clients,
          Limits,     \* the limits a backend may have, 0 for none
          MaxTrials   \* the trial loans it may have out at a time

VARIABLES made,     \* backends offered so far; the number names a backend
          offers,   \* those still on offer: name, limit, strays taken back
          loans     \* what each client has

vars == <<made, offers, loans>>

Nothing == [on |-> 0, trial |-> FALSE]

Init == made = 0 /\ offers = {} /\ loans = [c \in Clients |-> Nothing]

Out(o) == {c \in Clients : loans[c].on = o.name}
OnTrial(o) == {c \in Out(o) : loans[c].trial}

Offer(limit) ==
  /\ made' = made + 1
  /\ offers' = offers \cup {[name |-> made', limit |-> limit, strays |-> 0]}
  /\ UNCHANGED loans

Withdraw(o) ==
  /\ offers' = offers \ {o}
  /\ UNCHANGED <<made, loans>>

Lend(c, o, trial) ==
  /\ loans[c] = Nothing
  /\ o.limit # 0 => Cardinality(Out(o)) < o.limit + o.strays
  /\ trial => Cardinality(OnTrial(o)) < MaxTrials + o.strays
  /\ loans' = [loans EXCEPT ![c] = [on |-> o.name, trial |-> trial]]
  /\ UNCHANGED <<made, offers>>

Return(c) ==
  /\ loans[c] # Nothing
  /\ loans' = [loans EXCEPT ![c] = Nothing]
  /\ UNCHANGED <<made, offers>>

\* The same, taken off another backend than its own, which is off the book.
ReturnAstray(c, o) ==
  /\ loans[c] # Nothing /\ loans[c].on \notin {x.name : x \in offers}
  /\ loans' = [loans EXCEPT ![c] = Nothing]
  /\ offers' = (offers \ {o}) \cup {[o EXCEPT !.strays = @ + 1]}
  /\ UNCHANGED made

Next == \/ \E limit \in Limits : Offer(limit)
        \/ \E o \in offers : \/ Withdraw(o)
                             \/ \E c \in Clients : \/ ReturnAstray(c, o)
                                                   \/ \E trial \in BOOLEAN : Lend(c, o, trial)
        \/ \E c \in Clients : Return(c)

Spec == Init /\ [][Next]_vars
=============================================================================
