----------------------------- MODULE BalancePool -----------------------------
(***************************************************************************)
(* forge::balance::pool: backends with a concurrency limit, a circuit      *)
(* breaker and a health mark each, and clients that lease them through     *)
(* acquire() and the retry loop of call().  Every method holds m_ for its  *)
(* whole body and is one action; acquire() releases it while it waits, so  *)
(* each turn of its loop is one.  Clocks are left out: the open period of  *)
(* a circuit and the deadline of a wait end by actions of their own.       *)
(* Which usable backend a strategy prefers is any of them.                 *)
(***************************************************************************)
EXTENDS Integers, FiniteSets, Sequences

CONSTANTS Ids,               \* backend ids
          Clients,           \* threads that lease
          Checkers,          \* threads in run_health_checks
          Caps,              \* the backend_spec::max_inflight a backend is given, 0: no limit
          HalfOpenProbes,    \* config::half_open_probes
          FailureThreshold,  \* config::failure_threshold
          Window,            \* config::window
          MinRequests,       \* config::min_requests
          RateNum, RateDen,  \* config::failure_rate_threshold, a fraction
          HealthyAfter, UnhealthyAfter,
          QueueLimit,        \* config::queue_limit
          Attempts,          \* retry_policy::attempts
          Weights,           \* the weights a backend is given: 0 takes it out
          Marks,             \* what set_healthy is called with
          MaxNodes, MaxAdds  \* bounds: entries of b_, and calls of add

ASSUME PoolAssumption ==
  /\ IsFiniteSet(Clients)
  /\ Caps \subseteq Nat /\ HalfOpenProbes \in Nat \ {0}
  /\ FailureThreshold \in Nat \ {0} /\ Window \in Nat \ {0} /\ MinRequests \in Nat \ {0}
  /\ RateNum \in Nat \ {0} /\ RateDen \in Nat \ {0}
  /\ HealthyAfter \in Nat \ {0} /\ UnhealthyAfter \in Nat \ {0}
  /\ QueueLimit \in Nat /\ Attempts \in Nat \ {0}
  /\ Weights \subseteq {0, 1} /\ Marks \subseteq BOOLEAN
  /\ MaxNodes \in Nat /\ MaxAdds \in Nat

Least(a, b) == IF a <= b THEN a ELSE b

\* A backend.  fails saturates at FailureThreshold and requests at Window: the
\* code compares them with no more.  self and strays are for the properties: the
\* number of the add() that made it, and how many leases of the entry's former
\* selves have been given back on this one.
Nodes == [id: Ids, self: 1..MaxAdds, removed: BOOLEAN, healthy: BOOLEAN, weight: {0, 1}, max: Caps,
          inflight: 0..Cardinality(Clients), probes: 0..Cardinality(Clients),
          fails: 0..FailureThreshold, requests: 0..Window,
          win: [0..Window-1 -> BOOLEAN], pos: 0..Window-1,
          circuit: {"closed", "open", "half_open"},
          hcOk: 0..HealthyAfter, hcBad: 0..UnhealthyAfter, strays: Nat]

NewNode(id, w, m, n) ==
  [id |-> id, self |-> n, removed |-> FALSE, healthy |-> TRUE, weight |-> w, max |-> m,
   inflight |-> 0, probes |-> 0, fails |-> 0, requests |-> 0,
   win |-> [k \in 0..Window-1 |-> FALSE], pos |-> 0, circuit |-> "closed",
   hcOk |-> 0, hcBad |-> 0, strays |-> 0]

\* A lease: the index it holds, the backend it was given for, and whether it is
\* a trial.  The code keeps no self: it is there to say what goes wrong.
Leases == [at: 0..MaxNodes, self: 0..MaxAdds, probe: BOOLEAN]
NoLease == [at |-> 0, self |-> 0, probe |-> FALSE]

VARIABLES nodes,     \* b_
          adds,      \* calls of add
          pc,        \* of each client: idle, in acquire, or holding a lease
          lease,     \* the lease it holds, or held last in this call
          tried,     \* call(): indexes tried
          left,      \* call(): attempts left
          again,     \* call(): in the acquire that follows tried.clear()
          wait,      \* of the acquire: none, until a deadline, past it
          queued,    \* the clients counted in waiting_
          todo       \* of each checker: the backends it still has to probe

vars == <<nodes, adds, pc, lease, tried, left, again, wait, queued, todo>>
clients == <<pc, lease, tried, left, again, wait, queued>>

TypeOK == /\ nodes \in Seq(Nodes) /\ Len(nodes) <= MaxNodes /\ adds \in 0..MaxAdds
          /\ pc \in [Clients -> {"idle", "acquire", "holding"}]
          /\ lease \in [Clients -> Leases]
          /\ tried \in [Clients -> SUBSET (1..MaxNodes)]
          /\ left \in [Clients -> 0..Attempts] /\ again \in [Clients -> BOOLEAN]
          /\ wait \in [Clients -> {"none", "until", "past"}]
          /\ queued \subseteq Clients
          /\ todo \in [Checkers -> SUBSET (1..MaxNodes)]

Init == /\ nodes = <<>> /\ adds = 0
        /\ pc = [c \in Clients |-> "idle"] /\ lease = [c \in Clients |-> NoLease]
        /\ tried = [c \in Clients |-> {}] /\ left = [c \in Clients |-> 0]
        /\ again = [c \in Clients |-> FALSE] /\ wait = [c \in Clients |-> "none"]
        /\ queued = {} /\ todo = [h \in Checkers |-> {}]

Holders(i) == {c \in Clients : pc[c] = "holding" /\ lease[c].at = i}

-----------------------------------------------------------------------------
(* Membership and marks *)

WithId(id) == {i \in DOMAIN nodes : nodes[i].id = id}
First(S) == CHOOSE i \in S : \A j \in S : i <= j

\* A removed entry of that id is used again at once, as good as new, whatever
\* leases of its old self are out; otherwise (an id in use included) one is appended.
Add(id, w, m) ==
  LET old == {i \in WithId(id) : nodes[i].removed} IN
  /\ adds < MaxAdds /\ adds' = adds + 1
  /\ IF old # {}
     THEN nodes' = [nodes EXCEPT ![First(old)] = NewNode(id, w, m, adds + 1)]
     ELSE /\ Len(nodes) < MaxNodes
          /\ nodes' = Append(nodes, NewNode(id, w, m, adds + 1))
  /\ UNCHANGED <<clients, todo>>

Remove(id) ==
  LET here == {i \in WithId(id) : ~nodes[i].removed} IN
  /\ here # {}
  /\ nodes' = [nodes EXCEPT ![First(here)].removed = TRUE]
  /\ UNCHANGED <<adds, clients, todo>>

SetWeight(id, w) ==
  /\ WithId(id) # {}
  /\ nodes' = [nodes EXCEPT ![First(WithId(id))].weight = w]
  /\ UNCHANGED <<adds, clients, todo>>

SetHealthy(id, h) ==
  /\ nodes' = [i \in DOMAIN nodes |->
                 IF nodes[i].id = id
                 THEN [nodes[i] EXCEPT !.healthy = h, !.hcOk = 0, !.hcBad = 0]
                 ELSE nodes[i]]
  /\ UNCHANGED <<adds, clients, todo>>

\* run_health_checks: the backends of the moment are copied, then probed one by
\* one without the lock ...
StartChecks(h) ==
  /\ todo[h] = {}
  /\ todo' = [todo EXCEPT ![h] = {i \in DOMAIN nodes : ~nodes[i].removed}]
  /\ UNCHANGED <<nodes, adds, clients>>

\* ... and each answer goes to whatever is at that index by then.
Checked(n, ok) ==
  IF ok
  THEN LET k == IF n.healthy THEN n.hcOk ELSE n.hcOk + 1 IN
       IF ~n.healthy /\ k >= HealthyAfter
       THEN [n EXCEPT !.hcBad = 0, !.healthy = TRUE, !.hcOk = 0]
       ELSE [n EXCEPT !.hcBad = 0, !.hcOk = k]
  ELSE LET k == IF n.healthy THEN n.hcBad + 1 ELSE n.hcBad IN
       IF n.healthy /\ k >= UnhealthyAfter
       THEN [n EXCEPT !.hcOk = 0, !.healthy = FALSE, !.hcBad = 0]
       ELSE [n EXCEPT !.hcOk = 0, !.hcBad = k]

Check(h, ok) ==
  /\ todo[h] # {}
  /\ nodes' = [nodes EXCEPT ![First(todo[h])] = Checked(@, ok)]
  /\ todo' = [todo EXCEPT ![h] = @ \ {First(todo[h])}]
  /\ UNCHANGED <<adds, clients>>

-----------------------------------------------------------------------------
(* The circuit breaker *)

\* open_ns have passed since the circuit opened.
Elapse(i) ==
  /\ nodes[i].circuit = "open"
  /\ nodes' = [nodes EXCEPT ![i].circuit = "half_open"]
  /\ UNCHANGED <<adds, clients, todo>>

Bad(win) == Cardinality({k \in DOMAIN win : win[k]})

Trips(n) == \/ n.fails >= FailureThreshold
            \/ n.requests >= MinRequests /\ Bad(n.win) * RateDen >= RateNum * n.requests

\* A reported success closes a half-open circuit and forgets the window; a
\* failure starts the open period of one that is not closed again.
Outcome(n, ok) ==
  IF ok
  THEN IF n.circuit = "half_open"
       THEN [n EXCEPT !.fails = 0, !.circuit = "closed", !.win = [k \in DOMAIN @ |-> FALSE]]
       ELSE [n EXCEPT !.fails = 0]
  ELSE [n EXCEPT !.fails = Least(@ + 1, FailureThreshold),
                 !.circuit = IF @ = "closed" THEN @ ELSE "open"]

Recorded(n, ok) == [n EXCEPT !.win[n.pos] = ~ok, !.pos = (@ + 1) % Window]

Tripped(n) == IF n.circuit = "closed" /\ Trips(n) THEN [n EXCEPT !.circuit = "open"] ELSE n

\* Mutant: only a success gives the places back.
ReleasedOnSuccess(n, l, ok) ==
  [n EXCEPT !.inflight = IF ok /\ @ > 0 THEN @ - 1 ELSE @,
            !.probes = IF ok /\ l.probe /\ @ > 0 THEN @ - 1 ELSE @,
            !.strays = IF l.self # n.self THEN @ + 1 ELSE @]

\* The places of a lease are given back on whatever is at its index by now.
Released(n, l, ok) ==
  [n EXCEPT !.inflight = IF @ > 0 THEN @ - 1 ELSE @,
            !.probes = IF l.probe /\ @ > 0 THEN @ - 1 ELSE @,
            !.strays = IF l.self # n.self THEN @ + 1 ELSE @]

Finished(n, l, ok) == Tripped(Recorded(Outcome(Released(n, l, ok), ok), ok))

-----------------------------------------------------------------------------
(* acquire and call *)

Up(n) == ~n.removed /\ n.healthy /\ n.weight > 0

\* Mutant: the limits are compared one too late.
UsableOneMore(n) ==
  /\ Up(n)
  /\ n.max # 0 => n.inflight <= n.max
  /\ \/ n.circuit = "closed"
     \/ n.circuit = "half_open" /\ n.probes <= HalfOpenProbes

Usable(n) ==
  /\ Up(n)
  /\ n.max # 0 => n.inflight < n.max
  /\ \/ n.circuit = "closed"
     \/ n.circuit = "half_open" /\ n.probes < HalfOpenProbes

Candidates(c) == {i \in DOMAIN nodes : i \notin tried[c] /\ Usable(nodes[i])}
Trials(c) == {i \in Candidates(c) : nodes[i].circuit = "half_open"}
AnyCouldServe(c) ==
  \E i \in DOMAIN nodes : i \notin tried[c] /\ Up(nodes[i]) /\ nodes[i].circuit # "open"

\* call() with some number of attempts; a bare acquire() is one with one.
Call(c, attempts, w) ==
  /\ pc[c] = "idle"
  /\ pc' = [pc EXCEPT ![c] = "acquire"]
  /\ left' = [left EXCEPT ![c] = attempts]
  /\ wait' = [wait EXCEPT ![c] = w]
  /\ UNCHANGED <<nodes, adds, lease, tried, again, queued, todo>>

\* The deadline of a waiting acquire passes.
Expire(c) ==
  /\ pc[c] = "acquire" /\ wait[c] = "until"
  /\ wait' = [wait EXCEPT ![c] = "past"]
  /\ UNCHANGED <<nodes, adds, pc, lease, tried, left, again, queued, todo>>

\* A half-open backend gets its trial before any other is looked at.
Grant(c) ==
  /\ pc[c] = "acquire"
  /\ \E i \in Candidates(c) :
       LET probe == Trials(c) # {} IN
       /\ probe => i = First(Trials(c))
       /\ nodes' = [nodes EXCEPT ![i].inflight = @ + 1,
                                 ![i].requests = Least(@ + 1, Window),
                                 ![i].probes = IF probe THEN @ + 1 ELSE @]
       /\ lease' = [lease EXCEPT ![c] = [at |-> i, self |-> nodes[i].self, probe |-> probe]]
  /\ pc' = [pc EXCEPT ![c] = "holding"]
  /\ queued' = queued \ {c}
  /\ UNCHANGED <<adds, tried, left, again, wait, todo>>

\* Every acquire of a call has a deadline of its own.
NextWait(w, over) == IF over THEN "none" ELSE IF w = "past" THEN "until" ELSE w

\* Mutant: a client that gives up is still counted as waiting.
RefuseForgetting(c) ==
  /\ pc[c] = "acquire" /\ Candidates(c) = {}
  /\ \/ wait[c] # "until" \/ ~AnyCouldServe(c)
     \/ c \notin queued /\ Cardinality(queued) >= QueueLimit
  /\ pc' = [pc EXCEPT ![c] = "idle"]
  /\ tried' = [tried EXCEPT ![c] = {}]
  /\ again' = [again EXCEPT ![c] = FALSE]
  /\ left' = [left EXCEPT ![c] = 0]
  /\ wait' = [wait EXCEPT ![c] = "none"]
  /\ lease' = [lease EXCEPT ![c] = NoLease]
  /\ UNCHANGED <<nodes, adds, queued, todo>>

\* No lease: no time to wait, nothing to wait for, or too many wait already.
\* call() then tries once more with every backend, and gives up.
Refuse(c) ==
  /\ pc[c] = "acquire" /\ Candidates(c) = {}
  /\ \/ wait[c] # "until" \/ ~AnyCouldServe(c)
     \/ c \notin queued /\ Cardinality(queued) >= QueueLimit
  /\ LET over == tried[c] = {} \/ again[c] IN
     /\ pc' = [pc EXCEPT ![c] = IF over THEN "idle" ELSE "acquire"]
     /\ again' = [again EXCEPT ![c] = ~over]
     /\ left' = [left EXCEPT ![c] = IF over THEN 0 ELSE @]
     /\ wait' = [wait EXCEPT ![c] = NextWait(@, over)]
     /\ lease' = [lease EXCEPT ![c] = IF over THEN NoLease ELSE @]
  /\ tried' = [tried EXCEPT ![c] = {}]
  /\ queued' = queued \ {c}
  /\ UNCHANGED <<nodes, adds, todo>>

Enqueue(c) ==
  /\ pc[c] = "acquire" /\ Candidates(c) = {}
  /\ wait[c] = "until" /\ AnyCouldServe(c)
  /\ c \notin queued /\ Cardinality(queued) < QueueLimit
  /\ queued' = queued \cup {c}
  /\ UNCHANGED <<nodes, adds, pc, lease, tried, left, again, wait, todo>>

\* Mutant: the backend of a failed attempt is not remembered.
ReportUntried(c, ok) ==
  /\ pc[c] = "holding"
  /\ nodes' = [nodes EXCEPT ![lease[c].at] = Finished(@, lease[c], ok)]
  /\ LET over == ok \/ left[c] = 1 IN
     /\ pc' = [pc EXCEPT ![c] = IF over THEN "idle" ELSE "acquire"]
     /\ left' = [left EXCEPT ![c] = IF over THEN 0 ELSE @ - 1]
     /\ wait' = [wait EXCEPT ![c] = NextWait(@, over)]
  /\ again' = [again EXCEPT ![c] = FALSE]
  /\ lease' = [lease EXCEPT ![c] = IF pc'[c] = "idle" THEN NoLease ELSE [NoLease EXCEPT !.at = lease[c].at]]
  /\ UNCHANGED <<adds, tried, queued, todo>>

\* The lease is reported (or dropped, which is a failure).  A failed attempt
\* with attempts left goes to acquire again, without the backends tried.
Report(c, ok) ==
  /\ pc[c] = "holding"
  /\ nodes' = [nodes EXCEPT ![lease[c].at] = Finished(@, lease[c], ok)]
  /\ LET over == ok \/ left[c] = 1 IN
     /\ pc' = [pc EXCEPT ![c] = IF over THEN "idle" ELSE "acquire"]
     /\ tried' = [tried EXCEPT ![c] = IF over THEN {} ELSE @ \cup {lease[c].at}]
     /\ left' = [left EXCEPT ![c] = IF over THEN 0 ELSE @ - 1]
     /\ wait' = [wait EXCEPT ![c] = NextWait(@, over)]
  /\ again' = [again EXCEPT ![c] = FALSE]
  /\ lease' = [lease EXCEPT ![c] = IF pc'[c] = "idle" THEN NoLease ELSE [NoLease EXCEPT !.at = lease[c].at]]
  /\ UNCHANGED <<adds, queued, todo>>

ClientStep(c) == \/ \E n \in 1..Attempts, w \in {"none", "until"} : Call(c, n, w)
                 \/ Expire(c) \/ Grant(c) \/ Refuse(c) \/ Enqueue(c)
                 \/ \E ok \in BOOLEAN : Report(c, ok)

Next == \/ \E id \in Ids, w \in Weights : SetWeight(id, w) \/ \E m \in Caps : Add(id, w, m)
        \/ \E id \in Ids : Remove(id) \/ \E h \in Marks : SetHealthy(id, h)
        \/ \E h \in Checkers : StartChecks(h) \/ \E ok \in BOOLEAN : Check(h, ok)
        \/ \E i \in DOMAIN nodes : Elapse(i)
        \/ \E c \in Clients : ClientStep(c)

Spec == Init /\ [][Next]_vars

\* Threads run on, leases are reported or dropped at the end of a scope, a wait
\* is polled every 50 ms, time passes, and requests keep coming.
Fairness ==
  /\ \A c \in Clients : /\ WF_vars(\E n \in 1..Attempts, w \in {"none", "until"} : Call(c, n, w))
                        /\ WF_vars(Expire(c)) /\ WF_vars(Grant(c)) /\ WF_vars(Refuse(c))
                        /\ WF_vars(\E ok \in BOOLEAN : Report(c, ok))
  /\ \A i \in 1..MaxNodes : WF_vars(i \in DOMAIN nodes /\ Elapse(i))

FairSpec == Spec /\ Fairness

-----------------------------------------------------------------------------
\* The leases out on the backend that is at index i now, and the trials of them.
OwnHolders(i) == {c \in Holders(i) : lease[c].self = nodes[i].self}
OwnTrials(i) == {c \in OwnHolders(i) : lease[c].probe}

\* inflight is the number of leases out on the backend, short of it by at most one
\* for each lease of a former self that was given back on this one: no path of
\* acquire, report or drop leaks a count or gives one back twice, across removal,
\* re-adding, health marks and circuit changes.
InflightCountsLeases ==
  \A i \in DOMAIN nodes :
    /\ nodes[i].inflight <= Cardinality(OwnHolders(i))
    /\ Cardinality(OwnHolders(i)) <= nodes[i].inflight + nodes[i].strays

\* A half-open backend carries at most half_open_probes trials at a time, also when
\* a trial outlives the half-open period it was granted in; one more for each lease
\* of a former self given back on it.
TrialsAreLimited ==
  \A i \in DOMAIN nodes : Cardinality(OwnTrials(i)) <= HalfOpenProbes + nodes[i].strays

\* What is left of "per-backend concurrency limits": no more leases on a backend
\* than its max_inflight, and one more for each lease of a former self that was
\* given back on it.
ConcurrencyLimit ==
  \A i \in DOMAIN nodes :
    nodes[i].max # 0 => Cardinality(OwnHolders(i)) <= nodes[i].max + nodes[i].strays

\* What is granted is counted and stays within the limits of the backend, whatever
\* is removed, added again, marked, weighted out or answered late, but for the
\* leases of a former self that are given back on the new one: each may free a place
\* that was not theirs, and nothing else goes wrong.
LimitsHold == InflightCountsLeases /\ TrialsAreLimited /\ ConcurrencyLimit

\* The limit as docs/balance.md:13 has it.
LimitAsDocumented ==
  \A i \in DOMAIN nodes : nodes[i].max # 0 => Cardinality(OwnHolders(i)) <= nodes[i].max

\* The wait queue is bounded, and only clients inside acquire count in it.
QueueIsBounded ==
  /\ Cardinality(queued) <= QueueLimit
  /\ \A c \in queued : pc[c] = "acquire" /\ wait[c] # "none"

\* No count leaves its range, on any way out of acquire; the wait queue is bounded;
\* and the counts say what is out, but for the places that leases of a former self,
\* given back late, took off a backend that was added again.
PoolInv == TypeOK /\ QueueIsBounded /\ LimitsHold

\* A lease that is granted in a step.
Granted(c) == pc[c] = "acquire" /\ pc'[c] = "holding"

\* A call goes straight back to the backend that just failed it only in the
\* acquire it makes once no other backend could be had.
RetriesElsewhere ==
  [][\A c \in Clients : Granted(c) /\ lease'[c].at = lease[c].at => again[c]]_vars

\* A backend that is half-open does not stay so for ever while requests come: a
\* trial is granted and its outcome decides.  Trials go to the first half-open
\* backend of the list, so that one further down may starve behind it.
HalfOpenResolves ==
  \A i \in 1..MaxNodes :
    LET halfOpen(j) == j \in DOMAIN nodes /\ nodes[j].circuit = "half_open" IN
    halfOpen(i) ~> \/ i \in DOMAIN nodes => nodes[i].circuit # "half_open" \/ ~Up(nodes[i])
                   \/ \E j \in 1..i-1 : halfOpen(j)

-----------------------------------------------------------------------------
\* The offers and the loans of the pool: an entry that is not removed, under the
\* number of the add() that made it, and the lease a client holds.
Offers == {[name |-> nodes[i].self, limit |-> nodes[i].max, strays |-> nodes[i].strays] :
             i \in {j \in DOMAIN nodes : ~nodes[j].removed}}
Loans == [c \in Clients |-> IF pc[c] = "holding"
                            THEN [on |-> lease[c].self, trial |-> lease[c].probe]
                            ELSE [on |-> 0, trial |-> FALSE]]

Book == INSTANCE LeaseBook WITH
          Limits <- Caps, MaxTrials <- HalfOpenProbes, made <- adds,
          offers <- Offers, loans <- Loans

\* The counts the pool keeps are as good as the leases themselves: it lends, and
\* takes back, as if it looked each time at what is out, only what is on offer and
\* once at a time to a client.  The one thing that makes it lend more is in the
\* book: a loan whose backend is off the book by then may be taken back on another
\* one.  What circuits, marks and retries do is no step of the book.
BookSpec == Book!Spec

=============================================================================
