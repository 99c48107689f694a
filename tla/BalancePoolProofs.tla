-------------------------- MODULE BalancePoolProofs --------------------------
(***************************************************************************)
(* Proofs about BalancePool for any number of backends and clients, any    *)
(* limits and any configuration of the breaker and the wait queue.         *)
(***************************************************************************)
EXTENDS BalancePool, FiniteSetTheorems, SequenceTheorems, WellFoundedInduction, TLAPS

\* A lease points at a backend, and a client in a call has attempts left.
LeasesPoint == \A c \in Clients : pc[c] = "holding" => lease[c].at \in DOMAIN nodes
CallsHaveAttempts == \A c \in Clients : pc[c] # "idle" => left[c] >= 1

\* Backends and leases are numbered by the calls of add so far.
Numbered == /\ \A i \in DOMAIN nodes : nodes[i].self <= adds
            /\ \A c \in Clients : pc[c] = "holding" => lease[c].self <= adds

\* The counts of a backend are what is out on it, less at most the strays.
Counts ==
  \A i \in DOMAIN nodes :
    /\ nodes[i].inflight <= Cardinality(OwnHolders(i))
    /\ Cardinality(OwnHolders(i)) <= nodes[i].inflight + nodes[i].strays
    /\ nodes[i].probes <= Cardinality(OwnTrials(i))
    /\ Cardinality(OwnTrials(i)) <= nodes[i].probes + nodes[i].strays

\* The counts respect the limits.
Limits == \A i \in DOMAIN nodes : /\ nodes[i].probes <= HalfOpenProbes
                                  /\ nodes[i].max # 0 => nodes[i].inflight <= nodes[i].max

IInv == /\ TypeOK /\ LeasesPoint /\ CallsHaveAttempts /\ Numbered
        /\ Counts /\ Limits /\ QueueIsBounded

-----------------------------------------------------------------------------
(* Sets of clients *)

\* What CHOOSE picks: the least index of a non-empty set.
LEMMA FirstIsLeast ==
  ASSUME NEW S \in SUBSET Nat, S # {}
  PROVE  First(S) \in S
<1> DEFINE R == OpToRel(<, Nat)
<1>1. R = {ss \in Nat \X Nat : ss[1] < ss[2]}
  BY DEF OpToRel
<1>2. \E x \in S : \A y \in S : ~ (<<y, x>> \in R)
  BY NatLessThanWellFounded, WFMin
<1> HIDE DEF R
<1>3. PICK x \in S : \A y \in S : ~ (<<y, x>> \in R)
  BY <1>2
<1>4. ASSUME NEW y \in S PROVE x <= y
  <2>1. <<y, x>> \in Nat \X Nat
    OBVIOUS
  <2>2. ~(y < x)
    BY <1>1, <1>3, <2>1
  <2>3. QED
    BY <2>2
<1>5. QED
  BY <1>3, <1>4 DEF First

\* The leases on a backend are finitely many, and no more than the clients.
LEMMA HoldersFinite ==
  ASSUME NEW i
  PROVE  /\ IsFiniteSet(OwnHolders(i)) /\ IsFiniteSet(OwnTrials(i))
         /\ Cardinality(OwnHolders(i)) \in 0..Cardinality(Clients)
         /\ Cardinality(OwnTrials(i)) \in 0..Cardinality(Clients)
<1>1. OwnHolders(i) \in SUBSET Clients /\ OwnTrials(i) \in SUBSET Clients
  BY DEF Holders, OwnHolders, OwnTrials
<1>2. IsFiniteSet(Clients)
  BY PoolAssumption
<1>3. /\ IsFiniteSet(OwnHolders(i)) /\ Cardinality(OwnHolders(i)) <= Cardinality(Clients)
      /\ IsFiniteSet(OwnTrials(i)) /\ Cardinality(OwnTrials(i)) <= Cardinality(Clients)
  BY <1>1, <1>2, FS_Subset
<1>4. QED
  BY <1>2, <1>3, FS_CardinalityType

\* Who holds what is the same after a step of a client that holds nothing.
LEMMA HoldersSame ==
  ASSUME nodes' = nodes,
         \A c \in Clients : \/ pc'[c] = pc[c] /\ lease'[c] = lease[c]
                            \/ pc[c] # "holding" /\ pc'[c] # "holding"
  PROVE  \A i : OwnHolders(i)' = OwnHolders(i) /\ OwnTrials(i)' = OwnTrials(i)
<1> SUFFICES ASSUME NEW i PROVE OwnHolders(i)' = OwnHolders(i) /\ OwnTrials(i)' = OwnTrials(i)
  OBVIOUS
<1>1. OwnHolders(i)' = OwnHolders(i)
  BY DEF Holders, OwnHolders
<1>2. QED
  BY <1>1 DEF OwnTrials, OwnHolders, Holders

-----------------------------------------------------------------------------
(* Backends *)

\* A new backend counts nothing.
LEMMA NewNodeFacts ==
  ASSUME NEW id \in Ids, NEW w \in {0, 1}, NEW m \in Caps, NEW n \in 1..MaxAdds
  PROVE  LET b == NewNode(id, w, m, n) IN
         /\ b \in Nodes /\ b.self = n
         /\ b.inflight = 0 /\ b.probes = 0 /\ b.strays = 0
<1>1. Cardinality(Clients) \in Nat
  BY PoolAssumption, FS_CardinalityType
<1>2. 0 \in 0..Window-1
  BY PoolAssumption
<1>3. QED
  BY <1>1, <1>2, PoolAssumption DEF NewNode, Nodes

\* A backend changed in a group of fields that change together, named so that
\* the steps below need not look inside a record: it is still a backend, and its
\* counts and limit are kept where the group does not set them.
Kept(b, n) == /\ b.max = n.max /\ b.inflight = n.inflight /\ b.probes = n.probes
              /\ b.self = n.self /\ b.strays = n.strays

WithCounts(n, v, u, s) == [n EXCEPT !.inflight = v, !.probes = u, !.strays = s]
WithGrant(n, v, r, u) == [n EXCEPT !.inflight = v, !.requests = r, !.probes = u]
WithFails(n, f) == [n EXCEPT !.fails = f]
WithCircuit(n, s) == [n EXCEPT !.circuit = s]
WithFailsAndCircuit(n, f, s) == [n EXCEPT !.fails = f, !.circuit = s]
WithFreshWindow(n, f, s, v) == [n EXCEPT !.fails = f, !.circuit = s, !.win = v]
WithEntry(n, k, bad, p) == [n EXCEPT !.win[k] = bad, !.pos = p]
WithMarks(n, h, good, bad) == [n EXCEPT !.healthy = h, !.hcOk = good, !.hcBad = bad]
WithRemoved(n) == [n EXCEPT !.removed = TRUE]
WithWeight(n, w) == [n EXCEPT !.weight = w]

\* Setting the counts sets nothing else that matters here.
LEMMA CountsFacts ==
  ASSUME NEW n \in Nodes, NEW v \in 0..Cardinality(Clients), NEW u \in 0..Cardinality(Clients),
         NEW s \in Nat
  PROVE  LET b == WithCounts(n, v, u, s) IN
         /\ b \in Nodes /\ b.max = n.max /\ b.inflight = v /\ b.probes = u
         /\ b.self = n.self /\ b.strays = s
BY DEF Nodes, WithCounts

\* So does what a grant sets.
LEMMA GrantFacts ==
  ASSUME NEW n \in Nodes, NEW v \in 0..Cardinality(Clients), NEW r \in 0..Window,
         NEW u \in 0..Cardinality(Clients)
  PROVE  LET b == WithGrant(n, v, r, u) IN
         /\ b \in Nodes /\ b.max = n.max /\ b.inflight = v /\ b.probes = u
         /\ b.self = n.self /\ b.strays = n.strays
BY DEF Nodes, WithGrant

\* What the circuit breaker sets keeps counts and limit.
LEMMA BreakerFacts ==
  ASSUME NEW n \in Nodes, NEW f \in 0..FailureThreshold,
         NEW s \in {"closed", "open", "half_open"}, NEW v \in [0..Window-1 -> BOOLEAN]
  PROVE  /\ WithFails(n, f) \in Nodes /\ Kept(WithFails(n, f), n)
         /\ WithCircuit(n, s) \in Nodes /\ Kept(WithCircuit(n, s), n)
         /\ WithFailsAndCircuit(n, f, s) \in Nodes /\ Kept(WithFailsAndCircuit(n, f, s), n)
         /\ WithFreshWindow(n, f, s, v) \in Nodes /\ Kept(WithFreshWindow(n, f, s, v), n)
<1>1. WithFails(n, f) \in Nodes /\ Kept(WithFails(n, f), n)
  BY DEF Nodes, Kept, WithFails
<1>2. WithCircuit(n, s) \in Nodes /\ Kept(WithCircuit(n, s), n)
  BY DEF Nodes, Kept, WithCircuit
<1>3. WithFailsAndCircuit(n, f, s) \in Nodes /\ Kept(WithFailsAndCircuit(n, f, s), n)
  BY DEF Nodes, Kept, WithFailsAndCircuit
<1>4. WithFreshWindow(n, f, s, v) \in Nodes /\ Kept(WithFreshWindow(n, f, s, v), n)
  BY DEF Nodes, Kept, WithFreshWindow
<1>5. QED
  BY <1>1, <1>2, <1>3, <1>4

\* So does an entry of the window,
LEMMA EntryFacts ==
  ASSUME NEW n \in Nodes, NEW k \in 0..Window-1, NEW bad \in BOOLEAN, NEW p \in 0..Window-1
  PROVE  WithEntry(n, k, bad, p) \in Nodes /\ Kept(WithEntry(n, k, bad, p), n)
BY DEF Nodes, Kept, WithEntry

\* the health mark with its two counters,
LEMMA MarksFacts ==
  ASSUME NEW n \in Nodes, NEW h \in BOOLEAN,
         NEW good \in 0..HealthyAfter, NEW bad \in 0..UnhealthyAfter
  PROVE  WithMarks(n, h, good, bad) \in Nodes /\ Kept(WithMarks(n, h, good, bad), n)
BY DEF Nodes, Kept, WithMarks

\* and a removal or a weight.
LEMMA MembershipFacts ==
  ASSUME NEW n \in Nodes, NEW w \in {0, 1}
  PROVE  /\ WithRemoved(n) \in Nodes /\ Kept(WithRemoved(n), n)
         /\ WithWeight(n, w) \in Nodes /\ Kept(WithWeight(n, w), n)
<1>1. WithRemoved(n) \in Nodes /\ Kept(WithRemoved(n), n)
  BY DEF Nodes, Kept, WithRemoved
<1>2. WithWeight(n, w) \in Nodes /\ Kept(WithWeight(n, w), n)
  BY DEF Nodes, Kept, WithWeight
<1>3. QED
  BY <1>1, <1>2

\* The ranges of a backend's fields, for the steps that need arithmetic.
LEMMA Ranges ==
  ASSUME NEW n \in Nodes
  PROVE  /\ n.inflight \in Nat /\ n.inflight <= Cardinality(Clients)
         /\ n.probes \in Nat /\ n.probes <= Cardinality(Clients)
         /\ n.max \in Nat /\ n.fails \in 0..FailureThreshold /\ n.requests \in 0..Window
         /\ n.pos \in 0..Window-1 /\ n.win \in [0..Window-1 -> BOOLEAN]
         /\ n.hcOk \in 0..HealthyAfter /\ n.hcBad \in 0..UnhealthyAfter
         /\ n.healthy \in BOOLEAN /\ n.circuit \in {"closed", "open", "half_open"}
         /\ n.self \in 1..MaxAdds /\ n.self \in Nat /\ n.strays \in Nat
         /\ Cardinality(Clients) \in Nat
<1>1. Cardinality(Clients) \in Nat
  BY PoolAssumption, FS_CardinalityType
<1>2. /\ n.inflight \in 0..Cardinality(Clients) /\ n.probes \in 0..Cardinality(Clients)
      /\ n.max \in Caps
  BY DEF Nodes
<1>3. n.fails \in 0..FailureThreshold /\ n.requests \in 0..Window
  BY DEF Nodes
<1>4. n.pos \in 0..Window-1 /\ n.win \in [0..Window-1 -> BOOLEAN]
  BY DEF Nodes
<1>5. /\ n.hcOk \in 0..HealthyAfter /\ n.hcBad \in 0..UnhealthyAfter
      /\ n.healthy \in BOOLEAN /\ n.circuit \in {"closed", "open", "half_open"}
  BY DEF Nodes
<1>6. n.max \in Nat
  BY <1>2, PoolAssumption
<1>7. n.self \in 1..MaxAdds /\ n.strays \in Nat
  BY DEF Nodes
<1>8. n.self \in Nat
  BY <1>7
<1>9. QED
  BY <1>1, <1>2, <1>3, <1>4, <1>5, <1>6, <1>7, <1>8

\* The answer of a health check moves the mark and its counters within their ranges.
LEMMA CheckedFacts ==
  ASSUME NEW n \in Nodes, NEW ok \in BOOLEAN
  PROVE  Checked(n, ok) \in Nodes /\ Kept(Checked(n, ok), n)
<1>1. n.hcOk \in 0..HealthyAfter /\ n.hcBad \in 0..UnhealthyAfter /\ n.healthy \in BOOLEAN
  BY Ranges
<1>2. CASE ok
  <2> DEFINE k == IF n.healthy THEN n.hcOk ELSE n.hcOk + 1
  <2>1. CASE ~n.healthy /\ k >= HealthyAfter
    <3>1. Checked(n, ok) = WithMarks(n, TRUE, 0, 0)
      BY <1>2, <2>1 DEF Checked, WithMarks, Nodes
    <3>2. 0 \in 0..HealthyAfter /\ 0 \in 0..UnhealthyAfter
      BY PoolAssumption
    <3>3. QED
      BY <3>1, <3>2, MarksFacts
  <2>2. CASE ~(~n.healthy /\ k >= HealthyAfter)
    <3>1. Checked(n, ok) = WithMarks(n, n.healthy, k, 0)
      BY <1>2, <2>2 DEF Checked, WithMarks, Nodes
    <3>2. k \in 0..HealthyAfter /\ 0 \in 0..UnhealthyAfter
      BY <1>1, <2>2, PoolAssumption
    <3>3. QED
      BY <1>1, <3>1, <3>2, MarksFacts
  <2>3. QED
    BY <2>1, <2>2
<1>3. CASE ~ok
  <2> DEFINE k == IF n.healthy THEN n.hcBad + 1 ELSE n.hcBad
  <2>1. CASE n.healthy /\ k >= UnhealthyAfter
    <3>1. Checked(n, ok) = WithMarks(n, FALSE, 0, 0)
      BY <1>3, <2>1 DEF Checked, WithMarks, Nodes
    <3>2. 0 \in 0..HealthyAfter /\ 0 \in 0..UnhealthyAfter
      BY PoolAssumption
    <3>3. QED
      BY <3>1, <3>2, MarksFacts
  <2>2. CASE ~(n.healthy /\ k >= UnhealthyAfter)
    <3>1. Checked(n, ok) = WithMarks(n, n.healthy, 0, k)
      BY <1>3, <2>2 DEF Checked, WithMarks, Nodes
    <3>2. k \in 0..UnhealthyAfter /\ 0 \in 0..HealthyAfter
      BY <1>1, <2>2, PoolAssumption
    <3>3. QED
      BY <1>1, <3>1, <3>2, MarksFacts
  <2>3. QED
    BY <2>1, <2>2
<1>4. QED
  BY <1>2, <1>3

\* The value of a count after a lease is given back.
Less(k) == IF k > 0 THEN k - 1 ELSE k

\* What finish_ makes of a backend: its places are given back, whatever the
\* outcome does to the window and the circuit, and a stray is counted.
LEMMA FinishedFacts ==
  ASSUME NEW n \in Nodes, NEW l \in Leases, NEW ok \in BOOLEAN
  PROVE  LET f == Finished(n, l, ok) IN
         /\ f \in Nodes /\ f.max = n.max /\ f.self = n.self
         /\ f.inflight = Less(n.inflight)
         /\ f.probes = IF l.probe THEN Less(n.probes) ELSE n.probes
         /\ f.strays = IF l.self # n.self THEN n.strays + 1 ELSE n.strays
<1> DEFINE v == IF n.inflight > 0 THEN n.inflight - 1 ELSE n.inflight
           u == IF l.probe /\ n.probes > 0 THEN n.probes - 1 ELSE n.probes
           s == IF l.self # n.self THEN n.strays + 1 ELSE n.strays
           r == Released(n, l, ok)
           o == Outcome(r, ok)
           w == Recorded(o, ok)
<1>1. /\ r \in Nodes /\ r.max = n.max /\ r.inflight = v /\ r.probes = u
      /\ r.self = n.self /\ r.strays = s
  <2>1. v \in 0..Cardinality(Clients) /\ u \in 0..Cardinality(Clients) /\ s \in Nat
    BY Ranges
  <2>2. r = WithCounts(n, v, u, s)
    BY DEF Released, WithCounts, Nodes
  <2> HIDE DEF v, u, s, r
  <2>3. QED
    BY <2>1, <2>2, CountsFacts
<1>2. o \in Nodes /\ Kept(o, r)
  <2> HIDE DEF r
  <2>0. 0 \in 0..FailureThreshold /\ Least(r.fails + 1, FailureThreshold) \in 0..FailureThreshold
    BY <1>1, Ranges, PoolAssumption DEF Least
  <2>1. CASE ok /\ r.circuit = "half_open"
    <3>1. o = WithFreshWindow(r, 0, "closed", [k \in DOMAIN r.win |-> FALSE])
      BY <2>1, <1>1 DEF Outcome, Nodes, WithFreshWindow
    <3>2. [k \in DOMAIN r.win |-> FALSE] \in [0..Window-1 -> BOOLEAN]
      BY <1>1, Ranges
    <3>3. PICK v0 \in [0..Window-1 -> BOOLEAN], f0 \in 0..FailureThreshold,
               s0 \in {"closed", "open", "half_open"} :
            v0 = [k \in DOMAIN r.win |-> FALSE] /\ f0 = 0 /\ s0 = "closed"
      BY <2>0, <3>2
    <3>4. WithFreshWindow(r, f0, s0, v0) \in Nodes /\ Kept(WithFreshWindow(r, f0, s0, v0), r)
      BY <1>1, BreakerFacts
    <3>5. QED
      BY <3>1, <3>3, <3>4
  <2>2. CASE ok /\ r.circuit # "half_open"
    <3>1. o = WithFails(r, 0)
      BY <2>2 DEF Outcome, WithFails
    <3>2. QED
      BY <1>1, <2>0, <3>1, BreakerFacts, Ranges
  <2>3. CASE ~ok
    <3> DEFINE t == IF r.circuit = "closed" THEN r.circuit ELSE "open"
    <3>1. o = WithFailsAndCircuit(r, Least(r.fails + 1, FailureThreshold), t)
      BY <1>1, <2>3 DEF Outcome, Nodes, WithFailsAndCircuit
    <3>2. t \in {"closed", "open", "half_open"} /\ r.win \in [0..Window-1 -> BOOLEAN]
      BY <1>1, Ranges
    <3> HIDE DEF t
    <3>3. QED
      BY <1>1, <2>0, <3>1, <3>2, BreakerFacts
  <2>4. QED
    BY <2>1, <2>2, <2>3
<1>3. w \in Nodes /\ Kept(w, o)
  <2> HIDE DEF o
  <2>1. o.pos \in 0..Window-1 /\ (o.pos + 1) % Window \in 0..Window-1 /\ (~ok) \in BOOLEAN
    BY <1>2, Ranges, PoolAssumption
  <2>2. w = WithEntry(o, o.pos, ~ok, (o.pos + 1) % Window)
    BY <1>2 DEF Recorded, Nodes, WithEntry
  <2>3. QED
    BY <1>2, <2>1, <2>2, EntryFacts
<1>4. Tripped(w) \in Nodes /\ Kept(Tripped(w), w)
  <2> HIDE DEF w
  <2>1. CASE w.circuit = "closed" /\ Trips(w)
    <3>1. Tripped(w) = WithCircuit(w, "open")
      BY <2>1 DEF Tripped, WithCircuit
    <3>2. QED
      BY <1>3, <3>1, BreakerFacts, Ranges
  <2>2. CASE ~(w.circuit = "closed" /\ Trips(w))
    BY <1>3, <2>2 DEF Tripped, Kept
  <2>3. QED
    BY <2>1, <2>2
<1>5. /\ Finished(n, l, ok) = Tripped(w)
      /\ v = Less(n.inflight) /\ u = IF l.probe THEN Less(n.probes) ELSE n.probes
  BY DEF Finished, Less
<1>6. QED
  <2> HIDE DEF v, u, r, o, w
  <2>1. QED
    BY <1>1, <1>2, <1>3, <1>4, <1>5 DEF Kept

-----------------------------------------------------------------------------
(* The table of backends and the leases out on it *)

\* The table is a function on the indexes 1..Len(nodes), whatever it holds.
LEMMA Table ==
  ASSUME TypeOK
  PROVE  /\ Len(nodes) \in Nat /\ Len(nodes) <= MaxNodes /\ DOMAIN nodes = 1..Len(nodes)
         /\ \A i \in DOMAIN nodes : nodes[i] \in Nodes /\ i \in 1..MaxNodes /\ i \in Nat
<1>1. nodes \in Seq(Nodes) /\ Len(nodes) <= MaxNodes
  BY DEF TypeOK
<1>2. Len(nodes) \in Nat /\ DOMAIN nodes = 1..Len(nodes)
  BY <1>1, LenProperties
<1>3. \A i \in 1..Len(nodes) : nodes[i] \in Nodes
  BY <1>1, ElementOfSeq
<1>4. QED
  BY <1>1, <1>2, <1>3, PoolAssumption

\* One entry of the table is replaced.
LEMMA TableUpdate ==
  ASSUME TypeOK, NEW i \in DOMAIN nodes, NEW b \in Nodes, nodes' = [nodes EXCEPT ![i] = b]
  PROVE  /\ nodes' \in Seq(Nodes) /\ Len(nodes') = Len(nodes) /\ DOMAIN nodes' = DOMAIN nodes
         /\ \A j \in DOMAIN nodes : nodes'[j] = IF j = i THEN b ELSE nodes[j]
<1>1. nodes \in Seq(Nodes) /\ DOMAIN nodes = 1..Len(nodes)
  BY Table DEF TypeOK
<1>2. QED
  BY <1>1, ExceptSeq

\* A step that leaves the clients alone, and of the backends neither the counts
\* nor the limit, keeps the invariant.
LEMMA FrameStep ==
  ASSUME IInv, UNCHANGED <<adds, clients>>,
         nodes' \in Seq(Nodes), Len(nodes') = Len(nodes), DOMAIN nodes' = DOMAIN nodes,
         \A i \in DOMAIN nodes : Kept(nodes'[i], nodes[i]),
         todo' \in [Checkers -> SUBSET (1..MaxNodes)]
  PROVE  IInv'
<1> USE DEF clients
<1>1. TypeOK'
  BY DEF IInv, TypeOK
<1>2. LeasesPoint' /\ CallsHaveAttempts' /\ QueueIsBounded'
  BY DEF IInv, LeasesPoint, CallsHaveAttempts, QueueIsBounded
<1>3. \A i \in DOMAIN nodes : OwnHolders(i)' = OwnHolders(i) /\ OwnTrials(i)' = OwnTrials(i)
  BY DEF Holders, OwnHolders, OwnTrials, Kept
<1>4. Counts' /\ Limits'
  BY <1>3 DEF IInv, Counts, Limits, Kept
<1>5. Numbered'
  BY DEF IInv, Numbered, Kept
<1>6. QED
  BY <1>1, <1>2, <1>4, <1>5 DEF IInv

\* One entry is replaced by one with the same counts and limit.
LEMMA FrameUpdate ==
  ASSUME IInv, UNCHANGED <<adds, clients>>, NEW i \in DOMAIN nodes, NEW b \in Nodes,
         Kept(b, nodes[i]), nodes' = [nodes EXCEPT ![i] = b],
         todo' \in [Checkers -> SUBSET (1..MaxNodes)]
  PROVE  IInv'
<1>1. TypeOK
  BY DEF IInv
<1>2. /\ nodes' \in Seq(Nodes) /\ Len(nodes') = Len(nodes) /\ DOMAIN nodes' = DOMAIN nodes
      /\ \A j \in DOMAIN nodes : nodes'[j] = IF j = i THEN b ELSE nodes[j]
  BY <1>1, TableUpdate
<1>3. \A j \in DOMAIN nodes : Kept(nodes'[j], nodes[j])
  BY <1>2 DEF Kept
<1>4. QED
  BY <1>2, <1>3, FrameStep

-----------------------------------------------------------------------------
(* Steps of the operator: membership, marks, health checks, time *)

\* remove() only marks the entry: its counts go on with the leases that are out.
LEMMA RemoveStep ==
  ASSUME IInv, NEW id \in Ids, Remove(id)
  PROVE  IInv'
<1> DEFINE here == {i \in WithId(id) : ~nodes[i].removed}
<1>1. TypeOK /\ todo' \in [Checkers -> SUBSET (1..MaxNodes)]
  BY DEF IInv, TypeOK, Remove
<1>2. here \in SUBSET Nat /\ here # {} /\ here \in SUBSET (DOMAIN nodes)
  BY <1>1, Table DEF WithId, Remove
<1>3. First(here) \in DOMAIN nodes
  BY <1>2, FirstIsLeast
<1>4. nodes' = [nodes EXCEPT ![First(here)] = WithRemoved(nodes[First(here)])]
  BY DEF Remove, WithRemoved
<1>5. LET b == WithRemoved(nodes[First(here)]) IN b \in Nodes /\ Kept(b, nodes[First(here)])
  BY <1>1, <1>3, Table, MembershipFacts
<1>6. UNCHANGED <<adds, clients>>
  BY DEF Remove
<1> HIDE DEF here
<1>7. QED
  BY <1>1, <1>3, <1>4, <1>5, <1>6, FrameUpdate

\* set_weight() sets the weight of the first entry of that id.
LEMMA SetWeightStep ==
  ASSUME IInv, NEW id \in Ids, NEW w \in Weights, SetWeight(id, w)
  PROVE  IInv'
<1> DEFINE i == First(WithId(id))
<1>1. TypeOK /\ todo' \in [Checkers -> SUBSET (1..MaxNodes)]
  BY DEF IInv, TypeOK, SetWeight
<1>2. WithId(id) \in SUBSET Nat /\ WithId(id) # {} /\ WithId(id) \in SUBSET (DOMAIN nodes)
  BY <1>1, Table DEF WithId, SetWeight
<1>3. i \in DOMAIN nodes
  BY <1>2, FirstIsLeast
<1>4. nodes' = [nodes EXCEPT ![i] = WithWeight(nodes[i], w)]
  BY DEF SetWeight, WithWeight
<1>5. w \in {0, 1}
  BY PoolAssumption
<1>6. WithWeight(nodes[i], w) \in Nodes /\ Kept(WithWeight(nodes[i], w), nodes[i])
  BY <1>1, <1>3, <1>5, Table, MembershipFacts
<1>7. UNCHANGED <<adds, clients>>
  BY DEF SetWeight
<1> HIDE DEF i
<1>8. QED
  BY <1>1, <1>3, <1>4, <1>6, <1>7, FrameUpdate

\* set_healthy() marks every entry of that id.
LEMMA SetHealthyStep ==
  ASSUME IInv, NEW id \in Ids, NEW h \in Marks, SetHealthy(id, h)
  PROVE  IInv'
<1>1. TypeOK /\ todo' \in [Checkers -> SUBSET (1..MaxNodes)]
  BY DEF IInv, TypeOK, SetHealthy
<1>2. h \in BOOLEAN /\ 0 \in 0..HealthyAfter /\ 0 \in 0..UnhealthyAfter
  BY PoolAssumption
<1>3. nodes' = [i \in DOMAIN nodes |-> IF nodes[i].id = id THEN WithMarks(nodes[i], h, 0, 0)
                                                            ELSE nodes[i]]
  BY DEF SetHealthy, WithMarks
<1>4. \A i \in DOMAIN nodes : /\ WithMarks(nodes[i], h, 0, 0) \in Nodes
                              /\ Kept(WithMarks(nodes[i], h, 0, 0), nodes[i])
  BY <1>1, <1>2, Table, MarksFacts
<1>5. DOMAIN nodes' = DOMAIN nodes
  BY <1>3
<1>6. \A i \in DOMAIN nodes : nodes'[i] \in Nodes /\ Kept(nodes'[i], nodes[i])
  BY <1>1, <1>3, <1>4, Table DEF Kept
<1>7. nodes' \in [1..Len(nodes) -> Nodes] /\ Len(nodes) \in Nat
  BY <1>1, <1>3, <1>6, Table
<1>8. nodes' \in Seq(Nodes) /\ Len(nodes') = Len(nodes)
  BY <1>7
<1>9. UNCHANGED <<adds, clients>>
  BY DEF SetHealthy
<1>10. QED
  BY <1>1, <1>5, <1>6, <1>8, <1>9, FrameStep

\* run_health_checks() copies indexes of the table.
LEMMA StartChecksStep ==
  ASSUME IInv, NEW h \in Checkers, StartChecks(h)
  PROVE  IInv'
<1>1. TypeOK
  BY DEF IInv
<1>2. {i \in DOMAIN nodes : ~nodes[i].removed} \in SUBSET (1..MaxNodes)
  BY <1>1, Table
<1>3. todo' \in [Checkers -> SUBSET (1..MaxNodes)]
  BY <1>1, <1>2 DEF StartChecks, TypeOK
<1>4. /\ UNCHANGED <<adds, clients>> /\ nodes' \in Seq(Nodes)
      /\ Len(nodes') = Len(nodes) /\ DOMAIN nodes' = DOMAIN nodes
      /\ \A i \in DOMAIN nodes : Kept(nodes'[i], nodes[i])
  BY <1>1 DEF StartChecks, TypeOK, Kept
<1>5. QED
  BY <1>3, <1>4, FrameStep

\* An answer for an index that the table does not have would change nothing, so
\* the invariant need not say that it has it.
LEMMA CheckStep ==
  ASSUME IInv, NEW h \in Checkers, NEW ok \in BOOLEAN, Check(h, ok)
  PROVE  IInv'
<1> DEFINE i == First(todo[h])
<1>1. TypeOK /\ todo' \in [Checkers -> SUBSET (1..MaxNodes)]
  BY DEF IInv, TypeOK, Check
<1>2. UNCHANGED <<adds, clients>>
  BY DEF Check
<1>3. nodes' = [nodes EXCEPT ![i] = Checked(nodes[i], ok)]
  BY DEF Check
<1>4. CASE i \in DOMAIN nodes
  <2>1. Checked(nodes[i], ok) \in Nodes /\ Kept(Checked(nodes[i], ok), nodes[i])
    BY <1>1, <1>4, Table, CheckedFacts
  <2> HIDE DEF i
  <2>2. QED
    BY <1>1, <1>2, <1>3, <1>4, <2>1, FrameUpdate
<1>5. CASE i \notin DOMAIN nodes
  <2>0. nodes \in [DOMAIN nodes -> Nodes]
    BY <1>1, LenProperties DEF TypeOK
  <2> HIDE DEF i
  <2>1. nodes' = nodes
    BY <1>3, <1>5, <2>0
  <2>2. /\ nodes' \in Seq(Nodes) /\ Len(nodes') = Len(nodes) /\ DOMAIN nodes' = DOMAIN nodes
        /\ \A j \in DOMAIN nodes : Kept(nodes'[j], nodes[j])
    BY <1>1, <2>1 DEF TypeOK, Kept
  <2>3. QED
    BY <1>1, <1>2, <2>2, FrameStep
<1>6. QED
  BY <1>4, <1>5

\* The open period of a circuit ends.
LEMMA ElapseStep ==
  ASSUME IInv, NEW i \in DOMAIN nodes, Elapse(i)
  PROVE  IInv'
<1>1. TypeOK /\ todo' \in [Checkers -> SUBSET (1..MaxNodes)]
  BY DEF IInv, TypeOK, Elapse
<1>2. nodes' = [nodes EXCEPT ![i] = WithCircuit(nodes[i], "half_open")]
  BY DEF Elapse, WithCircuit
<1>3. LET b == WithCircuit(nodes[i], "half_open") IN b \in Nodes /\ Kept(b, nodes[i])
  BY <1>1, Table, BreakerFacts, Ranges
<1>4. UNCHANGED <<adds, clients>>
  BY DEF Elapse
<1>5. QED
  BY <1>1, <1>2, <1>3, <1>4, FrameUpdate

\* add(): an entry used again starts from nothing, and so it may, since the leases
\* that are out on its old self have another number; an appended entry has none.
LEMMA AddStep ==
  ASSUME IInv, NEW id \in Ids, NEW w \in Weights, NEW m \in Caps, Add(id, w, m)
  PROVE  IInv'
<1> DEFINE old == {i \in WithId(id) : nodes[i].removed}
           b == NewNode(id, w, m, adds + 1)
<1>1. TypeOK /\ LeasesPoint /\ Counts /\ Limits /\ Numbered /\ adds \in Nat
  BY PoolAssumption DEF IInv, TypeOK
<1>2. adds + 1 \in 1..MaxAdds /\ adds' \in 0..MaxAdds /\ adds' = adds + 1
  BY <1>1, PoolAssumption DEF Add, TypeOK
<1>3. w \in {0, 1} /\ m \in Nat
  BY PoolAssumption
<1>4. /\ b \in Nodes /\ b.self = adds + 1
      /\ b.inflight = 0 /\ b.probes = 0 /\ b.strays = 0
  BY <1>2, <1>3, NewNodeFacts
<1>5. UNCHANGED <<clients, todo>>
  BY DEF Add
<1>6. /\ \A i : nodes'[i] = nodes[i] =>
              OwnHolders(i)' = OwnHolders(i) /\ OwnTrials(i)' = OwnTrials(i)
      /\ \A i : nodes'[i].self = adds + 1 => OwnHolders(i)' = {} /\ OwnTrials(i)' = {}
  <2>1. \A i : nodes'[i] = nodes[i] =>
              OwnHolders(i)' = OwnHolders(i) /\ OwnTrials(i)' = OwnTrials(i)
    BY <1>5 DEF Holders, OwnHolders, OwnTrials, clients
  <2>2. \A c \in Clients : pc[c] = "holding" => lease[c].self # adds + 1
    <3> SUFFICES ASSUME NEW c \in Clients, pc[c] = "holding" PROVE lease[c].self # adds + 1
      OBVIOUS
    <3>1. lease[c].self \in 0..MaxAdds /\ lease[c].self <= adds
      BY <1>1 DEF TypeOK, Leases, Numbered
    <3>2. QED
      BY <1>1, <3>1
  <2>3. \A i : nodes'[i].self = adds + 1 => OwnHolders(i)' = {}
    BY <1>5, <2>2 DEF Holders, OwnHolders, clients
  <2>4. QED
    BY <2>1, <2>3 DEF OwnTrials
<1>7. b.max \in Nat /\ HalfOpenProbes \in Nat /\ Cardinality({}) = 0
  BY <1>4, Ranges, FS_EmptySet, PoolAssumption
<1>8. /\ QueueIsBounded' /\ CallsHaveAttempts'
      /\ \A j : nodes'[j] = b => nodes'[j].self <= adds'
      /\ \A j \in DOMAIN nodes : nodes[j].self <= adds'
      /\ \A c \in Clients : pc'[c] = "holding" => lease'[c].self <= adds'
  <2>1. QueueIsBounded' /\ CallsHaveAttempts'
    BY <1>5 DEF IInv, QueueIsBounded, CallsHaveAttempts, clients
  <2>2. \A j : nodes'[j] = b => nodes'[j].self <= adds'
    BY <1>1, <1>2, <1>4
  <2>3. \A j \in DOMAIN nodes : nodes[j].self <= adds'
    <3> SUFFICES ASSUME NEW j \in DOMAIN nodes PROVE nodes[j].self <= adds'
      OBVIOUS
    <3>1. nodes[j].self \in Nat /\ nodes[j].self <= adds
      BY <1>1, Table, Ranges DEF Numbered
    <3>2. QED
      BY <1>1, <1>2, <3>1
  <2>4. ASSUME NEW c \in Clients, pc'[c] = "holding" PROVE lease'[c].self <= adds'
    <3>1. lease[c].self \in 0..MaxAdds /\ lease[c].self <= adds /\ lease' = lease
      BY <1>1, <1>5, <2>4 DEF TypeOK, Leases, Numbered, clients
    <3>2. QED
      BY <1>1, <1>2, <3>1
  <2>5. QED
    BY <2>1, <2>2, <2>3, <2>4
<1>9. CASE old # {}
  <2> DEFINE i == First(old)
  <2>1. old \in SUBSET Nat /\ old \in SUBSET (DOMAIN nodes)
    BY <1>1, Table DEF WithId
  <2>2. i \in DOMAIN nodes
    BY <1>9, <2>1, FirstIsLeast
  <2>3. nodes' = [nodes EXCEPT ![i] = b]
    BY <1>9 DEF Add
  <2> HIDE DEF i, b, old
  <2>4. /\ nodes' \in Seq(Nodes) /\ Len(nodes') = Len(nodes) /\ DOMAIN nodes' = DOMAIN nodes
        /\ \A j \in DOMAIN nodes : nodes'[j] = IF j = i THEN b ELSE nodes[j]
    BY <1>1, <1>4, <2>2, <2>3, TableUpdate
  <2>5. TypeOK'
    BY <1>1, <1>2, <1>5, <2>4 DEF TypeOK, clients
  <2>6. LeasesPoint'
    BY <1>1, <1>5, <2>4 DEF LeasesPoint, clients
  <2>7. Numbered'
    BY <1>1, <1>2, <1>8, <2>4 DEF clients, Numbered
  <2>8. Counts'
    <3> SUFFICES ASSUME NEW j \in DOMAIN nodes
                 PROVE  /\ nodes'[j].inflight <= Cardinality(OwnHolders(j)')
                        /\ Cardinality(OwnHolders(j)') <= nodes'[j].inflight + nodes'[j].strays
                        /\ nodes'[j].probes <= Cardinality(OwnTrials(j)')
                        /\ Cardinality(OwnTrials(j)') <= nodes'[j].probes + nodes'[j].strays
      BY <2>4 DEF Counts
    <3>1. CASE j # i
      BY <1>1, <1>6, <2>4, <3>1 DEF Counts
    <3>2. CASE j = i
      <4>1. nodes'[j] = b
        BY <2>4, <3>2
      <4>2. OwnHolders(j)' = {} /\ OwnTrials(j)' = {}
        BY <1>4, <1>6, <4>1
      <4>3. /\ nodes'[j].inflight = 0 /\ nodes'[j].probes = 0 /\ nodes'[j].strays = 0
            /\ Cardinality(OwnHolders(j)') = 0 /\ Cardinality(OwnTrials(j)') = 0
        BY <1>4, <1>7, <4>1, <4>2
      <4>4. QED
        BY <4>3
    <3>3. QED
      BY <3>1, <3>2
  <2>9. Limits'
    BY <1>1, <1>4, <1>7, <2>4 DEF Limits
  <2>10. QED
    BY <1>8, <2>5, <2>6, <2>7, <2>8, <2>9 DEF IInv
<1>10. CASE old = {}
  <2>1. Len(nodes) < MaxNodes /\ nodes' = Append(nodes, b)
    BY <1>10 DEF Add
  <2> HIDE DEF b, old
  <2>2. Len(nodes) \in Nat /\ DOMAIN nodes = 1..Len(nodes)
    BY <1>1, Table
  <2>3. /\ nodes' \in Seq(Nodes) /\ Len(nodes') = Len(nodes) + 1
        /\ \A j \in 1..Len(nodes) : nodes'[j] = nodes[j]
        /\ nodes'[Len(nodes) + 1] = b
    BY <1>1, <1>4, <2>1, AppendProperties DEF TypeOK
  <2>4. DOMAIN nodes' = 1..(Len(nodes) + 1)
    BY <2>3, LenProperties
  <2>5. \A j \in DOMAIN nodes' : \/ j \in DOMAIN nodes /\ nodes'[j] = nodes[j]
                                 \/ j = Len(nodes) + 1 /\ nodes'[j] = b
    <3>1. \A j \in 1..(Len(nodes) + 1) : j \in 1..Len(nodes) \/ j = Len(nodes) + 1
      BY <2>2
    <3> SUFFICES ASSUME NEW j \in DOMAIN nodes'
                 PROVE  \/ j \in DOMAIN nodes /\ nodes'[j] = nodes[j]
                        \/ j = Len(nodes) + 1 /\ nodes'[j] = b
      OBVIOUS
    <3>2. CASE j \in 1..Len(nodes)
      BY <2>2, <2>3, <3>2
    <3>3. CASE j = Len(nodes) + 1
      BY <2>3, <3>3
    <3>4. QED
      BY <2>4, <3>1, <3>2, <3>3
  <2>6. TypeOK'
    BY <1>1, <1>2, <1>5, <2>1, <2>2, <2>3, PoolAssumption DEF TypeOK, clients
  <2>7. LeasesPoint'
    BY <1>1, <1>5, <2>2, <2>4 DEF LeasesPoint, clients
  <2>8. Numbered'
    BY <1>8, <2>5 DEF Numbered
  <2>9. Counts'
    <3> SUFFICES ASSUME NEW j \in DOMAIN nodes'
                 PROVE  /\ nodes'[j].inflight <= Cardinality(OwnHolders(j)')
                        /\ Cardinality(OwnHolders(j)') <= nodes'[j].inflight + nodes'[j].strays
                        /\ nodes'[j].probes <= Cardinality(OwnTrials(j)')
                        /\ Cardinality(OwnTrials(j)') <= nodes'[j].probes + nodes'[j].strays
      BY DEF Counts
    <3>1. CASE j \in DOMAIN nodes /\ nodes'[j] = nodes[j]
      BY <1>1, <1>6, <3>1 DEF Counts
    <3>2. CASE j = Len(nodes) + 1 /\ nodes'[j] = b
      <4>1. OwnHolders(j)' = {} /\ OwnTrials(j)' = {}
        BY <1>4, <1>6, <3>2
      <4>2. /\ nodes'[j].inflight = 0 /\ nodes'[j].probes = 0 /\ nodes'[j].strays = 0
            /\ Cardinality(OwnHolders(j)') = 0 /\ Cardinality(OwnTrials(j)') = 0
        BY <1>4, <1>7, <3>2, <4>1
      <4>3. QED
        BY <4>2
    <3>3. QED
      BY <2>5, <3>1, <3>2
  <2>10. Limits'
    BY <1>1, <1>4, <1>7, <2>5 DEF Limits
  <2>11. QED
    BY <1>8, <2>6, <2>7, <2>8, <2>9, <2>10 DEF IInv
<1>11. QED
  BY <1>9, <1>10

-----------------------------------------------------------------------------
(* Steps of the clients *)

\* A step of a client that holds nothing, before and after, leaves the backends
\* and what is out on them alone.
LEMMA QuietStep ==
  ASSUME IInv, NEW c \in Clients, UNCHANGED <<nodes, adds, todo>>,
         pc[c] # "holding", pc'[c] # "holding",
         \A d \in Clients \ {c} : pc'[d] = pc[d] /\ lease'[d] = lease[d]
  PROVE  LeasesPoint' /\ Numbered' /\ Counts' /\ Limits'
<1>1. LeasesPoint' /\ Numbered'
  BY DEF IInv, LeasesPoint, Numbered
<1>2. \A i : OwnHolders(i)' = OwnHolders(i) /\ OwnTrials(i)' = OwnTrials(i)
  BY HoldersSame
<1>3. Counts' /\ Limits'
  BY <1>2 DEF IInv, Counts, Limits
<1>4. QED
  BY <1>1, <1>3

\* A call begins, with at least one attempt.
LEMMA CallStep ==
  ASSUME IInv, NEW c \in Clients, NEW n \in 1..Attempts, NEW w \in {"none", "until"},
         Call(c, n, w)
  PROVE  IInv'
<1>1. TypeOK
  BY DEF IInv
<1>2. TypeOK'
  BY <1>1, PoolAssumption DEF Call, TypeOK
<1>3. LeasesPoint' /\ Numbered' /\ Counts' /\ Limits'
  <2>1. /\ pc[c] # "holding" /\ pc'[c] # "holding" /\ UNCHANGED <<nodes, adds, todo>>
        /\ \A d \in Clients \ {c} : pc'[d] = pc[d] /\ lease'[d] = lease[d]
    BY <1>1 DEF Call, TypeOK
  <2>2. QED
    BY <2>1, QuietStep
<1>4. CallsHaveAttempts'
  BY <1>1 DEF IInv, Call, CallsHaveAttempts, TypeOK
<1>5. QueueIsBounded'
  BY <1>1 DEF IInv, Call, QueueIsBounded, TypeOK
<1>6. QED
  BY <1>2, <1>3, <1>4, <1>5 DEF IInv

\* A deadline passes: the client is still waiting.
LEMMA ExpireStep ==
  ASSUME IInv, NEW c \in Clients, Expire(c)
  PROVE  IInv'
<1>1. TypeOK
  BY DEF IInv
<1>2. TypeOK'
  BY <1>1 DEF Expire, TypeOK
<1>3. LeasesPoint' /\ Numbered' /\ Counts' /\ Limits'
  <2>1. /\ pc[c] # "holding" /\ pc'[c] # "holding" /\ UNCHANGED <<nodes, adds, todo>>
        /\ \A d \in Clients \ {c} : pc'[d] = pc[d] /\ lease'[d] = lease[d]
    BY DEF Expire
  <2>2. QED
    BY <2>1, QuietStep
<1>4. CallsHaveAttempts'
  BY DEF IInv, Expire, CallsHaveAttempts
<1>5. QueueIsBounded'
  BY <1>1 DEF IInv, Expire, QueueIsBounded, TypeOK
<1>6. QED
  BY <1>2, <1>3, <1>4, <1>5 DEF IInv

\* A client is counted in waiting_ only below queue_limit.
LEMMA EnqueueStep ==
  ASSUME IInv, NEW c \in Clients, Enqueue(c)
  PROVE  IInv'
<1>1. TypeOK
  BY DEF IInv
<1>2. TypeOK'
  BY <1>1 DEF Enqueue, TypeOK
<1>3. LeasesPoint' /\ Numbered' /\ Counts' /\ Limits'
  <2>1. /\ pc[c] # "holding" /\ pc'[c] # "holding" /\ UNCHANGED <<nodes, adds, todo>>
        /\ \A d \in Clients \ {c} : pc'[d] = pc[d] /\ lease'[d] = lease[d]
    BY DEF Enqueue
  <2>2. QED
    BY <2>1, QuietStep
<1>4. CallsHaveAttempts'
  BY DEF IInv, Enqueue, CallsHaveAttempts
<1>5. QueueIsBounded'
  <2>1. IsFiniteSet(queued)
    BY <1>1, PoolAssumption, FS_Subset DEF TypeOK
  <2>2. Cardinality(queued \cup {c}) = Cardinality(queued) + 1 /\ Cardinality(queued) \in Nat
    BY <2>1, FS_CardinalityType, FS_AddElement DEF Enqueue
  <2>3. Cardinality(queued') <= QueueLimit
    <3>1. queued' = queued \cup {c} /\ Cardinality(queued) < QueueLimit /\ QueueLimit \in Nat
      BY PoolAssumption DEF Enqueue
    <3>2. QED
      BY <2>2, <3>1
  <2>4. QED
    BY <2>3 DEF IInv, Enqueue, QueueIsBounded
<1>6. QED
  BY <1>2, <1>3, <1>4, <1>5 DEF IInv

\* The queue without a client is still bounded.
LEMMA Dequeued ==
  ASSUME TypeOK, QueueIsBounded, NEW c \in Clients
  PROVE  Cardinality(queued \ {c}) <= QueueLimit
<1>1. IsFiniteSet(queued)
  BY PoolAssumption, FS_Subset DEF TypeOK
<1>2. queued \ {c} \in SUBSET queued
  OBVIOUS
<1>3. IsFiniteSet(queued \ {c}) /\ Cardinality(queued \ {c}) <= Cardinality(queued)
  BY <1>1, <1>2, FS_Subset
<1>4. Cardinality(queued) \in Nat /\ Cardinality(queued \ {c}) \in Nat
  BY <1>1, <1>3, FS_CardinalityType
<1>5. QED
  BY <1>3, <1>4, PoolAssumption DEF QueueIsBounded

\* A client without a lease leaves the queue, to try once more or to give up.
LEMMA RefuseStep ==
  ASSUME IInv, NEW c \in Clients, Refuse(c)
  PROVE  IInv'
<1> DEFINE over == tried[c] = {} \/ again[c]
<1>1. TypeOK
  BY DEF IInv
<1>2. /\ pc[c] = "acquire" /\ pc' = [pc EXCEPT ![c] = IF over THEN "idle" ELSE "acquire"]
      /\ again' = [again EXCEPT ![c] = ~over]
      /\ left' = [left EXCEPT ![c] = IF over THEN 0 ELSE left[c]]
      /\ wait' = [wait EXCEPT ![c] = NextWait(wait[c], over)]
      /\ lease' = [lease EXCEPT ![c] = IF over THEN NoLease ELSE lease[c]]
      /\ tried' = [tried EXCEPT ![c] = {}] /\ queued' = queued \ {c}
      /\ UNCHANGED <<nodes, adds, todo>>
  BY DEF Refuse
<1>3. over \in BOOLEAN
  BY <1>1 DEF TypeOK
<1> HIDE DEF over
<1>4. TypeOK'
  <2>1. NextWait(wait[c], over) \in {"none", "until", "past"}
    BY <1>1 DEF NextWait, TypeOK
  <2>2. NoLease \in Leases
    BY PoolAssumption DEF NoLease, Leases
  <2>3. 0 \in 0..Attempts /\ left[c] \in 0..Attempts
    BY <1>1, PoolAssumption DEF TypeOK
  <2>4. pc' \in [Clients -> {"idle", "acquire", "holding"}] /\ again' \in [Clients -> BOOLEAN]
    BY <1>1, <1>2, <1>3 DEF TypeOK
  <2>5. left' \in [Clients -> 0..Attempts] /\ wait' \in [Clients -> {"none", "until", "past"}]
    BY <1>1, <1>2, <2>1, <2>3 DEF TypeOK
  <2>6. lease' \in [Clients -> Leases] /\ tried' \in [Clients -> SUBSET (1..MaxNodes)]
    BY <1>1, <1>2, <2>2 DEF TypeOK
  <2>7. QED
    BY <1>1, <1>2, <2>4, <2>5, <2>6 DEF TypeOK
<1>5. LeasesPoint' /\ Numbered' /\ Counts' /\ Limits'
  <2>1. /\ pc[c] # "holding" /\ pc'[c] # "holding"
        /\ \A d \in Clients \ {c} : pc'[d] = pc[d] /\ lease'[d] = lease[d]
    BY <1>1, <1>2 DEF TypeOK
  <2>2. QED
    BY <1>2, <2>1, QuietStep
<1>6. CallsHaveAttempts'
  BY <1>1, <1>2 DEF IInv, CallsHaveAttempts, TypeOK
<1>7. QueueIsBounded'
  <2>1. Cardinality(queued') <= QueueLimit
    BY <1>1, <1>2, Dequeued DEF IInv
  <2>2. \A d \in queued' : pc'[d] = "acquire" /\ wait'[d] # "none"
    BY <1>1, <1>2 DEF IInv, QueueIsBounded, TypeOK
  <2>3. QED
    BY <2>1, <2>2 DEF QueueIsBounded
<1>8. QED
  BY <1>4, <1>5, <1>6, <1>7 DEF IInv

\* A client that gets a lease is one more on that backend, and on no other.
LEMMA HoldersGrow ==
  ASSUME TypeOK, NEW c \in Clients, NEW l \in Leases, pc[c] # "holding",
         pc' = [pc EXCEPT ![c] = "holding"], lease' = [lease EXCEPT ![c] = l],
         NEW j \in DOMAIN nodes, nodes'[j].self = nodes[j].self, j = l.at => l.self = nodes[j].self
  PROVE  /\ c \notin OwnHolders(j) /\ c \notin OwnTrials(j)
         /\ OwnHolders(j)' = IF j = l.at THEN OwnHolders(j) \cup {c} ELSE OwnHolders(j)
         /\ OwnTrials(j)' = IF j = l.at /\ l.probe THEN OwnTrials(j) \cup {c} ELSE OwnTrials(j)
<1>1. c \notin OwnHolders(j) /\ c \notin OwnTrials(j)
  BY DEF Holders, OwnHolders, OwnTrials
<1>2. /\ pc'[c] = "holding" /\ lease'[c] = l
      /\ \A d \in Clients \ {c} : pc'[d] = pc[d] /\ lease'[d] = lease[d]
  BY DEF TypeOK
<1>3. OwnHolders(j)' = IF j = l.at THEN OwnHolders(j) \cup {c} ELSE OwnHolders(j)
  BY <1>2 DEF Holders, OwnHolders
<1>4. OwnTrials(j)' = IF j = l.at /\ l.probe THEN OwnTrials(j) \cup {c} ELSE OwnTrials(j)
  BY <1>2 DEF Holders, OwnHolders, OwnTrials
<1>5. QED
  BY <1>1, <1>3, <1>4

\* A client that holds no more is one less on the backend it held, if that one is
\* still there.
LEMMA HoldersShrink ==
  ASSUME NEW c \in Clients, pc[c] = "holding", pc'[c] # "holding",
         \A d \in Clients \ {c} : pc'[d] = pc[d] /\ lease'[d] = lease[d],
         NEW j \in DOMAIN nodes, nodes'[j].self = nodes[j].self
  PROVE  /\ OwnHolders(j)' = OwnHolders(j) \ {c} /\ OwnTrials(j)' = OwnTrials(j) \ {c}
         /\ c \in OwnHolders(j) <=> j = lease[c].at /\ lease[c].self = nodes[j].self
         /\ c \in OwnTrials(j) <=> c \in OwnHolders(j) /\ lease[c].probe
<1>1. OwnHolders(j)' = OwnHolders(j) \ {c}
  BY DEF Holders, OwnHolders
<1>2. OwnTrials(j)' = OwnTrials(j) \ {c}
  BY DEF Holders, OwnHolders, OwnTrials
<1>3. /\ c \in OwnHolders(j) <=> j = lease[c].at /\ lease[c].self = nodes[j].self
      /\ c \in OwnTrials(j) <=> c \in OwnHolders(j) /\ lease[c].probe
  BY DEF Holders, OwnHolders, OwnTrials
<1>4. QED
  BY <1>1, <1>2, <1>3

\* acquire(): the count that is raised has room for one more, since the client
\* that takes the place held none; and it respects the limits, since the backend
\* was usable.  A trial is granted on a half-open backend only.
LEMMA GrantStep ==
  ASSUME IInv, NEW c \in Clients, Grant(c)
  PROVE  IInv'
<1> DEFINE probe == Trials(c) # {}
<1>1. PICK i \in Candidates(c) :
        /\ probe => i = First(Trials(c))
        /\ nodes' = [nodes EXCEPT ![i].inflight = @ + 1,
                                  ![i].requests = Least(@ + 1, Window),
                                  ![i].probes = IF probe THEN @ + 1 ELSE @]
        /\ lease' = [lease EXCEPT ![c] = [at |-> i, self |-> nodes[i].self, probe |-> probe]]
  BY DEF Grant
<1> DEFINE n == nodes[i]
           l == [at |-> i, self |-> n.self, probe |-> probe]
           r == Least(n.requests + 1, Window)
           u == IF probe THEN n.probes + 1 ELSE n.probes
           b == WithGrant(n, n.inflight + 1, r, u)
<1>2. TypeOK /\ LeasesPoint /\ Counts /\ Limits /\ Numbered
  BY DEF IInv
<1>3. i \in DOMAIN nodes /\ n \in Nodes /\ Usable(n) /\ i \in 1..MaxNodes
  BY <1>2, Table DEF Candidates
<1>4. probe => n.circuit = "half_open"
  <2>1. Trials(c) \in SUBSET Nat
    BY <1>2, Table DEF Trials, Candidates
  <2>2. probe => i \in Trials(c)
    BY <1>1, <2>1, FirstIsLeast
  <2>3. QED
    BY <2>2 DEF Trials
<1>5. /\ n.max # 0 => n.inflight < n.max
      /\ probe => n.probes < HalfOpenProbes
  BY <1>3, <1>4 DEF Usable
<1>6. nodes' = [nodes EXCEPT ![i] = b]
  BY <1>1, <1>3 DEF WithGrant, Nodes
<1>7. /\ pc[c] = "acquire" /\ pc' = [pc EXCEPT ![c] = "holding"] /\ queued' = queued \ {c}
      /\ UNCHANGED <<adds, tried, left, again, wait, todo>>
  BY DEF Grant
<1>8. l \in Leases /\ l.at = i /\ l.probe = probe /\ l.self = n.self
  <2>1. i \in 0..MaxNodes /\ n.self \in 0..MaxAdds
    <3>1. n.self \in 1..MaxAdds
      BY <1>3 DEF Nodes
    <3>2. QED
      BY <1>3, <3>1, PoolAssumption
  <2>2. QED
    BY <2>1 DEF Leases
<1>9. lease' = [lease EXCEPT ![c] = l] /\ probe \in BOOLEAN
  BY <1>1
<1> HIDE DEF probe, l
<1>11. \A j \in DOMAIN nodes :
         /\ Cardinality(OwnHolders(j)) \in Nat /\ Cardinality(OwnTrials(j)) \in Nat
         /\ c \notin OwnHolders(j) =>
              /\ Cardinality(OwnHolders(j) \cup {c}) = Cardinality(OwnHolders(j)) + 1
              /\ Cardinality(OwnHolders(j)) + 1 <= Cardinality(Clients)
         /\ c \notin OwnTrials(j) =>
              /\ Cardinality(OwnTrials(j) \cup {c}) = Cardinality(OwnTrials(j)) + 1
              /\ Cardinality(OwnTrials(j)) + 1 <= Cardinality(Clients)
  <2> TAKE j \in DOMAIN nodes
  <2>1. /\ IsFiniteSet(OwnHolders(j)) /\ IsFiniteSet(OwnTrials(j))
        /\ Cardinality(OwnHolders(j)) \in Nat /\ Cardinality(OwnTrials(j)) \in Nat
    BY HoldersFinite
  <2>2. /\ c \notin OwnHolders(j) =>
             Cardinality(OwnHolders(j) \cup {c}) = Cardinality(OwnHolders(j)) + 1
        /\ c \notin OwnTrials(j) =>
             Cardinality(OwnTrials(j) \cup {c}) = Cardinality(OwnTrials(j)) + 1
    BY <2>1, FS_AddElement
  <2>3. (OwnHolders(j) \cup {c}) \in SUBSET Clients /\ (OwnTrials(j) \cup {c}) \in SUBSET Clients
    BY DEF Holders, OwnHolders, OwnTrials
  <2>4. /\ Cardinality(OwnHolders(j) \cup {c}) <= Cardinality(Clients)
        /\ Cardinality(OwnTrials(j) \cup {c}) <= Cardinality(Clients)
    BY <2>3, PoolAssumption, FS_Subset
  <2>5. QED
    BY <2>1, <2>2, <2>4
<1>12. /\ n.inflight \in Nat /\ n.probes \in Nat /\ n.max \in Nat
       /\ n.requests \in 0..Window /\ Cardinality(Clients) \in Nat /\ n.strays \in Nat
  BY <1>3, Ranges
<1>13. /\ n.inflight <= Cardinality(OwnHolders(i)) /\ n.probes <= Cardinality(OwnTrials(i))
       /\ c \notin OwnHolders(i) /\ c \notin OwnTrials(i)
  BY <1>2, <1>3, <1>7 DEF Counts, OwnHolders, OwnTrials, Holders
<1>14. n.inflight + 1 \in 0..Cardinality(Clients) /\ u \in 0..Cardinality(Clients)
  <2>1. /\ Cardinality(OwnHolders(i)) \in Nat /\ Cardinality(OwnTrials(i)) \in Nat
        /\ Cardinality(OwnHolders(i)) + 1 <= Cardinality(Clients)
        /\ Cardinality(OwnTrials(i)) + 1 <= Cardinality(Clients)
    BY <1>3, <1>11, <1>13
  <2>2. QED
    BY <1>12, <1>13, <2>1
<1>15. r \in 0..Window
  BY <1>12, PoolAssumption DEF Least
<1>16. /\ b \in Nodes /\ b.max = n.max /\ b.inflight = n.inflight + 1 /\ b.probes = u
       /\ b.self = n.self /\ b.strays = n.strays
  <2> HIDE DEF u, r, n
  <2>1. QED
    BY <1>3, <1>14, <1>15, GrantFacts
<1> HIDE DEF b
<1>17. /\ nodes' \in Seq(Nodes) /\ Len(nodes') = Len(nodes) /\ DOMAIN nodes' = DOMAIN nodes
       /\ \A j \in DOMAIN nodes : nodes'[j] = IF j = i THEN b ELSE nodes[j]
  BY <1>2, <1>3, <1>6, <1>16, TableUpdate
<1>10. \A j \in DOMAIN nodes :
         /\ c \notin OwnHolders(j) /\ c \notin OwnTrials(j)
         /\ OwnHolders(j)' = IF j = i THEN OwnHolders(j) \cup {c} ELSE OwnHolders(j)
         /\ OwnTrials(j)' = IF j = i /\ probe THEN OwnTrials(j) \cup {c} ELSE OwnTrials(j)
  <2> TAKE j \in DOMAIN nodes
  <2>1. pc[c] # "holding" /\ pc' = [pc EXCEPT ![c] = "holding"] /\ lease' = [lease EXCEPT ![c] = l]
    BY <1>7, <1>9
  <2>2. TypeOK /\ l \in Leases /\ l.at = i /\ l.probe = probe /\ l.self = nodes[i].self
    BY <1>2, <1>8
  <2>3. nodes'[j].self = nodes[j].self
    BY <1>16, <1>17
  <2> HIDE DEF n
  <2>4. /\ c \notin OwnHolders(j) /\ c \notin OwnTrials(j)
        /\ OwnHolders(j)' = IF j = l.at THEN OwnHolders(j) \cup {c} ELSE OwnHolders(j)
        /\ OwnTrials(j)' = IF j = l.at /\ l.probe THEN OwnTrials(j) \cup {c} ELSE OwnTrials(j)
    BY <2>1, <2>2, <2>3, HoldersGrow
  <2>5. QED
    BY <2>2, <2>4
<1>18. TypeOK'
  BY <1>2, <1>7, <1>8, <1>9, <1>17 DEF TypeOK
<1>19. LeasesPoint'
  BY <1>2, <1>3, <1>7, <1>8, <1>9, <1>17 DEF LeasesPoint, TypeOK
<1>20. CallsHaveAttempts'
  BY <1>2, <1>7 DEF IInv, CallsHaveAttempts, TypeOK
<1>21. Counts'
  <2> SUFFICES ASSUME NEW j \in DOMAIN nodes
               PROVE  /\ nodes'[j].inflight <= Cardinality(OwnHolders(j)')
                      /\ Cardinality(OwnHolders(j)') <= nodes'[j].inflight + nodes'[j].strays
                      /\ nodes'[j].probes <= Cardinality(OwnTrials(j)')
                      /\ Cardinality(OwnTrials(j)') <= nodes'[j].probes + nodes'[j].strays
    BY <1>17 DEF Counts
  <2>1. /\ nodes[j].inflight <= Cardinality(OwnHolders(j))
        /\ Cardinality(OwnHolders(j)) <= nodes[j].inflight + nodes[j].strays
        /\ nodes[j].probes <= Cardinality(OwnTrials(j))
        /\ Cardinality(OwnTrials(j)) <= nodes[j].probes + nodes[j].strays
    BY <1>2 DEF Counts
  <2>2. CASE j = i
    <3>1. /\ Cardinality(OwnHolders(i)') = Cardinality(OwnHolders(i)) + 1
          /\ Cardinality(OwnTrials(i)') = IF probe THEN Cardinality(OwnTrials(i)) + 1
                                                   ELSE Cardinality(OwnTrials(i))
      BY <1>3, <1>10, <1>11
    <3>2. /\ nodes'[i].inflight = n.inflight + 1 /\ nodes'[i].probes = u
          /\ nodes'[i].strays = n.strays
      BY <1>3, <1>16, <1>17
    <3>3. Cardinality(OwnHolders(i)) \in Nat /\ Cardinality(OwnTrials(i)) \in Nat
      BY <1>3, <1>11
    <3>4. QED
      BY <1>12, <2>1, <2>2, <3>1, <3>2, <3>3
  <2>3. CASE j # i
    BY <1>10, <1>17, <2>1, <2>3
  <2>4. QED
    BY <2>2, <2>3
<1>22. Limits'
  <2> SUFFICES ASSUME NEW j \in DOMAIN nodes
               PROVE  /\ nodes'[j].probes <= HalfOpenProbes
                      /\ nodes'[j].max # 0 => nodes'[j].inflight <= nodes'[j].max
    BY <1>17 DEF Limits
  <2>1. CASE j = i
    <3>1. /\ nodes'[j].inflight = n.inflight + 1 /\ nodes'[j].probes = u
          /\ nodes'[j].max = n.max
      BY <1>3, <1>16, <1>17, <2>1
    <3>2. n.probes <= HalfOpenProbes
      BY <1>2, <1>3 DEF Limits
    <3>3. QED
      BY <1>5, <1>12, <3>1, <3>2, PoolAssumption
  <2>2. CASE j # i
    BY <1>2, <1>17, <2>2 DEF Limits
  <2>3. QED
    BY <2>1, <2>2
<1>23. QueueIsBounded'
  <2>1. Cardinality(queued') <= QueueLimit
    BY <1>2, <1>7, Dequeued DEF IInv
  <2>2. \A d \in queued' : pc'[d] = "acquire" /\ wait'[d] # "none"
    BY <1>2, <1>7 DEF IInv, QueueIsBounded, TypeOK
  <2>3. QED
    BY <2>1, <2>2 DEF QueueIsBounded
<1>24. Numbered'
  <2>1. \A j \in DOMAIN nodes' : nodes'[j].self <= adds'
    BY <1>2, <1>7, <1>16, <1>17 DEF Numbered
  <2>2. \A d \in Clients : pc'[d] = "holding" => lease'[d].self <= adds'
    BY <1>2, <1>3, <1>7, <1>8, <1>9 DEF Numbered, TypeOK
  <2>3. QED
    BY <2>1, <2>2 DEF Numbered
<1>25. QED
  BY <1>18, <1>19, <1>20, <1>21, <1>22, <1>23, <1>24 DEF IInv

\* report() and a dropped lease: both counts lose one, be it this client's or, when
\* the backend of the lease is there no more, another one's, which makes a stray.
LEMMA ReportStep ==
  ASSUME IInv, NEW c \in Clients, NEW ok \in BOOLEAN, Report(c, ok)
  PROVE  IInv'
<1> SUFFICES ASSUME NEW i, i = lease[c].at PROVE IInv'
  OBVIOUS
<1> DEFINE n == nodes[i]
           b == Finished(n, lease[c], ok)
           own == lease[c].self = n.self
           over == ok \/ left[c] = 1
<1>1. TypeOK /\ LeasesPoint /\ CallsHaveAttempts /\ Counts /\ Limits /\ Numbered
  BY DEF IInv
<1>2. /\ pc[c] = "holding" /\ nodes' = [nodes EXCEPT ![i] = b]
      /\ pc' = [pc EXCEPT ![c] = IF over THEN "idle" ELSE "acquire"]
      /\ tried' = [tried EXCEPT ![c] = IF over THEN {} ELSE tried[c] \cup {i}]
      /\ left' = [left EXCEPT ![c] = IF over THEN 0 ELSE left[c] - 1]
      /\ wait' = [wait EXCEPT ![c] = NextWait(wait[c], over)]
      /\ again' = [again EXCEPT ![c] = FALSE]
      /\ lease' = [lease EXCEPT ![c] = IF pc'[c] = "idle" THEN NoLease ELSE [NoLease EXCEPT !.at = i]]
      /\ UNCHANGED <<adds, queued, todo>>
  BY DEF Report
<1>3. i \in DOMAIN nodes /\ n \in Nodes /\ i \in 1..MaxNodes
  BY <1>1, <1>2, Table DEF LeasesPoint
<1>4. lease[c] \in Leases /\ lease[c].probe \in BOOLEAN
  BY <1>1 DEF TypeOK, Leases
<1>5. /\ b \in Nodes /\ b.max = n.max /\ b.self = n.self /\ b.inflight = Less(n.inflight)
      /\ b.probes = IF lease[c].probe THEN Less(n.probes) ELSE n.probes
      /\ b.strays = IF own THEN n.strays ELSE n.strays + 1
  <2>1. n \in Nodes /\ ok \in BOOLEAN
    BY <1>3
  <2> HIDE DEF n
  <2>2. QED
    BY <1>4, <2>1, FinishedFacts
<1>6. left[c] \in 1..Attempts /\ over \in BOOLEAN
  BY <1>1, <1>2 DEF TypeOK, CallsHaveAttempts
<1> HIDE DEF b
<1>7. /\ nodes' \in Seq(Nodes) /\ Len(nodes') = Len(nodes) /\ DOMAIN nodes' = DOMAIN nodes
      /\ \A j \in DOMAIN nodes : nodes'[j] = IF j = i THEN b ELSE nodes[j]
  BY <1>1, <1>2, <1>3, <1>5, TableUpdate
<1>8. /\ pc'[c] # "holding" /\ (pc'[c] # "idle" => ~over)
      /\ \A d \in Clients \ {c} : pc'[d] = pc[d] /\ lease'[d] = lease[d]
  BY <1>1, <1>2 DEF TypeOK
<1>9. \A j \in DOMAIN nodes :
        /\ OwnHolders(j)' = OwnHolders(j) \ {c} /\ OwnTrials(j)' = OwnTrials(j) \ {c}
        /\ c \in OwnHolders(j) <=> j = i /\ own
        /\ c \in OwnTrials(j) <=> j = i /\ own /\ lease[c].probe
  <2> TAKE j \in DOMAIN nodes
  <2>1. nodes'[j].self = nodes[j].self
    BY <1>5, <1>7
  <2>2. /\ OwnHolders(j)' = OwnHolders(j) \ {c} /\ OwnTrials(j)' = OwnTrials(j) \ {c}
        /\ c \in OwnHolders(j) <=> j = lease[c].at /\ lease[c].self = nodes[j].self
        /\ c \in OwnTrials(j) <=> c \in OwnHolders(j) /\ lease[c].probe
    BY <1>2, <1>8, <2>1, HoldersShrink
  <2>3. QED
    BY <2>2
<1>10. TypeOK'
  <2>1. NextWait(wait[c], over) \in {"none", "until", "past"}
    BY <1>1 DEF NextWait, TypeOK
  <2>2. (IF over THEN 0 ELSE left[c] - 1) \in 0..Attempts
    BY <1>6, PoolAssumption
  <2>3. NoLease \in Leases /\ [NoLease EXCEPT !.at = i] \in Leases
    <3>1. i \in 0..MaxNodes /\ 0 \in 0..MaxNodes /\ 0 \in 0..MaxAdds
      BY <1>3, PoolAssumption
    <3>2. QED
      BY <3>1 DEF NoLease, Leases
  <2>4. tried[c] \cup {i} \in SUBSET (1..MaxNodes)
    BY <1>1, <1>3 DEF TypeOK
  <2> HIDE DEF over
  <2>5. pc' \in [Clients -> {"idle", "acquire", "holding"}] /\ again' \in [Clients -> BOOLEAN]
    BY <1>1, <1>2 DEF TypeOK
  <2>6. left' \in [Clients -> 0..Attempts] /\ wait' \in [Clients -> {"none", "until", "past"}]
    BY <1>1, <1>2, <2>1, <2>2 DEF TypeOK
  <2>7. lease' \in [Clients -> Leases]
    BY <1>1, <1>2, <2>3 DEF TypeOK
  <2>8. tried' \in [Clients -> SUBSET (1..MaxNodes)]
    BY <1>1, <1>2, <2>4 DEF TypeOK
  <2>9. QED
    BY <1>1, <1>2, <1>7, <2>5, <2>6, <2>7, <2>8 DEF TypeOK
<1>11. LeasesPoint'
  BY <1>1, <1>7, <1>8 DEF LeasesPoint
<1>12. CallsHaveAttempts'
  <2>1. pc'[c] # "idle" => left'[c] >= 1
    BY <1>1, <1>2, <1>6, <1>8 DEF TypeOK
  <2>2. \A d \in Clients \ {c} : left'[d] = left[d]
    BY <1>1, <1>2 DEF TypeOK
  <2>3. QED
    BY <1>1, <1>8, <2>1, <2>2 DEF CallsHaveAttempts
<1>13. \A j \in DOMAIN nodes :
         /\ Cardinality(OwnHolders(j)) \in Nat /\ Cardinality(OwnTrials(j)) \in Nat
         /\ Cardinality(OwnHolders(j)') \in Nat /\ Cardinality(OwnTrials(j)') \in Nat
         /\ Cardinality(OwnHolders(j)') = Cardinality(OwnHolders(j))
                                          - (IF j = i /\ own THEN 1 ELSE 0)
         /\ Cardinality(OwnTrials(j)') = Cardinality(OwnTrials(j))
                                         - (IF j = i /\ own /\ lease[c].probe THEN 1 ELSE 0)
  <2> TAKE j \in DOMAIN nodes
  <2>1. /\ IsFiniteSet(OwnHolders(j)) /\ IsFiniteSet(OwnTrials(j))
        /\ Cardinality(OwnHolders(j)) \in Nat /\ Cardinality(OwnTrials(j)) \in Nat
    BY HoldersFinite
  <2>2. /\ Cardinality(OwnHolders(j) \ {c}) = IF c \in OwnHolders(j)
                                              THEN Cardinality(OwnHolders(j)) - 1
                                              ELSE Cardinality(OwnHolders(j))
        /\ Cardinality(OwnTrials(j) \ {c}) = IF c \in OwnTrials(j)
                                             THEN Cardinality(OwnTrials(j)) - 1
                                             ELSE Cardinality(OwnTrials(j))
    BY <2>1, FS_RemoveElement
  <2>3. /\ c \in OwnHolders(j) <=> j = i /\ own
        /\ c \in OwnTrials(j) <=> j = i /\ own /\ lease[c].probe
        /\ OwnHolders(j)' = OwnHolders(j) \ {c} /\ OwnTrials(j)' = OwnTrials(j) \ {c}
    BY <1>9
  <2>4. /\ OwnHolders(j) \ {c} \in SUBSET OwnHolders(j)
        /\ OwnTrials(j) \ {c} \in SUBSET OwnTrials(j)
    OBVIOUS
  <2>5. IsFiniteSet(OwnHolders(j) \ {c}) /\ IsFiniteSet(OwnTrials(j) \ {c})
    BY <2>1, <2>4, FS_Subset
  <2>6. Cardinality(OwnHolders(j) \ {c}) \in Nat /\ Cardinality(OwnTrials(j) \ {c}) \in Nat
    BY <2>5, FS_CardinalityType
  <2> HIDE DEF own
  <2>7. QED
    BY <1>4, <2>1, <2>2, <2>3, <2>6
<1>15. n.inflight \in Nat /\ n.probes \in Nat /\ n.max \in Nat /\ n.strays \in Nat
  BY <1>3, Ranges
<1>16. /\ nodes'[i].max = n.max /\ nodes'[i].inflight = Less(n.inflight)
       /\ nodes'[i].probes = IF lease[c].probe THEN Less(n.probes) ELSE n.probes
       /\ nodes'[i].strays = IF own THEN n.strays ELSE n.strays + 1
  BY <1>3, <1>5, <1>7
<1>17. Counts'
  <2> SUFFICES ASSUME NEW j \in DOMAIN nodes
               PROVE  /\ nodes'[j].inflight <= Cardinality(OwnHolders(j)')
                      /\ Cardinality(OwnHolders(j)') <= nodes'[j].inflight + nodes'[j].strays
                      /\ nodes'[j].probes <= Cardinality(OwnTrials(j)')
                      /\ Cardinality(OwnTrials(j)') <= nodes'[j].probes + nodes'[j].strays
    BY <1>7 DEF Counts
  <2>1. /\ nodes[j].inflight <= Cardinality(OwnHolders(j))
        /\ Cardinality(OwnHolders(j)) <= nodes[j].inflight + nodes[j].strays
        /\ nodes[j].probes <= Cardinality(OwnTrials(j))
        /\ Cardinality(OwnTrials(j)) <= nodes[j].probes + nodes[j].strays
    BY <1>1 DEF Counts
  <2>2. CASE j = i
    <3>1. PICK hi, pr, ho, pt : /\ hi = Cardinality(OwnHolders(i)') /\ pr = Cardinality(OwnTrials(i)')
                                /\ ho = Cardinality(OwnHolders(i)) /\ pt = Cardinality(OwnTrials(i))
      OBVIOUS
    <3>2. /\ hi \in Nat /\ pr \in Nat /\ ho \in Nat /\ pt \in Nat
          /\ hi = ho - (IF own THEN 1 ELSE 0)
          /\ pr = pt - (IF own /\ lease[c].probe THEN 1 ELSE 0)
      BY <1>3, <1>13, <3>1
    <3>3. /\ n.inflight <= ho /\ ho <= n.inflight + n.strays
          /\ n.probes <= pt /\ pt <= n.probes + n.strays
      BY <2>1, <2>2, <3>1
    <3>4. own \in BOOLEAN
      OBVIOUS
    <3> HIDE DEF own, n
    <3>5. nodes'[i].inflight <= hi /\ hi <= nodes'[i].inflight + nodes'[i].strays
      BY <1>15, <1>16, <3>2, <3>3, <3>4 DEF Less
    <3>6. nodes'[i].probes <= pr /\ pr <= nodes'[i].probes + nodes'[i].strays
      BY <1>4, <1>15, <1>16, <3>2, <3>3, <3>4 DEF Less
    <3>7. QED
      BY <2>2, <3>1, <3>5, <3>6
  <2>3. CASE j # i
    BY <1>7, <1>13, <2>1, <2>3
  <2>4. QED
    BY <2>2, <2>3
<1>18. Limits'
  <2> SUFFICES ASSUME NEW j \in DOMAIN nodes
               PROVE  /\ nodes'[j].probes <= HalfOpenProbes
                      /\ nodes'[j].max # 0 => nodes'[j].inflight <= nodes'[j].max
    BY <1>7 DEF Limits
  <2>1. /\ nodes[j].probes <= HalfOpenProbes
        /\ nodes[j].max # 0 => nodes[j].inflight <= nodes[j].max
    BY <1>1 DEF Limits
  <2>2. CASE j = i
    BY <1>15, <1>16, <2>1, <2>2, PoolAssumption DEF Less
  <2>3. CASE j # i
    BY <1>7, <2>1, <2>3
  <2>4. QED
    BY <2>2, <2>3
<1>19. QueueIsBounded'
  <2>1. \A d \in queued : pc'[d] = "acquire" /\ wait'[d] # "none"
    BY <1>1, <1>2 DEF IInv, QueueIsBounded, TypeOK
  <2>2. QED
    BY <1>2, <2>1 DEF IInv, QueueIsBounded
<1>20. Numbered'
  BY <1>1, <1>2, <1>5, <1>7, <1>8 DEF Numbered
<1>21. QED
  BY <1>10, <1>11, <1>12, <1>17, <1>18, <1>19, <1>20 DEF IInv

-----------------------------------------------------------------------------
(* The theorems *)

\* The empty pool satisfies the invariant.
LEMMA InitInv == Init => IInv
<1> SUFFICES ASSUME Init PROVE IInv
  OBVIOUS
<1>1. nodes = <<>> /\ nodes \in Seq(Nodes) /\ Len(nodes) = 0 /\ DOMAIN nodes = {}
  BY EmptySeq DEF Init
<1>2. NoLease \in Leases /\ 0 \in 0..MaxAdds /\ 0 \in 0..Attempts /\ 0 <= MaxNodes
  BY PoolAssumption DEF NoLease, Leases
<1>3. TypeOK
  BY <1>1, <1>2 DEF Init, TypeOK
<1>4. LeasesPoint /\ CallsHaveAttempts /\ Numbered
  BY <1>1 DEF Init, LeasesPoint, CallsHaveAttempts, Numbered
<1>5. Counts /\ Limits
  BY <1>1 DEF Counts, Limits
<1>6. QueueIsBounded
  BY FS_EmptySet, PoolAssumption DEF Init, QueueIsBounded
<1>7. QED
  BY <1>3, <1>4, <1>5, <1>6 DEF IInv

\* Every step keeps it.
LEMMA StepInv == IInv /\ [Next]_vars => IInv'
<1> SUFFICES ASSUME IInv, [Next]_vars PROVE IInv'
  OBVIOUS
<1>1. CASE \E id \in Ids, w \in Weights : SetWeight(id, w) \/ \E m \in Caps : Add(id, w, m)
  BY <1>1, SetWeightStep, AddStep
<1>2. CASE \E id \in Ids : Remove(id) \/ \E h \in Marks : SetHealthy(id, h)
  BY <1>2, RemoveStep, SetHealthyStep
<1>3. CASE \E h \in Checkers : StartChecks(h) \/ \E ok \in BOOLEAN : Check(h, ok)
  BY <1>3, StartChecksStep, CheckStep
<1>4. CASE \E i \in DOMAIN nodes : Elapse(i)
  BY <1>4, ElapseStep
<1>5. CASE \E c \in Clients : ClientStep(c)
  BY <1>5, CallStep, ExpireStep, GrantStep, RefuseStep, EnqueueStep, ReportStep DEF ClientStep
<1>6. CASE UNCHANGED vars
  <2>1. /\ UNCHANGED <<adds, clients>> /\ nodes' = nodes /\ todo' = todo /\ TypeOK
    BY <1>6 DEF vars, clients, IInv
  <2>2. /\ nodes' \in Seq(Nodes) /\ Len(nodes') = Len(nodes) /\ DOMAIN nodes' = DOMAIN nodes
        /\ \A i \in DOMAIN nodes : Kept(nodes'[i], nodes[i])
        /\ todo' \in [Checkers -> SUBSET (1..MaxNodes)]
    BY <2>1 DEF TypeOK, Kept
  <2>3. QED
    BY <2>1, <2>2, FrameStep
<1>7. QED
  BY <1>1, <1>2, <1>3, <1>4, <1>5, <1>6 DEF Next

\* It holds in every reachable state.
THEOREM Inductive == Spec => []IInv
BY InitInv, StepInv, PTL DEF Spec

\* Every reachable state of the pool is of its type: in particular no count goes
\* below zero or over the number of clients, and no call has attempts to spare.
THEOREM PoolTypeCorrect == Spec => []TypeOK
<1>1. IInv => TypeOK
  BY DEF IInv
<1>2. QED
  BY <1>1, Inductive, PTL

\* waiting_ never exceeds queue_limit, and counts clients inside acquire only,
\* however the waits end: with a lease, without one, or at their deadline.
THEOREM QueueBound == Spec => []QueueIsBounded
<1>1. IInv => QueueIsBounded
  BY DEF IInv
<1>2. QED
  BY <1>1, Inductive, PTL

\* inflight is the number of leases out on the backend, short of it by at most one
\* for each lease of a former self that was given back on it ...
THEOREM InflightIsExact == Spec => []InflightCountsLeases
<1>1. IInv => InflightCountsLeases
  BY DEF IInv, Counts, InflightCountsLeases
<1>2. QED
  BY <1>1, Inductive, PTL

\* ... a half-open backend carries at most half_open_probes trials, and one more for
\* each of those leases ...
THEOREM TrialLimit == Spec => []TrialsAreLimited
<1>1. IInv => TrialsAreLimited
  <2> SUFFICES ASSUME IInv, NEW i \in DOMAIN nodes
               PROVE  Cardinality(OwnTrials(i)) <= HalfOpenProbes + nodes[i].strays
    BY DEF TrialsAreLimited
  <2>1. /\ Cardinality(OwnTrials(i)) <= nodes[i].probes + nodes[i].strays
        /\ nodes[i].probes <= HalfOpenProbes
    BY DEF IInv, Counts, Limits
  <2>2. /\ nodes[i].probes \in Nat /\ nodes[i].strays \in Nat /\ HalfOpenProbes \in Nat
        /\ Cardinality(OwnTrials(i)) \in Nat
    BY Table, Ranges, HoldersFinite, PoolAssumption DEF IInv
  <2>3. QED
    BY <2>1, <2>2
<1>2. QED
  BY <1>1, Inductive, PTL

\* ... and a backend never has more leases out than its max_inflight, but for one
\* more for each of those.
THEOREM CapRespected == Spec => []ConcurrencyLimit
<1>1. IInv => ConcurrencyLimit
  <2> SUFFICES ASSUME IInv, NEW i \in DOMAIN nodes, nodes[i].max # 0
               PROVE  Cardinality(OwnHolders(i)) <= nodes[i].max + nodes[i].strays
    BY DEF ConcurrencyLimit
  <2>1. /\ Cardinality(OwnHolders(i)) <= nodes[i].inflight + nodes[i].strays
        /\ nodes[i].inflight <= nodes[i].max
    BY DEF IInv, Counts, Limits
  <2>2. /\ nodes[i].inflight \in Nat /\ nodes[i].strays \in Nat /\ nodes[i].max \in Nat
        /\ Cardinality(OwnHolders(i)) \in Nat
    BY Table, Ranges, HoldersFinite DEF IInv
  <2>3. QED
    BY <2>1, <2>2
<1>2. QED
  BY <1>1, Inductive, PTL

\* Together: what is granted is counted and stays within the backend's limits, but
\* for the places that leases of a former self took off it.
THEOREM LimitsAreKept == Spec => []LimitsHold
<1>1. InflightCountsLeases /\ TrialsAreLimited /\ ConcurrencyLimit => LimitsHold
  BY DEF LimitsHold
<1>2. QED
  BY <1>1, InflightIsExact, TrialLimit, CapRespected, PTL

\* Together: no count leaves its range on any way out of acquire, the wait queue is
\* bounded, and the counts say what is out but for those places.
THEOREM PoolIsSound == Spec => []PoolInv
<1>1. TypeOK /\ QueueIsBounded /\ LimitsHold => PoolInv
  BY DEF PoolInv
<1>2. QED
  BY <1>1, PoolTypeCorrect, QueueBound, LimitsAreKept, PTL

-----------------------------------------------------------------------------
(* Retries *)

\* A client between calls has no lease behind it, and one that is in acquire after
\* a failed attempt has that backend among the tried ones, or has just forgotten
\* them all.
FailedIsTried ==
  \A c \in Clients :
    /\ pc[c] = "idle" => lease[c].at = 0
    /\ pc[c] = "acquire" => again[c] \/ lease[c].at = 0 \/ lease[c].at \in tried[c]

LEMMA FailedIsTriedInit == Init => FailedIsTried
BY DEF Init, FailedIsTried, NoLease

\* Every way into acquire, and every way around inside it, keeps that.
LEMMA FailedIsTriedStep ==
  ASSUME TypeOK, FailedIsTried, [Next]_vars
  PROVE  FailedIsTried'
<1>1. CASE UNCHANGED clients
  BY <1>1 DEF clients, FailedIsTried
<1>2. ASSUME NEW c \in Clients, ClientStep(c) PROVE FailedIsTried'
  <2> SUFFICES ASSUME NEW d \in Clients
               PROVE  /\ pc'[d] = "idle" => lease'[d].at = 0
                      /\ pc'[d] = "acquire" =>
                           again'[d] \/ lease'[d].at = 0 \/ lease'[d].at \in tried'[d]
    BY DEF FailedIsTried
  <2>1. /\ pc[d] = "idle" => lease[d].at = 0
        /\ pc[d] = "acquire" => again[d] \/ lease[d].at = 0 \/ lease[d].at \in tried[d]
    BY DEF FailedIsTried
  <2>2. CASE \E n \in 1..Attempts, w \in {"none", "until"} : Call(c, n, w)
    BY <2>1, <2>2 DEF Call, TypeOK
  <2>3. CASE Expire(c) \/ Enqueue(c)
    BY <2>1, <2>3 DEF Expire, Enqueue
  <2>4. CASE Grant(c)
    BY <2>1, <2>4 DEF Grant, TypeOK
  <2>5. CASE Refuse(c)
    BY <2>1, <2>5 DEF Refuse, TypeOK, NoLease
  <2>6. ASSUME NEW ok \in BOOLEAN, Report(c, ok)
        PROVE  /\ pc'[d] = "idle" => lease'[d].at = 0
               /\ pc'[d] = "acquire" =>
                    again'[d] \/ lease'[d].at = 0 \/ lease'[d].at \in tried'[d]
    BY <2>1, <2>6 DEF Report, TypeOK, NoLease
  <2>7. QED
    BY <1>2, <2>2, <2>3, <2>4, <2>5, <2>6 DEF ClientStep
<1>3. CASE Next
  BY <1>1, <1>2, <1>3 DEF Next, SetWeight, Add, Remove, SetHealthy, StartChecks, Check, Elapse
<1>4. QED
  BY <1>1, <1>3 DEF vars, clients

\* Only Grant gives a lease, and never one on a backend that was tried.
LEMMA GrantIsElsewhere ==
  ASSUME TypeOK, FailedIsTried, Next, NEW c \in Clients,
         Granted(c), lease'[c].at = lease[c].at
  PROVE  again[c]
<1>1. pc' # pc
  BY DEF Granted
<1>2. PICK d \in Clients : ClientStep(d)
  BY <1>1 DEF Next, SetWeight, Add, Remove, SetHealthy, StartChecks, Check, Elapse, clients
<1>3. Grant(c)
  <2>1. CASE \E n \in 1..Attempts, w \in {"none", "until"} : Call(d, n, w)
    BY <2>1 DEF Call, Granted, TypeOK
  <2>2. CASE Expire(d) \/ Enqueue(d)
    BY <1>1, <2>2 DEF Expire, Enqueue
  <2>3. CASE Grant(d)
    BY <2>3 DEF Grant, Granted, TypeOK
  <2>4. CASE Refuse(d)
    BY <2>4 DEF Refuse, Granted, TypeOK
  <2>5. ASSUME NEW ok \in BOOLEAN, Report(d, ok) PROVE FALSE
    BY <2>5 DEF Report, Granted, TypeOK
  <2>6. QED
    BY <1>2, <2>1, <2>2, <2>3, <2>4, <2>5 DEF ClientStep
<1>4. PICK i \in Candidates(c) : lease'[c].at = i
  BY <1>3 DEF Grant, TypeOK
<1>5. i # 0 /\ i \notin tried[c]
  BY <1>4 DEF Candidates, TypeOK
<1>6. QED
  BY <1>4, <1>5 DEF FailedIsTried, Granted

\* A call that failed on a backend takes another one if there is any: call() goes
\* back to it only in the acquire that follows tried.clear(), whatever was
\* added, removed or put back in between.
THEOREM RetryGoesElsewhere == Spec => RetriesElsewhere
<1>1. IInv /\ FailedIsTried /\ [Next]_vars => FailedIsTried'
  BY FailedIsTriedStep DEF IInv
<1>2. IInv /\ FailedIsTried /\ [Next]_vars =>
        [\A c \in Clients : Granted(c) /\ lease'[c].at = lease[c].at => again[c]]_vars
  BY GrantIsElsewhere DEF IInv
<1>3. QED
  BY <1>1, <1>2, FailedIsTriedInit, Inductive, PTL DEF Spec, RetriesElsewhere

-----------------------------------------------------------------------------
(* The pool keeps the book of its leases *)

\* Backends in the table were made by different calls of add, and the backend a
\* lease was given for is at the lease's index if it is anywhere.
SelfsApart ==
  /\ \A i \in DOMAIN nodes : nodes[i].self <= adds
  /\ \A i, j \in DOMAIN nodes : nodes[i].self = nodes[j].self => i = j
LeasesName ==
  \A c \in Clients : pc[c] = "holding" =>
    /\ lease[c].self # 0
    /\ \A i \in DOMAIN nodes : nodes[i].self = lease[c].self => i = lease[c].at

BookInv == SelfsApart /\ LeasesName

\* What the book knows of a backend is the same.
SameName(b, n) == /\ b.self = n.self /\ b.max = n.max /\ b.removed = n.removed
                  /\ b.strays = n.strays
HasName(n) == {"self", "max", "removed", "strays"} \subseteq DOMAIN n

\* A backend has what the book knows of it.
LEMMA NodesHaveNames == ASSUME NEW n \in Nodes PROVE HasName(n)
BY DEF Nodes, HasName

\* Health marks do not touch it,
LEMMA CheckedName ==
  ASSUME NEW n, HasName(n), NEW ok \in BOOLEAN
  PROVE  SameName(Checked(n, ok), n)
<1> DEFINE k == IF n.healthy THEN n.hcOk ELSE n.hcOk + 1
           l == IF n.healthy THEN n.hcBad + 1 ELSE n.hcBad
<1>1. \/ Checked(n, ok) = [n EXCEPT !.hcBad = 0, !.healthy = TRUE, !.hcOk = 0]
      \/ Checked(n, ok) = [n EXCEPT !.hcBad = 0, !.hcOk = k]
      \/ Checked(n, ok) = [n EXCEPT !.hcOk = 0, !.healthy = FALSE, !.hcBad = 0]
      \/ Checked(n, ok) = [n EXCEPT !.hcOk = 0, !.hcBad = l]
  BY DEF Checked
<1> HIDE DEF k, l
<1>2. QED
  BY <1>1 DEF HasName, SameName

\* and what finish_ does to the counts, the circuit and the window may only count
\* a stray.
LEMMA FinishedName ==
  ASSUME NEW n, HasName(n), NEW l, NEW ok
  PROVE  LET f == Finished(n, l, ok) IN
         /\ f.self = n.self /\ f.max = n.max /\ f.removed = n.removed
         /\ f.strays = IF l.self # n.self THEN n.strays + 1 ELSE n.strays
<1> DEFINE r == Released(n, l, ok)
           o == Outcome(r, ok)
           w == Recorded(o, ok)
<1>1. /\ HasName(r) /\ r.self = n.self /\ r.max = n.max /\ r.removed = n.removed
      /\ r.strays = IF l.self # n.self THEN n.strays + 1 ELSE n.strays
  BY DEF Released, HasName
<1>2. HasName(o) /\ SameName(o, r)
  <2> HIDE DEF r
  <2>1. QED
    BY <1>1 DEF Outcome, HasName, SameName
<1>3. HasName(w) /\ SameName(w, o)
  <2> HIDE DEF o
  <2>1. QED
    BY <1>2 DEF Recorded, HasName, SameName
<1>4. SameName(Tripped(w), w)
  <2> HIDE DEF w
  <2>1. QED
    BY <1>3 DEF Tripped, HasName, SameName
<1>5. Finished(n, l, ok) = Tripped(w)
  BY DEF Finished
<1>6. QED
  <2> HIDE DEF r, o, w
  <2>1. QED
    BY <1>1, <1>2, <1>3, <1>4, <1>5 DEF SameName

\* The offer a backend makes.
OfferOf(n) == [name |-> n.self, limit |-> n.max, strays |-> n.strays]

\* The same backends, under the same names.
SameNames == /\ DOMAIN nodes' = DOMAIN nodes
             /\ \A i \in DOMAIN nodes : SameName(nodes'[i], nodes[i])

LEMMA NameUpdate ==
  ASSUME NEW i \in DOMAIN nodes, NEW b, SameName(b, nodes[i]), nodes' = [nodes EXCEPT ![i] = b]
  PROVE  SameNames
BY DEF SameNames, SameName

\* Then the offers are the same,
LEMMA OffersSame == ASSUME SameNames PROVE Offers' = Offers
BY DEF SameNames, SameName, Offers

\* and so is the rest of the book if the leases are.
LEMMA BookFrame ==
  ASSUME BookInv, LeasesPoint, UNCHANGED <<adds, clients>>, SameNames
  PROVE  BookInv' /\ UNCHANGED Book!vars
<1>1. pc' = pc /\ lease' = lease /\ adds' = adds
  BY DEF clients
<1>2. Loans' = Loans
  BY <1>1 DEF Loans
<1>3. UNCHANGED Book!vars
  BY <1>1, <1>2, OffersSame DEF Book!vars
<1>4. SelfsApart'
  BY <1>1 DEF BookInv, SelfsApart, SameNames, SameName
<1>5. LeasesName'
  BY <1>1 DEF BookInv, LeasesName, LeasesPoint, SameNames, SameName
<1>6. QED
  BY <1>3, <1>4, <1>5 DEF BookInv

\* A client that holds nothing, before and after, has nothing in the book.
LEMMA BookQuiet ==
  ASSUME BookInv, NEW c \in Clients, UNCHANGED <<nodes, adds>>,
         pc[c] # "holding", pc'[c] # "holding",
         \A d \in Clients \ {c} : pc'[d] = pc[d] /\ lease'[d] = lease[d]
  PROVE  BookInv' /\ UNCHANGED Book!vars
<1>1. Loans' = Loans
  BY DEF Loans
<1>2. Offers' = Offers
  BY DEF Offers
<1>3. UNCHANGED Book!vars
  BY <1>1, <1>2 DEF Book!vars
<1>4. SelfsApart'
  BY DEF BookInv, SelfsApart
<1>5. LeasesName'
  BY DEF BookInv, LeasesName
<1>6. QED
  BY <1>3, <1>4, <1>5 DEF BookInv

\* set_weight, set_healthy, a health check and the clock keep every name.
LEMMA SetWeightName ==
  ASSUME IInv, NEW id \in Ids, NEW w \in Weights, SetWeight(id, w)
  PROVE  SameNames /\ UNCHANGED <<adds, clients>>
<1> DEFINE i == First(WithId(id))
<1>1. TypeOK
  BY DEF IInv
<1>2. WithId(id) \in SUBSET Nat /\ WithId(id) # {} /\ WithId(id) \in SUBSET (DOMAIN nodes)
  BY <1>1, Table DEF WithId, SetWeight
<1>3. i \in DOMAIN nodes
  BY <1>2, FirstIsLeast
<1>4. nodes' = [nodes EXCEPT ![i] = WithWeight(nodes[i], w)]
  BY DEF SetWeight, WithWeight
<1>5. HasName(nodes[i])
  BY <1>1, <1>3, Table, NodesHaveNames
<1> HIDE DEF i
<1>6. SameName(WithWeight(nodes[i], w), nodes[i])
  BY <1>5 DEF WithWeight, HasName, SameName
<1>7. SameNames
  BY <1>3, <1>4, <1>6, NameUpdate
<1>8. QED
  BY <1>7 DEF SetWeight

LEMMA SetHealthyName ==
  ASSUME IInv, NEW id \in Ids, NEW h \in Marks, SetHealthy(id, h)
  PROVE  SameNames /\ UNCHANGED <<adds, clients>>
<1>1. TypeOK
  BY DEF IInv
<1>2. nodes' = [i \in DOMAIN nodes |-> IF nodes[i].id = id THEN WithMarks(nodes[i], h, 0, 0)
                                                            ELSE nodes[i]]
  BY DEF SetHealthy, WithMarks
<1>3. \A i \in DOMAIN nodes : HasName(nodes[i])
  BY <1>1, Table, NodesHaveNames
<1>4. \A i \in DOMAIN nodes : SameName(WithMarks(nodes[i], h, 0, 0), nodes[i])
  BY <1>3 DEF WithMarks, HasName, SameName
<1>5. \A i \in DOMAIN nodes : SameName(nodes[i], nodes[i])
  BY DEF SameName
<1>6. SameNames
  BY <1>2, <1>4, <1>5 DEF SameNames
<1>7. UNCHANGED <<adds, clients>>
  BY DEF SetHealthy
<1>8. QED
  BY <1>6, <1>7

LEMMA CheckName ==
  ASSUME IInv, NEW h \in Checkers, NEW ok \in BOOLEAN, Check(h, ok)
  PROVE  SameNames /\ UNCHANGED <<adds, clients>>
<1> DEFINE i == First(todo[h])
<1>1. TypeOK
  BY DEF IInv
<1>2. nodes' = [nodes EXCEPT ![i] = Checked(nodes[i], ok)]
  BY DEF Check
<1>3. \A j \in DOMAIN nodes : SameName(nodes[j], nodes[j])
  BY DEF SameName
<1> HIDE DEF i
<1>4. CASE i \in DOMAIN nodes
  <2>1. HasName(nodes[i])
    BY <1>1, <1>4, Table, NodesHaveNames
  <2>2. SameName(Checked(nodes[i], ok), nodes[i])
    BY <2>1, CheckedName
  <2>3. SameNames
    BY <1>2, <1>4, <2>2, NameUpdate
  <2>4. QED
    BY <2>3 DEF Check
<1>5. CASE i \notin DOMAIN nodes
  <2>1. DOMAIN nodes' = DOMAIN nodes /\ \A j \in DOMAIN nodes : nodes'[j] = nodes[j]
    BY <1>2, <1>5
  <2>2. SameNames
    BY <1>3, <2>1 DEF SameNames
  <2>3. QED
    BY <2>2 DEF Check
<1>6. QED
  BY <1>4, <1>5

LEMMA ElapseName ==
  ASSUME IInv, NEW i \in DOMAIN nodes, Elapse(i)
  PROVE  SameNames /\ UNCHANGED <<adds, clients>>
<1>1. HasName(nodes[i])
  BY Table, NodesHaveNames DEF IInv
<1>2. nodes' = [nodes EXCEPT ![i] = WithCircuit(nodes[i], "half_open")]
  BY DEF Elapse, WithCircuit
<1>3. SameName(WithCircuit(nodes[i], "half_open"), nodes[i])
  BY <1>1 DEF WithCircuit, HasName, SameName
<1>4. SameNames
  BY <1>2, <1>3, NameUpdate
<1>5. QED
  BY <1>4 DEF Elapse

\* A removal withdraws the offer of that backend and of no other, since no other
\* has its number.
LEMMA RemoveBook ==
  ASSUME IInv, BookInv, NEW id \in Ids, Remove(id)
  PROVE  BookInv' /\ Book!Next
<1> DEFINE here == {i \in WithId(id) : ~nodes[i].removed}
<1>1. TypeOK /\ LeasesPoint
  BY DEF IInv
<1>2. here \in SUBSET Nat /\ here # {} /\ here \in SUBSET (DOMAIN nodes)
  BY <1>1, Table DEF WithId, Remove
<1>3. PICK k : k = First(here)
  OBVIOUS
<1>4. k \in here /\ k \in DOMAIN nodes
  BY <1>2, <1>3, FirstIsLeast
<1>5. nodes' = [nodes EXCEPT ![k] = WithRemoved(nodes[k])]
  BY <1>3 DEF Remove, WithRemoved
<1>6. ~nodes[k].removed
  BY <1>4
<1>7. pc' = pc /\ lease' = lease /\ adds' = adds
  BY DEF Remove, clients
<1>8. HasName(nodes[k])
  BY <1>1, <1>4, Table, NodesHaveNames
<1> HIDE DEF here
<1>9. LET b == WithRemoved(nodes[k]) IN b.self = nodes[k].self /\ b.removed
  BY <1>8 DEF WithRemoved, HasName
<1>10. /\ DOMAIN nodes' = DOMAIN nodes
       /\ \A j \in DOMAIN nodes : nodes'[j].self = nodes[j].self
       /\ \A j \in DOMAIN nodes \ {k} : nodes'[j] = nodes[j]
       /\ nodes'[k].removed
  BY <1>4, <1>5, <1>9
<1>11. SelfsApart'
  BY <1>7, <1>10 DEF BookInv, SelfsApart
<1>12. LeasesName'
  BY <1>1, <1>7, <1>10 DEF BookInv, LeasesName, LeasesPoint
<1>13. PICK o : o = OfferOf(nodes[k])
  OBVIOUS
<1>14. o \in Offers
  BY <1>4, <1>6, <1>13 DEF Offers, OfferOf
<1>15. Offers' = Offers \ {o}
  <2>1. \A x \in Offers' : x \in Offers /\ x # o
    <3> SUFFICES ASSUME NEW j \in DOMAIN nodes', ~nodes'[j].removed
                 PROVE  LET x == OfferOf(nodes'[j]) IN
                        x \in Offers /\ x # o
      BY DEF Offers, OfferOf
    <3>1. j \in DOMAIN nodes /\ j # k /\ nodes'[j] = nodes[j]
      BY <1>10
    <3>2. nodes[j].self # nodes[k].self
      BY <1>4, <3>1 DEF BookInv, SelfsApart
    <3>3. QED
      BY <1>13, <3>1, <3>2 DEF Offers, OfferOf
  <2>2. \A x \in Offers : x # o => x \in Offers'
    <3> SUFFICES ASSUME NEW j \in DOMAIN nodes, ~nodes[j].removed,
                        OfferOf(nodes[j]) # o
                 PROVE  OfferOf(nodes[j]) \in Offers'
      BY DEF Offers, OfferOf
    <3>1. j # k
      BY <1>13
    <3>2. nodes'[j] = nodes[j] /\ j \in DOMAIN nodes'
      BY <1>10, <3>1
    <3>3. QED
      BY <3>2 DEF Offers, OfferOf
  <2>3. QED
    BY <2>1, <2>2
<1>16. Loans' = Loans
  BY <1>7 DEF Loans
<1>17. Book!Withdraw(o)
  BY <1>7, <1>15, <1>16 DEF Book!Withdraw
<1>18. QED
  BY <1>11, <1>12, <1>14, <1>17 DEF BookInv, Book!Next

\* add() makes a new offer, under a number none has had, no lease either: in the place
\* of an entry that was on offer no more, or at the end of the table.
LEMMA AddBook ==
  ASSUME IInv, BookInv, NEW id \in Ids, NEW w \in Weights, NEW m \in Caps, Add(id, w, m)
  PROVE  BookInv' /\ Book!Next
<1> DEFINE old == {i \in WithId(id) : nodes[i].removed}
<1>1. TypeOK /\ LeasesPoint /\ adds \in Nat
  BY PoolAssumption DEF IInv, TypeOK
<1>2. adds' = adds + 1 /\ pc' = pc /\ lease' = lease
  BY DEF Add, clients
<1>3. Loans' = Loans
  BY <1>2 DEF Loans
<1>4. PICK b : b = NewNode(id, w, m, adds + 1)
  OBVIOUS
<1>5. b.self = adds + 1 /\ b.max = m /\ b.removed = FALSE /\ b.strays = 0
  BY <1>4 DEF NewNode
<1>6. PICK o : o = [name |-> adds + 1, limit |-> m, strays |-> 0]
  OBVIOUS
<1>7. Len(nodes) \in Nat /\ DOMAIN nodes = 1..Len(nodes)
  BY <1>1, Table
<1>8. \A j \in DOMAIN nodes : nodes[j].self \in Nat /\ nodes[j].self <= adds
  <2>1. \A j \in DOMAIN nodes : nodes[j].self \in 1..MaxAdds
    BY <1>1, Table DEF Nodes
  <2>2. \A j \in DOMAIN nodes : nodes[j].self \in Nat
    BY <2>1
  <2>3. QED
    BY <2>2 DEF BookInv, SelfsApart
<1>9. PICK k : /\ DOMAIN nodes' = DOMAIN nodes \cup {k} /\ nodes'[k] = b
               /\ \A j \in DOMAIN nodes \ {k} : nodes'[j] = nodes[j]
               /\ k \in DOMAIN nodes => nodes[k].removed
  <2>1. CASE old # {}
    <3>1. old \in SUBSET Nat /\ old \in SUBSET (DOMAIN nodes)
      BY <1>1, Table DEF WithId
    <3>2. PICK k : k = First(old)
      OBVIOUS
    <3>3. k \in old /\ k \in DOMAIN nodes
      BY <2>1, <3>1, <3>2, FirstIsLeast
    <3>4. nodes' = [nodes EXCEPT ![k] = b]
      BY <1>4, <2>1, <3>2 DEF Add
    <3>5. nodes[k].removed
      BY <3>3
    <3> HIDE DEF old
    <3>6. DOMAIN nodes' = DOMAIN nodes /\ DOMAIN nodes = DOMAIN nodes \cup {k}
      BY <3>3, <3>4
    <3>7. nodes'[k] = b /\ \A j \in DOMAIN nodes \ {k} : nodes'[j] = nodes[j]
      BY <3>3, <3>4
    <3>8. QED
      BY <3>4, <3>5, <3>6, <3>7
  <2>2. CASE old = {}
    <3>1. nodes' = Append(nodes, b)
      BY <1>4, <2>2 DEF Add
    <3>2. nodes \in Seq(Nodes \cup {b})
      BY <1>1, <1>7 DEF TypeOK
    <3>3. /\ nodes' \in Seq(Nodes \cup {b}) /\ Len(nodes') = Len(nodes) + 1
          /\ \A j \in 1..Len(nodes) : nodes'[j] = nodes[j]
          /\ nodes'[Len(nodes) + 1] = b
      BY <3>1, <3>2, AppendProperties
    <3>4. DOMAIN nodes' = 1..(Len(nodes) + 1)
      BY <3>3, LenProperties
    <3>5. PICK k : k = Len(nodes) + 1
      OBVIOUS
    <3>6. DOMAIN nodes' = DOMAIN nodes \cup {k} /\ k \notin DOMAIN nodes
      BY <1>7, <3>4, <3>5
    <3>7. QED
      BY <1>7, <3>3, <3>5, <3>6
  <2>3. QED
    BY <2>1, <2>2
<1> HIDE DEF old
<1>10. SelfsApart'
  <2>1. \A j \in DOMAIN nodes' : nodes'[j].self <= adds'
    BY <1>1, <1>2, <1>5, <1>8, <1>9
  <2>2. \A j \in DOMAIN nodes \ {k} : nodes'[j].self # nodes'[k].self
    BY <1>1, <1>5, <1>8, <1>9
  <2>3. \A i, j \in DOMAIN nodes \ {k} : nodes'[i].self = nodes'[j].self => i = j
    BY <1>9 DEF BookInv, SelfsApart
  <2>4. QED
    BY <1>9, <2>1, <2>2, <2>3 DEF SelfsApart
<1>11. LeasesName'
  <2> SUFFICES ASSUME NEW c \in Clients, pc[c] = "holding"
               PROVE  /\ lease[c].self # 0
                      /\ \A j \in DOMAIN nodes' : nodes'[j].self = lease[c].self => j = lease[c].at
    BY <1>2 DEF LeasesName
  <2>1. /\ lease[c].self # 0
        /\ \A j \in DOMAIN nodes : nodes[j].self = lease[c].self => j = lease[c].at
    BY DEF BookInv, LeasesName
  <2>2. lease[c].self # adds + 1
    <3>1. lease[c].self \in 0..MaxAdds /\ lease[c].self <= adds
      BY <1>1 DEF IInv, TypeOK, Leases, Numbered
    <3>2. QED
      BY <1>1, <3>1
  <2>3. QED
    BY <1>5, <1>9, <2>1, <2>2
<1>12. Offers' = Offers \cup {o}
  <2>1. \A x \in Offers' : x \in Offers \/ x = o
    <3> SUFFICES ASSUME NEW j \in DOMAIN nodes', ~nodes'[j].removed
                 PROVE  LET x == OfferOf(nodes'[j]) IN
                        x \in Offers \/ x = o
      BY DEF Offers, OfferOf
    <3>1. CASE j = k
      <4>1. nodes'[j] = b
        BY <1>9, <3>1
      <4>2. OfferOf(nodes'[j]) = [name |-> b.self, limit |-> b.max, strays |-> b.strays]
        BY <4>1 DEF OfferOf
      <4>3. QED
        BY <1>5, <1>6, <4>2
    <3>2. CASE j # k
      BY <1>9, <3>2 DEF Offers, OfferOf
    <3>3. QED
      BY <3>1, <3>2
  <2>2. o \in Offers'
    BY <1>5, <1>6, <1>9 DEF Offers, OfferOf
  <2>3. \A x \in Offers : x \in Offers'
    <3> SUFFICES ASSUME NEW j \in DOMAIN nodes, ~nodes[j].removed
                 PROVE  OfferOf(nodes[j]) \in Offers'
      BY DEF Offers, OfferOf
    <3>1. j # k /\ j \in DOMAIN nodes' /\ nodes'[j] = nodes[j]
      BY <1>9
    <3>2. QED
      BY <3>1 DEF Offers, OfferOf
  <2>4. QED
    BY <2>1, <2>2, <2>3
<1>13. Book!Offer(m)
  BY <1>2, <1>3, <1>6, <1>12 DEF Book!Offer
<1>14. QED
  BY <1>10, <1>11, <1>13 DEF BookInv, Book!Next

\* What is out on a backend according to the book is what is out on its entry.
LEMMA OutIsHolders ==
  ASSUME IInv, BookInv, NEW i \in DOMAIN nodes, NEW o, o.name = nodes[i].self
  PROVE  Book!Out(o) = OwnHolders(i) /\ Book!OnTrial(o) = OwnTrials(i)
<1>1. nodes[i].self # 0
  <2>1. nodes[i].self \in 1..MaxAdds
    BY Table DEF IInv, Nodes
  <2>2. QED
    BY <2>1
<1>2. \A c \in Clients : Loans[c].on = o.name <=> c \in OwnHolders(i)
  <2> TAKE c \in Clients
  <2>1. CASE pc[c] = "holding"
    <3>1. Loans[c].on = lease[c].self
      BY <2>1 DEF Loans
    <3>2. nodes[i].self = lease[c].self => i = lease[c].at
      BY <2>1 DEF BookInv, LeasesName
    <3>3. QED
      BY <2>1, <3>1, <3>2 DEF OwnHolders, Holders
  <2>2. CASE pc[c] # "holding"
    <3>1. Loans[c].on = 0
      BY <2>2 DEF Loans
    <3>2. QED
      BY <1>1, <2>2, <3>1 DEF OwnHolders, Holders
  <2>3. QED
    BY <2>1, <2>2
<1>3. \A c \in Clients : pc[c] = "holding" => Loans[c].trial = lease[c].probe
  BY DEF Loans
<1>4. Book!Out(o) = OwnHolders(i)
  BY <1>2 DEF Book!Out, OwnHolders, Holders
<1>5. \A c \in OwnHolders(i) : c \in Clients /\ pc[c] = "holding"
  BY DEF Holders, OwnHolders
<1>6. Book!OnTrial(o) = OwnTrials(i)
  BY <1>3, <1>4, <1>5 DEF Book!OnTrial, OwnTrials
<1>7. QED
  BY <1>4, <1>6

\* The book counts as the pool does.
LEMMA BookCardinality == \A S : Book!Cardinality(S) = Cardinality(S)
BY DEF Cardinality, Book!Cardinality, IsFiniteSet, Book!IsFiniteSet

\* A grant is a loan the book has room for: the counts acquire() looks at are the
\* leases that are out, less at most the strays.
LEMMA GrantBook ==
  ASSUME IInv, BookInv, NEW c \in Clients, Grant(c)
  PROVE  BookInv' /\ Book!Next
<1> DEFINE probe == Trials(c) # {}
<1>1. PICK i \in Candidates(c) :
        /\ probe => i = First(Trials(c))
        /\ nodes' = [nodes EXCEPT ![i].inflight = @ + 1,
                                  ![i].requests = Least(@ + 1, Window),
                                  ![i].probes = IF probe THEN @ + 1 ELSE @]
        /\ lease' = [lease EXCEPT ![c] = [at |-> i, self |-> nodes[i].self, probe |-> probe]]
  BY DEF Grant
<1> DEFINE n == nodes[i]
           b == WithGrant(n, n.inflight + 1, Least(n.requests + 1, Window),
                          IF probe THEN n.probes + 1 ELSE n.probes)
<1>2. TypeOK /\ LeasesPoint
  BY DEF IInv
<1>3. i \in DOMAIN nodes /\ n \in Nodes /\ HasName(n) /\ Usable(n)
  BY <1>2, Table, NodesHaveNames DEF Candidates
<1>4. probe => n.circuit = "half_open"
  <2>1. Trials(c) \in SUBSET Nat
    BY <1>2, Table DEF Trials, Candidates
  <2>2. probe => i \in Trials(c)
    BY <1>1, <2>1, FirstIsLeast
  <2>3. QED
    BY <2>2 DEF Trials
<1>5. /\ ~n.removed
      /\ n.max # 0 => n.inflight < n.max
      /\ probe => n.probes < HalfOpenProbes
  BY <1>3, <1>4 DEF Usable, Up
<1>6. nodes' = [nodes EXCEPT ![i] = b]
  BY <1>1, <1>3 DEF WithGrant, Nodes
<1>7. SameName(b, n)
  <2> HIDE DEF n
  <2>1. QED
    BY <1>3 DEF WithGrant, HasName, SameName
<1>8. pc[c] = "acquire" /\ pc' = [pc EXCEPT ![c] = "holding"] /\ adds' = adds
  BY DEF Grant
<1>9. PICK l : l = [at |-> i, self |-> n.self, probe |-> probe]
  OBVIOUS
<1>10. lease' = [lease EXCEPT ![c] = l] /\ l.at = i /\ l.self = n.self /\ l.probe = probe
  BY <1>1, <1>9
<1>11. probe \in BOOLEAN
  OBVIOUS
<1> HIDE DEF probe, b
<1>12. SameNames
  BY <1>3, <1>6, <1>7, NameUpdate
<1>13. Offers' = Offers
  BY <1>12, OffersSame
<1>14. PICK o : o = OfferOf(n)
  OBVIOUS
<1>141. o.name = n.self /\ o.name = nodes[i].self /\ o.limit = n.max /\ o.strays = n.strays
  BY <1>14 DEF OfferOf
<1>15. o \in Offers
  BY <1>3, <1>5, <1>14 DEF Offers, OfferOf
<1>16. Book!Out(o) = OwnHolders(i) /\ Book!OnTrial(o) = OwnTrials(i)
  BY <1>3, <1>141, OutIsHolders
<1>17. /\ Cardinality(OwnHolders(i)) <= n.inflight + n.strays
       /\ Cardinality(OwnTrials(i)) <= n.probes + n.strays
       /\ Cardinality(OwnHolders(i)) \in Nat /\ Cardinality(OwnTrials(i)) \in Nat
       /\ n.inflight \in Nat /\ n.probes \in Nat /\ n.strays \in Nat /\ n.max \in Nat
  BY <1>3, Ranges, HoldersFinite DEF IInv, Counts
<1>18. Loans[c] = Book!Nothing
  BY <1>8 DEF Loans, Book!Nothing
<1>19. /\ pc'[c] = "holding" /\ lease'[c] = l
       /\ \A d \in Clients \ {c} : pc'[d] = pc[d] /\ lease'[d] = lease[d]
  BY <1>2, <1>8, <1>10 DEF TypeOK
<1>20. Loans' = [Loans EXCEPT ![c] = [on |-> o.name, trial |-> probe]]
  <2>1. Loans'[c] = [on |-> o.name, trial |-> probe]
    BY <1>10, <1>141, <1>19 DEF Loans
  <2>2. \A d \in Clients \ {c} : Loans'[d] = Loans[d]
    BY <1>19 DEF Loans
  <2>3. Loans = [d \in Clients |-> Loans[d]] /\ Loans' = [d \in Clients |-> Loans'[d]]
    BY DEF Loans
  <2> HIDE DEF n
  <2>4. QED
    BY <2>1, <2>2, <2>3
<1>21. Book!Lend(c, o, probe)
  <2>0. o.limit = n.max /\ o.strays = n.strays
    BY <1>141
  <2> HIDE DEF n
  <2>1. o.limit # 0 => Cardinality(Book!Out(o)) < o.limit + o.strays
    BY <1>5, <1>16, <1>17, <2>0
  <2>2. probe => Cardinality(Book!OnTrial(o)) < HalfOpenProbes + o.strays
    BY <1>5, <1>16, <1>17, <2>0, PoolAssumption
  <2>3. QED
    BY <1>8, <1>13, <1>18, <1>20, <2>1, <2>2, BookCardinality DEF Book!Lend
<1>22. SelfsApart'
  BY <1>8, <1>12 DEF BookInv, SelfsApart, SameNames, SameName
<1>23. LeasesName'
  <2>1. /\ lease'[c].self # 0
        /\ \A j \in DOMAIN nodes' : nodes'[j].self = lease'[c].self => j = lease'[c].at
    <3>1. lease'[c].self = n.self /\ lease'[c].at = i
      BY <1>10, <1>19
    <3>2. n.self # 0
      <4>1. n.self \in 1..MaxAdds
        BY <1>3, Ranges
      <4>2. QED
        BY <4>1
    <3>3. \A j \in DOMAIN nodes' : j \in DOMAIN nodes /\ nodes'[j].self = nodes[j].self
      BY <1>12 DEF SameNames, SameName
    <3>4. QED
      BY <1>3, <3>1, <3>2, <3>3 DEF BookInv, SelfsApart
  <2>2. \A d \in Clients \ {c} : pc[d] = "holding" =>
          /\ lease[d].self # 0
          /\ \A j \in DOMAIN nodes' : nodes'[j].self = lease[d].self => j = lease[d].at
    BY <1>12 DEF BookInv, LeasesName, SameNames, SameName
  <2>3. QED
    BY <1>19, <2>1, <2>2 DEF LeasesName
<1>24. QED
  BY <1>11, <1>15, <1>21, <1>22, <1>23 DEF BookInv, Book!Next

\* A report gives back the loan of its client and no other: on its own backend, or,
\* if that one is off the book, on the one that is in its place.
LEMMA ReportBook ==
  ASSUME IInv, BookInv, NEW c \in Clients, NEW ok \in BOOLEAN, Report(c, ok)
  PROVE  BookInv' /\ Book!Next
<1>1. PICK i : i = lease[c].at
  OBVIOUS
<1>2. PICK b : b = Finished(nodes[i], lease[c], ok)
  OBVIOUS
<1>3. TypeOK /\ LeasesPoint
  BY DEF IInv
<1>4. pc[c] = "holding" /\ nodes' = [nodes EXCEPT ![i] = b] /\ adds' = adds
  BY <1>1, <1>2 DEF Report
<1>5. i \in DOMAIN nodes /\ HasName(nodes[i])
  BY <1>1, <1>3, <1>4, Table, NodesHaveNames DEF LeasesPoint
<1>6. /\ b.self = nodes[i].self /\ b.max = nodes[i].max /\ b.removed = nodes[i].removed
      /\ b.strays = IF lease[c].self # nodes[i].self THEN nodes[i].strays + 1 ELSE nodes[i].strays
  BY <1>2, <1>5, FinishedName
<1>7. /\ DOMAIN nodes' = DOMAIN nodes /\ nodes'[i] = b
      /\ \A j \in DOMAIN nodes \ {i} : nodes'[j] = nodes[j]
      /\ \A j \in DOMAIN nodes : nodes'[j].self = nodes[j].self
  BY <1>4, <1>5, <1>6
<1>8. /\ pc'[c] # "holding"
      /\ \A d \in Clients \ {c} : pc'[d] = pc[d] /\ lease'[d] = lease[d]
  BY <1>3 DEF Report, TypeOK
<1>9. Loans[c].on = lease[c].self /\ lease[c].self # 0
  BY <1>4 DEF Loans, BookInv, LeasesName
<1>10. Loans[c] # Book!Nothing
  BY <1>9 DEF Book!Nothing
<1>11. Loans' = [Loans EXCEPT ![c] = Book!Nothing]
  <2>1. Loans'[c] = Book!Nothing
    BY <1>8 DEF Loans, Book!Nothing
  <2>2. \A d \in Clients \ {c} : Loans'[d] = Loans[d]
    BY <1>8 DEF Loans
  <2>3. Loans = [d \in Clients |-> Loans[d]] /\ Loans' = [d \in Clients |-> Loans'[d]]
    BY DEF Loans
  <2>4. QED
    BY <2>1, <2>2, <2>3
<1>12. Book!Next
  <2>1. CASE lease[c].self = nodes[i].self
    <3>1. SameName(b, nodes[i])
      BY <1>6, <2>1 DEF SameName
    <3>2. Offers' = Offers
      BY <1>4, <1>5, <3>1, NameUpdate, OffersSame
    <3>3. Book!Return(c)
      BY <1>4, <1>10, <1>11, <3>2 DEF Book!Return
    <3>4. QED
      BY <3>3 DEF Book!Next
  <2>2. CASE lease[c].self # nodes[i].self /\ nodes[i].removed
    <3>1. \A x : x \in Offers' <=> x \in Offers
      BY <1>6, <1>7, <2>2 DEF Offers
    <3>2. Offers' = Offers
      BY <3>1 DEF Offers
    <3>3. Book!Return(c)
      BY <1>4, <1>10, <1>11, <3>2 DEF Book!Return
    <3>4. QED
      BY <3>3 DEF Book!Next
  <2>3. CASE lease[c].self # nodes[i].self /\ ~nodes[i].removed
    <3>1. PICK o : o = OfferOf(nodes[i])
      OBVIOUS
    <3>2. PICK p : p = [o EXCEPT !.strays = @ + 1]
      OBVIOUS
    <3>3. o \in Offers
      BY <1>5, <2>3, <3>1 DEF Offers, OfferOf
    <3>4. p = OfferOf(b)
      BY <1>6, <2>3, <3>1, <3>2 DEF OfferOf
    <3>5. Offers' = (Offers \ {o}) \cup {p}
      <4>1. \A x \in Offers' : x \in (Offers \ {o}) \cup {p}
        <5> SUFFICES ASSUME NEW j \in DOMAIN nodes', ~nodes'[j].removed
                     PROVE  OfferOf(nodes'[j]) \in (Offers \ {o}) \cup {p}
          BY DEF Offers, OfferOf
        <5>1. CASE j = i
          BY <1>7, <3>4, <5>1
        <5>2. CASE j # i
          <6>1. nodes'[j] = nodes[j] /\ j \in DOMAIN nodes
            BY <1>7, <5>2
          <6>2. nodes[j].self # nodes[i].self
            BY <1>5, <5>2, <6>1 DEF BookInv, SelfsApart
          <6>3. OfferOf(nodes[j]) # o
            BY <3>1, <6>2 DEF OfferOf
          <6>4. QED
            BY <6>1, <6>3 DEF Offers, OfferOf
        <5>3. QED
          BY <5>1, <5>2
      <4>2. p \in Offers'
        BY <1>5, <1>6, <1>7, <2>3, <3>4 DEF Offers, OfferOf
      <4>3. \A x \in Offers : x # o => x \in Offers'
        <5> SUFFICES ASSUME NEW j \in DOMAIN nodes, ~nodes[j].removed, OfferOf(nodes[j]) # o
                     PROVE  OfferOf(nodes[j]) \in Offers'
          BY DEF Offers, OfferOf
        <5>1. j # i
          BY <3>1
        <5>2. nodes'[j] = nodes[j] /\ j \in DOMAIN nodes'
          BY <1>7, <5>1
        <5>3. QED
          BY <5>2 DEF Offers, OfferOf
      <4>4. QED
        BY <4>1, <4>2, <4>3
    <3>6. Loans[c].on \notin {x.name : x \in Offers}
      <4> SUFFICES ASSUME NEW j \in DOMAIN nodes PROVE Loans[c].on # nodes[j].self
        BY DEF Offers
      <4>1. nodes[j].self = lease[c].self => j = i
        BY <1>1, <1>4 DEF BookInv, LeasesName
      <4>2. QED
        BY <1>9, <2>3, <4>1
    <3>7. Book!ReturnAstray(c, o)
      BY <1>4, <1>10, <1>11, <3>2, <3>5, <3>6 DEF Book!ReturnAstray
    <3>8. QED
      BY <3>3, <3>7 DEF Book!Next
  <2>4. QED
    BY <2>1, <2>2, <2>3
<1>13. SelfsApart'
  BY <1>4, <1>7 DEF BookInv, SelfsApart
<1>14. LeasesName'
  BY <1>7, <1>8 DEF BookInv, LeasesName
<1>15. QED
  BY <1>12, <1>13, <1>14 DEF BookInv

\* The other steps of a client are none of the book's.
LEMMA QuietBook ==
  ASSUME IInv, BookInv, NEW c \in Clients,
         \/ \E n \in 1..Attempts, w \in {"none", "until"} : Call(c, n, w)
         \/ Expire(c) \/ Refuse(c) \/ Enqueue(c)
  PROVE  BookInv' /\ UNCHANGED Book!vars
<1>1. TypeOK
  BY DEF IInv
<1>2. /\ UNCHANGED <<nodes, adds>> /\ pc[c] # "holding" /\ pc'[c] # "holding"
      /\ \A d \in Clients \ {c} : pc'[d] = pc[d] /\ lease'[d] = lease[d]
  <2>1. CASE \E n \in 1..Attempts, w \in {"none", "until"} : Call(c, n, w)
    BY <1>1, <2>1 DEF Call, TypeOK
  <2>2. CASE Expire(c)
    BY <1>1, <2>2 DEF Expire, TypeOK
  <2>3. CASE Refuse(c)
    BY <1>1, <2>3 DEF Refuse, TypeOK
  <2>4. CASE Enqueue(c)
    BY <1>1, <2>4 DEF Enqueue, TypeOK
  <2>5. QED
    BY <2>1, <2>2, <2>3, <2>4
<1>3. QED
  BY <1>2, BookQuiet

LEMMA BookInit == Init => BookInv /\ Book!Init
<1> SUFFICES ASSUME Init PROVE BookInv /\ Book!Init
  OBVIOUS
<1>1. DOMAIN nodes = {} /\ \A c \in Clients : pc[c] = "idle"
  BY DEF Init
<1>2. BookInv
  BY <1>1 DEF BookInv, SelfsApart, LeasesName
<1>3. Offers = {}
  BY <1>1 DEF Offers
<1>4. Loans = [c \in Clients |-> Book!Nothing]
  BY <1>1 DEF Loans, Book!Nothing
<1>5. adds = 0
  BY DEF Init
<1>6. QED
  BY <1>2, <1>3, <1>4, <1>5 DEF Book!Init

LEMMA BookStep ==
  ASSUME IInv, BookInv, [Next]_vars
  PROVE  BookInv' /\ [Book!Next]_(Book!vars)
<1>0. LeasesPoint
  BY DEF IInv
<1>1. CASE \E id \in Ids, w \in Weights : SetWeight(id, w) \/ \E m \in Caps : Add(id, w, m)
  <2>1. CASE \E id \in Ids, w \in Weights : SetWeight(id, w)
    BY <1>0, <2>1, SetWeightName, BookFrame
  <2>2. CASE \E id \in Ids, w \in Weights : \E m \in Caps : Add(id, w, m)
    BY <2>2, AddBook
  <2>3. QED
    BY <1>1, <2>1, <2>2
<1>2. CASE \E id \in Ids : Remove(id) \/ \E h \in Marks : SetHealthy(id, h)
  <2>1. CASE \E id \in Ids : Remove(id)
    BY <2>1, RemoveBook
  <2>2. CASE \E id \in Ids : \E h \in Marks : SetHealthy(id, h)
    BY <1>0, <2>2, SetHealthyName, BookFrame
  <2>3. QED
    BY <1>2, <2>1, <2>2
<1>3. CASE \E h \in Checkers : StartChecks(h) \/ \E ok \in BOOLEAN : Check(h, ok)
  <2>1. CASE \E h \in Checkers : StartChecks(h)
    <3>1. UNCHANGED <<adds, clients>> /\ nodes' = nodes
      BY <2>1 DEF StartChecks
    <3>2. SameNames
      BY <3>1 DEF SameNames, SameName
    <3>3. QED
      BY <1>0, <3>1, <3>2, BookFrame
  <2>2. CASE \E h \in Checkers : \E ok \in BOOLEAN : Check(h, ok)
    BY <1>0, <2>2, CheckName, BookFrame
  <2>3. QED
    BY <1>3, <2>1, <2>2
<1>4. CASE \E i \in DOMAIN nodes : Elapse(i)
  BY <1>0, <1>4, ElapseName, BookFrame
<1>5. CASE \E c \in Clients : ClientStep(c)
  <2>1. PICK c \in Clients : ClientStep(c)
    BY <1>5
  <2>2. CASE \/ \E n \in 1..Attempts, w \in {"none", "until"} : Call(c, n, w)
             \/ Expire(c) \/ Refuse(c) \/ Enqueue(c)
    BY <2>2, QuietBook
  <2>3. CASE Grant(c)
    BY <2>3, GrantBook
  <2>4. CASE \E ok \in BOOLEAN : Report(c, ok)
    BY <2>4, ReportBook
  <2>5. QED
    BY <2>1, <2>2, <2>3, <2>4 DEF ClientStep
<1>6. CASE UNCHANGED vars
  <2>1. UNCHANGED <<adds, clients>> /\ nodes' = nodes
    BY <1>6 DEF vars, clients
  <2>2. SameNames
    BY <2>1 DEF SameNames, SameName
  <2>3. QED
    BY <1>0, <2>1, <2>2, BookFrame
<1>7. QED
  BY <1>1, <1>2, <1>3, <1>4, <1>5, <1>6 DEF Next

\* The pool implements LeaseBook: it lends what is on offer, to a client that has
\* nothing, within what is really out and the strays, and takes each loan back once,
\* on another backend than its own only when that one is off the book.
THEOREM PoolKeepsTheBook == Spec => BookSpec
<1>1. Init => BookInv /\ Book!Init
  BY BookInit
<1>2. IInv /\ BookInv /\ [Next]_vars => BookInv' /\ [Book!Next]_(Book!vars)
  BY BookStep
<1>3. QED
  BY <1>1, <1>2, Inductive, PTL DEF Spec, BookSpec, Book!Spec
=============================================================================
