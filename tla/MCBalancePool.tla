---------------------------- MODULE MCBalancePool ----------------------------
(* Model checking of BalancePool in three settings, each small in another way:    *)
(* one backend with everything that may happen to it, two backends for calls that *)
(* retry, and more clients than a backend and its queue have room for.  setting   *)
(* says which a behaviour is of; the pool and its steps are the same in all.      *)
EXTENDS BalancePool

CONSTANTS Settings,     \* \subseteq {"alone", "pair", "crowd"}
          Two, Retrier  \* the clients of "alone" and "pair", and the one of them that retries

ASSUME SettingsAssumption ==
  Settings \subseteq {"alone", "pair", "crowd"} /\ Two \subseteq Clients /\ Retrier \in Two

VARIABLE setting

pools == <<vars, setting>>

\* What a setting does without: other limits, marks, removals, failures that open
\* a circuit, other clients, and more than one attempt.
Limit(m) == \A i \in DOMAIN nodes' : nodes'[i].max = m
NoMarks == todo' = todo /\ \A i \in DOMAIN nodes' : nodes'[i].healthy /\ nodes'[i].weight = 1
NoRemoval == \A i \in DOMAIN nodes' : ~nodes'[i].removed
AllClosed == \A i \in DOMAIN nodes' : nodes'[i].circuit = "closed"
OnlyTwo == \A c \in Clients \ Two : pc'[c] = "idle"
Once(S) == \A c \in S : left'[c] <= 1

Alone == Len(nodes') <= 1 /\ Limit(2) /\ OnlyTwo /\ Once(Clients)
Pair == Limit(1) /\ NoMarks /\ NoRemoval /\ OnlyTwo /\ Once(Clients \ {Retrier})
Crowd == Len(nodes') <= 1 /\ Limit(1) /\ NoMarks /\ AllClosed /\ Once(Clients)

Within == /\ setting = "alone" => Alone
          /\ setting = "pair" => Pair
          /\ setting = "crowd" => Crowd
          /\ UNCHANGED setting

PoolsInit == Init /\ setting \in Settings
PoolsNext == Next /\ Within

\* The fairness of the pool within the setting.  No circuit opens in "crowd", so the
\* clients it has besides the two need none.
PoolsSpec ==
  /\ PoolsInit /\ [][PoolsNext]_pools
  /\ \A c \in Two :
       /\ WF_pools((\E n \in 1..Attempts, w \in {"none", "until"} : Call(c, n, w)) /\ Within)
       /\ WF_pools(Expire(c) /\ Within) /\ WF_pools(Grant(c) /\ Within)
       /\ WF_pools(Refuse(c) /\ Within)
       /\ WF_pools((\E ok \in BOOLEAN : Report(c, ok)) /\ Within)
  /\ \A i \in 1..MaxNodes : WF_pools(i \in DOMAIN nodes /\ Elapse(i) /\ Within)
=============================================================================
