---------------------------- MODULE MemoryBudget ----------------------------
(***************************************************************************)
(* forge::mem::budget: threads take leases on a pool of bytes, report      *)
(* bytes they never asked for, and have caches dropped when a lease does   *)
(* not fit.  What is done in one hold of m_ is one action.  The lock is    *)
(* given up between the first look whether a lease fits, the reading of    *)
(* the shortfall, each callback and the second look.  Caches are there     *)
(* from the start and stay.  One budget; a thread's leases are added up.   *)
(***************************************************************************)
EXTENDS Naturals, FiniteSets, Functions

CONSTANTS Threads,    \* that reserve, resize, release and trim
          Limits,     \* values of limit_, 0 for none
          MaxLease,   \* bound: the most bytes a thread holds
          Reports,    \* values set_usage is called with
          Leased,     \* caches that hold their bytes as a lease of this budget
          Lazy,       \* caches that only ask their owner to drop: batch.hpp:39
          Registered, \* sets of caches a process may have
          Fill        \* bytes a cache fills up to

Caches == Leased \cup Lazy

ASSUME MemoryBudgetAssumption ==
  /\ IsFiniteSet(Threads) /\ IsFiniteSet(Caches) /\ Leased \cap Lazy = {}
  /\ Limits \subseteq Nat /\ Reports \subseteq Nat /\ MaxLease \in Nat
  /\ Registered \subseteq SUBSET Caches /\ Fill \in Nat \ {0}

VARIABLES limit, used, ext, \* limit_, used_, ext_ of the one tag
          listed,           \* caches_
          held,             \* bytes of a cache
          dropping,         \* lazy caches whose owner was asked to drop
          lease,            \* bytes of a thread's leases
          at, op, bytes,    \* of a thread: where it is, its operation, how much it asks for
          want, freed, todo,\* its evict: want, freed, the callbacks left to look at
          silent            \* history: set_usage made room and nobody was notified since

budget == <<limit, used, ext>>
caches == <<listed, held, dropping>>
request == <<op, bytes>>
evicting == <<want, freed, todo>>
budgetVars == <<budget, caches, lease, at, request, evicting, silent>>

BudgetTypeOK ==
  /\ limit \in Limits /\ used \in Nat /\ ext \in Reports \cup {0}
  /\ listed \in Registered /\ held \in [Caches -> {0, Fill}] /\ dropping \subseteq Lazy
  /\ lease \in [Threads -> 0..MaxLease]
  /\ at \in [Threads -> {"idle", "need", "callbacks", "released", "tell",
                         "look", "enter", "asleep", "woken"}]
  /\ op \in [Threads -> {"none", "try", "reserve", "wait", "trim"}]
  /\ bytes \in [Threads -> 0..MaxLease]
  /\ want \in [Threads -> Nat] /\ freed \in [Threads -> Nat] /\ todo \in [Threads -> SUBSET Caches]
  /\ silent \in BOOLEAN

BudgetInit ==
  /\ limit \in Limits /\ used = 0 /\ ext = 0
  /\ listed \in Registered /\ held = [c \in Caches |-> 0] /\ dropping = {}
  /\ lease = [t \in Threads |-> 0] /\ at = [t \in Threads |-> "idle"]
  /\ op = [t \in Threads |-> "none"] /\ bytes = [t \in Threads |-> 0]
  /\ want = [t \in Threads |-> 0] /\ freed = [t \in Threads |-> 0] /\ todo = [t \in Threads |-> {}]
  /\ silent = FALSE

FitsIn(n, l, u) == l = 0 \/ u + n <= l
Fits(n) == FitsIn(n, limit, used)                              \* fits_
Need(n) == IF Fits(n) THEN 0 ELSE used + n - limit             \* need_
SoftLimit == (limit * 9) \div 10                               \* soft_limit_
Cached == SumFunctionOnSet(held, Caches)                       \* cache_bytes_locked_

Move(t, from, to) == at[t] = from /\ at' = [at EXCEPT ![t] = to]

\* A thread leaves evict, or ends its operation: its locals are gone.
LeaveEvict(t) ==
  want' = [want EXCEPT ![t] = 0] /\ freed' = [freed EXCEPT ![t] = 0] /\ todo' = [todo EXCEPT ![t] = {}]
Return(t, from) ==
  /\ Move(t, from, "idle") /\ op' = [op EXCEPT ![t] = "none"] /\ bytes' = [bytes EXCEPT ![t] = 0]

\* charge_, and what grow_ and resize do.
Charge(t, n) == used' = used + n /\ lease' = [lease EXCEPT ![t] = @ + n]
Grant(t, from) == Fits(bytes[t]) /\ Charge(t, bytes[t]) /\ Return(t, from)
Deny(t, from) == ~Fits(bytes[t]) /\ Return(t, from) /\ UNCHANGED <<used, lease>>

\* Mutant: notify_one.
ToldOne(a) == LET asleep == {t \in Threads : a[t] = "asleep"} IN
              [t \in Threads |-> IF asleep # {} /\ t = (CHOOSE u \in asleep : TRUE) THEN "woken" ELSE a[t]]

\* notify_all; the sleepers contend for the lock.
Told(a) == [t \in Threads |-> IF a[t] = "asleep" THEN "woken" ELSE a[t]]

-----------------------------------------------------------------------------
(* try_reserve, reserve with a timeout, and the growing half of resize *)

\* The first look.
Ask(t, o, n) ==
  /\ at[t] = "idle" /\ lease[t] + n <= MaxLease
  /\ IF Fits(n)
     THEN Charge(t, n) /\ UNCHANGED <<at, op, bytes>>
     ELSE /\ Move(t, "idle", "need") /\ UNCHANGED <<used, lease>>
          /\ op' = [op EXCEPT ![t] = o] /\ bytes' = [bytes EXCEPT ![t] = n]
  /\ UNCHANGED <<limit, ext, caches, evicting, silent>>

\* need_ is called after the unlock; evict copies the list of caches.
ReadNeed(t) ==
  /\ Move(t, "need", "callbacks")
  /\ want' = [want EXCEPT ![t] = Need(bytes[t])] /\ todo' = [todo EXCEPT ![t] = listed]
  /\ UNCHANGED <<budget, caches, lease, request, freed, silent>>

\* Mutant: what evict was asked for is taken as freed.
TakeAnyway(t) ==
  /\ at[t] = "look" /\ op[t] = "try" /\ Charge(t, bytes[t]) /\ Return(t, "look")
  /\ UNCHANGED <<limit, ext, caches, evicting, silent>>

\* The second look of try_reserve: the lease is made or denied.
LookAgain(t) ==
  /\ at[t] = "look" /\ op[t] = "try" /\ (Grant(t, "look") \/ Deny(t, "look"))
  /\ UNCHANGED <<limit, ext, caches, evicting, silent>>

\* reserve's try_reserve has not, and it takes the lock again to wait.
LookInReserve(t) ==
  /\ op[t] = "reserve"
  /\ \/ Grant(t, "look")
     \/ ~Fits(bytes[t]) /\ Move(t, "look", "enter") /\ UNCHANGED <<used, lease, request>>
  /\ UNCHANGED <<limit, ext, caches, evicting, silent>>

\* It throws if the budget can never hold that much; the wait begins.
Enter(t) ==
  /\ at[t] = "enter"
  /\ \/ limit # 0 /\ bytes[t] > limit /\ Deny(t, "enter")
     \/ Grant(t, "enter")
     \/ /\ ~Fits(bytes[t]) /\ bytes[t] <= limit /\ Move(t, "enter", "asleep")
        /\ op' = [op EXCEPT ![t] = "wait"] /\ UNCHANGED <<used, lease, bytes>>
  /\ UNCHANGED <<limit, ext, caches, evicting, silent>>

\* wait_until returns because it was told to or because the time is up: at
\* once if the deadline has passed while it was out of it.
WakeForEver(t) ==                       \* Mutant: and waits again if it is
  /\ at[t] \in {"asleep", "woken"}
  /\ \/ Grant(t, at[t])
     \/ ~Fits(bytes[t]) /\ Move(t, at[t], "need") /\ UNCHANGED <<used, lease, request>>
  /\ UNCHANGED <<limit, ext, caches, evicting, silent>>

TimeUp(t) ==
  /\ at[t] \in {"asleep", "woken"} /\ (Grant(t, at[t]) \/ Deny(t, at[t]))
  /\ UNCHANGED <<limit, ext, caches, evicting, silent>>

Wake(t) ==
  /\ at[t] = "woken"
  /\ \/ Grant(t, "woken")
     \/ ~Fits(bytes[t]) /\ Move(t, "woken", "need") /\ UNCHANGED <<used, lease, request>>
  /\ UNCHANGED <<limit, ext, caches, evicting, silent>>

\* After another evict the loop of reserve looks again, and sleeps.
LookInLoop(t) ==
  /\ at[t] = "look" /\ op[t] = "wait"
  /\ \/ Grant(t, "look")
     \/ ~Fits(bytes[t]) /\ Move(t, "look", "asleep") /\ UNCHANGED <<used, lease, request>>
  /\ UNCHANGED <<limit, ext, caches, evicting, silent>>

-----------------------------------------------------------------------------
(* evict and trim *)

Enough(t) == want[t] # 0 /\ freed[t] >= want[t]

\* The next one: which has the lowest priority and was touched last is left
\* open.  A lazy cache claims the bytes its owner has yet to drop.
Callback(t, c) ==
  /\ at[t] = "callbacks" /\ ~Enough(t)
  /\ c \in todo[t]
  /\ todo' = [todo EXCEPT ![t] = @ \ {c}] /\ freed' = [freed EXCEPT ![t] = @ + held[c]]
  /\ IF c \in Lazy \/ held[c] = 0
     THEN UNCHANGED <<used, held, at>>
     ELSE /\ used' = used - held[c] /\ held' = [held EXCEPT ![c] = 0]
          /\ Move(t, "callbacks", "released")
  /\ dropping' = IF c \in Lazy /\ held[c] # 0 THEN dropping \cup {c} ELSE dropping
  /\ UNCHANGED <<limit, ext, listed, lease, request, want, silent>>

\* The notify_all of the lease a cache gave back.
Released(t) ==
  /\ at[t] = "released" /\ at' = [Told(at) EXCEPT ![t] = "callbacks"] /\ silent' = FALSE
  /\ UNCHANGED <<budget, caches, lease, request, evicting>>

\* Nothing or enough: the waiters are told if anything was freed.
After(t) == IF op[t] = "trim" THEN "idle" ELSE "look"

Evicted(t) ==
  /\ at[t] = "callbacks" /\ (todo[t] = {} \/ Enough(t))
  /\ IF freed[t] = 0
     THEN at' = [at EXCEPT ![t] = After(t)] /\ op' = [op EXCEPT ![t] = IF @ = "trim" THEN "none" ELSE @]
     ELSE Move(t, "callbacks", "tell") /\ UNCHANGED op
  /\ LeaveEvict(t)
  /\ UNCHANGED <<budget, caches, lease, bytes, silent>>

\* notify_all, of evict and of uncharge_.
Tell(t) ==
  /\ at[t] = "tell"
  /\ at' = [Told(at) EXCEPT ![t] = IF op[t] = "none" THEN "idle" ELSE After(t)] /\ silent' = FALSE
  /\ op' = [op EXCEPT ![t] = IF @ = "trim" THEN "none" ELSE @]
  /\ UNCHANGED <<budget, caches, lease, bytes, evicting>>

\* trim, and evict(0), as on_pressure calls them; trim reads what it is over by
\* under the lock.
Trim(t) ==
  /\ Move(t, "idle", "callbacks") /\ op' = [op EXCEPT ![t] = "trim"]
  /\ \/ want' = [want EXCEPT ![t] = 0]
     \/ /\ limit # 0 /\ used + Cached > SoftLimit
        /\ want' = [want EXCEPT ![t] = used + Cached - SoftLimit]
  /\ todo' = [todo EXCEPT ![t] = listed]
  /\ UNCHANGED <<budget, caches, lease, bytes, freed, silent>>

-----------------------------------------------------------------------------
(* Releases, reports, the limit, and the owners of the caches *)

\* lease::release and the shrinking half of resize, the notify_all to follow.
Uncharge(t, n) ==
  /\ n \in 1..lease[t] /\ Move(t, "idle", "tell")
  /\ used' = used - n /\ lease' = [lease EXCEPT ![t] = @ - n]
  /\ UNCHANGED <<limit, ext, caches, request, evicting, silent>>

\* set_usage notifies nobody.
SetUsage(n) ==
  /\ n # ext /\ used' = used - ext + n /\ ext' = n /\ silent' = (silent \/ n < ext)
  /\ UNCHANGED <<limit, caches, lease, at, request, evicting>>

SetLimit(n) ==
  /\ n # limit /\ limit' = n /\ at' = Told(at) /\ silent' = FALSE
  /\ UNCHANGED <<used, ext, caches, lease, request, evicting>>

\* A cache fills; one with a lease as far as that may grow without an evict.
Refill(c) ==
  /\ c \in listed /\ held[c] = 0 /\ held' = [held EXCEPT ![c] = Fill]
  /\ IF c \in Lazy THEN UNCHANGED used ELSE Fits(Fill) /\ used' = used + Fill
  /\ UNCHANGED <<limit, ext, listed, dropping, lease, at, request, evicting, silent>>

\* The owner gets round to what it was asked.
Drop(c) ==
  /\ c \in dropping /\ dropping' = dropping \ {c} /\ held' = [held EXCEPT ![c] = 0]
  /\ UNCHANGED <<budget, listed, lease, at, request, evicting, silent>>

-----------------------------------------------------------------------------
Continue(t) ==
  \/ ReadNeed(t) \/ LookAgain(t) \/ LookInReserve(t) \/ Enter(t) \/ Wake(t) \/ LookInLoop(t)
  \/ Released(t) \/ Evicted(t) \/ Tell(t) \/ \E c \in Caches : Callback(t, c)

BudgetNext ==
  \/ \E t \in Threads : \/ Continue(t) \/ TimeUp(t) \/ Trim(t)
                        \/ \E n \in 1..MaxLease : \/ \E o \in {"try", "reserve"} : Ask(t, o, n)
                                                  \/ Uncharge(t, n)
  \/ \E n \in Reports : SetUsage(n)
  \/ \E n \in Limits : SetLimit(n)
  \/ \E c \in Caches : Refill(c) \/ Drop(c)

BudgetSpec == BudgetInit /\ [][BudgetNext]_budgetVars

\* Threads run, and a thread that waits again and again in reserve is past its
\* deadline one of these times.  Nothing has to be released, reported or dropped.
FairBudgetSpec == BudgetSpec /\ \A t \in Threads : WF_budgetVars(Continue(t)) /\ SF_budgetVars(TimeUp(t))

-----------------------------------------------------------------------------
(* What the budget promises *)

\* used_ is what is leased and reported, whatever was charged, given back by a
\* cache, resized or reported in between (charge_, uncharge_, grow_, set_usage).
UsedIsExact ==
  used = ext + SumFunctionOnSet(lease, Threads) + SumFunctionOnSet(held, Leased)

\* Only a report takes the budget over its limit: a lease looked at before the
\* lock was given up for evict is looked at again (try_reserve, reserve, grow_).
OnlyReportsOvershoot ==
  [][used' > used /\ limit' # 0 /\ used' > limit' => ext' > ext]_budgetVars

\* A waiter there is room for is told, or somebody is about to tell it, unless
\* it was set_usage that made the room (memory.hpp:179 leaves cv_ alone).
SleeperIsTold ==
  (\E t \in Threads : at[t] = "asleep" /\ Fits(bytes[t]))
    => silent \/ \E t \in Threads : at[t] \in {"tell", "released"}

BudgetInv == BudgetTypeOK /\ UsedIsExact /\ SleeperIsTold

\* try_reserve, reserve with a timeout and trim come back, whatever the others
\* release, report or fill meanwhile and whoever is told.
CallsReturn == \A t \in Threads : at[t] # "idle" ~> at[t] = "idle"

\* docs/memory.md, "Reserving memory": "If it does not fit, the budget asks
\* caches to free the shortfall."  A call for a lease never asks for everything.
AsksForTheShortfall ==
  \A t \in Threads : op[t] \in {"try", "reserve", "wait"} /\ at[t] = "callbacks" => want[t] # 0
=============================================================================
