-------------------------- MODULE ProcessPoolProofs --------------------------
(***************************************************************************)
(* Proofs about ProcessPool, for any number of callers, threads, workers,  *)
(* jobs and crashes.                                                       *)
(***************************************************************************)
EXTENDS ProcessPool, FiniteSetTheorems, TLAPS

\* Dispatch threads that have a job, the futures of jobs a crash failed whose
\* frame fits, and the crashed workers that were waited for.
Busy == {t \in Threads : job[t] # 0}
FailedByCrash == {j \in Jobs \ huge : fut[j] = "crash"}
CrashedReaped == {p \in crashed : life[p] = "reaped"}

Segment(F) == \E k \in Nat : F = 1..k

\* What the worker of a thread is like depends on where the thread is with it.
WorkerRight(t, p) ==
  /\ at[t] = "mark" => pipes[p] = "fresh"
  /\ at[t] = "fork" => pipes[p] = "marked"
  /\ at[t] = "close" => pipes[p] = "forked"
  /\ at[t] \in {"wait", "asleep", "send", "read", "finish", "quit", "reap"} => pipes[p] = "kept"
  /\ at[t] = "waitpid" => pipes[p] = "closed"
  /\ life[p] \in IF at[t] \in {"mark", "fork"} THEN {"none"} ELSE {"alive", "dead"}
  /\ at[t] \notin {"read", "reap", "waitpid"} => inbox[p] = 0 /\ reply[p] = 0
  /\ at[t] = "read" => \/ inbox[p] = job[t] /\ reply[p] = 0
                       \/ inbox[p] = 0 /\ reply[p] = job[t]
  /\ life[p] = "dead" /\ at[t] \notin {"reap", "waitpid"} => p \in crashed
  /\ at[t] \in {"reap", "waitpid"} /\ job[t] # 0 /\ job[t] \notin huge => p \in crashed

ThreadRight(t) ==
  /\ at[t] \in {"none", "wait", "asleep", "quit"} => job[t] = 0
  /\ at[t] \in {"start", "mark", "fork", "close", "send", "read", "finish"} => job[t] # 0
  /\ at[t] \in {"none", "start"} => proc[t] = 0
  /\ at[t] \in {"mark", "fork", "close", "send", "read", "reap", "waitpid", "quit"} => proc[t] # 0
  /\ proc[t] # 0 => WorkerRight(t, proc[t])

\* A worker no thread has is not made yet, or was never forked, or waited for.
Nobodys(p) ==
  \/ pipes[p] = "none" /\ life[p] = "none" /\ inbox[p] = 0 /\ reply[p] = 0
  \/ pipes[p] = "closed" /\ life[p] \in {"none", "reaped"}

ThreadsRight ==
  /\ \A t \in Threads : ThreadRight(t)
  /\ \A t, u \in Threads : proc[t] # 0 /\ proc[t] = proc[u] => t = u
  /\ \A p \in Procs : (\E t \in Threads : proc[t] = p) \/ Nobodys(p)

\* A job that is not settled is queued or a thread has it.
JobsHeld ==
  /\ \A j \in Jobs : fut[j] = "pending" =>
       \/ \E i \in 1..Len(queue) : queue[i] = j
       \/ \E t \in Threads : job[t] = j /\ at[t] # "finish"
  /\ \A i \in 1..Len(queue) : fut[queue[i]] # "none"
  /\ \A t \in Threads : job[t] # 0 =>
       fut[job[t]] # "none" /\ (at[t] = "finish" => fut[job[t]] # "pending")

\* outstanding_ counts them, and somebody is there to take what is queued.
JobsCounted ==
  /\ outstanding = Len(queue) + Cardinality(Busy) /\ outstanding <= Cardinality(Submitted)
  /\ queue # <<>> => live > 0

Numbered == Segment(Submitted) /\ Segment(Forks)

CrashRight == Cardinality(FailedByCrash) <= Cardinality(CrashedReaped)

OwnerRight == /\ user[Owner] \in {"notify_all", "join", "down"} => stop
              /\ user[Owner] = "down" => Free = Threads

IInv == /\ TypeOK /\ ThreadsRight /\ JobsHeld /\ JobsCounted /\ Numbered
        /\ CrashRight /\ OwnerRight /\ EnoughThreads

-----------------------------------------------------------------------------
(* Sets of numbers *)

LEMMA NumbersAre ==
  /\ MaxThreads \in Nat /\ MaxProcs \in Nat /\ MaxJobs \in Nat /\ MaxCrashes \in Nat
  /\ IsFiniteSet(Threads) /\ IsFiniteSet(Procs) /\ IsFiniteSet(Jobs)
  /\ Cardinality(Threads) = MaxThreads /\ Cardinality(Procs) = MaxProcs /\ Cardinality(Jobs) = MaxJobs
  /\ Threads \subseteq Nat \ {0} /\ Procs \subseteq Nat \ {0} /\ Jobs \subseteq Nat \ {0}
  /\ Quit \notin Jobs /\ Quit # 0 /\ Quit \in Nat
<1>1. MaxThreads \in Nat /\ MaxProcs \in Nat /\ MaxJobs \in Nat /\ MaxCrashes \in Nat
  BY ProcessPoolAssumption
<1>2. \A n \in Nat : IsFiniteSet(1..n) /\ Cardinality(1..n) = n
  BY FS_Interval
<1>3. QED
  BY <1>1, <1>2 DEF Threads, Procs, Jobs, Quit

\* A set that is 1..k has k elements, and with the next one it is 1..k + 1.
LEMMA SegmentGrows ==
  ASSUME NEW F, Segment(F)
  PROVE  /\ IsFiniteSet(F) /\ Cardinality(F) \in Nat /\ F = 1..Cardinality(F)
         /\ Cardinality(F) + 1 \notin F /\ Segment(F \cup {Cardinality(F) + 1})
<1>1. PICK k \in Nat : F = 1..k
  BY DEF Segment
<1>2. IsFiniteSet(F) /\ Cardinality(F) = k
  <2>1. \A n \in Nat : IsFiniteSet(1..n) /\ Cardinality(1..n) = n
    BY FS_Interval
  <2>2. QED
    BY <1>1, <2>1
<1>3. F \cup {k + 1} = 1..(k + 1) /\ k + 1 \notin F /\ k + 1 \in Nat
  BY <1>1
<1>4. QED
  BY <1>1, <1>2, <1>3 DEF Segment

\* One element more or less, or none: what the counts of threads and jobs go by.
LEMMA CountOne ==
  ASSUME NEW S, IsFiniteSet(S), NEW T, NEW x
  PROVE  /\ Cardinality(S) \in Nat
         /\ T = S \cup {x} /\ x \notin S => IsFiniteSet(T) /\ Cardinality(T) = Cardinality(S) + 1
         /\ T = S \ {x} /\ x \in S => IsFiniteSet(T) /\ Cardinality(T) = Cardinality(S) - 1
         /\ T \subseteq S => IsFiniteSet(T) /\ Cardinality(T) <= Cardinality(S)
BY FS_CardinalityType, FS_AddElement, FS_RemoveElement, FS_Subset

\* Of a set of numbers the first `add`, as many as there are before each, are as
\* many as are added, if the set has them.
LEMMA FirstOnes ==
  ASSUME NEW F, F \subseteq Nat, IsFiniteSet(F), NEW add \in Nat, add <= Cardinality(F)
  PROVE  LET first == {t \in F : Cardinality({u \in F : u < t}) < add}
         IN  IsFiniteSet(first) /\ Cardinality(first) = add
<1> DEFINE Before(t) == {u \in F : u < t}
           rank == [t \in F |-> Cardinality(Before(t))]
           k == Cardinality(F)
           first == {t \in F : rank[t] < add}
<1>1. k \in Nat /\ \A t \in F : IsFiniteSet(Before(t)) /\ Cardinality(Before(t)) \in Nat
  BY FS_Subset, FS_CardinalityType
<1>2. ASSUME NEW t \in F PROVE rank[t] \in 0..(k - 1)
  <2>1. Before(t) \subseteq F \ {t}
    OBVIOUS
  <2>2. IsFiniteSet(F \ {t}) /\ Cardinality(F \ {t}) = k - 1
    BY FS_RemoveElement
  <2>3. Cardinality(Before(t)) <= k - 1
    BY <2>1, <2>2, FS_Subset
  <2>4. rank[t] = Cardinality(Before(t)) /\ Cardinality(Before(t)) \in Nat
    BY <1>1
  <2> HIDE DEF rank, Before, k
  <2>5. QED
    BY <1>1, <2>3, <2>4
<1>3. ASSUME NEW t \in F, NEW u \in F, t < u PROVE rank[t] < rank[u]
  <2>1. Before(t) \subseteq Before(u) \ {t} /\ t \in Before(u)
    <3>1. t \in Nat /\ u \in Nat /\ t < u
      BY <1>3
    <3>2. \A v \in F : v \in Nat /\ (v < t => v < u /\ v # t)
      BY <3>1
    <3>3. QED
      BY <3>1, <3>2
  <2>2. Cardinality(Before(u) \ {t}) = Cardinality(Before(u)) - 1 /\ IsFiniteSet(Before(u) \ {t})
    BY <1>1, <2>1, FS_RemoveElement
  <2>3. Cardinality(Before(t)) <= Cardinality(Before(u) \ {t})
    BY <2>1, <2>2, FS_Subset
  <2>4. /\ rank[t] = Cardinality(Before(t)) /\ Cardinality(Before(t)) \in Nat
        /\ rank[u] = Cardinality(Before(u)) /\ Cardinality(Before(u)) \in Nat
    BY <1>1
  <2> HIDE DEF rank, Before
  <2>5. QED
    BY <2>2, <2>3, <2>4
<1>r. DOMAIN rank = F /\ rank = [t \in F |-> rank[t]]
  OBVIOUS
<1>e. first = {t \in F : Cardinality({u \in F : u < t}) < add}
  OBVIOUS
<1> HIDE DEF rank
<1>4. \A t, u \in F : rank[t] = rank[u] => t = u
  <2> SUFFICES ASSUME NEW t \in F, NEW u \in F, rank[t] = rank[u], t # u PROVE FALSE
    OBVIOUS
  <2>1. t \in Nat /\ u \in Nat /\ rank[t] \in Int
    BY <1>2
  <2>2. t < u \/ u < t
    BY <2>1
  <2>3. QED
    BY <1>3, <2>1, <2>2
<1>5. rank \in [F -> 0..(k - 1)]
  BY <1>2, <1>r
<1>6. rank \in Injection(F, 0..(k - 1))
  BY <1>4, <1>5 DEF Injection, IsInjective
<1>n. \A n \in Nat : IsFiniteSet(0..(n - 1)) /\ Cardinality(0..(n - 1)) = n
  <2> SUFFICES ASSUME NEW n \in Nat PROVE IsFiniteSet(0..(n - 1)) /\ Cardinality(0..(n - 1)) = n
    OBVIOUS
  <2>1. 0 \in Int /\ n - 1 \in Int /\ (0 > n - 1 <=> n = 0) /\ (n - 1) - 0 + 1 = n
    OBVIOUS
  <2>2. IsFiniteSet(0..(n - 1))
        /\ Cardinality(0..(n - 1)) = IF 0 > n - 1 THEN 0 ELSE (n - 1) - 0 + 1
    BY <2>1, FS_Interval
  <2>3. QED
    BY <2>1, <2>2
<1>8. rank \in Surjection(F, 0..(k - 1))
  BY <1>1, <1>6, <1>n, FS_Injection
<1>9. \A n \in 0..(k - 1) : \E t \in F : rank[t] = n
  BY <1>8 DEF Surjection
<1>10. 0..(add - 1) \subseteq 0..(k - 1)
  <2> HIDE DEF k
  <2>1. add <= k /\ k \in Nat
    BY <1>1 DEF k
  <2>2. QED
    BY <2>1
<1> DEFINE nth == [t \in first |-> rank[t]]
<1>11. nth \in [first -> 0..(add - 1)] /\ \A t \in first : nth[t] = rank[t]
  <2>1. \A t \in first : rank[t] \in 0..(k - 1) /\ rank[t] < add
    BY <1>2
  <2> HIDE DEF first, k
  <2>2. \A t \in first : rank[t] \in 0..(add - 1)
    BY <2>1, <1>1
  <2>3. QED
    BY <2>2
<1> HIDE DEF nth
<1>12. nth \in Injection(first, 0..(add - 1))
  BY <1>4, <1>11 DEF Injection, IsInjective
<1>13. \A n \in 0..(add - 1) : \E t \in first : nth[t] = n
  <2> SUFFICES ASSUME NEW n \in 0..(add - 1) PROVE \E t \in first : nth[t] = n
    OBVIOUS
  <2>1. PICK t \in F : rank[t] = n
    BY <1>9, <1>10
  <2>2. t \in first
    BY <2>1
  <2>3. QED
    BY <2>1, <2>2, <1>11
<1>14. nth \in Surjection(first, 0..(add - 1))
  BY <1>11, <1>13 DEF Surjection
<1>m. IsFiniteSet(first)
  BY FS_Subset
<1>15. Cardinality(first) = add
  <2> HIDE DEF first
  <2>1. IsFiniteSet(0..(add - 1)) /\ Cardinality(0..(add - 1)) = add
    BY <1>n
  <2>3. Cardinality(first) = Cardinality(0..(add - 1))
    BY <2>1, <1>12, <1>14, FS_Injection
  <2>4. QED
    BY <2>1, <2>3
<1>17. QED
  BY <1>m, <1>15, <1>e

-----------------------------------------------------------------------------
(* What a step leaves alone *)

LEMMA FiniteParts ==
  ASSUME TypeOK
  PROVE  /\ IsFiniteSet(Running) /\ IsFiniteSet(Busy) /\ IsFiniteSet(Free)
         /\ IsFiniteSet(FailedByCrash) /\ IsFiniteSet(CrashedReaped) /\ IsFiniteSet(crashed)
         /\ Cardinality(Running) \in 0..MaxThreads /\ Cardinality(Submitted) <= MaxJobs
<1>1. /\ Running \subseteq Threads /\ Busy \subseteq Threads /\ Free \subseteq Threads
      /\ FailedByCrash \subseteq Jobs /\ crashed \subseteq Procs /\ CrashedReaped \subseteq Procs
      /\ Submitted \subseteq Jobs
  BY DEF TypeOK, Running, Free, Busy, FailedByCrash, CrashedReaped, Submitted
<1>2. Cardinality(Running) \in Nat /\ Cardinality(Running) <= MaxThreads
      /\ Cardinality(Submitted) <= MaxJobs
  BY <1>1, NumbersAre, FS_Subset, FS_CardinalityType
<1>3. Cardinality(Running) \in 0..MaxThreads
  BY <1>2, NumbersAre
<1>4. QED
  BY <1>1, <1>2, <1>3, NumbersAre, FS_Subset

\* Another thread and its worker are right as before when the step leaves them alone.
LEMMA OtherThread ==
  ASSUME NEW u \in Threads, ThreadRight(u),
         at'[u] = at[u], job'[u] = job[u], proc'[u] = proc[u], huge' = huge,
         proc[u] # 0 =>
           /\ pipes'[proc[u]] = pipes[proc[u]] /\ life'[proc[u]] = life[proc[u]]
           /\ inbox'[proc[u]] = inbox[proc[u]] /\ reply'[proc[u]] = reply[proc[u]],
         crashed \subseteq crashed'
  PROVE  ThreadRight(u)'
BY DEF ThreadRight, WorkerRight

\* A step of one thread and of the worker it has, makes or gives up.
LEMMA ThreadAlone ==
  ASSUME ThreadsRight, NEW t \in Threads,
         \A u \in Threads \ {t} : at'[u] = at[u] /\ job'[u] = job[u] /\ proc'[u] = proc[u],
         huge' = huge, crashed \subseteq crashed',
         \A p \in Procs : p # proc[t] /\ p # proc'[t] =>
           pipes'[p] = pipes[p] /\ life'[p] = life[p] /\ inbox'[p] = inbox[p] /\ reply'[p] = reply[p],
         TypeOK, TypeOK', ThreadRight(t)',
         proc'[t] \notin {0, proc[t]} => proc[t] = 0 /\ \A u \in Threads : proc[u] # proc'[t],
         \A p \in Procs : p = proc[t] /\ p # proc'[t] => Nobodys(p)'
  PROVE  ThreadsRight'
<1>0. /\ \A u \in Threads : proc[u] \in {0} \cup Procs /\ proc'[u] \in {0} \cup Procs
      /\ \A p \in Procs : p # 0
  BY NumbersAre DEF TypeOK
<1>1. ASSUME NEW u \in Threads \ {t} PROVE ThreadRight(u)'
  <2>1. proc[u] # 0 => proc[u] \in Procs /\ proc[u] # proc[t] /\ proc[u] # proc'[t]
    BY <1>0 DEF ThreadsRight
  <2>2. ThreadRight(u)
    BY DEF ThreadsRight
  <2>3. at'[u] = at[u] /\ job'[u] = job[u] /\ proc'[u] = proc[u]
    OBVIOUS
  <2>4. proc[u] # 0 =>
           /\ pipes'[proc[u]] = pipes[proc[u]] /\ life'[proc[u]] = life[proc[u]]
           /\ inbox'[proc[u]] = inbox[proc[u]] /\ reply'[proc[u]] = reply[proc[u]]
    BY <2>1
  <2>5. QED
    BY <2>2, <2>3, <2>4, OtherThread
<1>2. \A u, v \in Threads : proc'[u] # 0 /\ proc'[u] = proc'[v] => u = v
  BY <1>0 DEF ThreadsRight
<1>3. ASSUME NEW p \in Procs, ~\E u \in Threads : proc'[u] = p PROVE Nobodys(p)'
  <2>1. CASE proc[t] = p
    BY <2>1, <1>3
  <2>2. CASE proc[t] # p
    <3>1. ~\E u \in Threads : proc[u] = p
      BY <2>2, <1>3
    <3>2. Nobodys(p) /\ p # proc'[t]
      BY <3>1, <1>3 DEF ThreadsRight
    <3>3. QED
      BY <3>2, <2>2 DEF Nobodys
  <2>3. QED
    BY <2>1, <2>2
<1>4. QED
  BY <1>1, <1>2, <1>3 DEF ThreadsRight

\* Fewer jobs failed and more workers waited for.
LEMMA CrashStays ==
  ASSUME TypeOK, TypeOK', CrashRight, FailedByCrash' \subseteq FailedByCrash,
         CrashedReaped \subseteq CrashedReaped'
  PROVE  CrashRight'
<1>1. IsFiniteSet(FailedByCrash) /\ IsFiniteSet(CrashedReaped)
  BY FiniteParts
<1>2. IsFiniteSet(CrashedReaped')
  <2>1. crashed' \subseteq Procs /\ CrashedReaped' \subseteq crashed'
    BY DEF TypeOK, CrashedReaped
  <2>2. QED
    BY <2>1, NumbersAre, FS_Subset
<1>3. Cardinality(FailedByCrash') <= Cardinality(FailedByCrash)
      /\ Cardinality(CrashedReaped) <= Cardinality(CrashedReaped')
      /\ IsFiniteSet(FailedByCrash')
  BY <1>1, <1>2, FS_Subset
<1>4. /\ Cardinality(FailedByCrash) \in Nat /\ Cardinality(CrashedReaped) \in Nat
      /\ Cardinality(FailedByCrash') \in Nat /\ Cardinality(CrashedReaped') \in Nat
  BY <1>1, <1>2, <1>3, FS_CardinalityType
<1>5. QED
  BY <1>3, <1>4 DEF CrashRight

\* The futures a thread's step may set: its own job's, and then it goes to "finish".
Settles(t) ==
  \/ fut' = fut /\ (at'[t] = "finish" <=> at[t] = "finish")
  \/ \E res \in {"answered", "crash", "nostart"} :
       /\ Settle(t, res) /\ job[t] # 0 /\ at'[t] = "finish"

LEMMA JobsStay ==
  ASSUME TypeOK, TypeOK', JobsHeld, JobsCounted, Numbered, NEW t \in Threads,
         \A u \in Threads \ {t} : at'[u] = at[u],
         job' = job, queue' = queue, outstanding' = outstanding, queue # <<>> => live' > 0, Settles(t)
  PROVE  JobsHeld' /\ JobsCounted' /\ Segment(Submitted)'
<1>1. \A j \in Jobs : /\ (fut'[j] = "none" <=> fut[j] = "none")
                      /\ fut'[j] = "pending" => fut[j] = "pending" /\ (at'[t] = "finish" => j # job[t] \/ at[t] = "finish")
  <2>1. CASE fut' = fut /\ (at'[t] = "finish" <=> at[t] = "finish")
    BY <2>1
  <2>2. CASE \E res \in {"answered", "crash", "nostart"} :
               Settle(t, res) /\ job[t] # 0 /\ at'[t] = "finish"
    <3>1. PICK res \in {"answered", "crash", "nostart"} :
            Settle(t, res) /\ job[t] # 0 /\ at'[t] = "finish"
      BY <2>2
    <3>2. job[t] \in Jobs /\ fut[job[t]] # "none" /\ fut \in [Jobs -> {"none", "pending", "answered", "crash", "nostart", "refused"}]
      BY <3>1 DEF JobsHeld, TypeOK
    <3>3. QED
      BY <3>1, <3>2 DEF Settle
  <2>3. QED
    BY <2>1, <2>2 DEF Settles
<1>2. Submitted' = Submitted
  BY <1>1 DEF Submitted
<1>3. Busy' = Busy
  BY DEF Busy
<1>4. JobsCounted' /\ Segment(Submitted)'
  BY <1>2, <1>3 DEF JobsCounted, Numbered, Segment
<1>t. /\ \A u \in Threads : job[u] \in {0} \cup Jobs
      /\ queue \in Seq(Jobs) /\ \A i \in 1..Len(queue) : queue[i] \in Jobs
  BY DEF TypeOK
<1>5. \A i \in 1..Len(queue') : fut'[queue'[i]] # "none"
  BY <1>1, <1>t DEF JobsHeld
<1>6. ASSUME NEW u \in Threads, job'[u] # 0
      PROVE  fut'[job'[u]] # "none" /\ (at'[u] = "finish" => fut'[job'[u]] # "pending")
  <2>1. job[u] \in Jobs /\ fut[job[u]] # "none" /\ (at[u] = "finish" => fut[job[u]] # "pending")
    BY <1>6, <1>t DEF JobsHeld
  <2>2. CASE u = t
    BY <1>1, <2>1, <2>2
  <2>3. CASE u # t
    BY <1>1, <2>1, <2>3
  <2>4. QED
    BY <2>2, <2>3
<1>7. ASSUME NEW j \in Jobs, fut'[j] = "pending"
      PROVE  \/ \E i \in 1..Len(queue') : queue'[i] = j
             \/ \E u \in Threads : job'[u] = j /\ at'[u] # "finish"
  <2>1. fut[j] = "pending"
    BY <1>1, <1>7
  <2>2. CASE \E i \in 1..Len(queue) : queue[i] = j
    BY <2>2
  <2>3. CASE \E u \in Threads : job[u] = j /\ at[u] # "finish"
    <3>1. PICK u \in Threads : job[u] = j /\ at[u] # "finish"
      BY <2>3
    <3>2. at'[u] # "finish"
      BY <3>1, <1>1, <1>7
    <3>3. QED
      BY <3>1, <3>2
  <2>4. QED
    BY <2>1, <2>2, <2>3 DEF JobsHeld
<1>8. QED
  BY <1>4, <1>5, <1>6, <1>7 DEF JobsHeld

\* A step of a thread that leaves the counts, the jobs held and the callers alone.
LEMMA ThreadStep ==
  ASSUME IInv, TypeOK', NEW t \in Threads,
         \A u \in Threads \ {t} : at'[u] = at[u] /\ proc'[u] = proc[u],
         UNCHANGED <<control, job, huge, user>>, crashed \subseteq crashed',
         at[t] # "none", (t \in Running') <=> (t \in Running),
         \A p \in Procs : p # proc[t] /\ p # proc'[t] =>
           pipes'[p] = pipes[p] /\ life'[p] = life[p] /\ inbox'[p] = inbox[p] /\ reply'[p] = reply[p],
         ThreadRight(t)',
         proc'[t] \notin {0, proc[t]} => proc[t] = 0 /\ \A u \in Threads : proc[u] # proc'[t],
         \A p \in Procs : p = proc[t] /\ p # proc'[t] => Nobodys(p)',
         Settles(t), CrashRight', Segment(Forks)'
  PROVE  IInv'
<1>1. ThreadsRight'
  BY ThreadAlone DEF IInv
<1>2. JobsHeld' /\ JobsCounted' /\ Segment(Submitted)'
  BY JobsStay DEF IInv, control, JobsCounted
<1>3. Running' = Running
  BY DEF Running, Free
<1>4. EnoughThreads'
  BY <1>3 DEF IInv, EnoughThreads, control
<1>5. OwnerRight'
  BY DEF IInv, OwnerRight, Free, control
<1>6. QED
  BY <1>1, <1>2, <1>4, <1>5 DEF IInv, Numbered

-----------------------------------------------------------------------------
(* The steps of a dispatch thread *)

LEMMA SleepKeeps ==
  ASSUME IInv, NEW t \in Threads, Sleep(t)
  PROVE  IInv'
<1>1. TypeOK'
  BY DEF IInv, TypeOK, Sleep, Move, control, procs
<1>2. ThreadRight(t)'
  BY DEF IInv, TypeOK, ThreadsRight, ThreadRight, WorkerRight, Sleep, Move, procs
<1>3. /\ at[t] = "wait" /\ at'[t] = "asleep" /\ \A u \in Threads \ {t} : at'[u] = at[u]
      /\ proc' = proc /\ job' = job /\ fut' = fut
  BY DEF IInv, TypeOK, Sleep, Move
<1>4. CrashRight' /\ Segment(Forks)'
  BY DEF IInv, CrashRight, FailedByCrash, CrashedReaped, Numbered, Forks, Sleep, procs
<1>5. (t \in Running') <=> (t \in Running)
  BY <1>3 DEF Running, Free
<1>6. QED
  BY <1>1, <1>2, <1>3, <1>4, <1>5, ThreadStep DEF Settles, Sleep, procs

\* Finishing without a worker: its job fails, not by a crash.
LEMMA NoPipesKeeps ==
  ASSUME IInv, NEW t \in Threads, NoPipes(t)
  PROVE  IInv'
<1>0. job[t] \in Jobs /\ job[t] # 0 /\ fut[job[t]] # "none" /\ proc[t] = 0
  BY NumbersAre DEF IInv, TypeOK, ThreadsRight, ThreadRight, JobsHeld, NoPipes, Move
<1>1. TypeOK'
  BY <1>0 DEF IInv, TypeOK, NoPipes, Move, Settle, control, procs
<1>3. /\ at[t] = "start" /\ at'[t] = "finish" /\ \A u \in Threads \ {t} : at'[u] = at[u]
      /\ proc' = proc /\ job' = job
  BY DEF IInv, TypeOK, NoPipes, Move
<1>2. ThreadRight(t)'
  BY <1>0, <1>3 DEF ThreadRight
<1>4. CrashRight'
  <2>1. FailedByCrash' \subseteq FailedByCrash /\ CrashedReaped' = CrashedReaped
    BY <1>0 DEF IInv, TypeOK, FailedByCrash, CrashedReaped, NoPipes, Settle, procs
  <2>2. QED
    BY <1>1, <2>1, CrashStays DEF IInv
<1>5. (t \in Running') <=> (t \in Running)
  BY <1>3 DEF Running, Free
<1>6. Segment(Forks)'
  BY DEF IInv, Numbered, Forks, NoPipes, procs
<1>7. Settles(t)
  BY <1>0, <1>3 DEF Settles, NoPipes
<1>8. QED
  BY <1>1, <1>2, <1>3, <1>4, <1>5, <1>6, <1>7, ThreadStep DEF NoPipes, procs

\* The next worker has no process yet, and no thread has it.
LEMMA NextWorker ==
  ASSUME IInv, Cardinality(Forks) + 1 \in Procs
  PROVE  LET p == Cardinality(Forks) + 1
         IN  /\ p # 0 /\ pipes[p] = "none" /\ Segment(Forks \cup {p})
             /\ life[p] = "none" /\ inbox[p] = 0 /\ reply[p] = 0
             /\ \A u \in Threads : proc[u] # p
<1> DEFINE p == Cardinality(Forks) + 1
<1>1. Segment(Forks)
  BY DEF IInv, Numbered
<1>2. p \notin Forks /\ Segment(Forks \cup {p})
  BY <1>1, SegmentGrows
<1>3. p # 0 /\ p \in Procs
  BY NumbersAre
<1> HIDE DEF p
<1>4. pipes[p] = "none"
  BY <1>2, <1>3 DEF Forks
<1>5. \A u \in Threads : proc[u] # p
  <2> SUFFICES ASSUME NEW u \in Threads, proc[u] = p PROVE FALSE
    OBVIOUS
  <2>1. ThreadRight(u) /\ at[u] \in {"none", "wait", "asleep", "start", "mark", "fork", "close", "send",
                         "read", "reap", "waitpid", "finish", "quit"}
    BY DEF IInv, TypeOK, ThreadsRight
  <2>2. pipes[p] # "none"
    BY <2>1, <1>3 DEF ThreadRight, WorkerRight
  <2>3. QED
    BY <2>2, <1>4
<1>6. Nobodys(p)
  BY <1>3, <1>5 DEF IInv, ThreadsRight
<1>7. QED
  BY <1>2, <1>3, <1>4, <1>5, <1>6 DEF Nobodys, p

LEMMA PipesKeeps ==
  ASSUME IInv, NEW t \in Threads, Pipes(t)
  PROVE  IInv'
<1>0. PICK p \in Procs : p = Cardinality(Forks) + 1
  BY DEF Pipes
<1>1. /\ at[t] = "start" /\ proc' = [proc EXCEPT ![t] = p]
      /\ \/ at' = [at EXCEPT ![t] = "mark"] /\ pipes' = [pipes EXCEPT ![p] = "fresh"]
         \/ at' = [at EXCEPT ![t] = "fork"] /\ pipes' = [pipes EXCEPT ![p] = "marked"]
      /\ UNCHANGED <<mode, control, job, fut, huge, life, inbox, reply, outs, ins, crashed, user>>
  BY <1>0 DEF Pipes, Move
<1>2. /\ p # 0 /\ pipes[p] = "none" /\ Segment(Forks \cup {p})
      /\ life[p] = "none" /\ inbox[p] = 0 /\ reply[p] = 0 /\ \A u \in Threads : proc[u] # p
  BY <1>0, NextWorker
<1>3. TypeOK'
  BY <1>1 DEF IInv, TypeOK, control
<1>4. /\ at'[t] \in {"mark", "fork"} /\ proc'[t] = p /\ job'[t] = job[t] /\ job[t] # 0 /\ proc[t] = 0
      /\ at'[t] = "mark" => pipes'[p] = "fresh"
      /\ at'[t] = "fork" => pipes'[p] = "marked"
      /\ \A u \in Threads \ {t} : at'[u] = at[u] /\ proc'[u] = proc[u]
      /\ \A q \in Procs \ {p} : pipes'[q] = pipes[q]
  BY <1>1 DEF IInv, TypeOK, ThreadsRight, ThreadRight
<1>5. ThreadRight(t)'
  <2>1. WorkerRight(t, p)'
    <3>1. life'[p] = "none" /\ inbox'[p] = 0 /\ reply'[p] = 0
      BY <1>1, <1>2
    <3>2. QED
      BY <1>4, <3>1 DEF WorkerRight
  <2>2. QED
    BY <1>4, <1>2, <2>1 DEF ThreadRight, WorkerRight
<1>6. CrashRight'
  BY <1>1 DEF IInv, CrashRight, FailedByCrash, CrashedReaped
<1>7. Forks' = Forks \cup {p}
  BY <1>1 DEF IInv, TypeOK, Forks
<1>8. Segment(Forks)'
  BY <1>2, <1>7 DEF Segment
<1>9. (t \in Running') <=> (t \in Running)
  BY <1>1, <1>4 DEF Running, Free
<1>10. Settles(t)
  BY <1>1, <1>4 DEF Settles
<1>11. \A q \in Procs : q # 0
  BY NumbersAre
<1>12. QED
  BY <1>1, <1>2, <1>3, <1>4, <1>5, <1>6, <1>8, <1>9, <1>10, <1>11, ThreadStep DEF control

\* Where a thread has a worker, the worker is its own.
LEMMA HasWorker ==
  ASSUME IInv, NEW t \in Threads,
         at[t] \in {"mark", "fork", "close", "send", "read", "reap", "waitpid", "quit"}
  PROVE  /\ proc[t] \in Procs /\ proc[t] # 0 /\ WorkerRight(t, proc[t])
         /\ job[t] \in {0} \cup Jobs /\ pipes[proc[t]] # "none"
         /\ at[t] \notin {"reap", "waitpid", "quit"} => job[t] # 0 /\ job[t] \in Jobs
         /\ at[t] = "quit" => job[t] = 0
         /\ job[t] # 0 => fut[job[t]] # "none"
         /\ t \in Running <=> job[t] # 0
BY DEF IInv, TypeOK, ThreadsRight, ThreadRight, WorkerRight, JobsHeld, Running, Free

\* A worker whose pipes were made stays one.
LEMMA ForksStay ==
  ASSUME IInv, NEW p \in Procs, pipes[p] # "none", NEW x \in {"fresh", "marked", "forked", "kept", "closed"},
         pipes' = [pipes EXCEPT ![p] = x]
  PROVE  Segment(Forks)'
<1>1. Forks' = Forks
  BY DEF IInv, TypeOK, Forks
<1>2. QED
  BY <1>1 DEF IInv, Numbered, Segment

LEMMA MarkCloexecKeeps ==
  ASSUME IInv, NEW t \in Threads, MarkCloexec(t)
  PROVE  IInv'
<1>0. PICK p \in Procs : p = proc[t]
  BY HasWorker DEF MarkCloexec, Move
<1>1. /\ at[t] = "mark" /\ at'[t] = "fork" /\ \A u \in Threads \ {t} : at'[u] = at[u]
      /\ pipes' = [pipes EXCEPT ![p] = "marked"] /\ proc' = proc /\ job' = job /\ fut' = fut /\ life' = life
      /\ UNCHANGED <<mode, control, huge, inbox, reply, outs, ins, crashed, user>>
  BY <1>0 DEF IInv, TypeOK, MarkCloexec, Move
<1>2. p # 0 /\ WorkerRight(t, p) /\ job[t] # 0 /\ pipes[p] # "none" /\ t \in Running
  BY <1>0, <1>1, HasWorker
<1>3. TypeOK'
  <2>1. at' \in [Threads -> {"none", "wait", "asleep", "start", "mark", "fork", "close", "send",
                         "read", "reap", "waitpid", "finish", "quit"}]
    BY DEF IInv, TypeOK, MarkCloexec, Move
  <2>2. QED
    BY <1>1, <2>1 DEF IInv, TypeOK, control
<1>4. pipes'[p] = "marked" /\ \A q \in Procs \ {p} : pipes'[q] = pipes[q]
  BY <1>1 DEF IInv, TypeOK
<1>5. ThreadRight(t)'
  BY <1>0, <1>1, <1>2, <1>4 DEF ThreadRight, WorkerRight
<1>6. CrashRight'
  BY <1>1 DEF IInv, CrashRight, FailedByCrash, CrashedReaped
<1>7. Segment(Forks)'
  BY <1>1, <1>2, ForksStay
<1>8. (t \in Running') <=> (t \in Running)
  BY <1>1 DEF Running, Free
<1>9. QED
  BY <1>0, <1>1, <1>3, <1>4, <1>5, <1>6, <1>7, <1>8, ThreadStep DEF Settles

LEMMA ForkKeeps ==
  ASSUME IInv, NEW t \in Threads, Fork(t)
  PROVE  IInv'
<1>0. PICK p \in Procs : p = proc[t]
  BY HasWorker DEF Fork, Move
<1>1. /\ at[t] = "fork" /\ at'[t] = "close" /\ \A u \in Threads \ {t} : at'[u] = at[u]
      /\ pipes' = [pipes EXCEPT ![p] = "forked"] /\ life' = [life EXCEPT ![p] = "alive"]
      /\ proc' = proc /\ job' = job /\ fut' = fut
      /\ UNCHANGED <<mode, control, huge, inbox, reply, crashed, user>>
  BY <1>0 DEF IInv, TypeOK, Fork, Move
<1>2. p # 0 /\ WorkerRight(t, p) /\ job[t] # 0 /\ pipes[p] # "none" /\ t \in Running
  BY <1>0, <1>1, HasWorker
<1>3. TypeOK'
  <2>1. outs' \in [Procs -> SUBSET Procs] /\ ins' \in [Procs -> SUBSET Procs]
    BY DEF IInv, TypeOK, Fork, Inherited
  <2>2. at' \in [Threads -> {"none", "wait", "asleep", "start", "mark", "fork", "close", "send",
                         "read", "reap", "waitpid", "finish", "quit"}]
    BY DEF IInv, TypeOK, Fork, Move
  <2>3. QED
    BY <1>1, <2>1, <2>2 DEF IInv, TypeOK, control
<1>4. /\ pipes'[p] = "forked" /\ life'[p] = "alive" /\ life[p] = "none"
      /\ \A q \in Procs \ {p} : pipes'[q] = pipes[q] /\ life'[q] = life[q]
  BY <1>1, <1>2 DEF IInv, TypeOK, WorkerRight
<1>5. ThreadRight(t)'
  BY <1>0, <1>1, <1>2, <1>4 DEF ThreadRight, WorkerRight
<1>6. CrashRight'
  <2>1. CrashedReaped \subseteq CrashedReaped' /\ FailedByCrash' = FailedByCrash
    BY <1>1, <1>4 DEF IInv, TypeOK, FailedByCrash, CrashedReaped
  <2>2. QED
    BY <1>3, <2>1, CrashStays DEF IInv
<1>7. Segment(Forks)'
  BY <1>1, <1>2, ForksStay
<1>8. (t \in Running') <=> (t \in Running)
  BY <1>1 DEF Running, Free
<1>9. QED
  BY <1>0, <1>1, <1>3, <1>4, <1>5, <1>6, <1>7, <1>8, ThreadStep DEF Settles

LEMMA ForkFailsKeeps ==
  ASSUME IInv, NEW t \in Threads, ForkFails(t)
  PROVE  IInv'
<1>0. PICK p \in Procs : p = proc[t]
  BY HasWorker DEF ForkFails, Move
<1>1. /\ at[t] = "fork" /\ at'[t] = "finish" /\ \A u \in Threads \ {t} : at'[u] = at[u] /\ proc'[u] = proc[u]
      /\ pipes' = [pipes EXCEPT ![p] = "closed"] /\ proc'[t] = 0 /\ job' = job /\ life' = life
      /\ UNCHANGED <<mode, control, huge, inbox, reply, outs, ins, crashed, user>>
  BY <1>0 DEF IInv, TypeOK, ForkFails, Move
<1>2. /\ p # 0 /\ WorkerRight(t, p) /\ job[t] # 0 /\ job[t] \in Jobs /\ fut[job[t]] # "none"
      /\ pipes[p] # "none" /\ t \in Running
  BY <1>0, <1>1, HasWorker
<1>3. TypeOK'
  <2>1. /\ at' \in [Threads -> {"none", "wait", "asleep", "start", "mark", "fork", "close", "send",
                         "read", "reap", "waitpid", "finish", "quit"}]
        /\ proc' \in [Threads -> {0} \cup Procs]
    BY DEF IInv, TypeOK, ForkFails, Move
  <2>2. fut' \in [Jobs -> {"none", "pending", "answered", "crash", "nostart", "refused"}]
    BY <1>2 DEF IInv, TypeOK, ForkFails, Settle
  <2>3. QED
    BY <1>1, <2>1, <2>2 DEF IInv, TypeOK, control
<1>4. pipes'[p] = "closed" /\ life[p] = "none" /\ \A q \in Procs \ {p} : pipes'[q] = pipes[q]
  BY <1>1, <1>2 DEF IInv, TypeOK, WorkerRight
<1>5. ThreadRight(t)'
  BY <1>1, <1>2 DEF ThreadRight
<1>6. CrashRight'
  <2>1. CrashedReaped' = CrashedReaped /\ FailedByCrash' \subseteq FailedByCrash
    BY <1>1, <1>2 DEF IInv, TypeOK, FailedByCrash, CrashedReaped, ForkFails, Settle
  <2>2. QED
    BY <1>3, <2>1, CrashStays DEF IInv
<1>7. Segment(Forks)'
  BY <1>1, <1>2, ForksStay
<1>8. (t \in Running') <=> (t \in Running)
  BY <1>1 DEF Running, Free
<1>9. \A q \in Procs : q = proc[t] /\ q # proc'[t] => Nobodys(q)'
  BY <1>0, <1>1, <1>4 DEF Nobodys
<1>10. Settles(t)
  BY <1>1, <1>2 DEF Settles, ForkFails
<1>11. QED
  BY <1>0, <1>1, <1>3, <1>4, <1>5, <1>6, <1>7, <1>8, <1>9, <1>10, ThreadStep

LEMMA CloseEndsKeeps ==
  ASSUME IInv, NEW t \in Threads, CloseEnds(t)
  PROVE  IInv'
<1>0. PICK p \in Procs : p = proc[t]
  BY HasWorker DEF CloseEnds, Move
<1>1. /\ at[t] = "close" /\ at'[t] = "send" /\ \A u \in Threads \ {t} : at'[u] = at[u]
      /\ pipes' = [pipes EXCEPT ![p] = "kept"] /\ proc' = proc /\ job' = job /\ fut' = fut /\ life' = life
      /\ UNCHANGED <<mode, control, huge, inbox, reply, outs, ins, crashed, user>>
  BY <1>0 DEF IInv, TypeOK, CloseEnds, Move
<1>2. p # 0 /\ WorkerRight(t, p) /\ job[t] # 0 /\ pipes[p] # "none" /\ t \in Running
  BY <1>0, <1>1, HasWorker
<1>3. TypeOK'
  <2>1. at' \in [Threads -> {"none", "wait", "asleep", "start", "mark", "fork", "close", "send",
                         "read", "reap", "waitpid", "finish", "quit"}]
    BY DEF IInv, TypeOK, CloseEnds, Move
  <2>2. QED
    BY <1>1, <2>1 DEF IInv, TypeOK, control
<1>4. pipes'[p] = "kept" /\ \A q \in Procs \ {p} : pipes'[q] = pipes[q]
  BY <1>1 DEF IInv, TypeOK
<1>5. ThreadRight(t)'
  BY <1>0, <1>1, <1>2, <1>4 DEF ThreadRight, WorkerRight
<1>6. CrashRight'
  BY <1>1 DEF IInv, CrashRight, FailedByCrash, CrashedReaped
<1>7. Segment(Forks)'
  BY <1>1, <1>2, ForksStay
<1>8. (t \in Running') <=> (t \in Running)
  BY <1>1 DEF Running, Free
<1>9. QED
  BY <1>0, <1>1, <1>3, <1>4, <1>5, <1>6, <1>7, <1>8, ThreadStep DEF Settles

LEMMA SendKeeps ==
  ASSUME IInv, NEW t \in Threads, Send(t)
  PROVE  IInv'
<1>0. PICK p \in Procs : p = proc[t]
  BY HasWorker DEF Send
<1>1. /\ at[t] = "send" /\ \A u \in Threads \ {t} : at'[u] = at[u]
      /\ IF job[t] \in huge \/ Hungup(p)
         THEN at'[t] = "reap" /\ inbox' = inbox
         ELSE at'[t] = "read" /\ inbox' = [inbox EXCEPT ![p] = job[t]]
      /\ proc' = proc /\ job' = job /\ fut' = fut /\ life' = life /\ reply' = reply /\ pipes' = pipes
      /\ UNCHANGED <<mode, control, huge, outs, ins, crashed, user>>
  BY <1>0 DEF IInv, TypeOK, Send, Move
<1>2. p # 0 /\ WorkerRight(t, p) /\ job[t] # 0 /\ job[t] \in Jobs
  BY <1>0, <1>1, HasWorker
<1>3. TypeOK'
  <2>1. at' \in [Threads -> {"none", "wait", "asleep", "start", "mark", "fork", "close", "send",
                         "read", "reap", "waitpid", "finish", "quit"}]
    <3>1. at' = [at EXCEPT ![t] = "reap"] \/ at' = [at EXCEPT ![t] = "read"]
      BY <1>0 DEF Send, Move
    <3>2. QED
      BY <3>1 DEF IInv, TypeOK
  <2>2. inbox' \in [Procs -> {0, Quit} \cup Jobs]
    BY <1>1, <1>2 DEF IInv, TypeOK
  <2>3. QED
    BY <1>1, <2>1, <2>2 DEF IInv, TypeOK, control
<1>4. \A q \in Procs \ {p} : inbox'[q] = inbox[q]
  BY <1>1 DEF IInv, TypeOK
<1>5. ThreadRight(t)'
  <2>1. /\ pipes[p] = "kept" /\ life[p] \in {"alive", "dead"} /\ inbox[p] = 0 /\ reply[p] = 0
        /\ life[p] = "dead" => p \in crashed
    BY <1>1, <1>2 DEF WorkerRight
  <2>2. CASE job[t] \in huge \/ Hungup(p)
    <3>1. at'[t] = "reap" /\ (job[t] \in huge \/ p \in crashed)
      BY <1>1, <2>1, <2>2 DEF Hungup
    <3>2. QED
      BY <3>1, <2>1, <1>0, <1>1, <1>2 DEF ThreadRight, WorkerRight
  <2>3. CASE ~(job[t] \in huge \/ Hungup(p))
    <3>1. at'[t] = "read" /\ inbox'[p] = job[t]
      BY <1>1, <2>3 DEF IInv, TypeOK
    <3>2. QED
      BY <3>1, <2>1, <1>0, <1>1, <1>2 DEF ThreadRight, WorkerRight
  <2>4. QED
    BY <2>2, <2>3
<1>6. CrashRight' /\ Segment(Forks)'
  BY <1>1 DEF IInv, CrashRight, FailedByCrash, CrashedReaped, Numbered, Forks
<1>8. (t \in Running') <=> (t \in Running)
  BY <1>1, <1>2 DEF Running, Free
<1>9. QED
  BY <1>0, <1>1, <1>3, <1>4, <1>5, <1>6, <1>8, ThreadStep DEF Settles

\* The answer read is the answer to this thread's job.
LEMMA ReadKeeps ==
  ASSUME IInv, NEW t \in Threads, Read(t)
  PROVE  IInv'
<1>0. PICK p \in Procs : p = proc[t]
  BY HasWorker DEF Read
<1>1. at[t] = "read" /\ reply[p] # 0
  BY <1>0 DEF Read
<1>2. p # 0 /\ WorkerRight(t, p) /\ job[t] # 0 /\ job[t] \in Jobs /\ fut[job[t]] # "none"
  BY <1>0, <1>1, HasWorker
<1>3. reply[p] = job[t] /\ inbox[p] = 0 /\ pipes[p] = "kept" /\ life[p] \in {"alive", "dead"}
      /\ (life[p] = "dead" => p \in crashed)
  BY <1>1, <1>2 DEF WorkerRight
<1>4. /\ reply' = [reply EXCEPT ![p] = 0] /\ at' = [at EXCEPT ![t] = "finish"] /\ Settle(t, "answered")
      /\ UNCHANGED <<mode, control, job, proc, huge, pipes, life, inbox, outs, ins, crashed, user>>
  BY <1>0, <1>3 DEF Read, Move
<1>5. TypeOK'
  BY <1>2, <1>4 DEF IInv, TypeOK, Settle, control
<1>6. /\ at'[t] = "finish" /\ \A u \in Threads \ {t} : at'[u] = at[u]
      /\ reply'[p] = 0 /\ \A q \in Procs \ {p} : reply'[q] = reply[q]
  BY <1>4 DEF IInv, TypeOK
<1>7. ThreadRight(t)'
  <2>1. WorkerRight(t, p)'
    BY <1>3, <1>4, <1>6 DEF WorkerRight
  <2>2. QED
    BY <1>0, <1>2, <1>4, <1>6, <2>1 DEF ThreadRight
<1>8. CrashRight' /\ Segment(Forks)'
  <2>1. CrashedReaped' = CrashedReaped /\ FailedByCrash' \subseteq FailedByCrash /\ Forks' = Forks
    BY <1>2, <1>4 DEF IInv, TypeOK, FailedByCrash, CrashedReaped, Settle, Forks
  <2>2. QED
    BY <1>5, <2>1, CrashStays DEF IInv, Numbered, Segment
<1>9. (t \in Running') <=> (t \in Running)
  BY <1>1, <1>6, <1>4 DEF Running, Free
<1>10. Settles(t)
  BY <1>2, <1>4, <1>6 DEF Settles
<1>11. QED
  BY <1>0, <1>1, <1>4, <1>5, <1>6, <1>7, <1>8, <1>9, <1>10, ThreadStep

LEMMA ReadEofKeeps ==
  ASSUME IInv, NEW t \in Threads, ReadEof(t)
  PROVE  IInv'
<1>0. PICK p \in Procs : p = proc[t]
  BY HasWorker DEF ReadEof, Move
<1>1. at[t] = "read" /\ reply[p] = 0 /\ Hungup(p)
  BY <1>0 DEF ReadEof, Move
<1>2. p # 0 /\ WorkerRight(t, p) /\ job[t] # 0 /\ job[t] \in Jobs
  BY <1>0, <1>1, HasWorker
<1>3. pipes[p] = "kept" /\ life[p] = "dead" /\ p \in crashed
  BY <1>1, <1>2 DEF WorkerRight, Hungup
<1>4. /\ at' = [at EXCEPT ![t] = "reap"] /\ job' = job /\ proc' = proc /\ fut' = fut /\ pipes' = pipes
      /\ UNCHANGED <<mode, control, huge, life, inbox, reply, outs, ins, crashed, user>>
  BY DEF ReadEof, Move, procs
<1>5. TypeOK'
  BY <1>4 DEF IInv, TypeOK, control
<1>6. at'[t] = "reap" /\ \A u \in Threads \ {t} : at'[u] = at[u]
  BY <1>4 DEF IInv, TypeOK
<1>7. ThreadRight(t)'
  BY <1>0, <1>2, <1>3, <1>4, <1>6 DEF ThreadRight, WorkerRight
<1>8. CrashRight' /\ Segment(Forks)'
  BY <1>4 DEF IInv, CrashRight, FailedByCrash, CrashedReaped, Numbered, Forks
<1>9. (t \in Running') <=> (t \in Running)
  BY <1>1, <1>2, <1>6, <1>4 DEF Running, Free
<1>11. QED
  BY <1>0, <1>1, <1>4, <1>5, <1>6, <1>7, <1>8, <1>9, ThreadStep DEF Settles

LEMMA ReapKeeps ==
  ASSUME IInv, NEW t \in Threads, Reap(t)
  PROVE  IInv'
<1>0. PICK p \in Procs : p = proc[t]
  BY HasWorker DEF Reap, Move
<1>1. /\ at[t] = "reap" /\ at' = [at EXCEPT ![t] = "waitpid"] /\ pipes' = [pipes EXCEPT ![p] = "closed"]
      /\ job' = job /\ proc' = proc /\ fut' = fut
      /\ UNCHANGED <<mode, control, huge, life, inbox, reply, outs, ins, crashed, user>>
  BY <1>0 DEF Reap, Move
<1>2. p # 0 /\ WorkerRight(t, p) /\ pipes[p] # "none"
  BY <1>0, <1>1, HasWorker
<1>3. TypeOK'
  BY <1>1 DEF IInv, TypeOK, control
<1>4. /\ at'[t] = "waitpid" /\ \A u \in Threads \ {t} : at'[u] = at[u]
      /\ pipes'[p] = "closed" /\ \A q \in Procs \ {p} : pipes'[q] = pipes[q]
  BY <1>1 DEF IInv, TypeOK
<1>5. ThreadRight(t)'
  BY <1>0, <1>1, <1>2, <1>4 DEF ThreadRight, WorkerRight
<1>6. CrashRight'
  BY <1>1 DEF IInv, CrashRight, FailedByCrash, CrashedReaped
<1>7. Segment(Forks)'
  BY <1>1, <1>2, ForksStay
<1>8. (t \in Running') <=> (t \in Running)
  BY <1>1, <1>4 DEF Running, Free
<1>9. QED
  BY <1>0, <1>1, <1>3, <1>4, <1>5, <1>6, <1>7, <1>8, ThreadStep DEF Settles

\* Where a job fails, its worker crashed and was not waited for before.
LEMMA ReapedKeeps ==
  ASSUME IInv, NEW t \in Threads, Reaped(t)
  PROVE  IInv'
<1>0. PICK p \in Procs : p = proc[t]
  BY HasWorker DEF Reaped
<1>1. /\ at[t] = "waitpid" /\ life[p] = "dead" /\ life' = [life EXCEPT ![p] = "reaped"]
      /\ proc' = [proc EXCEPT ![t] = 0] /\ at' = [at EXCEPT ![t] = IF job[t] = 0 THEN "none" ELSE "finish"]
      /\ IF job[t] = 0 THEN UNCHANGED fut ELSE Settle(t, "crash")
      /\ UNCHANGED <<mode, control, job, huge, pipes, inbox, reply, outs, ins, crashed, user>>
  BY <1>0 DEF Reaped, Move
<1>2. /\ p # 0 /\ WorkerRight(t, p) /\ (job[t] # 0 => job[t] \in Jobs /\ fut[job[t]] # "none")
      /\ (t \in Running <=> job[t] # 0)
  BY <1>0, <1>1, HasWorker
<1>3. TypeOK'
  <2>1. fut' \in [Jobs -> {"none", "pending", "answered", "crash", "nostart", "refused"}]
    BY <1>1, <1>2 DEF IInv, TypeOK, Settle
  <2>2. QED
    BY <1>1, <2>1 DEF IInv, TypeOK, control
<1>4. /\ at'[t] = IF job[t] = 0 THEN "none" ELSE "finish"
      /\ proc'[t] = 0 /\ \A u \in Threads \ {t} : at'[u] = at[u] /\ proc'[u] = proc[u]
      /\ life'[p] = "reaped" /\ \A q \in Procs \ {p} : life'[q] = life[q]
  BY <1>1 DEF IInv, TypeOK
<1>5. ThreadRight(t)'
  BY <1>1, <1>4 DEF ThreadRight
<1>6. CrashRight'
  <2>1. CASE job[t] = 0 \/ job[t] \in huge
    <3>1. FailedByCrash' \subseteq FailedByCrash
      BY <1>1, <1>2, <2>1 DEF IInv, TypeOK, FailedByCrash, Settle
    <3>2. CrashedReaped \subseteq CrashedReaped'
      BY <1>1, <1>4 DEF IInv, TypeOK, CrashedReaped
    <3>3. QED
      BY <1>3, <3>1, <3>2, CrashStays DEF IInv
  <2>2. CASE job[t] # 0 /\ job[t] \notin huge
    <3>1. p \in crashed
      BY <1>1, <1>2, <2>2 DEF WorkerRight
    <3>2. CrashedReaped' = CrashedReaped \cup {p} /\ p \notin CrashedReaped
      BY <1>1, <1>4, <3>1 DEF IInv, TypeOK, CrashedReaped
    <3>3. FailedByCrash' \subseteq FailedByCrash \cup {job[t]}
      BY <1>1, <1>2, <2>2 DEF IInv, TypeOK, FailedByCrash, Settle
    <3>4. IsFiniteSet(FailedByCrash) /\ IsFiniteSet(CrashedReaped)
      BY FiniteParts DEF IInv
    <3>5. IsFiniteSet(CrashedReaped') /\ Cardinality(CrashedReaped') = Cardinality(CrashedReaped) + 1
          /\ Cardinality(CrashedReaped) \in Nat
      BY <3>2, <3>4, CountOne
    <3>6. /\ IsFiniteSet(FailedByCrash \cup {job[t]}) /\ Cardinality(FailedByCrash) \in Nat
          /\ Cardinality(FailedByCrash \cup {job[t]}) \in Nat
          /\ Cardinality(FailedByCrash \cup {job[t]}) <= Cardinality(FailedByCrash) + 1
      <4>1. CASE job[t] \in FailedByCrash
        <5>1. FailedByCrash \cup {job[t]} = FailedByCrash
          BY <4>1
        <5>2. Cardinality(FailedByCrash) \in Nat
          BY <3>4, FS_CardinalityType
        <5>3. Cardinality(FailedByCrash \cup {job[t]}) = Cardinality(FailedByCrash)
              /\ IsFiniteSet(FailedByCrash \cup {job[t]})
          BY <3>4, <5>1
        <5>4. QED
          BY <5>2, <5>3
      <4>2. CASE job[t] \notin FailedByCrash
        BY <4>2, <3>4, CountOne
      <4>3. QED
        BY <4>1, <4>2
    <3>7. Cardinality(FailedByCrash') <= Cardinality(FailedByCrash \cup {job[t]}) /\ IsFiniteSet(FailedByCrash')
      BY <3>3, <3>6, FS_Subset
    <3>8. Cardinality(FailedByCrash') \in Nat
      BY <3>7, FS_CardinalityType
    <3>9. QED
      BY <3>5, <3>6, <3>7, <3>8 DEF IInv, CrashRight
  <2>3. QED
    BY <2>1, <2>2
<1>7. Segment(Forks)'
  BY <1>1 DEF IInv, Numbered, Forks
<1>8. (t \in Running') <=> (t \in Running)
  BY <1>1, <1>2, <1>4 DEF Running, Free
<1>9. \A q \in Procs : q = proc[t] /\ q # proc'[t] => Nobodys(q)'
  BY <1>0, <1>1, <1>2, <1>4 DEF Nobodys, WorkerRight
<1>10. Settles(t)
  BY <1>1, <1>2, <1>4 DEF Settles
<1>11. QED
  BY <1>0, <1>1, <1>3, <1>4, <1>5, <1>6, <1>7, <1>8, <1>9, <1>10, ThreadStep

LEMMA SayQuitKeeps ==
  ASSUME IInv, NEW t \in Threads, SayQuit(t)
  PROVE  IInv'
<1>0. PICK p \in Procs : p = proc[t]
  BY HasWorker DEF SayQuit, Move
<1>1. /\ at[t] = "quit" /\ at' = [at EXCEPT ![t] = "reap"] /\ inbox' = [inbox EXCEPT ![p] = Quit]
      /\ job' = job /\ proc' = proc /\ fut' = fut /\ pipes' = pipes
      /\ UNCHANGED <<mode, control, huge, life, reply, outs, ins, crashed, user>>
  BY <1>0 DEF SayQuit, Move
<1>2. p # 0 /\ WorkerRight(t, p) /\ job[t] = 0 /\ t \notin Running
  BY <1>0, <1>1, HasWorker
<1>3. TypeOK'
  BY <1>1 DEF IInv, TypeOK, control
<1>4. /\ at'[t] = "reap" /\ \A u \in Threads \ {t} : at'[u] = at[u]
      /\ \A q \in Procs \ {p} : inbox'[q] = inbox[q]
  BY <1>1 DEF IInv, TypeOK
<1>5. ThreadRight(t)'
  BY <1>0, <1>1, <1>2, <1>4 DEF ThreadRight, WorkerRight
<1>6. CrashRight' /\ Segment(Forks)'
  BY <1>1 DEF IInv, CrashRight, FailedByCrash, CrashedReaped, Numbered, Forks
<1>8. (t \in Running') <=> (t \in Running)
  BY <1>1, <1>2, <1>4 DEF Running, Free
<1>9. QED
  BY <1>0, <1>1, <1>3, <1>4, <1>5, <1>6, <1>8, ThreadStep DEF Settles

LEMMA TakeJobKeeps ==
  ASSUME IInv, NEW t \in Threads, TakeJob(t)
  PROVE  IInv'
<1>1. /\ queue # <<>> /\ at[t] = "wait" /\ at' = [at EXCEPT ![t] = IF proc[t] = 0 THEN "start" ELSE "send"]
      /\ job' = [job EXCEPT ![t] = Head(queue)] /\ queue' = Tail(queue)
      /\ UNCHANGED <<mode, outstanding, target, live, stop, proc, fut, huge, procs, user>>
  BY DEF TakeJob, Move
<1>2. /\ queue \in Seq(Jobs) /\ Len(queue) \in Nat /\ Len(queue) > 0 /\ Head(queue) = queue[1]
      /\ Head(queue) \in Jobs /\ Tail(queue) \in Seq(Jobs) /\ Len(Tail(queue)) = Len(queue) - 1
      /\ \A i \in 1..(Len(queue) - 1) : Tail(queue)[i] = queue[i + 1]
      /\ \A i \in 1..Len(queue) : queue[i] \in Jobs
  BY <1>1 DEF IInv, TypeOK
<1>t. TypeOK'
  BY <1>1, <1>2 DEF IInv, TypeOK, procs
<1>3. /\ at'[t] = (IF proc[t] = 0 THEN "start" ELSE "send") /\ job'[t] = Head(queue) /\ proc'[t] = proc[t]
      /\ job[t] = 0 /\ Head(queue) # 0
      /\ \A u \in Threads \ {t} : at'[u] = at[u] /\ job'[u] = job[u] /\ proc'[u] = proc[u]
  BY <1>1, <1>2, NumbersAre DEF IInv, TypeOK, ThreadsRight, ThreadRight
<1>4. UNCHANGED <<pipes, life, inbox, reply, crashed>>
  BY <1>1 DEF procs
<1>5. ThreadRight(t)'
  <2>1. ThreadRight(t)
    BY DEF IInv, ThreadsRight
  <2>2. at'[t] \in {"start", "send"}
    BY <1>3
  <2>3. CASE proc[t] = 0
    BY <1>3, <2>3 DEF ThreadRight
  <2>4. CASE proc[t] # 0
    <3>1. WorkerRight(t, proc[t])
      BY <2>1, <2>4 DEF ThreadRight
    <3>2. WorkerRight(t, proc[t])'
      BY <1>1, <1>3, <1>4, <2>4, <3>1 DEF WorkerRight
    <3>3. QED
      BY <1>3, <2>4, <3>2 DEF ThreadRight
  <2>5. QED
    BY <2>3, <2>4
<1>6. ThreadsRight'
  BY <1>1, <1>3, <1>4, <1>5, <1>t, ThreadAlone DEF IInv
<1>7. JobsHeld'
  <2>0. Len(queue') = Len(queue) - 1 /\ \A i \in 1..(Len(queue) - 1) : queue'[i] = queue[i + 1]
    BY <1>1, <1>2
  <2>1. ASSUME NEW j \in Jobs, fut'[j] = "pending"
        PROVE  \/ \E i \in 1..Len(queue') : queue'[i] = j
               \/ \E u \in Threads : job'[u] = j /\ at'[u] # "finish"
    <3>1. fut[j] = "pending"
      BY <1>1, <2>1
    <3>2. CASE \E i \in 1..Len(queue) : queue[i] = j
      <4>1. PICK i \in 1..Len(queue) : queue[i] = j
        BY <3>2
      <4>2. CASE i = 1
        BY <1>2, <1>3, <4>1, <4>2
      <4>3. CASE i # 1
        <5>1. i - 1 \in 1..(Len(queue) - 1) /\ (i - 1) + 1 = i
          BY <1>2, <4>3
        <5>2. queue'[i - 1] = j
          BY <5>1, <2>0, <4>1
        <5>3. QED
          BY <5>1, <5>2, <2>0
      <4>4. QED
        BY <4>2, <4>3
    <3>3. CASE \E u \in Threads : job[u] = j /\ at[u] # "finish"
      <4>1. PICK u \in Threads : job[u] = j /\ at[u] # "finish"
        BY <3>3
      <4>2. u # t
        BY <1>3, <4>1, NumbersAre
      <4>3. QED
        BY <1>3, <4>1, <4>2
    <3>4. QED
      BY <3>1, <3>2, <3>3 DEF IInv, JobsHeld
  <2>2. \A i \in 1..Len(queue') : fut'[queue'[i]] # "none"
    <3> SUFFICES ASSUME NEW i \in 1..Len(queue') PROVE fut'[queue'[i]] # "none"
      OBVIOUS
    <3>1. i + 1 \in 1..Len(queue) /\ queue'[i] = queue[i + 1]
      BY <2>0, <1>2
    <3>2. QED
      BY <3>1, <1>1 DEF IInv, JobsHeld
  <2>3. ASSUME NEW u \in Threads, job'[u] # 0
        PROVE  fut'[job'[u]] # "none" /\ (at'[u] = "finish" => fut'[job'[u]] # "pending")
    <3>1. CASE u = t
      <4>1. fut[queue[1]] # "none"
        BY <1>2 DEF IInv, JobsHeld
      <4>2. QED
        BY <4>1, <3>1, <1>1, <1>2, <1>3
    <3>2. CASE u # t
      BY <1>1, <1>3, <2>3, <3>2 DEF IInv, JobsHeld
    <3>3. QED
      BY <3>1, <3>2
  <2>4. QED
    BY <2>1, <2>2, <2>3 DEF JobsHeld
<1>8. t \in Running /\ Running' = Running
  BY <1>1, <1>3 DEF Running, Free
<1>9. live > 0 /\ live' > 0
  BY <1>1 DEF IInv, JobsCounted
<1>10. JobsCounted'
  <2>1. Busy' = Busy \cup {t} /\ t \notin Busy
    BY <1>3 DEF Busy
  <2>2. IsFiniteSet(Busy)
    BY FiniteParts DEF IInv
  <2>3. Cardinality(Busy') = Cardinality(Busy) + 1 /\ Cardinality(Busy) \in Nat
    BY <2>1, <2>2, CountOne
  <2>4. Len(queue') = Len(queue) - 1
    BY <1>1, <1>2
  <2>5. Submitted' = Submitted
    BY <1>1 DEF Submitted
  <2>6. outstanding' = Len(queue') + Cardinality(Busy')
    BY <1>1, <1>2, <2>3, <2>4 DEF IInv, JobsCounted
  <2>7. QED
    BY <1>1, <1>9, <2>5, <2>6 DEF IInv, JobsCounted
<1>11. CrashRight' /\ Numbered'
  BY <1>1 DEF IInv, CrashRight, FailedByCrash, CrashedReaped, Numbered, Segment, Forks, Submitted, procs
<1>12. OwnerRight' /\ EnoughThreads'
  <2>1. Free' = Free
    BY <1>1, <1>3 DEF Free
  <2>2. QED
    BY <1>1, <1>8, <2>1 DEF IInv, OwnerRight, EnoughThreads
<1>13. QED
  BY <1>t, <1>6, <1>7, <1>10, <1>11, <1>12 DEF IInv

\* The last thread goes only when nothing is queued.
LEMMA RetireKeeps ==
  ASSUME IInv, NEW t \in Threads, Retire(t)
  PROVE  IInv'
<1>1. /\ queue = <<>> /\ (stop \/ live > target) /\ at[t] = "wait" /\ live' = live - 1
      /\ at' = [at EXCEPT ![t] = IF proc[t] = 0 THEN "none" ELSE "quit"]
      /\ UNCHANGED <<mode, queue, outstanding, target, stop, job, proc, fut, huge, procs, user>>
  BY DEF Retire, Move
<1>2. /\ at'[t] = (IF proc[t] = 0 THEN "none" ELSE "quit") /\ job[t] = 0
      /\ \A u \in Threads \ {t} : at'[u] = at[u]
  BY <1>1 DEF IInv, TypeOK, ThreadsRight, ThreadRight
<1>3. Running' = Running \ {t} /\ t \in Running
  BY <1>1, <1>2 DEF Running, Free
<1>4. /\ IsFiniteSet(Running) /\ Cardinality(Running) \in 0..MaxThreads /\ live = Cardinality(Running)
      /\ MaxThreads \in Nat
  BY FiniteParts, NumbersAre DEF IInv, EnoughThreads
<1>5. Cardinality(Running') = live - 1 /\ Cardinality(Running') \in Nat
  <2>1. IsFiniteSet(Running') /\ Cardinality(Running') = Cardinality(Running) - 1
    BY <1>3, <1>4, CountOne
  <2>2. QED
    BY <1>4, <2>1, FS_CardinalityType
<1>6. live' \in 0..MaxThreads /\ live' = Cardinality(Running') /\ (live > target => live' >= target)
  <2>1. target \in Int
    BY ProcessPoolAssumption DEF IInv, TypeOK
  <2>2. QED
    BY <1>1, <1>4, <1>5, <2>1
<1>7. TypeOK'
  BY <1>1, <1>6 DEF IInv, TypeOK, procs
<1>8. UNCHANGED <<pipes, life, inbox, reply, crashed>>
  BY <1>1 DEF procs
<1>9. ThreadRight(t)'
  BY <1>1, <1>2, <1>8 DEF IInv, ThreadsRight, ThreadRight, WorkerRight
<1>10. ThreadsRight'
  BY <1>1, <1>2, <1>7, <1>8, <1>9, ThreadAlone DEF IInv
<1>11. JobsHeld' /\ JobsCounted' /\ Segment(Submitted)'
  BY <1>1, <1>2, <1>7, JobsStay DEF IInv, Settles
<1>12. CrashRight' /\ Segment(Forks)'
  BY <1>1, <1>8 DEF IInv, CrashRight, FailedByCrash, CrashedReaped, Numbered, Forks
<1>13. OwnerRight' /\ EnoughThreads'
  <2>1. Free = Threads => FALSE
    BY <1>1 DEF Free
  <2>2. QED
    BY <1>1, <1>6, <2>1 DEF IInv, OwnerRight, EnoughThreads
<1>14. QED
  BY <1>7, <1>10, <1>11, <1>12, <1>13 DEF IInv, Numbered

LEMMA FinishKeeps ==
  ASSUME IInv, NEW t \in Threads, Finish(t)
  PROVE  IInv'
<1>1. /\ at[t] = "finish" /\ at' = [at EXCEPT ![t] = "wait"]
      /\ outstanding' = outstanding - 1 /\ job' = [job EXCEPT ![t] = 0]
      /\ UNCHANGED <<mode, queue, target, live, stop, proc, fut, huge, procs, user>>
  BY DEF Finish, Move
<1>2. /\ at'[t] = "wait" /\ job'[t] = 0 /\ job[t] # 0 /\ job[t] \in Jobs /\ proc'[t] = proc[t]
      /\ \A u \in Threads \ {t} : at'[u] = at[u] /\ job'[u] = job[u] /\ proc'[u] = proc[u]
  BY <1>1 DEF IInv, TypeOK, ThreadsRight, ThreadRight
<1>3. Busy' = Busy \ {t} /\ t \in Busy
  BY <1>2 DEF Busy
<1>4. /\ IsFiniteSet(Busy) /\ Cardinality(Busy') = Cardinality(Busy) - 1
      /\ Cardinality(Busy) \in Nat /\ Cardinality(Busy') \in Nat
  <2>1. IsFiniteSet(Busy)
    BY FiniteParts DEF IInv
  <2>2. IsFiniteSet(Busy') /\ Cardinality(Busy') = Cardinality(Busy) - 1
    BY <1>3, <2>1, CountOne
  <2>3. QED
    BY <2>1, <2>2, FS_CardinalityType
<1>5. /\ outstanding' \in 0..MaxJobs /\ outstanding' = Len(queue) + Cardinality(Busy')
      /\ outstanding' <= Cardinality(Submitted)
  <2>1. Len(queue) \in Nat /\ outstanding \in 0..MaxJobs /\ MaxJobs \in Nat
    BY NumbersAre DEF IInv, TypeOK
  <2>2. Segment(Submitted)
    BY DEF IInv, Numbered
  <2>3. Cardinality(Submitted) \in Nat
    BY <2>2, SegmentGrows
  <2>4. outstanding = Len(queue) + Cardinality(Busy) /\ outstanding <= Cardinality(Submitted)
    BY DEF IInv, JobsCounted
  <2>5. PICK left, busy : left = Cardinality(Busy') /\ busy = Cardinality(Busy)
    OBVIOUS
  <2>6. outstanding' = outstanding - 1 /\ left = busy - 1 /\ left \in Nat /\ busy \in Nat
    BY <1>1, <1>4, <2>5
  <2>7. outstanding' = Len(queue) + left
    BY <2>1, <2>4, <2>5, <2>6
  <2>8. outstanding' \in 0..MaxJobs
    BY <2>1, <2>6, <2>7
  <2>9. outstanding' <= Cardinality(Submitted)
    BY <2>1, <2>3, <2>4, <2>6
  <2>10. QED
    BY <2>5, <2>7, <2>8, <2>9
<1>6. TypeOK'
  BY <1>1, <1>5 DEF IInv, TypeOK, procs
<1>7. UNCHANGED <<pipes, life, inbox, reply, crashed>>
  BY <1>1 DEF procs
<1>8. ThreadRight(t)'
  <2>1. ThreadRight(t)
    BY DEF IInv, ThreadsRight
  <2>2. proc[t] # 0 => WorkerRight(t, proc[t])'
    BY <1>1, <1>2, <1>7, <2>1 DEF ThreadRight, WorkerRight
  <2>3. QED
    BY <1>2, <2>2 DEF ThreadRight
<1>9. ThreadsRight'
  BY <1>1, <1>2, <1>6, <1>7, <1>8, ThreadAlone DEF IInv
<1>10. JobsHeld'
  BY <1>1, <1>2 DEF IInv, JobsHeld
<1>11. JobsCounted' /\ Segment(Submitted)'
  <2>1. Submitted' = Submitted
    BY <1>1 DEF Submitted
  <2>2. QED
    BY <1>1, <1>5, <2>1 DEF IInv, JobsCounted, Numbered, Segment
<1>12. CrashRight' /\ Segment(Forks)'
  BY <1>1, <1>7 DEF IInv, CrashRight, FailedByCrash, CrashedReaped, Numbered, Forks
<1>13. Running' = Running /\ Free' = Free
  BY <1>1, <1>2 DEF Running, Free
<1>14. OwnerRight' /\ EnoughThreads'
  BY <1>1, <1>13 DEF IInv, OwnerRight, EnoughThreads
<1>15. QED
  BY <1>6, <1>9, <1>10, <1>11, <1>12, <1>14 DEF IInv, Numbered

LEMMA DispatchKeeps ==
  ASSUME IInv, NEW t \in Threads, Dispatch(t)
  PROVE  IInv'
BY SleepKeeps, TakeJobKeeps, RetireKeeps, FinishKeeps, NoPipesKeeps, PipesKeeps, MarkCloexecKeeps,
   ForkKeeps, ForkFailsKeeps, CloseEndsKeeps, SendKeeps, ReadKeeps, ReadEofKeeps, ReapKeeps,
   ReapedKeeps, SayQuitKeeps DEF Dispatch

-----------------------------------------------------------------------------
(* The steps of a worker process *)

\* A process that is alive has a thread.
LEMMA HasThread ==
  ASSUME IInv, NEW p \in Procs, life[p] = "alive"
  PROVE  \E t \in Threads : /\ proc[t] = p /\ p # 0 /\ ThreadRight(t) /\ WorkerRight(t, p)
                            /\ at[t] \notin {"none", "start", "mark", "fork"}
                            /\ \A u \in Threads \ {t} : proc[u] # p
<1>1. PICK t \in Threads : proc[t] = p
  BY DEF IInv, ThreadsRight, Nobodys
<1>2. p # 0
  BY NumbersAre
<1>3. ThreadRight(t) /\ WorkerRight(t, p)
  BY <1>1, <1>2 DEF IInv, ThreadsRight, ThreadRight
<1>4. \A u \in Threads \ {t} : proc[u] # p
  BY <1>1, <1>2 DEF IInv, ThreadsRight
<1>5. at[t] \notin {"none", "start", "mark", "fork"}
  BY <1>1, <1>2, <1>3 DEF ThreadRight, WorkerRight
<1>6. QED
  BY <1>1, <1>2, <1>3, <1>4, <1>5

\* A step of a process that is alive.
LEMMA WorkerStep ==
  ASSUME IInv, TypeOK', NEW p \in Procs, life[p] = "alive",
         UNCHANGED <<mode, control, thread, fut, huge, pipes, user>>, crashed \subseteq crashed',
         \A q \in Procs \ {p} : life'[q] = life[q] /\ inbox'[q] = inbox[q] /\ reply'[q] = reply[q],
         \A t \in Threads : proc[t] = p => WorkerRight(t, p)',
         CrashRight'
  PROVE  IInv'
<1>0. UNCHANGED <<queue, outstanding, target, live, stop, at, job, proc>>
  BY DEF control, thread
<1>1. PICK t \in Threads : /\ proc[t] = p /\ p # 0 /\ ThreadRight(t) /\ \A u \in Threads \ {t} : proc[u] # p
  BY HasThread
<1>2. ThreadRight(t)'
  <2>1. WorkerRight(t, p)'
    BY <1>1
  <2>2. QED
    BY <1>0, <1>1, <2>1 DEF ThreadRight
<1>3. ThreadsRight'
  BY <1>0, <1>1, <1>2, ThreadAlone DEF IInv
<1>4. JobsHeld' /\ JobsCounted' /\ Numbered'
  BY <1>0 DEF IInv, JobsHeld, JobsCounted, Numbered, Segment, Submitted, Forks, Busy
<1>5. OwnerRight' /\ EnoughThreads'
  BY <1>0 DEF IInv, OwnerRight, EnoughThreads, Running, Free
<1>6. QED
  BY <1>3, <1>4, <1>5 DEF IInv

LEMMA ServeKeeps ==
  ASSUME IInv, NEW p \in Procs, Serve(p)
  PROVE  IInv'
<1>1. /\ life[p] = "alive" /\ inbox[p] \in Jobs /\ reply' = [reply EXCEPT ![p] = inbox[p]]
      /\ inbox' = [inbox EXCEPT ![p] = 0]
      /\ UNCHANGED <<mode, control, thread, fut, huge, pipes, life, outs, ins, crashed, user>>
  BY DEF Serve
<1>2. TypeOK'
  BY <1>1 DEF IInv, TypeOK, control, thread
<1>3. /\ reply'[p] = inbox[p] /\ inbox'[p] = 0 /\ inbox[p] # 0
      /\ \A q \in Procs \ {p} : inbox'[q] = inbox[q] /\ reply'[q] = reply[q]
  BY <1>1, NumbersAre DEF IInv, TypeOK
<1>4. ASSUME NEW t \in Threads, proc[t] = p PROVE WorkerRight(t, p)'
  <2>1. WorkerRight(t, p)
    BY <1>1, <1>4, HasThread
  <2>2. QED
    BY <1>1, <1>3, <2>1 DEF WorkerRight, thread
<1>5. CrashRight'
  BY <1>1 DEF IInv, CrashRight, FailedByCrash, CrashedReaped
<1>6. QED
  BY <1>1, <1>2, <1>3, <1>4, <1>5, WorkerStep

\* A process exits by itself only when its thread is waiting for it.
LEMMA ExitKeeps ==
  ASSUME IInv, NEW p \in Procs, Exit(p)
  PROVE  IInv'
<1>1. /\ life[p] = "alive"
      /\ inbox[p] = Quit \/ (inbox[p] = 0 /\ pipes[p] = "closed")
      /\ life' = [life EXCEPT ![p] = "dead"]
      /\ UNCHANGED <<mode, control, thread, fut, huge, pipes, inbox, reply, outs, ins, crashed, user>>
  BY DEF Exit, Orphaned
<1>2. TypeOK'
  BY <1>1 DEF IInv, TypeOK, control, thread
<1>3. life'[p] = "dead" /\ \A q \in Procs \ {p} : life'[q] = life[q]
  BY <1>1 DEF IInv, TypeOK
<1>4. ASSUME NEW t \in Threads, proc[t] = p PROVE WorkerRight(t, p)'
  <2>1. ThreadRight(t) /\ WorkerRight(t, p) /\ at[t] \notin {"none", "start", "mark", "fork"}
    BY <1>1, <1>4, HasThread
  <2>t. at[t] \in {"none", "wait", "asleep", "start", "mark", "fork", "close", "send",
                   "read", "reap", "waitpid", "finish", "quit"}
    BY DEF IInv, TypeOK
  <2>2. at[t] \in {"reap", "waitpid"}
    <3>1. at[t] = "read" => inbox[p] # Quit
      BY <2>1, NumbersAre DEF WorkerRight, ThreadRight, IInv, TypeOK
    <3>2. QED
      BY <1>1, <2>1, <2>t, <3>1, NumbersAre DEF WorkerRight
  <2>3. QED
    BY <1>1, <1>3, <2>1, <2>2 DEF WorkerRight, thread
<1>5. CrashRight'
  <2>1. FailedByCrash' = FailedByCrash /\ CrashedReaped \subseteq CrashedReaped'
    BY <1>1, <1>3 DEF IInv, TypeOK, FailedByCrash, CrashedReaped
  <2>2. QED
    BY <1>2, <2>1, CrashStays DEF IInv
<1>6. QED
  BY <1>1, <1>2, <1>3, <1>4, <1>5, WorkerStep

LEMMA CrashKeeps ==
  ASSUME IInv, NEW p \in Procs, Crash(p)
  PROVE  IInv'
<1>1. /\ life[p] = "alive" /\ life' = [life EXCEPT ![p] = "dead"] /\ crashed' = crashed \cup {p}
      /\ UNCHANGED <<mode, control, thread, fut, huge, pipes, inbox, reply, outs, ins, user>>
  BY DEF Crash
<1>2. TypeOK'
  BY <1>1 DEF IInv, TypeOK, control, thread
<1>3. life'[p] = "dead" /\ \A q \in Procs \ {p} : life'[q] = life[q]
  BY <1>1 DEF IInv, TypeOK
<1>4. ASSUME NEW t \in Threads, proc[t] = p PROVE WorkerRight(t, p)'
  <2>1. WorkerRight(t, p) /\ at[t] \notin {"none", "start", "mark", "fork"}
    BY <1>1, <1>4, HasThread
  <2>2. QED
    BY <1>1, <1>3, <2>1 DEF WorkerRight, thread
<1>5. CrashRight'
  <2>1. FailedByCrash' = FailedByCrash /\ CrashedReaped \subseteq CrashedReaped'
    BY <1>1, <1>3 DEF IInv, TypeOK, FailedByCrash, CrashedReaped
  <2>2. QED
    BY <1>2, <2>1, CrashStays DEF IInv
<1>6. QED
  BY <1>1, <1>2, <1>3, <1>4, <1>5, WorkerStep

-----------------------------------------------------------------------------
(* The steps of the callers *)

\* A call that changes only where its caller is.
LEMMA CallerStep ==
  ASSUME IInv, NEW c \in Callers,
         NEW from, NEW to \in {"idle", "notify", "wait_all", "drain", "stop", "notify_all", "join", "down"},
         Goes(c, from, to), UNCHANGED <<mode, control, thread, fut, huge, procs>>, OwnerRight'
  PROVE  IInv'
<1>0. UNCHANGED <<mode, queue, outstanding, target, live, stop, at, job, proc, fut, huge, pipes,
                  life, inbox, reply, outs, ins, crashed>>
  BY DEF control, thread, procs
<1>1. TypeOK'
  BY <1>0 DEF IInv, TypeOK, Goes
<1>2. ThreadsRight' /\ JobsHeld' /\ JobsCounted'
  BY <1>0 DEF IInv, ThreadsRight, ThreadRight, WorkerRight, Nobodys, JobsHeld, JobsCounted, Busy, Submitted
<1>3. Numbered' /\ CrashRight' /\ EnoughThreads'
  BY <1>0 DEF IInv, Numbered, Segment, Submitted, Forks, CrashRight, FailedByCrash, CrashedReaped,
              EnoughThreads, Running, Free
<1>4. QED
  BY <1>1, <1>2, <1>3 DEF IInv

\* One that does not shut the pool down.
LEMMA OwnerStays ==
  ASSUME IInv, NEW c \in Callers, NEW from, NEW to, Goes(c, from, to),
         to \notin {"notify_all", "join", "down"}, stop' = stop, Free' = Free
  PROVE  OwnerRight'
<1>1. user'[Owner] = to \/ user'[Owner] = user[Owner]
  BY DEF IInv, TypeOK, Goes
<1>2. QED
  BY <1>1 DEF IInv, OwnerRight

LEMMA WaitsKeep ==
  ASSUME IInv, NEW c \in Callers, WaitAll(c) \/ AllDone(c)
  PROVE  IInv'
<1>1. /\ Goes(c, "idle", "wait_all") \/ Goes(c, "wait_all", "idle")
      /\ UNCHANGED <<mode, control, thread, fut, huge, procs>>
  BY DEF WaitAll, AllDone
<1>2. stop' = stop /\ Free' = Free
  BY <1>1 DEF control, thread, Free
<1>3. OwnerRight'
  BY <1>1, <1>2, OwnerStays
<1>4. QED
  BY <1>1, <1>3, CallerStep

LEMMA OwnerIsCaller == Owner \in Callers
BY ProcessPoolAssumption

LEMMA DrainsKeep ==
  ASSUME IInv, Shutdown \/ Drained
  PROVE  IInv'
<1>1. /\ Goes(Owner, "idle", "drain") \/ Goes(Owner, "drain", "stop")
      /\ UNCHANGED <<mode, control, thread, fut, huge, procs>>
  BY DEF Shutdown, Drained
<1>2. stop' = stop /\ Free' = Free
  BY <1>1 DEF control, thread, Free
<1>3. OwnerRight'
  BY <1>1, <1>2, OwnerStays, OwnerIsCaller
<1>4. QED
  BY <1>1, <1>3, CallerStep, OwnerIsCaller

LEMMA JoinedKeeps ==
  ASSUME IInv, Joined
  PROVE  IInv'
<1>1. /\ Free = Threads /\ Goes(Owner, "join", "down")
      /\ UNCHANGED <<mode, control, thread, fut, huge, procs>>
  BY DEF Joined
<1>2. stop' = stop /\ Free' = Free /\ stop
  BY <1>1 DEF control, thread, Free, Goes, IInv, OwnerRight
<1>3. OwnerRight'
  BY <1>1, <1>2 DEF OwnerRight
<1>4. QED
  BY <1>1, <1>3, CallerStep, OwnerIsCaller

LEMMA SetStopKeeps ==
  ASSUME IInv, SetStop
  PROVE  IInv'
<1>1. /\ Goes(Owner, "stop", "notify_all") /\ stop' = TRUE
      /\ UNCHANGED <<mode, queue, outstanding, target, live, at, job, proc, fut, huge, pipes,
                  life, inbox, reply, outs, ins, crashed>>
  BY DEF SetStop, thread, procs
<1>2. TypeOK'
  BY <1>1 DEF IInv, TypeOK, Goes
<1>3. ThreadsRight' /\ JobsHeld' /\ JobsCounted'
  <2>1. ThreadsRight'
    <3>1. \A t \in Threads : ThreadRight(t) => ThreadRight(t)'
      BY <1>1 DEF ThreadRight, WorkerRight
    <3>2. \A p \in Procs : Nobodys(p) => Nobodys(p)'
      BY <1>1 DEF Nobodys
    <3>3. QED
      BY <1>1, <3>1, <3>2 DEF IInv, ThreadsRight
  <2>2. JobsHeld'
    BY <1>1 DEF IInv, JobsHeld
  <2>3. JobsCounted'
    BY <1>1 DEF IInv, JobsCounted, Busy, Submitted
  <2>4. QED
    BY <2>1, <2>2, <2>3
<1>4. Numbered' /\ CrashRight' /\ EnoughThreads'
  BY <1>1 DEF IInv, Numbered, Segment, Submitted, Forks, CrashRight, FailedByCrash, CrashedReaped,
              EnoughThreads, Running, Free
<1>5. OwnerRight'
  BY <1>1, OwnerIsCaller DEF OwnerRight, Goes, IInv, TypeOK
<1>6. QED
  BY <1>2, <1>3, <1>4, <1>5 DEF IInv

\* Threads that are woken or made.
LEMMA Awake ==
  ASSUME IInv, TypeOK',
         \A u \in Threads : at'[u] = at[u] \/ (at[u] \in {"asleep", "none"} /\ at'[u] = "wait"),
         UNCHANGED <<queue, job, proc, fut, huge, procs>>
  PROVE  ThreadsRight' /\ JobsHeld' /\ Numbered' /\ CrashRight' /\ Busy' = Busy /\ Submitted' = Submitted
<1>0. UNCHANGED <<pipes, life, inbox, reply, crashed>>
  BY DEF procs
<1>1. ASSUME NEW u \in Threads PROVE ThreadRight(u)'
  <2>1. ThreadRight(u)
    BY DEF IInv, ThreadsRight
  <2>2. CASE at'[u] = at[u]
    BY <1>0, <2>1, <2>2 DEF ThreadRight, WorkerRight
  <2>3. CASE at[u] = "none" /\ at'[u] = "wait"
    BY <2>1, <2>3 DEF ThreadRight
  <2>4. CASE at[u] = "asleep" /\ at'[u] = "wait"
    BY <1>0, <2>1, <2>4 DEF ThreadRight, WorkerRight
  <2>5. QED
    BY <2>2, <2>3, <2>4
<1>2. ThreadsRight'
  BY <1>0, <1>1 DEF IInv, ThreadsRight, Nobodys
<1>3. \A u \in Threads : at'[u] = "finish" <=> at[u] = "finish"
  OBVIOUS
<1>4. JobsHeld'
  BY <1>3 DEF IInv, JobsHeld
<1>5. Numbered' /\ CrashRight' /\ Busy' = Busy /\ Submitted' = Submitted
  BY <1>0 DEF IInv, Numbered, Segment, Submitted, Forks, CrashRight, FailedByCrash, CrashedReaped, Busy
<1>6. QED
  BY <1>2, <1>4, <1>5

\* Threads that are woken only.
LEMMA WakeStep ==
  ASSUME IInv, NEW c \in Callers,
         NEW from, NEW to \in {"idle", "notify", "wait_all", "drain", "stop", "notify_all", "join", "down"},
         Goes(c, from, to), at' \in [Threads -> {"none", "wait", "asleep", "start", "mark", "fork", "close", "send",
                         "read", "reap", "waitpid", "finish", "quit"}],
         \A u \in Threads : at'[u] = at[u] \/ (at[u] = "asleep" /\ at'[u] = "wait"),
         UNCHANGED <<mode, control, job, proc, fut, huge, procs>>,
         to = "down" => FALSE, to \in {"notify_all", "join"} => stop
  PROVE  IInv'
<1>0. UNCHANGED <<queue, outstanding, target, live, stop, pipes, life, inbox, reply, outs, ins, crashed>>
  BY DEF control, procs
<1>1. TypeOK'
  BY <1>0 DEF IInv, TypeOK, Goes
<1>2. ThreadsRight' /\ JobsHeld' /\ Numbered' /\ CrashRight' /\ Busy' = Busy /\ Submitted' = Submitted
  BY <1>0, <1>1, Awake
<1>3. Running' = Running /\ Free' = Free
  BY DEF Running, Free
<1>4. JobsCounted' /\ EnoughThreads'
  BY <1>0, <1>2, <1>3 DEF IInv, JobsCounted, EnoughThreads
<1>5. user'[Owner] = to \/ user'[Owner] = user[Owner]
  BY DEF IInv, TypeOK, Goes
<1>6. OwnerRight'
  BY <1>0, <1>3, <1>5 DEF IInv, OwnerRight
<1>7. QED
  BY <1>1, <1>2, <1>4, <1>6 DEF IInv

LEMMA NotifiesKeep ==
  ASSUME IInv, NotifyAll \/ \E c \in Callers : NotifyOne(c)
  PROVE  IInv'
<1>1. CASE NotifyAll
  <2>1. Goes(Owner, "notify_all", "join") /\ stop /\ at' = Woken
        /\ UNCHANGED <<mode, control, job, proc, fut, huge, procs>>
    BY <1>1 DEF NotifyAll, Goes, IInv, OwnerRight
  <2>2. /\ at' \in [Threads -> {"none", "wait", "asleep", "start", "mark", "fork", "close", "send",
                         "read", "reap", "waitpid", "finish", "quit"}]
        /\ \A u \in Threads : at'[u] = at[u] \/ (at[u] = "asleep" /\ at'[u] = "wait")
    BY <2>1 DEF IInv, TypeOK, Woken
  <2>3. QED
    BY <2>1, <2>2, WakeStep, OwnerIsCaller
<1>2. ASSUME NEW c \in Callers, NotifyOne(c) PROVE IInv'
  <2>1. Goes(c, "notify", "idle") /\ UNCHANGED <<mode, control, job, proc, fut, huge, procs>>
    BY <1>2 DEF NotifyOne
  <2>2. at' = at \/ \E t \in Threads : at[t] = "asleep" /\ at' = [at EXCEPT ![t] = "wait"]
    BY <1>2 DEF NotifyOne, Move
  <2>3. /\ at' \in [Threads -> {"none", "wait", "asleep", "start", "mark", "fork", "close", "send",
                         "read", "reap", "waitpid", "finish", "quit"}]
        /\ \A u \in Threads : at'[u] = at[u] \/ (at[u] = "asleep" /\ at'[u] = "wait")
    BY <2>2 DEF IInv, TypeOK
  <2>4. QED
    BY <2>1, <2>3, WakeStep
<1>3. QED
  BY <1>1, <1>2

LEMMA SubmitKeeps ==
  ASSUME IInv, NEW c \in Callers, Submit(c)
  PROVE  IInv'
<1>0. PICK j \in Jobs : j = Cardinality(Submitted) + 1
  BY DEF Submit
<1>1. /\ Segment(Submitted) /\ j \notin Submitted /\ Segment(Submitted \cup {j})
      /\ IsFiniteSet(Submitted) /\ Cardinality(Submitted) \in Nat
      /\ Cardinality(Submitted \cup {j}) = Cardinality(Submitted) + 1
  <2>1. Segment(Submitted)
    BY DEF IInv, Numbered
  <2>2. j \notin Submitted /\ Segment(Submitted \cup {j}) /\ IsFiniteSet(Submitted)
    BY <1>0, <2>1, SegmentGrows
  <2>3. QED
    BY <2>1, <2>2, CountOne
<1>2. fut[j] = "none"
  BY <1>1 DEF Submitted
<1>3. UNCHANGED <<mode, target, live, stop, at, job, proc, huge, pipes,
                  life, inbox, reply, outs, ins, crashed>>
  BY DEF Submit, thread, procs
<1>4. \/ /\ stop /\ fut' = [fut EXCEPT ![j] = "refused"] /\ Goes(c, "idle", "idle")
         /\ queue' = queue /\ outstanding' = outstanding
      \/ /\ ~stop /\ fut' = [fut EXCEPT ![j] = "pending"] /\ queue' = Append(queue, j)
         /\ outstanding' = outstanding + 1 /\ Goes(c, "idle", "notify")
  BY <1>0 DEF Submit
<1>5. /\ queue \in Seq(Jobs) /\ Len(queue) \in Nat /\ outstanding \in 0..MaxJobs /\ MaxJobs \in Nat
      /\ \A i \in 1..Len(queue) : queue[i] \in Jobs
      /\ fut \in [Jobs -> {"none", "pending", "answered", "crash", "nostart", "refused"}]
      /\ job \in [Threads -> {0} \cup Jobs]
  BY NumbersAre DEF IInv, TypeOK
<1>6. /\ \A k \in Jobs \ {j} : fut'[k] = fut[k]
      /\ fut'[j] \in {"refused", "pending"}
      /\ fut' \in [Jobs -> {"none", "pending", "answered", "crash", "nostart", "refused"}]
  BY <1>4, <1>5
<1>7. Submitted' = Submitted \cup {j}
  BY <1>6 DEF Submitted
<1>8. Busy' = Busy
  BY <1>3 DEF Busy
<1>9. outstanding' = Len(queue') + Cardinality(Busy) /\ outstanding' <= Cardinality(Submitted')
  <2>1. Cardinality(Busy) \in Nat
    BY FiniteParts, FS_CardinalityType DEF IInv
  <2>2. outstanding = Len(queue) + Cardinality(Busy) /\ outstanding <= Cardinality(Submitted)
    BY DEF IInv, JobsCounted
  <2>3. Cardinality(Submitted') = Cardinality(Submitted) + 1
    BY <1>1, <1>7
  <2>4. Len(Append(queue, j)) = Len(queue) + 1
    BY <1>5
  <2>5. CASE queue' = queue /\ outstanding' = outstanding
    <3>1. outstanding' = Len(queue') + Cardinality(Busy)
      BY <2>2, <2>5
    <3>2. QED
      BY <1>1, <1>5, <2>2, <2>3, <2>5, <3>1
  <2>6. CASE queue' = Append(queue, j) /\ outstanding' = outstanding + 1
    <3>1. Len(queue') = Len(queue) + 1
      BY <2>4, <2>6
    <3>2. outstanding + 1 = (Len(queue) + 1) + Cardinality(Busy)
      BY <1>5, <2>1, <2>2
    <3>3. outstanding' = Len(queue') + Cardinality(Busy)
      BY <2>6, <3>1, <3>2
    <3>4. QED
      BY <1>1, <1>5, <2>2, <2>3, <2>6, <3>3
  <2>7. QED
    BY <1>4, <2>5, <2>6
<1>10. outstanding' \in 0..MaxJobs
  <2>1. Submitted' \subseteq Jobs
    BY DEF Submitted
  <2>2. IsFiniteSet(Submitted') /\ Cardinality(Submitted') <= MaxJobs /\ Cardinality(Submitted') \in Nat
    BY <2>1, NumbersAre, FS_Subset, FS_CardinalityType
  <2>3. QED
    BY <1>4, <1>5, <1>9, <2>2
<1>11. TypeOK'
  <2>1. queue' \in Seq(Jobs)
    BY <1>4, <1>5
  <2>2. user' \in [Callers -> {"idle", "notify", "wait_all", "drain", "stop", "notify_all", "join", "down"}]
    BY <1>4 DEF IInv, TypeOK, Goes
  <2>3. QED
    BY <1>3, <1>6, <1>10, <2>1, <2>2 DEF IInv, TypeOK
<1>12. ThreadsRight'
  BY <1>3 DEF IInv, ThreadsRight, ThreadRight, WorkerRight, Nobodys
<1>13. JobsHeld'
  <2>1. Len(queue') \in Nat /\ Len(queue) <= Len(queue') /\ \A i \in 1..Len(queue) : queue'[i] = queue[i]
    BY <1>4, <1>5
  <2>2. /\ \A i \in 1..Len(queue') : i \in 1..Len(queue) \/ queue'[i] = j
        /\ fut'[j] = "pending" => \E i \in 1..Len(queue') : queue'[i] = j
    <3>1. CASE stop
      BY <1>4, <1>5, <3>1
    <3>2. CASE ~stop
      <4>1. /\ queue' = Append(queue, j) /\ Len(queue') = Len(queue) + 1 /\ queue'[Len(queue) + 1] = j
            /\ Len(queue) + 1 \in 1..Len(queue')
        BY <1>4, <1>5, <3>2
      <4>2. \A i \in 1..Len(queue') : i \in 1..Len(queue) \/ i = Len(queue) + 1
        BY <4>1, <1>5
      <4>3. QED
        BY <4>1, <4>2
    <3>3. QED
      BY <3>1, <3>2
  <2>3. ASSUME NEW i \in 1..Len(queue') PROVE fut'[queue'[i]] # "none"
    <3>1. CASE queue'[i] = j
      BY <3>1, <1>6
    <3>2. CASE i \in 1..Len(queue) /\ queue'[i] # j
      <4>1. fut[queue[i]] # "none" /\ queue[i] \in Jobs /\ queue'[i] = queue[i]
        BY <3>2, <1>5, <2>1 DEF IInv, JobsHeld
      <4>2. QED
        BY <4>1, <3>2, <1>6
    <3>3. QED
      BY <3>1, <3>2, <2>2
  <2>4. ASSUME NEW k \in Jobs, fut'[k] = "pending"
        PROVE  \/ \E i \in 1..Len(queue') : queue'[i] = k
               \/ \E t \in Threads : job'[t] = k /\ at'[t] # "finish"
    <3>1. CASE k = j
      BY <3>1, <2>2, <2>4
    <3>2. CASE k # j
      <4>1. fut[k] = "pending"
        BY <3>2, <2>4, <1>6
      <4>2. CASE \E i \in 1..Len(queue) : queue[i] = k
        BY <4>2, <2>1
      <4>3. CASE \E t \in Threads : job[t] = k /\ at[t] # "finish"
        BY <4>3, <1>3
      <4>4. QED
        BY <4>1, <4>2, <4>3 DEF IInv, JobsHeld
    <3>3. QED
      BY <3>1, <3>2
  <2>5. ASSUME NEW t \in Threads, job'[t] # 0
        PROVE  fut'[job'[t]] # "none" /\ (at'[t] = "finish" => fut'[job'[t]] # "pending")
    <3>1. job[t] \in Jobs /\ fut[job[t]] # "none" /\ (at[t] = "finish" => fut[job[t]] # "pending")
      BY <2>5, <1>3, <1>5 DEF IInv, JobsHeld
    <3>2. job[t] # j
      BY <3>1, <1>2
    <3>3. QED
      BY <3>1, <3>2, <1>3, <1>6
  <2>6. QED
    BY <2>3, <2>4, <2>5 DEF JobsHeld
<1>14. queue' # <<>> => live' > 0
  <2>1. CASE stop
    BY <2>1, <1>3, <1>4 DEF IInv, JobsCounted
  <2>2. CASE ~stop
    <3>1. live >= target /\ target \in Nat \ {0} /\ live \in Nat
      BY <2>2, NumbersAre, ProcessPoolAssumption DEF IInv, EnoughThreads, TypeOK
    <3>2. live' > 0
      BY <1>3, <3>1
    <3>3. QED
      BY <3>2
  <2>3. QED
    BY <2>1, <2>2
<1>15. JobsCounted'
  BY <1>8, <1>9, <1>14 DEF JobsCounted
<1>16. Numbered'
  <2>1. Forks' = Forks
    BY <1>3 DEF Forks
  <2>2. QED
    BY <1>1, <1>7, <2>1 DEF IInv, Numbered, Segment
<1>17. CrashRight'
  <2>1. FailedByCrash' = FailedByCrash
    BY <1>2, <1>3, <1>6 DEF FailedByCrash
  <2>2. QED
    BY <1>3, <2>1 DEF IInv, CrashRight, CrashedReaped
<1>18. OwnerRight'
  <2>1. Free' = Free
    BY <1>3 DEF Free
  <2>2. QED
    BY <1>3, <1>4, <2>1, OwnerStays
<1>19. EnoughThreads'
  BY <1>3 DEF IInv, EnoughThreads, Running, Free
<1>20. QED
  BY <1>11, <1>12, <1>13, <1>15, <1>16, <1>17, <1>18, <1>19 DEF IInv

\* As many threads are made as are missing, however many were told to leave.
LEMMA SetWorkersKeeps ==
  ASSUME IInv, NEW c \in Callers, NEW n \in Sizes, SetWorkers(c, n)
  PROVE  IInv'
<1>0. PICK add : add = Missing(n, live)
  OBVIOUS
<1>1. /\ ~stop /\ add <= Cardinality(Free) /\ target' = n /\ live' = live + add
      /\ at' = [t \in Threads |->
                 IF t \in Free /\ Cardinality({u \in Free : u < t}) < add THEN "wait" ELSE Woken[t]]
      /\ UNCHANGED <<mode, queue, outstanding, stop, job, proc, fut, huge, procs, user>>
  BY <1>0 DEF SetWorkers, Resize
<1>2. /\ n \in Nat \ {0} /\ live \in Nat /\ add \in Nat /\ live + add >= n /\ MaxThreads \in Nat
  <2>1. n \in 1..MaxThreads /\ live \in 0..MaxThreads /\ MaxThreads \in Nat
    BY ProcessPoolAssumption DEF IInv, TypeOK
  <2>2. QED
    BY <1>0, <2>1 DEF Missing
<1> DEFINE first == {t \in Free : Cardinality({u \in Free : u < t}) < add}
<1>3. IsFiniteSet(first) /\ Cardinality(first) = add
  <2>1. Free \subseteq Nat /\ IsFiniteSet(Free)
    BY NumbersAre, FiniteParts DEF Free, IInv
  <2>2. QED
    BY <1>1, <1>2, <2>1, FirstOnes
<1>4. \A t \in Threads : at'[t] = IF t \in first THEN "wait" ELSE Woken[t]
  BY <1>1
<1>5. first \subseteq Free
  OBVIOUS
<1> HIDE DEF first
<1>6. /\ at' \in [Threads -> {"none", "wait", "asleep", "start", "mark", "fork", "close", "send",
                         "read", "reap", "waitpid", "finish", "quit"}]
      /\ \A u \in Threads : at'[u] = at[u] \/ (at[u] \in {"asleep", "none"} /\ at'[u] = "wait")
  <2>1. at' = [t \in Threads |-> at'[t]]
    BY <1>1
  <2>2. \A u \in Threads : Woken[u] = IF at[u] = "asleep" THEN "wait" ELSE at[u]
    BY DEF Woken
  <2>3. \A u \in first : at[u] = "none"
    BY <1>5 DEF Free
  <2>4. \A u \in Threads : at'[u] = at[u] \/ (at[u] \in {"asleep", "none"} /\ at'[u] = "wait")
    BY <1>4, <2>2, <2>3
  <2>5. QED
    BY <2>1, <2>4 DEF IInv, TypeOK
<1>7. Running' = Running \cup first /\ Running \cap first = {}
  <2>1. \A u \in Threads : Woken[u] = IF at[u] = "asleep" THEN "wait" ELSE at[u]
    BY DEF Woken
  <2>2. \A u \in first : at[u] = "none" /\ u \in Threads
    BY <1>5 DEF Free
  <2>3. \A u \in Threads : u \in Running' <=> u \in Running \/ u \in first
    BY <1>1, <1>4, <2>1, <2>2 DEF Running, Free
  <2>4. Running \subseteq Threads /\ Running' \subseteq Threads
    BY DEF Running
  <2>5. Running \cap first = {}
    BY <2>2 DEF Running, Free
  <2>6. QED
    BY <2>2, <2>3, <2>4, <2>5
<1>8. live' = Cardinality(Running')
  <2>1. IsFiniteSet(Running) /\ live = Cardinality(Running)
    BY FiniteParts DEF IInv, EnoughThreads
  <2>2. Cardinality(Running \cup first) = Cardinality(Running) + Cardinality(first) - Cardinality(Running \cap first)
    BY <2>1, <1>3, FS_Union
  <2>3. Cardinality(Running \cap first) = 0
    BY <1>7, FS_EmptySet
  <2>4. Cardinality(Running') = Cardinality(Running) + Cardinality(first) - Cardinality(Running \cap first)
    BY <2>2, <1>7
  <2>5. QED
    BY <1>1, <1>2, <1>3, <2>1, <2>3, <2>4
<1>9. live' \in 0..MaxThreads
  <2>1. Running' \subseteq Threads
    BY DEF Running
  <2>2. Cardinality(Running') \in Nat /\ Cardinality(Running') <= MaxThreads
    BY <2>1, NumbersAre, FS_Subset, FS_CardinalityType
  <2>3. QED
    BY <1>2, <1>8, <2>2
<1>10. TypeOK'
  BY <1>1, <1>6, <1>9 DEF IInv, TypeOK, procs
<1>11. ThreadsRight' /\ JobsHeld' /\ Numbered' /\ CrashRight' /\ Busy' = Busy /\ Submitted' = Submitted
  BY <1>1, <1>6, <1>10, Awake
<1>12. JobsCounted'
  <2>1. live' > 0
    BY <1>1, <1>2
  <2>2. QED
    BY <1>1, <1>11, <2>1 DEF IInv, JobsCounted
<1>13. EnoughThreads'
  BY <1>1, <1>2, <1>8 DEF EnoughThreads
<1>14. OwnerRight'
  BY <1>1 DEF IInv, OwnerRight
<1>15. QED
  BY <1>10, <1>11, <1>12, <1>13, <1>14 DEF IInv

-----------------------------------------------------------------------------
(* The theorems *)

LEMMA InitIInv == Init => IInv
<1> SUFFICES ASSUME Init PROVE IInv
  OBVIOUS
<1>1. /\ queue = <<>> /\ outstanding = 0 /\ stop = FALSE /\ target \in Sizes /\ live = target
      /\ at = [t \in Threads |-> IF t <= target THEN "wait" ELSE "none"]
      /\ job = [t \in Threads |-> 0] /\ proc = [t \in Threads |-> 0]
      /\ fut = [j \in Jobs |-> "none"] /\ huge \in Oversized
      /\ pipes = [p \in Procs |-> "none"] /\ life = [p \in Procs |-> "none"]
      /\ inbox = [p \in Procs |-> 0] /\ reply = [p \in Procs |-> 0]
      /\ outs = [p \in Procs |-> {}] /\ ins = [p \in Procs |-> {}] /\ crashed = {}
      /\ user = [c \in Callers |-> "idle"]
  BY DEF Init
<1>2. target \in 1..MaxThreads /\ MaxThreads \in Nat /\ MaxJobs \in Nat /\ huge \subseteq Jobs
  BY <1>1, ProcessPoolAssumption DEF Jobs
<1>3. TypeOK
  <2>1. live \in 0..MaxThreads /\ outstanding \in 0..MaxJobs
    BY <1>1, <1>2
  <2>2. mode \in Modes
    BY DEF Init
  <2>a. stop \in BOOLEAN
    BY <1>1
  <2>b. queue \in Seq(Jobs) /\ crashed \subseteq Procs
    BY <1>1
  <2>3. at \in [Threads -> {"none", "wait", "asleep", "start", "mark", "fork", "close", "send",
                         "read", "reap", "waitpid", "finish", "quit"}]
    BY <1>1
  <2>4. /\ job \in [Threads -> {0} \cup Jobs] /\ proc \in [Threads -> {0} \cup Procs]
        /\ inbox \in [Procs -> {0, Quit} \cup Jobs] /\ reply \in [Procs -> {0} \cup Jobs]
        /\ outs \in [Procs -> SUBSET Procs] /\ ins \in [Procs -> SUBSET Procs]
    BY <1>1
  <2>5. QED
    BY <1>1, <1>2, <2>1, <2>2, <2>a, <2>b, <2>3, <2>4 DEF TypeOK
<1>4. ThreadsRight
  BY <1>1, NumbersAre DEF ThreadsRight, ThreadRight, Nobodys
<1>5. Submitted = {} /\ Forks = {} /\ Busy = {} /\ FailedByCrash = {} /\ CrashedReaped = {}
  BY <1>1 DEF Submitted, Forks, Busy, FailedByCrash, CrashedReaped
<1>6. Cardinality({}) = 0
  BY FS_EmptySet
<1>7. JobsHeld
  BY <1>1 DEF JobsHeld
<1>8. JobsCounted
  <2>1. Len(queue) = 0
    BY <1>1
  <2>2. QED
    BY <1>1, <1>5, <1>6, <2>1 DEF JobsCounted
<1>9. Numbered /\ CrashRight
  <2>1. {} = 1..0
    OBVIOUS
  <2>2. QED
    BY <1>5, <1>6, <2>1 DEF Numbered, Segment, CrashRight
<1>10. OwnerRight
  BY <1>1, OwnerIsCaller DEF OwnerRight
<1>11. EnoughThreads
  <2>1. Running = 1..target
    <3>1. \A t \in Threads : t \in Running <=> t <= target
      BY <1>1 DEF Running, Free
    <3>2. \A t \in Nat : t \in 1..target <=> t \in Threads /\ t <= target
      BY <1>2 DEF Threads
    <3>3. Running \subseteq Threads /\ Threads \subseteq Nat /\ 1..target \subseteq Nat
      BY NumbersAre, <1>2 DEF Running
    <3>4. QED
      BY <3>1, <3>2, <3>3
  <2>2. \A n \in Nat : Cardinality(1..n) = n
    BY FS_Interval
  <2>3. QED
    BY <1>1, <1>2, <2>1, <2>2 DEF EnoughThreads
<1>12. QED
  BY <1>3, <1>4, <1>7, <1>8, <1>9, <1>10, <1>11 DEF IInv

LEMMA NextIInv == IInv /\ [Next]_vars => IInv'
<1> SUFFICES ASSUME IInv, [Next]_vars PROVE IInv'
  OBVIOUS
<1>1. CASE \E t \in Threads : Dispatch(t)
  BY <1>1, DispatchKeeps
<1>2. CASE \E p \in Procs : Work(p) \/ Crash(p)
  BY <1>2, ServeKeeps, ExitKeeps, CrashKeeps DEF Work
<1>3. CASE \E c \in Callers : \/ Submit(c) \/ WaitAll(c) \/ Continue(c)
                              \/ \E n \in Sizes : SetWorkers(c, n)
  BY <1>3, SubmitKeeps, WaitsKeep, NotifiesKeep, SetWorkersKeeps DEF Continue
<1>4. CASE Shutdown \/ ShutsDown
  BY <1>4, DrainsKeep, SetStopKeeps, NotifiesKeep, JoinedKeeps DEF ShutsDown
<1>5. CASE UNCHANGED vars
  <2>1. UNCHANGED <<mode, queue, outstanding, target, live, stop, at, job, proc, fut, huge, pipes,
                    life, inbox, reply, outs, ins, crashed, user>>
    BY <1>5 DEF vars, control, thread, procs
  <2>2. TypeOK' /\ OwnerRight' /\ EnoughThreads' /\ JobsHeld' /\ JobsCounted'
    BY <2>1 DEF IInv, TypeOK, OwnerRight, EnoughThreads, Running, Free, JobsHeld, JobsCounted, Busy, Submitted
  <2>3. ThreadsRight' /\ Numbered' /\ CrashRight'
    BY <2>1 DEF IInv, ThreadsRight, ThreadRight, WorkerRight, Nobodys, Numbered, Segment, Submitted, Forks,
                CrashRight, FailedByCrash, CrashedReaped
  <2>4. QED
    BY <2>2, <2>3 DEF IInv
<1>6. QED
  BY <1>1, <1>2, <1>3, <1>4, <1>5 DEF Next

\* When nothing is outstanding, nothing is queued and no thread has a job.
LEMMA NoneOutstanding ==
  ASSUME IInv, outstanding = 0
  PROVE  queue = <<>> /\ \A j \in Jobs : fut[j] # "pending"
<1>1. IsFiniteSet(Busy) /\ Cardinality(Busy) \in Nat
  BY FiniteParts, FS_CardinalityType DEF IInv
<1>2. queue \in Seq(Jobs) /\ Len(queue) \in Nat
  BY DEF IInv, TypeOK
<1>3. outstanding = Len(queue) + Cardinality(Busy)
  BY DEF IInv, JobsCounted
<1>4. Len(queue) = 0 /\ Cardinality(Busy) = 0
  BY <1>1, <1>2, <1>3
<1>5. queue = <<>> /\ Busy = {}
  BY <1>1, <1>2, <1>4, FS_EmptySet
<1>6. \A i \in 1..Len(queue) : FALSE
  BY <1>4
<1>7. \A t \in Threads : job[t] = 0
  BY <1>5 DEF Busy
<1>8. QED
  BY <1>5, <1>6, <1>7, NumbersAre DEF IInv, JobsHeld

\* One future is failed by a crash at most for each worker that crashed and was
\* waited for.
LEMMA ContainedInIInv ==
  ASSUME IInv
  PROVE  CrashIsContained
<1>1. IsFiniteSet(crashed) /\ IsFiniteSet(CrashedReaped) /\ IsFiniteSet(FailedByCrash)
  BY FiniteParts DEF IInv
<1>2. Cardinality(CrashedReaped) <= Cardinality(crashed)
  BY <1>1, FS_Subset DEF CrashedReaped
<1>3. Cardinality(CrashedReaped) \in Nat /\ Cardinality(crashed) \in Nat /\ Cardinality(FailedByCrash) \in Nat
  BY <1>1, FS_CardinalityType
<1>4. Cardinality(FailedByCrash) <= Cardinality(CrashedReaped)
  BY DEF IInv, CrashRight
<1>5. Cardinality(FailedByCrash) <= Cardinality(crashed)
  BY <1>2, <1>3, <1>4
<1>6. QED
  BY <1>5 DEF CrashIsContained, FailedByCrash

LEMMA NothingLeftInIInv ==
  ASSUME IInv
  PROVE  ShutdownLeavesNothing
<1> SUFFICES ASSUME user[Owner] = "down"
             PROVE  /\ \A j \in Jobs : fut[j] # "pending"
                    /\ \A p \in Procs : life[p] \in {"none", "reaped"} /\ pipes[p] \in {"none", "closed"}
  BY DEF ShutdownLeavesNothing
<1>1. \A t \in Threads : at[t] = "none" /\ job[t] = 0 /\ proc[t] = 0
  BY DEF IInv, OwnerRight, Free, ThreadsRight, ThreadRight
<1>2. Running = {}
  BY <1>1 DEF Running, Free
<1>3. live = 0
  BY <1>2, FS_EmptySet DEF IInv, EnoughThreads
<1>4. queue = <<>>
  BY <1>3 DEF IInv, JobsCounted
<1>5. \A i \in 1..Len(queue) : FALSE
  BY <1>4
<1>6. \A j \in Jobs : fut[j] # "pending"
  BY <1>1, <1>5, NumbersAre DEF IInv, JobsHeld
<1>7. \A p \in Procs : Nobodys(p)
  BY <1>1, NumbersAre DEF IInv, ThreadsRight
<1>8. QED
  BY <1>6, <1>7 DEF Nobodys

\* Whatever is submitted, crashes, is grown and shrunk: as long as the pool is not
\* stopped it has the threads asked for last, live_ counts them, a worker that dies
\* fails one job at most, and after shutdown no worker, no pipe and no unsettled
\* job is left (process_pool::dispatch, set_workers, reap, shutdown).
THEOREM WorkersRight == Spec => []WorkersInv
<1>1. IInv => WorkersInv
  BY ContainedInIInv, NothingLeftInIInv DEF WorkersInv, IInv
<1>2. QED
  BY InitIInv, NextIInv, <1>1, PTL DEF Spec

\* wait_all and the first wait of shutdown return only when the future of every
\* job submitted until then is set.
THEOREM WaitsSeeAllSettled == Spec => WaitSeesAllSettled
<1> DEFINE Step == \A c \in Callers :
       (user[c] = "wait_all" /\ user'[c] = "idle") \/ (user[c] = "drain" /\ user'[c] = "stop")
         => \A j \in Jobs : fut[j] # "pending"
<1>1. IInv /\ [Next]_vars => [Step]_vars
  <2> SUFFICES ASSUME IInv, Next, NEW c \in Callers,
                      (user[c] = "wait_all" /\ user'[c] = "idle") \/ (user[c] = "drain" /\ user'[c] = "stop")
               PROVE  \A j \in Jobs : fut[j] # "pending"
    OBVIOUS
  <2>1. user' # user
    OBVIOUS
  <2>2. \/ \E d \in Callers : Submit(d) \/ WaitAll(d) \/ Continue(d)
        \/ Shutdown \/ ShutsDown
    BY <2>1 DEF Next, Dispatch, Work, Crash, Serve, Exit, SetWorkers, Resize, Sleep, TakeJob, Retire, Finish,
         NoPipes, Pipes, MarkCloexec, Fork, ForkFails, CloseEnds, Send, Read, ReadEof, Reap, Reaped, SayQuit
  <2>3. ASSUME NEW d \in Callers, NEW from, NEW to, Goes(d, from, to),
               from \notin {"wait_all", "drain"}
        PROVE  FALSE
    BY <2>3 DEF Goes, IInv, TypeOK
  <2>4. outstanding = 0
    <3>1. CASE \E d \in Callers : Submit(d) \/ WaitAll(d) \/ NotifyOne(d)
      BY <2>3, <3>1 DEF Submit, WaitAll, NotifyOne
    <3>2. CASE \E d \in Callers : AllDone(d)
      BY <3>2 DEF AllDone
    <3>3. CASE Shutdown \/ SetStop \/ NotifyAll \/ Joined
      BY <2>3, <3>3, OwnerIsCaller DEF Shutdown, SetStop, NotifyAll, Joined
    <3>4. CASE Drained
      BY <3>4 DEF Drained
    <3>5. QED
      BY <2>2, <3>1, <3>2, <3>3, <3>4 DEF Continue, ShutsDown
  <2>5. QED
    BY <2>4, NoneOutstanding
<1>2. QED
  BY InitIInv, NextIInv, <1>1, PTL DEF Spec, WaitSeesAllSettled
=============================================================================
