----------------------------- MODULE ProcessPool -----------------------------
(***************************************************************************)
(* forge::os::process_pool on POSIX: dispatch threads of the parent take   *)
(* jobs off one queue, each starts a worker process when it has none and   *)
(* talks to it over a pair of pipes.  What a thread does in one hold of m_ *)
(* is one action, and so is each system call: a fork copies the pipe ends  *)
(* the parent has open at that moment into the child.  Processes are       *)
(* numbered in the order their pipes are made.                             *)
(***************************************************************************)
EXTENDS Naturals, Sequences, FiniteSets

CONSTANTS Callers,     \* threads that use the pool
          Owner,       \* the one of them that shuts it down
          Modes,       \* options::mode
          Sizes,       \* worker counts asked for
          Oversized,   \* sets of jobs whose frame may be longer than a frame can be
          MaxThreads, MaxProcs, MaxJobs, MaxCrashes   \* bounds

ASSUME ProcessPoolAssumption ==
  /\ IsFiniteSet(Callers) /\ Owner \in Callers
  /\ Modes \subseteq {"fork", "spawn"} /\ Modes # {}
  /\ Sizes \subseteq 1..MaxThreads /\ Sizes # {}
  /\ Oversized \subseteq SUBSET (1..MaxJobs)
  /\ MaxThreads \in Nat /\ MaxProcs \in Nat /\ MaxJobs \in Nat /\ MaxCrashes \in Nat

Threads == 1..MaxThreads
Procs == 1..MaxProcs
Jobs == 1..MaxJobs
Quit == MaxJobs + 1      \* the quit message

VARIABLES
  mode,                          \* opt_.mode
  queue, outstanding, target, live, stop,   \* under m_: q_, outstanding_, target_, live_, stop_
  at, job, proc,                 \* of a dispatch thread: where it is, j, w
  fut,                           \* the future of a job
  huge,                          \* jobs whose frame is too long
  pipes,                         \* of a worker: what the parent did to its pipes
  life, inbox, reply,            \* the process, the task pipe, the result pipe
  outs, ins,                     \* of a worker: whose result and task pipes' write ends it got by fork
  crashed,                       \* history: workers that died by themselves
  user                           \* where a caller is

control == <<queue, outstanding, target, live, stop>>
thread == <<at, job, proc>>
procs == <<pipes, life, inbox, reply, outs, ins, crashed>>
vars == <<mode, control, thread, fut, huge, procs, user>>

TypeOK ==
  /\ mode \in Modes
  /\ queue \in Seq(Jobs) /\ outstanding \in 0..MaxJobs
  /\ target \in Sizes /\ live \in 0..MaxThreads /\ stop \in BOOLEAN
  /\ at \in [Threads -> {"none", "wait", "asleep", "start", "mark", "fork", "close", "send",
                         "read", "reap", "waitpid", "finish", "quit"}]
  /\ job \in [Threads -> {0} \cup Jobs] /\ proc \in [Threads -> {0} \cup Procs]
  /\ fut \in [Jobs -> {"none", "pending", "answered", "crash", "nostart", "refused"}]
  /\ huge \subseteq Jobs
  /\ pipes \in [Procs -> {"none", "fresh", "marked", "forked", "kept", "closed"}]
  /\ life \in [Procs -> {"none", "alive", "dead", "reaped"}]
  /\ inbox \in [Procs -> {0, Quit} \cup Jobs]
  /\ reply \in [Procs -> {0} \cup Jobs]
  /\ outs \in [Procs -> SUBSET Procs] /\ ins \in [Procs -> SUBSET Procs]
  /\ crashed \subseteq Procs
  /\ user \in [Callers -> {"idle", "notify", "wait_all", "drain", "stop", "notify_all", "join", "down"}]

\* A thread that is over is as one never made: its number is used again, and
\* slots_, which only grows, is left out.
Free == {t \in Threads : at[t] = "none"}
\* Threads that have not decided to leave.
Running == {t \in Threads \ Free : at[t] # "quit" /\ ~(at[t] \in {"reap", "waitpid"} /\ job[t] = 0)}
Alive == {p \in Procs : life[p] = "alive"}
Forks == {p \in Procs : pipes[p] # "none"}
Submitted == {j \in Jobs : fut[j] # "none"}

\* The constructor has set the first worker count.
Init ==
  /\ mode \in Modes
  /\ queue = <<>> /\ outstanding = 0 /\ stop = FALSE
  /\ target \in Sizes /\ live = target
  /\ at = [t \in Threads |-> IF t <= target THEN "wait" ELSE "none"]
  /\ job = [t \in Threads |-> 0] /\ proc = [t \in Threads |-> 0]
  /\ fut = [j \in Jobs |-> "none"] /\ huge \in Oversized
  /\ pipes = [p \in Procs |-> "none"] /\ life = [p \in Procs |-> "none"]
  /\ inbox = [p \in Procs |-> 0] /\ reply = [p \in Procs |-> 0]
  /\ outs = [p \in Procs |-> {}] /\ ins = [p \in Procs |-> {}] /\ crashed = {}
  /\ user = [c \in Callers |-> "idle"]

Move(t, from, to) == at[t] = from /\ at' = [at EXCEPT ![t] = to]
Woken == [t \in Threads |-> IF at[t] = "asleep" THEN "wait" ELSE at[t]]

-----------------------------------------------------------------------------
(* dispatch: the loop of a thread *)

Sleep(t) ==
  /\ queue = <<>> /\ ~stop /\ live <= target
  /\ Move(t, "wait", "asleep")
  /\ UNCHANGED <<mode, control, job, proc, fut, huge, procs, user>>

TakeJob(t) ==
  /\ queue # <<>>
  /\ Move(t, "wait", IF proc[t] = 0 THEN "start" ELSE "send")
  /\ job' = [job EXCEPT ![t] = Head(queue)] /\ queue' = Tail(queue)
  /\ UNCHANGED <<mode, outstanding, target, live, stop, proc, fut, huge, procs, user>>

\* Mutant: a thread leaves when told to, whatever is queued.
RetireAtOnce(t) ==
  /\ stop \/ live > target
  /\ Move(t, "wait", IF proc[t] = 0 THEN "none" ELSE "quit")
  /\ live' = live - 1
  /\ UNCHANGED <<mode, queue, outstanding, target, stop, job, proc, fut, huge, procs, user>>

Retire(t) ==
  /\ queue = <<>> /\ (stop \/ live > target)
  /\ Move(t, "wait", IF proc[t] = 0 THEN "none" ELSE "quit")
  /\ live' = live - 1
  /\ UNCHANGED <<mode, queue, outstanding, target, stop, job, proc, fut, huge, procs, user>>

Settle(t, res) == fut' = [fut EXCEPT ![job[t]] = res]

\* finish_one
Finish(t) ==
  /\ Move(t, "finish", "wait")
  /\ outstanding' = outstanding - 1 /\ job' = [job EXCEPT ![t] = 0]
  /\ UNCHANGED <<mode, queue, target, live, stop, proc, fut, huge, procs, user>>

-----------------------------------------------------------------------------
(* start: two pipes, FD_CLOEXEC on their ends, fork, the child's ends closed *)

\* A pipe() fails; with MaxProcs made none is left.
NoPipes(t) ==
  /\ Move(t, "start", "finish") /\ Settle(t, "nostart")
  /\ UNCHANGED <<mode, control, job, proc, huge, procs, user>>

\* Without exec FD_CLOEXEC means nothing: a forked worker's ends count as
\* marked from the start.
Pipes(t) ==
  LET p == Cardinality(Forks) + 1 IN
  /\ p \in Procs /\ proc' = [proc EXCEPT ![t] = p]
  /\ IF mode = "spawn"
     THEN Move(t, "start", "mark") /\ pipes' = [pipes EXCEPT ![p] = "fresh"]
     ELSE Move(t, "start", "fork") /\ pipes' = [pipes EXCEPT ![p] = "marked"]
  /\ UNCHANGED <<mode, control, job, fut, huge, life, inbox, reply, outs, ins, crashed, user>>

MarkCloexec(t) ==
  /\ Move(t, "mark", "fork")
  /\ pipes' = [pipes EXCEPT ![proc[t]] = "marked"]
  /\ UNCHANGED <<mode, control, job, proc, fut, huge, life, inbox, reply, outs, ins, crashed, user>>

\* The other workers' pipes a child keeps the write ends of: what the parent
\* has open, and after exec only what is not marked yet.
Inherited(states) == {q \in Procs : pipes[q] \in (IF mode = "fork" THEN states ELSE {"fresh"})}

Fork(t) ==
  LET p == proc[t] IN
  /\ Move(t, "fork", "close")
  /\ outs' = [outs EXCEPT ![p] = Inherited({"marked", "forked"}) \ {p}]
  /\ ins' = [ins EXCEPT ![p] = Inherited({"marked", "forked", "kept"}) \ {p}]
  /\ life' = [life EXCEPT ![p] = "alive"] /\ pipes' = [pipes EXCEPT ![p] = "forked"]
  /\ UNCHANGED <<mode, control, job, proc, fut, huge, inbox, reply, crashed, user>>

ForkFails(t) ==
  /\ Move(t, "fork", "finish") /\ Settle(t, "nostart")
  /\ pipes' = [pipes EXCEPT ![proc[t]] = "closed"] /\ proc' = [proc EXCEPT ![t] = 0]
  /\ UNCHANGED <<mode, control, job, huge, life, inbox, reply, outs, ins, crashed, user>>

CloseEnds(t) ==
  /\ Move(t, "close", "send")
  /\ pipes' = [pipes EXCEPT ![proc[t]] = "kept"]
  /\ UNCHANGED <<mode, control, job, proc, fut, huge, life, inbox, reply, outs, ins, crashed, user>>

-----------------------------------------------------------------------------
(* A job on a worker *)

\* No process has the child's ends of p's pipes: a write fails, a read ends.
Hungup(p) == life[p] # "alive" /\ \A q \in Alive : p \notin outs[q]

\* write_msg: a frame too long is not written.
Send(t) ==
  LET p == proc[t]  j == job[t] IN
  /\ at[t] = "send"
  /\ IF j \in huge \/ Hungup(p)
     THEN Move(t, "send", "reap") /\ UNCHANGED inbox
     ELSE Move(t, "send", "read") /\ inbox' = [inbox EXCEPT ![p] = j]
  /\ UNCHANGED <<mode, control, job, proc, fut, huge, pipes, life, reply, outs, ins, crashed, user>>

\* The answer, a result or an error, is read before the end of the pipe; one
\* to another job would be a protocol failure.
Read(t) ==
  LET p == proc[t] IN
  /\ at[t] = "read" /\ reply[p] # 0 /\ reply' = [reply EXCEPT ![p] = 0]
  /\ IF reply[p] = job[t]
     THEN Move(t, "read", "finish") /\ Settle(t, "answered")
     ELSE Move(t, "read", "reap") /\ UNCHANGED fut
  /\ UNCHANGED <<mode, control, job, proc, huge, pipes, life, inbox, outs, ins, crashed, user>>

ReadEof(t) ==
  /\ Move(t, "read", "reap")
  /\ reply[proc[t]] = 0 /\ Hungup(proc[t])
  /\ UNCHANGED <<mode, control, job, proc, fut, huge, procs, user>>

\* reap closes its two ends and waits for the process.
Reap(t) ==
  /\ Move(t, "reap", "waitpid")
  /\ pipes' = [pipes EXCEPT ![proc[t]] = "closed"]
  /\ UNCHANGED <<mode, control, job, proc, fut, huge, life, inbox, reply, outs, ins, crashed, user>>

Reaped(t) ==
  LET p == proc[t] IN
  /\ at[t] = "waitpid" /\ life[p] = "dead" /\ life' = [life EXCEPT ![p] = "reaped"]
  /\ proc' = [proc EXCEPT ![t] = 0]
  /\ Move(t, "waitpid", IF job[t] = 0 THEN "none" ELSE "finish")
  /\ IF job[t] = 0 THEN UNCHANGED fut ELSE Settle(t, "crash")
  /\ UNCHANGED <<mode, control, job, huge, pipes, inbox, reply, outs, ins, crashed, user>>

\* Mutant: the worker is let go without a quit message and without waiting.
LetGo(t) ==
  /\ Move(t, "quit", "none")
  /\ proc' = [proc EXCEPT ![t] = 0] /\ pipes' = [pipes EXCEPT ![proc[t]] = "closed"]
  /\ UNCHANGED <<mode, control, job, fut, huge, life, inbox, reply, outs, ins, crashed, user>>

SayQuit(t) ==
  /\ Move(t, "quit", "reap")
  /\ inbox' = [inbox EXCEPT ![proc[t]] = Quit]
  /\ UNCHANGED <<mode, control, job, proc, fut, huge, pipes, life, reply, outs, ins, crashed, user>>

-----------------------------------------------------------------------------
(* serve: the worker process *)

\* The task's result, or what it threw.
Serve(p) ==
  /\ life[p] = "alive" /\ inbox[p] \in Jobs
  /\ reply' = [reply EXCEPT ![p] = inbox[p]]
  /\ inbox' = [inbox EXCEPT ![p] = 0]
  /\ UNCHANGED <<mode, control, thread, fut, huge, pipes, life, outs, ins, crashed, user>>

\* The write ends of its task pipe are all closed.
Orphaned(p) == pipes[p] = "closed" /\ \A q \in Alive : p \notin ins[q]

Exit(p) ==
  /\ life[p] = "alive"
  /\ inbox[p] = Quit \/ (inbox[p] = 0 /\ Orphaned(p))
  /\ life' = [life EXCEPT ![p] = "dead"]
  /\ UNCHANGED <<mode, control, thread, fut, huge, pipes, inbox, reply, outs, ins, crashed, user>>

\* A signal, an exit in the task, exec or the sandbox failing.
Crash(p) ==
  /\ life[p] = "alive" /\ Cardinality(crashed) < MaxCrashes
  /\ life' = [life EXCEPT ![p] = "dead"] /\ crashed' = crashed \cup {p}
  /\ UNCHANGED <<mode, control, thread, fut, huge, pipes, inbox, reply, outs, ins, user>>

-----------------------------------------------------------------------------
(* The callers *)

Goes(c, from, to) == user[c] = from /\ user' = [user EXCEPT ![c] = to]

Submit(c) ==
  LET j == Cardinality(Submitted) + 1 IN
  /\ j \in Jobs
  /\ IF stop
     THEN /\ fut' = [fut EXCEPT ![j] = "refused"]
          /\ Goes(c, "idle", "idle") /\ UNCHANGED <<queue, outstanding>>
     ELSE /\ fut' = [fut EXCEPT ![j] = "pending"]
          /\ queue' = Append(queue, j) /\ outstanding' = outstanding + 1
          /\ Goes(c, "idle", "notify")
  /\ UNCHANGED <<mode, target, live, stop, thread, huge, procs>>

NotifyOne(c) ==
  /\ Goes(c, "notify", "idle")
  /\ IF \E t \in Threads : at[t] = "asleep"
     THEN \E t \in Threads : Move(t, "asleep", "wait")
     ELSE UNCHANGED at
  /\ UNCHANGED <<mode, control, job, proc, fut, huge, procs>>

\* set_workers(n), where `add` threads are missing.
Resize(c, n, add) ==
  /\ user[c] = "idle" /\ ~stop /\ n # target /\ add <= Cardinality(Free)
  /\ target' = n /\ live' = live + add
  /\ at' = [t \in Threads |->
              IF t \in Free /\ Cardinality({u \in Free : u < t}) < add THEN "wait" ELSE Woken[t]]
  /\ UNCHANGED <<mode, queue, outstanding, stop, job, proc, fut, huge, procs, user>>

Missing(n, have) == IF have < n THEN n - have ELSE 0

SetWorkers(c, n) == Resize(c, n, Missing(n, live))

WaitAll(c) ==
  /\ Goes(c, "idle", "wait_all")
  /\ UNCHANGED <<mode, control, thread, fut, huge, procs>>

\* Mutant: waits for pending() instead of outstanding_.
AllTaken(c) ==
  /\ queue = <<>> /\ Goes(c, "wait_all", "idle")
  /\ UNCHANGED <<mode, control, thread, fut, huge, procs>>

AllDone(c) ==
  /\ outstanding = 0 /\ Goes(c, "wait_all", "idle")
  /\ UNCHANGED <<mode, control, thread, fut, huge, procs>>

\* shutdown: wait_all, stop_, notify_all, join.  One thread owns the pool.
Shutdown ==
  /\ ~stop /\ Goes(Owner, "idle", "drain")
  /\ UNCHANGED <<mode, control, thread, fut, huge, procs>>

Drained ==
  /\ outstanding = 0 /\ Goes(Owner, "drain", "stop")
  /\ UNCHANGED <<mode, control, thread, fut, huge, procs>>

SetStop ==
  /\ Goes(Owner, "stop", "notify_all") /\ stop' = TRUE
  /\ UNCHANGED <<mode, queue, outstanding, target, live, thread, fut, huge, procs>>

NotifyAll ==
  /\ Goes(Owner, "notify_all", "join") /\ at' = Woken
  /\ UNCHANGED <<mode, control, job, proc, fut, huge, procs>>

Joined ==
  /\ Free = Threads
  /\ Goes(Owner, "join", "down")
  /\ UNCHANGED <<mode, control, thread, fut, huge, procs>>

-----------------------------------------------------------------------------
Dispatch(t) ==
  \/ Sleep(t) \/ TakeJob(t) \/ Retire(t) \/ Finish(t)
  \/ NoPipes(t) \/ Pipes(t) \/ MarkCloexec(t) \/ Fork(t) \/ ForkFails(t) \/ CloseEnds(t)
  \/ Send(t) \/ Read(t) \/ ReadEof(t) \/ Reap(t) \/ Reaped(t) \/ SayQuit(t)
Work(p) == Serve(p) \/ Exit(p)
Continue(c) == NotifyOne(c) \/ AllDone(c)
ShutsDown == Drained \/ SetStop \/ NotifyAll \/ Joined

Next ==
  \/ \E t \in Threads : Dispatch(t)
  \/ \E p \in Procs : Work(p) \/ Crash(p)
  \/ \E c \in Callers : \/ Submit(c) \/ WaitAll(c) \/ Continue(c)
                        \/ \E n \in Sizes : SetWorkers(c, n)
  \/ Shutdown \/ ShutsDown

Spec == Init /\ [][Next]_vars

\* Threads are scheduled, a task returns or its process dies, and a caller in
\* the middle of an operation goes on.  Nothing has to be called or to crash.
FairSpec ==
  /\ Spec /\ WF_vars(ShutsDown)
  /\ \A t \in Threads : WF_vars(Dispatch(t))
  /\ \A p \in Procs : WF_vars(Work(p))
  /\ \A c \in Callers : WF_vars(Continue(c))

-----------------------------------------------------------------------------
(* What the pool promises *)

\* live_ is the number of threads that have not decided to leave, and as long
\* as the pool is not stopped there are as many as were asked for last,
\* whatever was grown and shrunk before (set_workers, the way out of dispatch).
EnoughThreads == live = Cardinality(Running) /\ (stop \/ live >= target)

\* wait_all and shutdown go on only when the future of every job submitted
\* until then is set: finish_one comes after the promise.
WaitSeesAllSettled ==
  [][\A c \in Callers :
       (user[c] = "wait_all" /\ user'[c] = "idle") \/ (user[c] = "drain" /\ user'[c] = "stop")
         => \A j \in Jobs : fut[j] # "pending"]_vars

\* A worker that dies fails one job at most, whichever thread was talking to
\* it and however often threads and workers were replaced.
CrashIsContained ==
  Cardinality({j \in Jobs \ huge : fut[j] = "crash"}) <= Cardinality(crashed)

\* After shutdown every job accepted is settled, those submitted while it was
\* draining included, and no worker is left: none runs, none is a zombie, no
\* pipe is open.
ShutdownLeavesNothing ==
  user[Owner] = "down" =>
    /\ \A j \in Jobs : fut[j] # "pending"
    /\ \A p \in Procs : life[p] \in {"none", "reaped"} /\ pipes[p] \in {"none", "closed"}

\* Threads, workers and what a crash or a shutdown leaves of them.
WorkersInv == TypeOK /\ EnoughThreads /\ CrashIsContained /\ ShutdownLeavesNothing

\* A dispatch thread that waits for ever: for the end of a dead worker's pipe,
\* or for a worker to see the end of its own, where another worker holds it open.
HeldOpen(p) ==
  \/ life[p] = "dead" /\ pipes[p] = "kept" /\ ~Hungup(p)
  \/ life[p] = "alive" /\ pipes[p] = "closed" /\ inbox[p] # Quit /\ ~Orphaned(p)

\* Every job is settled, crashes, shrinking and shutdown notwithstanding, unless
\* a worker's pipe is held open by another worker from some time on.
JobsSettle ==
  \/ <>[](\E p \in Procs : HeldOpen(p))
  \/ \A j \in Jobs : fut[j] = "pending" ~> fut[j] # "pending"

\* process_pool.hpp:29: "if a worker's pipe hits EOF mid-task the parent reaps it
\* and fails that task's future": every job submitted is settled.
CrashIsReported == \A j \in Jobs : fut[j] = "pending" ~> fut[j] # "pending"
=============================================================================
