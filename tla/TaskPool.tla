------------------------------ MODULE TaskPool ------------------------------
(***************************************************************************)
(* forge::task::pool: queued tasks with stop tokens, any of which may run  *)
(* next (priorities are left out), and the data-parallel loop parallel_for *)
(* that the workers join.  A step is what a thread does in one hold of m_, *)
(* one atomic operation of the loop, or one call of user code.  Every      *)
(* thread has a stack of the pool's functions it is in, the innermost      *)
(* first: a task or a loop body may use the pool again.  Sleeping on a     *)
(* condition variable is explicit: a notification that is missing is       *)
(* missed.                                                                 *)
(***************************************************************************)
EXTENDS Naturals, FiniteSets, Sequences

CONSTANTS Pools,     \* the pools to look at: of each, the set of its own threads
          Callers,   \* threads that use the pool
          Chunks,    \* chunks of a loop: parallel_for starts workers from two on
          NestIn,    \* user code that calls parallel_for itself: "task", "chunk"
          MaxJobs, MaxTasks   \* bounds: loops and tasks begun

Workers == UNION Pools

ASSUME TaskPoolAssumption ==
  /\ Workers \cap Callers = {} /\ IsFiniteSet(Workers) /\ IsFiniteSet(Callers)
  /\ Chunks \in Nat \ {0, 1}
  /\ NestIn \subseteq {"task", "chunk"} /\ MaxJobs \in Nat /\ MaxTasks \in Nat

Threads == Workers \cup Callers
Jobs == 1..MaxJobs
Tasks == 1..MaxTasks

\* A function a thread is in: which, at what point, for which loop or task; and
\* the tasks a wait_idle was called after.
Frames == [fn: {"parallel_for", "job", "task", "submit", "wait_idle", "destroy"},
           at: {"notify", "body", "chunk", "spin", "drain", "start", "run", "end",
                "check", "wait", "stop", "join"},
           job: 0..MaxJobs, task: 0..MaxTasks, owed: SUBSET Tasks]
Frame(fn, at) == [fn |-> fn, at |-> at, job |-> 0, task |-> 0, owed |-> {}]

VARIABLES workers,   \* workers_: none in a pool of size 1
          stack,     \* per thread
          asleep,    \* workers waiting on cv_
          seen,      \* per worker, the last generation it joined
          exited,    \* workers whose loop returned
          job, gen,  \* job_ (0: none) and gen_
          active,    \* active_
          next, done,   \* of each loop: chunks handed out and finished
          begun,     \* loops begun
          queue,     \* tasks_
          running,   \* running_tasks_
          state,     \* of each task
          stopped,   \* tasks whose stop token was triggered
          stop,      \* stop_
          gone       \* the destructor was entered

vars == <<workers, stack, asleep, seen, exited, job, gen, active, next, done, begun,
          queue, running, state, stopped, stop, gone>>
loops == <<job, gen, next, done, begun>>
tasks == <<queue, state, stopped>>
pool == <<workers, asleep, seen, exited, active, running, stop, gone>>

TypeOK ==
  /\ workers \in Pools /\ stack \in [Threads -> Seq(Frames)]
  /\ asleep \subseteq workers /\ exited \subseteq workers /\ seen \in [Workers -> 0..MaxJobs]
  /\ job \in 0..MaxJobs /\ gen \in 0..MaxJobs /\ active \in 0..Cardinality(workers)
  /\ next \in [Jobs -> 0..Chunks] /\ done \in [Jobs -> 0..Chunks] /\ begun \in 0..MaxJobs
  /\ queue \subseteq Tasks /\ running \in 0..Cardinality(workers)
  /\ state \in [Tasks -> {"none", "queued", "running", "ran", "skipped"}]
  /\ stopped \subseteq Tasks /\ stop \in BOOLEAN /\ gone \in BOOLEAN

Init ==
  /\ workers \in Pools /\ stack = [t \in Threads |-> <<>>]
  /\ asleep = {} /\ exited = {} /\ seen = [w \in Workers |-> 0]
  /\ job = 0 /\ gen = 0 /\ active = 0 /\ begun = 0
  /\ next = [j \in Jobs |-> 0] /\ done = [j \in Jobs |-> 0]
  /\ queue = {} /\ running = 0 /\ state = [k \in Tasks |-> "none"] /\ stopped = {}
  /\ stop = FALSE /\ gone = FALSE

In(t, fn, at) == stack[t] # <<>> /\ Head(stack[t]).fn = fn /\ Head(stack[t]).at = at
Top(t) == Head(stack[t])
Push(t, f) == stack' = [stack EXCEPT ![t] = <<f>> \o @]
Pop(t) == stack' = [stack EXCEPT ![t] = Tail(@)]
Goto(t, at) == stack' = [stack EXCEPT ![t][1].at = at]
Submitted == {k \in Tasks : state[k] # "none"}
Finished == {k \in Tasks : state[k] \in {"ran", "skipped"}}

\* A thread about to call into the pool: a caller, or user code in a frame.
Calls(t) == t \in Callers /\ stack[t] = <<>> /\ ~gone
Nests(t) == \/ In(t, "task", "run") /\ "task" \in NestIn
            \/ stack[t] # <<>> /\ Top(t).at = "chunk" /\ "chunk" \in NestIn

-----------------------------------------------------------------------------
(* parallel_for *)

ParallelFor(t) ==
  /\ Calls(t) \/ Nests(t)
  /\ workers # {} /\ begun < MaxJobs
  /\ begun' = begun + 1
  /\ job' = begun' /\ gen' = gen + 1
  /\ Push(t, [Frame("parallel_for", "notify") EXCEPT !.job = begun'])
  /\ UNCHANGED <<next, done, tasks, pool>>

NotifyAll(t) ==
  /\ In(t, "parallel_for", "notify") /\ Goto(t, "body")
  /\ asleep' = {}
  /\ UNCHANGED <<workers, seen, exited, active, running, stop, gone, loops, tasks>>

\* The body shared by the caller and the workers: fetch a chunk, run it.
TakeChunk(t) ==
  /\ In(t, "parallel_for", "body") \/ In(t, "job", "body")
  /\ LET j == Top(t).job IN
     /\ next[j] < Chunks
     /\ next' = [next EXCEPT ![j] = @ + 1]
  /\ Goto(t, "chunk")
  /\ UNCHANGED <<job, gen, done, begun, tasks, pool>>

EndChunk(t) ==
  /\ In(t, "parallel_for", "chunk") \/ In(t, "job", "chunk")
  /\ done' = [done EXCEPT ![Top(t).job] = @ + 1]
  /\ Goto(t, "body")
  /\ UNCHANGED <<job, gen, next, begun, tasks, pool>>

\* No chunk left: the caller goes to wait for the others ...
NoChunkLeft(t) ==
  /\ In(t, "parallel_for", "body") /\ next[Top(t).job] >= Chunks
  /\ Goto(t, "spin")
  /\ UNCHANGED <<loops, tasks, pool>>

\* ... and a worker back to its loop.
LeaveJob(w) ==
  /\ In(w, "job", "body") /\ next[Top(w).job] >= Chunks
  /\ active' = active - 1
  /\ Pop(w)
  /\ UNCHANGED <<workers, asleep, seen, exited, running, stop, gone, loops, tasks>>

\* Mutant: the caller returns once all chunks are done, workers in its body or not.
AllDoneAtOnce(t) ==
  /\ In(t, "parallel_for", "spin") /\ done[Top(t).job] >= Chunks
  /\ job' = 0
  /\ Pop(t)
  /\ UNCHANGED <<gen, next, done, begun, tasks, pool>>

\* Every chunk is done: job_ is cleared, whichever loop's it is by now.
AllDone(t) ==
  /\ In(t, "parallel_for", "spin") /\ done[Top(t).job] >= Chunks
  /\ job' = 0
  /\ IF active = 0 THEN Pop(t) ELSE Goto(t, "drain")
  /\ UNCHANGED <<gen, next, done, begun, tasks, pool>>

\* The caller leaves when no worker is in any loop's body: its own is on its stack.
Return(t) ==
  /\ In(t, "parallel_for", "drain") /\ active = 0
  /\ Pop(t)
  /\ UNCHANGED <<loops, tasks, pool>>

-----------------------------------------------------------------------------
(* submit, wait_idle and stop tokens *)

Woken(f) == IF f.fn = "wait_idle" /\ f.at = "wait" THEN [f EXCEPT !.at = "check"] ELSE f
WakeIdle(s) == [t \in Threads |-> IF s[t] = <<>> THEN <<>> ELSE <<Woken(Head(s[t]))>> \o Tail(s[t])]

\* drain_inline_, in submit and the destructor of a pool without workers: what q
\* holds is run in the caller, the lock is kept from one task to the next.
\* inner is the caller's stack while it drains, outer when nothing is left.
DrainInline(c, q, inner, outer) ==
  \/ /\ q = {} /\ queue' = {}
     /\ stack' = WakeIdle([stack EXCEPT ![c] = outer])
  \/ \E k \in q :
       /\ queue' = q \ {k}
       /\ stack' = [stack EXCEPT ![c] = <<[Frame("task", "start") EXCEPT !.task = k]>> \o inner]

Submit(c) ==
  /\ Calls(c)
  /\ LET k == Cardinality(Submitted) + 1 IN
     /\ k <= MaxTasks
     /\ state' = [state EXCEPT ![k] = "queued"]
     /\ IF workers = {}
        THEN DrainInline(c, queue \cup {k}, <<Frame("submit", "drain")>>, <<>>)
        ELSE queue' = queue \cup {k} /\ Push(c, Frame("submit", "notify"))
  /\ UNCHANGED <<stopped, loops, pool>>

NotifyOne(c) ==
  /\ In(c, "submit", "notify") /\ Pop(c)
  /\ \/ asleep = {} /\ UNCHANGED asleep
     \/ \E w \in asleep : asleep' = asleep \ {w}
  /\ UNCHANGED <<workers, seen, exited, active, running, stop, gone, loops, tasks>>

RequestStop(k) ==
  /\ state[k] \in {"queued", "running"} /\ k \notin stopped
  /\ stopped' = stopped \cup {k}
  /\ UNCHANGED <<stack, queue, state, loops, pool>>

\* A queued task begins: it looks at its stop token once.
StartTask(t) ==
  /\ In(t, "task", "start")
  /\ LET k == Top(t).task IN
     IF k \in stopped
     THEN state' = [state EXCEPT ![k] = "skipped"] /\ Goto(t, "end")
     ELSE state' = [state EXCEPT ![k] = "running"] /\ Goto(t, "run")
  /\ UNCHANGED <<queue, stopped, loops, pool>>

\* Its function returns (or throws) and the future is ready.
EndTask(t) ==
  /\ In(t, "task", "run")
  /\ state' = [state EXCEPT ![Top(t).task] = "ran"]
  /\ Goto(t, "end")
  /\ UNCHANGED <<queue, stopped, loops, pool>>

\* A worker is done with a task; the last one wakes those in wait_idle.
AfterTask(w) ==
  /\ w \in Workers /\ In(w, "task", "end")
  /\ running' = running - 1
  /\ LET popped == [stack EXCEPT ![w] = Tail(@)] IN
     stack' = IF running' = 0 /\ queue = {} THEN WakeIdle(popped) ELSE popped
  /\ UNCHANGED <<workers, asleep, seen, exited, active, stop, gone, loops, tasks>>

\* ... and drain_inline_ looks for the next one.
AfterInline(c) ==
  /\ c \in Callers /\ In(c, "task", "end")
  /\ LET inner == Tail(stack[c]) IN
     DrainInline(c, queue, inner, IF Head(inner).fn = "submit" THEN Tail(inner)
                                        ELSE <<Frame("destroy", "stop")>>)
  /\ UNCHANGED <<state, stopped, loops, pool>>

WaitIdle(c) ==
  /\ Calls(c)
  /\ Push(c, [Frame("wait_idle", "check") EXCEPT !.owed = Submitted])
  /\ UNCHANGED <<loops, tasks, pool>>

\* Mutant: tasks that were taken off the queue are not waited for.
CheckQueueOnly(c) ==
  /\ In(c, "wait_idle", "check")
  /\ IF queue = {} THEN Pop(c) ELSE Goto(c, "wait")
  /\ UNCHANGED <<loops, tasks, pool>>

CheckIdle(c) ==
  /\ In(c, "wait_idle", "check")
  /\ IF queue = {} /\ running = 0 THEN Pop(c) ELSE Goto(c, "wait")
  /\ UNCHANGED <<loops, tasks, pool>>

-----------------------------------------------------------------------------
(* The worker's loop and the destructor *)

AtLoop(w) == w \in workers \ (asleep \cup exited) /\ stack[w] = <<>>
JobPending(w) == gen # seen[w] /\ job # 0

TakeTask(w) ==
  /\ AtLoop(w) /\ ~JobPending(w)
  /\ \E k \in queue : /\ queue' = queue \ {k}
                      /\ Push(w, [Frame("task", "start") EXCEPT !.task = k])
  /\ running' = running + 1
  /\ UNCHANGED <<state, stopped, loops, workers, asleep, seen, exited, active, stop, gone>>

TakeJob(w) ==
  /\ AtLoop(w) /\ JobPending(w) /\ ~stop
  /\ seen' = [seen EXCEPT ![w] = gen]
  /\ active' = active + 1
  /\ Push(w, [Frame("job", "body") EXCEPT !.job = job])
  /\ UNCHANGED <<workers, asleep, exited, running, stop, gone, loops, tasks>>

\* Mutant: a worker sleeps without a look at the queue.
SleepBlindly(w) ==
  /\ AtLoop(w) /\ ~stop /\ ~JobPending(w)
  /\ asleep' = asleep \cup {w}
  /\ UNCHANGED <<workers, stack, seen, exited, active, running, stop, gone, loops, tasks>>

Sleep(w) ==
  /\ AtLoop(w) /\ ~stop /\ ~JobPending(w) /\ queue = {}
  /\ asleep' = asleep \cup {w}
  /\ UNCHANGED <<workers, stack, seen, exited, active, running, stop, gone, loops, tasks>>

\* Mutant: a worker told to stop leaves the queue behind.
ExitAtOnce(w) ==
  /\ AtLoop(w) /\ stop
  /\ exited' = exited \cup {w}
  /\ UNCHANGED <<workers, stack, asleep, seen, active, running, stop, gone, loops, tasks>>

Exit(w) ==
  /\ AtLoop(w) /\ stop /\ (JobPending(w) \/ queue = {})
  /\ exited' = exited \cup {w}
  /\ UNCHANGED <<workers, stack, asleep, seen, active, running, stop, gone, loops, tasks>>

\* ~pool, called when no caller is in the pool any more.
Destroy(c) ==
  /\ c \in Callers /\ ~gone /\ \A d \in Callers : stack[d] = <<>>
  /\ gone' = TRUE
  /\ IF workers = {}
     THEN DrainInline(c, queue, <<Frame("destroy", "drain")>>, <<Frame("destroy", "stop")>>)
     ELSE Push(c, Frame("destroy", "stop")) /\ UNCHANGED queue
  /\ UNCHANGED <<workers, asleep, seen, exited, active, running, stop, loops, state, stopped>>

SetStop(c) ==
  /\ In(c, "destroy", "stop") /\ Goto(c, "notify")
  /\ stop' = TRUE
  /\ UNCHANGED <<workers, asleep, seen, exited, active, running, gone, loops, tasks>>

NotifyStop(c) ==
  /\ In(c, "destroy", "notify") /\ Goto(c, "join")
  /\ asleep' = {}
  /\ UNCHANGED <<workers, seen, exited, active, running, stop, gone, loops, tasks>>

Join(c) ==
  /\ In(c, "destroy", "join") /\ exited = workers
  /\ Pop(c)
  /\ UNCHANGED <<loops, tasks, pool>>

-----------------------------------------------------------------------------
\* What a thread does of itself once it is in the pool.
Run(t) == \/ NotifyAll(t) \/ TakeChunk(t) \/ EndChunk(t) \/ NoChunkLeft(t) \/ LeaveJob(t)
          \/ AllDone(t) \/ Return(t)
          \/ NotifyOne(t) \/ StartTask(t) \/ EndTask(t) \/ AfterTask(t)
          \/ AfterInline(t) \/ CheckIdle(t)
          \/ TakeTask(t) \/ TakeJob(t) \/ Sleep(t) \/ Exit(t)
          \/ SetStop(t) \/ NotifyStop(t) \/ Join(t)

Use(t) == \/ ParallelFor(t)
          \/ t \in Callers /\ (WaitIdle(t) \/ Destroy(t) \/ Submit(t))

Next == (\E t \in Threads : Run(t) \/ Use(t)) \/ \E k \in Tasks : RequestStop(k)

Spec == Init /\ [][Next]_vars

\* The threads are scheduled, and user code returns.
FairSpec == Spec /\ \A t \in Threads : WF_vars(Run(t))

-----------------------------------------------------------------------------
InFrames(t) == {stack[t][i] : i \in DOMAIN stack[t]}
InLoop(j) == \E t \in Threads : \E f \in InFrames(t) : f.fn = "parallel_for" /\ f.job = j

\* A worker only runs the body of a loop whose caller has not returned: body,
\* next and done live on the caller's stack.
NoUseAfterReturn ==
  \A w \in Threads : \A f \in InFrames(w) : f.fn = "job" => InLoop(f.job)

\* A loop that has returned ran every chunk, exactly once.
LoopIsComplete ==
  \A j \in 1..begun : InLoop(j) \/ (next[j] = Chunks /\ done[j] = Chunks)

\* Both: a loop lasts until its last chunk has run, and no longer.
LoopInv == NoUseAfterReturn /\ LoopIsComplete

\* In a pool with workers wait_idle returns only when every task queued before it
\* has run or was skipped.  (Without workers the task another caller is running
\* is neither queued nor counted.)
IdleMeansFinished ==
  [][\A c \in Callers :
       workers # {} /\ In(c, "wait_idle", "check") /\ stack'[c] = <<>> => Top(c).owed \subseteq Finished]_vars

\* When the destructor has returned no task is left: none queued, none half done.
DestructorDrains ==
  gone /\ (\A t \in Threads : stack[t] = <<>>) => Submitted \subseteq Finished

TaskInv == TypeOK /\ DestructorDrains

\* Every call into the pool returns: no wake-up is lost, nobody waits for a
\* thread that waits for him.
CallsReturn == \A c \in Callers : []<>(stack[c] = <<>>)

\* Every task submitted is run or skipped in the end.
TasksFinish == \A k \in Tasks : state[k] = "queued" ~> k \in Finished

\* Nothing in the pool is left for ever, neither a caller nor a task.
EverythingEnds == CallsReturn /\ TasksFinish
=============================================================================
