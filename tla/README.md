# Cypha: the verification project

TLA+ specifications of the concurrent, persistent and failure-prone parts of
Cypha and of the FORGE library that lives in the same repository, TLC
configurations that check them on small instances, and TLAPS proofs for every
value of the constants. `src/...` paths below are paths of the repository.

Contents

1. Inventory: what the system consists of
2. How the parts interact
3. The modules, and how they correspond to the code
4. The runs: questions, bounds, fairness, results
5. The proofs
6. Where the code and its documents disagree
7. What is only model-checked, and what is not modelled
8. Plan
9. Running it

## 1. Inventory

The repository holds two programs. **Cypha** (`src/native`) is an online
classifier and regressor with a byte-level language model, a REST server, a
model registry and a federated trainer. **FORGE** (`src/forge`) is a header-first
C++23 library (task pool, process pool, memory budget, load balancer, batching
scheduler, tensor graphs, model files, a shell) with its own server `forge-serve`. `src/docs/MODULES.md` names the
parts of the first, the directories of `src/forge` those of the second; nothing in
Cypha uses FORGE yet.

### Parts with state that outlives a call

| Part | Code | State it keeps | Operations | What is hard |
|---|---|---|---|---|
| Model registry | `native/src/core/registry.cpp` | version directories on disk: `model.cypha`, `card.json`, `preprocessor.json` | register (with or without overwrite), scan | several processes write and scan it; a writer dies or fails between any two file system calls; nothing is renamed into place |
| Cypha object | `native/src/cypha.cpp`, `cypha.hpp` | weights, running totals, rates, gate session, replay buffer, EWC anchors, generator, OOD ring, kernel, regression head | load, save, update, predict, setters | some thirty members, two file formats, and a load that assigns them one by one and may fail at each |
| REST server | `native/tools/serve/cypha_rest.cpp` | the globals (`g_cypha`), one slot per registry key (`g_models`), the active key, the registry listing | start, /predict, /update, /register, /load, /models | the active model is two objects (globals and slot); `/load` drops its lock between finding a bundle and reading it; loads fail half way |
| Federated coordinator | `native/tools/classify/cypha_federated_coordinator.cpp` | payloads in memory, one output file; or a watched directory | submit, merge, watch, once | handlers share a list and a file; a payload is kept before it is looked at; the process may be restarted |
| Load balancer | `forge/balance/.../balance.hpp` | per backend: in-flight count, outcome window, circuit, health counters; the wait queue | add, remove, weights, health checks, acquire, report, call with retries | leases outlive the entry they were granted for; a breaker that counts trials; a bounded queue; retries |
| Task pool | `forge/support/.../task/pool.hpp` | task queue, one current loop, counts of active and running, stop flag | parallel_for, submit, wait_idle, destructor | one mutex, two condition variables, a loop whose state lives on its caller's stack, nesting |
| Batching scheduler | `forge/mind/.../batch.hpp` | waiting queue, active list, per-request flags | submit, cancel, step, fail_all, stop | the worker gives the lock up while it advances a request; errors end every active request; a memory budget defers admission |
| Process pool | `forge/os/.../process_pool.hpp` | job queue, dispatch threads and how many there should be, one worker process and two pipes per thread | submit, set_workers, wait_all, shutdown | forks while other threads have pipes open; processes that die at any time; threads that leave while others are added |
| Memory budget | `forge/core/.../memory.hpp` | bytes used, reported and cached, the limit | reserve (at once or waiting), resize, release, set_usage, evict, trim | the lock is given up around every callback; waiters must be told about room from every source |
| Corpus trainers | `native/tools/trie_stream_train.cpp`, `tools/lm/trie_stream_train_v2.cpp`, `include/cypha/lm/stream_trie.hpp` | `checkpoint.bin`, `trained.txt`, snapshots and `snapshots.tsv` on disk; the model in memory | resume, train a file, save, list, snapshot; `trie_ckpt verify` | four files that say something of each other, written one after another by a process that may be stopped at any step |
| Proxy | `forge/balance/.../proxy.hpp` | per connection: a request with its attempts and answer, or two half-open connections and their buffers; the list of threads | start, stop, accept, one request after the other (layer 7), relay (layer 4) | answers that fail after their head; retries of what may have been carried out; one thread for two directions; stop among accepting and ending threads |
| Speculative decoding | `forge/mind/.../speculative.hpp`, `session.hpp` | the KV rows of target and draft, the sampler's history | generate, speculative_generate, lookup_generate | two models' states are run ahead and taken back; what is emitted must not show it |
| Streaming session | `forge/mind/.../streaming.hpp` | a lock-free ring of samples, the number of the next frame | feed, pump | two threads on one ring; frames that overlap; a budget that drops |
| forge-serve | `forge/apps/forge_serve.cpp` | connections, the scheduler above | generate, cancel by disconnect | a client that goes away while its request waits or runs |

### Parts that compute

Core plumbing (CSV, random numbers, SQLite experiments, NPZ), the language model
(tries, Kneser-Ney, hp mixer, arithmetic coder), online learning (content mixer,
replay buffer, EWC arithmetic), classifier arithmetic, knowledge and thought,
forecasting, semantics and self-organising maps, evaluation, the FORGE layers
spec, lane, grid, flow, pack, script and bindings, and the rest of core and os. They are sequential,
mostly floating point, and are listed one by one in `PROJECT.json` with the reason
each is left out or the place it has in the plan.

### What makes each modelled part correct

- *Registry.* What a scan lists is a bundle a server can load; an overwrite never
  ends as a mixture of old and new files; a call that says it succeeded did.
- *Cypha object.* A load gives back what was saved, whatever the object did before;
  nothing learned by one model leaks into another or into a file of another.
- *REST server.* It never stops serving its default model; a name is answered by
  weights registered under it; a bundle is used as a whole; an acknowledged update
  is there for the next request.
- *Coordinator.* Exit code 0 means that an output of enough mergeable payloads was written; an
  acknowledged submission is in it; the output never loses workers, and is found emptied only while it
  is written or after a death. That it is whole, nothing promises: the write is not looked at.
- *Balancer.* Counts equal the leases that are out and limits on leases and trials hold, but for leases
  given back after their id was added again; the wait queue is bounded; retries go elsewhere; a half-open circuit is decided.
- *Task pool.* Each chunk runs once; no worker touches a loop whose caller has
  returned; every call returns; every task runs or is skipped.
- *Process pool.* There are as many threads as asked for; every job is settled once; a
  crash costs one job; after shutdown no thread, process, zombie or pipe is left.
- *Memory budget.* What is counted is what is held; no lease goes over the limit; a
  waiter there is room for is told; every call comes back.
- *Trainers.* Whatever they are stopped at, a listed file is in the checkpoint, the
  checkpoint and every noted snapshot is whole, and every readable file gets trained; but for
  the files whose checkpoint a failed rename or read has cost, and for walks of the corpus that break off.
- *Proxy.* A request gets one reply and no backend twice; an unsafe one is not sent again
  after an answer; after stop nothing is left; both halves of a relay end after their bytes.
- *Decoding.* Proposals change the speed and never the tokens, nor what the sessions hold.
- *Streaming.* A frame is the samples it is numbered for, none is forgotten and the lag is bounded,
  as long as no more is taken out of the ring than is in it; only hops longer than the window do that.
- *Scheduler.* Each accepted request is answered exactly once and for a reason that
  is true of it, in priority order, and each active request advances in each step.

## 2. How the parts interact

```
 desktop shell, registry_register                 federated workers
          |  write                                   |  POST /submit, files
          v                                          v
   model registry  <--- POST /register ---   federated coordinator --> merged memory file
   (directories)                                     
          |  scan, read
          v
   cypha_rest:  g_registry_cache -> POST /load -> Cypha object (globals)  <- /predict, /update
                                              \-> Cypha object (slot)     <- named requests

   forge-serve: connection threads -> batch_scheduler -> worker thread -> model forward
   clients -> proxy (layer 7: requests, layer 4: bytes) -> balance::pool (leases, breaker) -> backends
   applications -> speculative_generate, streaming session -> model sessions (KV rows)
   script parallel(), flow kernels -> task::pool (workers, current loop)
   batch_scheduler, script heap -> mem::budget (leases, reports, evictions)
   tests, embedders -> os::process_pool -> worker processes over pipes

   downloads -> corpus files -> trie_stream_train(_v2) -> checkpoint.bin, trained.txt, snapshots
                                                   trie_ckpt verify reads all of them
```

- The server and any other process meet only in the registry's directories; nothing
  locks them. `ModelRegistry` models one directory at the granularity of file system
  calls; `CyphaRest` sees a registration as one step that puts a bundle in place (or,
  `RegisterFails`, that leaves an emptied directory) and may happen in another
  process at any time (`ExternalRegister`), including between a scan and the load
  of what it found.
- The server's routes run on one thread per connection and share the globals under
  `g_mu`, and each slot under a mutex of its own. What one hold of `g_mu` does is one
  action; `/load` has two holds (`FindRef`, then `LoadFound` or `LoadDangling`).
- `CyphaRest` sees a Cypha object as the origin of its weights, preprocessor and
  head and a count of learned updates; `CyphaObject` looks inside one object and at
  the files it writes.
- A forge-serve connection is one request of `BatchScheduler` and may leave at any
  time; the scheduler's memory budget appears as the freedom to defer requests.
  `MemoryBudget` is that budget, with the scheduler's prefix cache as one of its caches:
  the `Lazy` kind, whose callback (batch.hpp:39) only asks the worker to drop at its
  next step and claims the bytes at once.
- The proxy is a client of the balancer. `HttpProxy` and `ProxyRelay` know of `acquire` what
  `BalancePool` promises: a backend that was not excluded, or none at all, at any time.
- The scheduler and the sessions a caller drives itself (`Speculative`, `StreamRing`) share the
  model's code and no state.
- The trainers and the downloads meet in the corpus directory (`*.part` names), the
  trainers and `trie_ckpt` in the checkpoint and `trained.txt`. No lock is taken; a
  trainer assumes it is the only one for its directory, and so does the module.

## 3. The modules, and how they correspond to the code

`PROJECT.json` maps each definition to the lines it stands for. The text below
says how to read a module next to its source. The proofs are in modules of their own,
some of them about two components; section 5 says which. Where two modules are
extended by one module of proofs their definitions have names of their own
(`RegistryNext`, `BudgetInit`, `FederatedSpec`).

### ModelRegistry

One version directory. `pc[w]` is the next file system call of writer `w` inside
`registry_register_bundle`: `exists`, `remove`, `create`, `check`, then one copy per
file. `CheckExists` is the test of line 62 and the refusal without overwrite;
`RemoveAll` is `fs::remove_all`, one entry at a time; `CheckSources` comes *after*
the old bundle is gone, as in the code; `StartCopy` and `EndCopy` are the two visible
moments of `fs::copy_file` (the target is created or truncated, then filled).
`Die` stands for a killed process and for any call that throws into the function's
catch: both undo nothing. A file is the set of calls whose bytes it holds and
whether a copy was completed, which is what "whole" and "mixed" need. `Scanned` is
the condition of `registry_scan`. `raced` records that two calls overlapped.

### CyphaRest

`disk` is the registry (per key: the bundle's number and its shape), `cache` what the
last scan recorded, `globals` and `slots` the two kinds of model object, `active` the
key of the globals, `load[t]` the pointer a `/load` keeps between its two lock holds
(with the number of the scan it points into). A bundle's shape says whether it has a
preprocessor and a regression head and at which stage its load fails; `AfterLoad`
is what `Cypha::load` leaves of an object for each of these stages, failed or not, in
the order of the code: defaults and head cleared first, weights replaced next, then
kernel, preprocessor, rates, state, head. `LoadActive` is
`load_registry_ref_into_map`: the globals first; on success the active key, then the
slot of the same name is loaded from the same files. `Served` is
`resolve_model_view`. `Update` learns good rows up to the first bad one.
`MCCyphaRest` lists the bundle shapes used by TLC.

### CyphaObject

`obj` maps each part of a `Cypha` object to where its value comes from: the set of
models it was learned from, and the step that changed it last. `Parts` groups members
that are reset, written and read together. The operators from `Cleared` to
`WithHead` are the stages of `Cypha::load` in their order; `LoadSucceeds` composes
them, `LoadFails` leaves the object after each prefix at which the code can return
false or throw. `Exported` and `Save` are `save` with `export_save_state` and the
unchecked in-place write of `save_cypha_file`: the file ends whole, or torn, with or
without the death of the process. `Update` names which parts a training step writes
(the kernel only when switched on, the ring of latents only for labelled rows
without a regression head) and that all of them depend on everything read.
`Behaviour` is the comparison a load is held to: what `predict` and `update` read,
which excludes a kernel that is switched off and is therefore not saved.

### BalancePool and LeaseBook

Every public method holds `m_` for its whole body and is an action. `acquire` gives
the lock up while it waits, so each turn of its loop is one: `Grant`, `Refuse`,
`Enqueue`. A client record follows `call()`: `tried`, `left`, and `again` for the second acquire
after `tried.clear()`. Nodes carry the code's fields; `fails` and `requests` saturate
where the code only compares them. `Finished` is `finish_` in its order: places back,
outcome, ring, trip. The clock is replaced by two actions, `Elapse` (an open
period ends) and `Expire` (a deadline passes). `self` numbers the call of `add` that made
an entry; the code has no such number, it is how the properties tell an old lease
from a new one. `Add` takes a removed entry of its id again at once, as `add` does, with
leases of the old self still out; such a lease is later given back on the new backend,
and `strays` counts that. The strategies are abstracted to "any usable backend", except for
the rule that a half-open backend with a free trial goes first.

`LeaseBook` is the abstract specification: backends on offer, each with its limit, and what
each client has on loan. It counts nothing: `Lend` looks at the loans that are out, and a
loan outlives its offer (`balance.hpp:125`: "drains: in-flight leases finish normally"). The mapping
(`Offers`, `Loans`) takes the entries that are not removed, under the number of their `add`,
and the leases that are held; `Add`, `Remove`, `Grant` and `Report` are `Offer`, `Withdraw`,
`Lend` and `Return`, and every other action is a stutter. The book has one step for what
goes wrong when an id is added again: `ReturnAstray`, a loan whose own backend is off the book and
that is taken off another one, which may then lend one more than its limit.

### TaskPool

A thread is a stack of frames of pool functions; a step is one hold of `m_`, one
atomic operation, or one call of user code. The condition variable `cv_` is a set of
sleeping workers: `NotifyAll` empties it, `NotifyOne` takes one, and a notification
to nobody is lost. `TakeChunk` is the `fetch_add` of the loop body; `AllDone` clears
`job_` whichever loop's it is by then, as the code does; `Return` is the wait for
`active_ == 0`. `DrainInline` is the pool of size one, which runs tasks in the caller
while holding the lock. A task or a chunk may call `parallel_for` itself
(`NestIn`).

### BatchScheduler, RequestLife, MCBatchScheduler

`pc` is the worker's position in `step`. `Admit` is the admission loop in one hold of
`mu_`; `Look` reads the cancelled flag under the lock; `Feed` and `Sample` are
`advance` without the lock; `Retire` takes a finished request off the list in the
code's way (the iterator stays), but without the lock: `CancelCrashes` is a cancel that comes
to the emptied entry between its two halves, which ends the process. `AdmitThrows` and `ForwardThrows` are the two places
an exception leaves `step`; `FailAll` is the catch. `Cancel`, `Leave`, `Submit` and `Stop` are the
other threads. `RequestLife` is the abstract specification: accepted, asked to be
cancelled, answered once, "cancelled" only if asked. `Life` maps the scheduler to it:
accepted requests are the sequence's set, asked ones those cancelled or left.

### ProcessPool

The POSIX side. A dispatch thread is a position `at[t]` with the locals `j` (`job[t]`)
and `w` (`proc[t]`) of `dispatch`; what it does in one hold of `m_` is one action, and
so is every system call of `start` and `reap`, because the pipe ends a fork copies
depend on where the *other* threads are. `pipes[p]` is what the parent did to the pipes
of worker `p` so far (made, marked FD_CLOEXEC, forked, child's ends closed, all closed);
`Inherited` reads from it whose write ends a new child gets, and `Hungup` and `Orphaned`
when a read or a write sees the end of a pipe: when no living process has the other
side. In fork mode there is no exec, so FD_CLOEXEC changes nothing. A result is a job's
number, a task that throws answers like any other (`msg_err`). `SetWorkers` starts as
many threads as `live_` is short of; a thread that has left gives its number back.
`Crash` is a worker that dies by itself, at any time.

### MemoryBudget

`at[t]` is where a call of thread `t` is between two holds of `m_`: after the first
look (`need`), among the callbacks of `evict` (`callbacks`, `released` when a cache has
just given back a lease), before `notify_all` (`tell`), before the second look (`look`),
before and in the wait of `reserve` (`enter`, `asleep`, `woken`). `ReadNeed` is apart
from `Ask` because `need_` is called after the unlock. A cache is of one of two kinds:
one that holds its bytes as a lease and releases it in its callback (as in
`forge/tests/test_memory.cpp:63`), and the scheduler's, which drops later (`Drop`). The deadline is the
action `TimeUp`, possible at every wake-up. `silent` records that `set_usage` made room
and nobody was notified since.

### TrieTrainer

One process, the live trainer or v2 (`kind`), with or without `--once`. A model is how
often it counts each corpus file, and a file on disk is absent, torn or whole with such
a model in it. `pc` follows the body of the file loop: train, `Open`, `Flush` and `Rename`
of `save` with the second try after a removal (`RenameAgain`), `List` (the line in
`trained.txt`, whose writing nobody checks), and for v2 `Copy`, `CopyEnds` and `Note` per
snapshot. `Stop` may come before every step and leaves what is on the disk. `Resume`,
`New` and `CannotResume` are the next start: v2 refuses a checkpoint it cannot read, the
live trainer, if the file opens and has the magic, goes on with what it read until reading failed: nothing, or
a half-read model; a file that does not open or has no magic ends both. `lost` records the files listed when a run
began without their checkpoint, and the files of a checkpoint half read. `Walk` is the walk of the
corpus: it comes to every finished file or, when a directory gives an error, to some of them
(`if (ec) break`), and the trainer does not know which it was. `troubles` counts stops and failures of
every kind. `Verified` is `trie_ckpt verify --deep`: names and the sum
of bytes, not what was counted.

### HttpProxy, ProxyRelay, MCProxy

The proxy has one option, read once, that says how connections are served. `HttpProxy` is
layer 7: `acceptor` follows `accept_loop_`, `pc[c]` the body of `serve_l7_` for a connection
(`top`, then per attempt `try`, `dial`, `send`, `head`, `body`, then `relay` or `none`), `stop`
the three parts of `stop()`. `reached` and `answered` are history: the backends that were
sent the whole request, and those whose head was read. Every read and write may fail, which
is what a timeout, a reset and a closed socket come to. `ProxyRelay` is layer 4: each half of
the two connections is a counted, bounded buffer with an end of file behind its bytes
(`in`, `out`, `inEnd`, `outEnd`); `Poll` gives one event per readable side in either order,
`Receive` takes up to a buffer of bytes, `SendByte` is `send_all`, which blocks; the peers
write, read and shut their half as `manner` says, and `Die` breaks a connection: a reset, or on the
client's side `stop()`, which shuts the sockets of the connections it knows. `MCProxy` puts
both behind the option.

### Speculative, StreamRing, MCMindSessions

`Speculative` has the three ways of decoding in one module so that they can be compared:
`path` is the prompt and what the target continues it with, and a greedy draw from a row is
the next token of `path` exactly when the rows and the sampler's history are of that path
(`Drawn`); otherwise it may be anything, so a stale row shows. `tkv` and `dkv` are the tokens
whose rows the two sessions hold. A round is `Propose`, `Proposal`s, `Score`, then `Accept`,
`Reject` or `Bonus`; `Lookup` is the round without a draft model. `Fits` is the check that
makes `forward` raise. `StreamRing` numbers the samples in the order they are accepted, so a
frame shows what it was made of. `Slots`, the length of the ring, is a constant because it is: the
code's `round_up` (line 34) makes it a power of two from the capacity, and the assumption of
`MCMindSessions` says so. `Copy`/`Publish` and `Peek`/`Read` are the steps of the two
threads on the ring, `Pump` the budget, `Look`, `Call` and `Consume` the loop. `outran` is history: `consume`
took more than there was, which it does not look at. The index
loads and stores are acquire and release in the code, so the steps are of an interleaving.
`MCMindSessions` puts the two side by side, as the instances `Decode` and `Stream`; variables that
both have got names of their own there (`dpc`, `emitted`, `drafted`, `ring`, `stored`, `nextFrame`).

### FederatedCoordinator

`config` is the command line and what each worker has to send. In listen mode a
request is a handler thread: `Receive` parses outside the mutex, `Keep` appends
under it and releases it when too few payloads are there; otherwise `Merge` and
`Write` (or `Refuse`) run under the same hold. In watch mode the loop lists, reads
file by file, merges, writes. `OpenOut` empties the output; `WriteOut` fills it, to the end or as far as
the disk lets it (`cut`), which `write_merged` does not find out; between the two the process may die.
`StartAgain` keeps files and loses payloads.

## 4. The runs: questions, bounds, fairness, results

All twelve runs pass. State counts are
those of TLC with the configurations as they stand; no bound is a state constraint,
each is a named constant in the guards. An invariant whose name ends in `Inv` is the
conjunction of named parts that are defined above it in the module, the type invariant
among them; where the text below speaks of a part, the run checks it as
one of the conjuncts.

| Run | Module / cfg | Asks | Distinct states |
|---|---|---|---|
| `registry_writers` | ModelRegistry / MCModelRegistry | what a scan may find after any interleaving, failure or death of writers | 1.48 M |
| `rest_models` | MCCyphaRest / MCCyphaRest | what stays true of names, slots and the active model when loads fail, race with registrations and follow stale pointers | 1.43 M |
| `balance_pool` | MCBalancePool / MCBalancePool | does the pool implement LeaseBook; counts, limits, queue, retries, and that a half-open circuit is decided | 279 k |
| `proxy_modes` | MCProxy / MCProxy | replies, retries and stop of the layer 7 proxy; what a layer 4 relay delivers and whom it blames | 565 k |
| `task_pool` | TaskPool / MCTaskPool | loops, tasks, wait_idle and the destructor, safety and termination | 290 k |
| `process_pool` | ProcessPool / MCProcessPool | threads, processes, pipes and jobs under crashes, resizing and shutdown | 638 k |
| `memory_budget` | MemoryBudget / MCMemoryBudget | what is charged, who goes over the limit, who is told, does every call return | 275 k |
| `batch_requests` | MCBatchScheduler / MCBatchScheduler | does the scheduler implement RequestLife, keep order, give turns, answer everyone? | 1.30 M |
| `federated_merge` | FederatedCoordinator / MCFederated | what an acknowledgement and an exit code say of the output | 303 k |
| `cypha_object` | CyphaObject / MCCyphaObject | does a load give back what was saved, and do models stay apart? | 151 k |
| `trie_trainer` | TrieTrainer / MCTrieTrainer | what the files of a trainer say of each other and of the corpus, whatever it is stopped at | 155 k |
| `mind_sessions` | MCMindSessions / MCMindSessions | do proposals change tokens or sessions; which samples a frame holds, how late it is, does every frame come | 1.15 M |

More configurations are kept to be run by hand; each checks one statement of a
document that the code does not keep, and TLC finds the counterexample (section 6).

### registry_writers

Two writers, three calls. Three is what it takes for a third writer to find what two
others left; each call picks any combination of overwrite, existing sources and
preprocessor, and may die at each step.
`ListedModelIsWhole`, `NeverMixed`, `OkMeansInstalled` speak of calls that follow one
another: a listed bundle has a whole model file even if its writer died, an overwrite
is never completed with files of the old bundle, `true` means exactly this bundle.
`HalfModelNeedsTwoCalls` is what is left when calls overlap. The registry takes no
lock, and the model shows two overlapping calls without overwrite both succeeding.

### rest_models

Two keys (a request for one, a slot of the other), one `/load` in flight, two
registrations beyond the server's start (one to be loaded, one to overwrite it), seven
shapes of bundle so that each stage of a load can fail, one learned row per model,
symmetry between the keys (no property tells them apart). `AlwaysServes`,
`SlotHoldsItsKey`, `CleanModelIsOneBundle` and `CleanActiveKeyIsRight` hold with failing
loads and dangling pointers included; `ForgetsOnlyByLoad` and `AckedIsServed` are
action properties over updates and the ways to lose them. `ForgetsOnlyByLoad` has no precondition on how
the last load ended: the active key may forget by a `/load` of another key, a failing one included, and that
is the exception the formula states.

### balance_pool

One backend id, added twice, with capacity one or two, two consecutive failures or a window of
two with trip rate one half, one trial, one place in the queue, two attempts; in three settings,
because all of it at once is too much. *alone*: two clients, one backend with room for two, everything that may
happen to it (removal, adding again under its leases, weights, marks, a checker, its circuit), one attempt a call.
*pair*: two backends with room for one and a circuit each, one client that retries and one that is
in its way: a retry goes to the other backend, or finds it busy and waits, or comes back in the acquire
after `tried.clear()`. *crowd*: three clients for one place, so that one holds it, one queues and one is
refused at the queue's limit. Together: an old lease that is given back on a backend added
again, one trial that outlives its half-open period, a window that wraps.

`BookSpec` is the refinement of `LeaseBook`; what it asks of the counts
(`LimitsHold`) is also a part of `PoolInv`. Both hold with ids added again at once; they
allow a backend one lease too many for each lease of its former selves given back on it (`strays`),
and nothing else. The limit as documented fails, which `MCBalanceReadd.cfg` shows. `HalfOpenResolves` needs
fairness: clients keep calling, grants and
refusals that stay possible happen, a lease is reported or dropped (its destructor
reports), deadlines and open periods pass. The code justifies each: threads run, the
wait loop polls every 50 ms, `lease` is an RAII object, the clock is monotonic. It is about the
half-open backend that comes first in the list: `pick_` gives every trial to that one, and as long as
it goes from open to half-open again a later one may wait.

### task_pool

A pool with one worker and a pool with none (both in one run, chosen in `Init`), two
callers, two loops of two chunks, two tasks, tasks that call `parallel_for` themselves.
Fairness is weak fairness of what a thread does once it is inside the pool (`Run`):
the operating system schedules threads, user code returns. Nothing forces a caller to
call. `EverythingEnds` (`CallsReturn` and `TasksFinish`) fails if one notification is dropped.
`IdleMeansFinished` is stated for pools with workers: in a pool of size one a task runs
in its submitter, is neither queued nor counted, and another thread's `wait_idle`
returns before it has finished. Nesting in a chunk is `MCTaskNested.cfg`.

### process_pool

Two callers, sizes one and two, two worker processes, two jobs of which the second is too
long for a frame, one crash, both modes. Two threads are needed for a fork to fall
between another's `pipe` and `close`, two sizes for a thread to be leaving while another
is added, two jobs for one to fail on a worker that died idle after the other. Processes
are numbered and not reused, so a third `start` fails as a `pipe()` that fails does.
Fairness: threads and processes are scheduled, a task returns or its process dies, a
caller inside an operation goes on; nobody has to call, and nothing has to crash.
`JobsSettle` excepts the behaviours in which one worker holds another's pipe open for
ever (`HeldOpen`), which is the hang `MCProcessHang.cfg` shows: with that, it says there is no
other way for a job to be left.

### memory_budget

Two threads that hold up to one unit each, a limit of one or two that changes, reports
of zero or one, and either a cache with a lease or a lazy one. That is enough for a
lease to be looked at, its room taken by the other thread or by a report during the
callbacks, and looked at again; and for a sleeper to be passed over by a notification.
Fairness: threads run, and a wait in `reserve` ends at one of its wake-ups because the
deadline is fixed (strong fairness of `TimeUp`: the waits alternate with evictions).
Nobody has to release or drop anything. `SleeperIsTold` excepts room made by `set_usage`,
which notifies nobody; the timeout is all such a waiter has.

### proxy_modes

Both modes in one run, each with its own part of the state; a behaviour is of one mode.
Layer 7: a connection with two requests of every method, keyed or not, kept open or not; a
second one that says nothing, so that a thread ends, is joined by the acceptor or by `stop()`
while another is in any state; two backends and two attempts, which is what it takes to
retry, to run out of attempts and to run out of backends; answers with 200 or 503 (502 is
treated alike), with a length or until the backend closes. Layer 4: six bytes of request and four of
reply through buffers of two received by up to three, so that every buffer is full at some time
and a send is resumed; peers that shut their half when they are done, peers that keep both
open, and a backend that writes while it reads; either connection may break, the client's by `stop()` too.
Fairness: threads run, reads and dials end by their
timeouts, a peer writes and reads as far as it can. `ProxyEnds` is that `stop()` returns in layer 7,
that a relay between living peers moves everything (`MovesOrJams`), and that the thread of a client that is gone
or was shut ends (`EndsOrJams`). The one thread of a relay can also be jammed (`Jammed`): it sends to a
backend that will not read before it has written, and both of the backend's buffers are full. The two properties
except that state, no other, so they say that there is no other way to stay behind; that the
code gets there is what `MCProxyEcho.cfg` shows.
`SentOnce`, `RelayedIsWhole` and `HeadIsRelayed` are statements of the proxy's comments that the code does not
keep; they are checked by hand (section 6) and are not part of `ProxyInv`.

### mind_sessions

Two modules that share nothing in one run (`kind`), because each is small. Decoding: three
tokens of which one ends the answer, every path of six, prompts of one and three, a context
of five for the target and of two or five for the draft, rounds of one and three proposals,
answers cut at two tokens or at the context, cancellation after any token: so rounds are
accepted whole, in part and not at all, end inside a run, and meet the end of either
context. Streaming: twelve samples in chunks of one, three and five through a ring of
eight slots, so both indices wrap and samples are rejected; windows that overlap by one or
two samples, windows that adjoin, and hops longer than the window; budgets of none, one and two frames.
With the long hops the ring is outrun in some behaviours, and what `StreamingInv` and `SessionsEnd` say
of frames ends there; that no other setting comes to it (`OnlyLongHopsOutrun`) is part of `StreamingInv`. Fairness: a call
runs on, a session that is fed is pumped.

### trie_trainer

Two files of one or two units, marks at two and three so that one file, both, or one
file counted twice passes them, three stops or failures of any kind, a walk of the corpus that breaks off among
them. `DoneMeansAll` distinguishes how a run with `--once` ends: after a walk that was completed the checkpoint holds every
finished file; after one that broke off, every file that counts as done. Both except the files in `lost`, and so does
`FilesGetTrained`; `VerifiedMeansTrained` speaks of histories without any. `MCTrieDone.cfg` shows
that the exceptions are needed. Three are needed for
a stop between the rename and the list, a second one while the same file is saved again,
and a failed rename. The same configuration with three files and two troubles (1.26 M
states, 4 min) passes as well. Fairness: the process runs, and who runs it starts
it again, as the runbook says; stops, failures and broken walks are finitely many by the bound. A directory
that fails for ever would keep its files from being trained, and `FilesGetTrained` says nothing of it.
A trainer without `--once` waits for files, so the run does not look for deadlocks.
A stop is the end of the process, not of the machine: nothing is synced to the disk, and
what a power cut leaves is not modelled.

### batch_requests

Three requests, one of a higher priority, two active places, prompts of two chunks,
two tokens, cancellation, departures, a budget that may defer at any time, exceptions
from `admit` and from the model. Three requests with two places are needed for one to
wait while two run; the priority tells admission order from arrival order. `LifeSpec`
checks the refinement of `RequestLife`. `AllAnswered` assumes weak fairness of the worker
thread only. `AllAnswered` excepts requests `admit` threw for, which is the subject of
`MCBatchLost.cfg`, and the process that ended by `CancelCrashes`.

### federated_merge

Two workers, payloads of four kinds (two dimensions, none, not JSON), up to three
submissions, minimum one or two, both modes, with and without `--once`, two lives of
the process. Handlers are weakly fair (threads), the coordinator's death is not.
`SubmissionsAnswered` holds also after a payload that cannot be merged: each later submission is answered 400.
The output is written whole or cut short, whichever, so `ExitZeroMeansMerged` and `AckedIsInOutput` say that it was
written, and of what; that it is whole is `ExitZeroMeansWhole`, which fails (`MCFederatedShort.cfg`).
`OnlyDeathLeavesItOpen` says when a reader may find it emptied.

### cypha_object

Two paths, of which one is written; each starts as a format-1 file of a model of its own.
Two steps that change the object between or around any number of saves, torn saves,
deaths, failed and successful loads. Two steps are enough for a part changed once before
a save and once after it, or for the same part changed under two models. `LoadRestores`
compares every part with the object that was saved. `ModelsStayApart` marks (history
variable `mixed`) the two ways the code does mix models, a load that fails half way over a
used object and a format-1 load over a used generator or anchors, and shows there is no
third.

### Why CHECK_DEADLOCK is FALSE

Each of these programs may stop: registries have no more calls, a pool has been
destroyed, a coordinator has exited for the last time, and the bounds end behaviours.
Real deadlocks (a thread that waits for ever) are found by `EverythingEnds`, `CallsReturn`,
`JobsSettle`, `FilesGetTrained`, `AllAnswered`, `SubmissionsAnswered`, `ProxyEnds` and
`SessionsEnd` instead.

## 5. The proofs

Every invariant and every action property of the runs is a theorem, and so are the refinements
of `RequestLife` and `LeaseBook`. Liveness is not (section 7).
A theorem holds for all values of the constants that its module's `ASSUME` admits, and TLC
evaluates that assumption in the run of the same module.

| Module of proofs | About | Theorem | Says |
|---|---|---|---|
| `ServeProofs` | ModelRegistry | `RegistryIsSound` | `RegistrySpec => []RegistryInv` |
| | | `OkInstallsTheBundle` | `RegistrySpec => OkMeansInstalled` |
| | CyphaRest | `DefaultModelIsSound` | `Spec => []ServerInv`, and its parts as `TypeCorrect`, `ServesForever`, `SlotsKeepTheirKeys`, `OneBundleAfterLoad`, `ActiveKeyOfCleanModel` |
| | | `UpdatesAreKept` | `Spec => ForgetsOnlyByLoad` |
| | | `AckedUpdateIsServed` | `Spec => AckedIsServed` |
| `ClassifyProofs` | CyphaObject | `ModelsApart` | `Spec => []ObjectInv` |
| | | `LoadGivesBack` | `Spec => LoadRestores` |
| | FederatedCoordinator | `OutputIsMerged` | `FederatedSpec => []FederatedInv` |
| | | `MergesOnlyGrow` | `FederatedSpec => MergedNeverShrinks` |
| `BalancePoolProofs` | BalancePool | `PoolIsSound` | `Spec => []PoolInv`, and its parts `PoolTypeCorrect`, `QueueBound` |
| | | `LimitsAreKept` | `Spec => []LimitsHold`, and its parts `InflightIsExact`, `TrialLimit`, `CapRespected` |
| | | `RetryGoesElsewhere` | `Spec => RetriesElsewhere` |
| | LeaseBook | `PoolKeepsTheBook` | `Spec => BookSpec` |
| `ProxyProofs` | HttpProxy | `HttpIsSound` | `ProxySpec => []ProxyInv` |
| | ProxyRelay | `RelayIsSound` | `ProxySpec => []RelayInv` |
| `TaskPoolProofs` | TaskPool | `NothingLeftBehind` | `Spec => []TaskInv` |
| | | `LoopsAreSafe` | `Spec => []LoopInv` |
| | | `WaitIdleSeesAll` | `Spec => IdleMeansFinished` |
| `ProcessPoolProofs` | ProcessPool | `WorkersRight` | `Spec => []WorkersInv` |
| | | `WaitsSeeAllSettled` | `Spec => WaitSeesAllSettled` |
| `MindProofs` | BatchScheduler | `SchedulerIsSound` | `Spec => []SchedulerInv` |
| | | `AdmissionIsInOrder` | `Spec => AdmittedInOrder` |
| | RequestLife | `ImplementsLife` | `Spec => LifeSpec` |
| | MCMindSessions | `FramesAreOfTheirNumber` | `SessionsSpec => []StreamingInv` |
| | | `DecodingIsGreedy` | `SessionsSpec => []DecodingInv` |
| `SumProofs` | TrieTrainer | `DiskIsSound` | `Spec => []TrainerInv` |
| | | `ListedIsHeld`, `SavedIsModel` | `Spec => []NothingForgotten`, `Spec => []CkptIsModel` |
| | | `DoneIsAll` | `Spec => DoneMeansAll` |
| | | `VerifiedIsTrained` | `Spec => []VerifiedMeansTrained` |
| | MemoryBudget | `BudgetIsSound` | `BudgetSpec => []BudgetInv` |
| | | `LeasesNeverOvershoot` | `BudgetSpec => OnlyReportsOvershoot` |

### How they are laid out

None of these invariants is inductive as the run states it. Each module of proofs defines
the invariant that is (`IInv`, or `RegistryIInv`, `FederatedIInv`, `HttpIInv`, `RelayIInv`, `MemoryIInv` where
a module has two), proves one lemma for the initial states and one for each action, with a
step for each conjunct the action can disturb, collects them, and closes with PTL. Every
inductive invariant was checked with TLC on an instance like the run's before it was
proved. An action property is then a step from the inductive invariant; the paragraphs below
say what the invariants add and why.

Lemmas about operators come first in each module: `RemoveAtFacts` and the facts about places
in a sequence (scheduler), `AfterLoadFacts` (server), `LearntFacts` to `WithHeadFacts` (object), `PushFacts`,
`PopFacts`, `GotoFacts` (task pool), `FirstOnes` (process pool), and the sums of `SumProofs`.

### ModelRegistry

*Assumes* finitely many writers, at least one, and some call. `RegistryInv` speaks of calls
that follow one another, so the invariant says how far a call that is alone has come
(`Progress`: at `card` the model is whole and its own, and so on) as long as none overlapped
(`OneByOne`). For calls that do overlap it has `CardAfterModel`: a call begins its card only
when the model is no longer half its own. That is what makes a listed half-written model the
work of two calls (`HalfModelNeedsTwoCalls`), for any number of writers and deaths.

### CyphaRest

*Assumes* that the keys are a finite non-empty set, the two special values are no keys, and
bundle shapes have their type. `IInv` is `TypeOK` with the four model invariants, proved
together because one operator serves them all: `AfterLoadFacts` says what a load attempt
leaves of an object, failed at any stage or not. `SlotHoldsItsKey` carries its own
strengthening, `k \in mapped`. A dangling pointer (`LoadDangling`) needs nothing new: the server
loads another listed bundle, under that bundle's key. `UpdatesAreKept` goes through the
routes: a load leaves what another key serves, unless that is the globals and the load has read its weights
(`LoadSparesOthers`). `AckedUpdateIsServed`: the object
`Served` finds after the step is the one the update trained.

### CyphaObject

*Assumes* some path. `ModelsStayApart` is about the object and every file, and a load takes what a file
holds; so `FilesAreSound` says that a whole file holds a loaded object as it behaved, without a
kernel that is not used, and a format-1 file the weights of one model and nothing else; and
`EmptyUntilLoaded` that before the first load nothing was learned. `LoadGivesBack` composes the
stages of `Cypha::load` and compares every part with the object that was saved.

### FederatedCoordinator

*Assumes* finitely many workers, at least one, that are no numbers (payloads are named by
workers or by requests). The invariant ties the mutex to what its holder parsed:
`MutexRight` (who merges or writes holds it, and has taken exactly the payloads there are),
`PayloadsRight` (each kept once, those of the last output among them), `FilesRight` for the watch
loop, and `OutRight` for an output that is being replaced while the process stops; `OnlyDeathLeavesItOpen` is
inductive with them, because an output is opened only by who goes on to write it under the same hold.

### BalancePool

*Assumes* finitely many clients and thresholds that are naturals, not zero where the code
divides by them or must reach them; nothing about who adds what when.
`TypeOK` bounds `inflight` by the number of clients, and a grant could exceed it if the count
ran ahead of the leases; that it does not is `Counts`: `inflight` and `probes` are at most the
leases and the trials out on the entry as it is now, and short of them by no more than `strays`. `LeasesPoint` (a
held lease's index is in the table) makes the report go to an entry that exists.
`RetryGoesElsewhere` needs `FailedIsTried`: a client in `acquire` after a failure has that backend among
the tried ones or has just cleared them.

`PoolKeepsTheBook` needs two facts more, `BookInv`: no two entries were made by the same `add`
(`SelfsApart`), and a lease that is held names the backend at its index or none in the table (`LeasesName`).
With them the loans on a backend are the leases on its entry (`OutIsHolders`), so that the count `usable_`
compares with the limit is, but for strays, the number of loans out, and a grant is a `Lend`; a removal withdraws
one offer, an `add` makes one under a number of its own, and a report is a `Return` or, when the entry is
another one by then, a `ReturnAstray`.

### HttpProxy and ProxyRelay

*Assume* the types of their constants, and buffers of at least a byte. Layer 7: `TriedFirst` (what was
sent to or heard from was tried, and the lease is the last one tried), `NothingBegins` (after the
acceptor is joined, what is not over is among the threads `stop()` took), `Untouched`. Layer 4:
`BytesAreKept` is conservation: what a side wrote is in its buffer, in the thread's hands, in
the other's buffer, or read. `EventsAreRight` and `HoldIsBetween` say when the thread has bytes in
its hands, and `ToldAtTheEnd` that a side is told of the end of a live one only when all of it was
read. `EndComesLast` follows from these.

### TaskPool

*Assumes* that workers and callers are disjoint finite sets and that a loop has two chunks
at least (`parallel_for` runs one chunk without the pool). The pools may be any subsets of the
workers. The counts of the code are tied to stacks of frames: `active` is the number of workers
whose outermost frame is of a loop, `running` of those whose outermost frame is a task, and
`next[j]` is `done[j]` and the threads in a chunk of `j` (`Counted`). That needs the form of a stack
(`StacksRight`): a frame with another above it is in user code or draining, the loops on a
stack were begun in order, a worker's first frame is a loop or a task. `LoopsRight` says that `job_`
and every copy of it are of a loop still on some stack; `TasksRight` where a task is that is queued or
runs; `EndRight` who is left to empty the queue once the destructor has begun. A step is
described once, as an old and a new set of frames and perhaps a new base (`Stepped`), and
`CountsKept`, `ChunksKept`, `LoopsKept`, `TasksKept` and `EndKept` are applied to each action.
`wait_idle` frames matter to nothing but themselves, so `WakeIdle`, which changes many stacks
at once, changes none of this (`WakeFacts`).

### ProcessPool

*Assumes* finitely many callers, sizes within the threads, and at least one mode.
`WorkerRight` says for each position of a dispatch thread what its worker is like: how far its
pipes are, whether it lives, where the job and the answer are. `Nobodys` is the same for workers
no thread has. `JobsHeld` and `JobsCounted` (an unsettled job is queued or a thread has it;
`outstanding_` counts both) give `WaitsSeeAllSettled`. A crash fails one job at most because the crashed
workers that were waited for are at least as many (`CrashRight`). `FirstOnes` is what `set_workers` needs:
taking the lowest free numbers adds exactly as many threads as `live_` is short of.

### BatchScheduler and RequestLife

*Assumes* finitely many requests and caps that are not zero. `InOnePlace` and `AnsweredOnce`: a request is in one
queue, or lost in `admit`, or answered. `WorkerInList` ties the iterator and the requests still due
to the list the worker erases from, which gives every request its turn. `QueueInOrder` gives the order of admission.
For the refinement each action is a step or a stutter of `RequestLife`; `CancelledIsAsked` is
why "cancelled" is only answered if asked.

### StreamRing and Speculative

Both are proved in the composition the run checks, for either kind of session.

*Streaming assumes* a ring of `Slots` places, and windows and hops that are not zero, which is what the
constructor checks; nothing about hop and window, not even that the window
fits into the ring. `AllStreams` has three parts: the types hold always; until the ring is outrun `StreamIInv` holds;
and once it is, the hop is longer than the window. The last needs `StreamIInv` at the step that
outruns it (`OutranStep`): what is pending in a stock, taken hop by hop, is no more than the stock when hops fit
(`PendingFacts`), and a frame that was read leaves a window to consume. `StreamIInv` replaces the two masked indices by numbers that only
grow: `First`, the first sample of the next frame, and `stored`, the next sample to come. `IndicesRight`
says that the indices are those numbers modulo `Slots` and that with what is being copied they are less than
a ring apart; `SlotsRight` that the slots between them hold the samples of those numbers. Two numbers less than
a ring apart share no slot (`SameSlot`), so a copy touches nothing a frame still needs, and a frame that
is read while the other thread copies holds what it should (`FrameRight`). `LagRight` is the budget in
samples; `LagHolds` turns it into the number of frames the run's invariant speaks of.
That `Slots` is a power of two is what makes the code's mask a remainder; the proofs need the remainder only.

*Decoding assumes* that `Eos` is a token and that contexts, prompts, limits and rounds are in their
ranges. The invariant says of each place in a round how far the rows of target and draft go and what they
are of (`RowsRight`: tokens told so far, then proposals behind the accepted ones), that what is
emitted is the path's (`OnPath`), that a call goes on exactly as long as `generate` would (`EndRight`), and that a round
has proposals, no more than there is room for, of which the accepted ones were emitted
(`RoundRight`). From it: the row the target draws from is always that of the history
(`Verifying`, `DrawnOnPath`), so the token is the path's; a rewind takes back exactly what was not
emitted (`RowsRewound`); and a step that raises contradicts the room the theorem asks for (`RaiseInv`).
`AnswerIsGreedy` then compares with the reference answer, whose length is a least number.

### MemoryBudget and TrieTrainer

*MemoryBudget assumes* finitely many threads and caches of one kind each. `UsedIsExact` is a sum
over them, and the sums are folds over finite sets; no induction theorem of the library can
be instantiated here, so `LeastSubset` replaces it: among the subsets for which a fact
fails there would be a smallest one. From it come that the fold exists (`SumExists`), that it does not depend
on the order, that one summand changes it by the difference, and that larger sets have larger
sums. `AsksWithinLease` bounds what a thread asks for; `SleeperIsTold` is inductive with the types.

*TrieTrainer assumes* finitely many files, whose sizes are not zero. A property of the disk is kept by what the
process remembers: `NothingForgotten` holds at the step that lists a file because the checkpoint is then the model
(`CkptIsModel`), because the temporary file was before the rename (`TmpIsModel`), and the
model counts the file (`ModelCounts`); while the rename is tried again it holds because only that step
removes the checkpoint (`RemovedForRename`). `DoneIsAll` needs `DoneIsHeld`, which says
the same of every state in which the process has stopped with "done". `VerifiedIsTrained`: if
the list and the sum of the bytes agree, a file counted twice or missing would make one sum
larger than the other.

### What proving changed in the models

A `CASE` whose guards overlap picks either branch, and a proof has to cover both: `ProxyRelay.May` and
`CyphaRest.FaultOf` became `IF`s. `BatchScheduler` uses `RemoveAt` for what it wrote as a
concatenation. The sums are `SumFunctionOnSet`, which is a fold one can reason about.
`FederatedCoordinator` needs a worker, or the watch loop would be done with nothing. `StreamRing`
computed `Slots` from a capacity with powers of two, of which the prover knows nothing.

## 6. Where the code and its documents disagree

Each with a configuration to be run by hand (the property is defined in the module and
quoted with the line it comes from; TLC finds it violated):

- `tlc -config MCProcessHang.cfg ProcessPool.tla`: a worker forked while another thread has its
  pipes open keeps the write end of that worker's result pipe; when the other worker dies, its
  job is never settled and `wait_all` and `shutdown` wait for ever. `process_pool.hpp:29` says
  the parent sees the end of the pipe and fails the job.
- `tlc -config MCBatchLost.cfg MCBatchScheduler.tla`: a request whose `admit` throws
  (`batch.hpp:86`) is in neither queue when the others are answered with the error;
  `forge/docs/memory.md:76` says such an error "returns 503".
- `tlc -config MCHttpTwice.cfg HttpProxy.tla`: `proxy.hpp:6` retries "if the upstream cannot be
  reached or answers 502/503", and line 196 keeps an unsafe method from being sent again after
  a 503; but when a request was sent and no head comes (line 193), any method goes to the next
  backend: two backends may carry out one POST.
- `tlc -config MCHttpCut.cfg HttpProxy.tla`: "Responses are relayed until the upstream closes or
  Content-Length is satisfied" (`proxy.hpp:7`); an answer without a length that stalls or
  breaks off (line 201) is relayed as whole, with a Content-Length of its own.
- `tlc -config MCHttpHead.cfg HttpProxy.tla`: the body of an answer to a HEAD is waited for
  (line 200) though it has none; the client gets 502 and the backend is charged with a failure.
- `tlc -config MCProxyEcho.cfg ProxyRelay.tla`: "bytes are relayed both ways" (`proxy.hpp:3`); one
  thread with blocking sends (line 113) and a backend that writes while it reads end up
  waiting for each other, though the client reads all the time. No timeout ends it, and `stop()`
  joins that thread after shutting only the client's socket.
- `tlc -config MCSpeculativeFull.cfg Speculative.tla`: "With a greedy sampler the output is identical
  to target greedy" (`speculative.hpp:4`); when the last round fills the context with every
  proposal accepted the loop feeds one more token (line 39) and raises, where
  `session::generate` returns its answer.
- `tlc -config MCStreamRing.cfg MCStreamRing.tla`, two statements, of which TLC stops at the first (leave one
  INVARIANT to see either). `FramesAreTheirs`: a hop longer than the window, which the
  constructor accepts, moves the read index past the write index (`streaming.hpp:68`); the
  ring then looks full and the callback gets slots that hold no sample of its frame.
  `LatencyIsBounded`: "output latency stays bounded" (`streaming.hpp:4`);
  the budget is looked at when `pump` begins (line 58) and not again, so with callbacks slower
  than the input it never returns and never drops.
- `tlc -config MCRestActiveKey.cfg MCCyphaRest.tla`: a `/load` that fails after the weights
  were read (`cypha.cpp:764`) leaves the globals with the new weights and the active key
  with the old name, against `docs/port/PORT_CONTRACT.md:95` and 113.
- `tlc -config MCRestDangling.cfg MCCyphaRest.tla`: `/load` keeps a pointer into the listing
  over two lock holds (`cypha_rest.cpp:2026`); a `/register` in between reallocates it, and
  the reply may name another model than the one asked for.
- `tlc -config MCBalanceReadd.cfg BalancePool.tla`: re-adding an id (`balance.hpp:122`)
  resets counters under leases that are still out; when one of them is given back the new backend
  is leased beyond its `max_inflight`, against `forge/docs/balance.md:13`.
- `tlc -config MCTaskNested.cfg TaskPool.tla`: a chunk run by a worker that starts a loop
  waits (`pool.hpp:68`) for a count that includes itself; `pool.hpp:2` calls the pool "one
  scheduler for every layer".
- `tlc -config MCMemoryEvictAll.cfg MemoryBudget.tla`: `need_` is read after the unlock
  (`memory.hpp:166`); when room was made meanwhile it is 0, and `evict(0)` drops every cache,
  where `forge/docs/memory.md` says "the budget asks caches to free the shortfall".
- `tlc -config MCTrainedTwice.cfg TrieTrainer.tla`: a trainer stopped between the rename of
  the checkpoint and the line in `trained.txt` (`trie_stream_train_v2.cpp:159-166`) trains
  the file a second time; `scripts/train_model.sh:4` says "It resumes if stopped", and the
  deep check of the checkpoint it ends with fails.
- `tlc -config MCTrieDone.cfg TrieTrainer.tla`: "done: every finished file is trained"
  (`trie_stream_train_v2.cpp:191`). An error ends the walk of the corpus (line 132), nobody looks at it again, and with
  `--once` the run is done with files left. With `Faults = {"rename"}` in the configuration TLC finds the other way: the trainer is
  stopped after it has removed the checkpoint to rename a second time (`stream_trie.hpp:439`), begins anew, believes
  `trained.txt`, and is done without the files listed there.
- `tlc -config MCFederatedShort.cfg FederatedCoordinator.tla`: "merged N workers -> out"
  (`cypha_federated_coordinator.cpp:104` and 138) and exit code 0, or an answer 200, after a write of which only a part
  got to the disk: the state of the stream is not looked at (line 69).

Seen while modelling, without a configuration of their own:

- With `max_new` 0 the speculative ways emit one token and `generate` none. The draft's own
  context is not looked at: a draft that is full raises in the middle of an answer.
- A streaming callback that throws has already raised the frame's number; the same samples
  come again under the next one.
- The proxy's affinity key falls back to the request target, where `proxy.hpp:5` and
  `forge/docs/balance.md` speak of the client address; the 502 of an answer that breaks off
  counts neither as served nor as an error; a layer 4 retry may get the backend it just
  failed to dial.

- `cypha.cpp:865` prints that a format-1 load starts the RNG fresh, and
  `docs/reports/CYPHA_SAVE_LOAD_FIX.md` says so too; `load` does not touch `rng_`,
  `ewc_`, `ewc_lambda_`, the self-correction threshold or the last query score.
- The same document says a `train_hparams.json` wins over saved rates; its
  `replay_cap` has no effect when the file holds a replay buffer, which is rebuilt with
  the saved capacity.
- `Cypha::save` empties the file in place and never looks at the result of the write.
- A kernel that was switched off with `use_kernel_llr()` is not in the saved file.
- The registry's overwrite clears the old bundle before it looks at the sources; two
  overlapping calls without overwrite can both return true.
- Updates to the active model live in the globals only: `/load` of another key forgets
  them, the slot of the same name never saw them; so does one that fails behind the weights
  (`cypha.cpp:764`), and then the active key has not even changed.
- A slot whose load failed is listed as loaded by `GET /models` and answers 404.
- The coordinator keeps a payload before it parses it. After one that cannot be merged
  every later submission that reaches the minimum is answered 400 and no merge happens
  again; a payload answered 400 because the disk failed is counted twice when sent again.
- The coordinator's output is emptied in place, so a death in the middle of a write has destroyed
  the merge before; payloads are lost on a restart; an
  output inside the watched directory would be read as a worker's file.
- The balancer counts leases granted, not outcomes, as the base of its failure rate;
  outcomes of leases from before a circuit opened decide it when half-open; the second
  `acquire` of `call()` may return to the backend that just failed; of two half-open backends
  the first in the list gets every trial (`pick_`, line 252); a health probe's
  answer is applied to whatever is at the index by then.
- `set_usage` makes room without notifying the waiters of `reserve`; the scheduler's cache
  claims bytes as freed that its worker drops later, so `evict` stops early.
- The live trainer reads a checkpoint into its model in place (`trie_stream_train.cpp:299-330`). When reading fails
  behind the magic it goes on with what it has, an empty model or one half read, and then overwrites the checkpoint;
  `trained.txt` still lists the files. `done.txt` of v2
  stays when a later run trains more.
- A snapshot missed by a stop is taken at the end of the next file, from a larger model
  than its label says.
- `wait_idle` of a pool of size one returns while another caller's task runs.
- `batch_scheduler::cancel` may return true for a request that ends as "stop", and walks
  `active_` while the worker empties an entry without the lock (`batch.hpp:97-98`, a data race):
  a cancel for it or for one behind it follows an empty pointer (`CancelCrashes`).

## 7. What is only model-checked, and what is not modelled

*Only model-checked.* Liveness: `HalfOpenResolves`, `EverythingEnds`, `JobsSettle`, `CallsReturn`,
`FilesGetTrained`, `AllAnswered`, `SubmissionsAnswered`, `ProxyEnds` and `SessionsEnd` stay with TLC,
because the prover does not do fairness and ENABLED.

*Abstractions inside modelled parts.* Numbers: what a training row does to the weights,
scores, latencies. Clocks: replaced by actions that may happen at any time. Strategy
preference in the balancer: any usable backend. Task priorities: any queued task may be
next. Exceptions out of a loop body of `parallel_for`: the repository's bodies do not
throw. Data races: where two threads touch memory without the lock (`/load` reading the
listing's emptiness) the model has the outcomes that are not undefined behaviour, and the
text above says so; of the race on the scheduler's list it has the crash as well. The preprocessor is part of
CyphaRest and left out of CyphaObject, where it is read from a file of its own and
never saved. In the process pool: payloads, the sandbox, Windows. In the memory budget:
adding and removing caches while it runs, their order, the pmr resource, the spill
store, detection of the host's limits. In the trainers: what is counted inside a file,
a read error in the middle of one, a torn line of a list, two trainers in one directory,
power cuts. In the proxy: header rewriting, chunked bodies as such, routing and affinity, the
counters; a request that is answered while it is still being sent; peers slower than the
idle timeout on layer 4. In decoding: temperature, penalties, adapters, recurrent state,
`max_new` 0. In streaming: statistics, callbacks that throw, more than one feeder. Also
`trie_ckpt` as one step though it opens the checkpoint twice.

*Hazards without a property.* The models have these behaviours, and no document
promises otherwise or section 6 quotes it: a mistyped source path
with overwrite destroys the installed bundle (`registry.cpp:71`); a slot whose load failed
stays listed (`cypha_rest.cpp:586`); a batch update that stops at a bad row keeps the rows
before it (`cypha_rest.cpp:1511`); a stale health mark (`balance.hpp:192`) and the base of
the failure rate (`balance.hpp:342`); outcomes from before a circuit opened that decide it
(`balance.hpp:336`); a pool of size one (`pool.hpp:129`); a chunk that starts a loop
(`pool.hpp:68`); payloads lost on a coordinator's restart; a format-1 load
(`cypha.cpp:865`); the in-place save (`save_cypha.cpp:153`). Not in the models: a loop body that throws out of `parallel_for`
(`pool.hpp:64`); the data races on the registry listing (`cypha_rest.cpp:1990`) and on the sockets `stop()` shuts (`proxy.hpp:63`); a
streaming callback that throws (`streaming.hpp:64`).

*Not modelled.* `PROJECT.json` lists these parts with a reason each. In short: sequential
floating-point code (language model, classifier arithmetic, knowledge, forecasting,
semantics), parsers and writers of file formats, generated SIMD kernels, device
drivers, the shell language, user interfaces, vendored code, benches and text. Routes of
the server that do not move models (`/session`, `/metrics`, `/adapt_temperature`, sampling,
language model routes) take `g_mu` and compute.

## 8. Plan

Modules 1 to 11 are there, each with its run and with the proofs of every
invariant and action property of that run.

1. `ModelRegistry`, `CyphaRest`: what every other part of Cypha is reached through.
2. `BalancePool`: leases, limits and circuit breakers.
3. `TrieTrainer`: the four files and the model.
4. `TaskPool`.
5. `ProcessPool`.
6. `MemoryBudget`.
7. `BatchScheduler` over `RequestLife`.
8. `FederatedCoordinator`.
9. `CyphaObject`.
10. `HttpProxy` and `ProxyRelay`.
11. `Speculative` and `StreamRing`.
12. Pure algorithms against reference definitions over bounded inputs: smooth weighted
    round robin, the replay buffer's ring and the ring of latents (`kOodWindow`), the
    arithmetic coder's interval (with its integer width).
13. The disk cache, the asynchronous readers (`aio.hpp`, `async_file.hpp`), the prefix cache and
    the RPC layer of FORGE, if the above leaves room.

Abstract specifications worth stating besides `RequestLife` and `LeaseBook`: an atomic
store of (key, bundle) for the registry, a counter of indivisible loops for `TaskPool`.

## 9. Running it

```
tlc -workers 2 -config MCCyphaRest.cfg MCCyphaRest.tla
tlc -workers 2 -config MCTaskPool.cfg TaskPool.tla
tlapm ServeProofs.tla          # also Classify, BalancePool, Proxy, Mind,
                               # TaskPool, ProcessPool and SumProofs
```

The table of section 4 gives the module and the configuration of each run. Operators
marked "Mutant" in the modules are the forms a bug would give to the definition below
them; `PROJECT.json` lists which property each one violates, so that no property
passes whatever the code does.
