------------------------ MODULE FederatedCoordinator ------------------------
(***************************************************************************)
(* cypha_federated_coordinator: workers hand in their memories, the        *)
(* coordinator merges all of them into one output file.  In listen mode a  *)
(* POST /submit is one handler thread; the payloads live in memory, behind *)
(* one mutex.  In watch mode a loop lists a directory and reads its files. *)
(* A worker that got no answer, or a bad one, is run again by its operator.*)
(***************************************************************************)
EXTENDS Naturals, Sequences, FiniteSets

CONSTANTS Workers,      \* machines that train
          MaxMin,       \* bound: the largest --min-workers
          MaxRequests,  \* bound: POST /submit calls in a behaviour
          MaxRuns       \* bound: times the coordinator is started

ASSUME FederatedAssumption == /\ IsFiniteSet(Workers) /\ Workers # {} /\ Workers \cap Nat = {}
                              /\ MaxMin \in Nat \ {0} /\ MaxRequests \in Nat
                              /\ MaxRuns \in Nat \ {0}

Requests == 1..MaxRequests

\* What a worker sends: no JSON, JSON without a latent dimension, or the memory
\* of a model of one of two sizes.
Kinds == {"text", "unset", "small", "large"}

Configs == [mode: {"listen", "watch"}, min: 1..MaxMin, once: BOOLEAN,
            kind: [Workers -> Kinds]]
Exits == {"exit 0", "exit 1", "exit 2", "killed"}

\* The output file: there is none, it is emptied to be written, it was cut short by a
\* write that failed, or it is whole; and the payloads it merges.
Outputs == {"none", "open", "cut", "whole"}
Output(is, list) == [is |-> is, of |-> list]

VARIABLES config,    \* the command line, and what each worker has to send
          proc,      \* the coordinator process
          runs,      \* times it was started
          payloads,  \* listen: the requests whose payload is kept, in order
          mu,        \* the request that holds the mutex, 0 for none
          from,      \* per request, the worker that sent it
          pc,        \* per request, where its handler is or how it was answered
          took,      \* per request, the payloads its merge parsed
          file,      \* watch: each worker's file in the directory
          watch,     \* watch: where the loop is, the files it listed and has read
          out,       \* the output file
          merged     \* history: payloads in the last output of this process

federatedVars == <<config, proc, runs, payloads, mu, from, pc, took, file, watch, out, merged>>
handlers == <<payloads, mu, from, pc, took>>
loop == <<file, watch>>

Sources == Requests \cup Workers
Lists == UNION {[1..n -> Sources] : n \in 0..(MaxRequests + Cardinality(Workers))}

FederatedTypeOK ==
  /\ config \in Configs
  /\ proc \in {"running", "stopping"} \cup Exits /\ runs \in 1..MaxRuns
  /\ payloads \in Lists /\ mu \in 0..MaxRequests
  /\ from \in [Requests -> Workers]
  /\ pc \in [Requests -> {"unsent", "received", "merging", "writing",
                          "200", "400", "lost"}]
  /\ took \in [Requests -> Lists]
  /\ file \in [Workers -> {"none", "partial", "whole"}]
  /\ watch \in [at: {"list", "read", "write"}, names: SUBSET Workers, took: Lists]
  /\ out \in [is: Outputs, of: Lists] /\ merged \in Nat

Idle == [at |-> "list", names |-> {}, took |-> <<>>]

FederatedInit ==
  /\ config \in Configs
  /\ proc = "running" /\ runs = 1
  /\ payloads = <<>> /\ mu = 0
  /\ from = [r \in Requests |-> CHOOSE w \in Workers : TRUE]
  /\ pc = [r \in Requests |-> "unsent"]
  /\ took = [r \in Requests |-> <<>>]
  /\ file = [w \in Workers |-> "none"] /\ watch = Idle
  /\ out = Output("none", <<>>) /\ merged = 0

-----------------------------------------------------------------------------
(* Merging *)

KindOf(x) == config.kind[IF x \in Workers THEN x ELSE from[x]]
Dimensioned(list) == \A i \in 1..Len(list) : KindOf(list[i]) \in {"small", "large"}

\* federated_average_payloads folds from the first: each must have a dimension,
\* and that of the first.
Mergeable(list) == /\ Dimensioned(list)
                   /\ \A i \in 1..Len(list) : KindOf(list[i]) = KindOf(list[1])

\* write_merged opens the output, which empties it, ...
OpenOut == out' = Output("open", <<>>)
\* ... and writes it.  A write that fails, on a full disk, leaves a part of the text
\* behind; nobody looks, and everything goes on as if it had not.
WriteOut(list) == (\E is \in {"whole", "cut"} : out' = Output(is, list)) /\ merged' = Len(list)

-----------------------------------------------------------------------------
(* POST /submit *)

\* The body is parsed before the lock is taken.
Receive(w) ==
  /\ config.mode = "listen" /\ proc = "running"
  /\ \E r \in Requests :
       /\ pc[r] = "unsent" /\ \A q \in 1..(r - 1) : pc[q] # "unsent"
       /\ from' = [from EXCEPT ![r] = w]
       /\ pc' = [pc EXCEPT ![r] = IF config.kind[w] = "text" THEN "400" ELSE "received"]
  /\ UNCHANGED <<config, proc, runs, payloads, mu, took, loop, out, merged>>

Serving(r) == proc \in {"running", "stopping"} /\ mu = r

\* Mutant: it merges when the number is met, and never for those that come later.
KeepMergingOnce(r) ==
  /\ pc[r] = "received" /\ proc \in {"running", "stopping"} /\ mu = 0
  /\ payloads' = Append(payloads, r)
  /\ IF Len(payloads') # config.min
     THEN pc' = [pc EXCEPT ![r] = "200"] /\ UNCHANGED mu
     ELSE pc' = [pc EXCEPT ![r] = "merging"] /\ mu' = r
  /\ UNCHANGED <<config, proc, runs, from, took, loop, out, merged>>

\* The payload is kept before anything is known of it; the lock is held on only
\* if there are enough to merge.
Keep(r) ==
  /\ pc[r] = "received" /\ proc \in {"running", "stopping"} /\ mu = 0
  /\ payloads' = Append(payloads, r)
  /\ IF Len(payloads') < config.min
     THEN pc' = [pc EXCEPT ![r] = "200"] /\ UNCHANGED mu
     ELSE pc' = [pc EXCEPT ![r] = "merging"] /\ mu' = r
  /\ UNCHANGED <<config, proc, runs, from, took, loop, out, merged>>

\* Mutant: the lock ends with the merge.
MergeReleasing(r) ==
  /\ pc[r] = "merging" /\ Serving(r) /\ Mergeable(payloads)
  /\ OpenOut
  /\ took' = [took EXCEPT ![r] = payloads]
  /\ pc' = [pc EXCEPT ![r] = "writing"]
  /\ mu' = 0
  /\ UNCHANGED <<config, proc, runs, payloads, from, loop, merged>>

\* Everything kept is parsed and merged again, and the output opened.
Merge(r) ==
  /\ pc[r] = "merging" /\ Serving(r) /\ Mergeable(payloads)
  /\ OpenOut
  /\ took' = [took EXCEPT ![r] = payloads]
  /\ pc' = [pc EXCEPT ![r] = "writing"]
  /\ UNCHANGED <<config, proc, runs, payloads, mu, from, loop, merged>>

\* Mutant: the mutex is not released when the merge throws.
RefuseLocked(r) ==
  /\ pc[r] = "merging" /\ Serving(r)
  /\ pc' = [pc EXCEPT ![r] = "400"]
  /\ UNCHANGED <<config, proc, runs, payloads, mu, from, took, loop, out, merged>>

\* A payload among those kept cannot be merged, or the output cannot be opened:
\* the exception is answered 400 and the payload stays.
Refuse(r) ==
  /\ pc[r] = "merging" /\ Serving(r)
  /\ pc' = [pc EXCEPT ![r] = "400"] /\ mu' = 0
  /\ UNCHANGED <<config, proc, runs, payloads, from, took, loop, out, merged>>

Write(r) ==
  /\ pc[r] = "writing" /\ proc \in {"running", "stopping"}
  /\ WriteOut(took[r])
  /\ pc' = [pc EXCEPT ![r] = "200"] /\ mu' = IF mu = r THEN 0 ELSE mu
  /\ proc' = IF config.once THEN "stopping" ELSE proc
  /\ UNCHANGED <<config, runs, payloads, from, took, loop>>

\* Stopped by --once, listen() returns when the handlers are done.
InHandler(r) == pc[r] \in {"received", "merging", "writing"}
Return ==
  /\ proc = "stopping" /\ \A r \in Requests : ~InHandler(r)
  /\ proc' = "exit 0"
  /\ UNCHANGED <<config, runs, handlers, loop, out, merged>>

-----------------------------------------------------------------------------
(* --watch-dir *)

Watching(at) == config.mode = "watch" /\ proc = "running" /\ watch.at = at

\* A worker writes its file, not in one piece, and may write it again.
WorkerWrites(w) ==
  /\ config.mode = "watch"
  /\ file' = [file EXCEPT ![w] = IF @ = "partial" THEN "whole" ELSE "partial"]
  /\ UNCHANGED <<config, proc, runs, handlers, watch, out, merged>>

\* Each round lists the directory; with too few files it sleeps or, told to look
\* only once, ends with 2.
List ==
  /\ Watching("list")
  /\ LET names == {w \in Workers : file[w] # "none"} IN
     IF Cardinality(names) >= config.min
     THEN watch' = [at |-> "read", names |-> names, took |-> <<>>] /\ UNCHANGED proc
     ELSE proc' = (IF config.once THEN "exit 2" ELSE proc) /\ UNCHANGED watch
  /\ UNCHANGED <<config, runs, handlers, file, out, merged>>

\* The next file is read; one that is half written or not JSON throws out of the
\* loop and ends the process.
Read ==
  /\ Watching("read")
  /\ \E w \in watch.names :
       IF file[w] = "whole" /\ config.kind[w] # "text"
       THEN /\ watch' = [watch EXCEPT !.names = @ \ {w}, !.took = Append(@, w)]
            /\ UNCHANGED proc
       ELSE proc' = "exit 1" /\ UNCHANGED watch
  /\ UNCHANGED <<config, runs, handlers, file, out, merged>>

\* All are read: merged and the output opened, or the process ends.
MergeFiles ==
  /\ Watching("read") /\ watch.names = {}
  /\ \/ /\ Mergeable(watch.took)
        /\ OpenOut /\ watch' = [watch EXCEPT !.at = "write"] /\ UNCHANGED proc
     \/ proc' = "exit 1" /\ UNCHANGED <<out, watch>>
  /\ UNCHANGED <<config, runs, handlers, file, merged>>

WriteFiles ==
  /\ Watching("write")
  /\ WriteOut(watch.took)
  /\ watch' = Idle
  /\ proc' = IF config.once THEN "exit 0" ELSE proc
  /\ UNCHANGED <<config, runs, handlers, file>>

-----------------------------------------------------------------------------
(* The process *)

Die == /\ proc \in {"running", "stopping"} /\ proc' = "killed"
       /\ UNCHANGED <<config, runs, handlers, loop, out, merged>>

\* Started again: the files are still there, the payloads are not.
StartAgain ==
  /\ proc \in Exits /\ runs < MaxRuns /\ runs' = runs + 1
  /\ proc' = "running" /\ payloads' = <<>> /\ mu' = 0 /\ watch' = Idle /\ merged' = 0
  /\ pc' = [r \in Requests |-> IF InHandler(r) THEN "lost" ELSE pc[r]]
  /\ UNCHANGED <<config, from, took, file, out>>

Handler(r) == Keep(r) \/ Merge(r) \/ Refuse(r) \/ Write(r)
Loop == List \/ Read \/ MergeFiles \/ WriteFiles

FederatedNext ==
  \/ \E w \in Workers : Receive(w) \/ WorkerWrites(w)
  \/ \E r \in Requests : Handler(r)
  \/ Return \/ Loop \/ Die \/ StartAgain

\* The threads of the process run on: mutex, merge and write end by themselves.
FederatedSpec == FederatedInit /\ [][FederatedNext]_federatedVars
FairFederatedSpec ==
  /\ FederatedSpec /\ WF_federatedVars(Return)
  /\ \A r \in Requests : WF_federatedVars(Handler(r))

-----------------------------------------------------------------------------
\* The output was written after it was opened: to its end, or as far as the disk let
\* it, which the code does not find out (write_merged ignores the stream's state).
Written == out.is \in {"whole", "cut"}

\* A coordinator that ends with 0 has written a merge, perhaps cut short, of payloads
\* that can be merged and at least as many as it was told to wait for.
ExitZeroMeansMerged ==
  proc = "exit 0" => Written /\ Len(out.of) >= config.min /\ Mergeable(out.of)

\* A submission that was acknowledged is in the merge last written, perhaps cut short,
\* as soon as there is one and whenever nobody is writing; one that made up the number,
\* at once.
AckedIsInOutput ==
  proc \in {"running", "stopping"} /\ (\A r \in Requests : pc[r] # "writing") =>
    \A i \in 1..Len(payloads) :
      pc[payloads[i]] = "200" /\ (i >= config.min \/ merged > 0) =>
        Written /\ \E j \in 1..Len(out.of) : out.of[j] = payloads[i]

\* An output that was opened and not written is being written, or was when a process was
\* killed, this one or one before a merge of this one: no error path, overtaking handler
\* or exit leaves one behind.
OnlyDeathLeavesItOpen ==
  out.is = "open" =>
    \/ watch.at = "write" \/ \E r \in Requests : pc[r] = "writing"
    \/ runs > 1 /\ merged = 0

\* What an exit code or an acknowledgement says of the output, and what a reader of it
\* may find.  A write that is cut short is excepted: nothing tells of it.
FederatedInv ==
  FederatedTypeOK /\ ExitZeroMeansMerged /\ AckedIsInOutput /\ OnlyDeathLeavesItOpen

\* "merged N workers -> out" (cypha_federated_coordinator.cpp:104, 138) and an exit code
\* of 0, without the exception: what was merged is all there.
ExitZeroMeansWhole == proc = "exit 0" => out.is = "whole"

\* A handler that was overtaken does not put an older merge over a newer one:
\* while the process lives the output only gains workers.
MergedNeverShrinks ==
  [][config.mode = "listen" /\ runs' = runs => merged' >= merged]_federatedVars

\* Every submission is answered unless the process dies, after bad ones too.
SubmissionsAnswered ==
  \A r \in Requests : pc[r] = "received" ~> pc[r] \in {"200", "400"} \/ proc \in Exits
=============================================================================
