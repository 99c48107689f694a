--------------------------- MODULE BatchScheduler ---------------------------
(***************************************************************************)
(* forge::mind::batch_scheduler: requests of many clients share a model,   *)
(* one worker thread advances every active request by one token per step.  *)
(* What is done in one hold of mu_ is one action; the worker gives mu_ up  *)
(* between looking whether a request was cancelled, advancing it, and      *)
(* taking it off active_.  Tokens are left out: a turn may end a request   *)
(* for any reason the sampler and the grammar may find.  The clients are   *)
(* forge-serve's connections: each submits one request, and may go away.   *)
(***************************************************************************)
EXTENDS Naturals, Sequences, FiniteSets, SequencesExt

CONSTANTS Requests,
          Priority,    \* request::priority, a function
          MaxActive,   \* batch_options::max_active
          Prefill,     \* chunks of a prompt
          MaxNew,      \* request::max_new
          Budgeted,    \* a memory budget is set: it may be under pressure at any time
          Faults       \* what may throw: "admit" (admit), "forward" (the model)

ASSUME BatchAssumption ==
  /\ IsFiniteSet(Requests) /\ Priority \in [Requests -> Nat]
  /\ MaxActive \in Nat \ {0} /\ Prefill \in Nat \ {0} /\ MaxNew \in Nat \ {0}
  /\ Budgeted \in BOOLEAN /\ Faults \subseteq {"admit", "forward"}

\* "ended" stands for "stop", "length" and "grammar".
Reasons == {"ended", "cancelled", "error"}

VARIABLES waiting,    \* waiting_
          active,     \* active_
          cancelled,  \* active requests whose cancelled flag is set
          fed, out,   \* of each active request: chunks of its prompt fed, tokens out
          answers,    \* the calls of its on_done
          accepted,   \* requests submitted, in that order
          left,       \* requests whose client went away: on_token returns false
          asked,      \* requests cancel was called for
          pc,         \* where the worker is
          at,         \* its place in active_
          due,        \* history: active requests not looked at yet in this step
          quit,       \* quit_
          lost        \* history: the requests admit threw for

vars == <<waiting, active, cancelled, fed, out, answers, accepted, left, asked, pc, at, due, quit, lost>>
clients == <<accepted, left, asked, quit, lost>>

TypeOK ==
  /\ waiting \in Seq(Requests) /\ active \in Seq(Requests) /\ Len(active) <= MaxActive
  /\ cancelled \subseteq Requests
  /\ fed \in [Requests -> 0..Prefill] /\ out \in [Requests -> 0..MaxNew]
  /\ answers \in [Requests -> Seq(Reasons)]
  /\ accepted \in Seq(Requests) /\ left \subseteq Requests /\ asked \subseteq Requests
  /\ pc \in {"wait", "step", "look", "cancel", "advance", "retire", "failed", "over", "crashed"}
  /\ at \in 1..MaxActive + 1 /\ due \subseteq Requests /\ quit \in BOOLEAN
  /\ lost \subseteq Requests

Init ==
  /\ waiting = <<>> /\ active = <<>> /\ cancelled = {}
  /\ fed = [r \in Requests |-> 0] /\ out = [r \in Requests |-> 0]
  /\ answers = [r \in Requests |-> <<>>]
  /\ accepted = <<>> /\ left = {} /\ asked = {}
  /\ pc = "wait" /\ at = 1 /\ due = {} /\ quit = FALSE /\ lost = {}

Answer(r, why) == answers' = [answers EXCEPT ![r] = Append(@, why)]

-----------------------------------------------------------------------------
(* The callers *)

\* Mutant: before the first of no higher priority, that is: the last come is
\* served first within a priority.
PlaceAmongEquals(r) ==
  Cardinality({i \in DOMAIN waiting : Priority[waiting[i]] > Priority[r]}) + 1

\* submit inserts before the first request of a lower priority.
Place(r) ==
  LET lower == {i \in DOMAIN waiting : Priority[waiting[i]] < Priority[r]} IN
  IF lower = {} THEN Len(waiting) + 1 ELSE CHOOSE i \in lower : \A j \in lower : i <= j

Submit(r) ==
  /\ r \notin ToSet(accepted)
  /\ accepted' = Append(accepted, r)
  /\ waiting' = InsertAt(waiting, Place(r), r)
  /\ UNCHANGED <<active, cancelled, fed, out, answers, left, asked, pc, at, due, quit, lost>>

\* Mutant: the waiting request is answered but not taken off the queue.
CancelInPlace(r) ==
  /\ r \in ToSet(accepted) \ asked /\ (answers[r] = <<>> \/ r \in ToSet(active))
  /\ asked' = asked \cup {r}
  /\ IF r \in ToSet(waiting)
     THEN Answer(r, "cancelled") /\ UNCHANGED <<waiting, cancelled>>
     ELSE /\ cancelled' = cancelled \cup ({r} \cap ToSet(active))
          /\ UNCHANGED <<waiting, answers>>
  /\ UNCHANGED <<active, fed, out, accepted, left, pc, at, due, quit, lost>>

\* Where a waiting request is in the queue.
PlaceOf(r) == CHOOSE i \in DOMAIN waiting : waiting[i] = r

\* cancel: a waiting request is answered here, an active one is marked.
Cancel(r) ==
  /\ r \in ToSet(accepted) \ asked /\ (answers[r] = <<>> \/ r \in ToSet(active))
  /\ asked' = asked \cup {r}
  /\ IF r \in ToSet(waiting)
     THEN waiting' = RemoveAt(waiting, PlaceOf(r)) /\ Answer(r, "cancelled") /\ UNCHANGED cancelled
     ELSE /\ cancelled' = cancelled \cup ({r} \cap ToSet(active))
          /\ UNCHANGED <<waiting, answers>>
  /\ UNCHANGED <<active, fed, out, accepted, left, pc, at, due, quit, lost>>

\* retire and erase do without mu_: between them the entry is an empty pointer, which
\* a cancel that comes so far in the list follows, and an embedder's process is over.
\* (Of the outcomes of this race the others are those of a cancel before or after.)
CancelCrashes(r) ==
  /\ pc = "retire" /\ r \in ToSet(accepted) \ ToSet(waiting)
  /\ r \notin ToSet(SubSeq(active, 1, at - 1)) \ cancelled
  /\ pc' = "crashed"
  /\ UNCHANGED <<waiting, active, cancelled, fed, out, answers, accepted, left, asked, at, due, quit, lost>>

\* The connection fails or has seen a stop string.
Leave(r) ==
  /\ r \in ToSet(accepted) \ left /\ answers[r] = <<>>
  /\ left' = left \cup {r}
  /\ UNCHANGED <<waiting, active, cancelled, fed, out, answers, accepted, asked, pc, at, due, quit, lost>>

Stop ==
  /\ ~quit /\ quit' = TRUE
  /\ UNCHANGED <<waiting, active, cancelled, fed, out, answers, accepted, left, asked, pc, at, due, lost>>

-----------------------------------------------------------------------------
(* The worker *)

Goto(l) == pc' = l

Wake ==
  /\ pc = "wait" /\ (quit \/ waiting # <<>> \/ active # <<>>)
  /\ Goto(IF quit THEN "over" ELSE "step")
  /\ UNCHANGED <<waiting, active, cancelled, fed, out, answers, clients, at, due>>

\* Mutant: a budget under pressure holds requests back though none is running.
MayDeferAlways(n) == Budgeted \/ n = MaxActive - Len(active) \/ n = Len(waiting)

HasRoom(n) == Len(active) + n <= MaxActive

\* How many are admitted: all there is room for, unless the budget is under
\* pressure while a request is running.
MayDefer(n) ==
  \/ n = MaxActive - Len(active) \/ n = Len(waiting)
  \/ Budgeted /\ Len(active) + n > 0

\* The admission loop of step, in one hold of mu_.
Admit ==
  /\ pc = "step"
  /\ \E n \in 0..Len(waiting) :
       /\ HasRoom(n) /\ MayDefer(n)
       /\ active' = active \o SubSeq(waiting, 1, n)
       /\ waiting' = SubSeq(waiting, n + 1, Len(waiting))
  /\ Goto(IF active' = <<>> THEN "wait" ELSE "look") /\ at' = 1 /\ due' = ToSet(active')
  /\ UNCHANGED <<cancelled, fed, out, answers, clients>>

\* admit throws for one of them, which is in neither queue by then.
AdmitThrows ==
  /\ pc = "step" /\ "admit" \in Faults
  /\ \E n \in 1..Len(waiting) :
       /\ HasRoom(n)
       /\ active' = active \o SubSeq(waiting, 1, n - 1)
       /\ waiting' = SubSeq(waiting, n + 1, Len(waiting))
       /\ lost' = lost \cup {waiting[n]}
  /\ Goto("failed")
  /\ UNCHANGED <<cancelled, fed, out, answers, accepted, left, asked, quit, at, due>>

\* The loop over active_: the end, or the next one's cancelled flag.
Look ==
  /\ pc = "look"
  /\ Goto(IF at > Len(active) THEN "wait"
          ELSE IF active[at] \in cancelled THEN "cancel" ELSE "advance")
  /\ at' = IF at > Len(active) THEN 1 ELSE at
  /\ due' = IF at > Len(active) THEN due ELSE due \ {active[at]}
  /\ UNCHANGED <<waiting, active, cancelled, fed, out, answers, clients>>

Turn == active[at]
Finish(why) == Answer(Turn, why) /\ Goto("retire") /\ UNCHANGED at
Continue == Goto("look") /\ at' = at + 1 /\ UNCHANGED answers

FinishCancelled ==
  /\ pc = "cancel" /\ Finish("cancelled")
  /\ UNCHANGED <<waiting, active, cancelled, fed, out, clients, due>>

\* advance, up to the last chunk of the prompt ...
Feed ==
  /\ pc = "advance" /\ fed[Turn] < Prefill - 1
  /\ fed' = [fed EXCEPT ![Turn] = @ + 1]
  /\ Continue
  /\ UNCHANGED <<waiting, active, cancelled, out, clients, due>>

\* ... and from then on: a token, and what it means.
Sample ==
  /\ pc = "advance" /\ fed[Turn] >= Prefill - 1
  /\ fed' = [fed EXCEPT ![Turn] = Prefill]
  /\ \/ Finish("ended") /\ UNCHANGED out      \* rejected by the grammar
     \/ /\ out' = [out EXCEPT ![Turn] = @ + 1]
        /\ IF Turn \in left THEN Finish("cancelled")
           ELSE Finish("ended") \/ (out'[Turn] < MaxNew /\ Continue)
  /\ UNCHANGED <<waiting, active, cancelled, clients, due>>

\* The model throws, before the token or after it.
ForwardThrows ==
  /\ pc = "advance" /\ "forward" \in Faults
  /\ Goto("failed")
  /\ UNCHANGED <<waiting, active, cancelled, fed, out, answers, clients, at, due>>

Retire ==
  /\ pc = "retire"
  /\ active' = RemoveAt(active, at) /\ cancelled' = cancelled \ {Turn}
  /\ fed' = [fed EXCEPT ![Turn] = 0] /\ out' = [out EXCEPT ![Turn] = 0]
  /\ Goto("look")
  /\ UNCHANGED <<waiting, answers, clients, at, due>>

\* Mutant: the failed requests are answered but not dropped.
FailAllKeeping ==
  /\ pc = "failed" /\ Goto("wait") /\ at' = 1
  /\ answers' = [r \in Requests |-> IF r \in ToSet(active) THEN Append(answers[r], "error")
                                    ELSE answers[r]]
  /\ UNCHANGED <<waiting, active, cancelled, fed, out, clients, due>>

FailAll ==
  /\ pc = "failed" /\ Goto("wait") /\ at' = 1
  /\ answers' = [r \in Requests |-> IF r \in ToSet(active) THEN Append(answers[r], "error")
                                    ELSE answers[r]]
  /\ active' = <<>> /\ cancelled' = {}
  /\ fed' = [r \in Requests |-> 0] /\ out' = [r \in Requests |-> 0]
  /\ UNCHANGED <<waiting, clients, due>>

Worker == \/ Wake \/ Admit \/ AdmitThrows \/ Look \/ FinishCancelled
          \/ Feed \/ Sample \/ ForwardThrows \/ Retire \/ FailAll

Next ==
  /\ pc # "crashed"
  /\ \/ Worker
     \/ \E r \in Requests : Submit(r) \/ Cancel(r) \/ CancelCrashes(r) \/ Leave(r)
     \/ Stop

Spec == Init /\ [][Next]_vars

\* The worker thread is scheduled.
FairSpec == Spec /\ WF_vars(Worker)

-----------------------------------------------------------------------------
Life == INSTANCE RequestLife WITH accepted <- ToSet(accepted), asked <- asked \cup left

\* The scheduler keeps what RequestLife promises: no request is answered twice,
\* none "cancelled" unasked, whatever cancel, errors and departures do to the
\* list the worker is walking.
LifeSpec == Life!Spec

\* While the worker runs every request is answered, but for those whose admission
\* threw, and unless a cancel meets an entry that is being taken off the list: a cap
\* on the active ones, priorities, a budget under pressure or an error of the model
\* may delay a request, never strand it.
AllAnswered ==
  \A r \in Requests : r \in ToSet(accepted) ~> answers[r] # <<>> \/ quit \/ r \in lost \/ pc = "crashed"

Places(r) == Cardinality({i \in DOMAIN waiting : waiting[i] = r})
               + Cardinality({i \in DOMAIN active : active[i] = r})

\* Between steps the scheduler holds exactly the requests that have no answer,
\* each in one of its two queues, once.
HeldIsUnanswered ==
  pc \in {"wait", "step"} =>
    \A r \in ToSet(accepted) \ lost : Places(r) = IF answers[r] = <<>> THEN 1 ELSE 0

\* "Higher is admitted first; FIFO within a priority", with requests cancelled in
\* the middle of the queue.
Index(r) == CHOOSE i \in DOMAIN accepted : accepted[i] = r
AdmittedInOrder ==
  [][\A r \in ToSet(active') \ ToSet(active), q \in ToSet(waiting') \cap ToSet(waiting) :
       \/ Priority[r] > Priority[q]
       \/ Priority[r] = Priority[q] /\ Index(r) < Index(q)]_vars

\* "Advances every active sequence by one token": a step ends when each request it
\* found active had its turn, those behind one that ended included.
EveryoneHadATurn == pc = "look" /\ at > Len(active) => due = {}

SchedulerInv == TypeOK /\ HeldIsUnanswered /\ EveryoneHadATurn

\* memory.md: "An out_of_memory error or std::bad_alloc while handling a request
\* returns 503": also a request admit throws for is answered.
FailedIsAnswered == \A r \in Requests : r \in lost ~> answers[r] # <<>>
=============================================================================
