------------------------------ MODULE HttpProxy ------------------------------
(***************************************************************************)
(* The layer 7 proxy: an acceptor, one thread per client connection that   *)
(* reads requests, leases backends for each and relays an answer, and      *)
(* stop().  The pool is known by what acquire promises: a backend that is  *)
(* not excluded, or none (BalancePool has the rest).  Clients, networks    *)
(* and backends may fail at every read and write; every wait for one of    *)
(* them has a timeout.                                                     *)
(***************************************************************************)
EXTENDS Integers, FiniteSets

CONSTANTS Conns, Talking,     \* client connections; those on which requests come
          Backends, Methods,  \* "GET" stands for the idempotent ones
          Codes, Framings,    \* of answers; "length", or "close": until the backend closes
          Retries,
          MaxRequests         \* bound: requests on a connection

ASSUME ProxyAssumption ==
  /\ Talking \subseteq Conns /\ Methods \subseteq {"GET", "HEAD", "POST"} /\ Codes \subseteq {200, 503}
  /\ Framings \subseteq {"length", "close"} /\ Retries \in Nat /\ MaxRequests \in Nat

None == "none"

VARIABLES running, stop,      \* running_; where stop() is
          acceptor,           \* where the accepting thread is
          swapped,            \* the threads stop() has taken to join
          pc,                 \* of each connection
          shut,               \* its client is gone, or was shut by stop()
          req,                \* its request: method, keep_alive, idempotency key
          asked, replies,     \* requests read; replies to the last one
          a, tried,           \* attempts made; backends tried
          lease,              \* the backend leased
          reached,            \* backends that were sent the whole request
          answered,           \* backends whose answer's head was read
          answer              \* the answer to relay: code, framing, whole or cut

server == <<running, stop, acceptor, swapped>>
attempt == <<a, tried, lease, reached, answered, answer>>
vars == <<server, pc, shut, req, asked, replies, attempt>>

NoRequest == [method |-> None, keep |-> FALSE, keyed |-> FALSE]
Requests == [method : Methods, keep : BOOLEAN, keyed : BOOLEAN]
NoAnswer == [code |-> 0, framing |-> None, whole |-> FALSE]

Init ==
  /\ running = TRUE /\ stop = "no" /\ acceptor = "look" /\ swapped = {}
  /\ pc = [c \in Conns |-> "backlog"] /\ shut = [c \in Conns |-> FALSE]
  /\ req = [c \in Conns |-> NoRequest]
  /\ asked = [c \in Conns |-> 0] /\ replies = [c \in Conns |-> 0]
  /\ a = [c \in Conns |-> 0] /\ tried = [c \in Conns |-> {}] /\ lease = [c \in Conns |-> None]
  /\ reached = [c \in Conns |-> {}] /\ answered = [c \in Conns |-> {}]
  /\ answer = [c \in Conns |-> NoAnswer]

Goto(c, l) == pc' = [pc EXCEPT ![c] = l]
Serving(c) == pc[c] \in {"top", "try", "dial", "send", "head", "body", "relay", "none"}

-----------------------------------------------------------------------------
(* The accepting thread *)

AcceptorLooks ==
  /\ acceptor = "look" /\ acceptor' = IF running THEN "wait" ELSE "gone"
  /\ UNCHANGED <<running, stop, swapped, pc, shut, req, asked, replies, attempt>>

\* Mutant: the listener is waited on for as long as it takes.
AcceptorStays ==
  /\ acceptor = "wait" /\ ~running /\ (\E c \in Conns : pc[c] = "backlog") /\ acceptor' = "look"
  /\ UNCHANGED <<running, stop, swapped, pc, shut, req, asked, replies, attempt>>

AcceptorTimesOut ==
  /\ acceptor = "wait" /\ acceptor' = "look"
  /\ UNCHANGED <<running, stop, swapped, pc, shut, req, asked, replies, attempt>>

\* Threads of connections that have ended are joined before the new one starts.
Accept(c) ==
  /\ acceptor = "wait" /\ pc[c] = "backlog" /\ acceptor' = "look"
  /\ pc' = [d \in Conns |-> IF d = c THEN "top" ELSE IF pc[d] = "ended" THEN "joined" ELSE pc[d]]
  /\ UNCHANGED <<running, stop, swapped, shut, req, asked, replies, attempt>>

-----------------------------------------------------------------------------
(* A connection: one request after the other *)

Leave(c) ==
  /\ pc[c] = "top" /\ ~running /\ Goto(c, "ended")
  /\ UNCHANGED <<server, shut, req, asked, replies, attempt>>

\* The client's next request is read whole.
Ask(c, q) ==
  /\ c \in Talking /\ pc[c] = "top" /\ ~shut[c] /\ asked[c] < MaxRequests
  /\ Goto(c, "try") /\ req' = [req EXCEPT ![c] = q]
  /\ asked' = [asked EXCEPT ![c] = @ + 1] /\ replies' = [replies EXCEPT ![c] = 0]
  /\ a' = [a EXCEPT ![c] = 0] /\ tried' = [tried EXCEPT ![c] = {}]
  /\ reached' = [reached EXCEPT ![c] = {}] /\ answered' = [answered EXCEPT ![c] = {}]
  /\ answer' = [answer EXCEPT ![c] = NoAnswer]
  /\ UNCHANGED <<server, shut, lease>>

\* Nothing comes, the client closes, or it is shut: no head is read.
ReadFails(c) ==
  /\ pc[c] = "top" /\ Goto(c, "ended")
  /\ UNCHANGED <<server, shut, req, asked, replies, attempt>>

\* A head without a request line, or a body that does not come.
BadRequest(c) ==
  /\ c \in Talking /\ pc[c] = "top" /\ ~shut[c] /\ asked[c] < MaxRequests /\ Goto(c, "ended")
  /\ asked' = [asked EXCEPT ![c] = @ + 1] /\ replies' = [replies EXCEPT ![c] = 1]
  /\ UNCHANGED <<server, shut, req, attempt>>

AttemptsLeft(c) == a[c] < IF Retries = 0 THEN 1 ELSE Retries

Acquire(c, b) ==
  /\ pc[c] = "try" /\ AttemptsLeft(c) /\ b \notin tried[c] /\ Goto(c, "dial")
  /\ lease' = [lease EXCEPT ![c] = b] /\ tried' = [tried EXCEPT ![c] = @ \cup {b}]
  /\ a' = [a EXCEPT ![c] = @ + 1]
  /\ UNCHANGED <<server, shut, req, asked, replies, reached, answered, answer>>

\* The attempts are used up, or acquire has none to give.
GiveUp(c) ==
  /\ pc[c] = "try" /\ Goto(c, "none")
  /\ UNCHANGED <<server, shut, req, asked, replies, attempt>>

Dial(c) ==
  /\ pc[c] = "dial" /\ Goto(c, "send")
  /\ UNCHANGED <<server, shut, req, asked, replies, attempt>>

Send(c) ==
  /\ pc[c] = "send" /\ Goto(c, "head")
  /\ reached' = [reached EXCEPT ![c] = @ \cup {lease[c]}]
  /\ UNCHANGED <<server, shut, req, asked, replies, a, tried, lease, answered, answer>>

\* The backend cannot be dialled, or sent the whole request, or gives no head.
AttemptFails(c) ==
  /\ pc[c] \in {"dial", "send", "head"} /\ Goto(c, "try")
  /\ lease' = [lease EXCEPT ![c] = None]
  /\ UNCHANGED <<server, shut, req, asked, replies, a, tried, reached, answered, answer>>

\* Mutant: any request may be sent again after an answer.
AgainAnything(c, code) == code = 503 /\ a[c] < Retries

\* A 502 or 503 with an attempt left is tried elsewhere, if that is safe.
Again(c, code) ==
  /\ code = 503 /\ a[c] < Retries
  /\ req[c].method # "POST" \/ req[c].keyed

Head(c, code, framing) ==
  /\ pc[c] = "head" /\ answered' = [answered EXCEPT ![c] = @ \cup {lease[c]}]
  /\ IF Again(c, code)
     THEN Goto(c, "try") /\ lease' = [lease EXCEPT ![c] = None] /\ UNCHANGED answer
     ELSE /\ Goto(c, "body") /\ UNCHANGED lease
          /\ answer' = [answer EXCEPT ![c] = [code |-> code, framing |-> framing, whole |-> FALSE]]
  /\ UNCHANGED <<server, shut, req, asked, replies, a, tried, reached>>

\* The body comes to its end.  The answer to a HEAD has none, whatever its
\* Content-Length says (one of 0, which is satisfied, is left out).
BodyComes(c) == answer[c].framing = "close" \/ req[c].method # "HEAD"

Body(c) ==
  /\ pc[c] = "body" /\ BodyComes(c) /\ Goto(c, "relay")
  /\ answer' = [answer EXCEPT ![c].whole = TRUE]
  /\ UNCHANGED <<server, shut, req, asked, replies, a, tried, lease, reached, answered>>

\* Without a length, a body that stalls or breaks off is taken for all of it.
BodyCut(c) ==
  /\ pc[c] = "body" /\ answer[c].framing = "close" /\ Goto(c, "relay")
  /\ UNCHANGED <<server, shut, req, asked, replies, attempt>>

\* With one, the client gets 502 and the connection ends.
BodyFails(c) ==
  /\ pc[c] = "body" /\ answer[c].framing = "length" /\ Goto(c, "ended")
  /\ lease' = [lease EXCEPT ![c] = None] /\ replies' = [replies EXCEPT ![c] = @ + 1]
  /\ answer' = [answer EXCEPT ![c].code = 502]
  /\ UNCHANGED <<server, shut, req, asked, a, tried, reached, answered>>

\* Success or failure is reported before the answer is sent.
Relay(c) ==
  /\ pc[c] = "relay" /\ lease' = [lease EXCEPT ![c] = None]
  /\ \/ ~shut[c] /\ replies' = [replies EXCEPT ![c] = @ + 1]
        /\ Goto(c, IF req[c].keep THEN "top" ELSE "ended")
     \/ Goto(c, "ended") /\ UNCHANGED replies
  /\ UNCHANGED <<server, shut, req, asked, a, tried, reached, answered, answer>>

\* 503, whether the client is there to hear it or not.
Unavailable(c) ==
  /\ pc[c] = "none" /\ replies' = [replies EXCEPT ![c] = @ + 1]
  /\ Goto(c, IF req[c].keep THEN "top" ELSE "ended")
  /\ UNCHANGED <<server, shut, req, asked, attempt>>

ClientGoes(c) ==
  /\ Serving(c) /\ ~shut[c] /\ shut' = [shut EXCEPT ![c] = TRUE]
  /\ UNCHANGED <<server, pc, req, asked, replies, attempt>>

-----------------------------------------------------------------------------
(* stop *)

StopBegins ==
  /\ stop = "no" /\ running' = FALSE /\ stop' = "acceptor"
  /\ UNCHANGED <<acceptor, swapped, pc, shut, req, asked, replies, attempt>>

\* The acceptor is joined, the connections are taken and their clients shut.
StopShuts ==
  /\ stop = "acceptor" /\ acceptor = "gone" /\ stop' = "joins"
  /\ swapped' = {c \in Conns : Serving(c) \/ pc[c] = "ended"}
  /\ shut' = [c \in Conns |-> shut[c] \/ c \in swapped']
  /\ UNCHANGED <<running, acceptor, pc, req, asked, replies, attempt>>

StopReturns ==
  /\ stop = "joins" /\ \A c \in swapped : pc[c] = "ended"
  /\ stop' = "done" /\ pc' = [c \in Conns |-> IF c \in swapped THEN "joined" ELSE pc[c]]
  /\ UNCHANGED <<running, acceptor, swapped, shut, req, asked, replies, attempt>>

-----------------------------------------------------------------------------
Serve(c) ==
  \/ Leave(c) \/ ReadFails(c) \/ BadRequest(c) \/ \E q \in Requests : Ask(c, q)
  \/ GiveUp(c) \/ Dial(c) \/ Send(c) \/ AttemptFails(c) \/ \E b \in Backends : Acquire(c, b)
  \/ Body(c) \/ BodyCut(c) \/ BodyFails(c) \/ Relay(c) \/ Unavailable(c)
  \/ \E code \in Codes, framing \in Framings : Head(c, code, framing)

Stopping == StopBegins \/ StopShuts \/ StopReturns
Next ==
  \/ AcceptorLooks \/ AcceptorTimesOut \/ Stopping
  \/ \E c \in Conns : Accept(c) \/ Serve(c) \/ ClientGoes(c)

Spec == Init /\ [][Next]_vars

\* Every thread runs on: dialling and reading end by a timeout at the latest,
\* and whoever is being sent to takes the bytes or breaks the connection.  stop()
\* may be called or not.
FairSpec ==
  /\ Spec /\ WF_vars(AcceptorLooks) /\ WF_vars(AcceptorTimesOut) /\ WF_vars(StopShuts \/ StopReturns)
  /\ \A c \in Conns : WF_vars(Serve(c))

-----------------------------------------------------------------------------
(* What the proxy promises *)

\* The type of the state.
TypeOK ==
  /\ running \in BOOLEAN /\ acceptor \in {"look", "wait", "gone"} /\ swapped \subseteq Conns
  /\ stop \in {"no", "acceptor", "joins", "done"}
  /\ pc \in [Conns -> {"backlog", "ended", "joined", "top", "try", "dial", "send", "head", "body",
                       "relay", "none"}]
  /\ shut \in [Conns -> BOOLEAN] /\ req \in [Conns -> Requests \cup {NoRequest}]
  /\ asked \in [Conns -> 0..MaxRequests] /\ replies \in [Conns -> 0..1]
  /\ a \in [Conns -> 0..Retries + 1] /\ lease \in [Conns -> Backends \cup {None}]
  /\ \A f \in {tried, reached, answered} : f \in [Conns -> SUBSET Backends]
  /\ answer \in [Conns -> [code : Codes \cup {0, 502}, framing : Framings \cup {None}, whole : BOOLEAN]]

\* Requests are answered one by one, each once, unless the client is gone or the
\* answer to it is the last thing the connection does.  Whatever way an attempt
\* or a connection ends, its lease has ended.
OneAnswerEach ==
  \A c \in Conns :
    /\ pc[c] \in {"try", "dial", "send", "head", "body", "relay", "none"} => replies[c] = 0
    /\ pc[c] = "top" /\ asked[c] > 0 => replies[c] = 1
    /\ lease[c] # None => pc[c] \in {"dial", "send", "head", "body", "relay"}

\* An attempt goes to a backend that has not had the request before.
FreshBackend ==
  \A c \in Conns : pc[c] \in {"dial", "send"} => lease[c] \notin reached[c] \cup answered[c]

\* A request that is not safe to repeat is not sent again once it has an answer.
Unsafe(c) == req[c].method = "POST" /\ ~req[c].keyed
AnsweredIsFinal ==
  \A c \in Conns : Unsafe(c) /\ answered[c] # {} => pc[c] \in {"body", "relay", "top", "ended", "joined"}

\* When stop() returns no connection thread is left and no lease is out.
StopLeavesNothing ==
  stop = "done" => \A c \in Conns : pc[c] \in {"backlog", "joined"} /\ lease[c] = None

\* Each request has one reply, from backends that are asked once each, until
\* nothing is left of any connection.
ProxyInv == TypeOK /\ OneAnswerEach /\ FreshBackend /\ AnsweredIsFinal /\ StopLeavesNothing

\* stop() returns.
StopEnds == stop = "acceptor" ~> stop = "done"

\* "forwarded with retries on a fresh backend if the upstream cannot be reached
\* or answers 502/503": a backend that has the request and has not answered is
\* neither, so no other gets an unsafe one.
SentOnce == \A c \in Conns : Unsafe(c) => Cardinality(reached[c]) <= 1

\* "Responses are relayed until the upstream closes or Content-Length is satisfied":
\* what the client gets for an answer is all of it.
RelayedIsWhole == \A c \in Conns : pc[c] = "relay" => answer[c].whole

\* And a HEAD, whose answer has come when its head has, is not answered 502 for it.
HeadIsRelayed == \A c \in Conns : req[c].method = "HEAD" => answer[c].code # 502
=============================================================================
