------------------------------ MODULE ProxyRelay ------------------------------
(***************************************************************************)
(* One connection through the layer 4 proxy: serve_l4_ finds a backend and *)
(* relay_ moves bytes between client ("c") and backend ("u") with one      *)
(* thread, level-triggered events and blocking sends.  Bytes are counted.  *)
(* Each of the four halves of the two connections is a bounded buffer; a   *)
(* peer that is done writing leaves an end of file behind its bytes.       *)
(***************************************************************************)
EXTENDS Integers, Sequences, FiniteSetsExt

CONSTANTS Manners,      \* of the peers: "reply" at the request's end of file, "keep"
                        \* (both connections stay open), "echo" (it writes while it reads)
          Request, Reply,  \* bytes the client sends; bytes of a reply
          Room, Chunk,  \* bytes a buffer holds; bytes of one recv
          Retries,
          MayDie        \* the sides whose connection may break

Sides == {"c", "u"}
Other(s) == IF s = "c" THEN "u" ELSE "c"

VARIABLES manner,
          in, out,      \* bytes from a side to the proxy, and from the proxy to it
          inEnd, outEnd,   \* the writer has shut that half down
          wrote, got,   \* what each side has written and read
          dead,         \* the sides whose connection is broken
          pc, a, ev,    \* the thread: where it is, attempts, events still to handle
          hold,         \* bytes received, being sent to the other side
          open,         \* a_open, b_open
          outcome       \* what the lease is told

peers == <<in, out, inEnd, outEnd, wrote, got>>
thread == <<pc, a, ev, hold, open, outcome>>
vars == <<manner, peers, dead, thread>>

Init ==
  /\ manner \in Manners
  /\ in = [s \in Sides |-> 0] /\ out = [s \in Sides |-> 0]
  /\ inEnd = [s \in Sides |-> FALSE] /\ outEnd = [s \in Sides |-> FALSE]
  /\ wrote = [s \in Sides |-> 0] /\ got = [s \in Sides |-> 0] /\ dead = {}
  /\ pc = "acquire" /\ a = 0 /\ ev = <<>> /\ hold = 0 /\ open = Sides /\ outcome = "none"

-----------------------------------------------------------------------------
(* The peers *)

\* What a side may have written by now, and in all.
All(s) == IF s = "c" \/ manner = "echo" THEN Request ELSE Reply
May(s) ==
  CASE s = "c" -> Request
    [] s = "u" /\ manner = "echo" -> got["u"]
    [] s = "u" /\ manner = "keep" -> IF got["u"] = Request THEN Reply ELSE 0
    [] OTHER -> IF outEnd["u"] /\ out["u"] = 0 THEN Reply ELSE 0

CanWrite(s) == s \notin dead /\ wrote[s] < May(s) /\ in[s] < Room /\ (s = "u" => pc # "acquire")

\* A backend ends its answer after the request has ended.
CanEnd(s) ==
  /\ s \notin dead /\ manner # "keep" /\ ~inEnd[s] /\ wrote[s] = All(s)
  /\ s = "u" => outEnd["u"] /\ out["u"] = 0

\* An echoing backend writes what it has read before it reads on; the client
\* writes and reads as it can.
CanTake(s) ==
  /\ s \notin dead /\ out[s] > 0
  /\ ~(s = "u" /\ manner = "echo" /\ wrote["u"] < got["u"])

Write(s) ==
  /\ CanWrite(s) /\ wrote' = [wrote EXCEPT ![s] = @ + 1] /\ in' = [in EXCEPT ![s] = @ + 1]
  /\ UNCHANGED <<manner, out, inEnd, outEnd, got, dead, thread>>

EndWriting(s) ==
  /\ CanEnd(s) /\ inEnd' = [inEnd EXCEPT ![s] = TRUE]
  /\ UNCHANGED <<manner, in, out, outEnd, wrote, got, dead, thread>>

Take(s) ==
  /\ CanTake(s) /\ out' = [out EXCEPT ![s] = @ - 1] /\ got' = [got EXCEPT ![s] = @ + 1]
  /\ UNCHANGED <<manner, in, inEnd, outEnd, wrote, dead, thread>>

\* A connection breaks: its peer resets it, or stop() shuts the client's.
Die(s) ==
  /\ s \in MayDie \ dead /\ (s = "u" => pc # "acquire") /\ dead' = dead \cup {s}
  /\ UNCHANGED <<manner, peers, thread>>

-----------------------------------------------------------------------------
(* serve_l4_ *)

Attempts == Max({1, Retries})

Connect ==
  /\ pc = "acquire" /\ a < Attempts /\ pc' = "wait"
  /\ UNCHANGED <<manner, peers, dead, a, ev, hold, open, outcome>>

\* The backend is not there: a failure of its own, and another attempt.
DialFails ==
  /\ pc = "acquire" /\ a < Attempts /\ a' = a + 1
  /\ UNCHANGED <<manner, peers, dead, pc, ev, hold, open, outcome>>

\* No lease, or no attempt left: the client's connection is closed.
NoBackend ==
  /\ pc = "acquire" /\ pc' = "done"
  /\ UNCHANGED <<manner, peers, dead, a, ev, hold, open, outcome>>

-----------------------------------------------------------------------------
(* relay_ *)

Readable(s) == s \in open /\ (s \in dead \/ in[s] > 0 \/ inEnd[s])
Return(ok) == pc' = "done" /\ outcome' = IF ok THEN "success" ELSE "failure"

\* One event for each side that is readable, in either order.
Poll ==
  /\ pc = "wait" /\ open # {} /\ (\E s \in Sides : Readable(s)) /\ pc' = "events"
  /\ ev' \in {e \in {<<"c">>, <<"u">>, <<"c", "u">>, <<"u", "c">>} :
                \A s \in Sides : Readable(s) <=> \E i \in DOMAIN e : e[i] = s}
  /\ UNCHANGED <<manner, peers, dead, a, hold, open, outcome>>

Handled == IF Len(ev) = 1 THEN "wait" ELSE "events"

\* Of a broken connection what had come may be read, or is lost.
Receive ==
  /\ pc = "events" /\ in[Head(ev)] > 0 /\ pc' = "send"
  /\ hold' = Min({in[Head(ev)], Chunk}) /\ in' = [in EXCEPT ![Head(ev)] = @ - hold']
  /\ UNCHANGED <<manner, out, inEnd, outEnd, wrote, got, dead, a, ev, open, outcome>>

\* Mutant: an end of file is believed before the bytes in front of it are read.
AtOnce(s) == s \in dead \/ inEnd[s]

AtEnd(s) == s \in dead \/ in[s] = 0

StillOpen(s) == open \ {s}

\* An end of file, or an error: that way is over, and the other side is told.  An
\* error of the backend ends the relay.
ReceiveEnd ==
  LET s == Head(ev) IN
  /\ pc = "events" /\ AtEnd(s)
  /\ open' = StillOpen(s) /\ outEnd' = [outEnd EXCEPT ![Other(s)] = TRUE]
  /\ IF s = "u" /\ s \in dead THEN Return(FALSE) /\ UNCHANGED ev
     ELSE pc' = Handled /\ ev' = Tail(ev) /\ UNCHANGED outcome
  /\ UNCHANGED <<manner, in, out, inEnd, wrote, got, dead, a, hold>>

\* send_all blocks until all of it is in the buffer.
SendByte ==
  LET to == Other(Head(ev)) IN
  /\ pc = "send" /\ hold > 0 /\ to \notin dead /\ out[to] < Room
  /\ hold' = hold - 1 /\ out' = [out EXCEPT ![to] = @ + 1]
  /\ UNCHANGED <<manner, in, inEnd, outEnd, wrote, got, dead, pc, a, ev, open, outcome>>

Sent ==
  /\ pc = "send" /\ hold = 0 /\ pc' = Handled /\ ev' = Tail(ev)
  /\ UNCHANGED <<manner, peers, dead, a, hold, open, outcome>>

\* The relay ends well if it was the client that did not take the bytes.
Excused(from) == from = "u"

SendFails ==
  /\ pc = "send" /\ hold > 0 /\ Other(Head(ev)) \in dead /\ Return(Excused(Head(ev)))
  /\ UNCHANGED <<manner, peers, dead, a, ev, hold, open>>

Closed ==
  /\ pc = "wait" /\ open = {} /\ Return(TRUE)
  /\ UNCHANGED <<manner, peers, dead, a, ev, hold, open>>

\* Nothing for idle_timeout_ms: no peer has anything left to do.  Peers that are
\* slower than that are left out.
Idle ==
  /\ pc = "wait" /\ open # {}
  /\ \A s \in Sides : ~(Readable(s) \/ CanWrite(s) \/ CanTake(s) \/ CanEnd(s))
  /\ Return(TRUE)
  /\ UNCHANGED <<manner, peers, dead, a, ev, hold, open>>

Relaying ==
  \/ Connect \/ DialFails \/ NoBackend \/ Poll \/ Receive \/ ReceiveEnd
  \/ SendByte \/ Sent \/ SendFails \/ Closed \/ Idle

Moving(s) == Write(s) \/ EndWriting(s) \/ Take(s)
Next == Relaying \/ \E s \in Sides : Moving(s) \/ Die(s)

Spec == Init /\ [][Next]_vars

\* The thread runs on, and each peer writes and reads as far as it can.
FairSpec ==
  /\ Spec /\ WF_vars(Relaying)
  /\ \A s \in Sides : WF_vars(Write(s)) /\ WF_vars(EndWriting(s)) /\ WF_vars(Take(s))

-----------------------------------------------------------------------------
(* What a relay promises *)

\* The type of the state.
TypeOK ==
  /\ manner \in Manners
  /\ in \in [Sides -> 0..Room] /\ out \in [Sides -> 0..Room]
  /\ inEnd \in [Sides -> BOOLEAN] /\ outEnd \in [Sides -> BOOLEAN]
  /\ wrote \in [Sides -> Nat] /\ got \in [Sides -> Nat]
  /\ dead \subseteq Sides /\ open \subseteq Sides /\ a \in 0..Attempts
  /\ pc \in {"acquire", "wait", "events", "send", "done"} /\ hold \in 0..Chunk
  /\ Len(ev) <= 2 /\ outcome \in {"none", "success", "failure"}

\* A side is told of an end of file when it has been sent every byte before it:
\* a client that shuts its half has its whole request read.
EndComesLast ==
  \A s \in Sides : outEnd[s] /\ Other(s) \notin dead => got[s] + out[s] = All(Other(s))

\* The breaker is told of a failure only if the backend broke its connection, not
\* when the client went away.
BlameIsRight == outcome = "failure" => "u" \in dead

\* What arrives, and what is reported of it.
RelayInv == TypeOK /\ EndComesLast /\ BlameIsRight

\* The thread sends to a backend that will not read before it has written, and both
\* its buffers are full: the one thread that could empty them is the one that waits.
Jammed ==
  /\ pc = "send" /\ hold > 0 /\ Head(ev) = "c" /\ "u" \notin dead
  /\ out["u"] = Room /\ in["u"] = Room /\ ~CanTake("u")

\* Between two peers that live all of the request and all of the answer arrive, unless
\* the relay is jammed by a backend that writes while it reads.
MovesOrJams ==
  [](pc = "wait" => <>(dead # {} \/ Jammed \/ \A s \in Sides : got[s] = All(Other(s))))

\* Once the client has gone, or stop() has shut its socket, the thread that stop() joins
\* comes to its end; but not if it is jammed, which nothing on the client's side ends.
EndsOrJams == "c" \in dead ~> pc = "done" \/ Jammed

\* "bytes are relayed both ways" (proxy.hpp:3), without the exception.
AllRelayed ==
  [](pc = "wait" => <>(dead # {} \/ \A s \in Sides : got[s] = All(Other(s))))
=============================================================================
