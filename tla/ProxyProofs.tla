------------------------------ MODULE ProxyProofs ------------------------------
(***************************************************************************)
(* Proofs about the proxy in both modes: HttpProxy for any number of       *)
(* connections, backends, attempts and requests, ProxyRelay for any length *)
(* of request and reply, any buffers and any chunk.                        *)
(***************************************************************************)
EXTENDS MCProxy, TLAPS

-----------------------------------------------------------------------------
(* Layer 7 *)

\* Before a connection is accepted nothing has come on it.
Untouched == \A c \in Conns : pc[c] = "backlog" => asked[c] = 0

\* A backend is tried before anything is sent to it or comes from it, and what is
\* leased is what was tried last.
TriedFirst ==
  \A c \in Conns :
    /\ reached[c] \subseteq tried[c] /\ answered[c] \subseteq tried[c]
    /\ pc[c] \in {"dial", "send", "head", "body", "relay"} => lease[c] \in tried[c]

\* Once stop() has joined the acceptor no connection begins; every connection that
\* was not over is one it waits for.
NothingBegins ==
  /\ stop \in {"joins", "done"} => acceptor = "gone"
  /\ stop = "joins" => \A c \in Conns : pc[c] \in {"backlog", "joined"} \/ c \in swapped

HttpIInv == ProxyInv /\ Untouched /\ TriedFirst /\ NothingBegins

Places == {"backlog", "ended", "joined", "top", "try", "dial", "send", "head", "body",
           "relay", "none"}

LEMMA HttpInit == Init => HttpIInv
<1> SUFFICES ASSUME Init PROVE HttpIInv
  OBVIOUS
<1>1. TypeOK
  BY ProxyAssumption DEF Init, TypeOK, NoRequest, NoAnswer
<1>2. ProxyInv
  BY <1>1 DEF Init, ProxyInv, OneAnswerEach, FreshBackend, AnsweredIsFinal, StopLeavesNothing, Unsafe
<1>3. QED
  BY <1>2 DEF Init, HttpIInv, Untouched, TriedFirst, NothingBegins

\* A step of a connection that is under way leaves the acceptor and stop() alone.
LEMMA StopIsUntouched ==
  ASSUME HttpIInv, NEW c \in Conns, Serving(c), UNCHANGED server, NEW l, Goto(c, l)
  PROVE  StopLeavesNothing' /\ NothingBegins'
<1>1. \A d \in Conns \ {c} : pc'[d] = pc[d]
  BY DEF HttpIInv, ProxyInv, TypeOK, Goto
<1>2. stop # "done" /\ (stop = "joins" => c \in swapped) /\ UNCHANGED <<stop, acceptor, swapped>>
  BY DEF HttpIInv, ProxyInv, StopLeavesNothing, NothingBegins, Serving, server
<1>3. QED
  BY <1>1, <1>2 DEF HttpIInv, ProxyInv, StopLeavesNothing, NothingBegins

LEMMA GotoTyped ==
  ASSUME TypeOK, NEW c \in Conns, NEW l \in Places, Goto(c, l)
  PROVE  pc' \in [Conns -> Places]
<1>1. pc \in [Conns -> Places]
  BY DEF TypeOK, Places
<1>2. QED
  BY <1>1 DEF Goto

LEMMA LeaveStep == ASSUME HttpIInv, NEW c \in Conns, Leave(c) PROVE HttpIInv'
<1> USE DEF HttpIInv, ProxyInv
<1>1. TypeOK'
  BY DEF TypeOK, Leave, Goto, server, attempt
<1>2. OneAnswerEach'
  BY DEF TypeOK, OneAnswerEach, Leave, Goto, server, attempt
<1>3. FreshBackend' /\ TriedFirst'
  BY DEF TypeOK, FreshBackend, TriedFirst, Leave, Goto, server, attempt
<1>4. AnsweredIsFinal'
  BY DEF TypeOK, AnsweredIsFinal, Unsafe, Leave, Goto, server, attempt
<1>5. Untouched'
  BY DEF TypeOK, Untouched, Leave, Goto, server, attempt
<1>6. StopLeavesNothing' /\ NothingBegins'
  BY StopIsUntouched DEF Leave, Serving
<1>7. QED
  BY <1>1, <1>2, <1>3, <1>4, <1>5, <1>6

LEMMA AskStep == ASSUME HttpIInv, NEW c \in Conns, NEW q \in Requests, Ask(c, q) PROVE HttpIInv'
<1> USE DEF HttpIInv, ProxyInv
<1>1. TypeOK'
  BY ProxyAssumption DEF TypeOK, Requests, NoAnswer, Ask, Goto, server
<1>2. OneAnswerEach'
  BY DEF TypeOK, OneAnswerEach, Ask, Goto, server
<1>3. FreshBackend' /\ TriedFirst'
  BY DEF TypeOK, FreshBackend, TriedFirst, Ask, Goto, server
<1>4. AnsweredIsFinal'
  BY DEF TypeOK, AnsweredIsFinal, Unsafe, Ask, Goto, server
<1>5. Untouched'
  BY DEF TypeOK, Untouched, Ask, Goto, server
<1>6. StopLeavesNothing' /\ NothingBegins'
  BY StopIsUntouched DEF Ask, Serving
<1>7. QED
  BY <1>1, <1>2, <1>3, <1>4, <1>5, <1>6

LEMMA ReadFailsStep == ASSUME HttpIInv, NEW c \in Conns, ReadFails(c) PROVE HttpIInv'
<1> USE DEF HttpIInv, ProxyInv
<1>1. TypeOK'
  BY DEF TypeOK, ReadFails, Goto, server, attempt
<1>2. OneAnswerEach'
  BY DEF TypeOK, OneAnswerEach, ReadFails, Goto, server, attempt
<1>3. FreshBackend' /\ TriedFirst'
  BY DEF TypeOK, FreshBackend, TriedFirst, ReadFails, Goto, server, attempt
<1>4. AnsweredIsFinal'
  BY DEF TypeOK, AnsweredIsFinal, Unsafe, ReadFails, Goto, server, attempt
<1>5. Untouched'
  BY DEF TypeOK, Untouched, ReadFails, Goto, server, attempt
<1>6. StopLeavesNothing' /\ NothingBegins'
  BY StopIsUntouched DEF ReadFails, Serving
<1>7. QED
  BY <1>1, <1>2, <1>3, <1>4, <1>5, <1>6

LEMMA BadRequestStep == ASSUME HttpIInv, NEW c \in Conns, BadRequest(c) PROVE HttpIInv'
<1> USE DEF HttpIInv, ProxyInv
<1>1. TypeOK'
  BY ProxyAssumption DEF TypeOK, BadRequest, Goto, server, attempt
<1>2. OneAnswerEach'
  BY DEF TypeOK, OneAnswerEach, BadRequest, Goto, server, attempt
<1>3. FreshBackend' /\ TriedFirst'
  BY DEF TypeOK, FreshBackend, TriedFirst, BadRequest, Goto, server, attempt
<1>4. AnsweredIsFinal'
  BY DEF TypeOK, AnsweredIsFinal, Unsafe, BadRequest, Goto, server, attempt
<1>5. Untouched'
  BY DEF TypeOK, Untouched, BadRequest, Goto, server, attempt
<1>6. StopLeavesNothing' /\ NothingBegins'
  BY StopIsUntouched DEF BadRequest, Serving
<1>7. QED
  BY <1>1, <1>2, <1>3, <1>4, <1>5, <1>6

LEMMA AcquireStep == ASSUME HttpIInv, NEW c \in Conns, NEW b \in Backends, Acquire(c, b) PROVE HttpIInv'
<1> USE DEF HttpIInv, ProxyInv
<1>1. TypeOK'
  BY ProxyAssumption DEF TypeOK, AttemptsLeft, Acquire, Goto, server
<1>2. OneAnswerEach'
  BY DEF TypeOK, OneAnswerEach, Acquire, Goto, server
<1>3. FreshBackend' /\ TriedFirst'
  BY DEF TypeOK, FreshBackend, TriedFirst, Acquire, Goto, server
<1>4. AnsweredIsFinal'
  BY DEF TypeOK, AnsweredIsFinal, Unsafe, Acquire, Goto, server
<1>5. Untouched'
  BY DEF TypeOK, Untouched, Acquire, Goto, server
<1>6. StopLeavesNothing' /\ NothingBegins'
  BY StopIsUntouched DEF Acquire, Serving
<1>7. QED
  BY <1>1, <1>2, <1>3, <1>4, <1>5, <1>6

LEMMA GiveUpStep == ASSUME HttpIInv, NEW c \in Conns, GiveUp(c) PROVE HttpIInv'
<1> USE DEF HttpIInv, ProxyInv
<1>1. TypeOK'
  BY DEF TypeOK, GiveUp, Goto, server, attempt
<1>2. OneAnswerEach'
  BY DEF TypeOK, OneAnswerEach, GiveUp, Goto, server, attempt
<1>3. FreshBackend' /\ TriedFirst'
  BY DEF TypeOK, FreshBackend, TriedFirst, GiveUp, Goto, server, attempt
<1>4. AnsweredIsFinal'
  BY DEF TypeOK, AnsweredIsFinal, Unsafe, GiveUp, Goto, server, attempt
<1>5. Untouched'
  BY DEF TypeOK, Untouched, GiveUp, Goto, server, attempt
<1>6. StopLeavesNothing' /\ NothingBegins'
  BY StopIsUntouched DEF GiveUp, Serving
<1>7. QED
  BY <1>1, <1>2, <1>3, <1>4, <1>5, <1>6

LEMMA DialStep == ASSUME HttpIInv, NEW c \in Conns, Dial(c) PROVE HttpIInv'
<1> USE DEF HttpIInv, ProxyInv
<1>1. TypeOK'
  BY DEF TypeOK, Dial, Goto, server, attempt
<1>2. OneAnswerEach'
  BY DEF TypeOK, OneAnswerEach, Dial, Goto, server, attempt
<1>3. FreshBackend' /\ TriedFirst'
  BY DEF TypeOK, FreshBackend, TriedFirst, Dial, Goto, server, attempt
<1>4. AnsweredIsFinal'
  BY DEF TypeOK, AnsweredIsFinal, Unsafe, Dial, Goto, server, attempt
<1>5. Untouched'
  BY DEF TypeOK, Untouched, Dial, Goto, server, attempt
<1>6. StopLeavesNothing' /\ NothingBegins'
  BY StopIsUntouched DEF Dial, Serving
<1>7. QED
  BY <1>1, <1>2, <1>3, <1>4, <1>5, <1>6

LEMMA SendStep == ASSUME HttpIInv, NEW c \in Conns, Send(c) PROVE HttpIInv'
<1> USE DEF HttpIInv, ProxyInv
<1>1. TypeOK'
  BY DEF TypeOK, TriedFirst, Send, Goto, server
<1>2. OneAnswerEach'
  BY DEF TypeOK, OneAnswerEach, Send, Goto, server
<1>3. FreshBackend' /\ TriedFirst'
  BY DEF TypeOK, FreshBackend, TriedFirst, Send, Goto, server
<1>4. AnsweredIsFinal'
  BY DEF TypeOK, AnsweredIsFinal, Unsafe, Send, Goto, server
<1>5. Untouched'
  BY DEF TypeOK, Untouched, Send, Goto, server
<1>6. StopLeavesNothing' /\ NothingBegins'
  BY StopIsUntouched DEF Send, Serving
<1>7. QED
  BY <1>1, <1>2, <1>3, <1>4, <1>5, <1>6

LEMMA AttemptFailsStep == ASSUME HttpIInv, NEW c \in Conns, AttemptFails(c) PROVE HttpIInv'
<1> USE DEF HttpIInv, ProxyInv
<1>1. TypeOK'
  BY DEF TypeOK, AttemptFails, Goto, server
<1>2. OneAnswerEach'
  BY DEF TypeOK, OneAnswerEach, AttemptFails, Goto, server
<1>3. FreshBackend' /\ TriedFirst'
  BY DEF TypeOK, FreshBackend, TriedFirst, AttemptFails, Goto, server
<1>4. AnsweredIsFinal'
  BY DEF TypeOK, AnsweredIsFinal, Unsafe, AttemptFails, Goto, server
<1>5. Untouched'
  BY DEF TypeOK, Untouched, AttemptFails, Goto, server
<1>6. StopLeavesNothing' /\ NothingBegins'
  BY StopIsUntouched DEF AttemptFails, Serving
<1>7. QED
  BY <1>1, <1>2, <1>3, <1>4, <1>5, <1>6

\* An answer whose body has come is still an answer.
LEMMA WholeAnswer ==
  ASSUME NEW C, NEW F, NEW r \in [code : C, framing : F, whole : BOOLEAN]
  PROVE  [r EXCEPT !.whole = TRUE] \in [code : C, framing : F, whole : BOOLEAN]
OBVIOUS

LEMMA WholeAnswers ==
  ASSUME NEW C, NEW F, NEW I, NEW ans \in [I -> [code : C, framing : F, whole : BOOLEAN]], NEW c \in I
  PROVE  [ans EXCEPT ![c].whole = TRUE] \in [I -> [code : C, framing : F, whole : BOOLEAN]]
<1> DEFINE A == [code : C, framing : F, whole : BOOLEAN]
<1>1. [ans[c] EXCEPT !.whole = TRUE] \in A
  <2>1. ans[c] \in A
    OBVIOUS
  <2>2. QED
    BY <2>1, WholeAnswer
<1>2. [ans EXCEPT ![c].whole = TRUE] = [ans EXCEPT ![c] = [ans[c] EXCEPT !.whole = TRUE]]
  OBVIOUS
<1>3. ans \in [I -> A]
  OBVIOUS
<1> HIDE DEF A
<1>4. [ans EXCEPT ![c] = [ans[c] EXCEPT !.whole = TRUE]] \in [I -> A]
  BY <1>1, <1>3
<1>5. QED
  BY <1>2, <1>4 DEF A

\* Nor does another code make it anything else.
LEMMA CodedAnswers ==
  ASSUME NEW C, NEW F, NEW I, NEW ans \in [I -> [code : C, framing : F, whole : BOOLEAN]], NEW c \in I,
         NEW x \in C
  PROVE  [ans EXCEPT ![c].code = x] \in [I -> [code : C, framing : F, whole : BOOLEAN]]
<1> DEFINE A == [code : C, framing : F, whole : BOOLEAN]
<1>1. \A r \in A : [r EXCEPT !.code = x] \in A
  OBVIOUS
<1>2. ans[c] \in A /\ ans \in [I -> A]
  OBVIOUS
<1> HIDE DEF A
<1>3. [ans[c] EXCEPT !.code = x] \in A
  BY <1>1, <1>2
<1>4. [ans EXCEPT ![c] = [ans[c] EXCEPT !.code = x]] \in [I -> A]
  BY <1>2, <1>3
<1>5. [ans EXCEPT ![c].code = x] = [ans EXCEPT ![c] = [ans[c] EXCEPT !.code = x]]
  OBVIOUS
<1>6. QED
  BY <1>4, <1>5 DEF A

LEMMA BodyStep == ASSUME HttpIInv, NEW c \in Conns, Body(c) PROVE HttpIInv'
<1> DEFINE C == Codes \cup {0, 502}
           F == Framings \cup {None}
           A == [code : C, framing : F, whole : BOOLEAN]
<1>0. answer' \in [Conns -> A]
  <2>1. answer \in [Conns -> A] /\ answer' = [answer EXCEPT ![c].whole = TRUE]
    BY DEF HttpIInv, ProxyInv, TypeOK, Body
  <2> HIDE DEF C, F
  <2>2. [answer EXCEPT ![c].whole = TRUE] \in [Conns -> A]
    BY <2>1, WholeAnswers
  <2>3. QED
    BY <2>1, <2>2
<1> USE DEF HttpIInv, ProxyInv
<1>1. TypeOK'
  BY <1>0 DEF TypeOK, Body, Goto, server
<1>2. OneAnswerEach'
  BY DEF TypeOK, OneAnswerEach, Body, Goto, server
<1>3. FreshBackend' /\ TriedFirst'
  BY DEF TypeOK, FreshBackend, TriedFirst, Body, Goto, server
<1>4. AnsweredIsFinal'
  BY DEF TypeOK, AnsweredIsFinal, Unsafe, Body, Goto, server
<1>5. Untouched'
  BY DEF TypeOK, Untouched, Body, Goto, server
<1>6. StopLeavesNothing' /\ NothingBegins'
  BY StopIsUntouched DEF Body, Serving
<1>7. QED
  BY <1>1, <1>2, <1>3, <1>4, <1>5, <1>6

LEMMA BodyCutStep == ASSUME HttpIInv, NEW c \in Conns, BodyCut(c) PROVE HttpIInv'
<1> USE DEF HttpIInv, ProxyInv
<1>1. TypeOK'
  BY DEF TypeOK, BodyCut, Goto, server, attempt
<1>2. OneAnswerEach'
  BY DEF TypeOK, OneAnswerEach, BodyCut, Goto, server, attempt
<1>3. FreshBackend' /\ TriedFirst'
  BY DEF TypeOK, FreshBackend, TriedFirst, BodyCut, Goto, server, attempt
<1>4. AnsweredIsFinal'
  BY DEF TypeOK, AnsweredIsFinal, Unsafe, BodyCut, Goto, server, attempt
<1>5. Untouched'
  BY DEF TypeOK, Untouched, BodyCut, Goto, server, attempt
<1>6. StopLeavesNothing' /\ NothingBegins'
  BY StopIsUntouched DEF BodyCut, Serving
<1>7. QED
  BY <1>1, <1>2, <1>3, <1>4, <1>5, <1>6

LEMMA BodyFailsStep == ASSUME HttpIInv, NEW c \in Conns, BodyFails(c) PROVE HttpIInv'
<1> DEFINE C == Codes \cup {0, 502}
           F == Framings \cup {None}
           A == [code : C, framing : F, whole : BOOLEAN]
<1>0. answer' \in [Conns -> A]
  <2>1. answer \in [Conns -> A] /\ answer' = [answer EXCEPT ![c].code = 502]
    BY DEF HttpIInv, ProxyInv, TypeOK, BodyFails
  <2> PICK x \in C : x = 502
    OBVIOUS
  <2> HIDE DEF C, F
  <2>2. [answer EXCEPT ![c].code = x] \in [Conns -> A]
    BY <2>1, CodedAnswers
  <2>3. QED
    BY <2>1, <2>2
<1> USE DEF HttpIInv, ProxyInv
<1>1. TypeOK'
  <2>1. pc' \in [Conns -> Places] /\ lease' \in [Conns -> Backends \cup {None}]
    <3>1. TypeOK /\ Goto(c, "ended") /\ lease' = [lease EXCEPT ![c] = None]
      BY DEF BodyFails
    <3>2. pc' \in [Conns -> Places]
      BY <3>1, GotoTyped DEF Places
    <3>3. QED
      BY <3>1, <3>2 DEF TypeOK
  <2>2. replies' \in [Conns -> 0..1]
    <3>1. replies[c] = 0 /\ replies' = [replies EXCEPT ![c] = @ + 1]
      BY DEF OneAnswerEach, BodyFails
    <3>2. QED
      BY <3>1 DEF TypeOK
  <2>3. QED
    BY <1>0, <2>1, <2>2 DEF TypeOK, BodyFails, server, Places
<1>2. OneAnswerEach'
  BY DEF TypeOK, OneAnswerEach, BodyFails, Goto, server
<1>3. FreshBackend' /\ TriedFirst'
  BY DEF TypeOK, FreshBackend, TriedFirst, BodyFails, Goto, server
<1>4. AnsweredIsFinal'
  BY DEF TypeOK, AnsweredIsFinal, Unsafe, BodyFails, Goto, server
<1>5. Untouched'
  BY DEF TypeOK, Untouched, BodyFails, Goto, server
<1>6. StopLeavesNothing' /\ NothingBegins'
  BY StopIsUntouched DEF BodyFails, Serving
<1>7. QED
  BY <1>1, <1>2, <1>3, <1>4, <1>5, <1>6

LEMMA RelayStep == ASSUME HttpIInv, NEW c \in Conns, Relay(c) PROVE HttpIInv'
<1> USE DEF HttpIInv, ProxyInv
<1>1. TypeOK'
  <2>1. replies[c] = 0 /\ pc' \in [Conns -> Places] /\ lease' \in [Conns -> Backends \cup {None}]
    <3>1. replies[c] = 0
      BY DEF OneAnswerEach, Relay
    <3>2. /\ TypeOK /\ lease' = [lease EXCEPT ![c] = None]
          /\ Goto(c, "top") \/ Goto(c, "ended")
      BY DEF Relay
    <3>3. pc' \in [Conns -> Places]
      BY <3>2, GotoTyped DEF Places
    <3>4. lease' \in [Conns -> Backends \cup {None}]
      BY <3>2 DEF TypeOK
    <3>5. QED
      BY <3>1, <3>3, <3>4
  <2>2. replies' \in [Conns -> 0..1]
    BY <2>1 DEF TypeOK, Relay
  <2>3. QED
    BY <2>1, <2>2 DEF TypeOK, Relay, server, Places
<1>2. OneAnswerEach'
  BY DEF TypeOK, OneAnswerEach, Relay, Goto, server
<1>3. FreshBackend' /\ TriedFirst'
  BY DEF TypeOK, FreshBackend, TriedFirst, Relay, Goto, server
<1>4. AnsweredIsFinal'
  BY DEF TypeOK, AnsweredIsFinal, Unsafe, Relay, Goto, server
<1>5. Untouched'
  BY DEF TypeOK, Untouched, Relay, Goto, server
<1>6. StopLeavesNothing' /\ NothingBegins'
  BY StopIsUntouched DEF Relay, Serving
<1>7. QED
  BY <1>1, <1>2, <1>3, <1>4, <1>5, <1>6

LEMMA UnavailableStep == ASSUME HttpIInv, NEW c \in Conns, Unavailable(c) PROVE HttpIInv'
<1> USE DEF HttpIInv, ProxyInv
<1>1. TypeOK'
  BY DEF TypeOK, OneAnswerEach, Unavailable, Goto, server, attempt
<1>2. OneAnswerEach'
  BY DEF TypeOK, OneAnswerEach, Unavailable, Goto, server, attempt
<1>3. FreshBackend' /\ TriedFirst'
  BY DEF TypeOK, FreshBackend, TriedFirst, Unavailable, Goto, server, attempt
<1>4. AnsweredIsFinal'
  BY DEF TypeOK, AnsweredIsFinal, Unsafe, Unavailable, Goto, server, attempt
<1>5. Untouched'
  BY DEF TypeOK, Untouched, Unavailable, Goto, server, attempt
<1>6. StopLeavesNothing' /\ NothingBegins'
  BY StopIsUntouched DEF Unavailable, Serving
<1>7. QED
  BY <1>1, <1>2, <1>3, <1>4, <1>5, <1>6

LEMMA HeadStep ==
  ASSUME HttpIInv, NEW c \in Conns, NEW code \in Codes, NEW framing \in Framings, Head(c, code, framing)
  PROVE  HttpIInv'
<1> USE DEF HttpIInv, ProxyInv
<1>0. /\ answered' \in [Conns -> SUBSET Backends]
      /\ UNCHANGED <<server, shut, req, asked, replies, a, tried, reached>>
  <2>1. lease[c] \in Backends
    BY DEF TypeOK, TriedFirst, Head
  <2>2. QED
    BY <2>1 DEF TypeOK, Head
<1>1. CASE Again(c, code)
  <2>1. TypeOK'
    <3>1. pc' \in [Conns -> Places] /\ lease' \in [Conns -> Backends \cup {None}] /\ UNCHANGED answer
      <4>1. TypeOK /\ Goto(c, "try") /\ lease' = [lease EXCEPT ![c] = None] /\ UNCHANGED answer
        BY <1>1 DEF Head
      <4>2. pc' \in [Conns -> Places]
        BY <4>1, GotoTyped DEF Places
      <4>3. QED
        BY <4>1, <4>2 DEF TypeOK
    <3>2. QED
      BY <1>0, <3>1 DEF TypeOK, server, Places
  <2>2. OneAnswerEach' /\ FreshBackend'
    BY <1>1 DEF TypeOK, OneAnswerEach, FreshBackend, Head, Goto
  <2>3. TriedFirst' /\ Untouched'
    BY <1>1 DEF TypeOK, TriedFirst, Untouched, Head, Goto
  <2>4. ~Unsafe(c) /\ UNCHANGED req
    BY <1>1 DEF Again, Unsafe, Head
  <2>5. AnsweredIsFinal'
    BY <1>1, <2>4 DEF TypeOK, AnsweredIsFinal, Unsafe, Head, Goto
  <2>6. StopLeavesNothing' /\ NothingBegins'
    BY <1>1, StopIsUntouched DEF Head, Serving
  <2>7. QED
    BY <2>1, <2>2, <2>3, <2>5, <2>6
<1>2. CASE ~Again(c, code)
  <2>1. TypeOK'
    <3>1. pc' \in [Conns -> Places] /\ UNCHANGED lease
      <4>1. TypeOK /\ Goto(c, "body") /\ UNCHANGED lease
        BY <1>2 DEF Head
      <4>2. pc' \in [Conns -> Places]
        BY <4>1, GotoTyped DEF Places
      <4>3. QED
        BY <4>1, <4>2
    <3>2. answer' \in [Conns -> [code : Codes \cup {0, 502}, framing : Framings \cup {None}, whole : BOOLEAN]]
      <4>1. answer' = [answer EXCEPT ![c] = [code |-> code, framing |-> framing, whole |-> FALSE]]
        BY <1>2 DEF Head
      <4>2. QED
        BY <4>1 DEF TypeOK
    <3>3. QED
      BY <1>0, <3>1, <3>2 DEF TypeOK, server, Places
  <2>2. OneAnswerEach' /\ FreshBackend'
    <3>1. pc[c] = "head" /\ Goto(c, "body") /\ UNCHANGED <<lease, replies, asked, reached>>
      BY <1>2 DEF Head
    <3>2. OneAnswerEach'
      BY <3>1 DEF TypeOK, OneAnswerEach, Goto
    <3>3. FreshBackend'
      BY <1>2 DEF TypeOK, FreshBackend, Head, Goto
    <3>4. QED
      BY <3>2, <3>3
  <2>3. TriedFirst' /\ Untouched'
    BY <1>2 DEF TypeOK, TriedFirst, Untouched, Head, Goto
  <2>4. AnsweredIsFinal'
    BY <1>2 DEF TypeOK, AnsweredIsFinal, Unsafe, Head, Goto
  <2>5. StopLeavesNothing' /\ NothingBegins'
    BY <1>2, StopIsUntouched DEF Head, Serving
  <2>6. QED
    BY <2>1, <2>2, <2>3, <2>4, <2>5
<1>3. QED
  BY <1>1, <1>2

\* A step that leaves the connections where they are.
LEMMA ConnectionsStay ==
  ASSUME HttpIInv, UNCHANGED <<pc, req, asked, replies, attempt>>
  PROVE  OneAnswerEach' /\ FreshBackend' /\ AnsweredIsFinal' /\ Untouched' /\ TriedFirst'
BY DEF HttpIInv, ProxyInv, OneAnswerEach, FreshBackend, AnsweredIsFinal, Unsafe, Untouched,
       TriedFirst, attempt

LEMMA AcceptorStep == HttpIInv /\ (AcceptorLooks \/ AcceptorTimesOut) => HttpIInv'
<1> SUFFICES ASSUME HttpIInv, AcceptorLooks \/ AcceptorTimesOut PROVE HttpIInv'
  OBVIOUS
<1>1. UNCHANGED <<running, stop, swapped, pc, shut, req, asked, replies, attempt>>
  BY DEF AcceptorLooks, AcceptorTimesOut
<1>2. acceptor # "gone" /\ acceptor' \in {"look", "wait", "gone"}
  BY DEF AcceptorLooks, AcceptorTimesOut
<1>3. TypeOK'
  BY <1>1, <1>2 DEF HttpIInv, ProxyInv, TypeOK, attempt
<1>4. StopLeavesNothing' /\ NothingBegins'
  BY <1>1, <1>2 DEF HttpIInv, ProxyInv, StopLeavesNothing, NothingBegins, attempt
<1>5. QED
  BY <1>1, <1>3, <1>4, ConnectionsStay DEF HttpIInv, ProxyInv

LEMMA AcceptStep == ASSUME HttpIInv, NEW c \in Conns, Accept(c) PROVE HttpIInv'
<1> USE DEF HttpIInv, ProxyInv
<1>1. /\ \A d \in Conns : pc'[d] = IF d = c THEN "top" ELSE IF pc[d] = "ended" THEN "joined" ELSE pc[d]
      /\ asked[c] = 0 /\ pc[c] = "backlog" /\ pc' \in [Conns -> Places]
      /\ UNCHANGED <<running, stop, swapped, shut, req, asked, replies, a, tried, lease, reached,
                     answered, answer>>
  BY DEF Accept, TypeOK, Untouched, Places, attempt
<1>2. acceptor # "gone" /\ acceptor' = "look"
  BY DEF Accept
<1>3. TypeOK'
  BY <1>1, <1>2 DEF TypeOK, Places
<1>4. OneAnswerEach'
  <2>1. ASSUME NEW d \in Conns
        PROVE  /\ pc'[d] \in {"try", "dial", "send", "head", "body", "relay", "none"} => replies'[d] = 0
               /\ pc'[d] = "top" /\ asked'[d] > 0 => replies'[d] = 1
               /\ lease'[d] # None => pc'[d] \in {"dial", "send", "head", "body", "relay"}
    <3>1. CASE d = c
      BY <1>1, <3>1 DEF OneAnswerEach
    <3>2. CASE d # c
      BY <1>1, <3>2 DEF OneAnswerEach
    <3>3. QED
      BY <3>1, <3>2
  <2>2. QED
    BY <2>1 DEF OneAnswerEach
<1>5. FreshBackend' /\ AnsweredIsFinal' /\ Untouched' /\ TriedFirst'
  BY <1>1 DEF FreshBackend, AnsweredIsFinal, Unsafe, Untouched, TriedFirst
<1>6. stop \notin {"joins", "done"}
  <2>1. stop # "joins"
    BY <1>2 DEF NothingBegins
  <2>2. stop # "done"
    BY <1>2 DEF NothingBegins
  <2>3. QED
    BY <2>1, <2>2
<1>7. StopLeavesNothing' /\ NothingBegins'
  BY <1>1, <1>6 DEF StopLeavesNothing, NothingBegins
<1>8. QED
  BY <1>3, <1>4, <1>5, <1>7

LEMMA ClientGoesStep == ASSUME HttpIInv, NEW c \in Conns, ClientGoes(c) PROVE HttpIInv'
<1>1. UNCHANGED <<server, pc, req, asked, replies, attempt>> /\ shut' \in [Conns -> BOOLEAN]
  BY DEF ClientGoes, HttpIInv, ProxyInv, TypeOK
<1>2. TypeOK' /\ StopLeavesNothing' /\ NothingBegins'
  BY <1>1 DEF HttpIInv, ProxyInv, TypeOK, StopLeavesNothing, NothingBegins, server, attempt
<1>3. QED
  BY <1>1, <1>2, ConnectionsStay DEF HttpIInv, ProxyInv

LEMMA StopBeginsStep == HttpIInv /\ StopBegins => HttpIInv'
<1> SUFFICES ASSUME HttpIInv, StopBegins PROVE HttpIInv'
  OBVIOUS
<1>1. TypeOK' /\ StopLeavesNothing' /\ NothingBegins'
  BY DEF HttpIInv, ProxyInv, StopBegins, TypeOK, StopLeavesNothing, NothingBegins, attempt
<1>2. QED
  BY <1>1, ConnectionsStay DEF HttpIInv, ProxyInv, StopBegins

LEMMA StopShutsStep == HttpIInv /\ StopShuts => HttpIInv'
<1> SUFFICES ASSUME HttpIInv, StopShuts PROVE HttpIInv'
  OBVIOUS
<1>1. TypeOK'
  BY DEF HttpIInv, ProxyInv, StopShuts, TypeOK, attempt
<1>2. StopLeavesNothing' /\ NothingBegins'
  BY DEF HttpIInv, ProxyInv, TypeOK, StopShuts, StopLeavesNothing, NothingBegins, Serving
<1>3. QED
  BY <1>1, <1>2, ConnectionsStay DEF HttpIInv, ProxyInv, StopShuts

LEMMA StopReturnsStep == HttpIInv /\ StopReturns => HttpIInv'
<1> SUFFICES ASSUME HttpIInv, StopReturns PROVE HttpIInv'
  OBVIOUS
<1> USE DEF HttpIInv, ProxyInv
<1>1. /\ \A c \in Conns : pc'[c] = IF c \in swapped THEN "joined" ELSE pc[c]
      /\ \A c \in swapped : pc[c] = "ended"
      /\ \A c \in Conns : pc[c] \in {"backlog", "joined"} \/ c \in swapped
      /\ pc' \in [Conns -> Places] /\ stop' = "done" /\ acceptor = "gone"
      /\ UNCHANGED <<running, acceptor, swapped, shut, req, asked, replies, a, tried, lease, reached,
                     answered, answer>>
  BY DEF StopReturns, TypeOK, NothingBegins, Places, attempt
<1>2. TypeOK'
  BY <1>1 DEF TypeOK, Places
<1>3. OneAnswerEach' /\ FreshBackend' /\ AnsweredIsFinal' /\ Untouched' /\ TriedFirst'
  BY <1>1 DEF OneAnswerEach, FreshBackend, AnsweredIsFinal, Unsafe, Untouched, TriedFirst
<1>4. StopLeavesNothing' /\ NothingBegins'
  BY <1>1 DEF OneAnswerEach, StopLeavesNothing, NothingBegins
<1>5. QED
  BY <1>2, <1>3, <1>4

LEMMA ServeStep == ASSUME HttpIInv, NEW c \in Conns, Serve(c) PROVE HttpIInv'
<1>1. CASE Leave(c) \/ ReadFails(c) \/ BadRequest(c) \/ \E q \in Requests : Ask(c, q)
  BY <1>1, LeaveStep, ReadFailsStep, BadRequestStep, AskStep
<1>2. CASE GiveUp(c) \/ Dial(c) \/ Send(c) \/ AttemptFails(c) \/ \E b \in Backends : Acquire(c, b)
  BY <1>2, GiveUpStep, DialStep, SendStep, AttemptFailsStep, AcquireStep
<1>3. CASE Body(c) \/ BodyCut(c) \/ BodyFails(c) \/ Relay(c) \/ Unavailable(c)
  BY <1>3, BodyStep, BodyCutStep, BodyFailsStep, RelayStep, UnavailableStep
<1>4. CASE \E code \in Codes, framing \in Framings : Head(c, code, framing)
  BY <1>4, HeadStep
<1>5. QED
  BY <1>1, <1>2, <1>3, <1>4 DEF Serve

LEMMA HttpStep == HttpIInv /\ [Next]_vars => HttpIInv'
<1> SUFFICES ASSUME HttpIInv, [Next]_vars PROVE HttpIInv'
  OBVIOUS
<1>1. CASE AcceptorLooks \/ AcceptorTimesOut
  BY <1>1, AcceptorStep
<1>2. CASE Stopping
  BY <1>2, StopBeginsStep, StopShutsStep, StopReturnsStep DEF Stopping
<1>3. ASSUME NEW c \in Conns, Accept(c) \/ Serve(c) \/ ClientGoes(c) PROVE HttpIInv'
  BY <1>3, AcceptStep, ServeStep, ClientGoesStep
<1>4. CASE UNCHANGED vars
  <2>1. TypeOK' /\ StopLeavesNothing' /\ NothingBegins'
    BY <1>4 DEF HttpIInv, ProxyInv, TypeOK, StopLeavesNothing, NothingBegins, vars, server, attempt
  <2>2. QED
    BY <1>4, <2>1, ConnectionsStay DEF HttpIInv, ProxyInv, vars
<1>5. QED
  BY <1>1, <1>2, <1>3, <1>4 DEF Next

\* For any number of connections and backends, whatever fails and whenever stop() is
\* called: each request has one reply, no attempt goes to a backend that had the
\* request, an unsafe one is final once answered, and a stop() that returned has left
\* no connection and no lease (proxy.hpp serve_l7_ and stop).
THEOREM HttpIsSound == ProxySpec => []ProxyInv
<1>1. ProxyInit => HttpIInv
  BY HttpInit DEF ProxyInit
<1>2. HttpIInv /\ [ProxyNext]_proxy => HttpIInv'
  <2> SUFFICES ASSUME HttpIInv, [ProxyNext]_proxy PROVE HttpIInv'
    OBVIOUS
  <2>1. [Next]_vars
    BY DEF ProxyNext, proxy, vars
  <2>2. QED
    BY <2>1, HttpStep
<1>3. HttpIInv => ProxyInv
  BY DEF HttpIInv
<1>4. QED
  BY <1>1, <1>2, <1>3, PTL DEF ProxySpec

-----------------------------------------------------------------------------
(* Layer 4 *)

\* The events still to handle: of sides that are open and readable, each once.  At
\* "send" the first of them has been read from.
EventsAreRight ==
  /\ ev \in L4!Seq(L4!Sides) /\ L4!Len(ev) <= 2 /\ (L4!Len(ev) = 2 => ev[1] # ev[2])
  /\ rpc \in {"events", "send"} => L4!Len(ev) > 0
  /\ rpc \in {"acquire", "wait"} => L4!Len(ev) = 0
  /\ rpc \in {"events", "send"} => \A i \in 1..L4!Len(ev) : ev[i] \in open
  /\ rpc = "events" => \A i \in 1..L4!Len(ev) : L4!Readable(ev[i])
  /\ rpc = "send" => \A i \in 2..L4!Len(ev) : L4!Readable(ev[i])

\* Bytes are in the thread's hands only on their way from an open side.
HoldIsBetween == hold > 0 => rpc \in {"send", "done"} /\ L4!Len(ev) > 0 /\ ev[1] \in open

\* What a side wrote is in its buffer, held, in the other's buffer or read; and it
\* writes no more than it may, least of all after its end of file.
Held(s) == IF hold > 0 /\ ev[1] = s THEN hold ELSE 0
BytesAreKept ==
  \A s \in L4!Sides :
    /\ wrote[s] = in[s] + Held(s) + out[L4!Other(s)] + got[L4!Other(s)]
    /\ wrote[s] <= L4!All(s)
    /\ inEnd[s] => wrote[s] = L4!All(s)

\* A side is told of the end of a live one when all it wrote was read by the proxy.
ToldAtTheEnd ==
  \A s \in L4!Sides :
    /\ outEnd[L4!Other(s)] => s \notin open
    /\ outEnd[L4!Other(s)] /\ s \notin dead => inEnd[s] /\ in[s] = 0

RelayIInv == /\ L4!TypeOK /\ L4!BlameIsRight
             /\ EventsAreRight /\ HoldIsBetween /\ BytesAreKept /\ ToldAtTheEnd

LEMMA SidesAre ==
  /\ L4!Sides = {"c", "u"} /\ L4!Other("c") = "u" /\ L4!Other("u") = "c"
  /\ \A s \in L4!Sides : /\ L4!Other(s) \in L4!Sides /\ L4!Other(L4!Other(s)) = s
                         /\ \A d \in L4!Sides : d = s \/ d = L4!Other(s)
BY DEF L4!Sides, L4!Other

LEMMA RelayHasEnded == RelayIInv => RelayInv
<1> SUFFICES ASSUME RelayIInv PROVE RelayInv
  OBVIOUS
<1>1. ASSUME NEW s \in L4!Sides, outEnd[s], L4!Other(s) \notin dead
      PROVE  got[s] + out[s] = L4!All(L4!Other(s))
  <2> DEFINE o == L4!Other(s)
  <2>1. o \in L4!Sides /\ L4!Other(o) = s
    BY SidesAre
  <2>2. inEnd[o] /\ in[o] = 0 /\ o \notin open
    BY <1>1, <2>1 DEF RelayIInv, ToldAtTheEnd
  <2>3. Held(o) = 0
    BY <2>2 DEF RelayIInv, HoldIsBetween, Held
  <2>4. wrote[o] = in[o] + Held(o) + out[s] + got[s] /\ wrote[o] = L4!All(o)
    BY <2>1, <2>2 DEF RelayIInv, BytesAreKept
  <2>5. out[s] \in Nat /\ got[s] \in Nat /\ wrote[o] \in Nat
    BY <2>1, RelayAssumption DEF RelayIInv, L4!TypeOK
  <2> HIDE DEF o
  <2>6. QED
    BY <2>2, <2>3, <2>4, <2>5 DEF o
<1>2. QED
  BY <1>1 DEF RelayIInv, RelayInv, L4!RelayInv, L4!EndComesLast

\* The bytes a call may take, and the attempts there are.
LEMMA LeastOfTwo ==
  ASSUME NEW x \in Nat, NEW y \in Nat
  PROVE  L4!Min({x, y}) \in {x, y} /\ L4!Min({x, y}) <= x /\ L4!Min({x, y}) <= y
<1>1. \E z \in {x, y} : \A w \in {x, y} : z =< w
  OBVIOUS
<1>2. L4!Min({x, y}) \in {x, y} /\ \A w \in {x, y} : L4!Min({x, y}) =< w
  BY <1>1 DEF L4!Min
<1>3. QED
  BY <1>2

LEMMA AttemptsIsANumber == L4!Attempts \in Nat
<1>1. \E z \in {1, Retries} : \A w \in {1, Retries} : z >= w
  BY ProxyAssumption
<1>2. L4!Max({1, Retries}) \in {1, Retries}
  BY <1>1 DEF L4!Max
<1>3. QED
  BY <1>2, ProxyAssumption DEF L4!Attempts

LEMMA RelayInit == L4!Init => RelayIInv
<1> SUFFICES ASSUME L4!Init PROVE RelayIInv
  OBVIOUS
<1>1. L4!TypeOK /\ L4!BlameIsRight
  BY RelayAssumption, AttemptsIsANumber DEF L4!Init, L4!TypeOK, L4!Sides, L4!BlameIsRight
<1>2. EventsAreRight /\ HoldIsBetween /\ ToldAtTheEnd
  BY SidesAre DEF L4!Init, EventsAreRight, HoldIsBetween, ToldAtTheEnd
<1>3. BytesAreKept
  BY SidesAre, RelayAssumption DEF L4!Init, BytesAreKept, Held, L4!All
<1>4. QED
  BY <1>1, <1>2, <1>3 DEF RelayIInv

\* The numbers are numbers.
LEMMA RelayNumbers ==
  ASSUME RelayIInv, NEW s \in L4!Sides
  PROVE  /\ in[s] \in Nat /\ out[s] \in Nat /\ wrote[s] \in Nat /\ got[s] \in Nat /\ hold \in Nat
         /\ inEnd[s] \in BOOLEAN /\ outEnd[s] \in BOOLEAN /\ L4!All(s) \in Nat
BY RelayAssumption DEF RelayIInv, L4!TypeOK, L4!All

\* What a side may write is never more than it is to write in all.
LEMMA MayIsBounded == ASSUME RelayIInv, NEW s \in L4!Sides PROVE L4!May(s) <= L4!All(s)
<1>1. CASE s = "c"
  <2>1. L4!May(s) = Request /\ L4!All(s) = Request
    BY <1>1 DEF L4!May, L4!All
  <2>2. QED
    BY <2>1, RelayAssumption
<1>2. CASE s # "c" /\ manner = "echo"
  <2>1. got["u"] <= wrote["c"] /\ wrote["c"] <= Request
    <3>1. /\ wrote["c"] = in["c"] + Held("c") + out["u"] + got["u"]
          /\ wrote["c"] <= L4!All("c") /\ L4!All("c") = Request
      BY SidesAre DEF RelayIInv, BytesAreKept, L4!All
    <3>2. Held("c") \in Nat
      BY RelayNumbers DEF Held
    <3>3. QED
      BY <3>1, <3>2, RelayNumbers, SidesAre, RelayAssumption
  <2>2. QED
    BY <1>2, <2>1, RelayNumbers, SidesAre, RelayAssumption DEF L4!May, L4!All
<1>3. CASE s # "c" /\ manner # "echo"
  BY <1>3, RelayAssumption DEF L4!May, L4!All
<1>4. QED
  BY <1>1, <1>2, <1>3

LEMMA WriteStep == ASSUME RelayIInv, NEW s \in L4!Sides, L4!Write(s) PROVE RelayIInv'
<1>1. /\ wrote[s] < L4!May(s) /\ in[s] < Room /\ s \notin dead
      /\ UNCHANGED <<manner, out, inEnd, outEnd, got, dead, rpc, ra, ev, hold, open, outcome>>
      /\ wrote' = [wrote EXCEPT ![s] = @ + 1] /\ in' = [in EXCEPT ![s] = @ + 1]
  BY DEF L4!Write, L4!CanWrite, L4!thread
<1>2. L4!TypeOK' /\ L4!BlameIsRight'
  <2>1. in \in [L4!Sides -> 0..Room] /\ wrote \in [L4!Sides -> Nat] /\ Room \in Nat
    BY RelayAssumption DEF RelayIInv, L4!TypeOK
  <2>2. in' \in [L4!Sides -> 0..Room]
    <3>1. in[s] + 1 \in 0..Room
      BY <1>1, <2>1
    <3>2. QED
      BY <1>1, <2>1, <3>1
  <2>3. wrote' \in [L4!Sides -> Nat]
    BY <1>1, <2>1
  <2>4. L4!TypeOK'
    BY <1>1, <2>2, <2>3 DEF RelayIInv, L4!TypeOK
  <2>5. L4!BlameIsRight'
    BY <1>1 DEF RelayIInv, L4!BlameIsRight
  <2>6. QED
    BY <2>4, <2>5
<1>3. wrote[s] < L4!All(s) /\ L4!May(s) <= L4!All(s)
  <2>1. L4!May(s) \in Nat
    BY RelayNumbers, SidesAre, RelayAssumption DEF L4!May
  <2>2. QED
    BY <1>1, <2>1, MayIsBounded, RelayNumbers
<1>4. \A d \in L4!Sides : /\ Held(d)' = Held(d) /\ L4!All(d)' = L4!All(d) /\ in'[d] >= in[d]
                          /\ wrote'[d] - in'[d] = wrote[d] - in[d] /\ wrote'[d] <= L4!All(d)
  <2>1. \A d \in L4!Sides : Held(d)' = Held(d) /\ L4!All(d)' = L4!All(d)
    BY <1>1 DEF Held, L4!All
  <2>2. ASSUME NEW d \in L4!Sides
        PROVE  /\ in'[d] = IF d = s THEN in[d] + 1 ELSE in[d]
               /\ wrote'[d] = IF d = s THEN wrote[d] + 1 ELSE wrote[d]
    BY <1>1 DEF RelayIInv, L4!TypeOK
  <2>3. \A d \in L4!Sides : wrote[d] <= L4!All(d)
    BY DEF RelayIInv, BytesAreKept
  <2>4. QED
    BY <1>3, <2>1, <2>2, <2>3, RelayNumbers
<1>5. EventsAreRight' /\ HoldIsBetween'
  <2>1. ASSUME NEW d \in L4!Sides, L4!Readable(d) PROVE L4!Readable(d)'
    <3>1. in'[d] >= in[d] /\ in'[d] \in Nat /\ in[d] \in Nat
      <4>1. in' \in [L4!Sides -> 0..Room]
        BY <1>2 DEF L4!TypeOK
      <4>2. in'[d] \in Nat
        BY <4>1, RelayAssumption
      <4>3. QED
        BY <1>4, <4>2, RelayNumbers
    <3>2. QED
      BY <1>1, <2>1, <3>1 DEF L4!Readable
  <2>2. \A i \in 1..L4!Len(ev) : ev[i] \in L4!Sides
    BY DEF RelayIInv, EventsAreRight
  <2>3. EventsAreRight'
    BY <1>1, <2>1, <2>2 DEF RelayIInv, EventsAreRight
  <2>4. QED
    BY <1>1, <2>3 DEF RelayIInv, HoldIsBetween
<1>6. ~inEnd[s]
  BY <1>3, RelayNumbers DEF RelayIInv, BytesAreKept
<1>7. BytesAreKept'
  <2>1. \A d \in L4!Sides : in'[d] \in Nat /\ wrote'[d] \in Nat /\ Held(d) \in Nat
    BY <1>2, RelayNumbers, RelayAssumption DEF L4!TypeOK, Held
  <2>2. ASSUME NEW d \in L4!Sides
        PROVE  wrote'[d] = in'[d] + Held(d)' + out'[L4!Other(d)] + got'[L4!Other(d)]
    BY <1>1, <1>4, <2>1, RelayNumbers, SidesAre DEF RelayIInv, BytesAreKept
  <2>3. ASSUME NEW d \in L4!Sides, inEnd'[d] PROVE wrote'[d] = L4!All(d)'
    BY <1>1, <1>4, <1>6, <2>3 DEF RelayIInv, BytesAreKept
  <2>4. QED
    BY <1>4, <2>2, <2>3 DEF BytesAreKept
<1>8. ToldAtTheEnd'
  BY <1>1, <1>6 DEF RelayIInv, L4!TypeOK, ToldAtTheEnd
<1>9. QED
  BY <1>2, <1>5, <1>7, <1>8 DEF RelayIInv

LEMMA EndWritingStep == ASSUME RelayIInv, NEW s \in L4!Sides, L4!EndWriting(s) PROVE RelayIInv'
<1>1. /\ wrote[s] = L4!All(s) /\ inEnd' = [inEnd EXCEPT ![s] = TRUE]
      /\ UNCHANGED <<manner, in, out, outEnd, wrote, got, dead, rpc, ra, ev, hold, open, outcome>>
  BY DEF L4!EndWriting, L4!CanEnd, L4!thread
<1>2. L4!TypeOK' /\ L4!BlameIsRight'
  BY <1>1 DEF RelayIInv, L4!TypeOK, L4!BlameIsRight
<1>3. EventsAreRight' /\ HoldIsBetween'
  BY <1>1 DEF RelayIInv, L4!TypeOK, EventsAreRight, HoldIsBetween, L4!Readable
<1>4. \A d \in L4!Sides : Held(d)' = Held(d) /\ L4!All(d)' = L4!All(d)
  BY <1>1 DEF Held, L4!All
<1>5. BytesAreKept'
  BY <1>1, <1>4, SidesAre DEF RelayIInv, L4!TypeOK, BytesAreKept
<1>6. ToldAtTheEnd'
  BY <1>1 DEF RelayIInv, L4!TypeOK, ToldAtTheEnd
<1>7. QED
  BY <1>2, <1>3, <1>5, <1>6 DEF RelayIInv

LEMMA TakeStep == ASSUME RelayIInv, NEW s \in L4!Sides, L4!Take(s) PROVE RelayIInv'
<1>1. /\ out[s] > 0 /\ out' = [out EXCEPT ![s] = @ - 1] /\ got' = [got EXCEPT ![s] = @ + 1]
      /\ UNCHANGED <<manner, in, inEnd, outEnd, wrote, dead, rpc, ra, ev, hold, open, outcome>>
  BY DEF L4!Take, L4!CanTake, L4!thread
<1>2. L4!TypeOK' /\ L4!BlameIsRight'
  <2>1. out \in [L4!Sides -> 0..Room] /\ got \in [L4!Sides -> Nat] /\ Room \in Nat
    BY RelayAssumption DEF RelayIInv, L4!TypeOK
  <2>2. out' \in [L4!Sides -> 0..Room]
    <3>1. out[s] - 1 \in 0..Room
      BY <1>1, <2>1
    <3>2. QED
      BY <1>1, <2>1, <3>1
  <2>3. got' \in [L4!Sides -> Nat]
    BY <1>1, <2>1
  <2>4. L4!TypeOK'
    BY <1>1, <2>2, <2>3 DEF RelayIInv, L4!TypeOK
  <2>5. L4!BlameIsRight'
    BY <1>1 DEF RelayIInv, L4!BlameIsRight
  <2>6. QED
    BY <2>4, <2>5
<1>3. EventsAreRight' /\ HoldIsBetween' /\ ToldAtTheEnd'
  BY <1>1 DEF RelayIInv, EventsAreRight, HoldIsBetween, ToldAtTheEnd, L4!Readable
<1>4. \A d \in L4!Sides : Held(d)' = Held(d) /\ L4!All(d)' = L4!All(d)
  BY <1>1 DEF Held, L4!All
<1>5. \A d \in L4!Sides : out'[d] + got'[d] = out[d] + got[d]
  BY <1>1, RelayNumbers DEF RelayIInv, L4!TypeOK
<1>6. BytesAreKept'
  <2>1. \A d \in L4!Sides : Held(d) \in Nat
    BY RelayNumbers DEF Held
  <2>2. \A d \in L4!Sides : out'[d] \in Nat /\ got'[d] \in Nat
    BY <1>2, RelayAssumption DEF L4!TypeOK
  <2>3. ASSUME NEW d \in L4!Sides
        PROVE  wrote'[d] = in'[d] + Held(d)' + out'[L4!Other(d)] + got'[L4!Other(d)]
    BY <1>1, <1>4, <1>5, <2>1, <2>2, RelayNumbers, SidesAre DEF RelayIInv, BytesAreKept
  <2>4. QED
    BY <1>1, <1>4, <2>3 DEF RelayIInv, BytesAreKept
<1>7. QED
  BY <1>2, <1>3, <1>6 DEF RelayIInv

LEMMA DieStep == ASSUME RelayIInv, NEW s \in L4!Sides, L4!Die(s) PROVE RelayIInv'
<1>1. /\ dead' = dead \cup {s}
      /\ UNCHANGED <<manner, in, out, inEnd, outEnd, wrote, got, rpc, ra, ev, hold, open, outcome>>
  BY DEF L4!Die, L4!peers, L4!thread
<1>2. L4!TypeOK' /\ L4!BlameIsRight'
  BY <1>1 DEF RelayIInv, L4!TypeOK, L4!BlameIsRight
<1>3. EventsAreRight' /\ HoldIsBetween' /\ ToldAtTheEnd'
  BY <1>1 DEF RelayIInv, EventsAreRight, HoldIsBetween, ToldAtTheEnd, L4!Readable
<1>4. BytesAreKept'
  BY <1>1 DEF RelayIInv, BytesAreKept, Held, L4!All
<1>5. QED
  BY <1>2, <1>3, <1>4 DEF RelayIInv

\* A step of the thread that moves no byte and ends no way.
LEMMA NothingMoves ==
  ASSUME RelayIInv, UNCHANGED <<manner, L4!peers, dead, hold, open>>, hold = 0 \/ ev' = ev
  PROVE  BytesAreKept' /\ ToldAtTheEnd'
<1>1. UNCHANGED <<in, out, inEnd, outEnd, wrote, got>>
  BY DEF L4!peers
<1>2. \A d \in L4!Sides : Held(d)' = Held(d) /\ L4!All(d)' = L4!All(d)
  BY DEF Held, L4!All
<1>3. QED
  BY <1>1, <1>2 DEF RelayIInv, BytesAreKept, ToldAtTheEnd

LEMMA AcquireSteps == RelayIInv /\ (L4!Connect \/ L4!DialFails \/ L4!NoBackend) => RelayIInv'
<1> SUFFICES ASSUME RelayIInv, L4!Connect \/ L4!DialFails \/ L4!NoBackend PROVE RelayIInv'
  OBVIOUS
<1>1. /\ rpc = "acquire" /\ rpc' \in {"acquire", "wait", "done"} /\ ra' \in 0..L4!Attempts
      /\ UNCHANGED <<manner, in, out, inEnd, outEnd, wrote, got, dead, ev, hold, open, outcome>>
  BY AttemptsIsANumber DEF L4!Connect, L4!DialFails, L4!NoBackend, L4!peers, RelayIInv, L4!TypeOK
<1>2. L4!TypeOK' /\ L4!BlameIsRight'
  BY <1>1 DEF RelayIInv, L4!TypeOK, L4!BlameIsRight
<1>3. EventsAreRight' /\ HoldIsBetween'
  BY <1>1 DEF RelayIInv, EventsAreRight, HoldIsBetween
<1>4. BytesAreKept' /\ ToldAtTheEnd'
  BY <1>1, NothingMoves DEF L4!peers
<1>5. QED
  BY <1>2, <1>3, <1>4 DEF RelayIInv

LEMMA PollStep == RelayIInv /\ L4!Poll => RelayIInv'
<1> SUFFICES ASSUME RelayIInv, L4!Poll PROVE RelayIInv'
  OBVIOUS
<1>1. /\ rpc = "wait" /\ rpc' = "events" /\ hold = 0
      /\ UNCHANGED <<manner, in, out, inEnd, outEnd, wrote, got, dead, ra, hold, open, outcome>>
  <2>1. hold = 0
    BY RelayNumbers, SidesAre DEF RelayIInv, HoldIsBetween, L4!Poll
  <2>2. QED
    BY <2>1 DEF L4!Poll, L4!peers
<1> DEFINE One == {<<"c">>, <<"u">>}
           Two == {<<"c", "u">>, <<"u", "c">>}
<1>2. /\ ev' \in One \cup Two
      /\ \A s \in L4!Sides : L4!Readable(s) <=> \E i \in DOMAIN ev' : ev'[i] = s
  BY DEF L4!Poll
<1>3. \A e \in One : e \in L4!Seq(L4!Sides) /\ L4!Len(e) = 1
  <2>1. <<"c">> \in L4!Seq(L4!Sides) /\ <<"u">> \in L4!Seq(L4!Sides)
    BY SidesAre
  <2>2. QED
    BY <2>1
<1>4. \A e \in Two : e \in L4!Seq(L4!Sides) /\ L4!Len(e) = 2 /\ e[1] # e[2]
  <2>1. <<"c", "u">> \in L4!Seq(L4!Sides) /\ <<"u", "c">> \in L4!Seq(L4!Sides)
    BY SidesAre
  <2>2. L4!Len(<<"c", "u">>) = 2 /\ <<"c", "u">>[1] # <<"c", "u">>[2]
    OBVIOUS
  <2>3. L4!Len(<<"u", "c">>) = 2 /\ <<"u", "c">>[1] # <<"u", "c">>[2]
    OBVIOUS
  <2>4. QED
    BY <2>1, <2>2, <2>3, Zenon
<1> HIDE DEF One, Two
<1>5. /\ ev' \in L4!Seq(L4!Sides) /\ L4!Len(ev') \in {1, 2} /\ (L4!Len(ev') = 2 => ev'[1] # ev'[2])
  BY <1>2, <1>3, <1>4
<1>6. L4!TypeOK' /\ L4!BlameIsRight'
  <2>1. L4!Len(ev') <= 2
    <3>1. \A n \in {1, 2} : n <= 2
      OBVIOUS
    <3>2. QED
      BY <1>5, <3>1
  <2>2. QED
    BY <1>1, <2>1 DEF RelayIInv, L4!TypeOK, L4!BlameIsRight
<1>7. EventsAreRight'
  <2>1. ASSUME NEW i \in 1..L4!Len(ev') PROVE ev'[i] \in L4!Sides /\ L4!Readable(ev'[i])
    BY <1>2, <1>5
  <2>2. \A s \in L4!Sides : L4!Readable(s) => s \in open /\ L4!Readable(s)'
    BY <1>1 DEF L4!Readable
  <2>3. QED
    BY <1>1, <1>5, <2>1, <2>2 DEF EventsAreRight
<1>8. HoldIsBetween'
  BY <1>1 DEF HoldIsBetween
<1>9. BytesAreKept' /\ ToldAtTheEnd'
  BY <1>1, NothingMoves DEF L4!peers
<1>10. QED
  BY <1>6, <1>7, <1>8, <1>9 DEF RelayIInv

\* The event at hand and what becomes of the others.
LEMMA EventFacts ==
  ASSUME RelayIInv, rpc \in {"events", "send"}
  PROVE  /\ L4!Len(ev) \in {1, 2} /\ L4!Head(ev) = ev[1] /\ ev[1] \in L4!Sides /\ ev[1] \in open
         /\ L4!Tail(ev) \in L4!Seq(L4!Sides) /\ L4!Len(L4!Tail(ev)) = L4!Len(ev) - 1
         /\ \A i \in 1..L4!Len(ev) - 1 : /\ L4!Tail(ev)[i] = ev[2] /\ ev[2] # ev[1]
                                         /\ ev[2] \in L4!Sides /\ ev[2] \in open /\ L4!Readable(ev[2])
         /\ L4!Handled = IF L4!Len(ev) = 1 THEN "wait" ELSE "events"
<1>1. /\ ev \in L4!Seq(L4!Sides) /\ L4!Len(ev) <= 2 /\ L4!Len(ev) > 0 /\ (L4!Len(ev) = 2 => ev[1] # ev[2])
      /\ \A i \in 1..L4!Len(ev) : ev[i] \in open
      /\ \A i \in 2..L4!Len(ev) : L4!Readable(ev[i])
  BY DEF RelayIInv, EventsAreRight
<1>2. L4!Len(ev) \in {1, 2} /\ L4!Head(ev) = ev[1]
  <2> DEFINE n == L4!Len(ev)
  <2>1. n \in Nat /\ n <= 2 /\ n > 0
    BY <1>1
  <2> HIDE DEF n
  <2>2. n \in {1, 2}
    BY <2>1
  <2>3. L4!Len(ev) \in {1, 2}
    BY <2>2 DEF n
  <2>4. QED
    BY <1>1, <2>3
<1>3. ev[1] \in L4!Sides /\ ev[1] \in open
  BY <1>1, <1>2
<1>4. L4!Tail(ev) \in L4!Seq(L4!Sides) /\ L4!Len(L4!Tail(ev)) = L4!Len(ev) - 1
  BY <1>1, <1>2
<1>5. ASSUME NEW i \in 1..L4!Len(ev) - 1
      PROVE  /\ L4!Tail(ev)[i] = ev[2] /\ ev[2] # ev[1]
             /\ ev[2] \in L4!Sides /\ ev[2] \in open /\ L4!Readable(ev[2])
  <2>1. L4!Len(ev) = 2 /\ i = 1
    <3> DEFINE n == L4!Len(ev)
    <3>1. n \in {1, 2} /\ i \in 1..n - 1
      BY <1>2
    <3> HIDE DEF n
    <3>2. n = 2 /\ i = 1
      BY <3>1
    <3>3. QED
      BY <3>2 DEF n
  <2>2. QED
    BY <1>1, <2>1
<1>6. QED
  BY <1>2, <1>3, <1>4, <1>5 DEF L4!Handled

LEMMA ReceiveStep == RelayIInv /\ L4!Receive => RelayIInv'
<1> SUFFICES ASSUME RelayIInv, L4!Receive PROVE RelayIInv'
  OBVIOUS
<1> DEFINE s == ev[1]
<1>1. s \in L4!Sides /\ s \in open /\ L4!Head(ev) = s
  BY EventFacts DEF L4!Receive
<1>2. /\ rpc = "events" /\ in[s] > 0 /\ rpc' = "send"
      /\ hold' = L4!Min({in[s], Chunk}) /\ in' = [in EXCEPT ![s] = @ - hold']
      /\ UNCHANGED <<manner, out, inEnd, outEnd, wrote, got, dead, ra, ev, open, outcome>>
  BY <1>1 DEF L4!Receive
<1>3. hold' \in 0..Chunk /\ hold' <= in[s] /\ hold = 0
  <2>1. in[s] \in Nat /\ Chunk \in Nat /\ hold \in Nat
    BY <1>1, RelayNumbers, RelayAssumption
  <2>2. hold' \in {in[s], Chunk} /\ hold' <= in[s] /\ hold' <= Chunk
    BY <1>2, <2>1, LeastOfTwo
  <2>3. ~(hold > 0)
    BY <1>2 DEF RelayIInv, HoldIsBetween
  <2>4. QED
    BY <2>1, <2>2, <2>3
<1> HIDE DEF s
<1>4. \A d \in L4!Sides : in[d] \in 0..Room /\ in'[d] = IF d = s THEN in[d] - hold' ELSE in[d]
  BY <1>2 DEF RelayIInv, L4!TypeOK
<1>5. in' \in [L4!Sides -> 0..Room]
  <2>1. ASSUME NEW d \in L4!Sides PROVE in'[d] \in 0..Room
    BY <1>3, <1>4, RelayAssumption
  <2>2. in' = [d \in L4!Sides |-> in'[d]]
    BY <1>2 DEF RelayIInv, L4!TypeOK
  <2>3. QED
    BY <2>1, <2>2
<1>6. L4!TypeOK' /\ L4!BlameIsRight'
  BY <1>2, <1>3, <1>5 DEF RelayIInv, L4!TypeOK, L4!BlameIsRight
<1>7. EventsAreRight'
  <2>1. /\ ev \in L4!Seq(L4!Sides) /\ L4!Len(ev) <= 2 /\ (L4!Len(ev) = 2 => ev[1] # ev[2])
        /\ L4!Len(ev) > 0 /\ \A i \in 1..L4!Len(ev) : ev[i] \in open
    BY <1>2 DEF RelayIInv, EventsAreRight
  <2>2. ASSUME NEW i \in 2..L4!Len(ev) PROVE L4!Readable(ev[i])'
    <3>1. L4!Readable(ev[i]) /\ ev[i] \in L4!Sides
      BY <1>2, <2>1 DEF RelayIInv, EventsAreRight
    <3>2. ev[i] # s
      <4> DEFINE n == L4!Len(ev)
      <4>1. i \in 2..n /\ n \in {1, 2}
        BY <1>2, EventFacts
      <4> HIDE DEF n
      <4>2. i = 2 /\ n = 2
        BY <4>1
      <4>3. QED
        BY <2>1, <4>2 DEF n, s
    <3>3. QED
      BY <1>2, <1>4, <3>1, <3>2 DEF L4!Readable
  <2>3. QED
    BY <1>2, <2>1, <2>2 DEF EventsAreRight
<1>8. HoldIsBetween'
  <2>1. L4!Len(ev) > 0 /\ ev[1] \in open
    BY <1>1, <1>2 DEF RelayIInv, EventsAreRight, s
  <2>2. QED
    BY <1>2, <2>1 DEF HoldIsBetween
<1>9. \A d \in L4!Sides : /\ in'[d] + Held(d)' = in[d] + Held(d) /\ L4!All(d)' = L4!All(d)
                          /\ in'[d] \in Nat /\ Held(d)' \in Nat /\ Held(d) \in Nat
  <2>1. \A d \in L4!Sides : Held(d) = 0 /\ Held(d)' = IF d = s THEN hold' ELSE 0
    BY <1>2, <1>3 DEF Held, s
  <2>2. \A d \in L4!Sides : in'[d] \in 0..Room
    BY <1>5
  <2>3. \A d \in L4!Sides : L4!All(d)' = L4!All(d)
    BY <1>2 DEF L4!All
  <2>4. ASSUME NEW d \in L4!Sides
        PROVE  in'[d] + Held(d)' = in[d] + Held(d) /\ in'[d] \in Nat /\ Held(d)' \in Nat /\ Held(d) \in Nat
    <3>1. in[d] \in Nat /\ in'[d] \in Nat /\ hold' \in Nat
      BY <1>3, <2>2, RelayNumbers, RelayAssumption
    <3>2. CASE d = s
      BY <1>4, <2>1, <3>1, <3>2
    <3>3. CASE d # s
      BY <1>4, <2>1, <3>1, <3>3
    <3>4. QED
      BY <3>2, <3>3
  <2>5. QED
    BY <2>3, <2>4
<1>10. BytesAreKept'
  <2>1. ASSUME NEW d \in L4!Sides
        PROVE  wrote'[d] = in'[d] + Held(d)' + out'[L4!Other(d)] + got'[L4!Other(d)]
    BY <1>2, <1>9, RelayNumbers, SidesAre DEF RelayIInv, BytesAreKept
  <2>2. QED
    BY <1>2, <1>9, <2>1 DEF RelayIInv, BytesAreKept
<1>11. ToldAtTheEnd'
  <2>1. ASSUME NEW d \in L4!Sides, outEnd[L4!Other(d)] PROVE d # s
    BY <1>1, <2>1 DEF RelayIInv, ToldAtTheEnd, s
  <2>2. QED
    BY <1>2, <1>4, <2>1 DEF RelayIInv, ToldAtTheEnd
<1>12. QED
  BY <1>6, <1>7, <1>8, <1>10, <1>11 DEF RelayIInv

\* The event is done with and the next one, if there is one, is at hand.
LEMMA NextEvent ==
  ASSUME RelayIInv, rpc \in {"events", "send"}, UNCHANGED <<in, inEnd, dead>>,
         rpc' = L4!Handled, ev' = L4!Tail(ev), open \ {ev[1]} \subseteq open'
  PROVE  EventsAreRight' /\ L4!Len(ev') <= 2
<1> DEFINE n == L4!Len(ev)
<1>1. /\ n \in {1, 2} /\ ev' \in L4!Seq(L4!Sides) /\ L4!Len(ev') = n - 1
      /\ \A i \in 1..n - 1 : /\ ev'[i] = ev[2] /\ ev[2] # ev[1] /\ ev[2] \in L4!Sides /\ ev[2] \in open
                             /\ L4!Readable(ev[2])
      /\ rpc' = IF n = 1 THEN "wait" ELSE "events"
  BY EventFacts
<1> HIDE DEF n
<1>2. CASE n = 1
  BY <1>1, <1>2 DEF EventsAreRight
<1>3. CASE n = 2
  <2>1. PICK x \in L4!Sides : /\ ev'[1] = x /\ ev[2] = x /\ x \in open' /\ L4!Readable(x)
    <3>1. 1 \in 1..n - 1
      BY <1>3
    <3>2. /\ ev'[1] = ev[2] /\ ev[2] # ev[1] /\ ev[2] \in L4!Sides /\ ev[2] \in open /\ L4!Readable(ev[2])
      BY <1>1, <3>1
    <3>3. QED
      BY <3>2
  <2>2. rpc' = "events" /\ L4!Len(ev') = 1 /\ ev' \in L4!Seq(L4!Sides)
    BY <1>1, <1>3
  <2>3. L4!Readable(x)'
    BY <2>1 DEF L4!Readable
  <2>4. \A i \in 1..L4!Len(ev') : ev'[i] = x
    BY <2>1, <2>2
  <2>5. L4!Len(ev') <= 2 /\ L4!Len(ev') > 0
    <3>1. 1 <= 2 /\ 1 > 0
      OBVIOUS
    <3>2. QED
      BY <2>2, <3>1, Zenon
  <2>6. QED
    BY <2>1, <2>2, <2>3, <2>4, <2>5 DEF EventsAreRight
<1>4. QED
  BY <1>1, <1>2, <1>3

LEMMA ReceiveEndStep == RelayIInv /\ L4!ReceiveEnd => RelayIInv'
<1> SUFFICES ASSUME RelayIInv, L4!ReceiveEnd PROVE RelayIInv'
  OBVIOUS
<1> DEFINE s == ev[1]
<1>1. /\ rpc = "events" /\ s \in L4!Sides /\ s \in open /\ L4!Head(ev) = s /\ (s \in dead \/ in[s] = 0)
      /\ open' = open \ {s} /\ outEnd' = [outEnd EXCEPT ![L4!Other(s)] = TRUE]
      /\ UNCHANGED <<manner, in, out, inEnd, wrote, got, dead, ra, hold>>
  BY EventFacts DEF L4!ReceiveEnd, L4!AtEnd, L4!StillOpen
<1>2. \/ s = "u" /\ s \in dead /\ rpc' = "done" /\ outcome' = "failure" /\ UNCHANGED ev
      \/ rpc' = L4!Handled /\ ev' = L4!Tail(ev) /\ UNCHANGED outcome
  BY <1>1 DEF L4!ReceiveEnd, L4!Return
<1>3. L4!Readable(s) /\ hold = 0
  <2>1. L4!Len(ev) > 0 /\ \A i \in 1..L4!Len(ev) : L4!Readable(ev[i])
    BY <1>1 DEF RelayIInv, EventsAreRight
  <2>2. 1 \in 1..L4!Len(ev)
    <3> DEFINE n == L4!Len(ev)
    <3>1. n \in {1, 2}
      BY <1>1, EventFacts
    <3> HIDE DEF n
    <3>2. 1 \in 1..n
      BY <3>1
    <3>3. QED
      BY <3>2 DEF n
  <2>3. hold \in Nat /\ ~(hold > 0)
    BY <1>1, RelayNumbers DEF RelayIInv, HoldIsBetween
  <2>4. QED
    BY <2>1, <2>2, <2>3
<1> HIDE DEF s
<1>4. L4!Handled \in {"wait", "events"}
  BY DEF L4!Handled
<1>5. EventsAreRight' /\ L4!Len(ev') <= 2
  <2>1. CASE rpc' = "done" /\ ev' = ev
    BY <2>1 DEF RelayIInv, EventsAreRight
  <2>2. CASE rpc' = L4!Handled /\ ev' = L4!Tail(ev)
    BY <1>1, <2>2, NextEvent DEF s
  <2>3. QED
    BY <1>2, <2>1, <2>2
<1>6. L4!TypeOK' /\ L4!BlameIsRight'
  <2>1. rpc' \in {"done", "wait", "events"} /\ outcome' \in {"none", "success", "failure"}
    BY <1>2, <1>4 DEF RelayIInv, L4!TypeOK
  <2>2. L4!BlameIsRight'
    BY <1>1, <1>2 DEF RelayIInv, L4!BlameIsRight
  <2>3. open' \subseteq L4!Sides /\ outEnd' \in [L4!Sides -> BOOLEAN]
    BY <1>1 DEF RelayIInv, L4!TypeOK
  <2>4. QED
    BY <1>1, <1>5, <2>1, <2>2, <2>3 DEF RelayIInv, L4!TypeOK
<1>7. HoldIsBetween'
  BY <1>1, <1>3 DEF HoldIsBetween
<1>8. BytesAreKept'
  <2>1. \A d \in L4!Sides : Held(d) = 0 /\ Held(d)' = 0 /\ L4!All(d)' = L4!All(d)
    BY <1>1, <1>3 DEF Held, L4!All
  <2>2. QED
    BY <1>1, <2>1 DEF RelayIInv, BytesAreKept
<1>9. ToldAtTheEnd'
  <2>1. ASSUME NEW d \in L4!Sides, d # s
        PROVE  outEnd'[L4!Other(d)] = outEnd[L4!Other(d)]
    BY <1>1, <2>1, SidesAre DEF RelayIInv, L4!TypeOK
  <2>2. s \notin open' /\ (s \notin dead => inEnd[s] /\ in[s] = 0)
    BY <1>1, <1>3, RelayNumbers DEF L4!Readable
  <2>3. QED
    BY <1>1, <2>1, <2>2 DEF RelayIInv, ToldAtTheEnd
<1>10. QED
  BY <1>5, <1>6, <1>7, <1>8, <1>9 DEF RelayIInv

LEMMA SendByteStep == RelayIInv /\ L4!SendByte => RelayIInv'
<1> SUFFICES ASSUME RelayIInv, L4!SendByte PROVE RelayIInv'
  OBVIOUS
<1> DEFINE s == ev[1]
           to == L4!Other(s)
<1>1. s \in L4!Sides /\ s \in open /\ L4!Head(ev) = s /\ to \in L4!Sides
  BY EventFacts, SidesAre DEF L4!SendByte
<1>2. /\ rpc = "send" /\ hold > 0 /\ out[to] < Room
      /\ hold' = hold - 1 /\ out' = [out EXCEPT ![to] = @ + 1]
      /\ UNCHANGED <<manner, in, inEnd, outEnd, wrote, got, dead, rpc, ra, ev, open, outcome>>
  BY <1>1 DEF L4!SendByte
<1>3. hold \in Nat /\ hold' \in Nat /\ hold' \in 0..Chunk
  BY <1>1, <1>2, RelayNumbers, RelayAssumption DEF RelayIInv, L4!TypeOK
<1>4. \A d \in L4!Sides : out[d] \in Nat /\ out'[d] = IF d = to THEN out[d] + 1 ELSE out[d]
  BY <1>2, RelayNumbers DEF RelayIInv, L4!TypeOK
<1>5. L4!TypeOK' /\ L4!BlameIsRight'
  <2>1. out' \in [L4!Sides -> 0..Room]
    <3>1. out \in [L4!Sides -> 0..Room] /\ Room \in Nat
      BY RelayAssumption DEF RelayIInv, L4!TypeOK
    <3> HIDE DEF s, to
    <3>2. out[to] + 1 \in 0..Room
      BY <1>1, <1>2, <3>1
    <3>3. QED
      BY <1>2, <3>1, <3>2
  <2>2. QED
    BY <1>2, <1>3, <2>1 DEF RelayIInv, L4!TypeOK, L4!BlameIsRight
<1>6. EventsAreRight'
  BY <1>2 DEF RelayIInv, EventsAreRight, L4!Readable
<1>7. HoldIsBetween' /\ ToldAtTheEnd'
  BY <1>2 DEF RelayIInv, HoldIsBetween, ToldAtTheEnd
<1>8. ASSUME NEW d \in L4!Sides
      PROVE  Held(d)' + out'[L4!Other(d)] = Held(d) + out[L4!Other(d)]
             /\ Held(d)' \in Nat /\ Held(d) \in Nat
  <2>1. CASE d = s
    <3>1. Held(d) = hold /\ Held(d)' = hold'
      BY <1>2, <1>3, <2>1 DEF Held, s
    <3>2. out'[L4!Other(d)] = out[L4!Other(d)] + 1 /\ out[L4!Other(d)] \in Nat
      BY <1>1, <1>4, <2>1 DEF to
    <3>3. QED
      BY <1>2, <1>3, <3>1, <3>2
  <2>2. CASE d # s
    <3>1. Held(d) = 0 /\ Held(d)' = 0
      BY <1>2, <2>2 DEF Held, s
    <3>2. out'[L4!Other(d)] = out[L4!Other(d)]
      BY <1>1, <1>4, <2>2, SidesAre DEF to
    <3>3. QED
      BY <3>1, <3>2
  <2>3. QED
    BY <2>1, <2>2
<1> HIDE DEF s, to
<1>9. BytesAreKept'
  <2>1. ASSUME NEW d \in L4!Sides
        PROVE  wrote'[d] = in'[d] + Held(d)' + out'[L4!Other(d)] + got'[L4!Other(d)]
    <3>1. /\ wrote[d] = in[d] + Held(d) + out[L4!Other(d)] + got[L4!Other(d)]
          /\ in[d] \in Nat /\ out[L4!Other(d)] \in Nat /\ got[L4!Other(d)] \in Nat
          /\ out'[L4!Other(d)] \in Nat
      BY <1>4, RelayNumbers, SidesAre DEF RelayIInv, BytesAreKept
    <3>2. QED
      BY <1>2, <1>8, <3>1
  <2>2. \A d \in L4!Sides : L4!All(d)' = L4!All(d)
    BY <1>2 DEF L4!All
  <2>3. QED
    BY <1>2, <2>1, <2>2 DEF RelayIInv, BytesAreKept
<1>10. QED
  BY <1>5, <1>6, <1>7, <1>9 DEF RelayIInv

LEMMA SentStep == RelayIInv /\ L4!Sent => RelayIInv'
<1> SUFFICES ASSUME RelayIInv, L4!Sent PROVE RelayIInv'
  OBVIOUS
<1>1. /\ rpc = "send" /\ hold = 0 /\ rpc' = L4!Handled /\ ev' = L4!Tail(ev)
      /\ UNCHANGED <<manner, in, out, inEnd, outEnd, wrote, got, dead, ra, hold, open, outcome>>
  BY DEF L4!Sent, L4!peers
<1>2. EventsAreRight' /\ L4!Len(ev') <= 2
  BY <1>1, NextEvent
<1>3. L4!Handled \in {"wait", "events"}
  BY DEF L4!Handled
<1>4. L4!TypeOK' /\ L4!BlameIsRight' /\ HoldIsBetween'
  BY <1>1, <1>2, <1>3 DEF RelayIInv, L4!TypeOK, L4!BlameIsRight, HoldIsBetween
<1>5. BytesAreKept' /\ ToldAtTheEnd'
  BY <1>1, NothingMoves DEF L4!peers
<1>6. QED
  BY <1>2, <1>4, <1>5 DEF RelayIInv

\* The ends of a relay: whatever it held goes with it.
LEMMA ReturnSteps == RelayIInv /\ (L4!SendFails \/ L4!Closed \/ L4!Idle) => RelayIInv'
<1> SUFFICES ASSUME RelayIInv, L4!SendFails \/ L4!Closed \/ L4!Idle PROVE RelayIInv'
  OBVIOUS
<1>1. /\ rpc' = "done" /\ outcome' \in {"success", "failure"}
      /\ UNCHANGED <<manner, in, out, inEnd, outEnd, wrote, got, dead, ra, ev, hold, open>>
  BY DEF L4!SendFails, L4!Closed, L4!Idle, L4!Return, L4!peers
<1>2. outcome' = "failure" => "u" \in dead
  <2>1. CASE L4!Closed \/ L4!Idle
    BY <2>1 DEF L4!Closed, L4!Idle, L4!Return
  <2>2. CASE L4!SendFails
    <3>1. L4!Head(ev) \in L4!Sides
      BY <2>2, EventFacts DEF L4!SendFails
    <3>2. CASE L4!Head(ev) = "u"
      BY <2>2, <3>2 DEF L4!SendFails, L4!Return, L4!Excused
    <3>3. CASE L4!Head(ev) = "c"
      BY <2>2, <3>3, SidesAre DEF L4!SendFails
    <3>4. QED
      BY <3>1, <3>2, <3>3, SidesAre
  <2>3. QED
    BY <2>1, <2>2
<1>3. L4!TypeOK' /\ L4!BlameIsRight'
  BY <1>1, <1>2 DEF RelayIInv, L4!TypeOK, L4!BlameIsRight
<1>4. EventsAreRight' /\ HoldIsBetween'
  BY <1>1 DEF RelayIInv, EventsAreRight, HoldIsBetween
<1>5. BytesAreKept' /\ ToldAtTheEnd'
  BY <1>1, NothingMoves DEF L4!peers
<1>6. QED
  BY <1>3, <1>4, <1>5 DEF RelayIInv

LEMMA RelayStepInv == RelayIInv /\ [L4!Next]_(L4!vars) => RelayIInv'
<1> SUFFICES ASSUME RelayIInv, [L4!Next]_(L4!vars) PROVE RelayIInv'
  OBVIOUS
<1>1. ASSUME NEW s \in L4!Sides, L4!Moving(s) \/ L4!Die(s) PROVE RelayIInv'
  BY <1>1, WriteStep, EndWritingStep, TakeStep, DieStep DEF L4!Moving
<1>2. CASE L4!Relaying
  BY <1>2, AcquireSteps, PollStep, ReceiveStep, ReceiveEndStep, SendByteStep, SentStep, ReturnSteps
     DEF L4!Relaying
<1>3. CASE UNCHANGED L4!vars
  <2>1. UNCHANGED <<manner, in, out, inEnd, outEnd, wrote, got, dead, rpc, ra, ev, hold, open, outcome>>
    BY <1>3 DEF L4!vars, L4!peers, L4!thread
  <2>2. L4!TypeOK' /\ L4!BlameIsRight' /\ EventsAreRight' /\ HoldIsBetween'
    BY <2>1 DEF RelayIInv, L4!TypeOK, L4!BlameIsRight, EventsAreRight, HoldIsBetween, L4!Readable
  <2>3. BytesAreKept' /\ ToldAtTheEnd'
    BY <2>1, NothingMoves DEF L4!peers
  <2>4. QED
    BY <2>2, <2>3 DEF RelayIInv
<1>4. QED
  BY <1>1, <1>2, <1>3 DEF L4!Next

\* For any request, reply, buffers and chunk, whichever peer dies: a live side's end
\* of file is passed on after every byte it wrote, and the breaker is told of a
\* failure only if the backend broke the connection (proxy.hpp relay_).
THEOREM RelayIsSound == ProxySpec => []RelayInv
<1>1. ProxyInit => RelayIInv
  BY RelayInit DEF ProxyInit
<1>2. RelayIInv /\ [ProxyNext]_proxy => RelayIInv'
  <2> SUFFICES ASSUME RelayIInv, [ProxyNext]_proxy PROVE RelayIInv'
    OBVIOUS
  <2>1. [L4!Next]_(L4!vars)
    BY DEF ProxyNext, proxy, relay, L4!vars, L4!peers, L4!thread
  <2>2. QED
    BY <2>1, RelayStepInv
<1>3. QED
  BY <1>1, <1>2, RelayHasEnded, PTL DEF ProxySpec
=============================================================================
