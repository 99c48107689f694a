---------------------------- MODULE MCMindSessions ----------------------------
(* Model checking of the two kinds of session of FORGE mind that a caller drives  *)
(* itself, without the scheduler: decoding (Speculative) and streaming            *)
(* (StreamRing).  They share nothing; kind says which one a behaviour is of.      *)
EXTENDS Integers

CONSTANTS Kinds,                                       \* \subseteq {"decoding", "streaming"}
          Tokens, Eos, Context, DraftContexts, Prompts, MaxNews, Ks, Ngram,    \* of Speculative
          Settings, Slots, Chunks, Samples                                     \* of StreamRing

ASSUME SessionsAssumption ==
  /\ Eos \in Tokens /\ Context \in Nat \ {0} /\ DraftContexts \subseteq Nat
  /\ Prompts \subseteq 1..Context /\ MaxNews \subseteq Nat \ {0} /\ Ks \subseteq Nat \ {0}
  /\ Ngram \in Nat
  /\ Settings \subseteq [window : Nat \ {0}, hop : Nat \ {0}, lag : Nat]
  /\ Slots \in Nat \ {0} /\ \E i \in 0..Slots : Slots = 2^i
  /\ Chunks \subseteq Nat \ {0} /\ Samples \in Nat

VARIABLES kind,
          way, path, np, maxNew, ahead, draftContext, dpc, tkv, dkv, emitted, cur, drafted, acc,
          stopped,
          setting, ring, rd, wr, unfed, stored, pk, pi, cpc, take, got, frame, nextFrame, since,
          outran

Decode == INSTANCE Speculative WITH k <- ahead, pc <- dpc, out <- emitted, d <- drafted,
                                    cancelled <- stopped
Stream == INSTANCE StreamRing WITH o <- setting, buf <- ring, r <- rd, w <- wr, left <- unfed,
                                   accepted <- stored, next <- nextFrame

decoding == <<way, path, np, maxNew, ahead, draftContext, dpc, tkv, dkv, emitted, cur, drafted,
              acc, stopped>>
streaming == <<setting, ring, rd, wr, unfed, stored, pk, pi, cpc, take, got, frame, nextFrame, since,
               outran>>
sessions == <<kind, decoding, streaming>>

\* Overlapping frames, adjoining ones without a budget, and ones that leave samples out.
Framings == {[window |-> 3, hop |-> 2, lag |-> 1], [window |-> 2, hop |-> 2, lag |-> 0],
             [window |-> 3, hop |-> 1, lag |-> 2], [window |-> 2, hop |-> 3, lag |-> 1]}

\* The session that a behaviour is not of stays as it is created.
SomeStream == Stream!Init /\ (kind = "decoding" => setting = CHOOSE s \in Settings : TRUE)
SomeDecoding ==
  IF kind = "decoding" THEN Decode!Init
  ELSE /\ way = "generate" /\ path = [i \in 1..Context + 1 |-> Eos] /\ np = 1
       /\ maxNew = 1 /\ ahead = 1 /\ draftContext = 1 /\ dpc = "start" /\ tkv = <<>> /\ dkv = <<>>
       /\ emitted = <<>> /\ cur = Eos /\ drafted = <<>> /\ acc = 0 /\ stopped = FALSE

SessionsInit == kind \in Kinds /\ SomeStream /\ SomeDecoding

SessionsNext ==
  \/ kind = "streaming" /\ Stream!Next /\ UNCHANGED <<kind, decoding>>
  \/ kind = "decoding" /\ Decode!Next /\ UNCHANGED <<kind, streaming>>

\* The fairness of the two modules, each for its kind.
SessionsSpec ==
  /\ SessionsInit /\ [][SessionsNext]_sessions
  /\ WF_sessions(kind = "streaming" /\ Stream!Feeding /\ UNCHANGED <<kind, decoding>>)
  /\ WF_sessions(kind = "streaming" /\ Stream!Pumping /\ UNCHANGED <<kind, decoding>>)
  /\ WF_sessions(kind = "decoding" /\ Decode!Next /\ UNCHANGED <<kind, streaming>>)

\* Frame i is the accepted samples from i * hop on, whatever the threads do, and
\* as late as the budget and what came in since pump began allow; only a session
\* whose frames leave samples out comes to take more than there is in the ring, and
\* only from then on it is otherwise.
StreamingInv == kind = "streaming" => Stream!RingInv

\* Every way of decoding emits the target's own tokens, all of them where the
\* answer has room, and leaves the rows of those tokens in target and draft.
DecodingInv == kind = "decoding" => Decode!DecodingInv

\* Every call ends, and every frame that the accepted samples make up is called
\* or dropped, if the ring is not outrun.
SessionsEnd == (kind = "decoding" => Decode!CallEnds) /\ (kind = "streaming" => Stream!EveryFrameComes)
=============================================================================
