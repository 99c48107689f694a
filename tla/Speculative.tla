----------------------------- MODULE Speculative -----------------------------
(***************************************************************************)
(* Decoding with a greedy sampler, three ways: one token at a time         *)
(* (session::generate), with the proposals of a draft model                *)
(* (speculative_generate), and with proposals looked up in the history     *)
(* (lookup_generate).  A session's state is the tokens whose rows its KV   *)
(* store holds.  The target is known by the tokens it continues the prompt *)
(* with; whenever its rows or the sampler's history are of other tokens it *)
(* may answer anything.  The draft model may propose anything.             *)
(***************************************************************************)
EXTENDS Integers, Sequences, SequencesExt, FiniteSetsExt

CONSTANTS Tokens, Eos,
          Context, DraftContexts,    \* rows the sessions of target and draft have room for
          Prompts, MaxNews, Ks,      \* lengths of prompts, max_new, k
          Ngram

VARIABLES way,              \* "generate", "draft", "lookup"
          path, np,         \* prompt and continuation; the prompt's length
          maxNew, k, draftContext,
          pc,
          tkv, dkv,         \* tokens in the KV state of target and draft
          out, cur,         \* emitted; the last token, fed to neither model yet
          d, acc,           \* proposals of this round; how many are accepted
          cancelled         \* on_token returned false

question == <<way, path, np, maxNew, k, draftContext>>
vars == <<question, pc, tkv, dkv, out, cur, d, acc, cancelled>>

Prompt == SubSeq(path, 1, np)
Hist == Prompt \o out

Init ==
  /\ way \in {"generate", "draft", "lookup"} /\ path \in [1..Context + 1 -> Tokens]
  /\ np \in Prompts /\ maxNew \in MaxNews /\ k \in Ks /\ draftContext \in DraftContexts
  /\ pc = "start" /\ tkv = <<>> /\ dkv = <<>> /\ out = <<>> /\ cur = path[np]
  /\ d = <<>> /\ acc = 0 /\ cancelled = FALSE

-----------------------------------------------------------------------------
(* Sessions and the sampler *)

Fits(kv, n, context) == Len(kv) + n <= context           \* else forward raises
Rewound(kv, n) == IF n < Len(kv) THEN SubSeq(kv, 1, n) ELSE kv

\* What a greedy sampler can draw from the row computed after the tokens of kv.
Drawn(kv, history) ==
  IF kv = history /\ IsPrefix(kv, path) /\ Len(kv) <= Context THEN {path[Len(kv) + 1]} ELSE Tokens

\* emit: done is set by on_token, by Eos, and at max_new.
Emit(t, stop) == out' = Append(out, t) /\ cancelled' = stop
Ended(t, stop) == stop \/ t = Eos \/ Len(out) + 1 >= maxNew

Raise == pc' = "failed" /\ UNCHANGED <<question, tkv, dkv, out, cur, d, acc, cancelled>>

-----------------------------------------------------------------------------
(* session::generate *)

GenerateStart ==
  /\ pc = "start" /\ way = "generate" /\ pc' = "sample" /\ tkv' = Prompt
  /\ UNCHANGED <<question, dkv, out, cur, d, acc, cancelled>>

Generate ==
  /\ pc = "sample"
  /\ \E t \in Drawn(tkv, Hist), stop \in BOOLEAN :
       /\ Emit(t, stop)
       /\ IF Ended(t, stop) \/ Len(tkv) >= Context
          THEN pc' = "done" /\ UNCHANGED tkv
          ELSE tkv' = Append(tkv, t) /\ UNCHANGED pc
  /\ UNCHANGED <<question, dkv, cur, d, acc>>

-----------------------------------------------------------------------------
(* speculative_generate and lookup_generate *)

\* All of the prompt but its last token, which is cur.
Prefill ==
  /\ pc = "start" /\ way # "generate" /\ pc' = "loop" /\ tkv' = Front(Prompt)
  /\ dkv' = IF way = "draft" THEN Front(Prompt) ELSE dkv
  /\ Fits(dkv', 0, draftContext)
  /\ UNCHANGED <<question, out, cur, d, acc, cancelled>>

PrefillFails == pc = "start" /\ way = "draft" /\ np - 1 > draftContext /\ Raise

Room == Min({k, maxNew - Len(out), Context - Len(tkv) - 1})

\* The continuation of the most recent earlier occurrence of the last n tokens,
\* for the largest n <= Ngram that has one.
Starts(h, n) == {s \in 1..Len(h) - n : SubSeq(h, s, s + n - 1) = SubSeq(h, Len(h) - n + 1, Len(h))}
LookupDraft(h, room) ==
  LET found == {n \in 1..Ngram : n < Len(h) /\ Starts(h, n) # {}}
      n == Max(found)
      from == Max(Starts(h, n)) + n
  IN IF room <= 0 \/ found = {} THEN <<>> ELSE SubSeq(h, from, Min({Len(h), from + room - 1}))

NoProposals == IF way = "draft" THEN Room <= 0 ELSE LookupDraft(Hist, Room) = <<>>

\* lookup_generate looks whether there is a row left before it feeds cur,
\* speculative_generate after it has.
Plain ==
  /\ pc = "loop" /\ NoProposals
  /\ Fits(tkv, 1, Context) /\ (way = "draft" => Fits(dkv, 1, draftContext))
  /\ tkv' = Append(tkv, cur) /\ dkv' = IF way = "draft" THEN Append(dkv, cur) ELSE dkv
  /\ \E t \in Drawn(tkv', Hist), stop \in BOOLEAN :
       /\ Emit(t, stop) /\ cur' = t
       /\ pc' = IF Ended(t, stop) \/ (way = "draft" /\ ~Fits(tkv', 1, Context)) THEN "done" ELSE "loop"
  /\ UNCHANGED <<question, d, acc>>

PlainFails ==
  /\ pc = "loop" /\ way = "draft" /\ NoProposals
  /\ ~Fits(tkv, 1, Context) \/ ~Fits(dkv, 1, draftContext)
  /\ Raise

LookupEnds ==
  /\ pc = "loop" /\ way = "lookup" /\ NoProposals /\ ~Fits(tkv, 1, Context) /\ pc' = "done"
  /\ UNCHANGED <<question, tkv, dkv, out, cur, d, acc, cancelled>>

\* forward_all of cur and the proposals: one row for each.
Scored(proposals) ==
  /\ pc' = "verify" /\ d' = proposals /\ acc' = 0 /\ tkv' = tkv \o <<cur>> \o proposals
  /\ UNCHANGED <<question, out, cur, cancelled>>

Lookup ==
  /\ pc = "loop" /\ way = "lookup" /\ ~NoProposals
  /\ Scored(LookupDraft(Hist, Room)) /\ UNCHANGED dkv

Propose ==
  /\ pc = "loop" /\ way = "draft" /\ ~NoProposals /\ pc' = "propose" /\ d' = <<>> /\ acc' = 0
  /\ UNCHANGED <<question, tkv, dkv, out, cur, cancelled>>

Proposal ==
  /\ pc = "propose" /\ Len(d) < Room /\ Fits(dkv, 1, draftContext)
  /\ dkv' = Append(dkv, IF d = <<>> THEN cur ELSE Last(d))
  /\ \E t \in Tokens : d' = Append(d, t)
  /\ UNCHANGED <<question, pc, tkv, out, cur, acc, cancelled>>

ProposalFails == pc = "propose" /\ Len(d) < Room /\ ~Fits(dkv, 1, draftContext) /\ Raise

Score == pc = "propose" /\ Len(d) = Room /\ Scored(d) /\ UNCHANGED dkv

\* The target's position before the round, and its rows up to the next proposal.
Mark == Len(tkv) - Len(d) - 1

Row == SubSeq(tkv, 1, Mark + 1 + acc)

\* An accepted proposal is emitted; one that ends the answer takes back the rows
\* of those after it.
Accept ==
  /\ pc = "verify" /\ acc < Len(d) /\ d[acc + 1] \in Drawn(Row, Hist)
  /\ acc' = acc + 1
  /\ \E stop \in BOOLEAN :
       /\ Emit(d[acc + 1], stop)
       /\ IF Ended(d[acc + 1], stop)
          THEN /\ pc' = "done" /\ tkv' = Rewound(tkv, Mark + 1 + acc')
               /\ dkv' = IF way = "draft" THEN Rewound(dkv, Mark + Min({acc' + 1, Len(d)})) ELSE dkv
          ELSE UNCHANGED <<pc, tkv, dkv>>
  /\ UNCHANGED <<question, cur, d>>

\* Mutant: what the rejected proposals put into the target stays.
RejectKeepsRows ==
  /\ pc = "verify" /\ acc < Len(d)
  /\ \E t \in Drawn(Row, Hist) \ {d[acc + 1]}, stop \in BOOLEAN :
       Emit(t, stop) /\ cur' = t /\ pc' = IF Ended(t, stop) THEN "done" ELSE "loop"
  /\ dkv' = IF way = "draft" THEN Rewound(dkv, Mark + 1 + acc) ELSE dkv
  /\ UNCHANGED <<question, d, acc, tkv>>

\* Mutant: the round ends without a token when its first proposal is rejected.
RejectEmitsLater ==
  /\ pc = "verify" /\ acc < Len(d)
  /\ \E t \in Drawn(Row, Hist) \ {d[acc + 1]}, stop \in BOOLEAN :
       IF acc = 0 THEN UNCHANGED <<out, cur, cancelled>> /\ pc' = "loop"
       ELSE Emit(t, stop) /\ cur' = t /\ pc' = IF Ended(t, stop) THEN "done" ELSE "loop"
  /\ tkv' = Rewound(tkv, Mark + IF acc = 0 THEN 0 ELSE 1 + acc)
  /\ dkv' = IF way = "draft" THEN Rewound(dkv, Mark + IF acc = 0 THEN 0 ELSE 1 + acc) ELSE dkv
  /\ UNCHANGED <<question, d, acc>>

\* A rejected proposal is replaced by what the target draws.
Reject ==
  /\ pc = "verify" /\ acc < Len(d)
  /\ \E t \in Drawn(Row, Hist) \ {d[acc + 1]}, stop \in BOOLEAN :
       Emit(t, stop) /\ cur' = t /\ pc' = IF Ended(t, stop) THEN "done" ELSE "loop"
  /\ tkv' = Rewound(tkv, Mark + 1 + acc)
  /\ dkv' = IF way = "draft" THEN Rewound(dkv, Mark + 1 + acc) ELSE dkv
  /\ UNCHANGED <<question, d, acc>>

\* All accepted: one more token, from the target's last row.
Bonus ==
  /\ pc = "verify" /\ acc = Len(d) /\ (way = "draft" => Fits(dkv, 1, draftContext))
  /\ \E t \in Drawn(tkv, Hist), stop \in BOOLEAN :
       Emit(t, stop) /\ cur' = t /\ pc' = IF Ended(t, stop) THEN "done" ELSE "loop"
  /\ dkv' = IF way = "draft" THEN Append(dkv, Last(d)) ELSE dkv
  /\ UNCHANGED <<question, d, acc, tkv>>

BonusFails == pc = "verify" /\ way = "draft" /\ acc = Len(d) /\ ~Fits(dkv, 1, draftContext) /\ Raise

Next ==
  \/ GenerateStart \/ Generate
  \/ Prefill \/ PrefillFails \/ Plain \/ PlainFails \/ LookupEnds \/ Lookup
  \/ Propose \/ Proposal \/ ProposalFails \/ Score
  \/ Accept \/ Reject \/ Bonus \/ BonusFails

Spec == Init /\ [][Next]_vars

\* A call that has begun runs on.
FairSpec == Spec /\ WF_vars(Next)

-----------------------------------------------------------------------------
(* What decoding promises *)

\* The tokens session::generate returns: up to Eos, max_new, or a full context.
Greedy ==
  LET n == Min({i \in 1..Context + 1 - np : i = maxNew \/ path[np + i] = Eos \/ np + i = Context + 1})
  IN SubSeq(path, np + 1, np + n)

\* The type of the state.
TypeOK ==
  /\ way \in {"generate", "draft", "lookup"} /\ path \in [1..Context + 1 -> Tokens]
  /\ np \in Prompts /\ maxNew \in MaxNews /\ k \in Ks /\ draftContext \in DraftContexts
  /\ pc \in {"start", "sample", "loop", "propose", "verify", "done", "failed"}
  /\ tkv \in Seq(Tokens) /\ Len(tkv) <= Context /\ dkv \in Seq(Tokens) /\ Len(dkv) <= draftContext
  /\ out \in Seq(Tokens) /\ Len(out) <= maxNew /\ cur \in Tokens
  /\ d \in Seq(Tokens) /\ Len(d) <= k /\ acc \in 0..Len(d) /\ cancelled \in BOOLEAN

\* Every way emits the target's own tokens, however many proposals are accepted,
\* rejected or cut off, and no token after the end.
OutIsGreedy == IsPrefix(out, Greedy)

\* "With a greedy sampler the output is identical to target greedy": a call that
\* is not cancelled returns all of it; one that raises returns nothing.
IdenticalToGreedy == pc # "failed" /\ (pc = "done" /\ ~cancelled => out = Greedy)

\* It is so when the answer has room in both sessions, and for the ways without a
\* draft model always.
HasRoom == way = "draft" => np + maxNew <= Min({Context, draftContext})
SameAsGreedy == HasRoom => IdenticalToGreedy

\* The rows of both sessions are of the tokens emitted: between rounds all but
\* the last, which is fed next, and when the call ends none of a token that was
\* proposed and not emitted ("keep state consistent with what was emitted").
RowsOf(kv) == IsPrefix(kv, Hist) /\ Len(kv) + 1 >= Len(Hist)
SessionsFollow ==
  /\ pc = "loop" => tkv = Front(Hist) /\ (way = "draft" => dkv = Front(Hist))
  /\ pc = "done" => RowsOf(tkv) /\ (way = "draft" => RowsOf(dkv))

\* The answer, and the sessions it leaves.
DecodingInv == TypeOK /\ OutIsGreedy /\ SameAsGreedy /\ SessionsFollow

\* Every round emits a token, so every call ends.
CallEnds == <>(pc \in {"done", "failed"})
=============================================================================
