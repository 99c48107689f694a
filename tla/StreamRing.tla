------------------------------ MODULE StreamRing ------------------------------
(***************************************************************************)
(* A streaming session: one thread feeds samples into a lock-free ring,    *)
(* another pumps frames of `window' samples, `hop' apart, out of it and    *)
(* drops the oldest ones when more than `lag' are pending.  Samples are    *)
(* numbered as they are accepted, so a frame shows what it was read from.  *)
(***************************************************************************)
EXTENDS Integers, FiniteSetsExt

CONSTANTS Settings,         \* records of window, hop and lag
          Slots,            \* of the ring: round_up(capacity + 1), a power of two, so
                            \* that an index is masked
          Chunks, Samples

VARIABLES o,                \* the setting
          buf, r, w,        \* the ring and its two indices
          left, accepted,   \* samples not yet fed; samples in the ring so far
          pk, pi,           \* feed: how many it copies, how many it has
          cpc, take, got,   \* pump: where it is; how many it peeks, how many it has
          frame, next,      \* the frame's buffer and number
          since,            \* history: samples published since pump looked at the lag
          outran            \* history: more was taken out of the ring than was in it

producer == <<left, accepted, pk, pi>>
consumer == <<cpc, take, got, frame, next>>
vars == <<o, buf, r, w, producer, consumer, since, outran>>

Size == (w - r) % Slots
Pending(s) == IF s < o.window THEN 0 ELSE (s - o.window) \div o.hop + 1

Init ==
  /\ o \in Settings /\ buf = [i \in 0..Slots - 1 |-> 0] /\ r = 0 /\ w = 0
  /\ left = Samples /\ accepted = 0 /\ pk = 0 /\ pi = 0
  /\ cpc = "idle" /\ take = 0 /\ got = 0 /\ frame = [i \in 1..o.window |-> 0] /\ next = 0
  /\ since = 0 /\ outran = FALSE

-----------------------------------------------------------------------------
(* The feeding thread *)

FeedWith(n, room) ==
  /\ pk = 0 /\ n <= left /\ left' = left - n
  /\ pk' = Min({n, room}) /\ pi' = 0
  /\ UNCHANGED <<o, buf, r, w, accepted, consumer, since, outran>>

\* Mutant: no slot is kept empty.
FeedFull(n) == FeedWith(n, Slots - Size)

\* What does not fit is rejected.
Feed(n) == FeedWith(n, Slots - 1 - Size)

Copy ==
  /\ pi < pk /\ pi' = pi + 1
  /\ buf' = [buf EXCEPT ![(w + pi) % Slots] = accepted + pi']
  /\ UNCHANGED <<o, r, w, left, accepted, pk, consumer, since, outran>>

Publish ==
  /\ pk > 0 /\ pi = pk /\ pk' = 0 /\ pi' = 0
  /\ w' = (w + pk) % Slots /\ accepted' = accepted + pk /\ since' = since + pk
  /\ UNCHANGED <<o, buf, r, left, consumer, outran>>

-----------------------------------------------------------------------------
(* The pumping thread *)

Behind == Max({0, Pending(Size) - o.lag})

\* The latency budget comes first.
Pump ==
  /\ cpc = "idle" /\ cpc' = "loop" /\ since' = 0
  /\ next' = next + Behind /\ r' = (r + Behind * o.hop) % Slots
  /\ outran' = (outran \/ Behind * o.hop > Size)
  /\ UNCHANGED <<o, buf, w, producer, take, got, frame>>

Look ==
  /\ cpc = "loop" /\ cpc' = IF Size >= o.window THEN "peek" ELSE "idle"
  /\ UNCHANGED <<o, buf, r, w, producer, take, got, frame, next, since, outran>>

\* peek looks at the size once more.
Peek ==
  /\ cpc = "peek" /\ cpc' = "read" /\ take' = Min({o.window, Size}) /\ got' = 0
  /\ UNCHANGED <<o, buf, r, w, producer, frame, next, since, outran>>

Read ==
  /\ cpc = "read" /\ got < take /\ got' = got + 1
  /\ frame' = [frame EXCEPT ![got'] = buf[(r + got) % Slots]]
  /\ UNCHANGED <<o, buf, r, w, producer, cpc, take, next, since, outran>>

\* The callback gets the frame and its number.
Call ==
  /\ cpc = "read" /\ got = take /\ cpc' = "call"
  /\ UNCHANGED <<o, buf, r, w, producer, take, got, frame, next, since, outran>>

Consume ==
  /\ cpc = "call" /\ cpc' = "loop" /\ next' = next + 1 /\ r' = (r + o.hop) % Slots
  /\ outran' = (outran \/ o.hop > Size)
  /\ UNCHANGED <<o, buf, w, producer, take, got, frame, since>>

Feeding == Copy \/ Publish
Pumping == Pump \/ Look \/ Peek \/ Read \/ Call \/ Consume
Next == Feeding \/ Pumping \/ \E n \in Chunks : Feed(n)

Spec == Init /\ [][Next]_vars

\* A feed that has begun runs on, and the session is pumped again and again.
FairSpec == Spec /\ WF_vars(Feeding) /\ WF_vars(Pumping)

-----------------------------------------------------------------------------
(* What the callback hears *)

\* The type of the state.
TypeOK ==
  /\ o \in Settings /\ buf \in [0..Slots - 1 -> 0..Samples] /\ {r, w} \subseteq 0..Slots - 1
  /\ {left, accepted, since} \subseteq 0..Samples /\ pi \in 0..pk /\ pk < Slots
  /\ cpc \in {"idle", "loop", "peek", "read", "call"} /\ take \in 0..o.window /\ got \in 0..take
  /\ frame \in [1..o.window -> 0..Samples] /\ next \in Nat /\ outran \in BOOLEAN

\* Frame i is the accepted samples from i * hop on.
FramesAreTheirs == cpc = "call" => frame = [i \in 1..o.window |-> next * o.hop + i]

\* It is that however the samples were fed, also when frames were dropped and the
\* feeding thread writes while it is read, until the session takes more out of the
\* ring than there is in it: consume does not look, and from then on the indices
\* are those of other samples.
FramesAreRight == ~outran => FramesAreTheirs

\* Only a session whose frames are further apart than they are long comes to that:
\* the constructor takes any window and hop above zero.
OnlyLongHopsOutrun == outran => o.hop > o.window

\* A frame is called with the lag the budget allows and what has come in since
\* pump was called (unless the ring was outrun).
LagIsBounded ==
  cpc = "call" /\ ~outran => Pending(Size) <= o.lag + (since + o.hop - 1) \div o.hop

\* Which frame is called, and when.
RingInv == TypeOK /\ FramesAreRight /\ OnlyLongHopsOutrun /\ LagIsBounded

\* "output latency stays bounded": not by what has come in since, up to a chunk.
LatencyIsBounded ==
  cpc = "call" => Pending(Size) <= o.lag + (Max(Chunks) + o.hop - 1) \div o.hop

\* Every frame that the accepted samples make up is called or dropped, if the ring
\* is not outrun.
EveryFrameComes ==
  [](left < Min(Chunks) => <>(outran \/ (pk = 0 /\ next = Pending(accepted))))
=============================================================================
