----------------------------- MODULE MindProofs -----------------------------
(***************************************************************************)
(* Proofs about FORGE mind.  The scheduler, for any number of requests, of *)
(* priorities and of active requests, with and without a budget and        *)
(* faults; the sessions a caller drives itself, for any ring, window and   *)
(* budget, and for any target, draft model, context and limit.             *)
(***************************************************************************)
EXTENDS BatchScheduler, MCMindSessions, FiniteSetTheorems, SequenceTheorems, TLAPS

-----------------------------------------------------------------------------
(* The queues and the list *)

Waiting == ToSet(waiting)
Active == ToSet(active)
Accepted == ToSet(accepted)

\* A request is in one place at a time: one of the queues, or none.
InOnePlace ==
  /\ IsInjective(accepted) /\ IsInjective(waiting) /\ IsInjective(active)
  /\ Waiting \cup Active \cup lost \subseteq Accepted
  /\ Waiting \cap Active = {} /\ lost \cap (Waiting \cup Active) = {}

\* The active requests that have not had their answer: one that has is taken off
\* the list next.
Running == IF pc \in {"retire", "crashed"} THEN Active \ {Turn} ELSE Active

\* The requests without an answer are those in the queues, and the lost ones.
AnsweredOnce ==
  \A r \in Requests : answers[r] # <<>> <=> r \in Accepted \ (lost \cup Waiting \cup Running)

\* The worker's place is in the list, and the rest of the list is still due.
WorkerInList ==
  /\ pc = "look" => at <= Len(active) + 1 /\ due \subseteq {active[i] : i \in at..Len(active)}
  /\ pc \in {"cancel", "advance", "retire", "crashed"}
       => at <= Len(active) /\ due \subseteq {active[i] : i \in at + 1..Len(active)}

\* A turn is ended as cancelled only if that was asked.
CancelledIsAsked == cancelled \subseteq asked /\ (pc = "cancel" => Turn \in asked)

\* A request that goes on has tokens left.
TokensLeft == \A r \in Requests : out[r] < MaxNew \/ (pc \in {"retire", "crashed"} /\ r = Turn)

\* The queue is in the order in which requests are admitted.
Before(s, r, q) == \/ Priority[r] > Priority[q]
                   \/ /\ Priority[r] = Priority[q]
                      /\ \A i, j \in DOMAIN s : s[i] = r /\ s[j] = q => i < j

QueueInOrder == \A i, j \in DOMAIN waiting : i < j => Before(accepted, waiting[i], waiting[j])

IInv == /\ TypeOK /\ InOnePlace /\ AnsweredOnce /\ WorkerInList /\ CancelledIsAsked
        /\ TokensLeft /\ QueueInOrder

-----------------------------------------------------------------------------
(* Sequences *)

LEMMA RemoveAtFacts ==
  ASSUME NEW S, NEW s \in Seq(S), NEW i \in 1..Len(s)
  PROVE  /\ RemoveAt(s, i) \in Seq(S) /\ Len(RemoveAt(s, i)) = Len(s) - 1
         /\ \A j \in 1..Len(s) - 1 : RemoveAt(s, i)[j] = IF j < i THEN s[j] ELSE s[j + 1]
<1> DEFINE head == SubSeq(s, 1, i - 1)
           tail == SubSeq(s, i + 1, Len(s))
<1>1. Len(s) \in Nat /\ i \in Nat /\ \A j \in 1..Len(s) : s[j] \in S
  BY LenProperties, ElementOfSeq
<1>2. /\ head \in Seq(S) /\ Len(head) = i - 1
      /\ \A j \in 1..i - 1 : head[j] = s[j]
  BY <1>1, SubSeqProperties
<1>3. /\ tail \in Seq(S) /\ Len(tail) = Len(s) - i
      /\ \A j \in 1..Len(s) - i : tail[j] = s[i + j]
  <2>1. \A j \in i + 1..Len(s) : s[j] \in S
    BY <1>1
  <2>2. /\ tail \in Seq(S) /\ Len(tail) = (IF i + 1 <= Len(s) THEN Len(s) - (i + 1) + 1 ELSE 0)
        /\ \A j \in 1..Len(s) - (i + 1) + 1 : tail[j] = s[i + 1 + j - 1]
    BY <1>1, <2>1, SubSeqProperties
  <2>3. QED
    BY <1>1, <2>2
<1>4. RemoveAt(s, i) = head \o tail
  BY DEF RemoveAt
<1> HIDE DEF head, tail
<1>5. /\ head \o tail \in Seq(S) /\ Len(head \o tail) = Len(head) + Len(tail)
      /\ \A j \in 1..Len(head) + Len(tail) : (head \o tail)[j] = IF j <= Len(head) THEN head[j] ELSE tail[j - Len(head)]
  BY <1>2, <1>3, ConcatProperties
<1> DEFINE t == head \o tail
<1>6. ASSUME NEW j \in 1..Len(s) - 1 PROVE t[j] = IF j < i THEN s[j] ELSE s[j + 1]
  <2>1. t[j] = IF j <= i - 1 THEN head[j] ELSE tail[j - (i - 1)]
    BY <1>1, <1>2, <1>3, <1>5
  <2> HIDE DEF t
  <2>2. CASE j < i
    BY <1>1, <1>2, <2>1, <2>2
  <2>3. CASE ~(j < i)
    <3>1. j - (i - 1) \in 1..Len(s) - i /\ i + (j - (i - 1)) = j + 1 /\ ~(j <= i - 1)
      BY <1>1, <2>3
    <3>2. tail[j - (i - 1)] = s[j + 1]
      BY <1>3, <3>1
    <3>3. QED
      BY <2>1, <2>3, <3>1, <3>2
  <2>4. QED
    BY <2>2, <2>3
<1>7. Len(t) = Len(s) - 1
  BY <1>1, <1>2, <1>3, <1>5
<1>8. QED
  BY <1>4, <1>5, <1>6, <1>7

LEMMA InsertAtFacts ==
  ASSUME NEW S, NEW s \in Seq(S), NEW i \in 1..Len(s) + 1, NEW e \in S
  PROVE  /\ InsertAt(s, i, e) \in Seq(S) /\ Len(InsertAt(s, i, e)) = Len(s) + 1
         /\ \A j \in 1..i - 1 : InsertAt(s, i, e)[j] = s[j]
         /\ InsertAt(s, i, e)[i] = e
         /\ \A j \in i + 1..Len(s) + 1 : InsertAt(s, i, e)[j] = s[j - 1]
<1> DEFINE head == SubSeq(s, 1, i - 1)
           tail == SubSeq(s, i, Len(s))
<1>1. Len(s) \in Nat /\ i \in Nat /\ \A j \in 1..Len(s) : s[j] \in S
  BY LenProperties, ElementOfSeq
<1>2. /\ head \in Seq(S) /\ Len(head) = i - 1
      /\ \A j \in 1..i - 1 : head[j] = s[j]
  BY <1>1, SubSeqProperties
<1>3. /\ tail \in Seq(S) /\ Len(tail) = Len(s) - i + 1
      /\ \A j \in 1..Len(s) - i + 1 : tail[j] = s[i + j - 1]
  BY <1>1, SubSeqProperties
<1>4. InsertAt(s, i, e) = head \o <<e>> \o tail
  BY DEF InsertAt
<1> HIDE DEF head, tail
<1>5. <<e>> \in Seq(S) /\ Len(<<e>>) = 1 /\ <<e>>[1] = e
  OBVIOUS
<1>6. /\ head \o <<e>> \in Seq(S) /\ Len(head \o <<e>>) = i
      /\ \A j \in 1..i : (head \o <<e>>)[j] = IF j < i THEN s[j] ELSE e
  <2>1. /\ head \o <<e>> \in Seq(S) /\ Len(head \o <<e>>) = Len(head) + Len(<<e>>)
        /\ \A j \in 1..Len(head) + Len(<<e>>) : (head \o <<e>>)[j] = IF j <= Len(head) THEN head[j] ELSE <<e>>[j - Len(head)]
    BY <1>2, <1>5, ConcatProperties
  <2>2. QED
    BY <1>1, <1>2, <1>5, <2>1
<1> DEFINE front == head \o <<e>>
<1>7. /\ front \in Seq(S) /\ Len(front) = i /\ \A j \in 1..i : front[j] = IF j < i THEN s[j] ELSE e
      /\ InsertAt(s, i, e) = front \o tail
  BY <1>4, <1>6
<1> HIDE DEF front
<1>8. /\ front \o tail \in Seq(S) /\ Len(front \o tail) = Len(front) + Len(tail)
      /\ \A j \in 1..Len(front) + Len(tail) : (front \o tail)[j] = IF j <= Len(front) THEN front[j] ELSE tail[j - Len(front)]
  BY <1>3, <1>7, ConcatProperties
<1>9. QED
  BY <1>1, <1>3, <1>7, <1>8

\* The first n elements moved from the front of one sequence to the end of another.
LEMMA MoveFacts ==
  ASSUME NEW S, NEW s \in Seq(S), NEW t \in Seq(S), NEW n \in 0..Len(s)
  PROVE  /\ t \o SubSeq(s, 1, n) \in Seq(S) /\ Len(t \o SubSeq(s, 1, n)) = Len(t) + n
         /\ \A j \in 1..Len(t) + n : (t \o SubSeq(s, 1, n))[j] = IF j <= Len(t) THEN t[j] ELSE s[j - Len(t)]
<1>1. Len(s) \in Nat /\ Len(t) \in Nat /\ n \in Nat /\ \A j \in 1..n : s[j] \in S
  BY LenProperties, ElementOfSeq
<1>2. /\ SubSeq(s, 1, n) \in Seq(S) /\ Len(SubSeq(s, 1, n)) = n
      /\ \A j \in 1..n : SubSeq(s, 1, n)[j] = s[j]
  BY <1>1, SubSeqProperties
<1> DEFINE u == SubSeq(s, 1, n)
<1> HIDE DEF u
<1>3. /\ t \o u \in Seq(S) /\ Len(t \o u) = Len(t) + Len(u)
      /\ \A j \in 1..Len(t) + Len(u) : (t \o u)[j] = IF j <= Len(t) THEN t[j] ELSE u[j - Len(t)]
  BY <1>2, ConcatProperties DEF u
<1>4. QED
  BY <1>1, <1>2, <1>3 DEF u

\* What is left of a sequence behind the first m elements.
LEMMA RestFacts ==
  ASSUME NEW S, NEW s \in Seq(S), NEW m \in 0..Len(s)
  PROVE  /\ SubSeq(s, m + 1, Len(s)) \in Seq(S) /\ Len(SubSeq(s, m + 1, Len(s))) = Len(s) - m
         /\ \A j \in 1..Len(s) - m : SubSeq(s, m + 1, Len(s))[j] = s[m + j]
<1>1. Len(s) \in Nat /\ m \in Nat /\ \A j \in m + 1..Len(s) : s[j] \in S
  BY LenProperties, ElementOfSeq
<1>2. /\ SubSeq(s, m + 1, Len(s)) \in Seq(S)
      /\ Len(SubSeq(s, m + 1, Len(s))) = (IF m + 1 <= Len(s) THEN Len(s) - (m + 1) + 1 ELSE 0)
      /\ \A j \in 1..Len(s) - (m + 1) + 1 : SubSeq(s, m + 1, Len(s))[j] = s[m + 1 + j - 1]
  BY <1>1, SubSeqProperties
<1>3. QED
  BY <1>1, <1>2

LEMMA ElementsOf ==
  ASSUME NEW S, NEW s \in Seq(S)
  PROVE  /\ DOMAIN s = 1..Len(s) /\ Len(s) \in Nat
         /\ ToSet(s) = {s[i] : i \in 1..Len(s)} /\ ToSet(s) \subseteq S
         /\ IsInjective(s) <=> \A i, j \in 1..Len(s) : s[i] = s[j] => i = j
BY LenProperties, ElementOfSeq DEF ToSet, IsInjective

LEMMA AppendSet ==
  ASSUME NEW S, NEW s \in Seq(S), NEW e \in S
  PROVE  /\ ToSet(Append(s, e)) = ToSet(s) \cup {e}
         /\ IsInjective(s) /\ e \notin ToSet(s) => IsInjective(Append(s, e))
<1>1. /\ Append(s, e) \in Seq(S) /\ Len(Append(s, e)) = Len(s) + 1
      /\ \A j \in 1..Len(s) : Append(s, e)[j] = s[j]
      /\ Append(s, e)[Len(s) + 1] = e
  BY AppendProperties
<1> DEFINE t == Append(s, e)
<1> HIDE DEF t
<1>2. ToSet(t) = {t[i] : i \in 1..Len(t)} /\ ToSet(s) = {s[i] : i \in 1..Len(s)} /\ Len(s) \in Nat
      /\ (IsInjective(t) <=> \A i, j \in 1..Len(t) : t[i] = t[j] => i = j)
      /\ (IsInjective(s) <=> \A i, j \in 1..Len(s) : s[i] = s[j] => i = j)
  BY <1>1, ElementsOf DEF t
<1>3. \A i \in 1..Len(t) : t[i] = IF i <= Len(s) THEN s[i] ELSE e
  BY <1>1, <1>2 DEF t
<1>4. Len(t) = Len(s) + 1
  BY <1>1 DEF t
<1>5. ToSet(t) = ToSet(s) \cup {e}
  <2>1. ToSet(t) \subseteq ToSet(s) \cup {e}
    BY <1>2, <1>3, <1>4
  <2>2. \A i \in 1..Len(s) : i \in 1..Len(t) /\ t[i] = s[i]
    BY <1>2, <1>3, <1>4
  <2>3. Len(s) + 1 \in 1..Len(t) /\ t[Len(s) + 1] = e
    BY <1>2, <1>3, <1>4
  <2>4. ASSUME NEW x \in ToSet(s) PROVE x \in ToSet(t)
    <3>1. PICK i \in 1..Len(s) : x = s[i]
      BY <1>2
    <3>2. i \in 1..Len(t) /\ t[i] = x
      BY <2>2, <3>1
    <3>3. QED
      BY <1>2, <3>2
  <2>5. e \in ToSet(t)
    BY <1>2, <2>3
  <2>6. QED
    BY <2>1, <2>4, <2>5
<1>6. IsInjective(s) /\ e \notin ToSet(s) => IsInjective(t)
  BY <1>2, <1>3, <1>4
<1>7. QED
  BY <1>5, <1>6 DEF t

LEMMA InsertSet ==
  ASSUME NEW S, NEW s \in Seq(S), NEW i \in 1..Len(s) + 1, NEW e \in S
  PROVE  /\ ToSet(InsertAt(s, i, e)) = ToSet(s) \cup {e}
         /\ IsInjective(s) /\ e \notin ToSet(s) => IsInjective(InsertAt(s, i, e))
<1> DEFINE t == InsertAt(s, i, e)
<1>1. /\ t \in Seq(S) /\ Len(t) = Len(s) + 1
      /\ \A j \in 1..i - 1 : t[j] = s[j]
      /\ t[i] = e
      /\ \A j \in i + 1..Len(s) + 1 : t[j] = s[j - 1]
  BY InsertAtFacts
<1> HIDE DEF t
<1>2. ToSet(t) = {t[j] : j \in 1..Len(t)} /\ ToSet(s) = {s[j] : j \in 1..Len(s)} /\ Len(s) \in Nat
      /\ (IsInjective(t) <=> \A j, k \in 1..Len(t) : t[j] = t[k] => j = k)
      /\ (IsInjective(s) <=> \A j, k \in 1..Len(s) : s[j] = s[k] => j = k)
  BY <1>1, ElementsOf
<1>3. ToSet(t) = ToSet(s) \cup {e}
  <2>1. ASSUME NEW j \in 1..Len(t) PROVE t[j] \in ToSet(s) \cup {e}
    <3>1. CASE j < i
      BY <1>1, <1>2, <3>1
    <3>2. CASE j = i
      BY <1>1, <3>2
    <3>3. CASE j > i
      <4>1. t[j] = s[j - 1] /\ j - 1 \in 1..Len(s)
        BY <1>1, <1>2, <3>3
      <4>2. QED
        BY <1>2, <4>1
    <3>4. QED
      BY <3>1, <3>2, <3>3
  <2>2. ASSUME NEW j \in 1..Len(s) PROVE \E k \in 1..Len(t) : t[k] = s[j]
    <3>1. CASE j < i
      BY <1>1, <1>2, <3>1
    <3>2. CASE j >= i
      <4>1. j + 1 \in 1..Len(t) /\ t[j + 1] = s[j]
        BY <1>1, <1>2, <3>2
      <4>2. QED
        BY <4>1
    <3>3. QED
      BY <1>2, <3>1, <3>2
  <2>3. i \in 1..Len(t) /\ t[i] = e
    BY <1>1, <1>2
  <2>4. ToSet(t) \subseteq ToSet(s) \cup {e}
    BY <1>2, <2>1
  <2>5. ToSet(s) \subseteq ToSet(t)
    BY <1>2, <2>2
  <2>6. e \in ToSet(t)
    BY <1>2, <2>3
  <2>7. QED
    BY <2>4, <2>5, <2>6
<1>4. ASSUME IsInjective(s), e \notin ToSet(s) PROVE IsInjective(t)
  <2>1. SUFFICES ASSUME NEW j \in 1..Len(t), NEW k \in 1..Len(t), t[j] = t[k] PROVE j = k
    BY <1>2
  <2> DEFINE Old(m) == IF m < i THEN m ELSE m - 1
  <2>2. ASSUME NEW m \in 1..Len(t), m # i PROVE Old(m) \in 1..Len(s) /\ t[m] = s[Old(m)] /\ t[m] # e
    <3>1. Old(m) \in 1..Len(s) /\ t[m] = s[Old(m)]
      BY <1>1, <1>2, <2>2
    <3>2. QED
      BY <1>2, <1>4, <3>1
  <2>3. t[i] = e
    BY <1>1, <1>2
  <2>4. CASE j = i \/ k = i
    BY <2>1, <2>2, <2>3, <2>4
  <2>5. CASE j # i /\ k # i
    <3>1. Old(j) \in 1..Len(s) /\ Old(k) \in 1..Len(s) /\ s[Old(j)] = s[Old(k)]
      BY <2>1, <2>2, <2>5
    <3> HIDE DEF Old
    <3>2. Old(j) = Old(k)
      BY <1>2, <1>4, <3>1
    <3> USE DEF Old
    <3>3. QED
      BY <1>2, <2>5, <3>2
  <2>6. QED
    BY <2>4, <2>5
<1>5. QED
  BY <1>3, <1>4 DEF t

LEMMA RemoveSet ==
  ASSUME NEW S, NEW s \in Seq(S), NEW i \in 1..Len(s), IsInjective(s)
  PROVE  /\ ToSet(RemoveAt(s, i)) = ToSet(s) \ {s[i]}
         /\ IsInjective(RemoveAt(s, i))
<1> DEFINE t == RemoveAt(s, i)
<1>1. /\ t \in Seq(S) /\ Len(t) = Len(s) - 1
      /\ \A j \in 1..Len(s) - 1 : t[j] = IF j < i THEN s[j] ELSE s[j + 1]
  BY RemoveAtFacts
<1> HIDE DEF t
<1>2. ToSet(t) = {t[j] : j \in 1..Len(t)} /\ ToSet(s) = {s[j] : j \in 1..Len(s)} /\ Len(s) \in Nat
      /\ (IsInjective(t) <=> \A j, k \in 1..Len(t) : t[j] = t[k] => j = k)
      /\ (\A j, k \in 1..Len(s) : s[j] = s[k] => j = k)
  BY <1>1, ElementsOf
<1> DEFINE Old(m) == IF m < i THEN m ELSE m + 1
<1>3. ASSUME NEW m \in 1..Len(t) PROVE Old(m) \in 1..Len(s) \ {i} /\ t[m] = s[Old(m)]
  BY <1>1, <1>2
<1>4. ToSet(t) = ToSet(s) \ {s[i]}
  <2>1. ASSUME NEW m \in 1..Len(t) PROVE t[m] \in ToSet(s) \ {s[i]}
    <3>1. PICK o \in 1..Len(s) : o # i /\ t[m] = s[o]
      BY <1>3
    <3>2. s[o] # s[i]
      BY <1>2, <3>1
    <3>3. QED
      BY <1>2, <3>1, <3>2
  <2>2. ASSUME NEW j \in 1..Len(s), j # i PROVE \E m \in 1..Len(t) : t[m] = s[j]
    <3>1. CASE j < i
      BY <1>1, <1>2, <3>1
    <3>2. CASE j > i
      <4>1. j - 1 \in 1..Len(t) /\ t[j - 1] = s[j]
        BY <1>1, <1>2, <3>2
      <4>2. QED
        BY <4>1
    <3>3. QED
      BY <2>2, <3>1, <3>2
  <2>3. ToSet(t) \subseteq ToSet(s) \ {s[i]}
    BY <1>2, <2>1
  <2>4. ToSet(s) \ {s[i]} \subseteq ToSet(t)
    BY <1>2, <2>2
  <2>5. QED
    BY <2>3, <2>4
<1>5. ASSUME NEW j \in 1..Len(t), NEW k \in 1..Len(t), t[j] = t[k] PROVE j = k
  <2>1. Old(j) = Old(k)
    <3>1. Old(j) \in 1..Len(s) /\ Old(k) \in 1..Len(s) /\ s[Old(j)] = s[Old(k)]
      BY <1>3, <1>5
    <3> HIDE DEF Old
    <3>2. QED
      BY <1>2, <3>1
  <2>2. QED
    BY <1>1, <1>2, <2>1
<1>6. QED
  BY <1>2, <1>4, <1>5 DEF t

\* The first n of a queue moved to the end of the other, the first m dropped from it.
LEMMA MoveSets ==
  ASSUME NEW S, NEW s \in Seq(S), NEW t \in Seq(S), NEW n \in 0..Len(s), NEW m \in 0..Len(s), n <= m,
         IsInjective(s), IsInjective(t), ToSet(s) \cap ToSet(t) = {}
  PROVE  LET front == t \o SubSeq(s, 1, n)
             rest == SubSeq(s, m + 1, Len(s)) IN
         /\ ToSet(front) = ToSet(t) \cup {s[j] : j \in 1..n} /\ IsInjective(front)
         /\ ToSet(rest) = {s[j] : j \in m + 1..Len(s)} /\ IsInjective(rest)
<1> DEFINE front == t \o SubSeq(s, 1, n)
           rest == SubSeq(s, m + 1, Len(s))
<1>1. /\ front \in Seq(S) /\ Len(front) = Len(t) + n
      /\ \A j \in 1..Len(t) + n : front[j] = IF j <= Len(t) THEN t[j] ELSE s[j - Len(t)]
  BY MoveFacts
<1>2. /\ rest \in Seq(S) /\ Len(rest) = Len(s) - m
      /\ \A j \in 1..Len(s) - m : rest[j] = s[m + j]
  BY RestFacts
<1> HIDE DEF front, rest
<1>3. /\ Len(s) \in Nat /\ ToSet(s) = {s[j] : j \in 1..Len(s)} /\ (\A j, k \in 1..Len(s) : s[j] = s[k] => j = k)
      /\ Len(t) \in Nat /\ ToSet(t) = {t[j] : j \in 1..Len(t)} /\ (\A j, k \in 1..Len(t) : t[j] = t[k] => j = k)
  BY ElementsOf
<1>4. /\ ToSet(front) = {front[j] : j \in 1..Len(front)}
      /\ (IsInjective(front) <=> \A j, k \in 1..Len(front) : front[j] = front[k] => j = k)
      /\ ToSet(rest) = {rest[j] : j \in 1..Len(rest)}
      /\ (IsInjective(rest) <=> \A j, k \in 1..Len(rest) : rest[j] = rest[k] => j = k)
  <2>1. /\ ToSet(front) = {front[j] : j \in 1..Len(front)}
        /\ (IsInjective(front) <=> \A j, k \in 1..Len(front) : front[j] = front[k] => j = k)
    BY <1>1, ElementsOf
  <2>2. rest \in Seq(S)
    BY <1>2
  <2>3. ToSet(rest) = {rest[j] : j \in 1..Len(rest)}
    BY <2>2, ElementsOf
  <2>4. IsInjective(rest) <=> \A j, k \in 1..Len(rest) : rest[j] = rest[k] => j = k
    BY <2>2, ElementsOf
  <2>5. QED
    BY <2>1, <2>3, <2>4
<1>5. ToSet(front) = ToSet(t) \cup {s[j] : j \in 1..n}
  <2>1. ASSUME NEW j \in 1..Len(front) PROVE front[j] \in ToSet(t) \cup {s[k] : k \in 1..n}
    <3>1. CASE j <= Len(t)
      BY <1>1, <1>3, <3>1
    <3>2. CASE j > Len(t)
      <4>1. front[j] = s[j - Len(t)] /\ j - Len(t) \in 1..n
        BY <1>1, <1>3, <3>2
      <4>2. QED
        BY <4>1
    <3>3. QED
      BY <1>3, <3>1, <3>2
  <2>2. ASSUME NEW j \in 1..Len(t) PROVE \E k \in 1..Len(front) : front[k] = t[j]
    BY <1>1, <1>3
  <2>3. ASSUME NEW j \in 1..n PROVE \E k \in 1..Len(front) : front[k] = s[j]
    <3>1. Len(t) + j \in 1..Len(t) + n /\ ~(Len(t) + j <= Len(t)) /\ Len(t) + j - Len(t) = j
      BY <1>1, <1>3
    <3>2. front[Len(t) + j] = s[j]
      BY <1>1, <3>1
    <3>3. QED
      BY <1>1, <3>1, <3>2
  <2>0. /\ ToSet(front) = {front[k] : k \in 1..Len(front)}
        /\ ToSet(t) = {t[k] : k \in 1..Len(t)}
    BY <1>3, <1>4
  <2>4. ToSet(front) \subseteq ToSet(t) \cup {s[k] : k \in 1..n}
    BY <2>0, <2>1
  <2>5. ToSet(t) \subseteq ToSet(front)
    BY <2>0, <2>2
  <2>6. {s[k] : k \in 1..n} \subseteq ToSet(front)
    BY <2>0, <2>3
  <2>7. QED
    BY <2>4, <2>5, <2>6
<1>6. ASSUME NEW j \in 1..Len(front), NEW k \in 1..Len(front), front[j] = front[k] PROVE j = k
  <2>1. CASE j <= Len(t) /\ k <= Len(t)
    BY <1>1, <1>3, <1>6, <2>1
  <2>2. CASE j > Len(t) /\ k > Len(t)
    <3>1. j - Len(t) \in 1..Len(s) /\ k - Len(t) \in 1..Len(s) /\ s[j - Len(t)] = s[k - Len(t)]
      BY <1>1, <1>3, <1>6, <2>2
    <3>2. j - Len(t) = k - Len(t)
      BY <1>3, <3>1
    <3>3. QED
      BY <1>1, <1>3, <3>2
  <2>3. CASE j <= Len(t) /\ k > Len(t)
    <3>1. front[j] \in ToSet(t) /\ front[k] = s[k - Len(t)] /\ k - Len(t) \in 1..Len(s)
      BY <1>1, <1>3, <2>3
    <3>2. s[k - Len(t)] \in ToSet(s)
      BY <1>3, <3>1
    <3>3. QED
      BY <1>6, <3>1, <3>2
  <2>4. CASE j > Len(t) /\ k <= Len(t)
    <3>1. front[k] \in ToSet(t) /\ front[j] = s[j - Len(t)] /\ j - Len(t) \in 1..Len(s)
      BY <1>1, <1>3, <2>4
    <3>2. s[j - Len(t)] \in ToSet(s)
      BY <1>3, <3>1
    <3>3. QED
      BY <1>6, <3>1, <3>2
  <2>5. QED
    BY <1>1, <1>3, <2>1, <2>2, <2>3, <2>4
<1>7. ToSet(rest) = {s[j] : j \in m + 1..Len(s)}
  <2>1. ASSUME NEW j \in 1..Len(rest) PROVE m + j \in m + 1..Len(s) /\ rest[j] = s[m + j]
    BY <1>2, <1>3
  <2>2. ASSUME NEW j \in m + 1..Len(s) PROVE j - m \in 1..Len(rest) /\ rest[j - m] = s[j]
    BY <1>2, <1>3
  <2>0. ToSet(rest) = {rest[k] : k \in 1..Len(rest)}
    BY <1>4
  <2>3. ToSet(rest) \subseteq {s[j] : j \in m + 1..Len(s)}
    BY <2>0, <2>1
  <2>4. {s[j] : j \in m + 1..Len(s)} \subseteq ToSet(rest)
    <3>1. ASSUME NEW j \in m + 1..Len(s) PROVE s[j] \in ToSet(rest)
      <4>1. j - m \in 1..Len(rest) /\ rest[j - m] = s[j]
        BY <2>2
      <4>2. QED
        BY <2>0, <4>1
    <3>2. QED
      BY <3>1
  <2>5. QED
    BY <2>3, <2>4
<1>8. IsInjective(rest)
  <2>1. ASSUME NEW j \in 1..Len(rest), NEW k \in 1..Len(rest), rest[j] = rest[k] PROVE j = k
    <3>1. m + j \in 1..Len(s) /\ m + k \in 1..Len(s) /\ s[m + j] = s[m + k]
      BY <1>2, <1>3, <2>1
    <3>2. m + j = m + k
      BY <1>3, <3>1
    <3>3. QED
      BY <1>2, <1>3, <3>2
  <2>2. QED
    BY <1>4, <2>1
<1>9. QED
  BY <1>4, <1>5, <1>6, <1>7, <1>8 DEF front, rest

\* What CHOOSE picks of a set of places: the least one.
LEMMA LeastOf ==
  ASSUME NEW S \in SUBSET Nat, S # {}
  PROVE  LET m == CHOOSE i \in S : \A j \in S : i <= j IN m \in S /\ \A j \in S : m <= j
<1> DEFINE R == OpToRel(<, Nat)
<1>1. R = {ss \in Nat \X Nat : ss[1] < ss[2]}
  BY DEF OpToRel
<1>2. \E x \in S : \A y \in S : ~ (<<y, x>> \in R)
  BY NatLessThanWellFounded, WFMin
<1> HIDE DEF R
<1>3. PICK x \in S : \A y \in S : ~ (<<y, x>> \in R)
  BY <1>2
<1>4. ASSUME NEW y \in S PROVE x <= y
  <2>1. <<y, x>> \in Nat \X Nat
    OBVIOUS
  <2>2. ~(y < x)
    BY <1>1, <1>3, <2>1
  <2>3. QED
    BY <2>2
<1>5. QED
  BY <1>3, <1>4

-----------------------------------------------------------------------------
(* The invariant *)

LEMMA InitInv == Init => IInv
<1> SUFFICES ASSUME Init PROVE IInv
  OBVIOUS
<1>1. /\ <<>> \in Seq(Requests) /\ Len(<<>>) = 0 /\ ToSet(<<>>) = {} /\ IsInjective(<<>>)
      /\ <<>> \in Seq(Reasons)
  BY DEF ToSet, IsInjective
<1>2. TypeOK
  <2>1. waiting \in Seq(Requests) /\ active \in Seq(Requests) /\ accepted \in Seq(Requests) /\ Len(active) = 0
    BY <1>1 DEF Init
  <2>2. 0 \in 0..Prefill /\ 0 \in 0..MaxNew /\ 1 \in 1..MaxActive + 1 /\ 0 <= MaxActive
    BY BatchAssumption
  <2>3. answers \in [Requests -> Seq(Reasons)]
    BY <1>1 DEF Init
  <2>4. fed \in [Requests -> 0..Prefill] /\ out \in [Requests -> 0..MaxNew]
    BY <2>2 DEF Init
  <2>5. QED
    BY <2>1, <2>2, <2>3, <2>4 DEF Init, TypeOK
<1>3. InOnePlace
  BY <1>1 DEF Init, InOnePlace, Waiting, Active, Accepted
<1>4. AnsweredOnce
  BY <1>1 DEF Init, AnsweredOnce, Accepted
<1>5. WorkerInList /\ CancelledIsAsked /\ QueueInOrder
  BY <1>1 DEF Init, WorkerInList, CancelledIsAsked, QueueInOrder
<1>6. TokensLeft
  BY BatchAssumption DEF Init, TokensLeft
<1>7. QED
  BY <1>2, <1>3, <1>4, <1>5, <1>6 DEF IInv

\* The queues and their elements.
LEMMA QueueFacts ==
  ASSUME TypeOK
  PROVE  /\ DOMAIN waiting = 1..Len(waiting) /\ Len(waiting) \in Nat
         /\ Waiting = {waiting[i] : i \in 1..Len(waiting)} /\ Waiting \subseteq Requests
         /\ DOMAIN active = 1..Len(active) /\ Len(active) \in Nat
         /\ Active = {active[i] : i \in 1..Len(active)} /\ Active \subseteq Requests
         /\ DOMAIN accepted = 1..Len(accepted) /\ Len(accepted) \in Nat
         /\ Accepted = {accepted[i] : i \in 1..Len(accepted)} /\ Accepted \subseteq Requests
BY ElementsOf DEF TypeOK, Waiting, Active, Accepted

\* A step that leaves the queues alone.
LEMMA SameQueues ==
  ASSUME IInv, UNCHANGED <<waiting, active, accepted, lost>>
  PROVE  InOnePlace' /\ QueueInOrder'
BY DEF IInv, InOnePlace, QueueInOrder, Before, Waiting, Active, Accepted

LEMMA LeaveAndStopInv ==
  ASSUME IInv, Stop \/ \E r \in Requests : Leave(r)
  PROVE  IInv'
<1>1. UNCHANGED <<waiting, active, cancelled, fed, out, answers, accepted, asked, pc, at, due, lost>>
  BY DEF Leave, Stop
<1>2. left' \subseteq Requests /\ quit' \in BOOLEAN
  BY Zenon DEF IInv, TypeOK, Leave, Stop
<1>3. TypeOK'
  BY <1>1, <1>2 DEF IInv, TypeOK
<1>4. AnsweredOnce' /\ WorkerInList' /\ CancelledIsAsked' /\ TokensLeft'
  BY <1>1 DEF IInv, AnsweredOnce, WorkerInList, CancelledIsAsked, TokensLeft, Waiting, Active, Accepted,
              Running, Turn
<1>5. QED
  BY <1>1, <1>3, <1>4, SameQueues DEF IInv

LEMMA CancelCrashesInv == ASSUME IInv, NEW r \in Requests, CancelCrashes(r) PROVE IInv'
<1>1. /\ pc = "retire" /\ pc' = "crashed"
      /\ UNCHANGED <<waiting, active, cancelled, fed, out, answers, accepted, left, asked, at, due, quit, lost>>
  BY DEF CancelCrashes
<1>2. TypeOK'
  BY <1>1 DEF IInv, TypeOK
<1>3. AnsweredOnce' /\ WorkerInList' /\ CancelledIsAsked' /\ TokensLeft'
  BY <1>1 DEF IInv, AnsweredOnce, WorkerInList, CancelledIsAsked, TokensLeft, Waiting, Active, Accepted,
              Running, Turn
<1>4. QED
  BY <1>1, <1>2, <1>3, SameQueues DEF IInv

\* The requests behind the place of a new one have a lower priority, those before
\* it have not.
LEMMA PlaceFacts ==
  ASSUME IInv, NEW r \in Requests
  PROVE  /\ Place(r) \in 1..Len(waiting) + 1
         /\ \A i \in 1..Len(waiting) : IF i < Place(r) THEN Priority[waiting[i]] >= Priority[r]
                                                       ELSE Priority[waiting[i]] < Priority[r]
<1> DEFINE lower == {i \in DOMAIN waiting : Priority[waiting[i]] < Priority[r]}
<1>1. /\ DOMAIN waiting = 1..Len(waiting) /\ Len(waiting) \in Nat
      /\ \A i \in 1..Len(waiting) : waiting[i] \in Requests
      /\ \A q \in Requests : Priority[q] \in Nat
  BY QueueFacts, BatchAssumption DEF IInv
<1>2. CASE lower = {}
  <2>1. Place(r) = Len(waiting) + 1
    BY <1>2 DEF Place
  <2>2. QED
    BY <1>1, <1>2, <2>1
<1>3. CASE lower # {}
  <2>1. lower \in SUBSET Nat
    BY <1>1
  <2>2. Place(r) = CHOOSE i \in lower : \A j \in lower : i <= j
    BY <1>3 DEF Place
  <2>3. Place(r) \in lower /\ \A j \in lower : Place(r) <= j
    BY <1>3, <2>1, <2>2, LeastOf
  <2>4. ASSUME NEW i \in 1..Len(waiting), i < Place(r) PROVE Priority[waiting[i]] >= Priority[r]
    BY <1>1, <2>3, <2>4
  <2>5. ASSUME NEW i \in 1..Len(waiting), ~(i < Place(r)) PROVE Priority[waiting[i]] < Priority[r]
    <3>1. i = Place(r) \/ Place(r) < i
      BY <1>1, <2>3, <2>5
    <3>2. CASE Place(r) < i
      <4>1. Priority[waiting[Place(r)]] >= Priority[waiting[i]]
        BY <1>1, <2>3, <3>2 DEF IInv, QueueInOrder, Before
      <4>2. QED
        BY <1>1, <2>3, <4>1
    <3>3. QED
      BY <2>3, <3>1, <3>2
  <2>6. QED
    BY <1>1, <2>3, <2>4, <2>5
<1>4. QED
  BY <1>2, <1>3

\* Of two requests accepted before, a new one changes nothing; it comes behind all
\* of no lower priority.
LEMMA BeforeNew ==
  ASSUME NEW s \in Seq(Requests), NEW r \in Requests, r \notin ToSet(s)
  PROVE  /\ \A p, q \in ToSet(s) : Before(s, p, q) => Before(Append(s, r), p, q)
         /\ \A q \in ToSet(s) : IF Priority[q] >= Priority[r] THEN Before(Append(s, r), q, r)
                                                             ELSE Before(Append(s, r), r, q)
<1> DEFINE t == Append(s, r)
<1>1. /\ t \in Seq(Requests) /\ Len(t) = Len(s) + 1
      /\ \A j \in 1..Len(s) : t[j] = s[j]
      /\ t[Len(s) + 1] = r
  BY AppendProperties
<1> HIDE DEF t
<1>2. /\ Len(s) \in Nat /\ DOMAIN s = 1..Len(s) /\ ToSet(s) = {s[i] : i \in 1..Len(s)} /\ ToSet(s) \subseteq Requests
      /\ DOMAIN t = 1..Len(s) + 1
  BY <1>1, ElementsOf
<1>3. ASSUME NEW k \in DOMAIN t, t[k] # r PROVE k \in DOMAIN s /\ s[k] = t[k]
  BY <1>1, <1>2, <1>3
<1>4. ASSUME NEW p \in ToSet(s), NEW q \in ToSet(s), Before(s, p, q) PROVE Before(t, p, q)
  <2>1. p # r /\ q # r
    OBVIOUS
  <2>2. \A k, l \in DOMAIN t : t[k] = p /\ t[l] = q => k \in DOMAIN s /\ l \in DOMAIN s /\ s[k] = p /\ s[l] = q
    BY <1>3, <2>1
  <2>3. QED
    BY <1>4, <2>2 DEF Before
<1>5. \A q \in Requests : Priority[q] \in Nat
  BY BatchAssumption
<1>6. ASSUME NEW q \in ToSet(s), Priority[q] >= Priority[r] PROVE Before(t, q, r)
  <2>1. ASSUME NEW k \in DOMAIN t, NEW l \in DOMAIN t, t[k] = q, t[l] = r PROVE k < l
    <3>1. k \in 1..Len(s)
      BY <1>2, <1>3, <2>1
    <3>2. l \notin 1..Len(s)
      BY <1>1, <1>2, <2>1
    <3>3. QED
      BY <1>2, <2>1, <3>1, <3>2
  <2>2. QED
    BY <1>2, <1>5, <1>6, <2>1 DEF Before
<1>7. ASSUME NEW q \in ToSet(s), ~(Priority[q] >= Priority[r]) PROVE Before(t, r, q)
  BY <1>2, <1>5, <1>7 DEF Before
<1>8. QED
  BY <1>4, <1>6, <1>7 DEF t

LEMMA SubmitInv ==
  ASSUME IInv, NEW r \in Requests, Submit(r)
  PROVE  IInv'
<1> DEFINE n == Place(r)
<1>1. /\ accepted \in Seq(Requests) /\ waiting \in Seq(Requests) /\ active \in Seq(Requests) /\ r \notin Accepted
      /\ accepted' = Append(accepted, r) /\ waiting' = InsertAt(waiting, n, r)
      /\ UNCHANGED <<active, cancelled, fed, out, answers, left, asked, pc, at, due, quit, lost>>
  BY DEF IInv, TypeOK, Submit, Accepted
<1>2. /\ n \in 1..Len(waiting) + 1
      /\ \A i \in 1..Len(waiting) : IF i < n THEN Priority[waiting[i]] >= Priority[r]
                                             ELSE Priority[waiting[i]] < Priority[r]
  BY PlaceFacts
<1> HIDE DEF n
<1>3. accepted' \in Seq(Requests)
  BY <1>1, AppendProperties
<1>4. /\ waiting' \in Seq(Requests) /\ Len(waiting') = Len(waiting) + 1
      /\ \A j \in 1..n - 1 : waiting'[j] = waiting[j]
      /\ waiting'[n] = r
      /\ \A j \in n + 1..Len(waiting) + 1 : waiting'[j] = waiting[j - 1]
  <2> DEFINE w == waiting
             t == InsertAt(w, n, r)
  <2>1. w \in Seq(Requests) /\ n \in 1..Len(w) + 1 /\ waiting' = t
    BY <1>1, <1>2
  <2> HIDE DEF w
  <2>2. /\ t \in Seq(Requests) /\ Len(t) = Len(w) + 1
        /\ \A j \in 1..n - 1 : t[j] = w[j]
        /\ t[n] = r
        /\ \A j \in n + 1..Len(w) + 1 : t[j] = w[j - 1]
    <3>1. w \in Seq(Requests) /\ n \in 1..Len(w) + 1
      BY <2>1
    <3>2. t \in Seq(Requests) /\ Len(t) = Len(w) + 1
      BY <3>1, InsertAtFacts
    <3>3. \A j \in 1..n - 1 : t[j] = w[j]
      BY <3>1, InsertAtFacts
    <3>4. t[n] = r
      BY <3>1, InsertAtFacts
    <3>5. ASSUME NEW j \in n + 1..Len(w) + 1 PROVE t[j] = w[j - 1]
      BY <3>1, InsertAtFacts
    <3>6. QED
      BY <3>2, <3>3, <3>4, <3>5
  <2> HIDE DEF t
  <2>3. w = waiting
    BY DEF w
  <2>4. /\ waiting' \in Seq(Requests) /\ Len(waiting') = Len(w) + 1
        /\ \A j \in 1..n - 1 : waiting'[j] = w[j]
        /\ waiting'[n] = r
        /\ \A j \in n + 1..Len(w) + 1 : waiting'[j] = w[j - 1]
    BY <2>1, <2>2
  <2>5. QED
    BY <2>3, <2>4
<1>5. TypeOK'
  BY <1>1, <1>3, <1>4 DEF IInv, TypeOK
<1>6. r \notin Waiting \cup Active \cup lost
  BY <1>1 DEF IInv, InOnePlace
<1>7. Accepted' = Accepted \cup {r} /\ IsInjective(accepted')
  BY <1>1, AppendSet DEF IInv, InOnePlace, Accepted
<1>8. Waiting' = Waiting \cup {r} /\ IsInjective(waiting')
  BY <1>1, <1>2, <1>6, InsertSet DEF IInv, InOnePlace, Waiting
<1>9. Active' = Active /\ Running' = Running
  BY <1>1 DEF Active, Running, Turn
<1>10. InOnePlace'
  BY <1>1, <1>6, <1>7, <1>8, <1>9 DEF IInv, InOnePlace
<1>11. AnsweredOnce'
  BY <1>1, <1>7, <1>8, <1>9 DEF IInv, AnsweredOnce
<1>12. WorkerInList' /\ CancelledIsAsked' /\ TokensLeft'
  BY <1>1 DEF IInv, WorkerInList, CancelledIsAsked, TokensLeft, Turn
<1>13. QueueInOrder'
  <2>1. /\ Len(waiting) \in Nat /\ DOMAIN waiting = 1..Len(waiting)
        /\ Waiting = {waiting[i] : i \in 1..Len(waiting)} /\ Waiting \subseteq Accepted
    BY QueueFacts DEF IInv, InOnePlace
  <2>2. DOMAIN waiting' = 1..Len(waiting) + 1
    BY <1>4, ElementsOf
  <2>3. /\ \A p, q \in Accepted : Before(accepted, p, q) => Before(accepted', p, q)
        /\ \A q \in Accepted : IF Priority[q] >= Priority[r] THEN Before(accepted', q, r)
                                                              ELSE Before(accepted', r, q)
    BY <1>1, BeforeNew DEF Accepted
  <2>4. SUFFICES ASSUME NEW i \in 1..Len(waiting) + 1, NEW j \in 1..Len(waiting) + 1, i < j
                 PROVE  Before(accepted', waiting'[i], waiting'[j])
    BY <2>2 DEF QueueInOrder
  <2>5. CASE i = n
    <3>1. waiting'[i] = r /\ waiting'[j] = waiting[j - 1] /\ j - 1 \in 1..Len(waiting) /\ ~(j - 1 < n)
      BY <1>2, <1>4, <2>1, <2>4, <2>5
    <3>2. Priority[waiting[j - 1]] < Priority[r] /\ waiting[j - 1] \in Accepted
      BY <1>2, <2>1, <3>1
    <3>3. ~(Priority[waiting[j - 1]] >= Priority[r])
      BY <3>2, BatchAssumption, QueueFacts DEF IInv
    <3>4. QED
      BY <2>3, <3>1, <3>2, <3>3
  <2>6. CASE j = n
    <3>1. waiting'[j] = r /\ waiting'[i] = waiting[i] /\ i \in 1..Len(waiting) /\ i < n
      BY <1>2, <1>4, <2>1, <2>4, <2>6
    <3>2. Priority[waiting[i]] >= Priority[r] /\ waiting[i] \in Accepted
      BY <1>2, <2>1, <3>1
    <3>3. QED
      BY <2>3, <3>1, <3>2
  <2>7. CASE i # n /\ j # n
    <3> DEFINE Old(m) == IF m < n THEN m ELSE m - 1
    <3>1. ASSUME NEW m \in 1..Len(waiting) + 1, m # n
          PROVE  Old(m) \in 1..Len(waiting) /\ waiting'[m] = waiting[Old(m)]
      BY <1>2, <1>4, <2>1, <3>1
    <3>2. Old(i) < Old(j)
      BY <1>2, <2>1, <2>4, <2>7
    <3>3. /\ waiting'[i] = waiting[Old(i)] /\ waiting'[j] = waiting[Old(j)]
          /\ Old(i) \in 1..Len(waiting) /\ Old(j) \in 1..Len(waiting)
      BY <2>7, <3>1
    <3> HIDE DEF Old
    <3>4. waiting[Old(i)] \in Accepted /\ waiting[Old(j)] \in Accepted
      BY <2>1, <3>3
    <3>5. Before(accepted, waiting[Old(i)], waiting[Old(j)])
      BY <2>1, <3>2, <3>3 DEF IInv, QueueInOrder
    <3>6. QED
      BY <2>3, <3>3, <3>4, <3>5
  <2>8. QED
    BY <2>5, <2>6, <2>7
<1>14. QED
  BY <1>5, <1>10, <1>11, <1>12, <1>13 DEF IInv

\* A queue some requests were taken off is in order as before.
LEMMA ThinnedInOrder ==
  ASSUME IInv, UNCHANGED accepted, waiting' \in Seq(Requests),
         \A i, j \in 1..Len(waiting') : i < j =>
           \E k, l \in 1..Len(waiting) : k < l /\ waiting'[i] = waiting[k] /\ waiting'[j] = waiting[l]
  PROVE  QueueInOrder'
<1>1. DOMAIN waiting' = 1..Len(waiting') /\ DOMAIN waiting = 1..Len(waiting)
  BY ElementsOf, QueueFacts DEF IInv
<1>2. QED
  BY <1>1 DEF IInv, QueueInOrder

LEMMA CancelInv ==
  ASSUME IInv, NEW r \in Requests, Cancel(r)
  PROVE  IInv'
<1>1. /\ UNCHANGED <<active, fed, out, accepted, left, pc, at, due, quit, lost>> /\ asked' = asked \cup {r}
      /\ waiting \in Seq(Requests) /\ active \in Seq(Requests) /\ answers \in [Requests -> Seq(Reasons)]
  BY DEF IInv, TypeOK, Cancel
<1>2. Active' = Active /\ Accepted' = Accepted /\ Running' = Running
  BY <1>1 DEF Active, Accepted, Running, Turn
<1>3. CASE r \in Waiting
  <2>1. /\ waiting' = RemoveAt(waiting, PlaceOf(r)) /\ answers' = [answers EXCEPT ![r] = Append(@, "cancelled")]
        /\ UNCHANGED cancelled
    BY <1>3 DEF Cancel, Answer, Waiting
  <2>2. PlaceOf(r) \in 1..Len(waiting) /\ waiting[PlaceOf(r)] = r
    <3>1. \E i \in DOMAIN waiting : waiting[i] = r
      BY <1>3, QueueFacts DEF IInv
    <3>2. QED
      BY <3>1, QueueFacts DEF PlaceOf, IInv
  <2> DEFINE n == PlaceOf(r)
  <2> HIDE DEF n
  <2>3. /\ waiting' \in Seq(Requests) /\ Len(waiting') = Len(waiting) - 1
        /\ \A j \in 1..Len(waiting) - 1 : waiting'[j] = IF j < n THEN waiting[j] ELSE waiting[j + 1]
    BY <1>1, <2>1, <2>2, RemoveAtFacts DEF n
  <2>4. Waiting' = Waiting \ {r} /\ IsInjective(waiting')
    BY <1>1, <2>1, <2>2, RemoveSet DEF IInv, InOnePlace, Waiting
  <2>5. /\ answers' \in [Requests -> Seq(Reasons)] /\ answers'[r] # <<>>
        /\ \A q \in Requests \ {r} : answers'[q] = answers[q]
    <3>1. "cancelled" \in Reasons /\ answers[r] \in Seq(Reasons)
      BY <1>1 DEF Reasons
    <3>2. Append(answers[r], "cancelled") \in Seq(Reasons) /\ Append(answers[r], "cancelled") # <<>>
      BY <3>1, AppendProperties
    <3>3. QED
      BY <1>1, <2>1, <3>2
  <2>6. TypeOK'
    BY <1>1, <2>1, <2>3, <2>5 DEF IInv, TypeOK
  <2>7. InOnePlace'
    BY <1>1, <1>2, <2>4 DEF IInv, InOnePlace
  <2>8. AnsweredOnce'
    <3>1. r \in Accepted /\ r \notin lost /\ r \notin Running
      BY <1>3 DEF IInv, InOnePlace, Running
    <3>2. QED
      BY <1>1, <1>2, <2>4, <2>5, <3>1 DEF IInv, AnsweredOnce
  <2>9. WorkerInList' /\ CancelledIsAsked' /\ TokensLeft'
    BY <1>1, <2>1 DEF IInv, WorkerInList, CancelledIsAsked, TokensLeft, Turn
  <2>10. QueueInOrder'
    <3>1. Len(waiting) \in Nat /\ n \in 1..Len(waiting)
      BY <2>2, QueueFacts DEF IInv, n
    <3> DEFINE Old(m) == IF m < n THEN m ELSE m + 1
    <3>2. ASSUME NEW m \in 1..Len(waiting') PROVE Old(m) \in 1..Len(waiting) /\ waiting'[m] = waiting[Old(m)]
      BY <2>3, <3>1
    <3>3. \A i, j \in 1..Len(waiting') : i < j => Old(i) < Old(j)
      BY <2>3, <3>1
    <3> HIDE DEF Old
    <3>4. QED
      BY <1>1, <2>3, <3>2, <3>3, ThinnedInOrder
  <2>11. QED
    BY <2>6, <2>7, <2>8, <2>9, <2>10 DEF IInv
<1>4. CASE r \notin Waiting
  <2>1. UNCHANGED <<waiting, answers>> /\ cancelled' = cancelled \cup ({r} \cap Active)
    BY <1>4 DEF Cancel, Waiting, Active
  <2>2. TypeOK'
    BY <1>1, <2>1 DEF IInv, TypeOK
  <2>3. AnsweredOnce'
    BY <1>1, <1>2, <2>1 DEF IInv, AnsweredOnce, Waiting
  <2>4. WorkerInList' /\ CancelledIsAsked' /\ TokensLeft'
    BY <1>1, <2>1 DEF IInv, WorkerInList, CancelledIsAsked, TokensLeft, Turn
  <2>5. QED
    BY <1>1, <2>1, <2>2, <2>3, <2>4, SameQueues DEF IInv
<1>5. QED
  BY <1>3, <1>4

\* The request whose turn it is, and what the types say of the worker's place.
LEMMA TurnFacts ==
  ASSUME IInv, pc \in {"cancel", "advance", "retire"}
  PROVE  /\ at \in 1..Len(active) /\ Turn \in Active /\ Turn \in Requests
         /\ Turn \in Accepted /\ Turn \notin Waiting /\ Turn \notin lost
         /\ Len(active) \in Nat /\ Len(active) <= MaxActive
<1>1. at \in 1..Len(active) /\ Len(active) \in Nat /\ Len(active) <= MaxActive
  BY QueueFacts, BatchAssumption DEF IInv, TypeOK, WorkerInList
<1>2. Turn \in Active
  BY <1>1, QueueFacts DEF IInv, Turn
<1>3. QED
  BY <1>1, <1>2, QueueFacts DEF IInv, InOnePlace

\* A turn that ends: its request has an answer and is no longer running.
LEMMA TurnEnds ==
  ASSUME IInv, pc \in {"cancel", "advance"}, NEW why \in Reasons, Finish(why),
         UNCHANGED <<waiting, active, accepted, lost>>
  PROVE  answers' \in [Requests -> Seq(Reasons)] /\ AnsweredOnce' /\ pc' = "retire" /\ at' = at
<1>1. pc' = "retire" /\ at' = at /\ answers' = [answers EXCEPT ![Turn] = Append(@, why)]
  BY DEF Finish, Answer, Goto
<1>2. Turn \in Requests /\ Turn \in Active /\ Turn \in Accepted /\ Turn \notin Waiting /\ Turn \notin lost
  BY TurnFacts
<1>3. answers \in [Requests -> Seq(Reasons)]
  BY DEF IInv, TypeOK
<1>4. Append(answers[Turn], why) \in Seq(Reasons) /\ Append(answers[Turn], why) # <<>>
  BY <1>2, <1>3, AppendProperties
<1>5. /\ answers' \in [Requests -> Seq(Reasons)] /\ answers'[Turn] # <<>>
      /\ \A q \in Requests \ {Turn} : answers'[q] = answers[q]
  BY <1>1, <1>2, <1>3, <1>4
<1>6. /\ Waiting' = Waiting /\ Accepted' = Accepted /\ Active' = Active /\ Turn' = Turn
      /\ Running = Active /\ Running' = Active \ {Turn}
  BY <1>1 DEF Waiting, Accepted, Active, Running, Turn
<1>7. AnsweredOnce'
  BY <1>2, <1>5, <1>6 DEF IInv, AnsweredOnce
<1>8. QED
  BY <1>1, <1>5, <1>7

\* A step that answers nobody, between places where all active requests run.
LEMMA NobodyAnswered ==
  ASSUME IInv, UNCHANGED <<waiting, active, accepted, lost, answers>>,
         pc \notin {"retire", "crashed"}, pc' \notin {"retire", "crashed"}
  PROVE  AnsweredOnce'
BY DEF IInv, AnsweredOnce, Waiting, Active, Accepted, Running

LEMMA WakeInv == IInv /\ Wake => IInv'
<1> SUFFICES ASSUME IInv, Wake PROVE IInv'
  OBVIOUS
<1>1. /\ pc = "wait" /\ pc' \in {"over", "step"}
      /\ UNCHANGED <<waiting, active, cancelled, fed, out, answers, accepted, left, asked, at, due, quit, lost>>
  BY Zenon DEF Wake, Goto, clients
<1>2. TypeOK'
  BY <1>1 DEF IInv, TypeOK
<1>3. WorkerInList' /\ CancelledIsAsked' /\ TokensLeft'
  BY <1>1 DEF IInv, WorkerInList, CancelledIsAsked, TokensLeft
<1>4. QED
  BY <1>1, <1>2, <1>3, SameQueues, NobodyAnswered DEF IInv

LEMMA LookInv == IInv /\ Look => IInv'
<1> SUFFICES ASSUME IInv, Look PROVE IInv'
  OBVIOUS
<1>1. /\ pc = "look" /\ UNCHANGED <<waiting, active, cancelled, fed, out, answers, accepted, left, asked, quit, lost>>
      /\ at \in 1..MaxActive + 1 /\ Len(active) \in Nat /\ at <= Len(active) + 1
      /\ due \subseteq {active[i] : i \in at..Len(active)}
  BY QueueFacts DEF Look, clients, IInv, TypeOK, WorkerInList
<1>2. CASE at > Len(active)
  <2>1. pc' = "wait" /\ at' = 1 /\ due' = due
    BY <1>2 DEF Look, Goto
  <2>2. TypeOK'
    BY <1>1, <2>1, BatchAssumption DEF IInv, TypeOK
  <2>3. WorkerInList' /\ CancelledIsAsked' /\ TokensLeft'
    BY <1>1, <2>1 DEF IInv, WorkerInList, CancelledIsAsked, TokensLeft
  <2>4. QED
    BY <1>1, <2>1, <2>2, <2>3, SameQueues, NobodyAnswered DEF IInv
<1>3. CASE at <= Len(active)
  <2>1. /\ pc' \in {"cancel", "advance"} /\ (pc' = "cancel" => active[at] \in cancelled)
        /\ at' = at /\ due' = due \ {active[at]}
    <3>1. ~(at > Len(active))
      BY <1>1, <1>3
    <3>2. QED
      BY <3>1 DEF Look, Goto
  <2>2. TypeOK'
    BY <1>1, <2>1 DEF IInv, TypeOK
  <2>3. WorkerInList'
    <3>1. \A i \in at..Len(active) : i = at \/ i \in at + 1..Len(active)
      BY <1>1
    <3>2. due' \subseteq {active[i] : i \in at + 1..Len(active)}
      BY <1>1, <2>1, <3>1
    <3>3. QED
      BY <1>1, <1>3, <2>1, <3>2 DEF WorkerInList
  <2>4. CancelledIsAsked' /\ TokensLeft'
    BY <1>1, <2>1 DEF IInv, CancelledIsAsked, TokensLeft, Turn
  <2>5. QED
    BY <1>1, <2>1, <2>2, <2>3, <2>4, SameQueues, NobodyAnswered DEF IInv
<1>4. QED
  BY <1>1, <1>2, <1>3

LEMMA FinishCancelledInv == IInv /\ FinishCancelled => IInv'
<1> SUFFICES ASSUME IInv, FinishCancelled PROVE IInv'
  OBVIOUS
<1>1. /\ pc = "cancel" /\ Finish("cancelled") /\ "cancelled" \in Reasons
      /\ UNCHANGED <<waiting, active, cancelled, fed, out, accepted, left, asked, quit, lost, due>>
  BY DEF FinishCancelled, clients, Reasons
<1>2. answers' \in [Requests -> Seq(Reasons)] /\ AnsweredOnce' /\ pc' = "retire" /\ at' = at
  BY <1>1, TurnEnds
<1>3. TypeOK'
  BY <1>1, <1>2 DEF IInv, TypeOK
<1>4. WorkerInList' /\ CancelledIsAsked' /\ TokensLeft'
  BY <1>1, <1>2 DEF IInv, WorkerInList, CancelledIsAsked, TokensLeft
<1>5. QED
  BY <1>1, <1>2, <1>3, <1>4, SameQueues DEF IInv

\* The next turn: the place moves on.
LEMMA TurnContinues ==
  ASSUME IInv, pc = "advance", Continue, UNCHANGED <<waiting, active, accepted, lost, cancelled, asked, due>>
  PROVE  /\ at' \in 1..MaxActive + 1 /\ pc' = "look" /\ answers' = answers
         /\ AnsweredOnce' /\ WorkerInList' /\ CancelledIsAsked'
<1>1. pc' = "look" /\ at' = at + 1 /\ answers' = answers
  BY DEF Continue, Goto
<1>2. at \in 1..Len(active) /\ Len(active) \in Nat /\ Len(active) <= MaxActive
  BY TurnFacts
<1>3. WorkerInList'
  BY <1>1, <1>2 DEF IInv, WorkerInList
<1>4. QED
  BY <1>1, <1>2, <1>3, NobodyAnswered, BatchAssumption DEF IInv, CancelledIsAsked

LEMMA FeedInv == IInv /\ Feed => IInv'
<1> SUFFICES ASSUME IInv, Feed PROVE IInv'
  OBVIOUS
<1>1. /\ pc = "advance" /\ fed[Turn] < Prefill - 1 /\ fed' = [fed EXCEPT ![Turn] = @ + 1] /\ Continue
      /\ UNCHANGED <<waiting, active, cancelled, out, accepted, left, asked, quit, lost, due>>
  BY DEF Feed, clients
<1>2. Turn \in Requests /\ fed \in [Requests -> 0..Prefill]
  BY <1>1, TurnFacts DEF IInv, TypeOK
<1>3. fed' \in [Requests -> 0..Prefill]
  <2>1. fed[Turn] + 1 \in 0..Prefill
    BY <1>1, <1>2, BatchAssumption
  <2>2. QED
    BY <1>1, <1>2, <2>1
<1>4. /\ at' \in 1..MaxActive + 1 /\ pc' = "look" /\ answers' = answers
      /\ AnsweredOnce' /\ WorkerInList' /\ CancelledIsAsked'
  BY <1>1, TurnContinues
<1>5. TypeOK'
  BY <1>1, <1>3, <1>4 DEF IInv, TypeOK
<1>6. TokensLeft'
  BY <1>1, <1>4 DEF IInv, TokensLeft
<1>7. QED
  BY <1>1, <1>4, <1>5, <1>6, SameQueues DEF IInv

LEMMA SampleInv == IInv /\ Sample => IInv'
<1> SUFFICES ASSUME IInv, Sample PROVE IInv'
  OBVIOUS
<1>1. /\ pc = "advance" /\ fed' = [fed EXCEPT ![Turn] = Prefill]
      /\ UNCHANGED <<waiting, active, cancelled, accepted, left, asked, quit, lost, due>>
  BY DEF Sample, clients
<1>2. /\ Turn \in Requests /\ fed \in [Requests -> 0..Prefill] /\ out \in [Requests -> 0..MaxNew]
      /\ \A r \in Requests : out[r] < MaxNew
  BY <1>1, TurnFacts DEF IInv, TypeOK, TokensLeft
<1>3. fed' \in [Requests -> 0..Prefill]
  BY <1>1, <1>2, BatchAssumption
<1>4. \/ out' = out /\ Finish("ended")
      \/ out' = [out EXCEPT ![Turn] = @ + 1] /\ (Finish("cancelled") \/ Finish("ended"))
      \/ out' = [out EXCEPT ![Turn] = @ + 1] /\ out'[Turn] < MaxNew /\ Continue
  BY DEF Sample
<1>5. /\ out' \in [Requests -> 0..MaxNew] /\ \A r \in Requests \ {Turn} : out'[r] < MaxNew
  <2>1. out[Turn] + 1 \in 0..MaxNew
    BY <1>2, BatchAssumption
  <2>2. QED
    BY <1>2, <1>4, <2>1
<1>6. CASE Finish("cancelled") \/ Finish("ended")
  <2>1. answers' \in [Requests -> Seq(Reasons)] /\ AnsweredOnce' /\ pc' = "retire" /\ at' = at
    BY <1>1, <1>6, TurnEnds DEF Reasons
  <2>2. TypeOK'
    BY <1>1, <1>3, <1>5, <2>1 DEF IInv, TypeOK
  <2>3. WorkerInList' /\ CancelledIsAsked' /\ TokensLeft'
    BY <1>1, <1>5, <2>1 DEF IInv, WorkerInList, CancelledIsAsked, TokensLeft, Turn
  <2>4. QED
    BY <1>1, <2>1, <2>2, <2>3, SameQueues DEF IInv
<1>7. CASE out'[Turn] < MaxNew /\ Continue
  <2>1. /\ at' \in 1..MaxActive + 1 /\ pc' = "look" /\ answers' = answers
        /\ AnsweredOnce' /\ WorkerInList' /\ CancelledIsAsked'
    BY <1>1, <1>7, TurnContinues
  <2>2. TypeOK'
    BY <1>1, <1>3, <1>5, <2>1 DEF IInv, TypeOK
  <2>3. TokensLeft'
    BY <1>5, <1>7 DEF TokensLeft
  <2>4. QED
    BY <1>1, <2>1, <2>2, <2>3, SameQueues DEF IInv
<1>8. QED
  BY <1>4, <1>6, <1>7

LEMMA ForwardThrowsInv == IInv /\ ForwardThrows => IInv'
<1> SUFFICES ASSUME IInv, ForwardThrows PROVE IInv'
  OBVIOUS
<1>1. /\ pc = "advance" /\ pc' = "failed"
      /\ UNCHANGED <<waiting, active, cancelled, fed, out, answers, accepted, left, asked, quit, lost, at, due>>
  BY DEF ForwardThrows, Goto, clients
<1>2. TypeOK'
  BY <1>1 DEF IInv, TypeOK
<1>3. WorkerInList' /\ CancelledIsAsked' /\ TokensLeft'
  BY <1>1 DEF IInv, WorkerInList, CancelledIsAsked, TokensLeft
<1>4. QED
  BY <1>1, <1>2, <1>3, SameQueues, NobodyAnswered DEF IInv

LEMMA RetireInv == IInv /\ Retire => IInv'
<1> SUFFICES ASSUME IInv, Retire PROVE IInv'
  OBVIOUS
<1>1. /\ pc = "retire" /\ pc' = "look" /\ active' = RemoveAt(active, at) /\ cancelled' = cancelled \ {Turn}
      /\ fed' = [fed EXCEPT ![Turn] = 0] /\ out' = [out EXCEPT ![Turn] = 0]
      /\ UNCHANGED <<waiting, answers, accepted, left, asked, quit, lost, at, due>>
      /\ active \in Seq(Requests)
  BY DEF Retire, Goto, clients, IInv, TypeOK
<1>2. at \in 1..Len(active) /\ Turn = active[at] /\ Turn \in Requests /\ Len(active) \in Nat /\ Len(active) <= MaxActive
  BY <1>1, TurnFacts DEF Turn
<1>3. /\ active' \in Seq(Requests) /\ Len(active') = Len(active) - 1
      /\ \A j \in 1..Len(active) - 1 : active'[j] = IF j < at THEN active[j] ELSE active[j + 1]
  BY <1>1, <1>2, RemoveAtFacts
<1>4. Active' = Active \ {Turn} /\ IsInjective(active')
  BY <1>1, <1>2, RemoveSet DEF IInv, InOnePlace, Active
<1>5. Waiting' = Waiting /\ Accepted' = Accepted /\ Running' = Active' /\ Running = Active \ {Turn}
  BY <1>1 DEF Waiting, Accepted, Running, Active
<1>6. TypeOK'
  <2>1. fed' \in [Requests -> 0..Prefill] /\ out' \in [Requests -> 0..MaxNew]
    <3>1. 0 \in 0..Prefill /\ 0 \in 0..MaxNew
      BY BatchAssumption
    <3>2. QED
      BY <1>1, <3>1 DEF IInv, TypeOK
  <2>2. Len(active') <= MaxActive
    BY <1>2, <1>3, BatchAssumption
  <2>3. QED
    BY <1>1, <1>3, <2>1, <2>2 DEF IInv, TypeOK
<1>7. InOnePlace'
  BY <1>1, <1>4, <1>5 DEF IInv, InOnePlace
<1>8. AnsweredOnce'
  BY <1>1, <1>4, <1>5 DEF IInv, AnsweredOnce
<1>9. WorkerInList'
  <2>1. \A i \in at + 1..Len(active) : i - 1 \in at..Len(active') /\ active'[i - 1] = active[i]
    BY <1>2, <1>3
  <2>2. due \subseteq {active[i] : i \in at + 1..Len(active)}
    BY <1>1 DEF IInv, WorkerInList
  <2>3. due \subseteq {active'[i] : i \in at..Len(active')}
    BY <2>1, <2>2
  <2>4. QED
    BY <1>1, <1>2, <1>3, <2>3 DEF WorkerInList
<1>10. CancelledIsAsked'
  BY <1>1 DEF IInv, CancelledIsAsked
<1>11. TokensLeft'
  <2>1. \A r \in Requests \ {Turn} : out'[r] < MaxNew
    BY <1>1 DEF IInv, TokensLeft
  <2>2. out'[Turn] = 0
    <3>1. out \in [Requests -> 0..MaxNew]
      BY <1>1 DEF IInv, TypeOK
    <3>2. out' = [out EXCEPT ![Turn] = 0] /\ Turn \in Requests
      BY <1>1, <1>2
    <3>3. QED
      BY <3>1, <3>2
  <2>3. 0 < MaxNew
    BY BatchAssumption
  <2>4. QED
    BY <2>1, <2>2, <2>3 DEF TokensLeft
<1>12. QueueInOrder'
  BY <1>1 DEF IInv, QueueInOrder
<1>13. QED
  BY <1>6, <1>7, <1>8, <1>9, <1>10, <1>11, <1>12 DEF IInv

LEMMA FailAllInv == IInv /\ FailAll => IInv'
<1> SUFFICES ASSUME IInv, FailAll PROVE IInv'
  OBVIOUS
<1>1. /\ pc = "failed" /\ pc' = "wait" /\ at' = 1 /\ active' = <<>> /\ cancelled' = {}
      /\ fed' = [r \in Requests |-> 0] /\ out' = [r \in Requests |-> 0]
      /\ answers' = [r \in Requests |-> IF r \in Active THEN Append(answers[r], "error") ELSE answers[r]]
      /\ UNCHANGED <<waiting, accepted, left, asked, quit, lost, due>>
  BY DEF FailAll, Goto, clients, Active
<1>2. <<>> \in Seq(Requests) /\ Len(<<>>) = 0 /\ ToSet(<<>>) = {} /\ IsInjective(<<>>)
  BY DEF ToSet, IsInjective
<1>3. answers \in [Requests -> Seq(Reasons)] /\ "error" \in Reasons
  BY DEF IInv, TypeOK, Reasons
<1>4. ASSUME NEW r \in Requests
      PROVE  Append(answers[r], "error") \in Seq(Reasons) /\ Append(answers[r], "error") # <<>>
  BY <1>3, AppendProperties
<1>5. answers' \in [Requests -> Seq(Reasons)]
  BY <1>1, <1>3, <1>4
<1>6. \A r \in Requests : answers'[r] # <<>> <=> r \in Active \/ answers[r] # <<>>
  BY <1>1, <1>4
<1>7. Waiting' = Waiting /\ Accepted' = Accepted /\ Active' = {} /\ Running' = {} /\ Running = Active
  BY <1>1, <1>2 DEF Waiting, Accepted, Active, Running
<1>8. TypeOK'
  <2>1. 0 \in 0..Prefill /\ 0 \in 0..MaxNew /\ 1 \in 1..MaxActive + 1 /\ 0 <= MaxActive
    BY BatchAssumption
  <2>2. fed' \in [Requests -> 0..Prefill] /\ out' \in [Requests -> 0..MaxNew]
    BY <1>1, <2>1
  <2>3. active' \in Seq(Requests) /\ Len(active') <= MaxActive /\ at' \in 1..MaxActive + 1
    BY <1>1, <1>2, <2>1
  <2>4. QED
    BY <1>1, <1>5, <2>2, <2>3 DEF IInv, TypeOK
<1>9. InOnePlace'
  BY <1>1, <1>2, <1>7 DEF IInv, InOnePlace
<1>10. AnsweredOnce'
  BY <1>1, <1>6, <1>7 DEF IInv, AnsweredOnce, InOnePlace
<1>11. WorkerInList' /\ CancelledIsAsked'
  BY <1>1 DEF WorkerInList, CancelledIsAsked
<1>12. TokensLeft'
  BY <1>1, BatchAssumption DEF TokensLeft
<1>13. QueueInOrder'
  BY <1>1 DEF IInv, QueueInOrder
<1>14. QED
  BY <1>8, <1>9, <1>10, <1>11, <1>12, <1>13 DEF IInv

\* Admission: n requests go over, the first m leave the queue.
LEMMA Admitted ==
  ASSUME IInv, NEW m \in 0..Len(waiting), NEW n \in 0..m, Len(active) + n <= MaxActive,
         active' = active \o SubSeq(waiting, 1, n), waiting' = SubSeq(waiting, m + 1, Len(waiting)),
         accepted' = accepted
  PROVE  /\ waiting' \in Seq(Requests) /\ active' \in Seq(Requests) /\ Len(active') <= MaxActive
         /\ IsInjective(waiting') /\ IsInjective(active')
         /\ Active' = Active \cup {waiting[i] : i \in 1..n}
         /\ Waiting' = {waiting[i] : i \in m + 1..Len(waiting)}
         /\ QueueInOrder'
<1>1. waiting \in Seq(Requests) /\ active \in Seq(Requests) /\ Len(waiting) \in Nat /\ n \in 0..Len(waiting) /\ n <= m
  BY QueueFacts DEF IInv, TypeOK
<1>2. active' \in Seq(Requests) /\ Len(active') = Len(active) + n
  BY <1>1, MoveFacts
<1>3. /\ waiting' \in Seq(Requests) /\ Len(waiting') = Len(waiting) - m
      /\ \A j \in 1..Len(waiting) - m : waiting'[j] = waiting[m + j]
  BY <1>1, RestFacts
<1>4. /\ Active' = Active \cup {waiting[i] : i \in 1..n} /\ IsInjective(active')
      /\ Waiting' = {waiting[i] : i \in m + 1..Len(waiting)} /\ IsInjective(waiting')
  <2>1. IsInjective(waiting) /\ IsInjective(active) /\ ToSet(waiting) \cap ToSet(active) = {}
    BY DEF IInv, InOnePlace, Waiting, Active
  <2>2. QED
    BY <1>1, <2>1, MoveSets DEF Active, Waiting
<1>5. QueueInOrder'
  <2>1. \A i \in 1..Len(waiting') : m + i \in 1..Len(waiting) /\ waiting'[i] = waiting[m + i]
    BY <1>1, <1>3
  <2>2. \A i, j \in 1..Len(waiting') : i < j => m + i < m + j
    BY <1>1, <1>3
  <2>3. QED
    BY <1>3, <2>1, <2>2, ThinnedInOrder
<1>6. QED
  BY <1>2, <1>3, <1>4, <1>5

\* The requests in front of a place in the queue, the one at it and those behind.
LEMMA WaitingApart ==
  ASSUME IInv, NEW n \in 0..Len(waiting)
  PROVE  /\ Waiting = {waiting[i] : i \in 1..n} \cup {waiting[i] : i \in n + 1..Len(waiting)}
         /\ {waiting[i] : i \in 1..n} \cap {waiting[i] : i \in n + 1..Len(waiting)} = {}
<1>1. /\ Len(waiting) \in Nat /\ Waiting = {waiting[i] : i \in 1..Len(waiting)}
      /\ \A i, j \in 1..Len(waiting) : waiting[i] = waiting[j] => i = j
  BY QueueFacts, ElementsOf DEF IInv, InOnePlace, TypeOK
<1>2. \A i \in 1..Len(waiting) : i \in 1..n \/ i \in n + 1..Len(waiting)
  BY <1>1
<1>3. \A i \in 1..n, j \in n + 1..Len(waiting) : i \in 1..Len(waiting) /\ j \in 1..Len(waiting) /\ i # j
  BY <1>1
<1>4. QED
  BY <1>1, <1>2, <1>3

LEMMA AdmitInv == IInv /\ Admit => IInv'
<1> SUFFICES ASSUME IInv, Admit PROVE IInv'
  OBVIOUS
<1>1. PICK n \in 0..Len(waiting) :
        /\ Len(active) + n <= MaxActive
        /\ active' = active \o SubSeq(waiting, 1, n) /\ waiting' = SubSeq(waiting, n + 1, Len(waiting))
  BY DEF Admit, HasRoom
<1>2. /\ pc = "step" /\ pc' \in {"wait", "look"} /\ at' = 1 /\ due' = Active'
      /\ UNCHANGED <<cancelled, fed, out, answers, accepted, left, asked, quit, lost>>
  BY DEF Admit, Goto, clients, Active
<1>3. /\ waiting' \in Seq(Requests) /\ active' \in Seq(Requests) /\ Len(active') <= MaxActive
      /\ IsInjective(waiting') /\ IsInjective(active')
      /\ Active' = Active \cup {waiting[i] : i \in 1..n}
      /\ Waiting' = {waiting[i] : i \in n + 1..Len(waiting)}
      /\ QueueInOrder'
  <2>1. n \in 0..n
    BY QueueFacts DEF IInv
  <2>2. QED
    BY <1>1, <1>2, <2>1, Admitted
<1>4. Waiting' \cup Active' = Waiting \cup Active /\ Waiting' \cap Active' = {}
  <2>1. /\ Waiting = {waiting[i] : i \in 1..n} \cup Waiting'
        /\ {waiting[i] : i \in 1..n} \cap Waiting' = {}
    BY <1>3, WaitingApart
  <2>2. QED
    BY <1>3, <2>1 DEF IInv, InOnePlace
<1>5. Accepted' = Accepted /\ Running' = Active' /\ Running = Active
  BY <1>2 DEF Accepted, Running
<1>6. /\ Active' = {active'[i] : i \in 1..Len(active')} /\ Len(active') \in Nat
      /\ Active' \subseteq Requests
  BY <1>3, ElementsOf DEF Active
<1>7. TypeOK'
  <2>1. at' \in 1..MaxActive + 1 /\ due' \subseteq Requests /\ pc' \in {"wait", "look"}
    BY <1>2, <1>6, BatchAssumption
  <2>2. QED
    BY <1>2, <1>3, <2>1 DEF IInv, TypeOK
<1>8. InOnePlace'
  BY <1>2, <1>3, <1>4, <1>5 DEF IInv, InOnePlace
<1>9. AnsweredOnce'
  BY <1>2, <1>4, <1>5 DEF IInv, AnsweredOnce
<1>10. WorkerInList'
  BY <1>2, <1>6 DEF WorkerInList
<1>11. CancelledIsAsked' /\ TokensLeft'
  BY <1>2 DEF IInv, CancelledIsAsked, TokensLeft
<1>12. QED
  BY <1>3, <1>7, <1>8, <1>9, <1>10, <1>11 DEF IInv

LEMMA AdmitThrowsInv == IInv /\ AdmitThrows => IInv'
<1> SUFFICES ASSUME IInv, AdmitThrows PROVE IInv'
  OBVIOUS
<1>1. PICK n \in 1..Len(waiting) :
        /\ Len(active) + n <= MaxActive
        /\ active' = active \o SubSeq(waiting, 1, n - 1) /\ waiting' = SubSeq(waiting, n + 1, Len(waiting))
        /\ lost' = lost \cup {waiting[n]}
  BY DEF AdmitThrows, HasRoom
<1>2. /\ pc = "step" /\ pc' = "failed"
      /\ UNCHANGED <<cancelled, fed, out, answers, accepted, left, asked, quit, at, due>>
  BY DEF AdmitThrows, Goto
<1> DEFINE k == n - 1
<1>3. /\ k \in 0..n /\ n \in 0..Len(waiting) /\ k \in 0..Len(waiting) /\ Len(active) + k <= MaxActive
      /\ \A i \in 1..n : i \in 1..k \/ i = n
      /\ Len(waiting) \in Nat /\ n \in k + 1..Len(waiting) /\ 1..k \subseteq 1..n /\ n \in 1..n
  BY <1>1, QueueFacts, BatchAssumption DEF IInv
<1>4. active' = active \o SubSeq(waiting, 1, k)
  BY <1>1
<1> HIDE DEF k
<1>5. /\ waiting' \in Seq(Requests) /\ active' \in Seq(Requests) /\ Len(active') <= MaxActive
      /\ IsInjective(waiting') /\ IsInjective(active')
      /\ Active' = Active \cup {waiting[i] : i \in 1..k}
      /\ Waiting' = {waiting[i] : i \in n + 1..Len(waiting)}
      /\ QueueInOrder'
  BY <1>1, <1>2, <1>3, <1>4, Admitted
<1> DEFINE gone == waiting[n]
           front == {waiting[i] : i \in 1..k}
<1>6. /\ Waiting = front \cup {gone} \cup Waiting' /\ front \cap Waiting' = {}
      /\ gone \notin front /\ gone \notin Waiting'
  <2>1. /\ Waiting = {waiting[i] : i \in 1..n} \cup Waiting'
        /\ {waiting[i] : i \in 1..n} \cap Waiting' = {}
    BY <1>3, <1>5, WaitingApart
  <2>2. front \cap {waiting[i] : i \in k + 1..Len(waiting)} = {}
    BY <1>3, WaitingApart
  <2>3. {waiting[i] : i \in 1..n} = front \cup {gone}
    BY <1>3
  <2>4. gone \in {waiting[i] : i \in k + 1..Len(waiting)}
    BY <1>3
  <2>5. QED
    BY <2>1, <2>2, <2>3, <2>4
<1> HIDE DEF front, gone
<1>7. Active' = Active \cup front /\ lost' = lost \cup {gone}
  BY <1>1, <1>5 DEF front, gone
<1>8. Accepted' = Accepted /\ Running' = Active' /\ Running = Active
  BY <1>2 DEF Accepted, Running
<1>9. gone \in Requests
  BY <1>6, QueueFacts DEF IInv
<1>10. TypeOK'
  BY <1>2, <1>5, <1>7, <1>9 DEF IInv, TypeOK
<1>11. InOnePlace'
  BY <1>2, <1>5, <1>6, <1>7, <1>8 DEF IInv, InOnePlace
<1>12. AnsweredOnce'
  BY <1>2, <1>6, <1>7, <1>8 DEF IInv, AnsweredOnce
<1>13. WorkerInList' /\ CancelledIsAsked' /\ TokensLeft'
  BY <1>2 DEF IInv, WorkerInList, CancelledIsAsked, TokensLeft
<1>14. QED
  BY <1>5, <1>10, <1>11, <1>12, <1>13 DEF IInv

LEMMA StepInv == IInv /\ [Next]_vars => IInv'
<1> SUFFICES ASSUME IInv, [Next]_vars PROVE IInv'
  OBVIOUS
<1>1. CASE UNCHANGED vars
  <2>1. TypeOK'
    BY <1>1 DEF vars, IInv, TypeOK
  <2>2. /\ Waiting' = Waiting /\ Active' = Active /\ Accepted' = Accepted
        /\ Running' = Running /\ Turn' = Turn
    BY <1>1 DEF vars, Waiting, Active, Accepted, Running, Turn
  <2>3. InOnePlace' /\ AnsweredOnce'
    BY <1>1, <2>2 DEF vars, IInv, InOnePlace, AnsweredOnce
  <2>4. WorkerInList' /\ CancelledIsAsked' /\ TokensLeft'
    BY <1>1, <2>2 DEF vars, IInv, WorkerInList, CancelledIsAsked, TokensLeft
  <2>5. QueueInOrder'
    BY <1>1, <2>2 DEF vars, IInv, QueueInOrder
  <2>6. QED
    BY <2>1, <2>3, <2>4, <2>5 DEF IInv
<1>2. CASE Worker
  BY <1>2, WakeInv, AdmitInv, AdmitThrowsInv, LookInv, FinishCancelledInv, FeedInv, SampleInv,
     ForwardThrowsInv, RetireInv, FailAllInv DEF Worker
<1>3. CASE \E r \in Requests : Submit(r) \/ Cancel(r) \/ CancelCrashes(r) \/ Leave(r)
  BY <1>3, SubmitInv, CancelInv, CancelCrashesInv, LeaveAndStopInv
<1>4. CASE Stop
  BY <1>4, LeaveAndStopInv
<1>5. QED
  BY <1>1, <1>2, <1>3, <1>4 DEF Next

LEMMA Inductive == Spec => []IInv
BY InitInv, StepInv, PTL DEF Spec

-----------------------------------------------------------------------------
(* The queues *)

\* How often a request is in a queue: once or not at all.
LEMMA PlacesIn ==
  ASSUME NEW S, NEW s \in Seq(S), IsInjective(s), NEW r
  PROVE  Cardinality({i \in DOMAIN s : s[i] = r}) = IF r \in ToSet(s) THEN 1 ELSE 0
<1>1. DOMAIN s = 1..Len(s) /\ ToSet(s) = {s[i] : i \in 1..Len(s)} /\ \A i, j \in 1..Len(s) : s[i] = s[j] => i = j
  BY ElementsOf
<1>2. CASE r \in ToSet(s)
  <2>1. PICK i \in DOMAIN s : s[i] = r
    BY <1>1, <1>2
  <2>2. {j \in DOMAIN s : s[j] = r} = {i}
    BY <1>1, <2>1
  <2>3. QED
    BY <1>2, <2>2, FS_Singleton
<1>3. CASE r \notin ToSet(s)
  <2>1. {j \in DOMAIN s : s[j] = r} = {}
    BY <1>1, <1>3
  <2>2. QED
    BY <1>3, <2>1, FS_EmptySet
<1>4. QED
  BY <1>2, <1>3

LEMMA Held == IInv => HeldIsUnanswered
<1> SUFFICES ASSUME IInv, pc \in {"wait", "step"}, NEW r \in Accepted \ lost
             PROVE  Places(r) = IF answers[r] = <<>> THEN 1 ELSE 0
  BY DEF HeldIsUnanswered, Accepted
<1>1. /\ Cardinality({i \in DOMAIN waiting : waiting[i] = r}) = IF r \in Waiting THEN 1 ELSE 0
      /\ Cardinality({i \in DOMAIN active : active[i] = r}) = IF r \in Active THEN 1 ELSE 0
  BY PlacesIn DEF IInv, TypeOK, InOnePlace, Waiting, Active
<1>2. r \in Requests /\ ~(r \in Waiting /\ r \in Active)
  BY QueueFacts DEF IInv, InOnePlace
<1>3. answers[r] = <<>> <=> r \in Waiting \cup Active
  BY <1>2 DEF IInv, AnsweredOnce, Running
<1>4. QED
  BY <1>1, <1>2, <1>3 DEF Places

LEMMA HadATurn == IInv => EveryoneHadATurn
<1> SUFFICES ASSUME IInv, pc = "look", at > Len(active) PROVE due = {}
  BY DEF EveryoneHadATurn
<1>1. due \subseteq {active[i] : i \in at..Len(active)} /\ Len(active) \in Nat /\ at \in Nat
  BY QueueFacts, BatchAssumption DEF IInv, TypeOK, WorkerInList
<1>2. at..Len(active) = {}
  BY <1>1
<1>3. QED
  BY <1>1, <1>2

\* For any number of requests, at every priority, cap and fault: between steps each
\* request accepted is in one queue once if it has no answer and in none if it has
\* one, but for those admit threw for; and a step passes over nobody (batch.hpp
\* step, which erases from the list it walks).
THEOREM SchedulerIsSound == Spec => []SchedulerInv
<1>1. IInv => SchedulerInv
  BY Held, HadATurn DEF IInv, SchedulerInv
<1>2. QED
  BY <1>1, Inductive, PTL

-----------------------------------------------------------------------------
(* The order of admission *)

\* Requests become active by admission only.
LEMMA OnlyAdmissionAdds ==
  ASSUME IInv, Next, ~Admit, ~AdmitThrows
  PROVE  Active' \subseteq Active
<1>1. CASE Retire
  <2>1. active' = RemoveAt(active, at) /\ at \in 1..Len(active) /\ active \in Seq(Requests) /\ IsInjective(active)
    BY <1>1, TurnFacts DEF Retire, IInv, TypeOK, InOnePlace
  <2>2. QED
    BY <2>1, RemoveSet DEF Active
<1>2. CASE FailAll
  BY <1>2 DEF FailAll, Active, ToSet
<1>3. CASE ~Retire /\ ~FailAll
  <2>1. active' = active
    BY <1>3 DEF Next, Worker, Submit, Cancel, CancelCrashes, Leave, Stop, Wake, Look, FinishCancelled, Feed, Sample, ForwardThrows
  <2>2. QED
    BY <2>1 DEF Active
<1>4. QED
  BY <1>1, <1>2, <1>3

\* The queue is admitted from its front.
LEMMA FrontFirst ==
  ASSUME IInv, Admit \/ AdmitThrows, NEW r \in Active' \ Active, NEW q \in Waiting'
  PROVE  Before(accepted, r, q) /\ r \in Accepted /\ q \in Accepted
<1>1. PICK n \in 0..Len(waiting), m \in 0..Len(waiting) :
        /\ n <= m /\ Len(active) + n <= MaxActive
        /\ active' = active \o SubSeq(waiting, 1, n) /\ waiting' = SubSeq(waiting, m + 1, Len(waiting))
  <2>1. CASE Admit
    <3>1. PICK n \in 0..Len(waiting) :
            /\ Len(active) + n <= MaxActive
            /\ active' = active \o SubSeq(waiting, 1, n) /\ waiting' = SubSeq(waiting, n + 1, Len(waiting))
      BY <2>1 DEF Admit, HasRoom
    <3>2. n <= n
      OBVIOUS
    <3>3. QED
      BY <3>1, <3>2
  <2>2. CASE AdmitThrows
    <3>1. PICK m \in 1..Len(waiting) :
            /\ Len(active) + m <= MaxActive
            /\ active' = active \o SubSeq(waiting, 1, m - 1) /\ waiting' = SubSeq(waiting, m + 1, Len(waiting))
      BY <2>2 DEF AdmitThrows, HasRoom
    <3>2. m - 1 \in 0..Len(waiting) /\ m \in 0..Len(waiting) /\ m - 1 <= m /\ Len(active) + (m - 1) <= MaxActive
      BY <3>1, QueueFacts, BatchAssumption DEF IInv
    <3>3. QED
      BY <3>1, <3>2
  <2>3. QED
    BY <2>1, <2>2
<1>2. accepted' = accepted
  BY DEF Admit, AdmitThrows, clients
<1>3. n \in 0..m /\ Len(waiting) \in Nat
  BY <1>1, QueueFacts DEF IInv
<1>4. /\ Active' = Active \cup {waiting[i] : i \in 1..n}
      /\ Waiting' = {waiting[i] : i \in m + 1..Len(waiting)}
  BY <1>1, <1>2, <1>3, Admitted
<1>5. PICK i \in 1..n, j \in m + 1..Len(waiting) : r = waiting[i] /\ q = waiting[j]
  BY <1>4
<1>6. i \in 1..Len(waiting) /\ j \in 1..Len(waiting) /\ i < j
  BY <1>1, <1>3
<1>7. Before(accepted, r, q)
  BY <1>5, <1>6, QueueFacts DEF IInv, QueueInOrder
<1>8. r \in Waiting /\ q \in Waiting
  BY <1>5, <1>6, QueueFacts DEF IInv
<1>9. QED
  BY <1>7, <1>8 DEF IInv, InOnePlace

\* Of the requests waiting together the one admitted first has the higher priority,
\* or the same and came first, however many come and are cancelled in between.
THEOREM AdmissionIsInOrder == Spec => AdmittedInOrder
<1> DEFINE InOrder ==
      \A r \in ToSet(active') \ ToSet(active), q \in ToSet(waiting') \cap ToSet(waiting) :
       \/ Priority[r] > Priority[q]
       \/ Priority[r] = Priority[q] /\ Index(r) < Index(q)
<1>1. IInv /\ [Next]_vars => [InOrder]_vars
  <2> SUFFICES ASSUME IInv, Next, NEW r \in Active' \ Active, NEW q \in Waiting' \cap Waiting
               PROVE  \/ Priority[r] > Priority[q]
                      \/ Priority[r] = Priority[q] /\ Index(r) < Index(q)
    BY DEF Active, Waiting
  <2>1. Admit \/ AdmitThrows
    BY OnlyAdmissionAdds
  <2>2. Before(accepted, r, q) /\ r \in Accepted /\ q \in Accepted
    BY <2>1, FrontFirst
  <2>3. ASSUME NEW p \in Accepted PROVE Index(p) \in DOMAIN accepted /\ accepted[Index(p)] = p
    <3>1. \E i \in DOMAIN accepted : accepted[i] = p
      BY QueueFacts DEF IInv
    <3>2. QED
      BY <3>1 DEF Index
  <2>4. QED
    BY <2>2, <2>3 DEF Before
<1>2. QED
  BY <1>1, Inductive, PTL DEF AdmittedInOrder, Spec

-----------------------------------------------------------------------------
(* The scheduler implements RequestLife *)

LEMMA LifeInit == Init => Life!Init
BY DEF Init, Life!Init, ToSet

\* An unanswered request that is asked about, or its client: no answer yet.
LEMMA SubmitIsAccept == ASSUME IInv, NEW r \in Requests, Submit(r) PROVE Life!Accept(r)
<1>1. r \notin Accepted /\ accepted' = Append(accepted, r) /\ UNCHANGED <<asked, left, answers>>
  BY DEF Submit, Accepted
<1>2. ToSet(accepted') = ToSet(accepted) \cup {r}
  BY <1>1, AppendSet DEF IInv, TypeOK
<1>3. QED
  BY <1>1, <1>2 DEF Life!Accept, Accepted

LEMMA AskingIsAsk ==
  ASSUME IInv, NEW r \in Requests, Leave(r) \/ (Cancel(r) /\ r \notin Waiting)
  PROVE  Life!Ask(r)
BY DEF Leave, Cancel, Life!Ask, Waiting

\* The answer of one request.
LEMMA OneAnswer ==
  ASSUME IInv, NEW r \in Accepted, answers[r] = <<>>, NEW why \in Reasons, Answer(r, why),
         accepted' = accepted, NEW A \in SUBSET Accepted, asked' \cup left' = asked \cup left \cup A,
         why = "cancelled" => r \in asked' \cup left'
  PROVE  Life!Next
<1>1. r \in Requests /\ answers \in [Requests -> Seq(Reasons)]
  BY QueueFacts DEF IInv, TypeOK
<1>2. Append(<<>>, why) = <<why>>
  OBVIOUS
<1>3. answers' = [q \in Requests |-> IF q \in {r} THEN <<why>> ELSE answers[q]]
  BY <1>1, <1>2 DEF Answer
<1>4. {r} \in SUBSET Life!Open /\ why \in Life!Reasons
  BY DEF Life!Open, Life!Reasons, Reasons, Accepted
<1>5. Life!Answer({r}, why)
  BY <1>3, <1>4 DEF Life!Answer
<1>6. QED
  BY <1>4, <1>5 DEF Life!Next, Accepted

LEMMA CancelIsLife == ASSUME IInv, NEW r \in Requests, Cancel(r) PROVE Life!Next
<1>1. CASE r \in Waiting
  <2>1. /\ Answer(r, "cancelled") /\ accepted' = accepted /\ left' = left /\ asked' = asked \cup {r}
        /\ "cancelled" \in Reasons
    BY <1>1 DEF Cancel, Waiting, Reasons
  <2>2. r \in Accepted /\ answers[r] = <<>>
    BY <1>1 DEF IInv, InOnePlace, AnsweredOnce
  <2>3. {r} \in SUBSET Accepted /\ asked' \cup left' = asked \cup left \cup {r}
    BY <2>1, <2>2
  <2>4. QED
    BY <2>1, <2>2, <2>3, OneAnswer
<1>2. CASE r \notin Waiting
  BY <1>2, AskingIsAsk DEF Life!Next
<1>3. QED
  BY <1>1, <1>2

\* A turn that ends answers the request whose turn it is.
LEMMA TurnEndIsLife ==
  ASSUME IInv, pc \in {"cancel", "advance"}, NEW why \in Reasons, Finish(why),
         UNCHANGED <<accepted, asked, left>>, why = "cancelled" => Turn \in asked \cup left
  PROVE  Life!Next
<1>1. Turn \in Accepted /\ Turn \in Requests /\ Turn \in Active
  BY TurnFacts
<1>2. answers[Turn] = <<>>
  BY <1>1 DEF IInv, AnsweredOnce, Running
<1>3. Answer(Turn, why) /\ {} \in SUBSET Accepted /\ asked' \cup left' = asked \cup left \cup {}
  BY DEF Finish
<1>4. QED
  BY <1>1, <1>2, <1>3, OneAnswer

\* An error answers every active request.
LEMMA FailAllIsLife == ASSUME IInv, FailAll PROVE Life!Next
<1>1. /\ answers' = [r \in Requests |-> IF r \in Active THEN Append(answers[r], "error") ELSE answers[r]]
      /\ pc = "failed" /\ UNCHANGED <<accepted, asked, left>>
  BY DEF FailAll, clients, Active
<1>2. \A r \in Active : r \in Requests /\ r \in Accepted /\ answers[r] = <<>>
  BY <1>1, QueueFacts DEF IInv, InOnePlace, AnsweredOnce, Running
<1>3. Append(<<>>, "error") = <<"error">>
  OBVIOUS
<1>4. answers' = [r \in Requests |-> IF r \in Active THEN <<"error">> ELSE answers[r]]
  BY <1>1, <1>2, <1>3
<1>5. Active \in SUBSET Life!Open /\ "error" \in Life!Reasons
  BY <1>2 DEF Life!Open, Life!Reasons, Accepted
<1>6. Life!Answer(Active, "error")
  BY <1>1, <1>4, <1>5 DEF Life!Answer
<1>7. {} \in SUBSET ToSet(accepted) /\ asked' \cup left' = asked \cup left \cup {}
  BY <1>1
<1>8. QED
  BY <1>5, <1>6, <1>7 DEF Life!Next

LEMMA LifeStep == IInv /\ [Next]_vars => [Life!Next]_(Life!vars)
<1> SUFFICES ASSUME IInv, [Next]_vars PROVE Life!Next \/ UNCHANGED Life!vars
  OBVIOUS
<1>1. CASE \E r \in Requests : Submit(r) \/ Cancel(r) \/ Leave(r)
  BY <1>1, SubmitIsAccept, CancelIsLife, AskingIsAsk DEF Life!Next
<1>2. CASE FinishCancelled
  <2>1. /\ pc = "cancel" /\ Finish("cancelled") /\ UNCHANGED <<accepted, asked, left>> /\ "cancelled" \in Reasons
        /\ Turn \in asked
    BY <1>2 DEF FinishCancelled, clients, Reasons, IInv, CancelledIsAsked
  <2>2. QED
    BY <2>1, TurnEndIsLife
<1>3. CASE Sample
  <2>1. pc = "advance" /\ UNCHANGED <<accepted, asked, left>> /\ "ended" \in Reasons /\ "cancelled" \in Reasons
    BY <1>3 DEF Sample, clients, Reasons
  <2>2. \/ Finish("ended") \/ (Finish("cancelled") /\ Turn \in left) \/ answers' = answers
    BY <1>3 DEF Sample, Continue
  <2>3. QED
    BY <2>1, <2>2, TurnEndIsLife DEF Life!vars
<1>4. CASE FailAll
  BY <1>4, FailAllIsLife
<1>5. CASE \/ Stop \/ Wake \/ Admit \/ AdmitThrows \/ Look \/ Feed \/ ForwardThrows \/ Retire
           \/ UNCHANGED vars \/ \E r \in Requests : CancelCrashes(r)
  BY <1>5 DEF CancelCrashes, Stop, Wake, Admit, AdmitThrows, Look, Feed, Continue, ForwardThrows, Retire, vars, clients, Life!vars
<1>6. QED
  BY <1>1, <1>2, <1>3, <1>4, <1>5 DEF Next, Worker

\* The scheduler implements what RequestLife promises a caller: no request is
\* answered twice, and none as cancelled that nobody asked to cancel.
THEOREM ImplementsLife == Spec => LifeSpec
BY LifeInit, LifeStep, Inductive, PTL DEF Spec, LifeSpec, Life!Spec

-----------------------------------------------------------------------------
(* Streaming: the samples behind the indices *)

\* The first sample of the next frame, and what is in the ring from it on.
First == nextFrame * setting.hop
Stock == stored - First

\* The indices are those of the next frame and of the next sample, no further
\* apart than the ring is long, with what is being copied.
IndicesRight ==
  /\ rd = First % Slots /\ wr = stored % Slots
  /\ pk \in Nat /\ Stock >= 0 /\ Stock + pk < Slots
  /\ stored + pk + unfed <= Samples /\ since <= stored

\* What is between them, and copied behind, is the samples by their numbers.
SlotsRight == \A n \in First..stored + pi - 1 : ring[n % Slots] = n + 1

\* A frame is only read when it is all there, from its first sample on.
FrameRight ==
  /\ cpc \in {"peek", "read", "call"} => Stock >= setting.window
  /\ cpc \in {"read", "call"} => take = setting.window
  /\ cpc = "call" => got = take
  /\ cpc \in {"read", "call"} => \A i \in 1..got : frame[i] = First + i

\* What pump left pending, and what came in since.
LagRight == cpc # "idle" => Stock < setting.window + setting.lag * setting.hop + since

StreamIInv == Stream!TypeOK /\ IndicesRight /\ SlotsRight /\ FrameRight /\ LagRight

-----------------------------------------------------------------------------
(* Remainders *)

LEMMA Division ==
  ASSUME NEW m \in Nat \ {0}, NEW a \in Int
  PROVE  /\ a \div m \in Int /\ a % m \in 0..m - 1
         /\ a = m * (a \div m) + (a % m)
OBVIOUS

\* Only one remainder is small.
LEMMA RemainderIs ==
  ASSUME NEW m \in Nat \ {0}, NEW a \in Int, NEW q \in Int, NEW x \in 0..m - 1, a = m * q + x
  PROVE  a % m = x
<1> DEFINE p == a \div m
           y == a % m
<1>1. p \in Int /\ y \in 0..m - 1 /\ a = m * p + y
  BY Division
<1> HIDE DEF p, y
<1>2. CASE p < q
  <2>1. q - p - 1 \in Nat
    BY <1>1, <1>2
  <2>2. m * (q - p - 1) >= 0
    BY <2>1
  <2>3. m * (q - p - 1) = m * q - m * p - m
    BY <1>1
  <2>4. m * q \in Int /\ m * p \in Int
    BY <1>1
  <2>5. QED
    BY <1>1, <2>2, <2>3, <2>4
<1>3. CASE q < p
  <2>1. p - q - 1 \in Nat
    BY <1>1, <1>3
  <2>2. m * (p - q - 1) >= 0
    BY <2>1
  <2>3. m * (p - q - 1) = m * p - m * q - m
    BY <1>1
  <2>4. m * q \in Int /\ m * p \in Int
    BY <1>1
  <2>5. QED
    BY <1>1, <2>2, <2>3, <2>4
<1>4. CASE p = q
  BY <1>1, <1>4 DEF y
<1>5. QED
  BY <1>1, <1>2, <1>3, <1>4

\* A whole number of turns changes no remainder.
LEMMA SameRemainder ==
  ASSUME NEW m \in Nat \ {0}, NEW y \in Int, NEW q \in Int
  PROVE  (y + m * q) % m = y % m
<1> DEFINE p == y \div m
           z == y % m
<1>1. p \in Int /\ z \in 0..m - 1 /\ y = m * p + z
  BY Division
<1> HIDE DEF p, z
<1>2. y + m * q = m * (p + q) + z
  BY <1>1
<1>3. y + m * q \in Int /\ p + q \in Int
  BY <1>1
<1>4. (y + m * q) % m = z
  BY <1>1, <1>2, <1>3, RemainderIs
<1>5. QED
  BY <1>4 DEF z

LEMMA AddRemainder ==
  ASSUME NEW m \in Nat \ {0}, NEW a \in Int, NEW b \in Int
  PROVE  /\ ((a % m) + b) % m = (a + b) % m
         /\ (a - (b % m)) % m = (a - b) % m
<1> DEFINE p == a \div m
           q == b \div m
           x == a % m
           y == b % m
<1>1. p \in Int /\ q \in Int /\ x \in Int /\ y \in Int /\ a = m * p + x /\ b = m * q + y
  BY Division
<1> HIDE DEF p, q, x, y
<1>2. x + b \in Int /\ a - b \in Int
  BY <1>1
<1>3. ((x + b) + m * p) % m = (x + b) % m /\ ((a - b) + m * q) % m = (a - b) % m
  BY <1>1, <1>2, SameRemainder
<1>4. (x + b) + m * p = a + b /\ (a - b) + m * q = a - y
  <2> DEFINE u == m * p
             v == m * q
  <2>1. u \in Int /\ v \in Int /\ a = u + x /\ b = v + y
    BY <1>1
  <2> HIDE DEF u, v
  <2>2. (x + b) + u = a + b /\ (a - b) + v = a - y
    BY <1>1, <2>1
  <2>3. QED
    BY <2>2 DEF u, v
<1>5. (a + b) % m = (x + b) % m /\ (a - y) % m = (a - b) % m
  BY <1>3, <1>4
<1>6. QED
  BY <1>5 DEF x, y

LEMMA SameSlot ==
  ASSUME NEW m \in Nat \ {0}, NEW a \in Int, NEW b \in Int, a - b < m, b - a < m, a % m = b % m
  PROVE  a = b
<1> DEFINE p == a \div m
           q == b \div m
           x == a % m
<1>1. p \in Int /\ q \in Int /\ x \in Int /\ a = m * p + x /\ b = m * q + x
  BY Division
<1> HIDE DEF p, q, x
<1>2. m * (p - q) = a - b
  BY <1>1
<1>3. CASE p > q
  <2>1. m * (p - q - 1) >= 0 /\ m * (p - q - 1) = m * (p - q) - m
    BY <1>1, <1>3
  <2>2. QED
    BY <1>2, <2>1
<1>4. CASE p < q
  <2>1. m * (q - p - 1) >= 0 /\ m * (q - p - 1) = - (m * (p - q)) - m
    BY <1>1, <1>4
  <2>2. QED
    BY <1>2, <2>1
<1>5. QED
  BY <1>1, <1>3, <1>4

-----------------------------------------------------------------------------
(* Numbers of the ring *)

LEMMA SettingIs ==
  ASSUME StreamIInv
  PROVE  /\ setting \in Settings
         /\ setting.window \in Nat \ {0} /\ setting.hop \in Nat \ {0} /\ setting.lag \in Nat
         /\ Slots \in Nat \ {0} /\ Samples \in Nat
         /\ nextFrame \in Nat /\ stored \in Nat /\ First \in Nat /\ Stock \in Nat
         /\ pk \in Nat /\ pi \in 0..pk /\ unfed \in Nat /\ since \in Nat
<1>1. setting \in Settings /\ nextFrame \in Nat
  BY DEF StreamIInv, Stream!TypeOK
<1>2. setting.window \in Nat \ {0} /\ setting.hop \in Nat \ {0} /\ setting.lag \in Nat
  BY <1>1, SessionsAssumption
<1>3. First \in Nat
  BY <1>1, <1>2 DEF First
<1>4. Samples \in Nat /\ Slots \in Nat \ {0}
  BY SessionsAssumption
<1>5. stored \in Nat /\ pi \in 0..pk /\ unfed \in Nat /\ since \in Nat
  BY <1>4 DEF StreamIInv, Stream!TypeOK
<1>6. pk \in Nat
  BY DEF StreamIInv, IndicesRight
<1>7. Stock \in Nat
  BY <1>3, <1>5 DEF Stock, StreamIInv, IndicesRight
<1>8. QED
  BY <1>1, <1>2, <1>3, <1>4, <1>5, <1>6, <1>7

LEMMA OfTwo ==
  ASSUME NEW x \in Int, NEW y \in Int
  PROVE  /\ Stream!Min({x, y}) \in {x, y} /\ Stream!Min({x, y}) <= x /\ Stream!Min({x, y}) <= y
         /\ Stream!Max({x, y}) \in {x, y} /\ Stream!Max({x, y}) >= x /\ Stream!Max({x, y}) >= y
<1>1. (\E z \in {x, y} : \A w \in {x, y} : z =< w) /\ (\E z \in {x, y} : \A w \in {x, y} : z >= w)
  OBVIOUS
<1>2. Stream!Min({x, y}) \in {x, y} /\ \A w \in {x, y} : Stream!Min({x, y}) =< w
  BY <1>1 DEF Stream!Min
<1>3. Stream!Max({x, y}) \in {x, y} /\ \A w \in {x, y} : Stream!Max({x, y}) >= w
  BY <1>1 DEF Stream!Max
<1>4. QED
  BY <1>2, <1>3

\* The size both threads compute from the masked indices is what is in stock.
LEMMA SizeIsStock == StreamIInv => Stream!Size = Stock
<1> SUFFICES ASSUME StreamIInv PROVE Stream!Size = Stock
  OBVIOUS
<1>1. /\ stored \in Int /\ First \in Int /\ Stock \in Nat /\ Slots \in Nat \ {0}
      /\ Stock = stored - First /\ pk \in Nat
  BY SettingIs DEF Stock
<1>2. rd = First % Slots /\ wr = stored % Slots /\ Stock < Slots
  BY <1>1 DEF StreamIInv, IndicesRight
<1>3. stored % Slots \in Int
  BY <1>1, Division
<1>4. ((stored % Slots) - (First % Slots)) % Slots = ((stored % Slots) - First) % Slots
  BY <1>1, <1>3, AddRemainder
<1>5. (stored % Slots) - First = (stored % Slots) + (0 - First) /\ 0 - First \in Int
  BY <1>1, <1>3
<1>6. ((stored % Slots) + (0 - First)) % Slots = (stored + (0 - First)) % Slots
  BY <1>1, <1>5, AddRemainder
<1>7. stored + (0 - First) = Stock
  BY <1>1
<1>8. Stock % Slots = Stock
  <2>1. Stock = Slots * 0 + Stock /\ Stock \in 0..Slots - 1
    BY <1>1, <1>2
  <2>2. QED
    BY <1>1, <2>1, RemainderIs
<1>9. QED
  BY <1>2, <1>4, <1>5, <1>6, <1>7, <1>8 DEF Stream!Size

\* An index that moves by n is that of the sample n further on.
LEMMA IndexMoves ==
  ASSUME StreamIInv, NEW x \in Nat, NEW n \in Nat
  PROVE  ((x % Slots) + n) % Slots = (x + n) % Slots /\ (x + n) % Slots \in 0..Slots - 1
<1>1. x \in Int /\ n \in Int /\ x + n \in Int /\ Slots \in Nat \ {0}
  BY SettingIs
<1>2. QED
  BY <1>1, AddRemainder, Division

-----------------------------------------------------------------------------
(* The steps of the two threads *)

LEMMA StreamInit == Stream!Init => StreamIInv
<1> SUFFICES ASSUME Stream!Init PROVE StreamIInv
  OBVIOUS
<1> USE DEF Stream!Init
<1>1. /\ setting \in Settings /\ setting.window \in Nat \ {0} /\ setting.hop \in Nat \ {0}
      /\ setting.lag \in Nat /\ Slots \in Nat \ {0} /\ Samples \in Nat
  BY SessionsAssumption
<1>2. 0 * setting.hop = 0
  BY <1>1
<1>3. First = 0 /\ Stock = 0
  BY <1>2 DEF First, Stock
<1>4. 0 % Slots = 0
  <2>1. 0 = Slots * 0 + 0 /\ 0 \in 0..Slots - 1
    BY <1>1
  <2>2. QED
    BY <1>1, <2>1, RemainderIs
<1>5. Stream!TypeOK
  <2>1. 0 \in 0..Samples /\ 0 \in 0..Slots - 1 /\ 0 \in 0..setting.window /\ 0 < Slots /\ Samples \in 0..Samples
    BY <1>1
  <2>2. ring \in [0..Slots - 1 -> 0..Samples] /\ frame \in [1..setting.window -> 0..Samples]
    BY <2>1
  <2>3. outran \in BOOLEAN /\ nextFrame \in Nat /\ cpc = "idle"
    OBVIOUS
  <2>4. {unfed, stored, since} \subseteq 0..Samples /\ pi \in 0..pk /\ pk < Slots /\ {rd, wr} \subseteq 0..Slots - 1
    BY <2>1
  <2>5. QED
    BY <1>1, <2>1, <2>2, <2>3, <2>4 DEF Stream!TypeOK
<1>6. IndicesRight
  BY <1>1, <1>3, <1>4 DEF IndicesRight
<1>7. SlotsRight /\ FrameRight /\ LagRight
  BY <1>1, <1>3 DEF SlotsRight, FrameRight, LagRight
<1>8. QED
  BY <1>5, <1>6, <1>7 DEF StreamIInv

\* feed: what is taken fits behind what is in stock.
LEMMA FeedStep == ASSUME StreamIInv, NEW n \in Chunks, Stream!Feed(n) PROVE StreamIInv'
<1>1. /\ pk = 0 /\ n <= unfed /\ unfed' = unfed - n
      /\ pk' = Stream!Min({n, Slots - 1 - Stream!Size}) /\ pi' = 0
      /\ UNCHANGED <<setting, ring, rd, wr, stored, cpc, take, got, frame, nextFrame, since, outran>>
  BY DEF Stream!Feed, Stream!FeedWith, Stream!consumer
<1>2. n \in Nat \ {0}
  BY SessionsAssumption
<1>3. pk' \in {n, Slots - 1 - Stock} /\ pk' <= n /\ pk' <= Slots - 1 - Stock
  <2>1. Slots - 1 - Stock \in Int /\ n \in Int
    BY <1>2, SettingIs
  <2>2. QED
    BY <1>1, <2>1, SizeIsStock, OfTwo
<1>4. First' = First /\ Stock' = Stock
  BY <1>1 DEF First, Stock
<1>5. IndicesRight' /\ unfed' \in 0..Samples /\ pk' \in Nat /\ pk' < Slots
  <2>1. Stock + pk < Slots /\ stored + pk + unfed <= Samples /\ Stock >= 0
    BY DEF StreamIInv, IndicesRight
  <2>2. Stock < Slots /\ Slots - 1 - Stock \in Nat
    BY <1>1, <2>1, SettingIs
  <2>3. pk' \in Nat /\ pk' < Slots /\ Stock + pk' < Slots
    BY <1>2, <1>3, <2>2, SettingIs
  <2>4. unfed' \in 0..Samples /\ stored + pk' + unfed' <= Samples
    BY <1>1, <1>2, <1>3, <2>1, <2>3, SettingIs
  <2>5. QED
    BY <1>1, <1>4, <2>1, <2>3, <2>4 DEF StreamIInv, IndicesRight
<1>6. Stream!TypeOK'
  <2>1. pi' \in 0..pk'
    BY <1>1, <1>5
  <2>2. QED
    BY <1>1, <1>5, <2>1 DEF StreamIInv, Stream!TypeOK
<1>7. SlotsRight'
  <2>1. pi = 0 /\ stored + pi = stored /\ stored' + pi' = stored
    BY <1>1, SettingIs
  <2>2. QED
    BY <1>1, <1>4, <2>1 DEF StreamIInv, SlotsRight
<1>8. FrameRight' /\ LagRight'
  BY <1>1, <1>4 DEF StreamIInv, FrameRight, LagRight
<1>9. QED
  BY <1>5, <1>6, <1>7, <1>8 DEF StreamIInv

\* The slot that is written is behind all that are in stock.
LEMMA CopyStep == StreamIInv /\ Stream!Copy => StreamIInv'
<1> SUFFICES ASSUME StreamIInv, Stream!Copy PROVE StreamIInv'
  OBVIOUS
<1>1. /\ pi < pk /\ pi' = pi + 1
      /\ ring' = [ring EXCEPT ![(wr + pi) % Slots] = stored + pi']
      /\ UNCHANGED <<setting, rd, wr, unfed, stored, pk, cpc, take, got, frame, nextFrame, since, outran>>
  BY DEF Stream!Copy, Stream!consumer
<1> DEFINE last == stored + pi
<1>2. /\ last \in Nat /\ Slots \in Nat \ {0} /\ First \in Nat /\ pi' \in 0..pk
      /\ last - First < Slots /\ last + 1 = stored + pi' /\ last + 1 \in 0..Samples
  <2>1. Stock + pk < Slots /\ stored + pk + unfed <= Samples /\ stored = Stock + First
    BY SettingIs DEF StreamIInv, IndicesRight, Stock
  <2>2. QED
    BY <1>1, <2>1, SettingIs
<1>3. (wr + pi) % Slots = last % Slots /\ last % Slots \in 0..Slots - 1
  <2>1. pi \in Nat /\ stored \in Nat /\ wr = stored % Slots
    BY SettingIs DEF StreamIInv, IndicesRight
  <2>2. QED
    BY <2>1, IndexMoves
<1>4. First' = First /\ Stock' = Stock
  BY <1>1 DEF First, Stock
<1> HIDE DEF last
<1>5. ring \in [0..Slots - 1 -> 0..Samples] /\ ring' = [ring EXCEPT ![last % Slots] = last + 1]
  BY <1>1, <1>2, <1>3 DEF StreamIInv, Stream!TypeOK
<1>6. Stream!TypeOK'
  <2>1. ring' \in [0..Slots - 1 -> 0..Samples]
    BY <1>2, <1>3, <1>5
  <2>2. QED
    BY <1>1, <1>2, <2>1 DEF StreamIInv, Stream!TypeOK
<1>7. SlotsRight'
  <2> SUFFICES ASSUME NEW n \in First..last PROVE ring'[n % Slots] = n + 1
    <3>1. First'..stored' + pi' - 1 = First..last
      <4>1. stored + pi' - 1 = last
        BY <1>2, SettingIs
      <4>2. QED
        BY <1>1, <1>4, <4>1
    <3>2. QED
      BY <3>1 DEF SlotsRight
  <2>1. n \in Nat /\ n % Slots \in 0..Slots - 1
    BY <1>2, Division
  <2>2. CASE n = last
    BY <1>3, <1>5, <2>2
  <2>3. CASE n # last
    <3>1. n \in First..stored + pi - 1
      BY <1>2, <2>1, <2>3, SettingIs DEF last
    <3>2. ring[n % Slots] = n + 1
      BY <3>1 DEF StreamIInv, SlotsRight
    <3>3. n - last < Slots /\ last - n < Slots
      BY <1>2, <2>1
    <3>4. n % Slots # last % Slots
      <4>1. n \in Int /\ last \in Int
        BY <1>2, <2>1
      <4>2. SUFFICES ASSUME n % Slots = last % Slots PROVE n = last
        BY <2>3
      <4>3. QED
        BY <1>2, <3>3, <4>1, <4>2, SameSlot
    <3>5. QED
      BY <1>5, <2>1, <3>2, <3>4
  <2>4. QED
    BY <2>2, <2>3
<1>8. IndicesRight' /\ FrameRight' /\ LagRight'
  BY <1>1, <1>4 DEF StreamIInv, IndicesRight, FrameRight, LagRight
<1>9. QED
  BY <1>6, <1>7, <1>8 DEF StreamIInv

LEMMA PublishStep == StreamIInv /\ Stream!Publish => StreamIInv'
<1> SUFFICES ASSUME StreamIInv, Stream!Publish PROVE StreamIInv'
  OBVIOUS
<1>1. /\ pk > 0 /\ pi = pk /\ pk' = 0 /\ pi' = 0
      /\ wr' = (wr + pk) % Slots /\ stored' = stored + pk /\ since' = since + pk
      /\ UNCHANGED <<setting, ring, rd, unfed, cpc, take, got, frame, nextFrame, outran>>
  BY DEF Stream!Publish, Stream!consumer
<1>2. First' = First /\ Stock' = Stock + pk
  BY <1>1, SettingIs DEF First, Stock
<1>3. IndicesRight' /\ {stored', since'} \subseteq 0..Samples /\ wr' \in 0..Slots - 1
  <2>1. Stock + pk < Slots /\ stored + pk + unfed <= Samples /\ wr = stored % Slots /\ since <= stored
    BY DEF StreamIInv, IndicesRight
  <2>2. wr' = stored' % Slots /\ wr' \in 0..Slots - 1
    BY <1>1, <2>1, SettingIs, IndexMoves
  <2>3. stored' + pk' + unfed' <= Samples /\ since' <= stored' /\ {stored', since'} \subseteq 0..Samples
    BY <1>1, <2>1, SettingIs
  <2>4. Stock' >= 0 /\ Stock' + pk' < Slots /\ pk' \in Nat
    BY <1>1, <1>2, <2>1, SettingIs
  <2>5. QED
    BY <1>1, <1>2, <2>2, <2>3, <2>4 DEF StreamIInv, IndicesRight
<1>4. Stream!TypeOK'
  <2>1. pi' \in 0..pk' /\ pk' < Slots
    BY <1>1, SettingIs
  <2>2. QED
    BY <1>1, <1>3, <2>1 DEF StreamIInv, Stream!TypeOK
<1>5. SlotsRight'
  <2>1. stored' + pi' - 1 = stored + pi - 1
    BY <1>1, SettingIs
  <2>2. First'..stored' + pi' - 1 = First..stored + pi - 1
    BY <1>2, <2>1
  <2>3. QED
    BY <1>1, <2>2 DEF StreamIInv, SlotsRight
<1>6. FrameRight'
  <2>1. Stock' >= Stock
    BY <1>1, <1>2, SettingIs
  <2>2. cpc \in {"peek", "read", "call"} => Stock' >= setting.window
    BY <1>2, <2>1, SettingIs DEF StreamIInv, FrameRight
  <2>3. QED
    BY <1>1, <1>2, <2>2 DEF StreamIInv, FrameRight
<1>7. LagRight'
  <2>1. CASE cpc # "idle"
    <3> DEFINE bound == setting.window + setting.lag * setting.hop
    <3>1. bound \in Int
      BY SettingIs
    <3>2. Stock < bound + since
      BY <2>1 DEF StreamIInv, LagRight
    <3> HIDE DEF bound
    <3>3. Stock' < bound + since'
      BY <1>1, <1>2, <3>1, <3>2, SettingIs
    <3>4. QED
      BY <1>1, <3>3 DEF LagRight, bound
  <2>2. QED
    BY <1>1, <2>1 DEF LagRight
<1>8. QED
  BY <1>3, <1>4, <1>5, <1>6, <1>7 DEF StreamIInv

\* What is pending in s samples: dropping all of it leaves less than a window, and
\* takes no more than there is unless frames leave samples out.
LEMMA PendingFacts ==
  ASSUME StreamIInv, NEW s \in Nat
  PROVE  /\ Stream!Pending(s) \in Nat
         /\ s - Stream!Pending(s) * setting.hop < setting.window
         /\ setting.hop <= setting.window => Stream!Pending(s) * setting.hop <= s
         /\ \A L \in Nat : s < setting.window + L * setting.hop => Stream!Pending(s) <= L
<1> DEFINE hop == setting.hop
           window == setting.window
           q == (s - window) \div hop
           x == (s - window) % hop
           u == hop * q
           p == Stream!Pending(s)
<1>1. hop \in Nat \ {0} /\ window \in Nat \ {0}
  BY SettingIs
<1>2. s - window \in Int
  BY <1>1
<1>3. q \in Int /\ x \in 0..hop - 1 /\ s - window = u + x /\ u \in Int
  <2>1. q \in Int /\ x \in 0..hop - 1 /\ s - window = hop * q + x
    BY <1>1, <1>2, Division
  <2>2. u \in Int
    BY <1>1, <2>1
  <2>3. QED
    BY <2>1, <2>2
<1>4. p = IF s < window THEN 0 ELSE q + 1
  BY DEF Stream!Pending
<1>5. CASE s < window
  <2>1. p = 0 /\ 0 * hop = 0
    BY <1>1, <1>4, <1>5
  <2> HIDE DEF p, hop, window
  <2>2. p \in Nat /\ s - p * hop < window /\ p * hop <= s /\ \A L \in Nat : p <= L
    BY <1>5, <2>1
  <2>3. QED
    BY <2>2 DEF p, hop, window
<1>6. CASE ~(s < window)
  <2> HIDE DEF p, hop, window, q, x
  <2>1. q >= 0
    <3> SUFFICES ASSUME q <= -1 PROVE FALSE
      BY <1>3
    <3>1. hop * (0 - q - 1) >= 0 /\ hop * (0 - q - 1) = (0 - u) - hop
      BY <1>1, <1>3
    <3> HIDE DEF u
    <3>2. QED
      BY <1>1, <1>3, <1>6, <3>1
  <2>2. p = q + 1 /\ p \in Nat
    BY <1>3, <1>4, <1>6, <2>1
  <2>3. p * hop = u + hop
    BY <1>1, <1>3, <2>2
  <2>4. s - p * hop < window /\ (hop <= window => p * hop <= s)
    <3> HIDE DEF u
    <3>1. s = u + x + window
      BY <1>1, <1>3
    <3>2. QED
      BY <1>1, <1>3, <2>3, <3>1
  <2>5. ASSUME NEW L \in Nat, s < window + L * hop PROVE p <= L
    <3> SUFFICES ASSUME q >= L PROVE FALSE
      BY <1>3, <2>2
    <3>1. hop * (q - L) >= 0 /\ hop * (q - L) = u - L * hop /\ L * hop \in Int
      BY <1>1, <1>3
    <3> HIDE DEF u
    <3>2. QED
      BY <1>1, <1>3, <2>5, <3>1
  <2>6. QED
    BY <2>2, <2>4, <2>5 DEF p, hop, window
<1>7. QED
  BY <1>5, <1>6

\* The frame of a number n further on begins n hops further on, if there is as much.
LEMMA FirstMoves ==
  ASSUME StreamIInv, NEW n \in Nat, n * setting.hop <= Stock,
         nextFrame' = nextFrame + n, rd' = (rd + n * setting.hop) % Slots,
         UNCHANGED <<setting, ring, wr, unfed, stored, pk, pi>>, since' \in 0..since
  PROVE  /\ First' = First + n * setting.hop /\ Stock' = Stock - n * setting.hop
         /\ IndicesRight' /\ SlotsRight' /\ rd' \in 0..Slots - 1
<1> DEFINE u == n * setting.hop
<1>1. u \in Nat
  BY SettingIs
<1>2. First' = First + u
  BY SettingIs DEF First
<1> HIDE DEF u
<1>3. Stock' = Stock - u
  BY <1>1, <1>2, SettingIs DEF Stock
<1>4. u <= Stock /\ rd' = (rd + u) % Slots
  BY DEF u
<1>5. rd = First % Slots
  BY DEF StreamIInv, IndicesRight
<1>6. rd' = First' % Slots /\ rd' \in 0..Slots - 1
  BY <1>1, <1>2, <1>4, <1>5, IndexMoves, SettingIs
<1>7. IndicesRight'
  <2>1. /\ wr = stored % Slots /\ Stock + pk < Slots
        /\ stored + pk + unfed <= Samples /\ since <= stored
    BY DEF StreamIInv, IndicesRight
  <2>2. Stock' >= 0 /\ Stock' + pk < Slots /\ since' <= stored
    BY <1>1, <1>3, <1>4, <2>1, SettingIs
  <2>3. QED
    BY <1>6, <2>1, <2>2, SettingIs DEF IndicesRight
<1>8. SlotsRight'
  <2>1. ASSUME NEW i \in First'..stored + pi - 1 PROVE i \in First..stored + pi - 1
    BY <1>1, <1>2, SettingIs
  <2>2. QED
    BY <2>1 DEF StreamIInv, SlotsRight
<1>9. QED
  BY <1>2, <1>3, <1>6, <1>7, <1>8 DEF u

\* What is dropped leaves no more than the budget and less than a window, and is no
\* more than what is there unless frames leave samples out.
LEMMA DropFacts ==
  ASSUME StreamIInv
  PROVE  /\ Stream!Behind \in Nat
         /\ Stock - Stream!Behind * setting.hop < setting.window + setting.lag * setting.hop
         /\ setting.hop <= setting.window => Stream!Behind * setting.hop <= Stock
<1> DEFINE n == Stream!Behind
           p == Stream!Pending(Stock)
           u == p * setting.hop
           v == setting.lag * setting.hop
<1>1. p \in Nat /\ Stock - u < setting.window /\ (setting.hop <= setting.window => u <= Stock)
  BY PendingFacts, SettingIs
<1>2. n \in {0, p - setting.lag} /\ n >= 0 /\ n >= p - setting.lag
  <2>1. 0 \in Int /\ p - setting.lag \in Int
    BY <1>1, SettingIs
  <2>2. n = Stream!Max({0, p - setting.lag})
    BY SizeIsStock DEF Stream!Behind
  <2>3. QED
    BY <2>1, <2>2, OfTwo
<1> HIDE DEF n, p
<1>3. n \in Nat
  BY <1>1, <1>2, SettingIs
<1>4. v \in Nat /\ u \in Nat
  BY <1>1, SettingIs
<1>5. /\ Stock - n * setting.hop < setting.window + v
      /\ setting.hop <= setting.window => n * setting.hop <= Stock
  <2>1. CASE n = 0
    <3>1. n * setting.hop = 0
      BY <2>1, SettingIs
    <3>2. (setting.lag - p) * setting.hop >= 0 /\ (setting.lag - p) * setting.hop = v - u
      BY <1>1, <1>2, <2>1, SettingIs
    <3> HIDE DEF u, v
    <3>3. QED
      BY <1>1, <1>4, <3>1, <3>2, SettingIs
  <2>2. CASE n = p - setting.lag
    <3>1. n * setting.hop = u - v
      BY <1>1, <2>2, SettingIs
    <3> HIDE DEF u, v
    <3>2. QED
      BY <1>1, <1>4, <3>1, SettingIs
  <2>3. QED
    BY <1>2, <2>1, <2>2
<1>6. QED
  BY <1>3, <1>5 DEF n, v

\* pump, when what it drops is there.
LEMMA PumpStep ==
  ASSUME StreamIInv, Stream!Pump, Stream!Behind * setting.hop <= Stock, ~outran'
  PROVE  StreamIInv'
<1> DEFINE n == Stream!Behind
           v == setting.lag * setting.hop
<1>1. /\ cpc = "idle" /\ cpc' = "loop" /\ since' = 0
      /\ nextFrame' = nextFrame + n /\ rd' = (rd + n * setting.hop) % Slots
      /\ UNCHANGED <<setting, ring, wr, unfed, stored, pk, pi, take, got, frame>>
      /\ outran' = (outran \/ n * setting.hop > Stock)
  BY SizeIsStock DEF Stream!Pump, Stream!producer
<1>2. n \in Nat /\ Stock - n * setting.hop < setting.window + v /\ n * setting.hop <= Stock
  BY DropFacts
<1>3. outran' \in BOOLEAN
  BY <1>1
<1> HIDE DEF n
<1>4. n * setting.hop \in Nat /\ v \in Nat
  BY <1>2, SettingIs
<1>5. 0 \in 0..since
  BY SettingIs
<1>6. /\ First' = First + n * setting.hop /\ Stock' = Stock - n * setting.hop
      /\ IndicesRight' /\ SlotsRight' /\ rd' \in 0..Slots - 1
  BY <1>1, <1>2, <1>5, FirstMoves
<1>7. Stream!TypeOK'
  <2>1. nextFrame' \in Nat /\ since' \in 0..Samples
    BY <1>1, <1>2, SettingIs
  <2>2. QED
    BY <1>1, <1>3, <1>6, <2>1 DEF StreamIInv, Stream!TypeOK
<1>8. FrameRight'
  BY <1>1 DEF FrameRight
<1>9. LagRight'
  <2> HIDE DEF v
  <2>1. Stock' < setting.window + v + 0
    BY <1>2, <1>4, <1>6, SettingIs
  <2>2. QED
    BY <1>1, <2>1 DEF LagRight, v
<1>10. QED
  BY <1>6, <1>7, <1>8, <1>9 DEF StreamIInv

\* Steps of the pumping thread on what is its own.
LEMMA OwnStep ==
  ASSUME StreamIInv, UNCHANGED <<setting, ring, rd, wr, unfed, stored, pk, pi, nextFrame, since>>
  PROVE  First' = First /\ Stock' = Stock /\ IndicesRight' /\ SlotsRight'
<1>1. First' = First /\ Stock' = Stock
  BY DEF First, Stock
<1>2. QED
  BY <1>1 DEF StreamIInv, IndicesRight, SlotsRight

LEMMA LookStep == StreamIInv /\ Stream!Look => StreamIInv'
<1> SUFFICES ASSUME StreamIInv, Stream!Look PROVE StreamIInv'
  OBVIOUS
<1>1. /\ cpc = "loop" /\ cpc' = IF Stock >= setting.window THEN "peek" ELSE "idle"
      /\ UNCHANGED <<setting, ring, rd, wr, unfed, stored, pk, pi, take, got, frame, nextFrame, since, outran>>
  BY SizeIsStock DEF Stream!Look, Stream!producer
<1>2. First' = First /\ Stock' = Stock /\ IndicesRight' /\ SlotsRight'
  BY <1>1, OwnStep
<1>3. Stream!TypeOK'
  BY <1>1 DEF StreamIInv, Stream!TypeOK
<1>4. FrameRight' /\ LagRight'
  BY <1>1, <1>2 DEF StreamIInv, FrameRight, LagRight
<1>5. QED
  BY <1>2, <1>3, <1>4 DEF StreamIInv

LEMMA PeekStep == StreamIInv /\ Stream!Peek => StreamIInv'
<1> SUFFICES ASSUME StreamIInv, Stream!Peek PROVE StreamIInv'
  OBVIOUS
<1>1. /\ cpc = "peek" /\ cpc' = "read" /\ take' = Stream!Min({setting.window, Stock}) /\ got' = 0
      /\ UNCHANGED <<setting, ring, rd, wr, unfed, stored, pk, pi, frame, nextFrame, since, outran>>
  BY SizeIsStock DEF Stream!Peek, Stream!producer
<1>2. First' = First /\ Stock' = Stock /\ IndicesRight' /\ SlotsRight'
  BY <1>1, OwnStep
<1>3. Stock >= setting.window
  BY <1>1 DEF StreamIInv, FrameRight
<1>4. take' = setting.window
  <2>1. setting.window \in Int /\ Stock \in Int
    BY SettingIs
  <2>2. take' \in {setting.window, Stock} /\ take' <= setting.window
    BY <1>1, <2>1, OfTwo
  <2>3. QED
    BY <1>3, <2>1, <2>2
<1>5. Stream!TypeOK'
  <2>1. take' \in 0..setting.window /\ got' \in 0..take'
    BY <1>1, <1>4, SettingIs
  <2>2. QED
    BY <1>1, <2>1 DEF StreamIInv, Stream!TypeOK
<1>6. FrameRight' /\ LagRight'
  BY <1>1, <1>2, <1>3, <1>4 DEF StreamIInv, FrameRight, LagRight
<1>7. QED
  BY <1>2, <1>5, <1>6 DEF StreamIInv

\* The slot that is read has the sample of the frame's place.
LEMMA ReadStep == StreamIInv /\ Stream!Read => StreamIInv'
<1> SUFFICES ASSUME StreamIInv, Stream!Read PROVE StreamIInv'
  OBVIOUS
<1>1. /\ cpc = "read" /\ got < take /\ got' = got + 1
      /\ frame' = [frame EXCEPT ![got'] = ring[(rd + got) % Slots]]
      /\ UNCHANGED <<setting, ring, rd, wr, unfed, stored, pk, pi, cpc, take, nextFrame, since, outran>>
  BY DEF Stream!Read, Stream!producer
<1>2. First' = First /\ Stock' = Stock /\ IndicesRight' /\ SlotsRight'
  BY <1>1, OwnStep
<1>3. /\ Stock >= setting.window /\ take = setting.window
      /\ \A i \in 1..got : frame[i] = First + i
  BY <1>1 DEF StreamIInv, FrameRight
<1>4. got \in Nat /\ got' \in 1..setting.window /\ got' \in 0..take
  <2>1. got \in 0..take
    BY DEF StreamIInv, Stream!TypeOK
  <2>2. QED
    BY <1>1, <1>3, <2>1, SettingIs
<1>5. (rd + got) % Slots = (First + got) % Slots /\ (First + got) % Slots \in 0..Slots - 1
  <2>1. rd = First % Slots
    BY DEF StreamIInv, IndicesRight
  <2>2. QED
    BY <1>4, <2>1, IndexMoves, SettingIs
<1>6. ring[(First + got) % Slots] = First + got'
  <2>1. First + got \in First..stored + pi - 1
    BY <1>1, <1>3, <1>4, SettingIs DEF Stock
  <2>2. First + got + 1 = First + got'
    BY <1>1, <1>4, SettingIs
  <2>3. QED
    BY <2>1, <2>2 DEF StreamIInv, SlotsRight
<1>7. frame' = [frame EXCEPT ![got'] = First + got'] /\ First + got' \in 0..Samples
  <2>1. ring[(First + got) % Slots] \in 0..Samples
    BY <1>5 DEF StreamIInv, Stream!TypeOK
  <2>2. QED
    BY <1>1, <1>5, <1>6, <2>1
<1>8. frame \in [1..setting.window -> 0..Samples]
  BY DEF StreamIInv, Stream!TypeOK
<1>9. Stream!TypeOK'
  <2>1. frame' \in [1..setting.window -> 0..Samples]
    BY <1>4, <1>7, <1>8
  <2>2. QED
    BY <1>1, <1>4, <2>1 DEF StreamIInv, Stream!TypeOK
<1>10. FrameRight'
  <2>1. ASSUME NEW i \in 1..got' PROVE frame'[i] = First + i
    <3>1. i \in 1..setting.window /\ (i = got' \/ i \in 1..got)
      BY <1>1, <1>4, SettingIs
    <3>2. QED
      BY <1>3, <1>4, <1>7, <1>8, <3>1
  <2>2. QED
    BY <1>1, <1>2, <1>3, <2>1 DEF FrameRight
<1>11. LagRight'
  BY <1>1, <1>2 DEF StreamIInv, LagRight
<1>12. QED
  BY <1>2, <1>9, <1>10, <1>11 DEF StreamIInv

LEMMA CallStep == StreamIInv /\ Stream!Call => StreamIInv'
<1> SUFFICES ASSUME StreamIInv, Stream!Call PROVE StreamIInv'
  OBVIOUS
<1>1. /\ cpc = "read" /\ got = take /\ cpc' = "call"
      /\ UNCHANGED <<setting, ring, rd, wr, unfed, stored, pk, pi, take, got, frame, nextFrame, since, outran>>
  BY DEF Stream!Call, Stream!producer
<1>2. First' = First /\ Stock' = Stock /\ IndicesRight' /\ SlotsRight'
  BY <1>1, OwnStep
<1>3. Stream!TypeOK'
  BY <1>1 DEF StreamIInv, Stream!TypeOK
<1>4. FrameRight' /\ LagRight'
  BY <1>1, <1>2 DEF StreamIInv, FrameRight, LagRight
<1>5. QED
  BY <1>2, <1>3, <1>4 DEF StreamIInv

\* consume, when a hop is there.
LEMMA ConsumeStep ==
  ASSUME StreamIInv, Stream!Consume, setting.hop <= Stock, ~outran'
  PROVE  StreamIInv'
<1>1. /\ cpc = "call" /\ cpc' = "loop" /\ nextFrame' = nextFrame + 1
      /\ rd' = (rd + 1 * setting.hop) % Slots
      /\ UNCHANGED <<setting, ring, wr, unfed, stored, pk, pi, take, got, frame, since>>
      /\ outran' = (outran \/ setting.hop > Stock)
  <2>1. 1 * setting.hop = setting.hop
    BY SettingIs
  <2>2. QED
    BY <2>1, SizeIsStock DEF Stream!Consume, Stream!producer
<1>2. 1 * setting.hop = setting.hop /\ outran' \in BOOLEAN
  BY <1>1, SettingIs
<1>3. since' \in 0..since
  BY <1>1, SettingIs
<1>4. Stock' = Stock - setting.hop /\ IndicesRight' /\ SlotsRight' /\ rd' \in 0..Slots - 1
  BY <1>1, <1>2, <1>3, FirstMoves
<1>5. Stream!TypeOK'
  <2>1. nextFrame' \in Nat
    BY <1>1, SettingIs
  <2>2. QED
    BY <1>1, <1>4, <2>1 DEF StreamIInv, Stream!TypeOK
<1>6. FrameRight'
  BY <1>1 DEF FrameRight
<1>7. LagRight'
  <2> DEFINE bound == setting.window + setting.lag * setting.hop
  <2>1. bound \in Int /\ Stock < bound + since
    BY <1>1, SettingIs DEF StreamIInv, LagRight
  <2> HIDE DEF bound
  <2>2. Stock' < bound + since'
    BY <1>1, <1>4, <2>1, SettingIs
  <2>3. QED
    BY <1>1, <2>2 DEF LagRight, bound
<1>8. QED
  BY <1>4, <1>5, <1>6, <1>7 DEF StreamIInv

LEMMA StreamStutter ==
  StreamIInv /\ UNCHANGED streaming => StreamIInv'
BY DEF streaming, StreamIInv, Stream!TypeOK, IndicesRight, SlotsRight, FrameRight, LagRight, First, Stock

LEMMA StreamStep ==
  ASSUME StreamIInv, Stream!Next, ~outran'
  PROVE  StreamIInv'
<1>1. CASE Stream!Pump
  <2>1. Stream!Behind * setting.hop <= Stock
    <3>1. ~(Stream!Behind * setting.hop > Stock)
      BY <1>1, SizeIsStock DEF Stream!Pump
    <3>2. Stream!Behind * setting.hop \in Int /\ Stock \in Int
      BY DropFacts, SettingIs
    <3>3. QED
      BY <3>1, <3>2
  <2>2. QED
    BY <1>1, <2>1, PumpStep
<1>2. CASE Stream!Consume
  <2>1. ~(setting.hop > Stock)
    BY <1>2, SizeIsStock DEF Stream!Consume
  <2>2. setting.hop <= Stock
    BY <2>1, SettingIs
  <2>3. QED
    BY <1>2, <2>2, ConsumeStep
<1>3. QED
  BY <1>1, <1>2, FeedStep, CopyStep, PublishStep, LookStep, PeekStep, ReadStep, CallStep
     DEF Stream!Next, Stream!Feeding, Stream!Pumping

\* Only frames that leave samples out take more than there is.
LEMMA OutranStep ==
  ASSUME StreamIInv, Stream!Next, ~outran, outran'
  PROVE  setting.hop > setting.window
<1>1. CASE Stream!Pump
  <2>1. Stream!Behind * setting.hop > Stock
    BY <1>1, SizeIsStock DEF Stream!Pump
  <2>2. Stream!Behind * setting.hop \in Int /\ Stock \in Int
    BY DropFacts, SettingIs
  <2>3. ~(setting.hop <= setting.window)
    BY <2>1, <2>2, DropFacts
  <2>4. QED
    BY <2>3, SettingIs
<1>2. CASE Stream!Consume
  <2>1. setting.hop > Stock /\ Stock >= setting.window
    BY <1>2, SizeIsStock DEF Stream!Consume, StreamIInv, FrameRight
  <2>2. QED
    BY <2>1, SettingIs
<1>3. QED
  BY <1>1, <1>2 DEF Stream!Next, Stream!Feeding, Stream!Pumping, Stream!Feed, Stream!FeedWith,
     Stream!Copy, Stream!Publish, Stream!Look, Stream!Peek, Stream!Read, Stream!Call

\* What holds however much was taken out of the ring.
StreamTypes == Stream!TypeOK /\ pk \in Nat /\ stored + pk + unfed <= Samples /\ since <= stored

LEMMA TypesAre == StreamIInv => StreamTypes
BY DEF StreamTypes, StreamIInv, IndicesRight

LEMMA TypesStep == StreamTypes /\ [Stream!Next]_streaming => StreamTypes' /\ setting' = setting
<1> SUFFICES ASSUME StreamTypes, [Stream!Next]_streaming PROVE StreamTypes' /\ setting' = setting
  OBVIOUS
<1>1. /\ setting \in Settings /\ setting.window \in Nat \ {0} /\ setting.hop \in Nat \ {0}
      /\ setting.lag \in Nat /\ Slots \in Nat \ {0} /\ Samples \in Nat /\ nextFrame \in Nat
      /\ stored \in Nat /\ pk \in Nat /\ pi \in 0..pk /\ unfed \in Nat /\ since \in Nat
      /\ rd \in Nat /\ wr \in Nat /\ stored + pk + unfed <= Samples /\ since <= stored
  <2>1. setting \in Settings
    BY DEF StreamTypes, Stream!TypeOK
  <2>2. /\ setting.window \in Nat \ {0} /\ setting.hop \in Nat \ {0} /\ setting.lag \in Nat
        /\ Slots \in Nat \ {0} /\ Samples \in Nat
    BY <2>1, SessionsAssumption
  <2>3. QED
    BY <2>1, <2>2 DEF StreamTypes, Stream!TypeOK
<1>2. Stream!Size \in 0..Slots - 1
  <2>1. wr - rd \in Int
    BY <1>1
  <2>2. QED
    BY <1>1, <2>1, Division DEF Stream!Size
<1>3. \A i \in Int : i % Slots \in 0..Slots - 1
  BY <1>1, Division
<1>4. CASE UNCHANGED streaming
  BY <1>4 DEF streaming, StreamTypes, Stream!TypeOK
<1>5. ASSUME NEW n \in Chunks, Stream!Feed(n) PROVE StreamTypes' /\ setting' = setting
  <2>1. /\ n <= unfed /\ unfed' = unfed - n
        /\ pk = 0 /\ pk' = Stream!Min({n, Slots - 1 - Stream!Size}) /\ pi' = 0
        /\ UNCHANGED <<setting, ring, rd, wr, stored, cpc, take, got, frame, nextFrame, since, outran>>
    BY <1>5 DEF Stream!Feed, Stream!FeedWith, Stream!consumer
  <2>2. n \in Nat \ {0} /\ Slots - 1 - Stream!Size \in 0..Slots - 1
    BY <1>1, <1>2, SessionsAssumption
  <2>3. pk' \in {n, Slots - 1 - Stream!Size} /\ pk' <= n /\ pk' <= Slots - 1 - Stream!Size
    <3> DEFINE room == Slots - 1 - Stream!Size
    <3>1. room \in Int /\ n \in Int /\ pk' = Stream!Min({n, room})
      BY <1>1, <2>1, <2>2
    <3> HIDE DEF room
    <3>2. pk' \in {n, room} /\ pk' <= n /\ pk' <= room
      BY <3>1, OfTwo
    <3>3. QED
      BY <3>2 DEF room
  <2>4. pk' \in Nat /\ pk' < Slots /\ unfed' \in 0..Samples /\ stored + pk' + unfed' <= Samples /\ pi' \in 0..pk'
    BY <1>1, <2>1, <2>2, <2>3
  <2>5. QED
    BY <2>1, <2>4 DEF StreamTypes, Stream!TypeOK
<1>6. CASE Stream!Copy
  <2>1. /\ pi < pk /\ pi' = pi + 1
        /\ ring' = [ring EXCEPT ![(wr + pi) % Slots] = stored + pi']
        /\ UNCHANGED <<setting, rd, wr, unfed, stored, pk, cpc, take, got, frame, nextFrame, since, outran>>
    BY <1>6 DEF Stream!Copy, Stream!consumer
  <2>2. pi' \in 0..pk /\ stored + pi' \in 0..Samples /\ (wr + pi) % Slots \in 0..Slots - 1
    <3>1. wr + pi \in Int
      BY <1>1
    <3>2. (wr + pi) % Slots \in 0..Slots - 1
      BY <1>3, <3>1
    <3>3. pi' \in 0..pk /\ stored + pi' \in 0..Samples
      BY <1>1, <2>1
    <3>4. QED
      BY <3>2, <3>3
  <2>3. ring' \in [0..Slots - 1 -> 0..Samples]
    BY <2>1, <2>2 DEF StreamTypes, Stream!TypeOK
  <2>4. QED
    BY <2>1, <2>2, <2>3 DEF StreamTypes, Stream!TypeOK
<1>7. CASE Stream!Publish
  <2>1. /\ pi = pk /\ pk' = 0 /\ pi' = 0
        /\ wr' = (wr + pk) % Slots /\ stored' = stored + pk /\ since' = since + pk
        /\ UNCHANGED <<setting, ring, rd, unfed, cpc, take, got, frame, nextFrame, outran>>
    BY <1>7 DEF Stream!Publish, Stream!consumer
  <2>2. /\ wr' \in 0..Slots - 1 /\ {stored', since'} \subseteq 0..Samples /\ since' <= stored'
        /\ stored' + pk' + unfed' <= Samples /\ pk' < Slots
    <3>1. wr + pk \in Int
      BY <1>1
    <3>2. wr' \in 0..Slots - 1
      BY <1>3, <2>1, <3>1
    <3>3. stored' \in 0..Samples /\ since' \in 0..Samples
      BY <1>1, <2>1
    <3>4. QED
      BY <1>1, <2>1, <3>2, <3>3
  <2>3. pi' \in 0..pk' /\ pk' \in Nat
    BY <2>1
  <2>4. QED
    BY <2>1, <2>2, <2>3 DEF StreamTypes, Stream!TypeOK
<1>8. CASE Stream!Pump
  <2>1. /\ cpc' = "loop" /\ since' = 0
        /\ nextFrame' = nextFrame + Stream!Behind /\ rd' = (rd + Stream!Behind * setting.hop) % Slots
        /\ UNCHANGED <<setting, ring, wr, unfed, stored, pk, pi, take, got, frame>>
        /\ outran' = (outran \/ Stream!Behind * setting.hop > Stream!Size)
    BY <1>8 DEF Stream!Pump, Stream!producer
  <2>2. Stream!Behind \in Nat
    <3> DEFINE p == Stream!Pending(Stream!Size)
    <3>1. p \in Int
      <4>1. Stream!Size - setting.window \in Int
        BY <1>1, <1>2
      <4>2. (Stream!Size - setting.window) \div setting.hop \in Int
        BY <1>1, <4>1, Division
      <4>3. QED
        BY <4>2 DEF Stream!Pending
    <3> HIDE DEF p
    <3> DEFINE more == p - setting.lag
    <3>2. more \in Int /\ 0 \in Int
      BY <1>1, <3>1
    <3> HIDE DEF more
    <3>3. Stream!Max({0, more}) \in {0, more} /\ Stream!Max({0, more}) >= 0
      BY <3>2, OfTwo
    <3>4. Stream!Max({0, more}) \in Nat
      BY <3>2, <3>3
    <3>5. QED
      BY <3>4 DEF Stream!Behind, more, p
  <2>3. nextFrame' \in Nat /\ rd' \in 0..Slots - 1 /\ since' \in 0..Samples /\ since' <= stored' /\ outran' \in BOOLEAN
    <3>1. Stream!Behind * setting.hop \in Int
      BY <1>1, <2>2
    <3>2. rd + Stream!Behind * setting.hop \in Int
      BY <1>1, <3>1
    <3>3. QED
      BY <1>1, <1>3, <2>1, <2>2, <3>2
  <2>4. QED
    BY <2>1, <2>3 DEF StreamTypes, Stream!TypeOK
<1>9. CASE Stream!Look
  BY <1>9 DEF Stream!Look, Stream!producer, StreamTypes, Stream!TypeOK
<1>10. CASE Stream!Peek
  <2>1. /\ cpc' = "read" /\ take' = Stream!Min({setting.window, Stream!Size}) /\ got' = 0
        /\ UNCHANGED <<setting, ring, rd, wr, unfed, stored, pk, pi, frame, nextFrame, since, outran>>
    BY <1>10 DEF Stream!Peek, Stream!producer
  <2>2. take' \in {setting.window, Stream!Size} /\ take' <= setting.window
    <3>1. setting.window \in Int /\ Stream!Size \in Int
      BY <1>1, <1>2
    <3>2. QED
      BY <2>1, <3>1, OfTwo
  <2>3. take' \in 0..setting.window /\ got' \in 0..take'
    BY <1>1, <1>2, <2>1, <2>2
  <2>4. QED
    BY <2>1, <2>3 DEF StreamTypes, Stream!TypeOK
<1>11. CASE Stream!Read
  <2>1. /\ got < take /\ got' = got + 1
        /\ frame' = [frame EXCEPT ![got'] = ring[(rd + got) % Slots]]
        /\ UNCHANGED <<setting, ring, rd, wr, unfed, stored, pk, pi, cpc, take, nextFrame, since, outran>>
    BY <1>11 DEF Stream!Read, Stream!producer
  <2>2. got \in Nat /\ take \in 0..setting.window /\ got' \in 0..take
    <3>1. take \in 0..setting.window /\ got \in 0..take
      BY DEF StreamTypes, Stream!TypeOK
    <3>2. QED
      BY <1>1, <2>1, <3>1
  <2>3. (rd + got) % Slots \in 0..Slots - 1
    <3>1. rd + got \in Int
      BY <1>1, <2>2
    <3>2. QED
      BY <1>3, <3>1
  <2>4. ring[(rd + got) % Slots] \in 0..Samples
    BY <2>3 DEF StreamTypes, Stream!TypeOK
  <2>5. frame' \in [1..setting.window -> 0..Samples]
    BY <2>1, <2>4 DEF StreamTypes, Stream!TypeOK
  <2>6. QED
    BY <2>1, <2>2, <2>5 DEF StreamTypes, Stream!TypeOK
<1>12. CASE Stream!Call
  BY <1>12 DEF Stream!Call, Stream!producer, StreamTypes, Stream!TypeOK
<1>13. CASE Stream!Consume
  <2>1. /\ cpc' = "loop" /\ nextFrame' = nextFrame + 1 /\ rd' = (rd + setting.hop) % Slots
        /\ UNCHANGED <<setting, ring, wr, unfed, stored, pk, pi, take, got, frame, since>>
        /\ outran' = (outran \/ setting.hop > Stream!Size)
    BY <1>13 DEF Stream!Consume, Stream!producer
  <2>2. nextFrame' \in Nat /\ rd' \in 0..Slots - 1 /\ outran' \in BOOLEAN
    <3>1. rd + setting.hop \in Int
      BY <1>1
    <3>2. QED
      BY <1>1, <1>3, <2>1, <3>1
  <2>3. QED
    BY <2>1, <2>2 DEF StreamTypes, Stream!TypeOK
<1>14. QED
  BY <1>4, <1>5, <1>6, <1>7, <1>8, <1>9, <1>10, <1>11, <1>12, <1>13
     DEF Stream!Next, Stream!Feeding, Stream!Pumping

\* As long as the ring is not outrun everything is in its place; when it is, the
\* frames leave samples out.
AllStreams ==
  /\ StreamTypes
  /\ ~outran => StreamIInv
  /\ outran => setting.hop > setting.window

LEMMA AllStreamsStep == AllStreams /\ [Stream!Next]_streaming => AllStreams'
<1> SUFFICES ASSUME AllStreams, [Stream!Next]_streaming PROVE AllStreams'
  OBVIOUS
<1>1. StreamTypes' /\ setting' = setting
  BY TypesStep DEF AllStreams
<1>2. outran => outran'
  <2>1. CASE UNCHANGED streaming
    BY <2>1 DEF streaming
  <2>2. CASE Stream!Next
    BY <2>2 DEF Stream!Next, Stream!Feeding, Stream!Pumping, Stream!Feed, Stream!FeedWith, Stream!Copy,
       Stream!Publish, Stream!Pump, Stream!Look, Stream!Peek, Stream!Read, Stream!Call, Stream!Consume
  <2>3. QED
    BY <2>1, <2>2
<1>3. ASSUME ~outran' PROVE StreamIInv'
  <2>1. StreamIInv
    BY <1>2, <1>3 DEF AllStreams
  <2>2. CASE UNCHANGED streaming
    BY <2>1, <2>2, StreamStutter
  <2>3. CASE Stream!Next
    BY <1>3, <2>1, <2>3, StreamStep
  <2>4. QED
    BY <2>2, <2>3
<1>4. ASSUME outran' PROVE setting'.hop > setting'.window
  <2>1. CASE outran
    BY <1>1, <2>1 DEF AllStreams
  <2>2. CASE ~outran
    <3>1. CASE UNCHANGED streaming
      BY <1>4, <2>2, <3>1 DEF streaming
    <3>2. CASE Stream!Next
      <4>1. setting.hop > setting.window
        BY <1>4, <2>2, <3>2, OutranStep DEF AllStreams
      <4>2. QED
        BY <1>1, <4>1
    <3>3. QED
      BY <3>1, <3>2
  <2>3. QED
    BY <2>1, <2>2
<1>5. QED
  BY <1>1, <1>3, <1>4 DEF AllStreams

\* How late a frame is: so many hops go into what came in since.
LEMMA LagHolds == StreamIInv => Stream!LagIsBounded
<1> SUFFICES ASSUME StreamIInv, cpc = "call"
             PROVE  Stream!Pending(Stock) <= setting.lag + ((since + setting.hop - 1) \div setting.hop)
  BY SizeIsStock DEF Stream!LagIsBounded
<1> DEFINE hop == setting.hop
           lag == setting.lag
           c == (since + hop - 1) \div hop
           x == (since + hop - 1) % hop
           u == hop * c
           v == lag * hop
<1>1. hop \in Nat \ {0} /\ lag \in Nat /\ since \in Nat /\ setting.window \in Nat /\ Stock \in Nat
  BY SettingIs
<1>2. c \in Int /\ x \in 0..hop - 1 /\ since + hop - 1 = u + x
  <2>1. since + hop - 1 \in Int
    BY <1>1
  <2>2. QED
    BY <1>1, <2>1, Division
<1> HIDE DEF hop, lag, c, x
<1>3. u \in Int /\ v \in Int
  BY <1>1, <1>2
<1>4. u >= since
  <2> HIDE DEF u
  <2>1. QED
    BY <1>1, <1>2, <1>3
<1>5. c >= 0
  <2> SUFFICES ASSUME c <= -1 PROVE FALSE
    BY <1>2
  <2>1. hop * (0 - c - 1) >= 0 /\ hop * (0 - c - 1) = (0 - u) - hop
    BY <1>1, <1>2
  <2> HIDE DEF u
  <2>2. QED
    BY <1>1, <1>3, <1>4, <2>1
<1>6. Stock < setting.window + v + since
  BY DEF StreamIInv, LagRight, hop, lag
<1>7. (lag + c) * hop = v + u /\ lag + c \in Nat
  BY <1>1, <1>2, <1>5
<1>8. Stock < setting.window + (lag + c) * hop
  <2> HIDE DEF u, v
  <2>1. QED
    BY <1>1, <1>3, <1>4, <1>6, <1>7
<1>9. Stream!Pending(Stock) <= lag + c
  BY <1>1, <1>7, <1>8, PendingFacts DEF hop
<1>10. QED
  BY <1>9 DEF hop, lag, c

LEMMA StreamPromised == AllStreams => Stream!RingInv
<1> SUFFICES ASSUME AllStreams PROVE Stream!RingInv
  OBVIOUS
<1>1. ASSUME ~outran, cpc = "call" PROVE frame = [i \in 1..setting.window |-> nextFrame * setting.hop + i]
  <2>1. frame \in [1..setting.window -> 0..Samples]
    BY <1>1 DEF AllStreams, StreamIInv, Stream!TypeOK
  <2>2. \A i \in 1..setting.window : frame[i] = nextFrame * setting.hop + i
    BY <1>1 DEF AllStreams, StreamIInv, FrameRight, First
  <2>3. QED
    BY <2>1, <2>2
<1>2. ~outran => Stream!LagIsBounded
  BY LagHolds DEF AllStreams
<1>3. outran => Stream!LagIsBounded
  BY DEF Stream!LagIsBounded
<1>4. QED
  BY <1>1, <1>2, <1>3
     DEF AllStreams, StreamTypes, Stream!RingInv, Stream!FramesAreRight, Stream!FramesAreTheirs,
         Stream!OnlyLongHopsOutrun

-----------------------------------------------------------------------------
(* Streaming *)

LEMMA SessionsStream == SessionsSpec => [](kind = "streaming" => AllStreams)
<1>1. SessionsInit => (kind = "streaming" => AllStreams)
  <2>1. Stream!Init => StreamIInv /\ outran = FALSE
    BY StreamInit DEF Stream!Init
  <2>2. QED
    BY <2>1, TypesAre DEF SessionsInit, SomeStream, AllStreams
<1>2. (kind = "streaming" => AllStreams) /\ [SessionsNext]_sessions
        => (kind = "streaming" => AllStreams)'
  BY AllStreamsStep DEF SessionsNext, sessions, decoding
<1>3. QED
  BY <1>1, <1>2, PTL DEF SessionsSpec

\* For any ring, window, hop, budget and chunks: the callback gets the samples its
\* frame is numbered for, whatever the two threads do at the same time, and not later
\* than the budget and what came in since pump began (streaming.hpp push, peek,
\* pump), until the session takes more out of the ring than is in it, and it never
\* does unless its frames leave samples out.
THEOREM FramesAreOfTheirNumber == SessionsSpec => []StreamingInv
<1>1. (kind = "streaming" => AllStreams) => StreamingInv
  BY StreamPromised DEF StreamingInv
<1>2. QED
  BY <1>1, SessionsStream, PTL

-----------------------------------------------------------------------------
(* Decoding: the tokens behind the rows *)

\* How many tokens there are, the prompt's and the emitted ones.
Told == np + Len(emitted)

\* What is emitted is the path's, and nothing is emitted behind an end.
OnPath ==
  /\ Told <= Context + 1 /\ \A i \in 1..Len(emitted) : emitted[i] = path[np + i]
  /\ \A i \in 1..Len(emitted) - 1 : emitted[i] # Eos

Under == {"start", "sample", "loop", "propose", "verify"}
GoesOn ==
  /\ Len(emitted) < maxNew /\ ~stopped
  /\ emitted # <<>> => emitted[Len(emitted)] # Eos
IsOver == /\ emitted # <<>>
          /\ Len(emitted) = maxNew \/ emitted[Len(emitted)] = Eos \/ Told = Context + 1

EndRight ==
  /\ dpc \in Under => GoesOn
  /\ dpc = "done" /\ ~stopped => IsOver
  /\ dpc = "failed" => ~Decode!HasRoom

\* The first n rows of kv are of the h tokens of p and then of the proposals of d
\* behind the a accepted ones.
Rows(kv, n, p, h, d, a) ==
  Len(kv) = n /\ \A i \in 1..n : kv[i] = IF i <= h THEN p[i] ELSE d[i - (h - a)]

Target(n) == Rows(tkv, n, path, Told, drafted, acc)
Draft(n) == way = "draft" => Rows(dkv, n, path, Told, drafted, acc)

\* How far the rows of the two sessions go.
RowsRight ==
  /\ way # "draft" => dkv = <<>>
  /\ dpc = "start" => emitted = <<>> /\ dkv = <<>> /\ cur = path[np]
  /\ dpc = "sample" => way = "generate" /\ Target(Told)
  /\ dpc \in {"loop", "propose"} => way # "generate" /\ Target(Told - 1) /\ cur = path[Told]
  /\ dpc = "loop" => Draft(Told - 1)
  /\ dpc = "propose" => way = "draft" /\ acc = 0 /\ Draft(Told - 1 + Len(drafted))
  /\ dpc = "verify" => /\ way # "generate"
                       /\ Target(Told - acc + Len(drafted)) /\ Draft(Told - acc + Len(drafted) - 1)
  /\ dpc = "done" => /\ Target(Told - 1) \/ Target(Told)
                     /\ Draft(Told - 1) \/ Draft(Told)

\* A round has no more proposals than there is room for, the accepted ones are
\* emitted, and one at least is made.
RoundRight ==
  /\ dpc = "propose" => 0 < Decode!Room /\ Len(drafted) <= Decode!Room
  /\ dpc = "verify" => /\ drafted # <<>> /\ acc <= Len(emitted)
                       /\ Len(emitted) - acc + Len(drafted) <= maxNew
                       /\ \A i \in 1..acc : drafted[i] = path[Told - acc + i]

DecodeIInv == Decode!TypeOK /\ OnPath /\ EndRight /\ RowsRight /\ RoundRight

-----------------------------------------------------------------------------
(* Sequences of tokens *)

LEMMA SpeculativeIs ==
  ASSUME Decode!TypeOK
  PROVE  /\ np \in 1..Context /\ maxNew \in Nat \ {0} /\ ahead \in Nat \ {0} /\ draftContext \in Nat
         /\ Context \in Nat \ {0} /\ Eos \in Tokens
         /\ path \in Seq(Tokens) /\ Len(path) = Context + 1
         /\ emitted \in Seq(Tokens) /\ Len(emitted) \in Nat /\ drafted \in Seq(Tokens) /\ Len(drafted) \in Nat
         /\ tkv \in Seq(Tokens) /\ dkv \in Seq(Tokens) /\ Len(tkv) \in Nat /\ Len(dkv) \in Nat
         /\ acc \in Nat /\ acc <= Len(drafted)
         /\ Told \in Nat /\ Told >= np
<1>1. /\ np \in 1..Context /\ maxNew \in Nat \ {0} /\ ahead \in Nat \ {0} /\ draftContext \in Nat
      /\ Context \in Nat \ {0} /\ Eos \in Tokens
  BY SessionsAssumption DEF Decode!TypeOK
<1>2. path \in Seq(Tokens) /\ Len(path) = Context + 1
  <2>1. path \in [1..Context + 1 -> Tokens]
    BY DEF Decode!TypeOK
  <2>2. QED
    BY <1>1, <2>1
<1>3. /\ emitted \in Seq(Tokens) /\ drafted \in Seq(Tokens)
      /\ tkv \in Seq(Tokens) /\ dkv \in Seq(Tokens) /\ acc \in 0..Len(drafted)
  BY DEF Decode!TypeOK
<1>4. Len(emitted) \in Nat /\ Len(drafted) \in Nat /\ Len(tkv) \in Nat /\ Len(dkv) \in Nat
  BY <1>3
<1>5. acc \in Nat /\ acc <= Len(drafted)
  BY <1>3, <1>4
<1>6. Told \in Nat /\ Told >= np
  BY <1>1, <1>4 DEF Told
<1>7. QED
  BY <1>1, <1>2, <1>3, <1>4, <1>5, <1>6

\* The numbers among them.
LEMMA SpeculativeCounts ==
  ASSUME Decode!TypeOK
  PROVE  /\ np \in Nat /\ np >= 1 /\ np <= Context /\ Context \in Nat /\ draftContext \in Nat
         /\ maxNew \in Nat /\ maxNew >= 1 /\ ahead \in Nat
         /\ Len(emitted) \in Nat /\ Len(drafted) \in Nat /\ Len(tkv) \in Nat /\ Len(dkv) \in Nat
         /\ acc \in Nat /\ acc <= Len(drafted)
         /\ Told \in Nat /\ Told = np + Len(emitted) /\ Told >= 1 /\ Told - 1 \in Nat
<1>1. /\ np \in 1..Context /\ maxNew \in Nat \ {0} /\ ahead \in Nat \ {0} /\ draftContext \in Nat
      /\ Context \in Nat \ {0} /\ Len(emitted) \in Nat
  BY SpeculativeIs
<1>2. /\ Len(drafted) \in Nat /\ Len(tkv) \in Nat /\ Len(dkv) \in Nat
      /\ acc \in Nat /\ acc <= Len(drafted)
  BY SpeculativeIs
<1>3. np \in Nat /\ np >= 1 /\ np <= Context /\ Context \in Nat
  BY <1>1
<1>4. Told \in Nat /\ Told = np + Len(emitted) /\ Told >= 1 /\ Told - 1 \in Nat
  BY <1>1, <1>3 DEF Told
<1>5. maxNew \in Nat /\ maxNew >= 1 /\ ahead \in Nat
  BY <1>1
<1>6. QED
  BY <1>1, <1>2, <1>3, <1>4, <1>5

\* The sequences among them.
LEMMA SpeculativeSeqs ==
  ASSUME Decode!TypeOK
  PROVE  /\ emitted \in Seq(Tokens) /\ drafted \in Seq(Tokens)
         /\ tkv \in Seq(Tokens) /\ dkv \in Seq(Tokens) /\ cur \in Tokens
BY DEF Decode!TypeOK

\* One more row, of the next token of the run.
LEMMA RowsPush ==
  ASSUME NEW kv \in Seq(Tokens), NEW n \in Nat, NEW p, NEW h \in Nat, NEW d, NEW a \in Nat,
         Rows(kv, n, p, h, d, a), NEW t \in Tokens,
         t = IF n + 1 <= h THEN p[n + 1] ELSE d[n + 1 - (h - a)]
  PROVE  Append(kv, t) \in Seq(Tokens) /\ Rows(Append(kv, t), n + 1, p, h, d, a)
BY DEF Rows

\* Rows stay what they are when the next proposal is accepted, ...
LEMMA RowsAccepted ==
  ASSUME NEW kv, NEW n \in Nat, NEW p, NEW h \in Nat, NEW d, NEW a \in Nat,
         Rows(kv, n, p, h, d, a), d[a + 1] = p[h + 1]
  PROVE  Rows(kv, n, p, h + 1, d, a + 1)
<1> SUFFICES ASSUME NEW i \in 1..n
             PROVE  kv[i] = IF i <= h + 1 THEN p[i] ELSE d[i - ((h + 1) - (a + 1))]
  BY DEF Rows
<1>1. kv[i] = IF i <= h THEN p[i] ELSE d[i - (h - a)]
  BY DEF Rows
<1>2. (h + 1) - (a + 1) = h - a /\ (i = h + 1 => i - (h - a) = a + 1) /\ (i <= h + 1 => i <= h \/ i = h + 1)
  OBVIOUS
<1>3. QED
  BY <1>1, <1>2

\* ... and those of tokens whatever the proposals are.
LEMMA RowsOfTokens ==
  ASSUME NEW kv, NEW n \in Nat, NEW p, NEW h \in Nat, NEW d, NEW a, n <= h, Rows(kv, n, p, h, d, a),
         NEW g \in Nat, n <= g, NEW e, NEW b
  PROVE  Rows(kv, n, p, g, e, b)
BY DEF Rows

LEMMA RowsRewound ==
  ASSUME NEW kv \in Seq(Tokens), NEW n \in Nat, NEW p, NEW h \in Nat, NEW d, NEW a,
         Rows(kv, n, p, h, d, a), NEW m \in 0..n
  PROVE  /\ Decode!Rewound(kv, m) \in Seq(Tokens) /\ Len(Decode!Rewound(kv, m)) = m
         /\ Rows(Decode!Rewound(kv, m), m, p, h, d, a)
<1>1. CASE m < n
  <2>1. Decode!Rewound(kv, m) = SubSeq(kv, 1, m)
    BY <1>1 DEF Decode!Rewound, Rows
  <2>2. /\ SubSeq(kv, 1, m) \in Seq(Tokens) /\ Len(SubSeq(kv, 1, m)) = m
        /\ \A i \in 1..m : SubSeq(kv, 1, m)[i] = kv[i]
    BY SubSeqProperties DEF Rows
  <2>3. QED
    BY <2>1, <2>2 DEF Rows
<1>2. CASE ~(m < n)
  BY <1>2 DEF Decode!Rewound, Rows
<1>3. QED
  BY <1>1, <1>2

\* What was told so far is the beginning of the path.
LEMMA HistIs ==
  ASSUME Decode!TypeOK, OnPath
  PROVE  /\ Decode!Hist \in Seq(Tokens) /\ Len(Decode!Hist) = Told
         /\ \A i \in 1..Told : Decode!Hist[i] = path[i]
<1>1. /\ Decode!Prompt \in Seq(Tokens) /\ Len(Decode!Prompt) = np
      /\ \A i \in 1..np : Decode!Prompt[i] = path[i]
  BY SpeculativeIs, SubSeqProperties DEF Decode!Prompt
<1>2. /\ Decode!Hist \in Seq(Tokens) /\ Len(Decode!Hist) = np + Len(emitted)
      /\ \A i \in 1..np + Len(emitted) : Decode!Hist[i] = IF i <= np THEN Decode!Prompt[i] ELSE emitted[i - np]
  <2>1. Decode!Prompt \in Seq(Tokens) /\ emitted \in Seq(Tokens) /\ Len(Decode!Prompt) = np
    BY <1>1, SpeculativeSeqs
  <2>2. Decode!Hist = Decode!Prompt \o emitted
    BY DEF Decode!Hist
  <2>3. PICK p : p = Decode!Prompt
    OBVIOUS
  <2>4. /\ p \o emitted \in Seq(Tokens) /\ Len(p \o emitted) = Len(p) + Len(emitted)
        /\ \A i \in 1..Len(p) + Len(emitted) : (p \o emitted)[i] = IF i <= Len(p) THEN p[i] ELSE emitted[i - Len(p)]
    BY <2>1, <2>3, ConcatProperties
  <2>5. QED
    BY <2>1, <2>2, <2>3, <2>4
<1>3. ASSUME NEW i \in 1..Told PROVE Decode!Hist[i] = path[i]
  <2>1. CASE i <= np
    <3>1. i \in 1..np /\ i \in 1..np + Len(emitted)
      BY <2>1, SpeculativeCounts
    <3>2. Decode!Hist[i] = Decode!Prompt[i]
      BY <1>2, <2>1, <3>1
    <3>3. QED
      BY <1>1, <3>1, <3>2
  <2>2. CASE ~(i <= np)
    <3>1. i - np \in 1..Len(emitted) /\ np + (i - np) = i
      BY <2>2, SpeculativeIs DEF Told
    <3>2. QED
      BY <1>2, <2>2, <3>1 DEF Told, OnPath
  <2>3. QED
    BY <2>1, <2>2
<1>4. QED
  BY <1>2, <1>3 DEF Told

\* The tokens told are the history, and the next is drawn from their last row.
LEMMA RowsAreHist ==
  ASSUME Decode!TypeOK, OnPath, NEW kv \in Seq(Tokens), NEW d, NEW a, Rows(kv, Told, path, Told, d, a)
  PROVE  kv = Decode!Hist
<1>1. Len(kv) = Len(Decode!Hist) /\ \A i \in 1..Len(kv) : kv[i] = Decode!Hist[i]
  BY HistIs DEF Rows
<1>2. QED
  BY <1>1, HistIs, SeqEqual

LEMMA DrawnIs ==
  ASSUME Decode!TypeOK, OnPath, Told <= Context
  PROVE  Decode!Drawn(Decode!Hist, Decode!Hist) = {path[Told + 1]} /\ path[Told + 1] \in Tokens
<1>1. Decode!IsPrefix(Decode!Hist, path)
  <2>1. /\ SubSeq(path, 1, Told) \in Seq(Tokens) /\ Len(SubSeq(path, 1, Told)) = Told
        /\ \A i \in 1..Told : SubSeq(path, 1, Told)[i] = path[i]
    BY SpeculativeIs, SubSeqProperties
  <2>2. SubSeq(path, 1, Told) = Decode!Hist
    BY <2>1, HistIs, SeqEqual
  <2>3. SubSeq(Decode!Hist, 1, Len(Decode!Hist)) = Decode!Hist
    BY HistIs
  <2>4. QED
    BY <2>1, <2>2, <2>3, HistIs, SpeculativeIs DEF Decode!IsPrefix
<1>2. path[Told + 1] \in Tokens
  BY SpeculativeIs
<1>3. Len(Decode!Hist) = Told
  BY HistIs
<1>4. QED
  BY <1>1, <1>2, <1>3 DEF Decode!Drawn

LEMMA MinIs ==
  ASSUME NEW S \in SUBSET Nat, S # {}
  PROVE  Decode!Min(S) \in S /\ \A y \in S : Decode!Min(S) <= y
BY LeastOf DEF Decode!Min

\* The largest is as far from a bound as the least of the distances.
LEMMA MaxIs ==
  ASSUME NEW S, NEW n \in Nat, S \subseteq 0..n, S # {}
  PROVE  Decode!Max(S) \in S
<1> DEFINE D == {n - x : x \in S}
<1>1. D \in SUBSET Nat /\ D # {}
  <2>1. \A x \in S : n - x \in Nat
    OBVIOUS
  <2>2. QED
    BY <2>1
<1>2. PICK d \in D : \A e \in D : d <= e
  <2> HIDE DEF D
  <2>1. QED
    BY <1>1, LeastOf
<1>3. PICK x \in S : d = n - x
  OBVIOUS
<1>4. \A y \in S : x >= y
  <2> SUFFICES ASSUME NEW y \in S PROVE x >= y
    OBVIOUS
  <2>1. d <= n - y
    BY <1>2
  <2>2. QED
    BY <1>3, <2>1
<1>5. QED
  BY <1>4 DEF Decode!Max

LEMMA MinOfTwo ==
  ASSUME NEW x \in Int, NEW y \in Int
  PROVE  Decode!Min({x, y}) \in {x, y} /\ Decode!Min({x, y}) <= x /\ Decode!Min({x, y}) <= y
<1>1. \E z \in {x, y} : \A w \in {x, y} : z <= w
  OBVIOUS
<1>2. Decode!Min({x, y}) \in {x, y} /\ \A w \in {x, y} : Decode!Min({x, y}) <= w
  BY <1>1 DEF Decode!Min
<1>3. QED
  BY <1>2

LEMMA MinOfThree ==
  ASSUME NEW x \in Int, NEW y \in Int, NEW z \in Int
  PROVE  /\ Decode!Min({x, y, z}) \in Int
         /\ Decode!Min({x, y, z}) <= x /\ Decode!Min({x, y, z}) <= y /\ Decode!Min({x, y, z}) <= z
<1>1. \E u \in {x, y, z} : \A w \in {x, y, z} : u <= w
  <2>1. CASE x <= y /\ x <= z
    BY <2>1
  <2>2. CASE y <= x /\ y <= z
    BY <2>2
  <2>3. CASE z <= x /\ z <= y
    BY <2>3
  <2>4. QED
    BY <2>1, <2>2, <2>3
<1>2. Decode!Min({x, y, z}) \in {x, y, z} /\ \A w \in {x, y, z} : Decode!Min({x, y, z}) <= w
  BY <1>1 DEF Decode!Min
<1>3. QED
  BY <1>2

-----------------------------------------------------------------------------
(* What decoding looks at *)

LEMMA RoomIs ==
  ASSUME Decode!TypeOK
  PROVE  /\ Decode!Room \in Int /\ Decode!Room <= ahead
         /\ Decode!Room <= maxNew - Len(emitted) /\ Decode!Room <= Context - Len(tkv) - 1
<1>1. ahead \in Int /\ maxNew - Len(emitted) \in Int /\ Context - Len(tkv) - 1 \in Int
  BY SpeculativeIs
<1>2. QED
  BY <1>1, MinOfThree DEF Decode!Room

\* There is room for the answer in both sessions.
LEMMA RoomForAll ==
  ASSUME Decode!TypeOK, way = "draft", Decode!HasRoom
  PROVE  np + maxNew <= Context /\ np + maxNew <= draftContext
<1>1. np + maxNew <= Decode!Min({Context, draftContext})
  BY DEF Decode!HasRoom
<1>2. Decode!Min({Context, draftContext}) \in Int
      /\ Decode!Min({Context, draftContext}) <= Context
      /\ Decode!Min({Context, draftContext}) <= draftContext
  <2>1. Context \in Int /\ draftContext \in Int
    BY SpeculativeCounts
  <2>2. QED
    BY <2>1, MinOfTwo
<1>3. PICK least : least = Decode!Min({Context, draftContext})
  OBVIOUS
<1>4. QED
  BY <1>1, <1>2, <1>3, SpeculativeCounts

\* A row less than the call may need, and the call was given too little room.
LEMMA NoRoomFor ==
  ASSUME Decode!TypeOK, way = "draft", NEW n \in Int, n < np + maxNew,
         n >= Context \/ n >= draftContext
  PROVE  ~Decode!HasRoom
<1> SUFFICES ASSUME Decode!HasRoom PROVE FALSE
  OBVIOUS
<1>1. np + maxNew <= Context /\ np + maxNew <= draftContext
  BY RoomForAll
<1>2. np \in Nat /\ maxNew \in Nat /\ Context \in Nat /\ draftContext \in Nat
  BY SpeculativeCounts
<1>3. QED
  BY <1>1, <1>2

\* What the history proposes.
LEMMA LookupIs ==
  ASSUME NEW h \in Seq(Tokens), NEW room \in Int
  PROVE  /\ Decode!LookupDraft(h, room) \in Seq(Tokens)
         /\ Decode!LookupDraft(h, room) # <<>> => room > 0 /\ Len(Decode!LookupDraft(h, room)) <= room
<1> DEFINE found == {n \in 1..Ngram : n < Len(h) /\ Decode!Starts(h, n) # {}}
           n == Decode!Max(found)
           from == Decode!Max(Decode!Starts(h, n)) + n
           upto == Decode!Min({Len(h), from + room - 1})
<1>1. CASE room <= 0 \/ found = {}
  <2>1. Decode!LookupDraft(h, room) = <<>>
    BY <1>1 DEF Decode!LookupDraft
  <2>2. QED
    BY <2>1
<1>2. CASE ~(room <= 0 \/ found = {})
  <2>1. Decode!LookupDraft(h, room) = SubSeq(h, from, upto)
    BY <1>2 DEF Decode!LookupDraft
  <2>2. n \in found
    <3>1. Ngram \in Nat /\ found \subseteq 0..Ngram
      BY SessionsAssumption
    <3> HIDE DEF found
    <3>2. QED
      BY <1>2, <3>1, MaxIs
  <2>3. n \in Nat /\ n >= 1 /\ n < Len(h) /\ Decode!Starts(h, n) # {}
    <3>1. Ngram \in Nat
      BY SessionsAssumption
    <3> HIDE DEF n
    <3>2. QED
      BY <2>2, <3>1
  <2>4. Len(h) \in Nat
    OBVIOUS
  <2> HIDE DEF n
  <2>5. Decode!Max(Decode!Starts(h, n)) \in 1..Len(h) - n
    <3>1. Decode!Starts(h, n) \subseteq 1..Len(h) - n
      BY DEF Decode!Starts
    <3>2. Decode!Starts(h, n) \subseteq 0..Len(h)
      BY <2>3, <2>4, <3>1
    <3>3. QED
      BY <2>3, <2>4, <3>1, <3>2, MaxIs
  <2>6. from \in 1..Len(h)
    BY <2>3, <2>4, <2>5
  <2> HIDE DEF from
  <2>7. upto \in {Len(h), from + room - 1} /\ upto <= Len(h) /\ upto <= from + room - 1
    <3>1. Len(h) \in Int /\ from + room - 1 \in Int
      BY <2>4, <2>6
    <3>2. QED
      BY <3>1, MinOfTwo
  <2>8. upto \in Int /\ from <= upto
    BY <1>2, <2>4, <2>6, <2>7
  <2> HIDE DEF upto
  <2>9. SubSeq(h, from, upto) \in Seq(Tokens) /\ Len(SubSeq(h, from, upto)) = upto - from + 1
    <3>1. \A i \in from..upto : h[i] \in Tokens
      BY <2>4, <2>6, <2>7, <2>8
    <3>2. QED
      BY <2>6, <2>8, <3>1, SubSeqProperties
  <2>10. QED
    BY <1>2, <2>1, <2>4, <2>6, <2>7, <2>8, <2>9
<1>3. QED
  BY <1>1, <1>2

-----------------------------------------------------------------------------
(* One more token *)

\* Emitting the token that comes next on the path.
LEMMA Emitted ==
  ASSUME Decode!TypeOK, OnPath, GoesOn, Told <= Context, UNCHANGED Decode!question,
         NEW stop \in BOOLEAN, Decode!Emit(path[Told + 1], stop)
  PROVE  /\ emitted' \in Seq(Tokens) /\ Len(emitted') = Len(emitted) + 1 /\ Len(emitted') <= maxNew'
         /\ stopped' \in BOOLEAN /\ Told' = Told + 1 /\ OnPath'
         /\ ~stopped' /\ (Decode!Ended(path[Told + 1], stop) \/ Told = Context) => IsOver'
         /\ ~Decode!Ended(path[Told + 1], stop) => GoesOn'
<1> DEFINE t == path[Told + 1]
<1>1. t \in Tokens
  BY SpeculativeIs
<1>2. emitted' = Append(emitted, t) /\ stopped' = stop
  BY DEF Decode!Emit
<1>3. path' = path /\ np' = np /\ maxNew' = maxNew
  BY DEF Decode!question
<1> HIDE DEF t
<1>4. /\ emitted' \in Seq(Tokens) /\ Len(emitted') = Len(emitted) + 1
      /\ \A i \in 1..Len(emitted) : emitted'[i] = emitted[i]
      /\ emitted'[Len(emitted) + 1] = t
  BY <1>1, <1>2, SpeculativeIs
<1>5. Told' = Told + 1
  BY <1>3, <1>4, SpeculativeIs DEF Told
<1>6. Len(emitted) \in Nat /\ maxNew \in Nat /\ np \in Nat /\ Context \in Nat /\ Told = np + Len(emitted)
  BY SpeculativeIs DEF Told
<1>7. OnPath'
  <2>1. ASSUME NEW i \in 1..Len(emitted') PROVE emitted'[i] = path'[np' + i]
    <3>1. CASE i <= Len(emitted)
      BY <1>3, <1>4, <1>6, <3>1 DEF OnPath
    <3>2. CASE i = Len(emitted) + 1
      <4>1. np + i = Told + 1
        BY <1>6, <3>2
      <4>2. QED
        BY <1>3, <1>4, <3>2, <4>1 DEF t
    <3>3. QED
      BY <1>4, <1>6, <3>1, <3>2
  <2>2. ASSUME NEW i \in 1..Len(emitted') - 1 PROVE emitted'[i] # Eos
    <3>1. i \in 1..Len(emitted) /\ (i \in 1..Len(emitted) - 1 \/ i = Len(emitted))
      BY <1>4, <1>6
    <3>2. emitted # <<>>
      BY <1>6, <3>1
    <3>3. emitted[i] # Eos
      BY <3>1, <3>2 DEF OnPath, GoesOn
    <3>4. QED
      BY <1>4, <3>1, <3>3
  <2>3. Told' <= Context + 1
    BY <1>5, <1>6
  <2>4. QED
    BY <2>1, <2>2, <2>3 DEF OnPath
<1>8. emitted' # <<>> /\ emitted'[Len(emitted')] = t /\ Len(emitted') <= maxNew
  BY <1>4, <1>6 DEF GoesOn
<1>9. ASSUME ~stopped', Decode!Ended(t, stop) \/ Told = Context PROVE IsOver'
  BY <1>2, <1>3, <1>4, <1>5, <1>6, <1>8, <1>9 DEF IsOver, Decode!Ended
<1>10. ASSUME ~Decode!Ended(t, stop) PROVE GoesOn'
  BY <1>2, <1>3, <1>4, <1>6, <1>8, <1>10 DEF GoesOn, Decode!Ended
<1>11. QED
  BY <1>2, <1>3, <1>4, <1>5, <1>7, <1>8, <1>9, <1>10 DEF t

\* One more proposal leaves the rows that do not reach it.
LEMMA RowsExtended ==
  ASSUME NEW kv, NEW n \in Nat, NEW p, NEW h \in Nat, NEW d \in Seq(Tokens), NEW a \in Nat,
         Rows(kv, n, p, h, d, a), n <= h - a + Len(d), a <= h, NEW t \in Tokens
  PROVE  Rows(kv, n, p, h, Append(d, t), a)
<1> SUFFICES ASSUME NEW i \in 1..n
             PROVE  kv[i] = IF i <= h THEN p[i] ELSE Append(d, t)[i - (h - a)]
  BY DEF Rows
<1>1. kv[i] = IF i <= h THEN p[i] ELSE d[i - (h - a)]
  BY DEF Rows
<1>2. ~(i <= h) => i - (h - a) \in 1..Len(d)
  BY LenProperties
<1>3. \A j \in 1..Len(d) : Append(d, t)[j] = d[j]
  OBVIOUS
<1>4. QED
  BY <1>1, <1>2, <1>3

\* The rows of the last token and of the proposals.
LEMMA RowsScored ==
  ASSUME NEW kv \in Seq(Tokens), NEW p, NEW h \in Nat \ {0}, NEW e, NEW b,
         Rows(kv, h - 1, p, h, e, b), NEW c \in Tokens, c = p[h], NEW q \in Seq(Tokens)
  PROVE  /\ kv \o <<c>> \o q \in Seq(Tokens) /\ Len(kv \o <<c>> \o q) = h + Len(q)
         /\ Rows(kv \o <<c>> \o q, h + Len(q), p, h, q, 0)
<1> DEFINE s == kv \o <<c>>
<1>1. Len(kv) = h - 1 /\ \A i \in 1..h - 1 : kv[i] = p[i]
  BY DEF Rows
<1>2. s \in Seq(Tokens) /\ Len(s) = h /\ \A i \in 1..h : s[i] = p[i]
  <2>1. /\ s \in Seq(Tokens) /\ Len(s) = Len(kv) + 1
        /\ \A i \in 1..Len(kv) + 1 : s[i] = IF i <= Len(kv) THEN kv[i] ELSE c
    OBVIOUS
  <2> HIDE DEF s
  <2>2. QED
    BY <1>1, <2>1
<1> HIDE DEF s
<1>3. Len(q) \in Nat
  OBVIOUS
<1>4. /\ s \o q \in Seq(Tokens) /\ Len(s \o q) = h + Len(q)
      /\ \A i \in 1..h + Len(q) : (s \o q)[i] = IF i <= h THEN s[i] ELSE q[i - h]
  BY <1>2, ConcatProperties
<1>5. Rows(s \o q, h + Len(q), p, h, q, 0)
  <2> SUFFICES ASSUME NEW i \in 1..h + Len(q)
               PROVE  (s \o q)[i] = IF i <= h THEN p[i] ELSE q[i - (h - 0)]
    BY <1>4 DEF Rows
  <2>1. h - 0 = h /\ (i <= h => i \in 1..h)
    BY <1>3
  <2>2. QED
    BY <1>2, <1>4, <2>1
<1>6. QED
  BY <1>4, <1>5 DEF s

-----------------------------------------------------------------------------
(* Each step of decoding *)

LEMMA DecodeInit == Decode!Init => DecodeIInv
<1> SUFFICES ASSUME Decode!Init PROVE DecodeIInv
  OBVIOUS
<1>1. /\ np \in 1..Context /\ maxNew \in Nat \ {0} /\ ahead \in Nat \ {0} /\ draftContext \in Nat
      /\ Context \in Nat
  BY SessionsAssumption DEF Decode!Init
<1>2. cur = path[np] /\ cur \in Tokens
  BY <1>1 DEF Decode!Init
<1>3. Decode!TypeOK
  <2>1. /\ <<>> \in Seq(Tokens) /\ Len(<<>>) = 0 /\ 0 <= Context /\ 0 <= draftContext /\ 0 <= maxNew
        /\ 0 <= ahead /\ 0 \in 0..0
    BY <1>1
  <2>2. QED
    BY <1>2, <2>1 DEF Decode!Init, Decode!TypeOK
<1>4. OnPath /\ EndRight /\ RowsRight /\ RoundRight
  BY <1>1, <1>2 DEF Decode!Init, OnPath, EndRight, RowsRight, RoundRight, GoesOn, Told, Under
<1>5. QED
  BY <1>3, <1>4 DEF DecodeIInv

LEMMA GenerateStartInv == DecodeIInv /\ Decode!GenerateStart => DecodeIInv'
<1> SUFFICES ASSUME DecodeIInv, Decode!GenerateStart PROVE DecodeIInv'
  OBVIOUS
<1>1. /\ Decode!TypeOK /\ way = "generate" /\ dpc' = "sample" /\ tkv' = Decode!Prompt /\ emitted = <<>>
      /\ dkv = <<>>
      /\ UNCHANGED <<way, path, np, maxNew, ahead, draftContext, dkv, emitted, cur, drafted, acc, stopped>>
  BY DEF DecodeIInv, RowsRight, Decode!GenerateStart, Decode!question
<1>2. /\ Decode!Prompt \in Seq(Tokens) /\ Len(Decode!Prompt) = np
      /\ \A i \in 1..np : Decode!Prompt[i] = path[i]
  BY <1>1, SpeculativeIs, SubSeqProperties DEF Decode!Prompt
<1>3. Told = np /\ Told' = np /\ np <= Context
  BY <1>1, SpeculativeIs DEF Told
<1>4. Decode!TypeOK'
  BY <1>1, <1>2, <1>3 DEF Decode!TypeOK
<1>5. OnPath'
  BY <1>1, <1>3 DEF DecodeIInv, OnPath
<1>6. EndRight' /\ RoundRight'
  BY <1>1 DEF DecodeIInv, EndRight, GoesOn, Under, RoundRight, Decode!GenerateStart
<1>7. RowsRight'
  BY <1>1, <1>2, <1>3 DEF RowsRight, Target, Rows
<1>8. QED
  BY <1>4, <1>5, <1>6, <1>7 DEF DecodeIInv

\* The session has the rows of the history: the next token is drawn from the last.
LEMMA DrawnOnPath ==
  ASSUME Decode!TypeOK, OnPath, NEW kv \in Seq(Tokens), NEW d, NEW a, Rows(kv, Told, path, Told, d, a),
         Len(kv) <= Context, NEW t \in Decode!Drawn(kv, Decode!Hist)
  PROVE  Told <= Context /\ t = path[Told + 1] /\ t \in Tokens
<1>1. kv = Decode!Hist
  BY RowsAreHist
<1>2. Told <= Context
  BY DEF Rows
<1>3. QED
  BY <1>1, <1>2, DrawnIs

LEMMA GenerateInv == DecodeIInv /\ Decode!Generate => DecodeIInv'
<1> SUFFICES ASSUME DecodeIInv, Decode!Generate PROVE DecodeIInv'
  OBVIOUS
<1>1. /\ Decode!TypeOK /\ OnPath /\ GoesOn /\ way = "generate" /\ dkv = <<>> /\ Target(Told)
      /\ dpc = "sample" /\ UNCHANGED Decode!question /\ UNCHANGED <<dkv, cur, drafted, acc>>
  BY DEF DecodeIInv, EndRight, RowsRight, Under, Decode!Generate
<1>2. PICK t \in Decode!Drawn(tkv, Decode!Hist), stop \in BOOLEAN :
        /\ Decode!Emit(t, stop)
        /\ IF Decode!Ended(t, stop) \/ Len(tkv) >= Context
           THEN dpc' = "done" /\ UNCHANGED tkv
           ELSE tkv' = Append(tkv, t) /\ UNCHANGED dpc
  BY DEF Decode!Generate
<1>3. /\ tkv \in Seq(Tokens) /\ Len(tkv) = Told /\ Len(tkv) <= Context /\ Told \in Nat /\ Context \in Nat
      /\ Rows(tkv, Told, path, Told, drafted, acc) /\ acc \in Nat
  BY <1>1, SpeculativeIs DEF Target, Rows, Decode!TypeOK
<1>4. Told <= Context /\ t = path[Told + 1] /\ t \in Tokens
  BY <1>1, <1>2, <1>3, DrawnOnPath
<1>5. /\ emitted' \in Seq(Tokens) /\ Len(emitted') = Len(emitted) + 1 /\ Len(emitted') <= maxNew'
      /\ stopped' \in BOOLEAN /\ Told' = Told + 1 /\ OnPath'
      /\ ~stopped' /\ (Decode!Ended(t, stop) \/ Told = Context) => IsOver'
      /\ ~Decode!Ended(t, stop) => GoesOn'
  BY <1>1, <1>2, <1>4, Emitted
<1>6. path' = path /\ way' = way
  BY <1>1 DEF Decode!question
<1>7. CASE Decode!Ended(t, stop) \/ Len(tkv) >= Context
  <2>1. dpc' = "done" /\ tkv' = tkv
    BY <1>2, <1>7
  <2>2. Decode!TypeOK'
    BY <1>1, <1>5, <2>1 DEF Decode!TypeOK, Decode!question
  <2>3. EndRight' /\ RoundRight'
    BY <1>3, <1>5, <1>7, <2>1 DEF EndRight, RoundRight, Under
  <2>4. Rows(tkv', Told, path', Told', drafted', acc')
    BY <1>1, <1>3, <1>5, <1>6, <2>1, RowsOfTokens
  <2>5. Told' - 1 = Told
    BY <1>3, <1>5
  <2>6. RowsRight'
    BY <1>1, <1>6, <2>1, <2>4, <2>5 DEF RowsRight, Target, Draft
  <2>7. QED
    BY <1>5, <2>2, <2>3, <2>6 DEF DecodeIInv
<1>8. CASE ~(Decode!Ended(t, stop) \/ Len(tkv) >= Context)
  <2>1. dpc' = "sample" /\ tkv' = Append(tkv, t)
    BY <1>1, <1>2, <1>8
  <2>2. tkv' \in Seq(Tokens) /\ Len(tkv') = Told + 1 /\ Len(tkv') <= Context
    BY <1>3, <1>4, <1>8, <2>1
  <2>3. Decode!TypeOK'
    BY <1>1, <1>5, <2>1, <2>2 DEF Decode!TypeOK, Decode!question
  <2>4. EndRight' /\ RoundRight'
    BY <1>5, <1>8, <2>1 DEF EndRight, RoundRight, Under
  <2>5. Rows(tkv, Told, path, Told + 1, drafted, acc)
    BY <1>3, RowsOfTokens
  <2>6. Rows(Append(tkv, t), Told + 1, path, Told + 1, drafted, acc)
    <3>1. t = IF Told + 1 <= Told + 1 THEN path[Told + 1] ELSE drafted[Told + 1 - (Told + 1 - acc)]
      BY <1>3, <1>4
    <3>2. Told + 1 \in Nat
      BY <1>3
    <3>3. QED
      BY <1>3, <1>4, <2>5, <3>1, <3>2, RowsPush
  <2>7. RowsRight'
    BY <1>1, <1>5, <1>6, <2>1, <2>6 DEF RowsRight, Target, Draft
  <2>8. QED
    BY <1>5, <2>3, <2>4, <2>7 DEF DecodeIInv
<1>9. QED
  BY <1>7, <1>8

LEMMA PrefillInv == DecodeIInv /\ Decode!Prefill => DecodeIInv'
<1> SUFFICES ASSUME DecodeIInv, Decode!Prefill PROVE DecodeIInv'
  OBVIOUS
<1>1. /\ Decode!TypeOK /\ way # "generate" /\ dpc' = "loop" /\ tkv' = Decode!Front(Decode!Prompt)
      /\ dkv' = (IF way = "draft" THEN Decode!Front(Decode!Prompt) ELSE dkv)
      /\ Len(dkv') + 0 <= draftContext /\ emitted = <<>> /\ dkv = <<>> /\ cur = path[np] /\ dpc = "start"
      /\ UNCHANGED <<way, path, np, maxNew, ahead, draftContext, emitted, cur, drafted, acc, stopped>>
  BY DEF DecodeIInv, RowsRight, Decode!Prefill, Decode!question, Decode!Fits
<1>2. /\ Decode!Prompt \in Seq(Tokens) /\ Len(Decode!Prompt) = np
      /\ \A i \in 1..np : Decode!Prompt[i] = path[i]
  BY <1>1, SpeculativeIs, SubSeqProperties DEF Decode!Prompt
<1>3. np \in 1..Context /\ Context \in Nat
  BY <1>1, SpeculativeIs
<1> DEFINE f == Decode!Front(Decode!Prompt)
<1>4. f \in Seq(Tokens) /\ Len(f) = np - 1 /\ \A i \in 1..np - 1 : f[i] = path[i]
  <2>1. f = SubSeq(Decode!Prompt, 1, np - 1)
    BY <1>2 DEF Decode!Front
  <2>2. QED
    BY <1>2, <1>3, <2>1, SubSeqProperties
<1> HIDE DEF f
<1>5. Told = np /\ Told' = np
  BY <1>1, <1>3 DEF Told
<1>6. tkv' = f /\ dkv' = IF way = "draft" THEN f ELSE <<>>
  BY <1>1 DEF f
<1>7. Decode!TypeOK'
  BY <1>1, <1>3, <1>4, <1>6 DEF Decode!TypeOK
<1>8. OnPath'
  BY <1>1, <1>5, <1>3 DEF DecodeIInv, OnPath
<1>9. EndRight' /\ RoundRight'
  BY <1>1 DEF DecodeIInv, EndRight, GoesOn, Under, RoundRight
<1>10. RowsRight'
  BY <1>1, <1>3, <1>4, <1>5, <1>6 DEF RowsRight, Target, Draft, Rows
<1>11. QED
  BY <1>7, <1>8, <1>9, <1>10 DEF DecodeIInv

\* A call that raises had no room for its answer.
LEMMA RaiseInv ==
  ASSUME DecodeIInv, Decode!Raise, ~Decode!HasRoom
  PROVE  DecodeIInv'
<1>1. /\ Decode!TypeOK /\ OnPath /\ RowsRight /\ dpc' = "failed"
      /\ UNCHANGED <<way, path, np, maxNew, ahead, draftContext, tkv, dkv, emitted, cur, drafted, acc, stopped>>
  BY DEF DecodeIInv, Decode!Raise, Decode!question
<1>2. Decode!TypeOK'
  BY <1>1 DEF Decode!TypeOK
<1>3. OnPath'
  BY <1>1 DEF OnPath, Told
<1>4. EndRight' /\ RoundRight'
  BY <1>1 DEF EndRight, RoundRight, Under, Decode!HasRoom
<1>5. RowsRight'
  BY <1>1 DEF RowsRight
<1>6. QED
  BY <1>2, <1>3, <1>4, <1>5 DEF DecodeIInv

LEMMA PrefillFailsInv == DecodeIInv /\ Decode!PrefillFails => DecodeIInv'
<1> SUFFICES ASSUME DecodeIInv, Decode!PrefillFails PROVE DecodeIInv'
  OBVIOUS
<1>1. Decode!TypeOK /\ way = "draft" /\ np - 1 > draftContext /\ Decode!Raise
  BY DEF DecodeIInv, Decode!PrefillFails
<1>2. np \in Int /\ np < np + maxNew /\ np >= draftContext
  BY <1>1, SpeculativeCounts
<1>3. ~Decode!HasRoom
  BY <1>1, <1>2, NoRoomFor
<1>4. QED
  BY <1>1, <1>3, RaiseInv

LEMMA PlainFailsInv == DecodeIInv /\ Decode!PlainFails => DecodeIInv'
<1> SUFFICES ASSUME DecodeIInv, Decode!PlainFails PROVE DecodeIInv'
  OBVIOUS
<1>1. /\ Decode!TypeOK /\ EndRight /\ RowsRight
      /\ dpc = "loop" /\ way = "draft" /\ Decode!Raise
      /\ ~(Len(tkv) + 1 <= Context) \/ ~(Len(dkv) + 1 <= draftContext)
  BY DEF DecodeIInv, Decode!PlainFails, Decode!Fits
<1>2. Told \in Int /\ Told < np + maxNew /\ (Told >= Context \/ Told >= draftContext)
  <2>1. GoesOn /\ Target(Told - 1) /\ Draft(Told - 1)
    BY <1>1 DEF EndRight, Under, RowsRight
  <2>2. Len(tkv) = Told - 1 /\ Len(dkv) = Told - 1
    BY <1>1, <2>1 DEF Target, Draft, Rows
  <2>3. Len(emitted) < maxNew
    BY <2>1 DEF GoesOn
  <2>4. /\ Told \in Nat /\ Told = np + Len(emitted) /\ np \in Nat /\ Len(emitted) \in Nat
        /\ maxNew \in Nat /\ Context \in Nat /\ draftContext \in Nat
    BY <1>1, SpeculativeCounts
  <2>5. QED
    BY <1>1, <2>2, <2>3, <2>4
<1>3. ~Decode!HasRoom
  BY <1>1, <1>2, NoRoomFor
<1>4. QED
  BY <1>1, <1>3, RaiseInv

LEMMA ProposalFailsInv == DecodeIInv /\ Decode!ProposalFails => DecodeIInv'
<1> SUFFICES ASSUME DecodeIInv, Decode!ProposalFails PROVE DecodeIInv'
  OBVIOUS
<1>1. /\ Decode!TypeOK /\ way = "draft" /\ Decode!Raise /\ dpc = "propose"
      /\ Len(drafted) < Decode!Room /\ ~(Len(dkv) + 1 <= draftContext)
      /\ Len(dkv) = Told - 1 + Len(drafted)
  BY DEF DecodeIInv, Decode!ProposalFails, Decode!Fits, RowsRight, Draft, Rows
<1>2. /\ Told + Len(drafted) \in Int /\ Told + Len(drafted) < np + maxNew
      /\ Told + Len(drafted) >= draftContext
  <2>1. Decode!Room \in Int /\ Decode!Room <= maxNew - Len(emitted)
    BY <1>1, RoomIs
  <2>2. /\ Told \in Nat /\ Told = np + Len(emitted) /\ np \in Nat /\ Len(emitted) \in Nat
        /\ Len(drafted) \in Nat /\ maxNew \in Nat /\ draftContext \in Nat
    BY <1>1, SpeculativeCounts
  <2>3. /\ Len(drafted) < Decode!Room /\ ~(Len(dkv) + 1 <= draftContext)
        /\ Len(dkv) = Told - 1 + Len(drafted)
    BY <1>1
  <2>4. PICK room : room = Decode!Room
    OBVIOUS
  <2>5. QED
    BY <2>1, <2>2, <2>3, <2>4
<1>3. ~Decode!HasRoom
  BY <1>1, <1>2, NoRoomFor
<1>4. QED
  BY <1>1, <1>3, RaiseInv

LEMMA BonusFailsInv == DecodeIInv /\ Decode!BonusFails => DecodeIInv'
<1> SUFFICES ASSUME DecodeIInv, Decode!BonusFails PROVE DecodeIInv'
  OBVIOUS
<1>1. /\ Decode!TypeOK /\ way = "draft" /\ Decode!Raise /\ dpc = "verify" /\ GoesOn
      /\ acc = Len(drafted) /\ ~(Len(dkv) + 1 <= draftContext)
      /\ Len(dkv) = Told - acc + Len(drafted) - 1
  BY DEF DecodeIInv, Decode!BonusFails, Decode!Fits, EndRight, Under, RowsRight, Draft, Rows
<1>2. Told \in Int /\ Told < np + maxNew /\ Told >= draftContext
  <2>1. Len(emitted) < maxNew
    BY <1>1 DEF GoesOn
  <2>2. /\ Told \in Nat /\ Told = np + Len(emitted) /\ np \in Nat /\ Len(emitted) \in Nat
        /\ Len(drafted) \in Nat /\ acc \in Nat /\ maxNew \in Nat /\ draftContext \in Nat
    BY <1>1, SpeculativeCounts
  <2>3. /\ acc = Len(drafted) /\ ~(Len(dkv) + 1 <= draftContext)
        /\ Len(dkv) = Told - acc + Len(drafted) - 1
    BY <1>1
  <2>4. QED
    BY <2>1, <2>2, <2>3
<1>3. ~Decode!HasRoom
  BY <1>1, <1>2, NoRoomFor
<1>4. QED
  BY <1>1, <1>3, RaiseInv

LEMMA PlainInv == DecodeIInv /\ Decode!Plain => DecodeIInv'
<1> SUFFICES ASSUME DecodeIInv, Decode!Plain PROVE DecodeIInv'
  OBVIOUS
<1>1. /\ Decode!TypeOK /\ OnPath /\ GoesOn /\ way # "generate" /\ Target(Told - 1) /\ Draft(Told - 1)
      /\ cur = path[Told] /\ (way # "draft" => dkv = <<>>)
      /\ Len(tkv) + 1 <= Context /\ (way = "draft" => Len(dkv) + 1 <= draftContext)
      /\ tkv' = Append(tkv, cur) /\ dkv' = (IF way = "draft" THEN Append(dkv, cur) ELSE dkv)
      /\ UNCHANGED Decode!question /\ UNCHANGED <<drafted, acc>>
  BY DEF DecodeIInv, EndRight, RowsRight, Under, Decode!Plain, Decode!Fits
<1>2. PICK t \in Decode!Drawn(tkv', Decode!Hist), stop \in BOOLEAN :
        /\ Decode!Emit(t, stop) /\ cur' = t
        /\ dpc' = IF Decode!Ended(t, stop) \/ (way = "draft" /\ ~Decode!Fits(tkv', 1, Context))
                  THEN "done" ELSE "loop"
  BY DEF Decode!Plain
<1>3. /\ Told \in Nat /\ Told >= 1 /\ Context \in Nat /\ draftContext \in Nat /\ acc \in Nat
      /\ tkv \in Seq(Tokens) /\ dkv \in Seq(Tokens) /\ cur \in Tokens /\ Told - 1 \in Nat
  <2>1. Decode!TypeOK
    BY <1>1
  <2>2. QED
    BY <2>1, SpeculativeCounts, SpeculativeSeqs
<1>4. (Told - 1) + 1 = Told
  BY <1>3
<1>5. cur = IF (Told - 1) + 1 <= Told THEN path[(Told - 1) + 1] ELSE drafted[(Told - 1) + 1 - (Told - acc)]
  BY <1>1, <1>3, <1>4
<1>6. Append(tkv, cur) \in Seq(Tokens) /\ Rows(Append(tkv, cur), Told, path, Told, drafted, acc)
  <2>1. Rows(tkv, Told - 1, path, Told, drafted, acc)
    BY <1>1 DEF Target
  <2>2. /\ Append(tkv, cur) \in Seq(Tokens)
        /\ Rows(Append(tkv, cur), (Told - 1) + 1, path, Told, drafted, acc)
    BY <1>3, <1>5, <2>1, RowsPush
  <2>3. QED
    BY <1>4, <2>2
<1>7. way = "draft" => /\ Append(dkv, cur) \in Seq(Tokens)
                       /\ Rows(Append(dkv, cur), Told, path, Told, drafted, acc)
  <2> SUFFICES ASSUME way = "draft"
               PROVE  /\ Append(dkv, cur) \in Seq(Tokens)
                      /\ Rows(Append(dkv, cur), Told, path, Told, drafted, acc)
    OBVIOUS
  <2>1. Rows(dkv, Told - 1, path, Told, drafted, acc)
    BY <1>1 DEF Draft
  <2>2. /\ Append(dkv, cur) \in Seq(Tokens)
        /\ Rows(Append(dkv, cur), (Told - 1) + 1, path, Told, drafted, acc)
    BY <1>3, <1>5, <2>1, RowsPush
  <2>3. QED
    BY <1>4, <2>2
<1>8. /\ Len(Append(tkv, cur)) = Told /\ Told <= Context
      /\ way = "draft" => Len(Append(dkv, cur)) = Told /\ Told <= draftContext
  <2>1. Len(Append(tkv, cur)) = Len(tkv) + 1 /\ Len(Append(dkv, cur)) = Len(dkv) + 1
    BY <1>3
  <2>2. QED
    BY <1>1, <1>6, <1>7, <2>1 DEF Rows
<1>9. t = path[Told + 1] /\ t \in Tokens
  BY <1>1, <1>2, <1>6, <1>8, DrawnOnPath
<1>10. /\ emitted' \in Seq(Tokens) /\ Len(emitted') = Len(emitted) + 1 /\ Len(emitted') <= maxNew'
       /\ stopped' \in BOOLEAN /\ Told' = Told + 1 /\ OnPath'
       /\ ~stopped' /\ (Decode!Ended(t, stop) \/ Told = Context) => IsOver'
       /\ ~Decode!Ended(t, stop) => GoesOn'
  BY <1>1, <1>2, <1>8, <1>9, Emitted
<1>11. path' = path /\ way' = way /\ draftContext' = draftContext /\ drafted' = drafted /\ acc' = acc
  BY <1>1 DEF Decode!question
<1>12. Decode!TypeOK'
  <2>1. tkv' \in Seq(Tokens) /\ Len(tkv') <= Context /\ dkv' \in Seq(Tokens) /\ Len(dkv') <= draftContext
    <3>1. tkv' \in Seq(Tokens) /\ Len(tkv') <= Context
      BY <1>1, <1>6, <1>8
    <3>2. CASE way = "draft"
      BY <1>1, <1>7, <1>8, <3>1, <3>2
    <3>3. CASE way # "draft"
      BY <1>1, <3>1, <3>3 DEF Decode!TypeOK
    <3>4. QED
      BY <3>2, <3>3
  <2>2. QED
    BY <1>1, <1>2, <1>9, <1>10, <2>1 DEF Decode!TypeOK, Decode!question
<1>13. EndRight' /\ RoundRight'
  <2>1. dpc' = "done" => Decode!Ended(t, stop) \/ Told = Context
    BY <1>1, <1>2, <1>3, <1>8 DEF Decode!Fits
  <2>2. dpc' # "done" => dpc' = "loop" /\ ~Decode!Ended(t, stop)
    BY <1>2
  <2>3. QED
    BY <1>10, <2>1, <2>2 DEF EndRight, RoundRight, Under
<1>14. RowsRight'
  <2>1. Told' - 1 = Told /\ Told' \in Nat
    BY <1>3, <1>10
  <2>2. Rows(tkv', Told' - 1, path', Told', drafted', acc')
    <3>1. Rows(Append(tkv, cur), Told, path, Told', drafted, acc)
      BY <1>3, <1>6, <1>10, <2>1, RowsOfTokens
    <3>2. QED
      BY <1>1, <1>11, <2>1, <3>1
  <2>3. way' = "draft" => Rows(dkv', Told' - 1, path', Told', drafted', acc')
    <3>1. way = "draft" => Rows(Append(dkv, cur), Told, path, Told', drafted, acc)
      BY <1>3, <1>7, <1>10, <2>1, RowsOfTokens
    <3>2. QED
      BY <1>1, <1>11, <2>1, <3>1
  <2>4. cur' = path'[Told']
    BY <1>2, <1>9, <1>10, <1>11
  <2>5. dpc' \in {"loop", "done"}
    BY <1>2
  <2>6. way' # "generate" /\ (way' # "draft" => dkv' = <<>>)
    BY <1>1, <1>11
  <2>7. QED
    BY <2>2, <2>3, <2>4, <2>5, <2>6 DEF RowsRight, Target, Draft
<1>15. QED
  BY <1>10, <1>12, <1>13, <1>14 DEF DecodeIInv

LEMMA LookupEndsInv == DecodeIInv /\ Decode!LookupEnds => DecodeIInv'
<1> SUFFICES ASSUME DecodeIInv, Decode!LookupEnds PROVE DecodeIInv'
  OBVIOUS
<1>1. /\ Decode!TypeOK /\ OnPath /\ GoesOn /\ way = "lookup" /\ Target(Told - 1) /\ RowsRight
      /\ ~(Len(tkv) + 1 <= Context) /\ dpc' = "done"
      /\ UNCHANGED <<way, path, np, maxNew, ahead, draftContext, tkv, dkv, emitted, cur, drafted, acc, stopped>>
  BY DEF DecodeIInv, EndRight, RowsRight, Under, Decode!LookupEnds, Decode!Fits, Decode!question
<1>2. Decode!TypeOK'
  BY <1>1 DEF Decode!TypeOK
<1>3. OnPath' /\ Told' = Told
  BY <1>1 DEF OnPath, Told
<1>4. IsOver
  <2>1. Told = Context + 1
    BY <1>1, SpeculativeIs DEF Target, Rows, OnPath
  <2>2. emitted # <<>>
    BY <1>1, <2>1, SpeculativeIs DEF Told
  <2>3. QED
    BY <2>1, <2>2 DEF IsOver
<1>5. EndRight' /\ RoundRight'
  BY <1>1, <1>3, <1>4 DEF EndRight, RoundRight, Under, IsOver
<1>6. RowsRight'
  BY <1>1, <1>3 DEF RowsRight, Target, Draft
<1>7. QED
  BY <1>2, <1>3, <1>5, <1>6 DEF DecodeIInv

LEMMA LookupInv == DecodeIInv /\ Decode!Lookup => DecodeIInv'
<1> SUFFICES ASSUME DecodeIInv, Decode!Lookup PROVE DecodeIInv'
  OBVIOUS
<1> DEFINE q == Decode!LookupDraft(Decode!Hist, Decode!Room)
<1>1. /\ Decode!TypeOK /\ OnPath /\ GoesOn /\ way = "lookup" /\ Target(Told - 1) /\ dkv = <<>>
      /\ cur = path[Told] /\ q # <<>> /\ dpc' = "verify" /\ drafted' = q /\ acc' = 0
      /\ tkv' = tkv \o <<cur>> \o q
      /\ UNCHANGED <<way, path, np, maxNew, ahead, draftContext, dkv, emitted, cur, stopped>>
  BY DEF DecodeIInv, EndRight, RowsRight, Under, Decode!Lookup, Decode!Scored, Decode!NoProposals,
     Decode!question
<1>2. /\ Told \in Nat \ {0} /\ tkv \in Seq(Tokens) /\ Len(tkv) \in Nat /\ cur \in Tokens
      /\ Len(tkv) = Told - 1 /\ Context \in Nat /\ maxNew \in Nat /\ ahead \in Nat /\ Len(emitted) \in Nat
  BY <1>1, SpeculativeIs DEF Decode!TypeOK, Target, Rows
<1>3. q \in Seq(Tokens) /\ Len(q) <= Decode!Room
  BY <1>1, HistIs, RoomIs, LookupIs
<1> HIDE DEF q
<1>4. Len(q) \in Nat /\ Len(q) <= ahead /\ Len(emitted) + Len(q) <= maxNew /\ Told + Len(q) <= Context
  <2>1. /\ Decode!Room \in Int /\ Decode!Room <= ahead
        /\ Decode!Room <= maxNew - Len(emitted) /\ Decode!Room <= Context - Len(tkv) - 1
    BY <1>1, RoomIs
  <2>2. Len(q) \in Nat
    BY <1>3
  <2>3. QED
    BY <1>2, <1>3, <2>1, <2>2
<1>5. /\ tkv \o <<cur>> \o q \in Seq(Tokens) /\ Len(tkv \o <<cur>> \o q) = Told + Len(q)
      /\ Rows(tkv \o <<cur>> \o q, Told + Len(q), path, Told, q, 0)
  BY <1>1, <1>2, <1>3, RowsScored DEF Target
<1>6. Told' = Told
  BY <1>1 DEF Told
<1>7. Decode!TypeOK'
  BY <1>1, <1>2, <1>3, <1>4, <1>5 DEF Decode!TypeOK
<1>8. OnPath' /\ EndRight'
  BY <1>1, <1>6 DEF OnPath, EndRight, GoesOn, Under
<1>9. RoundRight'
  BY <1>1, <1>2, <1>4 DEF RoundRight
<1>10. Told - 0 + Len(q) = Told + Len(q)
  BY <1>2
<1>11. RowsRight'
  BY <1>1, <1>5, <1>6, <1>10 DEF RowsRight, Target, Draft
<1>12. QED
  BY <1>7, <1>8, <1>9, <1>11 DEF DecodeIInv

LEMMA ProposeInv == DecodeIInv /\ Decode!Propose => DecodeIInv'
<1> SUFFICES ASSUME DecodeIInv, Decode!Propose PROVE DecodeIInv'
  OBVIOUS
<1>1. /\ Decode!TypeOK /\ OnPath /\ GoesOn /\ way = "draft" /\ Target(Told - 1) /\ Draft(Told - 1)
      /\ cur = path[Told] /\ ~(Decode!Room <= 0) /\ dpc' = "propose" /\ drafted' = <<>> /\ acc' = 0
      /\ UNCHANGED <<way, path, np, maxNew, ahead, draftContext, tkv, dkv, emitted, cur, stopped>>
  BY DEF DecodeIInv, EndRight, RowsRight, Under, Decode!Propose, Decode!NoProposals, Decode!question
<1>2. Told \in Nat /\ Told - 1 \in Nat /\ Told - 1 <= Told /\ Told - 1 + 0 = Told - 1 /\ ahead \in Nat
  BY <1>1, SpeculativeIs
<1>3. Told' = Told /\ Decode!Room' = Decode!Room
  BY <1>1 DEF Told, Decode!Room
<1>4. Decode!TypeOK'
  BY <1>1, <1>2 DEF Decode!TypeOK
<1>5. OnPath' /\ EndRight'
  BY <1>1, <1>3 DEF OnPath, EndRight, GoesOn, Under
<1>6. RoundRight'
  <2>1. Decode!Room \in Int /\ Len(<<>>) = 0
    BY <1>1, RoomIs
  <2>2. QED
    BY <1>1, <1>3, <2>1 DEF RoundRight
<1>7. Rows(tkv, Told - 1, path, Told, <<>>, 0) /\ Rows(dkv, Told - 1, path, Told, <<>>, 0)
  BY <1>1, <1>2, RowsOfTokens DEF Target, Draft
<1>8. RowsRight'
  <2>1. Told - 1 + Len(<<>>) = Told - 1
    BY <1>2
  <2>2. QED
    BY <1>1, <1>3, <1>7, <2>1 DEF RowsRight, Target, Draft
<1>9. QED
  BY <1>4, <1>5, <1>6, <1>8 DEF DecodeIInv

LEMMA ProposalInv == DecodeIInv /\ Decode!Proposal => DecodeIInv'
<1> SUFFICES ASSUME DecodeIInv, Decode!Proposal PROVE DecodeIInv'
  OBVIOUS
<1> DEFINE c == IF drafted = <<>> THEN cur ELSE Decode!Last(drafted)
<1>1. PICK t \in Tokens : drafted' = Append(drafted, t)
  BY DEF Decode!Proposal
<1>2. /\ Decode!TypeOK /\ OnPath /\ GoesOn /\ way = "draft" /\ acc = 0 /\ cur = path[Told]
      /\ Rows(tkv, Told - 1, path, Told, drafted, 0)
      /\ Rows(dkv, Told - 1 + Len(drafted), path, Told, drafted, 0)
      /\ dpc = "propose" /\ 0 < Decode!Room /\ Len(drafted) < Decode!Room /\ Len(dkv) + 1 <= draftContext
      /\ dkv' = Append(dkv, c)
      /\ UNCHANGED <<way, path, np, maxNew, ahead, draftContext, dpc, tkv, emitted, cur, acc, stopped>>
  BY DEF DecodeIInv, EndRight, RowsRight, RoundRight, Target, Draft, Under, Decode!Proposal, Decode!Fits,
     Decode!question
<1>3. /\ Told \in Nat /\ Told - 1 \in Nat /\ Told - 1 <= Told /\ Told >= 1 /\ ahead \in Nat
      /\ drafted \in Seq(Tokens) /\ Len(drafted) \in Nat /\ dkv \in Seq(Tokens) /\ draftContext \in Nat
      /\ cur \in Tokens /\ Decode!Room \in Int /\ Decode!Room <= ahead
  <2>1. Decode!TypeOK
    BY <1>2
  <2>2. /\ Told \in Nat /\ Told - 1 \in Nat /\ Told >= 1 /\ ahead \in Nat
        /\ Len(drafted) \in Nat /\ draftContext \in Nat
    BY <2>1, SpeculativeCounts
  <2>3. drafted \in Seq(Tokens) /\ dkv \in Seq(Tokens) /\ cur \in Tokens
    BY <2>1, SpeculativeSeqs
  <2>4. Decode!Room \in Int /\ Decode!Room <= ahead
    BY <2>1, RoomIs
  <2>5. Told - 1 <= Told
    BY <2>2
  <2>6. QED
    BY <2>2, <2>3, <2>4, <2>5
<1>4. /\ Append(drafted, t) \in Seq(Tokens) /\ Len(Append(drafted, t)) = Len(drafted) + 1
      /\ \A i \in 1..Len(drafted) : Append(drafted, t)[i] = drafted[i]
  BY <1>3
<1>5. c \in Tokens /\ c = IF drafted = <<>> THEN cur ELSE drafted[Len(drafted)]
  BY <1>3 DEF Decode!Last
<1> HIDE DEF c
<1>6. Told' = Told /\ Decode!Room' = Decode!Room
  BY <1>2 DEF Told, Decode!Room
<1> DEFINE n == Told - 1 + Len(drafted)
<1>7. n \in Nat /\ n + 1 = Told - 1 + Len(Append(drafted, t)) /\ n <= Told - 0 + Len(drafted) /\ 0 <= Told
  BY <1>3, <1>4
<1>8. Rows(dkv, n, path, Told, Append(drafted, t), 0)
  <2> HIDE DEF n
  <2>1. Rows(dkv, n, path, Told, drafted, 0)
    BY <1>2 DEF n
  <2>2. QED
    BY <1>3, <1>7, <2>1, RowsExtended
<1>9. c = IF n + 1 <= Told THEN path[n + 1] ELSE Append(drafted, t)[n + 1 - (Told - 0)]
  <2>1. CASE drafted = <<>>
    <3>1. n + 1 = Told
      BY <1>3, <2>1
    <3> HIDE DEF n
    <3>2. QED
      BY <1>2, <1>3, <1>5, <2>1, <3>1
  <2>2. CASE drafted # <<>>
    <3>1. Len(drafted) \in 1..Len(drafted)
      BY <1>3, <2>2
    <3>2. n + 1 - (Told - 0) = Len(drafted) /\ ~(n + 1 <= Told)
      BY <1>3, <3>1
    <3> HIDE DEF n
    <3>3. QED
      BY <1>4, <1>5, <2>2, <3>1, <3>2
  <2>3. QED
    BY <2>1, <2>2
<1>10. /\ Append(dkv, c) \in Seq(Tokens)
       /\ Rows(Append(dkv, c), n + 1, path, Told, Append(drafted, t), 0)
  <2> HIDE DEF n
  <2>1. QED
    BY <1>3, <1>5, <1>7, <1>8, <1>9, RowsPush
<1>11. Len(Append(dkv, c)) = Len(dkv) + 1
  BY <1>3
<1>12. Decode!TypeOK'
  <2>1. dkv' \in Seq(Tokens) /\ Len(dkv') <= draftContext
    BY <1>2, <1>10, <1>11
  <2>2. drafted' \in Seq(Tokens) /\ Len(drafted') <= ahead /\ acc \in 0..Len(drafted')
    BY <1>1, <1>2, <1>3, <1>4
  <2>3. QED
    BY <1>2, <2>1, <2>2 DEF Decode!TypeOK
<1>13. OnPath' /\ EndRight'
  BY <1>2, <1>6 DEF OnPath, EndRight, GoesOn, Under
<1>14. RoundRight'
  BY <1>1, <1>2, <1>3, <1>4, <1>6 DEF RoundRight
<1>15. RowsRight'
  <2>1. Rows(tkv, Told - 1, path, Told, Append(drafted, t), 0)
    BY <1>2, <1>3, RowsOfTokens
  <2>2. Rows(dkv', Told - 1 + Len(drafted'), path, Told, drafted', 0)
    BY <1>1, <1>2, <1>7, <1>10
  <2>3. QED
    BY <1>1, <1>2, <1>6, <2>1, <2>2 DEF RowsRight, Target, Draft
<1>16. QED
  BY <1>12, <1>13, <1>14, <1>15 DEF DecodeIInv

LEMMA ScoreInv == DecodeIInv /\ Decode!Score => DecodeIInv'
<1> SUFFICES ASSUME DecodeIInv, Decode!Score PROVE DecodeIInv'
  OBVIOUS
<1>1. /\ Decode!TypeOK /\ OnPath /\ GoesOn /\ way = "draft" /\ acc = 0 /\ cur = path[Told]
      /\ Rows(tkv, Told - 1, path, Told, drafted, 0)
      /\ Rows(dkv, Told - 1 + Len(drafted), path, Told, drafted, 0)
      /\ 0 < Decode!Room /\ Len(drafted) = Decode!Room
      /\ dpc' = "verify" /\ drafted' = drafted /\ acc' = 0 /\ tkv' = tkv \o <<cur>> \o drafted
      /\ UNCHANGED <<way, path, np, maxNew, ahead, draftContext, dkv, emitted, cur, stopped>>
  BY DEF DecodeIInv, EndRight, RowsRight, RoundRight, Target, Draft, Under, Decode!Score, Decode!Scored,
     Decode!question
<1>2. /\ Told \in Nat \ {0} /\ tkv \in Seq(Tokens) /\ Len(tkv) \in Nat /\ cur \in Tokens
      /\ Len(tkv) = Told - 1 /\ Context \in Nat /\ maxNew \in Nat /\ Len(emitted) \in Nat
      /\ drafted \in Seq(Tokens) /\ Len(drafted) \in Nat
  BY <1>1, SpeculativeIs DEF Decode!TypeOK, Rows
<1>3. Len(emitted) + Len(drafted) <= maxNew /\ Told + Len(drafted) <= Context /\ Len(drafted) > 0
  <2>1. /\ Decode!Room \in Int
        /\ Decode!Room <= maxNew - Len(emitted) /\ Decode!Room <= Context - Len(tkv) - 1
    BY <1>1, RoomIs
  <2>2. QED
    BY <1>1, <1>2, <2>1
<1>4. /\ tkv \o <<cur>> \o drafted \in Seq(Tokens) /\ Len(tkv \o <<cur>> \o drafted) = Told + Len(drafted)
      /\ Rows(tkv \o <<cur>> \o drafted, Told + Len(drafted), path, Told, drafted, 0)
  BY <1>1, <1>2, RowsScored
<1>5. Told' = Told
  BY <1>1 DEF Told
<1>6. Decode!TypeOK'
  BY <1>1, <1>2, <1>3, <1>4 DEF Decode!TypeOK
<1>7. OnPath' /\ EndRight'
  BY <1>1, <1>5 DEF OnPath, EndRight, GoesOn, Under
<1>8. RoundRight'
  BY <1>1, <1>2, <1>3 DEF RoundRight
<1>9. Told - 0 + Len(drafted) = Told + Len(drafted)
      /\ Told - 0 + Len(drafted) - 1 = Told - 1 + Len(drafted)
  BY <1>2
<1>10. RowsRight'
  BY <1>1, <1>4, <1>5, <1>9 DEF RowsRight, Target, Draft
<1>11. QED
  BY <1>6, <1>7, <1>8, <1>10 DEF DecodeIInv

\* While the proposals are verified, the target's rows up to the next one are of
\* the history, so that the next token is drawn from the last of them.
LEMMA Verifying ==
  ASSUME DecodeIInv, dpc = "verify"
  PROVE  /\ Decode!TypeOK /\ OnPath /\ GoesOn /\ way # "generate" /\ RoundRight
         /\ Rows(tkv, Told - acc + Len(drafted), path, Told, drafted, acc)
         /\ way = "draft" => Rows(dkv, Told - acc + Len(drafted) - 1, path, Told, drafted, acc)
         /\ way # "draft" => dkv = <<>>
         /\ Told - acc + Len(drafted) <= Context /\ Told <= Told - acc + Len(drafted)
         /\ acc < Told /\ Decode!Mark = Told - acc - 1
         /\ Decode!Drawn(Decode!Row, Decode!Hist) = {path[Told + 1]} /\ path[Told + 1] \in Tokens
<1>1. /\ Decode!TypeOK /\ OnPath /\ GoesOn /\ way # "generate" /\ RoundRight
      /\ Rows(tkv, Told - acc + Len(drafted), path, Told, drafted, acc)
      /\ way = "draft" => Rows(dkv, Told - acc + Len(drafted) - 1, path, Told, drafted, acc)
      /\ way # "draft" => dkv = <<>>
  BY DEF DecodeIInv, EndRight, RowsRight, Under, Target, Draft
<1>2. /\ Told \in Nat /\ Len(drafted) \in Nat /\ acc \in Nat /\ acc <= Len(drafted) /\ Context \in Nat
      /\ tkv \in Seq(Tokens) /\ Len(tkv) <= Context /\ Len(tkv) = Told - acc + Len(drafted)
  <2>1. Len(tkv) <= Context
    BY <1>1 DEF Decode!TypeOK
  <2>2. Len(tkv) = Told - acc + Len(drafted)
    BY <1>1 DEF Rows
  <2>3. QED
    BY <1>1, <2>1, <2>2, SpeculativeIs
<1>3. acc < Told
  BY <1>1, SpeculativeIs DEF RoundRight, Told
<1>4. Decode!Mark = Told - acc - 1
  BY <1>2 DEF Decode!Mark
<1>5. Decode!Mark + 1 + acc = Told
  BY <1>2, <1>4
<1>6. Decode!Row = Decode!Hist
  <2>1. Decode!Row = SubSeq(tkv, 1, Told)
    BY <1>5 DEF Decode!Row
  <2>2. \A i \in 1..Told : i \in 1..Len(tkv)
    BY <1>2
  <2>3. /\ SubSeq(tkv, 1, Told) \in Seq(Tokens) /\ Len(SubSeq(tkv, 1, Told)) = Told
        /\ \A i \in 1..Told : SubSeq(tkv, 1, Told)[i] = tkv[i]
    BY <1>2, <2>2, SubSeqProperties
  <2>4. Rows(SubSeq(tkv, 1, Told), Told, path, Told, drafted, acc)
    BY <1>1, <1>2, <2>2, <2>3 DEF Rows
  <2>5. QED
    BY <1>1, <2>1, <2>3, <2>4, RowsAreHist
<1>7. Told <= Context
  BY <1>2
<1>8. QED
  BY <1>1, <1>2, <1>3, <1>4, <1>6, <1>7, DrawnIs

LEMMA AcceptInv == DecodeIInv /\ Decode!Accept => DecodeIInv'
<1> SUFFICES ASSUME DecodeIInv, Decode!Accept PROVE DecodeIInv'
  OBVIOUS
<1> DEFINE t == path[Told + 1]
<1>1. /\ dpc = "verify" /\ acc < Len(drafted) /\ drafted[acc + 1] \in Decode!Drawn(Decode!Row, Decode!Hist)
      /\ acc' = acc + 1 /\ UNCHANGED Decode!question /\ UNCHANGED <<cur, drafted>>
  BY DEF Decode!Accept
<1>2. drafted[acc + 1] = t
  BY <1>1, Verifying
<1>3. PICK stop \in BOOLEAN :
        /\ Decode!Emit(t, stop)
        /\ IF Decode!Ended(t, stop)
           THEN /\ dpc' = "done" /\ tkv' = Decode!Rewound(tkv, Decode!Mark + 1 + acc')
                /\ dkv' = IF way = "draft"
                          THEN Decode!Rewound(dkv, Decode!Mark + Decode!Min({acc' + 1, Len(drafted)})) ELSE dkv
           ELSE UNCHANGED <<dpc, tkv, dkv>>
  BY <1>2 DEF Decode!Accept
<1> HIDE DEF t
<1>4. /\ Decode!TypeOK /\ OnPath /\ GoesOn /\ way # "generate" /\ RoundRight
      /\ way # "draft" => dkv = <<>>
  BY <1>1, Verifying
<1>5. /\ Rows(tkv, Told - acc + Len(drafted), path, Told, drafted, acc)
      /\ way = "draft" => Rows(dkv, Told - acc + Len(drafted) - 1, path, Told, drafted, acc)
  BY <1>1, Verifying
<1>6. /\ Told - acc + Len(drafted) <= Context /\ Told <= Told - acc + Len(drafted)
      /\ acc < Told /\ Decode!Mark = Told - acc - 1
  BY <1>1, Verifying
<1>7. /\ Told \in Nat /\ Len(drafted) \in Nat /\ acc \in Nat /\ Context \in Nat /\ Len(emitted) \in Nat
      /\ maxNew \in Nat /\ draftContext \in Nat /\ tkv \in Seq(Tokens) /\ dkv \in Seq(Tokens)
      /\ Len(dkv) <= draftContext
  BY <1>4, SpeculativeIs DEF Decode!TypeOK
<1>8. Told <= Context
  BY <1>6, <1>7
<1>9. /\ emitted' \in Seq(Tokens) /\ Len(emitted') = Len(emitted) + 1 /\ Len(emitted') <= maxNew'
      /\ stopped' \in BOOLEAN /\ Told' = Told + 1 /\ OnPath'
      /\ ~stopped' /\ (Decode!Ended(t, stop) \/ Told = Context) => IsOver'
      /\ ~Decode!Ended(t, stop) => GoesOn'
  BY <1>1, <1>3, <1>4, <1>8, Emitted DEF t
<1>10. path' = path /\ way' = way /\ draftContext' = draftContext /\ drafted' = drafted /\ maxNew' = maxNew
  BY <1>1 DEF Decode!question
<1> DEFINE n == Told - acc + Len(drafted)
<1>11. n \in Nat /\ n - 1 \in Nat /\ n = (Told + 1) - (acc + 1) + Len(drafted) /\ Told + 1 <= n
  BY <1>1, <1>6, <1>7
<1>12. /\ Rows(tkv, n, path, Told + 1, drafted, acc + 1)
       /\ way = "draft" => Rows(dkv, n - 1, path, Told + 1, drafted, acc + 1)
  <2>1. drafted[acc + 1] = path[Told + 1]
    BY <1>2 DEF t
  <2>2. Rows(tkv, n, path, Told, drafted, acc)
    BY <1>5
  <2>3. way = "draft" => Rows(dkv, n - 1, path, Told, drafted, acc)
    <3>1. Told - acc + Len(drafted) - 1 = n - 1
      BY <1>7
    <3>2. QED
      BY <1>5, <3>1
  <2> HIDE DEF n
  <2>4. QED
    BY <1>7, <1>11, <2>1, <2>2, <2>3, RowsAccepted
<1> HIDE DEF n
<1>13. acc' \in 0..Len(drafted')
  BY <1>1, <1>7
<1>14. CASE ~Decode!Ended(t, stop)
  <2>1. dpc' = "verify" /\ tkv' = tkv /\ dkv' = dkv
    BY <1>1, <1>3, <1>14
  <2>2. Decode!TypeOK'
    BY <1>1, <1>4, <1>9, <1>13, <2>1 DEF Decode!TypeOK, Decode!question
  <2>3. EndRight'
    BY <1>9, <1>14, <2>1 DEF EndRight
  <2>4. RoundRight'
    <3>1. /\ drafted # <<>> /\ acc <= Len(emitted) /\ Len(emitted) - acc + Len(drafted) <= maxNew
          /\ \A i \in 1..acc : drafted[i] = path[Told - acc + i]
      BY <1>1, <1>4 DEF RoundRight
    <3>2. Told + 1 - (acc + 1) = Told - acc /\ Told - acc + (acc + 1) = Told + 1
      BY <1>7
    <3>3. ASSUME NEW i \in 1..acc + 1 PROVE drafted[i] = path[Told - acc + i]
      <4>1. i \in 1..acc \/ i = acc + 1
        BY <1>7
      <4>2. QED
        BY <1>2, <3>1, <3>2, <4>1 DEF t
    <3>4. Len(emitted') - acc' + Len(drafted') <= maxNew' /\ acc' <= Len(emitted')
      BY <1>1, <1>7, <1>9, <1>10, <3>1
    <3>5. Told' - acc' = Told - acc
      <4>1. acc' = acc + 1 /\ Told' = Told + 1
        BY <1>1, <1>9
      <4>2. QED
        BY <1>7, <3>2, <4>1
    <3>6. \A i \in 1..acc' : drafted'[i] = path'[Told' - acc' + i]
      BY <1>1, <1>10, <3>3, <3>5
    <3>7. drafted' # <<>> /\ dpc' # "propose"
      BY <1>10, <2>1, <3>1
    <3>8. QED
      BY <3>4, <3>6, <3>7 DEF RoundRight
  <2>5. RowsRight'
    <3>1. Told' - acc' + Len(drafted') = n /\ Told' - acc' + Len(drafted') - 1 = n - 1
      BY <1>1, <1>7, <1>9, <1>10 DEF n
    <3>2. QED
      BY <1>1, <1>4, <1>9, <1>10, <1>12, <2>1, <3>1 DEF RowsRight, Target, Draft
  <2>6. QED
    BY <1>9, <2>2, <2>3, <2>4, <2>5 DEF DecodeIInv
<1>15. CASE Decode!Ended(t, stop)
  <2> DEFINE m == Decode!Mark + Decode!Min({acc' + 1, Len(drafted)})
  <2>1. /\ dpc' = "done" /\ tkv' = Decode!Rewound(tkv, Decode!Mark + 1 + acc')
        /\ dkv' = IF way = "draft" THEN Decode!Rewound(dkv, m) ELSE dkv
    BY <1>3, <1>15
  <2>2. Decode!Mark + 1 + acc' = Told + 1
    BY <1>1, <1>6, <1>7
  <2>3. m \in {Told, Told + 1} /\ m <= n - 1
    <3>1. acc' + 1 \in Int /\ Len(drafted) \in Int
      BY <1>1, <1>7
    <3>2. /\ Decode!Min({acc' + 1, Len(drafted)}) \in {acc' + 1, Len(drafted)}
          /\ Decode!Min({acc' + 1, Len(drafted)}) <= acc' + 1
          /\ Decode!Min({acc' + 1, Len(drafted)}) <= Len(drafted)
      BY <3>1, MinOfTwo
    <3>3. PICK l : l = Decode!Min({acc' + 1, Len(drafted)})
      OBVIOUS
    <3>4. /\ l \in {acc + 1 + 1, Len(drafted)} /\ l <= acc + 1 + 1 /\ l <= Len(drafted)
          /\ acc < Len(drafted)
      BY <1>1, <3>2, <3>3
    <3>5. m = Decode!Mark + l
      BY <3>3
    <3>6. Decode!Mark \in Int /\ Told \in Nat /\ acc \in Nat /\ Len(drafted) \in Nat
      BY <1>6, <1>7
    <3>7. Decode!Mark + l \in {Told, Told + 1} /\ Decode!Mark + l <= n - 1
      BY <1>6, <1>7, <3>4, <3>6 DEF n
    <3>8. QED
      BY <3>5, <3>7
  <2> HIDE DEF m
  <2>4. Told + 1 \in 0..n
    BY <1>7, <1>11
  <2>5. /\ tkv' \in Seq(Tokens) /\ Len(tkv') = Told + 1
        /\ Rows(tkv', Told + 1, path, Told + 1, drafted, acc + 1)
    <3>1. tkv' = Decode!Rewound(tkv, Told + 1)
      BY <2>1, <2>2
    <3>2. /\ tkv \in Seq(Tokens) /\ n \in Nat /\ Told + 1 \in Nat
          /\ Rows(tkv, n, path, Told + 1, drafted, acc + 1)
      BY <1>7, <1>11, <1>12
    <3>3. /\ Decode!Rewound(tkv, Told + 1) \in Seq(Tokens) /\ Len(Decode!Rewound(tkv, Told + 1)) = Told + 1
          /\ Rows(Decode!Rewound(tkv, Told + 1), Told + 1, path, Told + 1, drafted, acc + 1)
      BY <2>4, <3>2, RowsRewound
    <3>4. QED
      BY <3>1, <3>3
  <2>6. way = "draft" => /\ dkv' \in Seq(Tokens) /\ Len(dkv') = m
                         /\ Rows(dkv', m, path, Told + 1, drafted, acc + 1)
    <3>1. m \in 0..n - 1 /\ Told + 1 \in Nat
      BY <1>7, <1>11, <2>3
    <3>2. QED
      BY <1>7, <1>11, <1>12, <2>1, <3>1, RowsRewound
  <2>7. Decode!TypeOK'
    <3>1. tkv' \in Seq(Tokens) /\ Len(tkv') <= Context
      BY <1>6, <1>7, <1>11, <2>5 DEF n
    <3>2. dkv' \in Seq(Tokens) /\ Len(dkv') <= draftContext
      <4>1. CASE way = "draft"
        <5>1. Len(dkv) = n - 1
          BY <1>12, <4>1 DEF Rows
        <5>2. QED
          BY <1>7, <1>11, <2>3, <2>6, <4>1, <5>1
      <4>2. CASE way # "draft"
        BY <1>7, <2>1, <4>2
      <4>3. QED
        BY <4>1, <4>2
    <3>3. QED
      BY <1>1, <1>4, <1>9, <1>13, <2>1, <3>1, <3>2 DEF Decode!TypeOK, Decode!question
  <2>8. EndRight' /\ RoundRight'
    BY <1>9, <1>15, <2>1 DEF EndRight, RoundRight, Under
  <2>9. RowsRight'
    <3>1. Told' = Told + 1 /\ Told' - 1 = Told
      BY <1>7, <1>9
    <3>2. Target(Told)'
      BY <1>1, <1>10, <2>5, <3>1 DEF Target
    <3>3. (Draft(Told - 1) \/ Draft(Told))'
      BY <1>1, <1>10, <2>3, <2>6, <3>1 DEF Draft
    <3>4. way' # "draft" => dkv' = <<>>
      BY <1>4, <1>10, <2>1
    <3>5. QED
      BY <2>1, <3>2, <3>3, <3>4 DEF RowsRight
  <2>10. QED
    BY <1>9, <2>7, <2>8, <2>9 DEF DecodeIInv
<1>16. QED
  BY <1>14, <1>15

LEMMA RejectInv == DecodeIInv /\ Decode!Reject => DecodeIInv'
<1> SUFFICES ASSUME DecodeIInv, Decode!Reject PROVE DecodeIInv'
  OBVIOUS
<1>1. /\ dpc = "verify" /\ acc < Len(drafted) /\ UNCHANGED Decode!question /\ UNCHANGED <<drafted, acc>>
      /\ tkv' = Decode!Rewound(tkv, Decode!Mark + 1 + acc)
      /\ dkv' = IF way = "draft" THEN Decode!Rewound(dkv, Decode!Mark + 1 + acc) ELSE dkv
  BY DEF Decode!Reject
<1>2. PICK t \in Decode!Drawn(Decode!Row, Decode!Hist) \ {drafted[acc + 1]}, stop \in BOOLEAN :
        Decode!Emit(t, stop) /\ cur' = t /\ dpc' = IF Decode!Ended(t, stop) THEN "done" ELSE "loop"
  BY DEF Decode!Reject
<1>3. /\ Decode!TypeOK /\ OnPath /\ GoesOn /\ way # "generate" /\ (way # "draft" => dkv = <<>>)
      /\ Rows(tkv, Told - acc + Len(drafted), path, Told, drafted, acc)
      /\ (way = "draft" => Rows(dkv, Told - acc + Len(drafted) - 1, path, Told, drafted, acc))
      /\ Told - acc + Len(drafted) <= Context /\ acc < Told /\ Decode!Mark = Told - acc - 1
      /\ t = path[Told + 1] /\ t \in Tokens
  BY <1>1, <1>2, Verifying
<1>4. /\ Told \in Nat /\ Len(drafted) \in Nat /\ acc \in Nat /\ Context \in Nat /\ draftContext \in Nat
      /\ tkv \in Seq(Tokens) /\ dkv \in Seq(Tokens) /\ Len(dkv) <= draftContext
  BY <1>3, SpeculativeIs DEF Decode!TypeOK
<1> DEFINE n == Told - acc + Len(drafted)
<1>5. n \in Nat /\ n - 1 \in Nat /\ Told \in 0..n - 1 /\ Told \in 0..n /\ n <= Context
  BY <1>1, <1>3, <1>4
<1>6. Decode!Mark + 1 + acc = Told
  BY <1>3, <1>4
<1>7. Rows(tkv, n, path, Told, drafted, acc) /\ (way = "draft" => Rows(dkv, n - 1, path, Told, drafted, acc))
  <2>1. /\ Rows(tkv, Told - acc + Len(drafted), path, Told, drafted, acc)
        /\ (way = "draft" => Rows(dkv, Told - acc + Len(drafted) - 1, path, Told, drafted, acc))
    BY <1>3
  <2>2. Told - acc + Len(drafted) - 1 = n - 1
    BY <1>4
  <2>3. QED
    BY <2>1, <2>2
<1> HIDE DEF n
<1>8. Told <= Context
  BY <1>4, <1>5
<1>9. /\ emitted' \in Seq(Tokens) /\ Len(emitted') = Len(emitted) + 1 /\ Len(emitted') <= maxNew'
      /\ stopped' \in BOOLEAN /\ Told' = Told + 1 /\ OnPath'
      /\ ~stopped' /\ (Decode!Ended(t, stop) \/ Told = Context) => IsOver'
      /\ ~Decode!Ended(t, stop) => GoesOn'
  BY <1>1, <1>2, <1>3, <1>8, Emitted
<1>10. path' = path /\ way' = way /\ draftContext' = draftContext /\ drafted' = drafted /\ acc' = acc
  BY <1>1 DEF Decode!question
<1>11. tkv' \in Seq(Tokens) /\ Len(tkv') = Told /\ Rows(tkv', Told, path, Told, drafted, acc)
  BY <1>1, <1>4, <1>5, <1>6, <1>7, RowsRewound
<1>12. way = "draft" => /\ dkv' \in Seq(Tokens) /\ Len(dkv') = Told
                        /\ Rows(dkv', Told, path, Told, drafted, acc)
  BY <1>1, <1>4, <1>5, <1>6, <1>7, RowsRewound
<1>13. Decode!TypeOK'
  <2>1. dkv' \in Seq(Tokens) /\ Len(dkv') <= draftContext
    <3>1. CASE way = "draft"
      <4>1. Len(dkv) = n - 1
        BY <1>7, <3>1 DEF Rows
      <4>2. QED
        BY <1>4, <1>5, <1>12, <3>1, <4>1
    <3>2. CASE way # "draft"
      BY <1>1, <1>4, <3>2
    <3>3. QED
      BY <3>1, <3>2
  <2>2. QED
    BY <1>1, <1>2, <1>3, <1>8, <1>9, <1>11, <2>1 DEF Decode!TypeOK, Decode!question
<1>14. EndRight' /\ RoundRight'
  BY <1>2, <1>9 DEF EndRight, RoundRight, Under
<1>15. RowsRight'
  <2>1. Told' = Told + 1 /\ Told' - 1 = Told /\ Told <= Told + 1 /\ Told + 1 \in Nat
    BY <1>4, <1>9
  <2>2. Target(Told - 1)'
    <3>1. Rows(tkv', Told, path, Told + 1, drafted, acc)
      BY <1>4, <1>11, <2>1, RowsOfTokens
    <3>2. QED
      BY <1>10, <2>1, <3>1 DEF Target
  <2>3. Draft(Told - 1)'
    <3>1. way = "draft" => Rows(dkv', Told, path, Told + 1, drafted, acc)
      BY <1>4, <1>12, <2>1, RowsOfTokens
    <3>2. QED
      BY <1>10, <2>1, <3>1 DEF Draft
  <2>4. cur' = path'[Told'] /\ way' # "generate" /\ (way' # "draft" => dkv' = <<>>)
    BY <1>1, <1>2, <1>3, <1>10, <2>1
  <2>5. QED
    BY <1>2, <2>2, <2>3, <2>4 DEF RowsRight
<1>16. QED
  BY <1>9, <1>13, <1>14, <1>15 DEF DecodeIInv

LEMMA BonusInv == DecodeIInv /\ Decode!Bonus => DecodeIInv'
<1> SUFFICES ASSUME DecodeIInv, Decode!Bonus PROVE DecodeIInv'
  OBVIOUS
<1>1. /\ dpc = "verify" /\ acc = Len(drafted) /\ UNCHANGED Decode!question /\ UNCHANGED <<drafted, acc, tkv>>
      /\ (way = "draft" => Len(dkv) + 1 <= draftContext)
      /\ dkv' = IF way = "draft" THEN Append(dkv, Decode!Last(drafted)) ELSE dkv
  BY DEF Decode!Bonus, Decode!Fits
<1>2. PICK t \in Decode!Drawn(tkv, Decode!Hist), stop \in BOOLEAN :
        Decode!Emit(t, stop) /\ cur' = t /\ dpc' = IF Decode!Ended(t, stop) THEN "done" ELSE "loop"
  BY DEF Decode!Bonus
<1>3. /\ Decode!TypeOK /\ OnPath /\ GoesOn /\ way # "generate" /\ (way # "draft" => dkv = <<>>)
      /\ Rows(tkv, Told - acc + Len(drafted), path, Told, drafted, acc)
      /\ (way = "draft" => Rows(dkv, Told - acc + Len(drafted) - 1, path, Told, drafted, acc))
      /\ Told - acc + Len(drafted) <= Context /\ acc < Told /\ RoundRight
  BY <1>1, Verifying
<1>4. /\ Told \in Nat /\ Len(drafted) \in Nat /\ acc \in Nat /\ Context \in Nat /\ draftContext \in Nat
      /\ tkv \in Seq(Tokens) /\ dkv \in Seq(Tokens) /\ drafted \in Seq(Tokens)
      /\ Len(tkv) <= Context
  BY <1>3, SpeculativeIs DEF Decode!TypeOK
<1>5. /\ Told - acc + Len(drafted) = Told /\ Told - acc + Len(drafted) - 1 = Told - 1 /\ Told - 1 \in Nat
      /\ Told - acc + acc = Told /\ (Told - 1) + 1 = Told /\ Told <= Told + 1 /\ Told + 1 \in Nat
  BY <1>1, <1>3, <1>4
<1>6. Rows(tkv, Told, path, Told, drafted, acc) /\ (way = "draft" => Rows(dkv, Told - 1, path, Told, drafted, acc))
  BY <1>3, <1>5
<1>7. Told <= Context /\ t = path[Told + 1] /\ t \in Tokens
  BY <1>2, <1>3, <1>4, <1>6, DrawnOnPath
<1>8. /\ emitted' \in Seq(Tokens) /\ Len(emitted') = Len(emitted) + 1 /\ Len(emitted') <= maxNew'
      /\ stopped' \in BOOLEAN /\ Told' = Told + 1 /\ OnPath'
      /\ ~stopped' /\ (Decode!Ended(t, stop) \/ Told = Context) => IsOver'
      /\ ~Decode!Ended(t, stop) => GoesOn'
  BY <1>1, <1>2, <1>3, <1>7, Emitted
<1>9. path' = path /\ way' = way /\ draftContext' = draftContext /\ drafted' = drafted /\ acc' = acc
  BY <1>1 DEF Decode!question
<1> DEFINE c == Decode!Last(drafted)
<1>10. c \in Tokens /\ c = path[Told]
  <2>1. drafted # <<>> /\ \A i \in 1..acc : drafted[i] = path[Told - acc + i]
    BY <1>1, <1>3 DEF RoundRight
  <2>2. acc \in 1..acc
    BY <1>1, <1>4, <2>1
  <2>3. drafted[acc] = path[Told - acc + acc]
    BY <2>1, <2>2
  <2>4. drafted[acc] \in Tokens
    BY <1>1, <1>4, <2>2
  <2>5. QED
    BY <1>1, <1>5, <2>3, <2>4 DEF Decode!Last
<1> HIDE DEF c
<1>11. way = "draft" => /\ dkv' \in Seq(Tokens) /\ Len(dkv') <= draftContext
                        /\ Rows(dkv', Told, path, Told, drafted, acc)
  <2> SUFFICES ASSUME way = "draft"
               PROVE  /\ dkv' \in Seq(Tokens) /\ Len(dkv') <= draftContext
                      /\ Rows(dkv', Told, path, Told, drafted, acc)
    OBVIOUS
  <2>1. dkv' = Append(dkv, c) /\ Len(Append(dkv, c)) = Len(dkv) + 1
    BY <1>1, <1>4 DEF c
  <2>2. c = IF (Told - 1) + 1 <= Told THEN path[(Told - 1) + 1] ELSE drafted[(Told - 1) + 1 - (Told - acc)]
    BY <1>4, <1>5, <1>10
  <2>3. /\ Append(dkv, c) \in Seq(Tokens)
        /\ Rows(Append(dkv, c), (Told - 1) + 1, path, Told, drafted, acc)
    BY <1>4, <1>5, <1>6, <1>10, <2>2, RowsPush
  <2>4. QED
    BY <1>1, <1>5, <2>1, <2>3
<1>12. Decode!TypeOK'
  <2>1. dkv' \in Seq(Tokens) /\ Len(dkv') <= draftContext
    BY <1>1, <1>3, <1>11 DEF Decode!TypeOK
  <2>2. QED
    BY <1>1, <1>2, <1>3, <1>7, <1>8, <2>1 DEF Decode!TypeOK, Decode!question
<1>13. EndRight' /\ RoundRight'
  BY <1>2, <1>8 DEF EndRight, RoundRight, Under
<1>14. RowsRight'
  <2>1. Told' = Told + 1 /\ Told' - 1 = Told
    BY <1>4, <1>8
  <2>2. Target(Told - 1)'
    <3>1. Rows(tkv, Told, path, Told + 1, drafted, acc)
      BY <1>4, <1>5, <1>6, RowsOfTokens
    <3>2. QED
      BY <1>1, <1>9, <2>1, <3>1 DEF Target
  <2>3. Draft(Told - 1)'
    <3>1. way = "draft" => Rows(dkv', Told, path, Told + 1, drafted, acc)
      BY <1>4, <1>5, <1>11, RowsOfTokens
    <3>2. QED
      BY <1>9, <2>1, <3>1 DEF Draft
  <2>4. cur' = path'[Told'] /\ way' # "generate" /\ (way' # "draft" => dkv' = <<>>)
    BY <1>1, <1>2, <1>3, <1>7, <1>9, <2>1
  <2>5. QED
    BY <1>2, <2>2, <2>3, <2>4 DEF RowsRight
<1>15. QED
  BY <1>8, <1>12, <1>13, <1>14 DEF DecodeIInv

LEMMA DecodeStep == DecodeIInv /\ Decode!Next => DecodeIInv'
BY GenerateStartInv, GenerateInv, PrefillInv, PrefillFailsInv, PlainInv, PlainFailsInv, LookupEndsInv,
   LookupInv, ProposeInv, ProposalInv, ProposalFailsInv, ScoreInv, AcceptInv, RejectInv, BonusInv,
   BonusFailsInv DEF Decode!Next

LEMMA DecodeStutter == DecodeIInv /\ UNCHANGED decoding => DecodeIInv'
<1> SUFFICES ASSUME DecodeIInv, UNCHANGED decoding PROVE DecodeIInv'
  OBVIOUS
<1>1. UNCHANGED <<way, path, np, maxNew, ahead, draftContext, dpc, tkv, dkv, emitted, cur, drafted, acc, stopped>>
  BY DEF decoding
<1>2. Told' = Told /\ Decode!Room' = Decode!Room
  BY <1>1 DEF Told, Decode!Room
<1>3. Decode!TypeOK' /\ OnPath'
  BY <1>1, <1>2 DEF DecodeIInv, Decode!TypeOK, OnPath
<1>4. EndRight'
  BY <1>1, <1>2 DEF DecodeIInv, EndRight, Under, GoesOn, IsOver, Decode!HasRoom
<1>5. RowsRight'
  BY <1>1, <1>2 DEF DecodeIInv, RowsRight, Target, Draft
<1>6. RoundRight'
  BY <1>1, <1>2 DEF DecodeIInv, RoundRight
<1>7. QED
  BY <1>3, <1>4, <1>5, <1>6 DEF DecodeIInv

-----------------------------------------------------------------------------
(* What decoding promises *)

\* The answer is the beginning of what greedy decoding returns, and when it has
\* come to its end, all of it.
LEMMA AnswerIsGreedy ==
  ASSUME Decode!TypeOK, OnPath
  PROVE  Decode!OutIsGreedy /\ (IsOver => emitted = Decode!Greedy)
<1> DEFINE E == {i \in 1..Context + 1 - np : i = maxNew \/ path[np + i] = Eos \/ np + i = Context + 1}
           n == Decode!Min(E)
<1>1. /\ np \in 1..Context /\ Context \in Nat /\ maxNew \in Nat \ {0} /\ path \in Seq(Tokens)
      /\ Len(path) = Context + 1 /\ emitted \in Seq(Tokens) /\ Len(emitted) \in Nat
      /\ Len(emitted) <= maxNew /\ Told = np + Len(emitted) /\ Told <= Context + 1
  BY SpeculativeIs DEF Decode!TypeOK, Told, OnPath
<1>2. E \in SUBSET Nat /\ E # {}
  <2>1. 1..Context + 1 - np \in SUBSET Nat /\ Context + 1 - np \in 1..Context + 1 - np
        /\ np + (Context + 1 - np) = Context + 1
    BY <1>1
  <2>2. QED
    BY <2>1
<1>3. n \in E /\ \A i \in E : n <= i
  <2> HIDE DEF E
  <2>1. QED
    BY <1>2, MinIs
<1>4. Decode!Greedy = SubSeq(path, np + 1, np + n)
  BY DEF Decode!Greedy
<1>5. n \in 1..Context + 1 - np /\ (n = maxNew \/ path[np + n] = Eos \/ np + n = Context + 1)
  <2> HIDE DEF n
  <2>1. QED
    BY <1>3
<1>6. \A i \in 1..Context + 1 - np : i = maxNew \/ path[np + i] = Eos \/ np + i = Context + 1 => n <= i
  <2> HIDE DEF n
  <2>1. QED
    BY <1>3
<1> HIDE DEF n, E
<1>7. /\ Decode!Greedy \in Seq(Tokens) /\ Len(Decode!Greedy) = n
      /\ \A i \in 1..n : Decode!Greedy[i] = path[np + i]
  <2> DEFINE u == np + 1
             v == np + n
  <2>1. /\ u \in Int /\ v \in Int /\ u >= 1 /\ u <= v /\ v <= Len(path)
        /\ v - u + 1 = n /\ \A i \in 1..n : u + i - 1 = np + i
    BY <1>1, <1>5
  <2>2. Decode!Greedy = SubSeq(path, u, v)
    BY <1>4
  <2> HIDE DEF u, v
  <2>3. \A j \in u..v : path[j] \in Tokens
    BY <1>1, <2>1
  <2>4. /\ SubSeq(path, u, v) \in Seq(Tokens) /\ Len(SubSeq(path, u, v)) = v - u + 1
        /\ \A i \in 1..v - u + 1 : SubSeq(path, u, v)[i] = path[u + i - 1]
    BY <2>1, <2>3, SubSeqProperties
  <2>5. QED
    BY <2>1, <2>2, <2>4
<1>8. Len(emitted) <= n
  <2> SUFFICES ASSUME n < Len(emitted) PROVE FALSE
    BY <1>1, <1>5
  <2>1. n \in 1..Len(emitted) - 1 /\ n \in 1..Len(emitted)
    BY <1>1, <1>5
  <2>2. emitted[n] = path[np + n] /\ emitted[n] # Eos
    BY <2>1 DEF OnPath
  <2>3. n # maxNew /\ np + n # Context + 1
    BY <1>1, <1>5
  <2>4. QED
    BY <1>5, <2>2, <2>3
<1>9. \A i \in 1..Len(emitted) : emitted[i] = Decode!Greedy[i]
  <2>1. \A i \in 1..Len(emitted) : i \in 1..n
    BY <1>1, <1>5, <1>8
  <2>2. QED
    BY <1>7, <2>1 DEF OnPath
<1>10. Decode!OutIsGreedy
  <2>1. /\ SubSeq(Decode!Greedy, 1, Len(emitted)) \in Seq(Tokens)
        /\ Len(SubSeq(Decode!Greedy, 1, Len(emitted))) = Len(emitted)
        /\ \A i \in 1..Len(emitted) : SubSeq(Decode!Greedy, 1, Len(emitted))[i] = Decode!Greedy[i]
    <3>1. \A i \in 1..Len(emitted) : Decode!Greedy[i] \in Tokens
      BY <1>1, <1>5, <1>7, <1>8
    <3>2. QED
      BY <1>1, <3>1, SubSeqProperties
  <2>2. SubSeq(Decode!Greedy, 1, Len(emitted)) = emitted
    BY <1>1, <1>9, <2>1, SeqEqual
  <2>3. SubSeq(emitted, 1, Len(emitted)) = emitted
    BY <1>1
  <2>4. QED
    BY <1>7, <1>8, <2>2, <2>3 DEF Decode!OutIsGreedy, Decode!IsPrefix
<1>11. ASSUME IsOver PROVE emitted = Decode!Greedy
  <2>1. Len(emitted) \in 1..Context + 1 - np /\ Len(emitted) \in 1..Len(emitted)
    BY <1>1, <1>11 DEF IsOver
  <2>2. \/ Len(emitted) = maxNew \/ path[np + Len(emitted)] = Eos \/ np + Len(emitted) = Context + 1
    BY <1>1, <1>11, <2>1 DEF IsOver, OnPath
  <2>3. n <= Len(emitted)
    BY <1>6, <2>1, <2>2
  <2>4. Len(emitted) = n
    BY <1>1, <1>5, <1>8, <2>3
  <2>5. QED
    BY <1>1, <1>7, <1>9, <2>4, SeqEqual
<1>12. QED
  BY <1>10, <1>11

\* Rows of all tokens but the last, or of all of them.
LEMMA RowsFollow ==
  ASSUME Decode!TypeOK, OnPath, NEW kv \in Seq(Tokens), NEW m \in {Told - 1, Told},
         Rows(kv, m, path, Told, drafted, acc)
  PROVE  Decode!RowsOf(kv) /\ (m = Told - 1 => kv = Decode!Front(Decode!Hist))
<1>1. /\ Decode!Hist \in Seq(Tokens) /\ Len(Decode!Hist) = Told
      /\ \A i \in 1..Told : Decode!Hist[i] = path[i]
  BY HistIs
<1>2. Told \in Nat /\ Told >= 1
  BY SpeculativeIs
<1>3. Len(kv) = m /\ m \in Nat /\ m <= Told /\ m + 1 >= Told /\ \A i \in 1..m : i \in 1..Told
  BY <1>2 DEF Rows
<1>4. \A i \in 1..m : kv[i] = Decode!Hist[i]
  BY <1>1, <1>2, <1>3 DEF Rows
<1>5. /\ SubSeq(Decode!Hist, 1, m) \in Seq(Tokens) /\ Len(SubSeq(Decode!Hist, 1, m)) = m
      /\ \A i \in 1..m : SubSeq(Decode!Hist, 1, m)[i] = Decode!Hist[i]
  <2>1. \A i \in 1..m : Decode!Hist[i] \in Tokens
    BY <1>1, <1>3
  <2>2. QED
    BY <1>3, <2>1, SubSeqProperties
<1>6. SubSeq(Decode!Hist, 1, m) = kv
  BY <1>3, <1>4, <1>5, SeqEqual
<1>7. SubSeq(kv, 1, Len(kv)) = kv
  OBVIOUS
<1>8. Decode!RowsOf(kv)
  BY <1>1, <1>3, <1>6, <1>7 DEF Decode!RowsOf, Decode!IsPrefix
<1>9. QED
  BY <1>1, <1>6, <1>8 DEF Decode!Front

LEMMA DecodePromised == DecodeIInv => Decode!DecodingInv
<1> SUFFICES ASSUME DecodeIInv PROVE Decode!DecodingInv
  OBVIOUS
<1>1. /\ Decode!TypeOK /\ OnPath /\ EndRight /\ RowsRight /\ tkv \in Seq(Tokens) /\ dkv \in Seq(Tokens)
  BY DEF DecodeIInv, Decode!TypeOK
<1>2. Decode!OutIsGreedy /\ (IsOver => emitted = Decode!Greedy)
  BY <1>1, AnswerIsGreedy
<1>3. Decode!SameAsGreedy
  BY <1>1, <1>2 DEF Decode!SameAsGreedy, Decode!IdenticalToGreedy, EndRight
<1>4. ASSUME dpc = "loop"
      PROVE  tkv = Decode!Front(Decode!Hist) /\ (way = "draft" => dkv = Decode!Front(Decode!Hist))
  <2>1. Target(Told - 1) /\ Draft(Told - 1)
    BY <1>1, <1>4 DEF RowsRight
  <2>2. QED
    BY <1>1, <2>1, RowsFollow DEF Target, Draft
<1>5. ASSUME dpc = "done"
      PROVE  Decode!RowsOf(tkv) /\ (way = "draft" => Decode!RowsOf(dkv))
  <2>1. (Target(Told - 1) \/ Target(Told)) /\ (Draft(Told - 1) \/ Draft(Told))
    BY <1>1, <1>5 DEF RowsRight
  <2>2. QED
    BY <1>1, <2>1, RowsFollow DEF Target, Draft
<1>6. QED
  BY <1>1, <1>2, <1>3, <1>4, <1>5 DEF Decode!DecodingInv, Decode!SessionsFollow

LEMMA SessionsDecode == SessionsSpec => [](kind = "decoding" => DecodeIInv)
<1>1. SessionsInit => (kind = "decoding" => DecodeIInv)
  BY DecodeInit DEF SessionsInit, SomeDecoding
<1>2. (kind = "decoding" => DecodeIInv) /\ [SessionsNext]_sessions
        => (kind = "decoding" => DecodeIInv)'
  BY DecodeStep, DecodeStutter DEF SessionsNext, sessions, streaming
<1>3. QED
  BY <1>1, <1>2, PTL DEF SessionsSpec

\* For any tokens, contexts, prompts, limits and draft model: every way of decoding
\* emits the target's own tokens, all of them when the answer has room, and leaves
\* the two sessions with the rows of those tokens (speculative.hpp).
THEOREM DecodingIsGreedy == SessionsSpec => []DecodingInv
<1>1. (kind = "decoding" => DecodeIInv) => DecodingInv
  BY DecodePromised DEF DecodingInv
<1>2. QED
  BY <1>1, SessionsDecode, PTL
=============================================================================
