--------------------------- MODULE TaskPoolProofs ---------------------------
(***************************************************************************)
(* Proofs about TaskPool, for any pools, any number of callers, chunks,    *)
(* loops and tasks, and any nesting.                                       *)
(***************************************************************************)
EXTENDS TaskPool, FiniteSetTheorems, SequenceTheorems, TLAPS

(* What a stack looks like *)

InSeq(s) == {s[i] : i \in 1..Len(s)}

Loop(f) == f.fn \in {"parallel_for", "job"}

\* A frame with another above it is in user code, or draining.
Outer(f) == \/ Loop(f) /\ f.at = "chunk"
            \/ f.fn = "task" /\ f.at = "run"
            \/ f.fn \in {"submit", "destroy"} /\ f.at = "drain"

\* On what a thread is in first there are loops only, the inner ones begun later;
\* or one task that is drained.
Shape(s, firsts) ==
  /\ \A i \in 2..Len(s) : Outer(s[i])
  /\ \A i \in 1..Len(s) : i < Len(s) => \/ s[i].fn = "parallel_for" /\ s[i + 1].fn \notin {"submit", "destroy"}
                                        \/ s[i].fn = "task" /\ s[i + 1].fn \in {"submit", "destroy"}
  /\ \A i, k \in 1..Len(s) : i < k => s[k].job < s[i].job \/ s[k].job = 0
  /\ s # <<>> => s[Len(s)].fn \in firsts

Firsts(t) == IF t \in Workers THEN {"job", "task"}
             ELSE {"parallel_for", "submit", "wait_idle", "destroy"}

FrameRight(f) ==
  /\ f.fn = "parallel_for" => f.at \in {"notify", "body", "chunk", "spin", "drain"}
  /\ f.fn = "job" => f.at \in {"body", "chunk"}
  /\ f.fn = "task" => f.at \in {"start", "run", "end"}
  /\ f.fn = "submit" => f.at \in {"notify", "drain"}
  /\ f.fn = "wait_idle" => f.at \in {"check", "wait"}
  /\ f.fn = "destroy" => f.at \in {"stop", "notify", "join", "drain"}
  /\ f.job \in IF Loop(f) THEN 1..begun ELSE {0}
  /\ f.fn = "task" => f.task \in Submitted
  /\ f.owed \subseteq Submitted
  /\ f.fn = "parallel_for" /\ f.at = "drain" => f.job # job /\ done[f.job] = Chunks
  /\ Loop(f) \/ (f.fn = "submit" /\ f.at = "notify") => workers # {}
  /\ f.fn \in {"submit", "destroy"} /\ f.at = "drain" => workers = {}
  /\ f.fn = "destroy" => gone /\ (f.at # "drain" /\ workers = {} => queue = {})

StacksRight ==
  /\ \A t \in Threads : Shape(stack[t], Firsts(t)) /\ \A f \in InSeq(stack[t]) : FrameRight(f)
  /\ \A t \in Workers : t \notin workers \/ t \in exited => stack[t] = <<>>

-----------------------------------------------------------------------------
(* What is counted: of a stack only this matters *)

Base(s) == IF s = <<>> THEN "none" ELSE s[Len(s)].fn
Busy(s) == {f \in InSeq(s) : f.fn # "wait_idle"}

InJob == {t \in Workers : Base(stack[t]) = "job"}
InTask == {t \in Workers : Base(stack[t]) = "task"}
InChunk(j) == {t \in Threads : \E f \in Busy(stack[t]) : f.at = "chunk" /\ f.job = j}

Counted ==
  /\ active = Cardinality(InJob) /\ running = Cardinality(InTask)
  /\ \A j \in Jobs : next[j] = done[j] + Cardinality(InChunk(j))

HasLoop(j) == \E t \in Threads : \E f \in Busy(stack[t]) : f.fn = "parallel_for" /\ f.job = j

LoopsRight ==
  /\ gen = begun /\ (job # 0 => job \in 1..begun /\ HasLoop(job))
  /\ \A t \in Threads : \A f \in Busy(stack[t]) : f.fn = "job" => HasLoop(f.job)
  /\ \A j \in 1..begun : HasLoop(j) \/ (next[j] = Chunks /\ done[j] = Chunks)

HasTask(k, a) == \E t \in Threads : \E f \in Busy(stack[t]) : f.fn = "task" /\ f.task = k /\ f.at = a

TasksRight ==
  /\ \A k \in Tasks : state[k] = "queued" => k \in queue \/ HasTask(k, "start")
  /\ \A k \in Tasks : state[k] = "running" => HasTask(k, "run")
  /\ queue \subseteq Submitted /\ \E n \in Nat : Submitted = 1..n

\* Who is left to empty the queue.
Occupied == \E c \in Callers : Base(stack[c]) # "none"

EndRight ==
  /\ (stop => gone) /\ (exited # {} => stop)
  /\ gone => \A c \in Callers : Base(stack[c]) \in {"none", "destroy"}
  /\ gone => exited = workers \/ Occupied
  /\ workers # {} /\ exited = workers => queue = {}
  /\ workers = {} /\ queue # {} => Occupied

IInv == TypeOK /\ StacksRight /\ Counted /\ LoopsRight /\ TasksRight /\ EndRight

-----------------------------------------------------------------------------
(* Sequences of frames *)

LEMMA PushFacts ==
  ASSUME NEW s \in Seq(Frames), NEW f \in Frames
  PROVE  /\ <<f>> \o s \in Seq(Frames) /\ <<f>> \o s # <<>> /\ Len(<<f>> \o s) = Len(s) + 1
         /\ (<<f>> \o s)[1] = f /\ Head(<<f>> \o s) = f
         /\ \A i \in 1..Len(s) : (<<f>> \o s)[i + 1] = s[i]
         /\ InSeq(<<f>> \o s) = InSeq(s) \cup {f}
         /\ (<<f>> \o s)[Len(<<f>> \o s)] = IF s = <<>> THEN f ELSE s[Len(s)]
<1> DEFINE r == <<f>> \o s
<1>1. <<f>> \in Seq(Frames) /\ Len(<<f>>) = 1 /\ <<f>>[1] = f /\ Len(s) \in Nat
  OBVIOUS
<1>2. /\ r \in Seq(Frames) /\ Len(r) = 1 + Len(s)
      /\ \A i \in 1..(1 + Len(s)) : r[i] = IF i <= 1 THEN <<f>>[i] ELSE s[i - 1]
  BY <1>1, ConcatProperties
<1> HIDE DEF r
<1>3. r[1] = f /\ r # <<>> /\ Head(r) = r[1] /\ Len(r) = Len(s) + 1
  <2>1. 1 \in 1..(1 + Len(s))
    BY <1>1
  <2>2. r[1] = f
    BY <1>1, <1>2, <2>1
  <2>3. Len(r) # 0 /\ Len(r) = Len(s) + 1
    BY <1>1, <1>2
  <2>4. r # <<>>
    BY <2>3
  <2>5. QED
    BY <1>2, <2>2, <2>3, <2>4
<1>4. \A i \in 1..Len(s) : r[i + 1] = s[i]
  <2> SUFFICES ASSUME NEW i \in 1..Len(s) PROVE r[i + 1] = s[i]
    OBVIOUS
  <2>1. i + 1 \in 1..(1 + Len(s)) /\ ~(i + 1 <= 1) /\ (i + 1) - 1 = i
    BY <1>1
  <2>2. QED
    BY <1>2, <2>1
<1>5. \A i \in 1..Len(r) : i = 1 \/ (i - 1 \in 1..Len(s) /\ r[i] = s[i - 1])
  BY <1>1, <1>2
<1>6. InSeq(r) = InSeq(s) \cup {f}
  <2>1. \A g : g \in InSeq(r) => g \in InSeq(s) \cup {f}
    BY <1>3, <1>5 DEF InSeq
  <2>2. \A i \in 1..Len(s) : i + 1 \in 1..Len(r)
    BY <1>1, <1>3
  <2>3. 1 \in 1..Len(r)
    BY <1>1, <1>3
  <2>4. \A g : g \in InSeq(s) \cup {f} => g \in InSeq(r)
    BY <1>3, <1>4, <2>2, <2>3 DEF InSeq
  <2>5. QED
    BY <2>1, <2>4
<1>7. r[Len(r)] = IF s = <<>> THEN f ELSE s[Len(s)]
  <2>1. CASE s = <<>>
    <3>1. Len(r) = 1
      BY <1>3, <2>1
    <3>2. QED
      BY <3>1, <1>3, <2>1
  <2>2. CASE s # <<>>
    <3>1. Len(s) \in 1..Len(s)
      BY <2>2, <1>1
    <3>2. QED
      BY <3>1, <1>3, <1>4, <2>2
  <2>3. QED
    BY <2>1, <2>2
<1>8. QED
  BY <1>2, <1>3, <1>4, <1>6, <1>7 DEF r

LEMMA PopFacts ==
  ASSUME NEW s \in Seq(Frames), s # <<>>
  PROVE  /\ Tail(s) \in Seq(Frames) /\ Len(Tail(s)) = Len(s) - 1 /\ Len(s) \in Nat /\ Len(s) > 0
         /\ \A i \in 1..(Len(s) - 1) : Tail(s)[i] = s[i + 1]
         /\ Head(s) = s[1] /\ s[1] \in Frames /\ s[1] \in InSeq(s)
         /\ InSeq(s) = InSeq(Tail(s)) \cup {s[1]}
         /\ Tail(s) # <<>> => Tail(s)[Len(Tail(s))] = s[Len(s)]
         /\ Tail(s) = <<>> <=> Len(s) = 1
<1> DEFINE r == Tail(s)
<1>1. /\ r \in Seq(Frames) /\ Len(r) = Len(s) - 1 /\ \A i \in 1..Len(r) : r[i] = s[i + 1]
      /\ Len(s) \in Nat /\ Len(r) \in Nat
  BY HeadTailProperties
<1>2. Head(s) = s[1] /\ Len(s) > 0 /\ 1 \in 1..Len(s) /\ s[1] \in Frames
  <2>1. Len(s) # 0
    OBVIOUS
  <2>2. Len(s) > 0 /\ 1 \in 1..Len(s)
    BY <1>1, <2>1
  <2>3. QED
    BY <2>2
<1> HIDE DEF r
<1>3. \A i \in 1..(Len(s) - 1) : r[i] = s[i + 1]
  BY <1>1
<1>4. InSeq(s) = InSeq(r) \cup {s[1]}
  <2>1. \A i \in 1..Len(s) : i = 1 \/ (i - 1 \in 1..Len(r) /\ (i - 1) + 1 = i)
    BY <1>1
  <2>2. \A i \in 1..Len(r) : i + 1 \in 1..Len(s)
    BY <1>1
  <2>3. ASSUME NEW g \in InSeq(s) PROVE g \in InSeq(r) \cup {s[1]}
    <3>1. PICK i \in 1..Len(s) : g = s[i]
      BY DEF InSeq
    <3>2. CASE i = 1
      BY <3>1, <3>2
    <3>3. CASE i # 1
      <4>1. i - 1 \in 1..Len(r) /\ (i - 1) + 1 = i
        BY <2>1, <3>3
      <4>2. r[i - 1] = s[i]
        BY <1>1, <4>1
      <4>3. QED
        BY <3>1, <4>1, <4>2 DEF InSeq
    <3>4. QED
      BY <3>2, <3>3
  <2>4. \A g : g \in InSeq(r) \cup {s[1]} => g \in InSeq(s)
    BY <1>1, <1>2, <2>2 DEF InSeq
  <2>5. QED
    BY <2>3, <2>4
<1>5. r # <<>> => r[Len(r)] = s[Len(s)]
  <2> SUFFICES ASSUME r # <<>> PROVE r[Len(r)] = s[Len(s)]
    OBVIOUS
  <2>1. Len(r) # 0
    BY <1>1
  <2>2. Len(r) \in 1..Len(r) /\ Len(r) + 1 = Len(s)
    BY <1>1, <2>1
  <2>3. QED
    BY <1>1, <2>2
<1>6. r = <<>> <=> Len(s) = 1
  <2>1. r = <<>> <=> Len(r) = 0
    BY <1>1
  <2>2. QED
    BY <1>1, <2>1
<1>7. s[1] \in InSeq(s)
  BY <1>2 DEF InSeq
<1>8. QED
  BY <1>1, <1>2, <1>3, <1>4, <1>5, <1>6, <1>7 DEF r

Ats == {"notify", "body", "chunk", "spin", "drain", "start", "run", "end", "check", "wait", "stop", "join"}

\* A frame, and a stack's top, at another place of its function.
MovedTo(f, a) == [f EXCEPT !.at = a]
TopMovedTo(s, a) == [s EXCEPT ![1].at = a]

LEMMA GotoFacts ==
  ASSUME NEW s \in Seq(Frames), s # <<>>, NEW a \in Ats
  PROVE  LET f == MovedTo(s[1], a)
             r == TopMovedTo(s, a)
         IN  /\ f \in Frames /\ f.at = a /\ f.fn = s[1].fn /\ f.job = s[1].job /\ f.task = s[1].task /\ f.owed = s[1].owed
             /\ r \in Seq(Frames) /\ Len(r) = Len(s) /\ r # <<>> /\ r[1] = f /\ Head(r) = f
             /\ \A i \in 2..Len(s) : r[i] = s[i]
             /\ InSeq(r) = InSeq(Tail(s)) \cup {f}
             /\ r[Len(r)].fn = s[Len(s)].fn
<1> DEFINE f == MovedTo(s[1], a)
           r == TopMovedTo(s, a)
<1>1. Len(s) \in Nat /\ Len(s) > 0 /\ s[1] \in Frames /\ 1 \in 1..Len(s)
  <2>1. Len(s) \in Nat /\ Len(s) > 0 /\ s[1] \in Frames
    BY PopFacts
  <2>2. QED
    BY <2>1
<1>2. /\ f \in Frames /\ f.at = a /\ f.fn = s[1].fn /\ f.job = s[1].job /\ f.task = s[1].task /\ f.owed = s[1].owed
  BY <1>1 DEF Frames, Ats, MovedTo
<1>3. r = [s EXCEPT ![1] = f]
  BY DEF MovedTo, TopMovedTo
<1> HIDE DEF f, r
<1>4. /\ r \in Seq(Frames) /\ Len(r) = Len(s) /\ \A i \in 1..Len(s) : r[i] = IF i = 1 THEN f ELSE s[i]
  BY <1>1, <1>2, <1>3, ExceptSeq
<1>5. r[1] = f /\ r # <<>> /\ \A i \in 2..Len(s) : r[i] = s[i]
  <2>1. r[1] = f
    BY <1>1, <1>4
  <2>2. \A i \in 2..Len(s) : i \in 1..Len(s) /\ i # 1
    BY <1>1
  <2>3. r # <<>>
    BY <1>1, <1>4
  <2>4. QED
    BY <2>1, <2>2, <2>3, <1>4
<1>6. Head(r) = f /\ InSeq(r) = InSeq(Tail(r)) \cup {f}
  BY <1>4, <1>5, PopFacts
<1>7. Tail(r) = Tail(s)
  <2>1. /\ Tail(r) \in Seq(Frames) /\ Tail(s) \in Seq(Frames) /\ Len(Tail(r)) = Len(Tail(s)) /\ Len(Tail(s)) = Len(s) - 1
        /\ \A i \in 1..(Len(s) - 1) : Tail(s)[i] = s[i + 1]
        /\ \A i \in 1..(Len(r) - 1) : Tail(r)[i] = r[i + 1]
    BY <1>4, <1>5, PopFacts
  <2>2. \A i \in 1..(Len(s) - 1) : i + 1 \in 2..Len(s)
    BY <1>1
  <2>3. \A i \in 1..Len(Tail(r)) : Tail(r)[i] = Tail(s)[i]
    BY <1>4, <1>5, <2>1, <2>2
  <2>4. QED
    BY <2>1, <2>3, SeqEqual
<1>8. r[Len(r)].fn = s[Len(s)].fn
  <2>1. \A n \in Nat : n > 0 => n = 1 \/ n \in 2..n
    OBVIOUS
  <2>2. Len(s) = 1 \/ Len(s) \in 2..Len(s)
    BY <1>1, <2>1
  <2>3. CASE Len(s) = 1
    BY <1>2, <1>4, <1>5, <2>3
  <2>4. CASE Len(s) \in 2..Len(s)
    BY <1>4, <1>5, <2>4
  <2>5. QED
    BY <2>2, <2>3, <2>4
<1>9. QED
  BY <1>2, <1>4, <1>5, <1>6, <1>7, <1>8 DEF f, r

-----------------------------------------------------------------------------
(* Stacks: what pushing, popping and moving on do to their shape *)

Fns == {"parallel_for", "job", "task", "submit", "wait_idle", "destroy"}

\* f may be called by what is on top of s.
MayCall(f, s) ==
  s # <<>> => /\ Outer(s[1])
              /\ \/ f.fn = "parallel_for" /\ s[1].fn \notin {"submit", "destroy"}
                 \/ f.fn = "task" /\ s[1].fn \in {"submit", "destroy"}

LEMMA ShapePush ==
  ASSUME NEW s \in Seq(Frames), NEW f \in Frames, NEW firsts, Shape(s, firsts), MayCall(f, s),
         \A g \in InSeq(s) : g.job < f.job \/ g.job = 0, s = <<>> => f.fn \in firsts
  PROVE  Shape(<<f>> \o s, firsts)
<1> DEFINE r == <<f>> \o s
<1>1. /\ r # <<>> /\ Len(r) = Len(s) + 1 /\ r[1] = f /\ \A i \in 1..Len(s) : r[i + 1] = s[i]
      /\ Len(s) \in Nat /\ r[Len(r)] = IF s = <<>> THEN f ELSE s[Len(s)]
      /\ s = <<>> <=> Len(s) = 0
  BY PushFacts
<1> HIDE DEF r
<1>2. \A i \in 1..Len(r) : i = 1 \/ (i - 1 \in 1..Len(s) /\ r[i] = s[i - 1])
  <2> TAKE i \in 1..Len(r)
  <2>1. i = 1 \/ (i - 1 \in 1..Len(s) /\ (i - 1) + 1 = i)
    BY <1>1
  <2>2. QED
    BY <1>1, <2>1
<1>3. \A i \in 2..Len(r) : Outer(r[i])
  <2> TAKE i \in 2..Len(r)
  <2>1. i \in 1..Len(r) /\ i # 1 /\ i - 1 \in 1..Len(s)
    BY <1>1
  <2>2. r[i] = s[i - 1]
    BY <1>2, <2>1
  <2>3. CASE i = 2
    BY <1>1, <2>1, <2>2, <2>3 DEF MayCall
  <2>4. CASE i # 2
    <3>1. i - 1 \in 2..Len(s)
      BY <2>1, <2>4
    <3>2. QED
      BY <2>2, <3>1 DEF Shape
  <2>5. QED
    BY <2>3, <2>4
<1>4. \A i \in 1..Len(r) : i < Len(r) => \/ r[i].fn = "parallel_for" /\ r[i + 1].fn \notin {"submit", "destroy"}
                                         \/ r[i].fn = "task" /\ r[i + 1].fn \in {"submit", "destroy"}
  <2> SUFFICES ASSUME NEW i \in 1..Len(r), i < Len(r)
               PROVE  \/ r[i].fn = "parallel_for" /\ r[i + 1].fn \notin {"submit", "destroy"}
                      \/ r[i].fn = "task" /\ r[i + 1].fn \in {"submit", "destroy"}
    OBVIOUS
  <2>1. i \in 1..Len(s) /\ r[i + 1] = s[i]
    BY <1>1
  <2>2. CASE i = 1
    BY <1>1, <2>1, <2>2 DEF MayCall
  <2>3. CASE i # 1
    <3>1. i - 1 \in 1..Len(s) /\ i - 1 < Len(s) /\ (i - 1) + 1 = i /\ r[i] = s[i - 1]
      BY <1>1, <1>2, <2>3
    <3>2. QED
      BY <2>1, <3>1 DEF Shape
  <2>4. QED
    BY <2>2, <2>3
<1>5. \A i, k \in 1..Len(r) : i < k => r[k].job < r[i].job \/ r[k].job = 0
  <2> SUFFICES ASSUME NEW i \in 1..Len(r), NEW k \in 1..Len(r), i < k
               PROVE  r[k].job < r[i].job \/ r[k].job = 0
    OBVIOUS
  <2>1. k - 1 \in 1..Len(s) /\ r[k] = s[k - 1]
    BY <1>1, <1>2
  <2>2. CASE i = 1
    BY <1>1, <2>1, <2>2 DEF InSeq
  <2>3. CASE i # 1
    <3>1. i - 1 \in 1..Len(s) /\ r[i] = s[i - 1] /\ i - 1 < k - 1
      BY <1>2, <2>1, <2>3
    <3>2. QED
      BY <2>1, <3>1 DEF Shape
  <2>4. QED
    BY <2>2, <2>3
<1>6. r[Len(r)].fn \in firsts
  BY <1>1 DEF Shape
<1>7. Shape(r, firsts)
  BY <1>3, <1>4, <1>5, <1>6 DEF Shape
<1>8. QED
  BY <1>7 DEF r

LEMMA ShapePop ==
  ASSUME NEW s \in Seq(Frames), s # <<>>, NEW firsts, Shape(s, firsts)
  PROVE  Shape(Tail(s), firsts)
<1> DEFINE r == Tail(s)
<1>1. /\ Len(r) = Len(s) - 1 /\ Len(s) \in Nat /\ \A i \in 1..(Len(s) - 1) : r[i] = s[i + 1]
      /\ r # <<>> => r[Len(r)] = s[Len(s)]
  BY PopFacts
<1> HIDE DEF r
<1>2. \A i \in 1..Len(r) : i + 1 \in 2..Len(s) /\ i + 1 \in 1..Len(s) /\ r[i] = s[i + 1]
  BY <1>1
<1>3. \A i \in 2..Len(r) : Outer(r[i])
  <2>1. \A i \in 2..Len(r) : i \in 1..Len(r)
    BY <1>1
  <2>2. QED
    BY <2>1, <1>2 DEF Shape
<1>4. \A i \in 1..Len(r) : i < Len(r) => \/ r[i].fn = "parallel_for" /\ r[i + 1].fn \notin {"submit", "destroy"}
                                         \/ r[i].fn = "task" /\ r[i + 1].fn \in {"submit", "destroy"}
  <2> SUFFICES ASSUME NEW i \in 1..Len(r), i < Len(r)
               PROVE  \/ r[i].fn = "parallel_for" /\ r[i + 1].fn \notin {"submit", "destroy"}
                      \/ r[i].fn = "task" /\ r[i + 1].fn \in {"submit", "destroy"}
    OBVIOUS
  <2>1. i + 1 \in 1..Len(r) /\ i + 1 < Len(s)
    BY <1>1
  <2>2. QED
    BY <1>2, <2>1 DEF Shape
<1>5. \A i, k \in 1..Len(r) : i < k => r[k].job < r[i].job \/ r[k].job = 0
  <2> SUFFICES ASSUME NEW i \in 1..Len(r), NEW k \in 1..Len(r), i < k
               PROVE  r[k].job < r[i].job \/ r[k].job = 0
    OBVIOUS
  <2>1. i + 1 < k + 1
    BY <1>1
  <2>2. \A m, o \in 1..Len(s) : m < o => s[o].job < s[m].job \/ s[o].job = 0
    BY DEF Shape
  <2>3. i + 1 \in 1..Len(s) /\ k + 1 \in 1..Len(s) /\ r[i] = s[i + 1] /\ r[k] = s[k + 1]
    BY <1>2
  <2>4. s[k + 1].job < s[i + 1].job \/ s[k + 1].job = 0
    BY <2>1, <2>2, <2>3
  <2>5. QED
    BY <2>3, <2>4
<1>6. r # <<>> => r[Len(r)].fn \in firsts
  BY <1>1 DEF Shape
<1>7. Shape(r, firsts)
  BY <1>3, <1>4, <1>5, <1>6 DEF Shape
<1>8. QED
  BY <1>7 DEF r

\* Another frame of the same function and job on top, or the same frame elsewhere.
LEMMA ShapeKept ==
  ASSUME NEW s \in Seq(Frames), NEW r \in Seq(Frames), NEW firsts, Shape(s, firsts), Len(r) = Len(s),
         \A i \in 2..Len(s) : r[i] = s[i], s # <<>> => r[1].fn = s[1].fn /\ r[1].job = s[1].job
  PROVE  Shape(r, firsts)
<1>1. \A n \in Nat : \A i \in 1..n : i = 1 \/ i \in 2..n
  OBVIOUS
<1>2. \A i \in 1..Len(s) : r[i].fn = s[i].fn /\ r[i].job = s[i].job
  BY <1>1
<1>3. \A i \in 2..Len(r) : Outer(r[i])
  BY DEF Shape
<1>4. \A i \in 1..Len(r) : i < Len(r) => i + 1 \in 1..Len(s)
  OBVIOUS
<1>5. \A i, k \in 1..Len(r) : i < k => r[k].job < r[i].job \/ r[k].job = 0
  BY <1>2 DEF Shape
<1>6. r # <<>> => r[Len(r)].fn \in firsts
  <2>1. r # <<>> => s # <<>> /\ Len(s) \in 1..Len(s)
    OBVIOUS
  <2>2. QED
    BY <1>2, <2>1 DEF Shape
<1>7. QED
  BY <1>2, <1>3, <1>4, <1>5, <1>6 DEF Shape

\* Where the functions are in a stack.
LEMMA ShapeUse ==
  ASSUME NEW s \in Seq(Frames), NEW firsts, Shape(s, firsts), NEW i \in 1..Len(s)
  PROVE  /\ s # <<>> /\ Len(s) \in 1..Len(s) /\ s[Len(s)].fn \in firsts /\ Base(s) = s[Len(s)].fn
         /\ s[i].fn \notin {"parallel_for", "task"} => i = Len(s)
         /\ s[i].fn = "task" => i = Len(s) \/ (i + 1 = Len(s) /\ s[Len(s)].fn \in {"submit", "destroy"})
         /\ i = Len(s) \/ Outer(s[Len(s)])
<1>1. s # <<>> /\ Len(s) \in 1..Len(s) /\ Len(s) \in Nat
  OBVIOUS
<1>2. s[i].fn \notin {"parallel_for", "task"} => i = Len(s)
  BY <1>1 DEF Shape
<1>3. s[i].fn = "task" => i = Len(s) \/ (i + 1 = Len(s) /\ s[Len(s)].fn \in {"submit", "destroy"})
  <2> SUFFICES ASSUME s[i].fn = "task", i # Len(s)
               PROVE  i + 1 = Len(s) /\ s[Len(s)].fn \in {"submit", "destroy"}
    OBVIOUS
  <2>1. i < Len(s) /\ i + 1 \in 1..Len(s)
    BY <1>1
  <2>2. s[i + 1].fn \in {"submit", "destroy"}
    BY <2>1 DEF Shape
  <2>3. ~(i + 1 < Len(s))
    BY <2>1, <2>2 DEF Shape
  <2>4. i + 1 = Len(s)
    BY <1>1, <2>1, <2>3
  <2>5. QED
    BY <2>2, <2>4
<1>4. i = Len(s) \/ Outer(s[Len(s)])
  <2>1. i = Len(s) \/ Len(s) \in 2..Len(s)
    BY <1>1
  <2>2. QED
    BY <2>1 DEF Shape
<1>5. QED
  BY <1>1, <1>2, <1>3, <1>4 DEF Shape, Base

-----------------------------------------------------------------------------
(* ... and to what is counted; WakeIdle does nothing to either *)

Act(f) == {f} \ {g \in {f} : g.fn = "wait_idle"}

LEMMA BusyPush ==
  ASSUME NEW s \in Seq(Frames), NEW f \in Frames
  PROVE  /\ Busy(<<f>> \o s) = Busy(s) \cup Act(f)
         /\ Base(<<f>> \o s) = IF s = <<>> THEN f.fn ELSE Base(s)
<1>1. /\ <<f>> \o s # <<>> /\ InSeq(<<f>> \o s) = InSeq(s) \cup {f}
      /\ (<<f>> \o s)[Len(<<f>> \o s)] = IF s = <<>> THEN f ELSE s[Len(s)]
  BY PushFacts
<1>2. QED
  BY <1>1 DEF Busy, Base, Act

LEMMA BusyPop ==
  ASSUME NEW s \in Seq(Frames), s # <<>>
  PROVE  /\ Busy(s) = Busy(Tail(s)) \cup Act(s[1])
         /\ Base(Tail(s)) = IF Len(s) = 1 THEN "none" ELSE Base(s)
         /\ Busy(<<>>) = {} /\ Base(<<>>) = "none"
<1>1. /\ InSeq(s) = InSeq(Tail(s)) \cup {s[1]} /\ (Tail(s) = <<>> <=> Len(s) = 1)
      /\ Tail(s) # <<>> => Tail(s)[Len(Tail(s))] = s[Len(s)]
  BY PopFacts
<1>2. InSeq(<<>>) = {}
  BY DEF InSeq
<1>3. QED
  BY <1>1, <1>2 DEF Busy, Base, Act

WakeSeq(s) == IF s = <<>> THEN <<>> ELSE <<Woken(Head(s))>> \o Tail(s)

LEMMA WakeFacts ==
  ASSUME NEW s \in Seq(Frames)
  PROVE  /\ WakeSeq(s) \in Seq(Frames) /\ (WakeSeq(s) = <<>> <=> s = <<>>)
         /\ \A firsts : Shape(s, firsts) => Shape(WakeSeq(s), firsts)
         /\ Busy(WakeSeq(s)) = Busy(s) /\ Base(WakeSeq(s)) = Base(s)
         /\ \A g \in InSeq(WakeSeq(s)) : g \in InSeq(s) \/ \E f \in InSeq(s) : g = Woken(f)
<1>1. CASE s = <<>>
  BY <1>1 DEF WakeSeq, InSeq
<1>2. CASE s # <<>>
  <2> DEFINE f == s[1]
             g == Woken(f)
             q == Tail(s)
             r == <<g>> \o q
  <2>1. /\ q \in Seq(Frames) /\ f \in Frames /\ Head(s) = f /\ Len(q) = Len(s) - 1 /\ Len(s) \in Nat /\ Len(s) > 0
        /\ InSeq(s) = InSeq(q) \cup {f} /\ f \in InSeq(s) /\ (q = <<>> <=> Len(s) = 1)
        /\ q # <<>> => q[Len(q)] = s[Len(s)]
        /\ \A i \in 1..(Len(s) - 1) : q[i] = s[i + 1]
    BY <1>2, PopFacts
  <2>2. WakeSeq(s) = r
    BY <1>2, <2>1 DEF WakeSeq
  <2>3. g \in Frames /\ g.fn = f.fn /\ g.job = f.job
    BY <2>1 DEF Woken, Frames
  <2>4. Act(g) = Act(f)
    <3>1. f.fn # "wait_idle" => g = f
      BY DEF Woken
    <3>2. QED
      BY <3>1, <2>3 DEF Act
  <2>5. Busy(s) = Busy(q) \cup Act(f) /\ Base(q) = IF Len(s) = 1 THEN "none" ELSE Base(s)
    BY <1>2, BusyPop
  <2> HIDE DEF g, q
  <2>6. /\ r \in Seq(Frames) /\ r # <<>> /\ r[1] = g /\ Len(r) = Len(q) + 1 /\ InSeq(r) = InSeq(q) \cup {g}
        /\ \A i \in 1..Len(q) : r[i + 1] = q[i]
    BY <2>1, <2>3, PushFacts
  <2>7. Busy(r) = Busy(q) \cup Act(g) /\ Base(r) = IF q = <<>> THEN g.fn ELSE Base(q)
    BY <2>1, <2>3, BusyPush
  <2>8. Busy(r) = Busy(s) /\ Base(r) = Base(s)
    <3>1. Busy(r) = Busy(s)
      BY <2>4, <2>5, <2>7
    <3>2. CASE q = <<>>
      <4>1. Len(s) = 1
        BY <2>1, <3>2
      <4>2. Base(s) = f.fn
        BY <4>1, <1>2 DEF Base
      <4>3. QED
        BY <3>1, <3>2, <4>2, <2>3, <2>7
    <3>3. CASE q # <<>>
      BY <3>1, <3>3, <2>1, <2>5, <2>7
    <3>4. QED
      BY <3>2, <3>3
  <2>9. \A h \in InSeq(r) : h \in InSeq(s) \/ \E e \in InSeq(s) : h = Woken(e)
    BY <2>1, <2>6 DEF g
  <2>10. \A firsts : Shape(s, firsts) => Shape(r, firsts)
    <3>1. \A i \in 2..Len(s) : i - 1 \in 1..Len(q) /\ (i - 1) + 1 = i /\ i - 1 \in 1..(Len(s) - 1)
      BY <2>1
    <3>2. \A i \in 2..Len(s) : r[i] = s[i]
      BY <2>1, <2>6, <3>1
    <3>3. Len(r) = Len(s) /\ r[1].fn = f.fn /\ r[1].job = f.job
      BY <2>1, <2>3, <2>6
    <3>4. QED
      BY <2>6, <3>2, <3>3, ShapeKept
  <2>11. QED
    BY <2>2, <2>6, <2>8, <2>9, <2>10, <1>2
<1>3. QED
  BY <1>1, <1>2

-----------------------------------------------------------------------------
(* A step of one thread *)

\* What was right of a frame stays so.
LEMMA FramesStay ==
  ASSUME TypeOK, workers' = workers, begun' \in Nat, begun <= begun', Submitted \subseteq Submitted', gone => gone',
         \A j \in 1..begun : j # job /\ done[j] = Chunks => j # job' /\ done'[j] = Chunks,
         gone /\ queue = {} => queue' = {}
  PROVE  \A f \in Frames : FrameRight(f) => FrameRight(f)'
<1> SUFFICES ASSUME NEW f \in Frames, FrameRight(f) PROVE FrameRight(f)'
  OBVIOUS
<1>1. begun \in Nat /\ 1..begun \subseteq 1..begun'
  BY DEF TypeOK
<1>2. f.job \in (IF Loop(f) THEN 1..begun' ELSE {0})
  BY <1>1 DEF FrameRight
<1>3. f.fn = "parallel_for" /\ f.at = "drain" => f.job # job' /\ done'[f.job] = Chunks
  BY DEF FrameRight, Loop
<1>4. QED
  BY <1>2, <1>3 DEF FrameRight

\* Thread t's stack becomes s; waiting callers may be woken.
LEMMA Stacked ==
  ASSUME TypeOK, StacksRight, NEW t \in Threads, NEW s \in Seq(Frames),
         LET st == [stack EXCEPT ![t] = s] IN stack' = st \/ stack' = WakeIdle(st),
         Shape(s, Firsts(t)), \A f \in InSeq(s) : FrameRight(f)',
         \A f \in Frames : FrameRight(f) => FrameRight(f)',
         workers' = workers, exited' = exited, t \in Workers /\ s # <<>> => t \in workers \ exited
  PROVE  /\ stack' \in [Threads -> Seq(Frames)] /\ StacksRight'
         /\ Busy(stack'[t]) = Busy(s) /\ Base(stack'[t]) = Base(s) /\ (stack'[t] = <<>> <=> s = <<>>)
         /\ \A u \in Threads \ {t} : /\ Busy(stack'[u]) = Busy(stack[u]) /\ Base(stack'[u]) = Base(stack[u])
                                     /\ stack'[u] = <<>> <=> stack[u] = <<>>
<1> DEFINE st == [stack EXCEPT ![t] = s]
<1>1. st \in [Threads -> Seq(Frames)] /\ st[t] = s /\ \A u \in Threads \ {t} : st[u] = stack[u]
  BY DEF TypeOK
<1>2. \A u \in Threads : Shape(st[u], Firsts(u)) /\ \A f \in InSeq(st[u]) : FrameRight(f)'
  <2> TAKE u \in Threads
  <2>1. CASE u = t
    BY <1>1, <2>1
  <2>2. CASE u # t
    <3>1. st[u] = stack[u] /\ stack[u] \in Seq(Frames)
      BY <1>1, <2>2 DEF TypeOK
    <3>2. \A f \in InSeq(stack[u]) : f \in Frames
      BY <3>1 DEF InSeq
    <3>3. QED
      BY <3>1, <3>2 DEF StacksRight
  <2>3. QED
    BY <2>1, <2>2
<1>3. \A u \in Workers : u \notin workers \/ u \in exited => st[u] = <<>>
  BY <1>1 DEF StacksRight, Threads
<1>4. CASE stack' = st
  <2>1. stack' \in [Threads -> Seq(Frames)]
    BY <1>1, <1>4
  <2>2. StacksRight'
    <3>1. (\A u \in Threads : Shape(stack[u], Firsts(u)) /\ \A f \in InSeq(stack[u]) : FrameRight(f))'
      BY <1>2, <1>4
    <3>2. \A u \in Workers : u \notin workers' \/ u \in exited' => stack'[u] = <<>>
      BY <1>3, <1>4
    <3>3. QED
      BY <3>1, <3>2 DEF StacksRight
  <2>3. QED
    BY <1>1, <1>4, <2>1, <2>2
<1>5. CASE stack' = WakeIdle(st)
  <2> HIDE DEF st
  <2>1. stack' = [u \in Threads |-> WakeSeq(st[u])]
    BY <1>5 DEF WakeIdle, WakeSeq
  <2>2. \A u \in Threads : /\ WakeSeq(st[u]) \in Seq(Frames) /\ (WakeSeq(st[u]) = <<>> <=> st[u] = <<>>)
                           /\ Shape(WakeSeq(st[u]), Firsts(u))
                           /\ Busy(WakeSeq(st[u])) = Busy(st[u]) /\ Base(WakeSeq(st[u])) = Base(st[u])
                           /\ \A g \in InSeq(WakeSeq(st[u])) : g \in InSeq(st[u]) \/ \E f \in InSeq(st[u]) : g = Woken(f)
    BY <1>1, <1>2, WakeFacts
  <2>3. stack' \in [Threads -> Seq(Frames)] /\ \A u \in Threads : stack'[u] = WakeSeq(st[u])
    BY <2>1, <2>2
  <2>4. ASSUME NEW f \in Frames, FrameRight(f)' PROVE FrameRight(Woken(f))'
    <3>1. CASE f.fn = "wait_idle" /\ f.at = "wait"
      <4>1. /\ Woken(f).fn = "wait_idle" /\ Woken(f).at = "check" /\ Woken(f).job = f.job
            /\ Woken(f).task = f.task /\ Woken(f).owed = f.owed
        BY <3>1 DEF Woken, Frames
      <4>2. QED
        BY <2>4, <3>1, <4>1 DEF FrameRight, Loop
    <3>2. CASE ~(f.fn = "wait_idle" /\ f.at = "wait")
      BY <2>4, <3>2 DEF Woken
    <3>3. QED
      BY <3>1, <3>2
  <2>5. ASSUME NEW u \in Threads PROVE \A g \in InSeq(WakeSeq(st[u])) : FrameRight(g)'
    <3>1. \A f \in InSeq(st[u]) : f \in Frames
      BY <1>1 DEF InSeq
    <3>2. QED
      BY <1>2, <2>2, <2>4, <3>1
  <2>6. StacksRight'
    <3>1. (\A u \in Threads : Shape(stack[u], Firsts(u)) /\ \A f \in InSeq(stack[u]) : FrameRight(f))'
      BY <2>2, <2>3, <2>5
    <3>2. \A u \in Workers : u \notin workers' \/ u \in exited' => stack'[u] = <<>>
      BY <1>3, <2>2, <2>3 DEF Threads
    <3>3. QED
      BY <3>1, <3>2 DEF StacksRight
  <2>7. QED
    BY <1>1, <2>2, <2>3, <2>6
<1>6. QED
  BY <1>4, <1>5 DEF st

\* What a step of t comes to: in its stack new takes the place of old.
Stepped(t, rest, old, new, base) ==
  /\ stack' \in [Threads -> Seq(Frames)] /\ StacksRight'
  /\ Busy(stack[t]) = rest \cup old /\ Busy(stack'[t]) = rest \cup new /\ Base(stack'[t]) = base
  /\ \A u \in Threads \ {t} : Busy(stack'[u]) = Busy(stack[u]) /\ Base(stack'[u]) = Base(stack[u])

LEMMA BaseNone ==
  ASSUME NEW s \in Seq(Frames)
  PROVE  (s = <<>> <=> Base(s) = "none") /\ (Len(s) = 1 => Base(s) = s[1].fn)
<1>1. s # <<>> => Len(s) \in 1..Len(s)
  OBVIOUS
<1>2. s # <<>> => s[Len(s)] \in Frames
  BY <1>1
<1>3. QED
  BY <1>2 DEF Base, Frames

LEMMA TopFacts ==
  ASSUME TypeOK, StacksRight, NEW t \in Threads, stack[t] # <<>>
  PROVE  /\ stack[t] \in Seq(Frames) /\ Tail(stack[t]) \in Seq(Frames) /\ Shape(stack[t], Firsts(t))
         /\ Top(t) = stack[t][1] /\ Top(t) \in Frames /\ FrameRight(Top(t)) /\ Top(t) \in InSeq(stack[t])
         /\ t \in Workers => t \in workers \ exited
         /\ Top(t).fn \notin {"parallel_for", "task"} => Len(stack[t]) = 1
         /\ Len(stack[t]) = 1 => Tail(stack[t]) = <<>> /\ Base(stack[t]) = Top(t).fn
         /\ Base(stack[t]) \in Firsts(t)
         /\ \A g \in InSeq(Tail(stack[t])) : g \in InSeq(stack[t]) /\ (g.job < Top(t).job \/ g.job = 0)
<1> DEFINE s == stack[t]
<1>1. s \in Seq(Frames) /\ Shape(s, Firsts(t)) /\ \A f \in InSeq(s) : FrameRight(f)
  BY DEF TypeOK, StacksRight
<1>2. t \in Workers => t \in workers \ exited
  BY DEF StacksRight
<1>3. Top(t) = Head(s)
  BY DEF Top
<1> HIDE DEF s
<1>4. s # <<>>
  BY DEF s
<1>5. /\ Tail(s) \in Seq(Frames) /\ Head(s) = s[1] /\ s[1] \in Frames /\ s[1] \in InSeq(s)
      /\ (Tail(s) = <<>> <=> Len(s) = 1) /\ InSeq(s) = InSeq(Tail(s)) \cup {s[1]}
      /\ Len(Tail(s)) = Len(s) - 1 /\ Len(s) \in Nat /\ Len(s) > 0
      /\ \A i \in 1..(Len(s) - 1) : Tail(s)[i] = s[i + 1]
  BY <1>1, <1>4, PopFacts
<1>6. 1 \in 1..Len(s)
  BY <1>5
<1>7. (s[1].fn \notin {"parallel_for", "task"} => 1 = Len(s)) /\ Base(s) \in Firsts(t)
  <2>1. \A i \in 1..Len(s) : /\ s[Len(s)].fn \in Firsts(t) /\ Base(s) = s[Len(s)].fn
                             /\ s[i].fn \notin {"parallel_for", "task"} => i = Len(s)
    BY <1>1, ShapeUse
  <2>2. QED
    BY <1>6, <2>1
<1>8. Len(s) = 1 => Base(s) = s[1].fn
  BY <1>1, BaseNone
<1>9. \A g \in InSeq(Tail(s)) : g.job < s[1].job \/ g.job = 0
  <2> TAKE g \in InSeq(Tail(s))
  <2>1. PICK i \in 1..Len(Tail(s)) : g = Tail(s)[i]
    BY DEF InSeq
  <2>2. i + 1 \in 1..Len(s) /\ 1 < i + 1 /\ g = s[i + 1]
    BY <1>5, <2>1
  <2>3. QED
    BY <1>1, <1>6, <2>2 DEF Shape
<1>10. QED
  BY <1>1, <1>2, <1>3, <1>5, <1>7, <1>8, <1>9 DEF s

LEMMA PushStep ==
  ASSUME TypeOK, StacksRight, NEW t \in Threads, NEW f \in Frames, Push(t, f), MayCall(f, stack[t]),
         \A g \in InSeq(stack[t]) : g.job < f.job \/ g.job = 0, stack[t] = <<>> => f.fn \in Firsts(t), FrameRight(f)',
         \A g \in Frames : FrameRight(g) => FrameRight(g)',
         workers' = workers, exited' = exited, t \in Workers => t \in workers \ exited
  PROVE  Stepped(t, Busy(stack[t]), {}, Act(f), IF stack[t] = <<>> THEN f.fn ELSE Base(stack[t]))
<1> DEFINE s == stack[t]
           r == <<f>> \o s
<1>1. s \in Seq(Frames) /\ Shape(s, Firsts(t)) /\ \A g \in InSeq(s) : g \in Frames /\ FrameRight(g)
  BY DEF TypeOK, StacksRight, InSeq
<1>2. stack' = [stack EXCEPT ![t] = r]
  BY DEF Push
<1>3. r \in Seq(Frames) /\ InSeq(r) = InSeq(s) \cup {f}
  BY <1>1, PushFacts
<1>4. Shape(r, Firsts(t))
  BY <1>1, ShapePush
<1>5. \A g \in InSeq(r) : FrameRight(g)'
  BY <1>1, <1>3
<1>6. Busy(r) = Busy(s) \cup Act(f) /\ Base(r) = IF s = <<>> THEN f.fn ELSE Base(s)
  BY <1>1, BusyPush
<1> HIDE DEF r
<1>7. /\ stack' \in [Threads -> Seq(Frames)] /\ StacksRight'
      /\ Busy(stack'[t]) = Busy(r) /\ Base(stack'[t]) = Base(r)
      /\ \A u \in Threads \ {t} : Busy(stack'[u]) = Busy(stack[u]) /\ Base(stack'[u]) = Base(stack[u])
  BY <1>2, <1>3, <1>4, <1>5, Stacked
<1>8. QED
  BY <1>6, <1>7 DEF Stepped

LEMMA PopStep ==
  ASSUME TypeOK, StacksRight, NEW t \in Threads, stack[t] # <<>>,
         LET st == [stack EXCEPT ![t] = Tail(@)] IN stack' = st \/ stack' = WakeIdle(st),
         \A g \in Frames : FrameRight(g) => FrameRight(g)', workers' = workers, exited' = exited
  PROVE  Stepped(t, Busy(Tail(stack[t])), Act(Top(t)), {}, IF Len(stack[t]) = 1 THEN "none" ELSE Base(stack[t]))
<1> DEFINE s == stack[t]
           r == Tail(s)
<1>1. /\ s \in Seq(Frames) /\ r \in Seq(Frames) /\ Shape(s, Firsts(t)) /\ Top(t) = s[1]
      /\ t \in Workers => t \in workers \ exited
      /\ \A g \in InSeq(r) : g \in InSeq(s)
  BY TopFacts
<1>2. \A g \in InSeq(s) : g \in Frames /\ FrameRight(g)
  BY <1>1 DEF StacksRight, InSeq
<1>3. Shape(r, Firsts(t)) /\ \A g \in InSeq(r) : FrameRight(g)'
  BY <1>1, <1>2, ShapePop
<1>4. Busy(s) = Busy(r) \cup Act(s[1]) /\ Base(r) = IF Len(s) = 1 THEN "none" ELSE Base(s)
  BY <1>1, BusyPop
<1>5. LET st == [stack EXCEPT ![t] = r] IN stack' = st \/ stack' = WakeIdle(st)
  OBVIOUS
<1> HIDE DEF r
<1>6. /\ stack' \in [Threads -> Seq(Frames)] /\ StacksRight'
      /\ Busy(stack'[t]) = Busy(r) /\ Base(stack'[t]) = Base(r)
      /\ \A u \in Threads \ {t} : Busy(stack'[u]) = Busy(stack[u]) /\ Base(stack'[u]) = Base(stack[u])
  BY <1>1, <1>3, <1>5, Stacked
<1>7. QED
  BY <1>1, <1>4, <1>6 DEF Stepped, r

LEMMA GotoStep ==
  ASSUME TypeOK, StacksRight, NEW t \in Threads, stack[t] # <<>>, NEW a \in Ats, Goto(t, a),
         NEW f \in Frames, f = [Top(t) EXCEPT !.at = a], FrameRight(f)',
         \A g \in Frames : FrameRight(g) => FrameRight(g)', workers' = workers, exited' = exited
  PROVE  Stepped(t, Busy(Tail(stack[t])), Act(Top(t)), Act(f), Base(stack[t]))
<1> DEFINE s == stack[t]
           r == [s EXCEPT ![1].at = a]
<1>1. /\ s \in Seq(Frames) /\ Tail(s) \in Seq(Frames) /\ Shape(s, Firsts(t)) /\ Top(t) = s[1]
      /\ t \in Workers => t \in workers \ exited
      /\ \A g \in InSeq(Tail(s)) : g \in InSeq(s)
  BY TopFacts
<1>2. \A g \in InSeq(s) : g \in Frames /\ FrameRight(g)
  BY <1>1 DEF StacksRight, InSeq
<1>3. f = [s[1] EXCEPT !.at = a] /\ s # <<>>
  BY <1>1
<1>4. stack' = [stack EXCEPT ![t] = r]
  BY DEF Goto
<1> HIDE DEF s
<1>5. /\ r \in Seq(Frames) /\ Len(r) = Len(s) /\ r # <<>> /\ r[1] = f /\ f.fn = s[1].fn /\ f.job = s[1].job
      /\ \A i \in 2..Len(s) : r[i] = s[i]
      /\ InSeq(r) = InSeq(Tail(s)) \cup {f} /\ r[Len(r)].fn = s[Len(s)].fn
  <2>1. s \in Seq(Frames) /\ s # <<>> /\ a \in Ats
    BY <1>1, <1>3
  <2>2. f = MovedTo(s[1], a) /\ r = TopMovedTo(s, a)
    BY <1>3 DEF MovedTo, TopMovedTo
  <2> HIDE DEF r
  <2>3. PICK f0, r0 : f0 = MovedTo(s[1], a) /\ r0 = TopMovedTo(s, a)
    OBVIOUS
  <2>4. /\ f0.fn = s[1].fn /\ f0.job = s[1].job
        /\ r0 \in Seq(Frames) /\ Len(r0) = Len(s) /\ r0 # <<>> /\ r0[1] = f0
        /\ \A i \in 2..Len(s) : r0[i] = s[i]
        /\ InSeq(r0) = InSeq(Tail(s)) \cup {f0}
        /\ r0[Len(r0)].fn = s[Len(s)].fn
    BY <2>1, <2>3, GotoFacts
  <2>5. QED
    BY <2>2, <2>3, <2>4
<1>6. Busy(s) = Busy(Tail(s)) \cup Act(s[1])
  BY <1>1, BusyPop
<1> HIDE DEF r
<1>7. Shape(r, Firsts(t))
  BY <1>3, <1>1, <1>5, ShapeKept
<1>8. \A g \in InSeq(r) : FrameRight(g)'
  BY <1>1, <1>2, <1>5
<1>9. Busy(r) = Busy(Tail(s)) \cup Act(f) /\ Base(r) = Base(s)
  BY <1>5 DEF Busy, Base, Act
<1>10. /\ stack' \in [Threads -> Seq(Frames)] /\ StacksRight'
       /\ Busy(stack'[t]) = Busy(r) /\ Base(stack'[t]) = Base(r)
       /\ \A u \in Threads \ {t} : Busy(stack'[u]) = Busy(stack[u]) /\ Base(stack'[u]) = Base(stack[u])
  BY <1>1, <1>5, <1>4, <1>7, <1>8, Stacked
<1>11. QED
  BY <1>1, <1>6, <1>9, <1>10 DEF Stepped, s

-----------------------------------------------------------------------------
(* What is counted, after a step *)

LEMMA Views ==
  ASSUME NEW t \in Threads, NEW rest, NEW old, NEW new, NEW base, Stepped(t, rest, old, new, base)
  PROVE  /\ InJob' = IF t \in Workers /\ base = "job" THEN InJob \cup {t} ELSE InJob \ {t}
         /\ InTask' = IF t \in Workers /\ base = "task" THEN InTask \cup {t} ELSE InTask \ {t}
         /\ \A j : InChunk(j)' = IF \E f \in rest \cup new : f.at = "chunk" /\ f.job = j
                                 THEN InChunk(j) \cup {t} ELSE InChunk(j) \ {t}
         /\ \A j : HasLoop(j)' <=> \/ \E f \in rest \cup new : f.fn = "parallel_for" /\ f.job = j
                                   \/ \E u \in Threads \ {t} : \E f \in Busy(stack[u]) : f.fn = "parallel_for" /\ f.job = j
         /\ \A k, a : HasTask(k, a)' <=> \/ \E f \in rest \cup new : f.fn = "task" /\ f.task = k /\ f.at = a
                                         \/ \E u \in Threads \ {t} : \E f \in Busy(stack[u]) : f.fn = "task" /\ f.task = k /\ f.at = a
<1>1. /\ Busy(stack'[t]) = rest \cup new /\ Base(stack'[t]) = base
      /\ \A u \in Threads \ {t} : Busy(stack'[u]) = Busy(stack[u]) /\ Base(stack'[u]) = Base(stack[u])
      /\ Workers \subseteq Threads
  BY DEF Stepped, Threads
<1>2. InJob' = IF t \in Workers /\ base = "job" THEN InJob \cup {t} ELSE InJob \ {t}
  BY <1>1 DEF InJob
<1>3. InTask' = IF t \in Workers /\ base = "task" THEN InTask \cup {t} ELSE InTask \ {t}
  BY <1>1 DEF InTask
<1>4. \A j : InChunk(j)' = IF \E f \in rest \cup new : f.at = "chunk" /\ f.job = j
                           THEN InChunk(j) \cup {t} ELSE InChunk(j) \ {t}
  BY <1>1 DEF InChunk
<1>5. \A j : HasLoop(j)' <=> \/ \E f \in rest \cup new : f.fn = "parallel_for" /\ f.job = j
                             \/ \E u \in Threads \ {t} : \E f \in Busy(stack[u]) : f.fn = "parallel_for" /\ f.job = j
  BY <1>1 DEF HasLoop
<1>6. \A k, a : HasTask(k, a)' <=> \/ \E f \in rest \cup new : f.fn = "task" /\ f.task = k /\ f.at = a
                                   \/ \E u \in Threads \ {t} : \E f \in Busy(stack[u]) : f.fn = "task" /\ f.task = k /\ f.at = a
  BY <1>1 DEF HasTask
<1>7. QED
  BY <1>2, <1>3, <1>4, <1>5, <1>6

LEMMA ChunksKept ==
  ASSUME NEW t \in Threads, NEW rest, NEW old, NEW new, NEW base, Stepped(t, rest, old, new, base),
         \A f \in old \cup new : f.at # "chunk"
  PROVE  \A j : InChunk(j)' = InChunk(j)
<1> TAKE j
<1>1. Busy(stack[t]) = rest \cup old
  BY DEF Stepped
<1>2. t \in InChunk(j) <=> \E f \in rest \cup new : f.at = "chunk" /\ f.job = j
  BY <1>1 DEF InChunk
<1>3. InChunk(j)' = IF \E f \in rest \cup new : f.at = "chunk" /\ f.job = j
                    THEN InChunk(j) \cup {t} ELSE InChunk(j) \ {t}
  BY Views
<1>4. CASE t \in InChunk(j)
  BY <1>2, <1>3, <1>4
<1>5. CASE t \notin InChunk(j)
  BY <1>2, <1>3, <1>5
<1>6. QED
  BY <1>4, <1>5

LEMMA CountsKept ==
  ASSUME Counted, NEW t \in Threads, NEW rest, NEW old, NEW new, NEW base, Stepped(t, rest, old, new, base),
         t \in Workers => (base = "job" <=> Base(stack[t]) = "job") /\ (base = "task" <=> Base(stack[t]) = "task"),
         \A f \in old \cup new : f.at # "chunk", UNCHANGED <<active, running, next, done>>
  PROVE  Counted'
<1>1. InJob' = InJob /\ InTask' = InTask
  BY Views DEF InJob, InTask
<1>2. \A j : InChunk(j)' = InChunk(j)
  BY ChunksKept
<1>3. QED
  BY <1>1, <1>2 DEF Counted

LEMMA LoopsKept ==
  ASSUME LoopsRight, NEW t \in Threads, NEW rest, NEW old, NEW new, NEW base, Stepped(t, rest, old, new, base),
         \A f \in old : f.fn = "parallel_for" => \E g \in new : g.fn = "parallel_for" /\ g.job = f.job,
         \A f \in new : f.fn = "job" => HasLoop(f.job),
         gen' = gen, begun' = begun, job' \in {0, job},
         \A j \in 1..begun : HasLoop(j) \/ (next'[j] = next[j] /\ done'[j] = done[j])
  PROVE  LoopsRight'
<1>1. Busy(stack[t]) = rest \cup old /\ Busy(stack'[t]) = rest \cup new /\ \A u \in Threads \ {t} : Busy(stack'[u]) = Busy(stack[u])
  BY DEF Stepped
<1>2. \A j : HasLoop(j) => HasLoop(j)'
  BY <1>1, Views DEF HasLoop
<1>3. \A u \in Threads : \A f \in Busy(stack'[u]) : f.fn = "job" => HasLoop(f.job)'
  <2> SUFFICES ASSUME NEW u \in Threads, NEW f \in Busy(stack'[u]), f.fn = "job" PROVE HasLoop(f.job)'
    OBVIOUS
  <2>1. f \in Busy(stack[u]) \/ f \in new
    BY <1>1
  <2>2. HasLoop(f.job)
    BY <2>1 DEF LoopsRight
  <2>3. QED
    BY <1>2, <2>2
<1>4. job' # 0 => job' \in 1..begun' /\ HasLoop(job)'
  BY <1>2 DEF LoopsRight
<1>5. QED
  BY <1>2, <1>3, <1>4 DEF LoopsRight

LEMMA TasksKept ==
  ASSUME TasksRight, NEW t \in Threads, NEW rest, NEW old, NEW new, NEW base, Stepped(t, rest, old, new, base),
         \A f \in old : f.fn # "task", UNCHANGED <<queue, state>>
  PROVE  TasksRight'
<1>1. Busy(stack[t]) = rest \cup old
  BY DEF Stepped
<1>2. \A k, a : HasTask(k, a) => HasTask(k, a)'
  BY <1>1, Views DEF HasTask
<1>3. Submitted' = Submitted
  BY DEF Submitted
<1>4. QED
  BY <1>2, <1>3 DEF TasksRight

LEMMA EndKept ==
  ASSUME EndRight, NEW t \in Threads, NEW rest, NEW old, NEW new, NEW base, Stepped(t, rest, old, new, base),
         t \in Callers => base = Base(stack[t]) \/ (~gone /\ (base # "none" \/ workers # {} \/ queue' = {})),
         UNCHANGED <<gone, exited, workers>>, queue' \subseteq queue, stop => stop', stop' => gone
  PROVE  EndRight'
<1>1. /\ \A u \in Threads \ {t} : Base(stack'[u]) = Base(stack[u])
      /\ Base(stack'[t]) = base /\ Callers \subseteq Threads
  BY DEF Stepped, Threads
<1>2. t \notin Callers \/ base = Base(stack[t]) \/ base # "none" => (Occupied => Occupied')
  BY <1>1 DEF Occupied
<1>3. gone => \A c \in Callers : Base(stack'[c]) \in {"none", "destroy"}
  BY <1>1 DEF EndRight
<1>4. QED
  BY <1>2, <1>3 DEF EndRight

LEMMA CountOne ==
  ASSUME NEW S, IsFiniteSet(S), NEW T, NEW x
  PROVE  /\ Cardinality(S) \in Nat
         /\ T = S \cup {x} /\ x \notin S => IsFiniteSet(T) /\ Cardinality(T) = Cardinality(S) + 1
         /\ T = S \ {x} /\ x \in S => IsFiniteSet(T) /\ Cardinality(T) = Cardinality(S) - 1
         /\ T \subseteq S => IsFiniteSet(T) /\ Cardinality(T) <= Cardinality(S)
BY FS_CardinalityType, FS_AddElement, FS_RemoveElement, FS_Subset

\* TypeOK, but for the stacks and the bounds that follow from the counts.
Flat ==
  /\ workers \in Pools /\ asleep \subseteq workers /\ exited \subseteq workers /\ seen \in [Workers -> 0..MaxJobs]
  /\ job \in 0..MaxJobs /\ gen \in 0..MaxJobs /\ begun \in 0..MaxJobs
  /\ next \in [Jobs -> 0..Chunks] /\ done \in [Jobs -> Nat]
  /\ queue \subseteq Tasks /\ state \in [Tasks -> {"none", "queued", "running", "ran", "skipped"}]
  /\ stopped \subseteq Tasks /\ stop \in BOOLEAN /\ gone \in BOOLEAN

LEMMA TypeIsFlat == TypeOK => Flat
<1>1. TypeOK => done \in [Jobs -> Nat]
  <2>1. 0..Chunks \subseteq Nat
    BY TaskPoolAssumption
  <2>2. QED
    BY <2>1 DEF TypeOK
<1>2. QED
  BY <1>1 DEF TypeOK, Flat

LEMMA ThreadsFinite ==
  /\ IsFiniteSet(Threads) /\ IsFiniteSet(Workers)
  /\ \A p \in Pools : p \subseteq Workers /\ IsFiniteSet(p)
<1>1. IsFiniteSet(Threads) /\ IsFiniteSet(Workers)
  BY TaskPoolAssumption, FS_Union DEF Threads
<1>2. \A p \in Pools : p \subseteq Workers
  BY DEF Workers
<1>3. QED
  BY <1>1, <1>2, FS_Subset

LEMMA TypeStep ==
  ASSUME Flat', stack' \in [Threads -> Seq(Frames)], StacksRight', Counted'
  PROVE  TypeOK'
<1>1. InJob' \subseteq workers' /\ InTask' \subseteq workers'
  <2>1. \A u \in Workers : u \notin workers' => Base(stack'[u]) = "none"
    BY DEF StacksRight, Base
  <2>2. QED
    BY <2>1 DEF InJob, InTask
<1>2. IsFiniteSet(workers')
  BY ThreadsFinite DEF Flat
<1>3. /\ Cardinality(workers') \in Nat
      /\ Cardinality(InJob') \in Nat /\ Cardinality(InJob') <= Cardinality(workers')
      /\ Cardinality(InTask') \in Nat /\ Cardinality(InTask') <= Cardinality(workers')
  BY <1>1, <1>2, FS_Subset, FS_CardinalityType
<1>4. active' = Cardinality(InJob') /\ running' = Cardinality(InTask')
  BY DEF Counted
<1>5. active' \in 0..Cardinality(workers') /\ running' \in 0..Cardinality(workers')
  BY <1>3, <1>4
<1>6. done' \in [Jobs -> 0..Chunks]
  <2>1. done' \in [Jobs -> Nat] /\ next' \in [Jobs -> 0..Chunks]
    BY DEF Flat
  <2>2. ASSUME NEW j \in Jobs PROVE done'[j] \in 0..Chunks
    <3>1. next'[j] = done'[j] + Cardinality(InChunk(j)')
      BY DEF Counted
    <3>2. InChunk(j)' \subseteq Threads
      BY DEF InChunk
    <3>3. Cardinality(InChunk(j)') \in Nat
      BY <3>2, ThreadsFinite, FS_Subset, FS_CardinalityType
    <3>4. done'[j] \in Nat /\ next'[j] \in 0..Chunks /\ Chunks \in Nat
      BY <2>1, TaskPoolAssumption
    <3>5. QED
      BY <3>1, <3>3, <3>4
  <2>3. QED
    BY <2>1, <2>2
<1>7. QED
  BY <1>5, <1>6 DEF Flat, TypeOK

LEMMA FrameMoved ==
  ASSUME NEW e \in Frames, NEW a \in Ats
  PROVE  \E f \in Frames : /\ f = [e EXCEPT !.at = a] /\ f.fn = e.fn /\ f.at = a
                           /\ f.job = e.job /\ f.task = e.task /\ f.owed = e.owed
<1> DEFINE f == [e EXCEPT !.at = a]
<1>1. f \in Frames /\ f.fn = e.fn /\ f.at = a /\ f.job = e.job /\ f.task = e.task /\ f.owed = e.owed
  BY DEF Frames, Ats
<1>2. QED
  BY <1>1

\* Nothing but the thread's place in its function changes, and maybe who sleeps
\* and whether to stop.
LEMMA MoveOn ==
  ASSUME IInv, NEW t \in Threads, stack[t] # <<>>, NEW a \in Ats, Goto(t, a), a # "chunk",
         Top(t).at # "chunk", Top(t).fn # "task",
         FrameRight(Top(t)) => \A f \in Frames : f = [Top(t) EXCEPT !.at = a] => FrameRight(f)',
         UNCHANGED <<loops, tasks, workers, exited, active, running, gone, seen>>,
         asleep' \subseteq workers, stop' \in BOOLEAN, stop => stop', stop' => gone
  PROVE  IInv'
<1>1. TypeOK /\ StacksRight /\ Counted /\ LoopsRight /\ TasksRight /\ EndRight
  BY DEF IInv
<1>2. Top(t) \in Frames /\ FrameRight(Top(t))
  BY <1>1, TopFacts
<1> PICK e \in Frames : e = Top(t)
  BY <1>2
<1>3. PICK f \in Frames : f = [e EXCEPT !.at = a] /\ f.fn = e.fn /\ f.at = a /\ f.job = e.job
  BY FrameMoved
<1>4. \A g \in Frames : FrameRight(g) => FrameRight(g)'
  <2>1. Submitted' = Submitted
    BY DEF Submitted, tasks
  <2>2. QED
    BY <1>1, <2>1, FramesStay DEF TypeOK, loops, tasks
<1>5. FrameRight(f)'
  BY <1>2, <1>3
<1>6. Stepped(t, Busy(Tail(stack[t])), Act(e), Act(f), Base(stack[t]))
  BY <1>1, <1>3, <1>4, <1>5, GotoStep
<1>7. Counted'
  <2>1. \A g \in Act(e) \cup Act(f) : g.at # "chunk"
    BY <1>3 DEF Act
  <2>2. UNCHANGED <<active, running, next, done>>
    BY DEF loops
  <2>3. QED
    BY <1>1, <1>6, <2>1, <2>2, CountsKept
<1>8. LoopsRight'
  <2>1. Busy(stack[t]) = Busy(Tail(stack[t])) \cup Act(e)
    BY <1>6 DEF Stepped
  <2>2. \A g \in Act(f) : g.fn = "job" => HasLoop(g.job)
    <3>1. e.fn = "job" => HasLoop(e.job)
      BY <1>1, <2>1 DEF Act, LoopsRight
    <3>2. QED
      BY <1>3, <3>1 DEF Act
  <2>3. \A g \in Act(e) : g.fn = "parallel_for" => \E h \in Act(f) : h.fn = "parallel_for" /\ h.job = g.job
    BY <1>3 DEF Act
  <2>4. QED
    BY <1>1, <1>6, <2>2, <2>3, LoopsKept DEF loops
<1>9. TasksRight'
  BY <1>1, <1>6, TasksKept DEF Act, tasks
<1>10. EndRight'
  BY <1>1, <1>6, EndKept DEF tasks
<1>11. Flat'
  BY <1>1 DEF TypeOK, Flat, loops, tasks
<1>12. stack' \in [Threads -> Seq(Frames)] /\ StacksRight'
  BY <1>6 DEF Stepped
<1>13. QED
  BY <1>7, <1>8, <1>9, <1>10, <1>11, <1>12, TypeStep DEF IInv

LEMMA NotifyAllKeeps ==
  ASSUME IInv, NEW t \in Threads, NotifyAll(t)
  PROVE  IInv'
<1>1. /\ TypeOK /\ StacksRight /\ EndRight /\ stack[t] # <<>>
      /\ Top(t).fn = "parallel_for" /\ Top(t).at = "notify" /\ Goto(t, "body")
  BY DEF IInv, NotifyAll, In, Top
<1>2. Top(t) \in Frames
  BY <1>1, TopFacts
<1> PICK e \in Frames : e = Top(t)
  BY <1>2
<1>3. /\ UNCHANGED <<loops, tasks, workers, exited, active, running, gone, seen>> /\ Submitted' = Submitted
      /\ asleep' \subseteq workers
  BY <1>1 DEF NotifyAll, pool, tasks, Submitted, TypeOK
<1>4. stop' \in BOOLEAN /\ (stop => stop') /\ (stop' => gone)
  <2>1. FrameRight(e)
    BY <1>1, TopFacts
  <2>2. QED
    BY <1>1, <2>1 DEF NotifyAll, pool, TypeOK, EndRight, FrameRight
<1>5. ASSUME FrameRight(e), NEW f \in Frames, f = [e EXCEPT !.at = "body"] PROVE FrameRight(f)'
  <2>1. /\ f.fn = "parallel_for" /\ f.at = "body" /\ f.job = e.job /\ f.task = e.task /\ f.owed = e.owed
    BY <1>1, <1>5, FrameMoved DEF Ats
  <2>2. UNCHANGED <<begun, workers, gone, queue>>
    BY <1>3 DEF loops, tasks
  <2>3. QED
    BY <1>1, <1>3, <1>5, <2>1, <2>2 DEF FrameRight, Loop
<1>6. "body" \in Ats
  BY DEF Ats
<1>7. QED
  BY <1>1, <1>3, <1>4, <1>5, <1>6, MoveOn

LEMMA NoChunkLeftKeeps ==
  ASSUME IInv, NEW t \in Threads, NoChunkLeft(t)
  PROVE  IInv'
<1>1. /\ TypeOK /\ StacksRight /\ EndRight /\ stack[t] # <<>>
      /\ Top(t).fn = "parallel_for" /\ Top(t).at = "body" /\ Goto(t, "spin")
  BY DEF IInv, NoChunkLeft, In, Top
<1>2. Top(t) \in Frames
  BY <1>1, TopFacts
<1> PICK e \in Frames : e = Top(t)
  BY <1>2
<1>3. /\ UNCHANGED <<loops, tasks, workers, exited, active, running, gone, seen>> /\ Submitted' = Submitted
      /\ asleep' \subseteq workers
  BY <1>1 DEF NoChunkLeft, pool, tasks, Submitted, TypeOK
<1>4. stop' \in BOOLEAN /\ (stop => stop') /\ (stop' => gone)
  <2>1. FrameRight(e)
    BY <1>1, TopFacts
  <2>2. QED
    BY <1>1, <2>1 DEF NoChunkLeft, pool, TypeOK, EndRight, FrameRight
<1>5. ASSUME FrameRight(e), NEW f \in Frames, f = [e EXCEPT !.at = "spin"] PROVE FrameRight(f)'
  <2>1. /\ f.fn = "parallel_for" /\ f.at = "spin" /\ f.job = e.job /\ f.task = e.task /\ f.owed = e.owed
    BY <1>1, <1>5, FrameMoved DEF Ats
  <2>2. UNCHANGED <<begun, workers, gone, queue>>
    BY <1>3 DEF loops, tasks
  <2>3. QED
    BY <1>1, <1>3, <1>5, <2>1, <2>2 DEF FrameRight, Loop
<1>6. "spin" \in Ats
  BY DEF Ats
<1>7. QED
  BY <1>1, <1>3, <1>4, <1>5, <1>6, MoveOn

LEMMA SetStopKeeps ==
  ASSUME IInv, NEW t \in Threads, SetStop(t)
  PROVE  IInv'
<1>1. /\ TypeOK /\ StacksRight /\ EndRight /\ stack[t] # <<>>
      /\ Top(t).fn = "destroy" /\ Top(t).at = "stop" /\ Goto(t, "notify")
  BY DEF IInv, SetStop, In, Top
<1>2. Top(t) \in Frames
  BY <1>1, TopFacts
<1> PICK e \in Frames : e = Top(t)
  BY <1>2
<1>3. /\ UNCHANGED <<loops, tasks, workers, exited, active, running, gone, seen>> /\ Submitted' = Submitted
      /\ asleep' \subseteq workers
  BY <1>1 DEF SetStop, pool, tasks, Submitted, TypeOK
<1>4. stop' \in BOOLEAN /\ (stop => stop') /\ (stop' => gone)
  <2>1. FrameRight(e)
    BY <1>1, TopFacts
  <2>2. QED
    BY <1>1, <2>1 DEF SetStop, pool, TypeOK, EndRight, FrameRight
<1>5. ASSUME FrameRight(e), NEW f \in Frames, f = [e EXCEPT !.at = "notify"] PROVE FrameRight(f)'
  <2>1. /\ f.fn = "destroy" /\ f.at = "notify" /\ f.job = e.job /\ f.task = e.task /\ f.owed = e.owed
    BY <1>1, <1>5, FrameMoved DEF Ats
  <2>2. UNCHANGED <<begun, workers, gone, queue>>
    BY <1>3 DEF loops, tasks
  <2>3. QED
    BY <1>1, <1>3, <1>5, <2>1, <2>2 DEF FrameRight, Loop
<1>6. "notify" \in Ats
  BY DEF Ats
<1>7. QED
  BY <1>1, <1>3, <1>4, <1>5, <1>6, MoveOn

LEMMA NotifyStopKeeps ==
  ASSUME IInv, NEW t \in Threads, NotifyStop(t)
  PROVE  IInv'
<1>1. /\ TypeOK /\ StacksRight /\ EndRight /\ stack[t] # <<>>
      /\ Top(t).fn = "destroy" /\ Top(t).at = "notify" /\ Goto(t, "join")
  BY DEF IInv, NotifyStop, In, Top
<1>2. Top(t) \in Frames
  BY <1>1, TopFacts
<1> PICK e \in Frames : e = Top(t)
  BY <1>2
<1>3. /\ UNCHANGED <<loops, tasks, workers, exited, active, running, gone, seen>> /\ Submitted' = Submitted
      /\ asleep' \subseteq workers
  BY <1>1 DEF NotifyStop, pool, tasks, Submitted, TypeOK
<1>4. stop' \in BOOLEAN /\ (stop => stop') /\ (stop' => gone)
  <2>1. FrameRight(e)
    BY <1>1, TopFacts
  <2>2. QED
    BY <1>1, <2>1 DEF NotifyStop, pool, TypeOK, EndRight, FrameRight
<1>5. ASSUME FrameRight(e), NEW f \in Frames, f = [e EXCEPT !.at = "join"] PROVE FrameRight(f)'
  <2>1. /\ f.fn = "destroy" /\ f.at = "join" /\ f.job = e.job /\ f.task = e.task /\ f.owed = e.owed
    BY <1>1, <1>5, FrameMoved DEF Ats
  <2>2. UNCHANGED <<begun, workers, gone, queue>>
    BY <1>3 DEF loops, tasks
  <2>3. QED
    BY <1>1, <1>3, <1>5, <2>1, <2>2 DEF FrameRight, Loop
<1>6. "join" \in Ats
  BY DEF Ats
<1>7. QED
  BY <1>1, <1>3, <1>4, <1>5, <1>6, MoveOn

LEMMA CheckIdleWaits ==
  ASSUME IInv, NEW t \in Threads, CheckIdle(t), ~(queue = {} /\ running = 0)
  PROVE  IInv'
<1>1. /\ TypeOK /\ StacksRight /\ EndRight /\ stack[t] # <<>>
      /\ Top(t).fn = "wait_idle" /\ Top(t).at = "check" /\ Goto(t, "wait")
  BY DEF IInv, CheckIdle, In, Top
<1>2. Top(t) \in Frames
  BY <1>1, TopFacts
<1> PICK e \in Frames : e = Top(t)
  BY <1>2
<1>3. /\ UNCHANGED <<loops, tasks, workers, exited, active, running, gone, seen>> /\ Submitted' = Submitted
      /\ asleep' \subseteq workers
  BY <1>1 DEF CheckIdle, pool, tasks, Submitted, TypeOK
<1>4. stop' \in BOOLEAN /\ (stop => stop') /\ (stop' => gone)
  <2>1. FrameRight(e)
    BY <1>1, TopFacts
  <2>2. QED
    BY <1>1, <2>1 DEF CheckIdle, pool, TypeOK, EndRight, FrameRight
<1>5. ASSUME FrameRight(e), NEW f \in Frames, f = [e EXCEPT !.at = "wait"] PROVE FrameRight(f)'
  <2>1. /\ f.fn = "wait_idle" /\ f.at = "wait" /\ f.job = e.job /\ f.task = e.task /\ f.owed = e.owed
    BY <1>1, <1>5, FrameMoved DEF Ats
  <2>2. UNCHANGED <<begun, workers, gone, queue>>
    BY <1>3 DEF loops, tasks
  <2>3. QED
    BY <1>1, <1>3, <1>5, <2>1, <2>2 DEF FrameRight, Loop
<1>6. "wait" \in Ats
  BY DEF Ats
<1>7. QED
  BY <1>1, <1>3, <1>4, <1>5, <1>6, MoveOn

LEMMA LoopJob ==
  ASSUME TypeOK, NEW e \in Frames, FrameRight(e), Loop(e)
  PROVE  e.job \in 1..begun /\ e.job \in Jobs /\ e.job \in Nat \ {0}
<1>1. e.job \in 1..begun /\ begun \in 0..MaxJobs /\ MaxJobs \in Nat
  BY TaskPoolAssumption DEF FrameRight, TypeOK
<1>2. QED
  BY <1>1 DEF Jobs

LEMMA LoopThere ==
  ASSUME LoopsRight, NEW t \in Threads, NEW e \in Busy(stack[t]), Loop(e)
  PROVE  HasLoop(e.job)
BY DEF LoopsRight, Loop, HasLoop

LEMMA TakeChunkKeeps ==
  ASSUME IInv, NEW t \in Threads, TakeChunk(t)
  PROVE  IInv'
<1>1. /\ TypeOK /\ StacksRight /\ Counted /\ LoopsRight /\ TasksRight /\ EndRight /\ stack[t] # <<>>
      /\ Top(t).fn \in {"parallel_for", "job"} /\ Top(t).at = "body" /\ Goto(t, "chunk")
      /\ UNCHANGED <<job, gen, done, begun, tasks, pool>>
      /\ next[Top(t).job] < Chunks /\ next' = [next EXCEPT ![Top(t).job] = @ + 1]
  BY DEF IInv, TakeChunk, In, Top
<1>2. /\ Top(t) \in Frames /\ FrameRight(Top(t))
      /\ \A g \in InSeq(Tail(stack[t])) : g.job < Top(t).job \/ g.job = 0
  BY <1>1, TopFacts
<1> PICK e \in Frames : e = Top(t)
  BY <1>2
<1>3. PICK f \in Frames : /\ f = [e EXCEPT !.at = "chunk"] /\ f.fn = e.fn /\ f.at = "chunk"
                          /\ f.job = e.job /\ f.task = e.task /\ f.owed = e.owed
  <2>1. "chunk" \in Ats
    BY DEF Ats
  <2>2. QED
    BY <2>1, FrameMoved
<1>4. e.job \in 1..begun /\ e.job \in Jobs /\ e.job \in Nat \ {0} /\ Loop(e)
  BY <1>1, <1>2, LoopJob DEF Loop
<1>5. \A g \in Frames : FrameRight(g) => FrameRight(g)'
  <2>1. Submitted' = Submitted
    BY <1>1 DEF Submitted, tasks
  <2>2. QED
    BY <1>1, <2>1, FramesStay DEF TypeOK, tasks, pool
<1>6. FrameRight(f)'
  <2>1. Submitted' = Submitted /\ UNCHANGED <<begun, workers, gone, queue>>
    BY <1>1 DEF Submitted, tasks, pool
  <2>2. QED
    BY <1>1, <1>2, <1>3, <2>1 DEF FrameRight, Loop
<1>7. Stepped(t, Busy(Tail(stack[t])), Act(e), Act(f), Base(stack[t]))
  BY <1>1, <1>3, <1>5, <1>6, GotoStep DEF Ats, pool
<1>8. Act(e) = {e} /\ Act(f) = {f} /\ Busy(stack[t]) = Busy(Tail(stack[t])) \cup {e}
  BY <1>1, <1>3, <1>7 DEF Act, Stepped
<1>9. \A j : InChunk(j)' = IF j = e.job THEN InChunk(j) \cup {t} ELSE InChunk(j)
  <2> TAKE j
  <2>1. InChunk(j)' = IF \E g \in Busy(Tail(stack[t])) \cup {f} : g.at = "chunk" /\ g.job = j
                      THEN InChunk(j) \cup {t} ELSE InChunk(j) \ {t}
    BY <1>7, <1>8, Views
  <2>2. t \in InChunk(j) <=> \E g \in Busy(Tail(stack[t])) \cup {e} : g.at = "chunk" /\ g.job = j
    BY <1>8 DEF InChunk
  <2>3. e.at # "chunk" /\ f.at = "chunk" /\ f.job = e.job
    BY <1>1, <1>3
  <2>4. CASE j = e.job
    <3>1. \E g \in Busy(Tail(stack[t])) \cup {f} : g.at = "chunk" /\ g.job = j
      BY <2>3, <2>4
    <3>2. QED
      BY <2>1, <2>4, <3>1
  <2>5. CASE j # e.job
    <3>1. (\E g \in Busy(Tail(stack[t])) \cup {f} : g.at = "chunk" /\ g.job = j) <=> t \in InChunk(j)
      BY <2>2, <2>3, <2>5
    <3>2. QED
      BY <2>1, <2>5, <3>1
  <2>6. QED
    BY <2>4, <2>5
<1>10. t \notin InChunk(e.job)
  <2>1. \A g \in Busy(Tail(stack[t])) : g.job # e.job
    BY <1>2, <1>4 DEF Busy
  <2>2. QED
    BY <1>1, <1>8, <2>1 DEF InChunk
<1>11. Counted'
  <2>1. InJob' = InJob /\ InTask' = InTask
    BY <1>7, Views DEF InJob, InTask
  <2>2. ASSUME NEW j \in Jobs PROVE next'[j] = done'[j] + Cardinality(InChunk(j)')
    <3>1. IsFiniteSet(InChunk(j))
      BY ThreadsFinite, FS_Subset DEF InChunk
    <3>2. next[j] = done[j] + Cardinality(InChunk(j)) /\ done'[j] = done[j] /\ next[j] \in Nat /\ done[j] \in Nat
      BY <1>1 DEF Counted, TypeOK
    <3>3. CASE j = e.job
      <4>1. next'[j] = next[j] + 1
        BY <1>1, <1>4, <3>3 DEF TypeOK
      <4>2. Cardinality(InChunk(j)') = Cardinality(InChunk(j)) + 1 /\ Cardinality(InChunk(j)) \in Nat
        BY <1>9, <1>10, <3>1, <3>3, CountOne
      <4>3. QED
        BY <3>2, <4>1, <4>2
    <3>4. CASE j # e.job
      <4>1. next'[j] = next[j]
        BY <1>1, <1>4, <3>4 DEF TypeOK
      <4>2. Cardinality(InChunk(j)') = Cardinality(InChunk(j))
        BY <1>9, <3>4
      <4>3. QED
        BY <3>2, <4>1, <4>2
    <3>5. QED
      BY <3>3, <3>4
  <2>3. QED
    BY <1>1, <2>1, <2>2 DEF Counted, pool
<1>12. LoopsRight'
  <2>1. HasLoop(e.job)
    BY <1>1, <1>4, <1>8, LoopThere
  <2>2. \A j \in 1..begun : HasLoop(j) \/ (next'[j] = next[j] /\ done'[j] = done[j])
    BY <1>1, <1>4, <2>1 DEF TypeOK, Jobs
  <2>3. \A g \in Act(f) : g.fn = "job" => HasLoop(g.job)
    BY <1>3, <1>8, <2>1
  <2>4. \A g \in Act(e) : g.fn = "parallel_for" => \E h \in Act(f) : h.fn = "parallel_for" /\ h.job = g.job
    <3>1. f \in Act(f) /\ f.fn = e.fn /\ f.job = e.job
      BY <1>3, <1>8
    <3>2. \A g \in Act(e) : g = e
      BY <1>8
    <3>3. QED
      BY <3>1, <3>2
  <2>5. QED
    BY <1>1, <1>7, <2>2, <2>3, <2>4, LoopsKept
<1>13. TasksRight'
  BY <1>1, <1>7, <1>8, TasksKept DEF tasks
<1>14. EndRight'
  BY <1>1, <1>7, EndKept DEF tasks, pool, EndRight
<1>15. Flat'
  <2>1. next' \in [Jobs -> 0..Chunks]
    BY <1>1, <1>4, TaskPoolAssumption DEF TypeOK
  <2>2. Flat
    BY <1>1, TypeIsFlat
  <2>3. QED
    BY <1>1, <2>1, <2>2 DEF Flat, tasks, pool
<1>16. QED
  BY <1>7, <1>11, <1>12, <1>13, <1>14, <1>15, TypeStep DEF IInv, Stepped

LEMMA EndChunkKeeps ==
  ASSUME IInv, NEW t \in Threads, EndChunk(t)
  PROVE  IInv'
<1>1. /\ TypeOK /\ StacksRight /\ Counted /\ LoopsRight /\ TasksRight /\ EndRight /\ stack[t] # <<>>
      /\ Top(t).fn \in {"parallel_for", "job"} /\ Top(t).at = "chunk" /\ Goto(t, "body")
      /\ UNCHANGED <<job, gen, next, begun, tasks, pool>>
      /\ done' = [done EXCEPT ![Top(t).job] = @ + 1]
  BY DEF IInv, EndChunk, In, Top
<1>2. /\ Top(t) \in Frames /\ FrameRight(Top(t))
      /\ \A g \in InSeq(Tail(stack[t])) : g.job < Top(t).job \/ g.job = 0
      /\ stack[t] \in Seq(Frames) /\ Top(t) = stack[t][1]
  BY <1>1, TopFacts
<1> PICK e \in Frames : e = Top(t)
  BY <1>2
<1>3. PICK f \in Frames : /\ f = [e EXCEPT !.at = "body"] /\ f.fn = e.fn /\ f.at = "body"
                          /\ f.job = e.job /\ f.task = e.task /\ f.owed = e.owed
  <2>1. "body" \in Ats
    BY DEF Ats
  <2>2. QED
    BY <2>1, FrameMoved
<1>4. e.job \in 1..begun /\ e.job \in Jobs /\ e.job \in Nat \ {0} /\ Loop(e)
  BY <1>1, <1>2, LoopJob DEF Loop
<1>5. Busy(stack[t]) = Busy(Tail(stack[t])) \cup {e} /\ Act(e) = {e} /\ Act(f) = {f}
  BY <1>1, <1>2, <1>3, BusyPop DEF Act
<1>6. t \in InChunk(e.job)
  BY <1>1, <1>5 DEF InChunk
<1>7. \A j \in Jobs : /\ IsFiniteSet(InChunk(j)) /\ Cardinality(InChunk(j)) \in Nat
                      /\ next[j] = done[j] + Cardinality(InChunk(j)) /\ next[j] \in 0..Chunks /\ done[j] \in Nat
  <2> TAKE j \in Jobs
  <2>1. IsFiniteSet(InChunk(j))
    BY ThreadsFinite, FS_Subset DEF InChunk
  <2>2. Cardinality(InChunk(j)) \in Nat
    BY <2>1, CountOne
  <2>3. QED
    BY <1>1, <2>1, <2>2 DEF Counted, TypeOK
<1>8. done[e.job] # Chunks
  <2>1. Cardinality(InChunk(e.job)) # 0
    BY <1>4, <1>6, <1>7, FS_EmptySet
  <2>2. QED
    BY <1>4, <1>7, <2>1, TaskPoolAssumption
<1>9. /\ done'[e.job] = done[e.job] + 1
      /\ \A j \in Jobs : j # e.job => done'[j] = done[j]
  BY <1>1, <1>4 DEF TypeOK
<1>10. \A g \in Frames : FrameRight(g) => FrameRight(g)'
  <2>1. Submitted' = Submitted
    BY <1>1 DEF Submitted, tasks
  <2>2. \A j \in 1..begun : done[j] = Chunks => done'[j] = Chunks
    BY <1>1, <1>8, <1>9 DEF TypeOK, Jobs
  <2>3. QED
    BY <1>1, <2>1, <2>2, FramesStay DEF TypeOK, tasks, pool
<1>11. FrameRight(f)'
  <2>1. Submitted' = Submitted /\ UNCHANGED <<begun, workers, gone, queue>>
    BY <1>1 DEF Submitted, tasks, pool
  <2>2. QED
    BY <1>1, <1>2, <1>3, <2>1 DEF FrameRight, Loop
<1>12. Stepped(t, Busy(Tail(stack[t])), Act(e), Act(f), Base(stack[t]))
  BY <1>1, <1>3, <1>10, <1>11, GotoStep DEF Ats, pool
<1>13. \A j : InChunk(j)' = IF j = e.job THEN InChunk(j) \ {t} ELSE InChunk(j)
  <2> TAKE j
  <2>1. InChunk(j)' = IF \E g \in Busy(Tail(stack[t])) \cup {f} : g.at = "chunk" /\ g.job = j
                      THEN InChunk(j) \cup {t} ELSE InChunk(j) \ {t}
    BY <1>5, <1>12, Views
  <2>2. t \in InChunk(j) <=> \E g \in Busy(Tail(stack[t])) \cup {e} : g.at = "chunk" /\ g.job = j
    BY <1>5 DEF InChunk
  <2>3. \A g \in Busy(Tail(stack[t])) : g.job # e.job
    BY <1>2, <1>4 DEF Busy
  <2>4. QED
    BY <1>1, <1>3, <2>1, <2>2, <2>3
<1>14. Counted'
  <2>1. InJob' = InJob /\ InTask' = InTask
    BY <1>12, Views DEF InJob, InTask
  <2>2. ASSUME NEW j \in Jobs PROVE next'[j] = done'[j] + Cardinality(InChunk(j)')
    <3>1. CASE j = e.job
      <4>1. Cardinality(InChunk(j)') = Cardinality(InChunk(j)) - 1
        BY <1>6, <1>7, <1>13, <3>1, CountOne
      <4>2. QED
        BY <1>1, <1>7, <1>9, <3>1, <4>1
    <3>2. CASE j # e.job
      <4>1. Cardinality(InChunk(j)') = Cardinality(InChunk(j))
        BY <1>13, <3>2
      <4>2. QED
        BY <1>1, <1>7, <1>9, <3>2, <4>1
    <3>3. QED
      BY <3>1, <3>2
  <2>3. QED
    BY <1>1, <2>1, <2>2 DEF Counted, pool
<1>15. LoopsRight'
  <2>1. HasLoop(e.job)
    BY <1>1, <1>4, <1>5, LoopThere
  <2>2. \A j \in 1..begun : HasLoop(j) \/ (next'[j] = next[j] /\ done'[j] = done[j])
    BY <1>1, <1>9, <2>1 DEF TypeOK, Jobs
  <2>3. \A g \in Act(f) : g.fn = "job" => HasLoop(g.job)
    BY <1>3, <1>5, <2>1
  <2>4. \A g \in Act(e) : g.fn = "parallel_for" => \E h \in Act(f) : h.fn = "parallel_for" /\ h.job = g.job
    BY <1>3, <1>5
  <2>5. QED
    BY <1>1, <1>12, <2>2, <2>3, <2>4, LoopsKept
<1>16. TasksRight'
  BY <1>1, <1>5, <1>12, TasksKept DEF tasks
<1>17. EndRight'
  BY <1>1, <1>12, EndKept DEF tasks, pool, EndRight
<1>18. Flat'
  <2>1. done' \in [Jobs -> Nat]
    BY <1>1, <1>4, TaskPoolAssumption DEF TypeOK
  <2>2. QED
    BY <1>1, <2>1 DEF TypeOK, Flat, tasks, pool
<1>19. QED
  BY <1>12, <1>14, <1>15, <1>16, <1>17, <1>18, TypeStep DEF IInv, Stepped

\* Where the frames of tasks and jobs are.
LEMMA FrameBase ==
  ASSUME TypeOK, StacksRight, NEW t \in Threads, NEW f \in InSeq(stack[t])
  PROVE  /\ f.fn = "job" => t \in Workers /\ Base(stack[t]) = "job"
         /\ f.fn = "task" /\ t \in Workers => Base(stack[t]) = "task"
         /\ f.fn = "task" /\ t \notin Workers => workers = {} /\ Base(stack[t]) \in {"submit", "destroy"}
         /\ f.fn = "parallel_for" => workers # {} /\ Base(stack[t]) \notin {"none", "destroy"}
<1> DEFINE s == stack[t]
<1>1. s \in Seq(Frames) /\ Shape(s, Firsts(t)) /\ \A g \in InSeq(s) : FrameRight(g)
  BY DEF TypeOK, StacksRight
<1> HIDE DEF s
<1>2. PICK i \in 1..Len(s) : f = s[i]
  BY DEF InSeq, s
<1>3. /\ Len(s) \in 1..Len(s) /\ s[Len(s)].fn \in Firsts(t) /\ Base(s) = s[Len(s)].fn
      /\ f.fn \notin {"parallel_for", "task"} => i = Len(s)
      /\ f.fn = "task" => i = Len(s) \/ (i + 1 = Len(s) /\ s[Len(s)].fn \in {"submit", "destroy"})
      /\ i = Len(s) \/ Outer(s[Len(s)])
  BY <1>1, <1>2, ShapeUse
<1>4. FrameRight(f) /\ FrameRight(s[Len(s)])
  BY <1>1, <1>2, <1>3 DEF InSeq
<1>5. f.fn = "job" => t \in Workers /\ Base(s) = "job"
  BY <1>2, <1>3 DEF Firsts
<1>6. f.fn = "task" /\ t \in Workers => Base(s) = "task"
  BY <1>2, <1>3 DEF Firsts
<1>7. f.fn = "task" /\ t \notin Workers => workers = {} /\ Base(s) \in {"submit", "destroy"}
  <2> SUFFICES ASSUME f.fn = "task", t \notin Workers PROVE workers = {} /\ Base(s) \in {"submit", "destroy"}
    OBVIOUS
  <2>1. i # Len(s)
    BY <1>2, <1>3 DEF Firsts
  <2>2. s[Len(s)].fn \in {"submit", "destroy"} /\ Outer(s[Len(s)])
    BY <1>3, <2>1
  <2>3. s[Len(s)].at = "drain"
    BY <2>2 DEF Outer, Loop
  <2>4. QED
    BY <1>3, <1>4, <2>2, <2>3 DEF FrameRight
<1>8. f.fn = "parallel_for" => workers # {} /\ Base(s) \notin {"none", "destroy"}
  <2> SUFFICES ASSUME f.fn = "parallel_for" PROVE workers # {} /\ Base(s) \notin {"none", "destroy"}
    OBVIOUS
  <2>1. workers # {}
    BY <1>4 DEF FrameRight, Loop
  <2>2. Base(s) # "none"
    BY <1>3 DEF Firsts
  <2>3. ASSUME Base(s) = "destroy" PROVE FALSE
    <3>1. i # Len(s)
      BY <1>2, <1>3, <2>3
    <3>2. s[Len(s)].at = "drain"
      BY <1>3, <2>3, <3>1 DEF Outer, Loop
    <3>3. QED
      BY <1>3, <1>4, <2>1, <2>3, <3>2 DEF FrameRight
  <2>4. QED
    BY <2>1, <2>2, <2>3
<1>9. QED
  BY <1>5, <1>6, <1>7, <1>8 DEF s

LEMMA LeaveJobKeeps ==
  ASSUME IInv, NEW w \in Threads, LeaveJob(w)
  PROVE  IInv'
<1>1. /\ TypeOK /\ StacksRight /\ Counted /\ LoopsRight /\ TasksRight /\ EndRight /\ stack[w] # <<>>
      /\ Top(w).fn = "job" /\ Top(w).at = "body" /\ Pop(w) /\ active' = active - 1
      /\ UNCHANGED <<workers, asleep, seen, exited, running, stop, gone, loops, tasks>>
  BY DEF IInv, LeaveJob, In, Top
<1>2. /\ Top(w) \in Frames /\ Top(w) \in InSeq(stack[w]) /\ Len(stack[w]) = 1
  BY <1>1, TopFacts
<1> PICK e \in Frames : e = Top(w)
  BY <1>2
<1>3. w \in Workers /\ Base(stack[w]) = "job"
  BY <1>1, <1>2, FrameBase
<1>4. \A g \in Frames : FrameRight(g) => FrameRight(g)'
  <2>1. Submitted' = Submitted
    BY <1>1 DEF Submitted, tasks
  <2>2. QED
    BY <1>1, <2>1, FramesStay DEF TypeOK, tasks, loops
<1>5. Stepped(w, Busy(Tail(stack[w])), {e}, {}, "none")
  <2>1. Stepped(w, Busy(Tail(stack[w])), Act(e), {}, "none")
    BY <1>1, <1>2, <1>4, PopStep DEF Pop
  <2>2. Act(e) = {e}
    BY <1>1 DEF Act
  <2>3. QED
    BY <2>1, <2>2
<1>6. Counted'
  <2>1. InJob' = InJob \ {w} /\ InTask' = InTask /\ w \in InJob
    BY <1>3, <1>5, Views DEF InJob, InTask
  <2>2. \A j : InChunk(j)' = InChunk(j)
    BY <1>1, <1>5, ChunksKept
  <2>3. IsFiniteSet(InJob)
    BY ThreadsFinite, FS_Subset DEF InJob
  <2>4. Cardinality(InJob') = Cardinality(InJob) - 1
    BY <2>1, <2>3, CountOne
  <2>5. QED
    BY <1>1, <2>1, <2>2, <2>4 DEF Counted, loops
<1>7. LoopsRight'
  BY <1>1, <1>5, LoopsKept DEF loops
<1>8. TasksRight'
  BY <1>1, <1>5, TasksKept DEF tasks
<1>9. EndRight'
  BY <1>1, <1>3, <1>5, EndKept, TaskPoolAssumption DEF tasks, EndRight
<1>10. Flat'
  BY <1>1 DEF TypeOK, Flat, tasks, loops
<1>11. QED
  BY <1>5, <1>6, <1>7, <1>8, <1>9, <1>10, TypeStep DEF IInv, Stepped

\* A loop whose caller leaves is complete, and no worker is in its body.
LEMMA LoopLeft ==
  ASSUME TypeOK, StacksRight, Counted, LoopsRight, NEW t \in Threads, NEW rest, NEW e \in Frames, NEW base,
         Stepped(t, rest, {e}, {}, base), e.fn = "parallel_for", FrameRight(e), active = 0,
         done[e.job] = Chunks, job' \in {0, job}, job' # e.job, UNCHANGED <<gen, begun, next, done>>
  PROVE  LoopsRight'
<1>1. e.job \in 1..begun /\ e.job \in Jobs
  BY LoopJob DEF Loop
<1>2. \A j : HasLoop(j) /\ j # e.job => HasLoop(j)'
  <2>1. Busy(stack[t]) = rest \cup {e}
    BY DEF Stepped
  <2>2. QED
    BY <2>1, Views DEF HasLoop
<1>3. \A u \in Threads : \A f \in Busy(stack[u]) : f.fn # "job"
  <2>1. InJob = {}
    <3>1. IsFiniteSet(InJob)
      BY ThreadsFinite, FS_Subset DEF InJob
    <3>2. Cardinality(InJob) = 0
      BY DEF Counted
    <3>3. QED
      BY <3>1, <3>2, FS_EmptySet
  <2>2. QED
    BY <2>1, FrameBase DEF InJob, Busy
<1>4. \A u \in Threads : \A f \in Busy(stack'[u]) : f.fn # "job"
  BY <1>3 DEF Stepped
<1>5. next[e.job] = Chunks
  <2>1. IsFiniteSet(InChunk(e.job))
    BY ThreadsFinite, FS_Subset DEF InChunk
  <2>2. Cardinality(InChunk(e.job)) \in Nat
    BY <2>1, CountOne
  <2>3. next[e.job] = Chunks + Cardinality(InChunk(e.job)) /\ next[e.job] \in 0..Chunks /\ Chunks \in Nat
    BY <1>1, TaskPoolAssumption DEF Counted, TypeOK
  <2>4. QED
    BY <2>2, <2>3
<1>6. \A j \in 1..begun : HasLoop(j)' \/ (next[j] = Chunks /\ done[j] = Chunks)
  BY <1>2, <1>5 DEF LoopsRight
<1>7. job' # 0 => job' \in 1..begun /\ HasLoop(job)'
  BY <1>2 DEF LoopsRight
<1>8. QED
  BY <1>4, <1>6, <1>7 DEF LoopsRight

\* The caller of a loop goes, with its frame.
LEMMA LoopPops ==
  ASSUME IInv, NEW t \in Threads, stack[t] # <<>>, Top(t).fn = "parallel_for", Top(t).at # "chunk", Pop(t), active = 0,
         done[Top(t).job] = Chunks, job' \in {0, job}, job' # Top(t).job, UNCHANGED <<gen, next, done, begun, tasks, pool>>
  PROVE  IInv'
<1>1. TypeOK /\ StacksRight /\ Counted /\ LoopsRight /\ TasksRight /\ EndRight
  BY DEF IInv
<1>2. /\ Top(t) \in Frames /\ Top(t) \in InSeq(stack[t]) /\ FrameRight(Top(t))
      /\ Len(stack[t]) = 1 => Base(stack[t]) = "parallel_for"
      /\ Base(stack[t]) \in Firsts(t)
  BY <1>1, TopFacts
<1> PICK e \in Frames : e = Top(t)
  BY <1>2
<1> DEFINE base == IF Len(stack[t]) = 1 THEN "none" ELSE Base(stack[t])
<1>3. workers # {} /\ Base(stack[t]) \notin {"none", "destroy"}
  BY <1>1, <1>2, FrameBase
<1>4. \A g \in Frames : FrameRight(g) => FrameRight(g)'
  <2>1. Submitted' = Submitted
    BY DEF Submitted, tasks
  <2>2. \A j \in 1..begun : j # job => j # job'
    BY <1>1 DEF TypeOK
  <2>3. QED
    BY <1>1, <2>1, <2>2, FramesStay DEF TypeOK, tasks, pool
<1>5. Stepped(t, Busy(Tail(stack[t])), {e}, {}, base)
  <2>1. Stepped(t, Busy(Tail(stack[t])), Act(e), {}, base)
    BY <1>1, <1>2, <1>4, PopStep DEF Pop, pool
  <2>2. Act(e) = {e}
    BY DEF Act
  <2>3. QED
    BY <2>1, <2>2
<1>6. t \in Workers => base = Base(stack[t])
  BY <1>2 DEF Firsts
<1>7. t \in Callers => base = Base(stack[t]) \/ ~gone
  BY <1>1, <1>3 DEF EndRight
<1> HIDE DEF base
<1>8. Counted'
  BY <1>1, <1>5, <1>6, CountsKept DEF pool
<1>9. LoopsRight'
  BY <1>1, <1>2, <1>5, LoopLeft
<1>10. TasksRight'
  BY <1>1, <1>5, TasksKept DEF tasks
<1>11. EndRight'
  BY <1>1, <1>3, <1>5, <1>7, EndKept DEF tasks, pool, EndRight
<1>12. Flat'
  BY <1>1, TaskPoolAssumption DEF TypeOK, Flat, tasks, pool
<1>13. QED
  BY <1>5, <1>8, <1>9, <1>10, <1>11, <1>12, TypeStep DEF IInv, Stepped

LEMMA ReturnKeeps ==
  ASSUME IInv, NEW t \in Threads, Return(t)
  PROVE  IInv'
<1>1. /\ TypeOK /\ StacksRight /\ stack[t] # <<>> /\ Top(t).fn = "parallel_for" /\ Top(t).at = "drain" /\ Pop(t)
      /\ active = 0 /\ UNCHANGED <<loops, tasks, pool>>
  BY DEF IInv, Return, In, Top
<1>2. FrameRight(Top(t))
  BY <1>1, TopFacts
<1>3. Top(t).job # job /\ done[Top(t).job] = Chunks
  BY <1>1, <1>2 DEF FrameRight
<1>4. QED
  BY <1>1, <1>3, LoopPops DEF loops

LEMMA AllDoneKeeps ==
  ASSUME IInv, NEW t \in Threads, AllDone(t)
  PROVE  IInv'
<1>1. /\ TypeOK /\ StacksRight /\ Counted /\ LoopsRight /\ TasksRight /\ EndRight
      /\ stack[t] # <<>> /\ Top(t).fn = "parallel_for" /\ Top(t).at = "spin"
      /\ done[Top(t).job] >= Chunks /\ job' = 0 /\ UNCHANGED <<gen, next, done, begun, tasks, pool>>
      /\ IF active = 0 THEN Pop(t) ELSE Goto(t, "drain")
  BY DEF IInv, AllDone, In, Top
<1>2. Top(t) \in Frames /\ FrameRight(Top(t))
  BY <1>1, TopFacts
<1> PICK e \in Frames : e = Top(t)
  BY <1>2
<1>3. e.job \in 1..begun /\ e.job \in Jobs /\ e.job # 0 /\ Loop(e)
  BY <1>1, <1>2, LoopJob DEF Loop
<1>4. done[e.job] = Chunks
  BY <1>1, <1>3, TaskPoolAssumption DEF TypeOK
<1>5. CASE active = 0
  BY <1>1, <1>3, <1>4, <1>5, LoopPops
<1>6. CASE active # 0
  <2>1. PICK f \in Frames : /\ f = [e EXCEPT !.at = "drain"] /\ f.fn = e.fn /\ f.at = "drain"
                            /\ f.job = e.job /\ f.task = e.task /\ f.owed = e.owed
    <3>1. "drain" \in Ats
      BY DEF Ats
    <3>2. QED
      BY <3>1, FrameMoved
  <2>2. Submitted' = Submitted /\ UNCHANGED <<begun, workers, gone, queue>>
    BY <1>1 DEF Submitted, tasks, pool
  <2>3. \A g \in Frames : FrameRight(g) => FrameRight(g)'
    <3>1. \A j \in 1..begun : j # job => j # job'
      BY <1>1 DEF TypeOK
    <3>2. QED
      BY <1>1, <2>2, <3>1, FramesStay DEF TypeOK
  <2>4. FrameRight(f)'
    BY <1>1, <1>2, <1>3, <1>4, <2>1, <2>2 DEF FrameRight, Loop
  <2>5. Stepped(t, Busy(Tail(stack[t])), Act(e), Act(f), Base(stack[t]))
    BY <1>1, <1>6, <2>1, <2>3, <2>4, GotoStep DEF Ats, pool
  <2>6. Act(e) = {e} /\ Act(f) = {f}
    BY <1>1, <2>1 DEF Act
  <2>7. Counted'
    <3>1. \A g \in Act(e) \cup Act(f) : g.at # "chunk"
      BY <1>1, <2>1, <2>6
    <3>2. QED
      BY <1>1, <2>5, <3>1, CountsKept DEF pool
  <2>8. LoopsRight'
    <3>1. \A g \in Act(e) : g.fn = "parallel_for" => \E h \in Act(f) : h.fn = "parallel_for" /\ h.job = g.job
      <4>1. f \in Act(f) /\ f.fn = e.fn /\ f.job = e.job
        BY <2>1, <2>6
      <4>2. \A g \in Act(e) : g = e
        BY <2>6
      <4>3. QED
        BY <4>1, <4>2
    <3>2. \A g \in Act(f) : g.fn # "job"
      BY <1>1, <2>1, <2>6
    <3>3. QED
      BY <1>1, <2>5, <3>1, <3>2, LoopsKept
  <2>9. TasksRight'
    BY <1>1, <2>5, <2>6, TasksKept DEF tasks
  <2>10. EndRight'
    BY <1>1, <2>5, EndKept DEF tasks, pool, EndRight
  <2>11. Flat'
    BY <1>1, TaskPoolAssumption DEF TypeOK, Flat, tasks, pool
  <2>12. QED
    BY <2>5, <2>7, <2>8, <2>9, <2>10, <2>11, TypeStep DEF IInv, Stepped
<1>7. QED
  BY <1>5, <1>6

LEMMA ParallelForKeeps ==
  ASSUME IInv, NEW t \in Threads, ParallelFor(t)
  PROVE  IInv'
<1>1. /\ TypeOK /\ StacksRight /\ Counted /\ LoopsRight /\ TasksRight /\ EndRight
      /\ Calls(t) \/ Nests(t)
      /\ workers # {} /\ begun < MaxJobs /\ begun' = begun + 1 /\ job' = begun' /\ gen' = gen + 1
      /\ Push(t, [Frame("parallel_for", "notify") EXCEPT !.job = begun'])
      /\ UNCHANGED <<next, done, tasks, pool>>
  BY DEF IInv, ParallelFor
<1>2. begun \in Nat /\ begun' \in Nat /\ begun' \in 1..MaxJobs /\ begun' \in 0..MaxJobs /\ begun' \in 1..begun' /\ gen = begun
  BY <1>1, TaskPoolAssumption DEF TypeOK, LoopsRight
<1>3. PICK f \in Frames : /\ f = [Frame("parallel_for", "notify") EXCEPT !.job = begun']
                          /\ f.fn = "parallel_for" /\ f.at = "notify" /\ f.job = begun' /\ f.task = 0 /\ f.owed = {}
  <2> DEFINE g == [Frame("parallel_for", "notify") EXCEPT !.job = begun']
  <2>1. g \in Frames /\ g.fn = "parallel_for" /\ g.at = "notify" /\ g.job = begun' /\ g.task = 0 /\ g.owed = {}
    BY <1>2, TaskPoolAssumption DEF Frame, Frames
  <2>2. QED
    BY <2>1
<1>4. /\ Submitted' = Submitted
      /\ UNCHANGED <<workers, exited, gone, queue, state, active, running, stop, next, done, asleep, seen, stopped>>
  BY <1>1 DEF Submitted, tasks, pool
<1>5. \A g \in Frames : FrameRight(g) => FrameRight(g)'
  <2>1. \A j \in 1..begun : j # job'
    BY <1>1, <1>2
  <2>2. begun <= begun'
    BY <1>1, <1>2
  <2>3. QED
    BY <1>1, <1>2, <1>4, <2>1, <2>2, FramesStay
<1>6. FrameRight(f)'
  BY <1>1, <1>2, <1>3, <1>4 DEF FrameRight, Loop
<1>7. stack[t] # <<>> \/ (t \in Callers /\ t \notin Workers /\ ~gone)
  BY <1>1, TaskPoolAssumption DEF Calls, Nests, In
<1>8. t \in Workers => t \in workers \ exited
  BY <1>1, <1>7, TopFacts
<1>9. MayCall(f, stack[t])
  <2> SUFFICES ASSUME stack[t] # <<>> PROVE Outer(stack[t][1]) /\ stack[t][1].fn \notin {"submit", "destroy"}
    BY <1>3 DEF MayCall
  <2>1. Top(t) = stack[t][1] /\ FrameRight(Top(t)) /\ Top(t) \in Frames
    BY <1>1, TopFacts
  <2>2. (Top(t).fn = "task" /\ Top(t).at = "run") \/ Top(t).at = "chunk"
    BY <1>1 DEF Calls, Nests, In, Top
  <2>3. Top(t).fn \in {"parallel_for", "job", "task", "submit", "wait_idle", "destroy"}
    BY <2>1 DEF Frames
  <2>4. QED
    BY <2>1, <2>2, <2>3 DEF FrameRight, Outer, Loop
<1>10. \A g \in InSeq(stack[t]) : g.job < f.job \/ g.job = 0
  <2> TAKE g \in InSeq(stack[t])
  <2>1. FrameRight(g)
    BY <1>1 DEF StacksRight
  <2>2. g.job \in 1..begun \/ g.job = 0
    BY <2>1 DEF FrameRight
  <2>3. QED
    BY <1>1, <1>2, <1>3, <2>2
<1> DEFINE base == IF stack[t] = <<>> THEN "parallel_for" ELSE Base(stack[t])
<1>11. Stepped(t, Busy(stack[t]), {}, {f}, base)
  <2>1. stack[t] = <<>> => f.fn \in Firsts(t)
    BY <1>3, <1>7 DEF Firsts
  <2>2. Push(t, f)
    BY <1>1, <1>3
  <2>3. Stepped(t, Busy(stack[t]), {}, Act(f), IF stack[t] = <<>> THEN f.fn ELSE Base(stack[t]))
    BY <1>1, <1>4, <1>5, <1>6, <1>8, <1>9, <1>10, <2>1, <2>2, PushStep
  <2>4. Act(f) = {f}
    BY <1>3 DEF Act
  <2>5. QED
    BY <1>3, <2>3, <2>4
<1>12. (t \in Workers => base = Base(stack[t])) /\ (t \in Callers => base = Base(stack[t]) \/ (~gone /\ base # "none"))
  BY <1>7
<1> HIDE DEF base
<1>13. Counted'
  <2>1. \A g \in {} \cup {f} : g.at # "chunk"
    BY <1>3
  <2>2. QED
    BY <1>1, <1>4, <1>11, <1>12, <2>1, CountsKept
<1>14. LoopsRight'
  <2>1. \A j : HasLoop(j) => HasLoop(j)'
    BY <1>11, Views DEF HasLoop
  <2>2. HasLoop(f.job)' /\ HasLoop(job)'
    BY <1>1, <1>3, <1>11 DEF HasLoop, Stepped
  <2>3. \A u \in Threads : \A g \in Busy(stack'[u]) : g.fn = "job" => HasLoop(g.job)'
    <3> SUFFICES ASSUME NEW u \in Threads, NEW g \in Busy(stack'[u]), g.fn = "job" PROVE HasLoop(g.job)'
      OBVIOUS
    <3>1. g \in Busy(stack[u])
      BY <1>3, <1>11 DEF Stepped
    <3>2. HasLoop(g.job)
      BY <1>1, <3>1 DEF LoopsRight
    <3>3. QED
      BY <2>1, <3>2
  <2>4. \A j \in 1..begun' : HasLoop(j)' \/ (next'[j] = Chunks /\ done'[j] = Chunks)
    <3>1. \A j \in 1..begun' : j = f.job \/ j \in 1..begun
      BY <1>1, <1>2, <1>3
    <3>2. \A j \in 1..begun' : j # f.job => HasLoop(j)' \/ (next'[j] = Chunks /\ done'[j] = Chunks)
      BY <1>1, <1>4, <2>1, <3>1 DEF LoopsRight
    <3>3. QED
      BY <2>2, <3>2
  <2>5. gen' = begun' /\ job' \in 1..begun' /\ HasLoop(job)'
    BY <1>1, <1>2, <2>2
  <2>6. QED
    BY <2>3, <2>4, <2>5 DEF LoopsRight
<1>15. TasksRight'
  BY <1>1, <1>4, <1>11, TasksKept
<1>16. EndRight'
  BY <1>1, <1>4, <1>11, <1>12, EndKept DEF EndRight
<1>17. Flat'
  BY <1>1, <1>2, <1>4 DEF TypeOK, Flat
<1>18. QED
  BY <1>11, <1>13, <1>14, <1>15, <1>16, <1>17, TypeStep DEF IInv, Stepped

LEMMA TakeJobKeeps ==
  ASSUME IInv, NEW w \in Threads, TakeJob(w)
  PROVE  IInv'
<1>1. /\ TypeOK /\ StacksRight /\ Counted /\ LoopsRight /\ TasksRight /\ EndRight
      /\ w \in workers \ (asleep \cup exited) /\ stack[w] = <<>> /\ job # 0
      /\ seen' = [seen EXCEPT ![w] = gen] /\ active' = active + 1
      /\ Push(w, [Frame("job", "body") EXCEPT !.job = job])
      /\ UNCHANGED <<workers, asleep, exited, running, stop, gone, loops, tasks>>
  BY DEF IInv, TakeJob, AtLoop, JobPending
<1>2. w \in Workers /\ job \in 1..begun /\ job \in 0..MaxJobs /\ HasLoop(job)
  BY <1>1 DEF TypeOK, Workers, LoopsRight
<1>3. PICK f \in Frames : /\ f = [Frame("job", "body") EXCEPT !.job = job]
                          /\ f.fn = "job" /\ f.at = "body" /\ f.job = job /\ f.task = 0 /\ f.owed = {}
  <2> DEFINE g == [Frame("job", "body") EXCEPT !.job = job]
  <2>1. g \in Frames /\ g.fn = "job" /\ g.at = "body" /\ g.job = job /\ g.task = 0 /\ g.owed = {}
    BY <1>2, TaskPoolAssumption DEF Frame, Frames
  <2>2. QED
    BY <2>1
<1>4. /\ Submitted' = Submitted
      /\ UNCHANGED <<job, gen, begun, queue, state, next, done, stopped>>
  BY <1>1 DEF Submitted, tasks, loops
<1>5. \A g \in Frames : FrameRight(g) => FrameRight(g)'
  BY <1>1, <1>4, FramesStay DEF TypeOK
<1>6. FrameRight(f)'
  BY <1>1, <1>2, <1>3, <1>4 DEF FrameRight, Loop
<1>7. Busy(stack[w]) = {} /\ Base(stack[w]) = "none" /\ InSeq(stack[w]) = {}
  BY <1>1 DEF Busy, Base, InSeq
<1>8. Stepped(w, Busy(stack[w]), {}, {f}, "job")
  <2>1. MayCall(f, stack[w]) /\ f.fn \in Firsts(w) /\ Push(w, f)
    BY <1>1, <1>2, <1>3 DEF MayCall, Firsts
  <2>2. Stepped(w, Busy(stack[w]), {}, Act(f), f.fn)
    BY <1>1, <1>5, <1>6, <1>7, <2>1, PushStep
  <2>3. Act(f) = {f}
    BY <1>3 DEF Act
  <2>4. QED
    BY <1>3, <2>2, <2>3
<1>9. Counted'
  <2>1. InJob' = InJob \cup {w} /\ InTask' = InTask /\ w \notin InJob
    BY <1>2, <1>7, <1>8, Views DEF InJob, InTask
  <2>2. \A j : InChunk(j)' = InChunk(j)
    <3>1. \A g \in {} \cup {f} : g.at # "chunk"
      BY <1>3
    <3>2. QED
      BY <1>8, <3>1, ChunksKept
  <2>3. IsFiniteSet(InJob)
    BY ThreadsFinite, FS_Subset DEF InJob
  <2>4. Cardinality(InJob') = Cardinality(InJob) + 1
    BY <2>1, <2>3, CountOne
  <2>5. QED
    BY <1>1, <1>4, <2>1, <2>2, <2>4 DEF Counted
<1>10. LoopsRight'
  <2>1. HasLoop(f.job)
    BY <1>2, <1>3 DEF HasLoop
  <2>2. QED
    BY <1>1, <1>4, <1>8, <2>1, LoopsKept
<1>11. TasksRight'
  BY <1>1, <1>4, <1>8, TasksKept
<1>12. EndRight'
  BY <1>1, <1>2, <1>4, <1>8, EndKept, TaskPoolAssumption DEF EndRight
<1>13. Flat'
  <2>1. seen' \in [Workers -> 0..MaxJobs]
    BY <1>1 DEF TypeOK
  <2>2. QED
    BY <1>1, <1>4, <2>1 DEF TypeOK, Flat
<1>14. QED
  BY <1>8, <1>9, <1>10, <1>11, <1>12, <1>13, TypeStep DEF IInv, Stepped

\* No stack changes.
LEMMA Still ==
  ASSUME IInv, UNCHANGED <<stack, workers, loops, queue, state, active, running, gone>>,
         \A u \in exited' : u \in exited \/ stack[u] = <<>>
  PROVE  stack' \in [Threads -> Seq(Frames)] /\ StacksRight' /\ Counted' /\ LoopsRight' /\ TasksRight'
<1>1. TypeOK /\ StacksRight /\ Counted /\ LoopsRight /\ TasksRight
  BY DEF IInv
<1>2. Submitted' = Submitted /\ UNCHANGED <<job, gen, next, done, begun>>
  BY DEF Submitted, loops
<1>3. \A f \in Frames : FrameRight(f) => FrameRight(f)'
  BY <1>1, <1>2, FramesStay DEF TypeOK
<1>4. StacksRight'
  <2>1. (\A u \in Threads : Shape(stack[u], Firsts(u)) /\ \A f \in InSeq(stack[u]) : FrameRight(f))'
    <3>1. ASSUME NEW u \in Threads PROVE Shape(stack'[u], Firsts(u)) /\ \A f \in InSeq(stack'[u]) : FrameRight(f)'
      <4>1. \A f \in InSeq(stack[u]) : f \in Frames /\ FrameRight(f)
        BY <1>1 DEF StacksRight, TypeOK, InSeq
      <4>2. QED
        BY <1>1, <1>3, <4>1 DEF StacksRight
    <3>2. QED
      BY <3>1
  <2>2. \A u \in Workers : u \notin workers' \/ u \in exited' => stack'[u] = <<>>
    BY <1>1 DEF StacksRight
  <2>3. QED
    BY <2>1, <2>2 DEF StacksRight
<1>5. InJob' = InJob /\ InTask' = InTask /\ \A j : InChunk(j)' = InChunk(j)
  BY DEF InJob, InTask, InChunk
<1>6. Counted'
  BY <1>1, <1>2, <1>5 DEF Counted
<1>7. (\A j : HasLoop(j)' <=> HasLoop(j)) /\ (\A k, a : HasTask(k, a)' <=> HasTask(k, a))
  BY DEF HasLoop, HasTask
<1>8. LoopsRight'
  BY <1>1, <1>2, <1>7 DEF LoopsRight
<1>9. TasksRight'
  BY <1>1, <1>2, <1>7 DEF TasksRight
<1>10. QED
  BY <1>1, <1>4, <1>6, <1>8, <1>9 DEF TypeOK

LEMMA SleepKeeps ==
  ASSUME IInv, NEW w \in Threads, Sleep(w)
  PROVE  IInv'
<1>1. stack' \in [Threads -> Seq(Frames)] /\ StacksRight' /\ Counted' /\ LoopsRight' /\ TasksRight'
  BY Still DEF Sleep, tasks
<1>2. EndRight'
  BY DEF IInv, EndRight, Sleep, tasks, Occupied
<1>3. Flat'
  BY DEF IInv, TypeOK, Flat, Sleep, AtLoop, tasks, loops
<1>4. QED
  BY <1>1, <1>2, <1>3, TypeStep DEF IInv

LEMMA RequestStopKeeps ==
  ASSUME IInv, NEW k \in Tasks, RequestStop(k)
  PROVE  IInv'
<1>1. stack' \in [Threads -> Seq(Frames)] /\ StacksRight' /\ Counted' /\ LoopsRight' /\ TasksRight'
  BY Still DEF RequestStop, pool
<1>2. EndRight'
  BY DEF IInv, EndRight, RequestStop, pool, Occupied
<1>3. Flat'
  BY DEF IInv, TypeOK, Flat, RequestStop, pool, loops
<1>4. QED
  BY <1>1, <1>2, <1>3, TypeStep DEF IInv

LEMMA ExitKeeps ==
  ASSUME IInv, NEW w \in Threads, Exit(w)
  PROVE  IInv'
<1>1. /\ w \in workers \ (asleep \cup exited) /\ stack[w] = <<>> /\ stop /\ (JobPending(w) \/ queue = {})
      /\ exited' = exited \cup {w}
      /\ UNCHANGED <<workers, stack, asleep, seen, active, running, stop, gone, loops, tasks>>
      /\ TypeOK /\ StacksRight /\ LoopsRight /\ EndRight
  BY DEF IInv, Exit, AtLoop
<1>2. stack' \in [Threads -> Seq(Frames)] /\ StacksRight' /\ Counted' /\ LoopsRight' /\ TasksRight'
  BY <1>1, Still DEF tasks
<1>3. EndRight'
  <2>1. gone /\ Occupied
    BY <1>1 DEF EndRight
  <2>2. Occupied'
    BY <1>1, <2>1 DEF Occupied
  <2>3. exited' = workers => queue = {}
    <3> SUFFICES ASSUME job # 0 PROVE exited' # workers
      BY <1>1 DEF JobPending
    <3>1. PICK t \in Threads : \E f \in Busy(stack[t]) : f.fn = "parallel_for"
      BY <1>1 DEF LoopsRight, HasLoop
    <3>2. Base(stack[t]) \notin {"none", "destroy"}
      BY <1>1, <3>1, FrameBase DEF Busy
    <3>3. t \notin Callers
      BY <1>1, <2>1, <3>2 DEF EndRight
    <3>4. t \in Workers /\ stack[t] # <<>>
      BY <3>2, <3>3 DEF Threads, Base
    <3>5. t \in workers /\ t \notin exited /\ t # w
      BY <1>1, <3>4 DEF StacksRight
    <3>6. QED
      BY <1>1, <3>5
  <2>4. QED
    BY <1>1, <2>1, <2>2, <2>3 DEF EndRight, tasks
<1>4. Flat'
  BY <1>1 DEF TypeOK, Flat, tasks, loops
<1>5. QED
  BY <1>2, <1>3, <1>4, TypeStep DEF IInv

\* A caller leaves submit, wait_idle or the destructor.
LEMMA Leaves ==
  ASSUME IInv, NEW c \in Threads, stack[c] # <<>>, Pop(c), Top(c).fn \in {"submit", "wait_idle", "destroy"},
         Top(c).at # "drain", Top(c).at # "chunk",
         Top(c).fn = "wait_idle" => queue = {}, Top(c).fn = "destroy" => exited = workers,
         UNCHANGED <<workers, seen, exited, active, running, stop, gone, loops, tasks>>, asleep' \subseteq asleep
  PROVE  IInv'
<1>1. TypeOK /\ StacksRight /\ Counted /\ LoopsRight /\ TasksRight /\ EndRight
  BY DEF IInv
<1>2. /\ Top(c) \in Frames /\ FrameRight(Top(c)) /\ Len(stack[c]) = 1
      /\ Base(stack[c]) = Top(c).fn /\ Base(stack[c]) \in Firsts(c)
  BY <1>1, TopFacts
<1> PICK e \in Frames : e = Top(c)
  BY <1>2
<1>3. c \in Callers /\ c \notin Workers
  BY <1>2 DEF Firsts, Threads
<1>4. Submitted' = Submitted
  BY DEF Submitted, tasks
<1>5. \A g \in Frames : FrameRight(g) => FrameRight(g)'
  BY <1>1, <1>4, FramesStay DEF TypeOK, tasks, loops
<1>6. Stepped(c, Busy(Tail(stack[c])), Act(e), {}, "none")
  BY <1>1, <1>2, <1>5, PopStep DEF Pop
<1>7. \A g \in Act(e) : g = e
  BY DEF Act
<1>8. Counted'
  BY <1>1, <1>3, <1>6, <1>7, CountsKept DEF loops
<1>9. LoopsRight'
  BY <1>1, <1>6, <1>7, LoopsKept DEF loops
<1>10. TasksRight'
  BY <1>1, <1>6, <1>7, TasksKept DEF tasks
<1>11. EndRight'
  <2>1. \A d \in Callers : Base(stack'[d]) = "none" \/ Base(stack'[d]) = Base(stack[d])
    BY <1>6 DEF Stepped, Threads
  <2>2. gone => exited = workers
    BY <1>1, <1>2, <1>3 DEF EndRight
  <2>3. ~(workers = {} /\ queue # {})
    BY <1>2 DEF FrameRight
  <2>4. QED
    BY <1>1, <2>1, <2>2, <2>3 DEF EndRight, tasks
<1>12. Flat'
  BY <1>1 DEF TypeOK, Flat, tasks, loops
<1>13. QED
  BY <1>6, <1>8, <1>9, <1>10, <1>11, <1>12, TypeStep DEF IInv, Stepped

LEMMA NotifyOneKeeps ==
  ASSUME IInv, NEW c \in Threads, NotifyOne(c)
  PROVE  IInv'
BY Leaves DEF NotifyOne, In, Top

LEMMA CheckIdleLeaves ==
  ASSUME IInv, NEW c \in Threads, CheckIdle(c), queue = {} /\ running = 0
  PROVE  IInv'
BY Leaves DEF CheckIdle, In, Top, pool

LEMMA CheckIdleKeeps ==
  ASSUME IInv, NEW c \in Threads, CheckIdle(c)
  PROVE  IInv'
BY CheckIdleWaits, CheckIdleLeaves

LEMMA JoinKeeps ==
  ASSUME IInv, NEW c \in Threads, Join(c)
  PROVE  IInv'
BY Leaves DEF Join, In, Top, pool

LEMMA WaitIdleKeeps ==
  ASSUME IInv, NEW c \in Callers, WaitIdle(c)
  PROVE  IInv'
<1>1. /\ TypeOK /\ StacksRight /\ Counted /\ LoopsRight /\ TasksRight /\ EndRight
      /\ stack[c] = <<>> /\ ~gone
      /\ Push(c, [Frame("wait_idle", "check") EXCEPT !.owed = Submitted])
      /\ UNCHANGED <<loops, tasks, pool>>
  BY DEF IInv, WaitIdle, Calls
<1>2. c \in Threads /\ c \notin Workers
  BY TaskPoolAssumption DEF Threads
<1>3. PICK f \in Frames : /\ f = [Frame("wait_idle", "check") EXCEPT !.owed = Submitted]
                          /\ f.fn = "wait_idle" /\ f.at = "check" /\ f.job = 0 /\ f.task = 0 /\ f.owed = Submitted
  <2> DEFINE g == [Frame("wait_idle", "check") EXCEPT !.owed = Submitted]
  <2>1. g \in Frames /\ g.fn = "wait_idle" /\ g.at = "check" /\ g.job = 0 /\ g.task = 0 /\ g.owed = Submitted
    BY TaskPoolAssumption DEF Frame, Frames, Submitted
  <2>2. QED
    BY <2>1
<1>4. Submitted' = Submitted
  BY <1>1 DEF Submitted, tasks
<1>5. \A g \in Frames : FrameRight(g) => FrameRight(g)'
  BY <1>1, <1>4, FramesStay DEF TypeOK, tasks, loops, pool
<1>6. FrameRight(f)'
  BY <1>3, <1>4 DEF FrameRight, Loop
<1>7. Busy(stack[c]) = {} /\ Base(stack[c]) = "none" /\ InSeq(stack[c]) = {}
  BY <1>1 DEF Busy, Base, InSeq
<1>8. Stepped(c, Busy(stack[c]), {}, {}, "wait_idle")
  <2>1. MayCall(f, stack[c]) /\ f.fn \in Firsts(c) /\ Push(c, f)
    BY <1>1, <1>2, <1>3 DEF MayCall, Firsts
  <2>2. Stepped(c, Busy(stack[c]), {}, Act(f), f.fn)
    BY <1>1, <1>2, <1>5, <1>6, <1>7, <2>1, PushStep DEF pool
  <2>3. Act(f) = {}
    BY <1>3 DEF Act
  <2>4. QED
    BY <1>3, <2>2, <2>3
<1>9. Counted'
  BY <1>1, <1>2, <1>8, CountsKept DEF pool, loops
<1>10. LoopsRight'
  BY <1>1, <1>2, <1>8, LoopsKept DEF loops
<1>11. TasksRight'
  BY <1>1, <1>2, <1>8, TasksKept DEF tasks
<1>12. EndRight'
  BY <1>1, <1>2, <1>8, EndKept DEF EndRight, tasks, pool
<1>13. Flat'
  BY <1>1 DEF TypeOK, Flat, tasks, pool, loops
<1>14. QED
  BY <1>8, <1>9, <1>10, <1>11, <1>12, <1>13, TypeStep DEF IInv, Stepped

-----------------------------------------------------------------------------
(* Tasks *)

LEMMA TaskMoves ==
  ASSUME NEW t \in Threads, NEW rest, NEW old, NEW new, NEW base, Stepped(t, rest, old, new, base)
  PROVE  /\ \A k, a : HasTask(k, a) => HasTask(k, a)' \/ \E f \in old : f.fn = "task" /\ f.task = k /\ f.at = a
         /\ \A k, a : (\E f \in new : f.fn = "task" /\ f.task = k /\ f.at = a) => HasTask(k, a)'
<1>1. Busy(stack[t]) = rest \cup old
  BY DEF Stepped
<1>2. QED
  BY <1>1, Views DEF HasTask

LEMMA TaskTop ==
  ASSUME TypeOK, StacksRight, NEW t \in Threads, stack[t] # <<>>, Top(t).fn = "task"
  PROVE  /\ t \in Workers => Len(stack[t]) = 1 /\ Base(stack[t]) = "task"
         /\ t \notin Workers =>
              /\ workers = {} /\ Len(stack[t]) = 2
              /\ stack[t][2] \in Frames /\ FrameRight(stack[t][2])
              /\ stack[t][2].fn \in {"submit", "destroy"} /\ stack[t][2].at = "drain"
              /\ Base(stack[t]) = stack[t][2].fn
<1> DEFINE s == stack[t]
<1>1. s \in Seq(Frames) /\ Shape(s, Firsts(t)) /\ s # <<>> /\ s[1].fn = "task" /\ \A f \in InSeq(s) : f \in Frames /\ FrameRight(f)
  <2>1. s \in Seq(Frames) /\ Shape(s, Firsts(t)) /\ s # <<>> /\ s[1].fn = "task"
    BY TopFacts
  <2>2. QED
    BY <2>1 DEF StacksRight, InSeq
<1> HIDE DEF s
<1>2. Len(s) \in Nat /\ 1 \in 1..Len(s)
  <2>1. Len(s) \in Nat /\ Len(s) # 0
    BY <1>1
  <2>2. QED
    BY <2>1
<1>3. /\ Len(s) \in 1..Len(s) /\ s[Len(s)].fn \in Firsts(t) /\ Base(s) = s[Len(s)].fn
      /\ 1 = Len(s) \/ (1 + 1 = Len(s) /\ s[Len(s)].fn \in {"submit", "destroy"})
      /\ 1 = Len(s) \/ Outer(s[Len(s)])
  <2>1. \A i \in 1..Len(s) : 
           /\ Len(s) \in 1..Len(s) /\ s[Len(s)].fn \in Firsts(t) /\ Base(s) = s[Len(s)].fn
           /\ s[i].fn = "task" => i = Len(s) \/ (i + 1 = Len(s) /\ s[Len(s)].fn \in {"submit", "destroy"})
           /\ i = Len(s) \/ Outer(s[Len(s)])
    BY <1>1, ShapeUse
  <2>2. QED
    BY <1>1, <1>2, <2>1
<1>4. CASE t \in Workers
  BY <1>1, <1>3, <1>4 DEF Firsts, s
<1>5. CASE t \notin Workers
  <2>1. Len(s) = 2 /\ s[2].fn \in {"submit", "destroy"} /\ Outer(s[2]) /\ Base(s) = s[2].fn
    BY <1>1, <1>3, <1>5 DEF Firsts
  <2>2. s[2].at = "drain"
    BY <2>1 DEF Outer, Loop
  <2>3. s[2] \in Frames /\ FrameRight(s[2])
    BY <1>1, <1>3, <2>1 DEF InSeq
  <2>4. QED
    BY <1>5, <2>1, <2>2, <2>3 DEF FrameRight, s
<1>6. QED
  BY <1>4, <1>5

\* A task starts or ends.
LEMMA TaskGoes ==
  ASSUME IInv, NEW t \in Threads, stack[t] # <<>>, Top(t).fn = "task", NEW a \in {"run", "end"}, Goto(t, a),
         Top(t).at # "chunk", NEW v \in {"skipped", "running", "ran"}, v = "running" => a = "run",
         state' = [state EXCEPT ![Top(t).task] = v], UNCHANGED <<queue, stopped, loops, pool>>
  PROVE  IInv'
<1>1. TypeOK /\ StacksRight /\ Counted /\ LoopsRight /\ TasksRight /\ EndRight
  BY DEF IInv
<1>2. Top(t) \in Frames /\ FrameRight(Top(t))
  BY <1>1, TopFacts
<1> PICK e \in Frames : e = Top(t)
  BY <1>2
<1>3. PICK f \in Frames : /\ f = [e EXCEPT !.at = a] /\ f.fn = e.fn /\ f.at = a
                          /\ f.job = e.job /\ f.task = e.task /\ f.owed = e.owed
  <2>1. a \in Ats
    BY DEF Ats
  <2>2. QED
    BY <2>1, FrameMoved
<1>4. e.task \in Tasks /\ state[e.task] # "none"
  BY <1>2 DEF FrameRight, Submitted
<1>5. /\ state' \in [Tasks -> {"none", "queued", "running", "ran", "skipped"}]
      /\ \A k \in Tasks : state'[k] = IF k = e.task THEN v ELSE state[k]
  BY <1>1, <1>4 DEF TypeOK
<1>6. Submitted' = Submitted
  BY <1>4, <1>5 DEF Submitted
<1>7. \A g \in Frames : FrameRight(g) => FrameRight(g)'
  BY <1>1, <1>6, FramesStay DEF TypeOK, loops, pool
<1>8. FrameRight(f)'
  <2>1. UNCHANGED <<begun, workers, gone, queue>>
    BY DEF loops, pool
  <2>2. QED
    BY <1>2, <1>3, <1>6, <2>1 DEF FrameRight, Loop
<1>9. Stepped(t, Busy(Tail(stack[t])), {e}, {f}, Base(stack[t]))
  <2>1. Stepped(t, Busy(Tail(stack[t])), Act(e), Act(f), Base(stack[t]))
    BY <1>1, <1>3, <1>7, <1>8, GotoStep DEF Ats, pool
  <2>2. Act(e) = {e} /\ Act(f) = {f}
    BY <1>3 DEF Act
  <2>3. QED
    BY <2>1, <2>2
<1>10. Counted'
  <2>1. \A g \in {e} \cup {f} : g.at # "chunk"
    BY <1>3
  <2>2. QED
    BY <1>1, <1>9, <2>1, CountsKept DEF loops, pool
<1>11. LoopsRight'
  <2>1. (\A g \in {e} : g.fn # "parallel_for") /\ \A g \in {f} : g.fn # "job"
    BY <1>3
  <2>2. QED
    BY <1>1, <1>9, <2>1, LoopsKept DEF loops
<1>12. TasksRight'
  <2>1. \A k, b : k # e.task /\ HasTask(k, b) => HasTask(k, b)'
    BY <1>9, TaskMoves
  <2>2. a = "run" => HasTask(e.task, "run")'
    BY <1>3, <1>9 DEF HasTask, Stepped
  <2>3. ASSUME NEW k \in Tasks, state'[k] = "queued" PROVE k \in queue' \/ HasTask(k, "start")'
    <3>1. k # e.task /\ state[k] = "queued"
      BY <1>5, <2>3
    <3>2. k \in queue \/ HasTask(k, "start")
      BY <1>1, <3>1 DEF TasksRight
    <3>3. QED
      BY <2>1, <3>1, <3>2
  <2>4. ASSUME NEW k \in Tasks, state'[k] = "running" PROVE HasTask(k, "run")'
    <3>1. CASE k = e.task
      <4>1. a = "run"
        BY <1>5, <2>4, <3>1
      <4>2. QED
        BY <2>2, <3>1, <4>1
    <3>2. CASE k # e.task
      <4>1. HasTask(k, "run")
        BY <1>1, <1>5, <2>4, <3>2 DEF TasksRight
      <4>2. QED
        BY <2>1, <3>2, <4>1
    <3>3. QED
      BY <3>1, <3>2
  <2>5. QED
    BY <1>1, <1>6, <2>3, <2>4 DEF TasksRight
<1>13. EndRight'
  BY <1>1, <1>9, EndKept DEF pool, EndRight
<1>14. Flat'
  BY <1>1, <1>5 DEF TypeOK, Flat, loops, pool
<1>15. QED
  BY <1>9, <1>10, <1>11, <1>12, <1>13, <1>14, TypeStep DEF IInv, Stepped

LEMMA StartTaskKeeps ==
  ASSUME IInv, NEW t \in Threads, StartTask(t)
  PROVE  IInv'
<1>1. stack[t] # <<>> /\ Top(t).fn = "task" /\ Top(t).at = "start" /\ UNCHANGED <<queue, stopped, loops, pool>>
  BY DEF StartTask, In, Top
<1>2. CASE Top(t).task \in stopped
  BY <1>1, <1>2, TaskGoes DEF StartTask
<1>3. CASE Top(t).task \notin stopped
  BY <1>1, <1>3, TaskGoes DEF StartTask
<1>4. QED
  BY <1>2, <1>3

LEMMA EndTaskKeeps ==
  ASSUME IInv, NEW t \in Threads, EndTask(t)
  PROVE  IInv'
BY TaskGoes DEF EndTask, In, Top

LEMMA AfterTaskKeeps ==
  ASSUME IInv, NEW w \in Threads, AfterTask(w)
  PROVE  IInv'
<1>1. /\ TypeOK /\ StacksRight /\ Counted /\ LoopsRight /\ TasksRight /\ EndRight /\ stack[w] # <<>>
      /\ w \in Workers /\ Top(w).fn = "task" /\ Top(w).at = "end" /\ running' = running - 1
      /\ UNCHANGED <<workers, asleep, seen, exited, active, stop, gone, loops, tasks>>
      /\ LET st == [stack EXCEPT ![w] = Tail(@)] IN stack' = st \/ stack' = WakeIdle(st)
  BY DEF IInv, AfterTask, In, Top
<1>2. Top(w) \in Frames
  BY <1>1, TopFacts
<1> PICK e \in Frames : e = Top(w)
  BY <1>2
<1>3. Len(stack[w]) = 1 /\ Base(stack[w]) = "task" /\ w \notin Callers
  BY <1>1, TaskTop, TaskPoolAssumption
<1>4. Submitted' = Submitted
  BY <1>1 DEF Submitted, tasks
<1>5. \A g \in Frames : FrameRight(g) => FrameRight(g)'
  BY <1>1, <1>4, FramesStay DEF TypeOK, tasks, loops
<1>6. Stepped(w, Busy(Tail(stack[w])), {e}, {}, "none")
  <2>1. Stepped(w, Busy(Tail(stack[w])), Act(e), {}, "none")
    BY <1>1, <1>3, <1>5, PopStep
  <2>2. Act(e) = {e}
    BY <1>1 DEF Act
  <2>3. QED
    BY <2>1, <2>2
<1>7. Counted'
  <2>1. InJob' = InJob /\ InTask' = InTask \ {w} /\ w \in InTask
    BY <1>1, <1>3, <1>6, Views DEF InJob, InTask
  <2>2. \A j : InChunk(j)' = InChunk(j)
    BY <1>1, <1>6, ChunksKept
  <2>3. IsFiniteSet(InTask)
    BY ThreadsFinite, FS_Subset DEF InTask
  <2>4. Cardinality(InTask') = Cardinality(InTask) - 1
    BY <2>1, <2>3, CountOne
  <2>5. QED
    BY <1>1, <2>1, <2>2, <2>4 DEF Counted, loops
<1>8. LoopsRight'
  BY <1>1, <1>6, LoopsKept DEF loops
<1>9. TasksRight'
  <2>1. \A k : /\ HasTask(k, "start") => HasTask(k, "start")'
               /\ HasTask(k, "run") => HasTask(k, "run")'
    BY <1>1, <1>6, TaskMoves
  <2>2. QED
    BY <1>1, <1>4, <2>1 DEF TasksRight, tasks
<1>10. EndRight'
  BY <1>1, <1>3, <1>6, EndKept DEF EndRight, tasks
<1>11. Flat'
  BY <1>1 DEF TypeOK, Flat, tasks, loops
<1>12. QED
  BY <1>6, <1>7, <1>8, <1>9, <1>10, <1>11, TypeStep DEF IInv, Stepped

LEMMA TaskFrame ==
  ASSUME NEW k \in Tasks
  PROVE  \E f \in Frames : /\ f = [Frame("task", "start") EXCEPT !.task = k]
                           /\ f.fn = "task" /\ f.at = "start" /\ f.job = 0 /\ f.task = k /\ f.owed = {}
<1> DEFINE f == [Frame("task", "start") EXCEPT !.task = k]
<1>1. f \in Frames /\ f.fn = "task" /\ f.at = "start" /\ f.job = 0 /\ f.task = k /\ f.owed = {}
  BY TaskPoolAssumption DEF Frame, Frames, Tasks
<1>2. QED
  BY <1>1

LEMMA PlainFrame ==
  ASSUME NEW fn \in Fns, NEW at \in Ats
  PROVE  \E f \in Frames : /\ f = Frame(fn, at)
                           /\ f.fn = fn /\ f.at = at /\ f.job = 0 /\ f.task = 0 /\ f.owed = {}
<1> DEFINE f == Frame(fn, at)
<1>1. f \in Frames /\ f.fn = fn /\ f.at = at /\ f.job = 0 /\ f.task = 0 /\ f.owed = {}
  BY TaskPoolAssumption DEF Frame, Frames, Fns, Ats
<1>2. QED
  BY <1>1

LEMMA OneFrame ==
  ASSUME NEW g \in Frames, g.fn # "wait_idle"
  PROVE  /\ <<g>> \in Seq(Frames) /\ <<g>> # <<>> /\ Len(<<g>>) = 1 /\ <<g>>[1] = g /\ Tail(<<g>>) = <<>>
         /\ InSeq(<<g>>) = {g} /\ Busy(<<g>>) = {g} /\ Base(<<g>>) = g.fn
         /\ \A firsts : g.fn \in firsts => Shape(<<g>>, firsts)
<1>1. <<g>> \in Seq(Frames) /\ <<g>> # <<>> /\ Len(<<g>>) = 1 /\ <<g>>[1] = g /\ Tail(<<g>>) = <<>>
  OBVIOUS
<1> DEFINE s == <<g>>
<1> HIDE DEF s
<1>2. /\ \A i \in 1..1 : i = 1
      /\ \A i \in 2..1 : FALSE
  OBVIOUS
<1>3. InSeq(s) = {g}
  BY <1>1, <1>2 DEF InSeq, s
<1>4. Busy(s) = {g} /\ Base(s) = g.fn
  BY <1>1, <1>3 DEF Busy, Base, s
<1>5. \A firsts : g.fn \in firsts => Shape(s, firsts)
  BY <1>1, <1>2 DEF Shape, s
<1>6. QED
  BY <1>1, <1>3, <1>4, <1>5 DEF s

LEMMA TwoFrames ==
  ASSUME NEW f \in Frames, NEW d \in Frames, NEW firsts, f.fn = "task", f.job = 0, d.job = 0,
         d.fn \in {"submit", "destroy"}, d.at = "drain", d.fn \in firsts
  PROVE  /\ <<f>> \o <<d>> \in Seq(Frames) /\ <<f>> \o <<d>> # <<>> /\ Shape(<<f>> \o <<d>>, firsts)
         /\ InSeq(<<f>> \o <<d>>) = {f, d} /\ Busy(<<f>> \o <<d>>) = {f, d} /\ Base(<<f>> \o <<d>>) = d.fn
<1> DEFINE s == <<d>>
<1>1. /\ s \in Seq(Frames) /\ s # <<>> /\ s[1] = d /\ InSeq(s) = {d} /\ Busy(s) = {d} /\ Base(s) = d.fn
      /\ Shape(s, firsts)
  BY OneFrame
<1> HIDE DEF s
<1>2. <<f>> \o s \in Seq(Frames) /\ <<f>> \o s # <<>> /\ InSeq(<<f>> \o s) = InSeq(s) \cup {f}
  BY <1>1, PushFacts
<1>3. Busy(<<f>> \o s) = Busy(s) \cup {f} /\ Base(<<f>> \o s) = d.fn
  BY <1>1, BusyPush DEF Act
<1>4. Shape(<<f>> \o s, firsts)
  <2>1. MayCall(f, s)
    BY <1>1 DEF MayCall, Outer
  <2>2. QED
    BY <1>1, <2>1, ShapePush
<1>5. QED
  BY <1>1, <1>2, <1>3, <1>4 DEF s

\* A task leaves the queue for a stack.
LEMMA TaskTaken ==
  ASSUME TasksRight, NEW t \in Threads, NEW rest, NEW old, NEW new, NEW base, Stepped(t, rest, old, new, base),
         NEW f \in new, f.fn = "task", f.at = "start", queue' = queue \ {f.task}, state' = state,
         \A g \in old : g.fn # "task" \/ g.at = "end"
  PROVE  TasksRight'
<1>1. \A k : /\ HasTask(k, "start") => HasTask(k, "start")'
             /\ HasTask(k, "run") => HasTask(k, "run")'
  BY TaskMoves
<1>2. HasTask(f.task, "start")'
  BY TaskMoves
<1>3. ASSUME NEW k \in Tasks, state[k] = "queued" PROVE k \in queue' \/ HasTask(k, "start")'
  <2>1. CASE k = f.task
    BY <1>2, <2>1
  <2>2. CASE k # f.task
    BY <1>1, <1>3, <2>2 DEF TasksRight
  <2>3. QED
    BY <2>1, <2>2
<1>4. Submitted' = Submitted
  BY DEF Submitted
<1>5. QED
  BY <1>1, <1>3, <1>4 DEF TasksRight

LEMMA TakeTaskKeeps ==
  ASSUME IInv, NEW w \in Threads, TakeTask(w)
  PROVE  IInv'
<1>1. /\ TypeOK /\ StacksRight /\ Counted /\ LoopsRight /\ TasksRight /\ EndRight
      /\ w \in workers \ (asleep \cup exited) /\ stack[w] = <<>> /\ running' = running + 1
      /\ UNCHANGED <<state, stopped, loops, workers, asleep, seen, exited, active, stop, gone>>
  BY DEF IInv, TakeTask, AtLoop
<1>2. PICK k \in queue : queue' = queue \ {k} /\ Push(w, [Frame("task", "start") EXCEPT !.task = k])
  BY DEF TakeTask
<1>3. w \in Workers /\ k \in Tasks /\ k \in Submitted /\ w \notin Callers
  BY <1>1, <1>2, TaskPoolAssumption DEF TypeOK, Workers, TasksRight
<1>4. PICK f \in Frames : /\ f = [Frame("task", "start") EXCEPT !.task = k]
                          /\ f.fn = "task" /\ f.at = "start" /\ f.job = 0 /\ f.task = k /\ f.owed = {}
  BY <1>3, TaskFrame
<1>5. Submitted' = Submitted /\ UNCHANGED <<job, gen, next, done, begun>>
  BY <1>1 DEF Submitted, loops
<1>6. \A g \in Frames : FrameRight(g) => FrameRight(g)'
  BY <1>1, <1>2, <1>5, FramesStay DEF TypeOK
<1>7. FrameRight(f)'
  BY <1>3, <1>4, <1>5 DEF FrameRight, Loop
<1>8. Busy(stack[w]) = {} /\ Base(stack[w]) = "none" /\ InSeq(stack[w]) = {}
  BY <1>1 DEF Busy, Base, InSeq
<1>9. Stepped(w, Busy(stack[w]), {}, {f}, "task")
  <2>1. MayCall(f, stack[w]) /\ f.fn \in Firsts(w) /\ Push(w, f)
    BY <1>1, <1>2, <1>3, <1>4 DEF MayCall, Firsts
  <2>2. Stepped(w, Busy(stack[w]), {}, Act(f), f.fn)
    BY <1>1, <1>6, <1>7, <1>8, <2>1, PushStep
  <2>3. Act(f) = {f}
    BY <1>4 DEF Act
  <2>4. QED
    BY <1>4, <2>2, <2>3
<1>10. Counted'
  <2>1. InTask' = InTask \cup {w} /\ InJob' = InJob /\ w \notin InTask
    BY <1>3, <1>8, <1>9, Views DEF InJob, InTask
  <2>2. \A j : InChunk(j)' = InChunk(j)
    <3>1. \A g \in {} \cup {f} : g.at # "chunk"
      BY <1>4
    <3>2. QED
      BY <1>9, <3>1, ChunksKept
  <2>3. IsFiniteSet(InTask)
    BY ThreadsFinite, FS_Subset DEF InTask
  <2>4. Cardinality(InTask') = Cardinality(InTask) + 1
    BY <2>1, <2>3, CountOne
  <2>5. QED
    BY <1>1, <1>5, <2>1, <2>2, <2>4 DEF Counted
<1>11. LoopsRight'
  <2>1. \A g \in {f} : g.fn # "job"
    BY <1>4
  <2>2. QED
    BY <1>1, <1>5, <1>9, <2>1, LoopsKept
<1>12. TasksRight'
  <2> DEFINE new == {f}
             old == {}
  <2>1. f \in new /\ queue' = queue \ {f.task} /\ state' = state /\ \A g \in old : g.fn # "task" \/ g.at = "end"
    BY <1>1, <1>2, <1>4
  <2>2. Stepped(w, Busy(stack[w]), old, new, "task")
    BY <1>9
  <2>3. TasksRight /\ f.fn = "task" /\ f.at = "start"
    BY <1>1, <1>4
  <2> HIDE DEF old, new
  <2>4. QED
    BY <2>1, <2>2, <2>3, TaskTaken
<1>13. EndRight'
  BY <1>1, <1>2, <1>3, <1>9, EndKept DEF EndRight
<1>14. Flat'
  BY <1>1, <1>2, <1>5 DEF TypeOK, Flat
<1>15. QED
  BY <1>9, <1>10, <1>11, <1>12, <1>13, <1>14, TypeStep DEF IInv, Stepped

LEMMA Single ==
  ASSUME NEW s \in Seq(Frames), Len(s) = 1
  PROVE  s = <<s[1]>> /\ Head(s) = s[1] /\ Tail(s) = <<>>
<1>1. s # <<>>
  BY EmptySeq
<1>2. Head(s) = s[1] /\ Tail(s) = <<>> /\ s[1] \in Frames
  BY <1>1, PopFacts
<1>3. <<s[1]>> \in Seq(Frames) /\ Len(<<s[1]>>) = 1 /\ <<s[1]>>[1] = s[1]
  BY <1>2
<1>4. s = <<s[1]>>
  <2> DEFINE r == <<s[1]>>
  <2> HIDE DEF r
  <2>1. r \in Seq(Frames) /\ Len(r) = Len(s) /\ r[1] = s[1]
    BY <1>3 DEF r
  <2>2. \A i \in 1..1 : i = 1
    OBVIOUS
  <2>3. \A i \in 1..Len(s) : s[i] = r[i]
    BY <2>1, <2>2
  <2>4. s = r
    BY <2>1, <2>3, SeqEqual
  <2>5. QED
    BY <2>4 DEF r
<1>5. QED
  BY <1>2, <1>4

\* What a caller that drains the queue itself does next: nothing is left and its
\* stack becomes outer, or another task is begun above frame d.
LEMMA AfterInlineKeeps ==
  ASSUME IInv, NEW c \in Threads, AfterInline(c)
  PROVE  IInv'
<1> DEFINE s == stack[c]
<1>1. /\ TypeOK /\ StacksRight /\ Counted /\ LoopsRight /\ TasksRight /\ EndRight /\ s # <<>>
      /\ c \in Callers /\ Top(c).fn = "task" /\ Top(c).at = "end"
      /\ UNCHANGED <<state, stopped, loops, pool>>
      /\ DrainInline(c, queue, Tail(s), IF Head(Tail(s)).fn = "submit" THEN Tail(Tail(s)) ELSE <<Frame("destroy", "stop")>>)
  BY DEF IInv, AfterInline, In, Top
<1>2. Top(c) \in Frames /\ Top(c) = s[1] /\ s \in Seq(Frames)
  BY <1>1, TopFacts
<1> PICK e \in Frames : e = Top(c)
  BY <1>2
<1>3. c \notin Workers
  BY <1>1, TaskPoolAssumption
<1>4. /\ workers = {} /\ Len(s) = 2 /\ s[2] \in Frames /\ FrameRight(s[2])
      /\ s[2].fn \in {"submit", "destroy"} /\ s[2].at = "drain" /\ Base(s) = s[2].fn
  BY <1>1, <1>3, TaskTop
<1> PICK d \in Frames : d = s[2]
  BY <1>4
<1>5. Tail(s) = <<d>> /\ Head(Tail(s)) = d /\ Tail(Tail(s)) = <<>> /\ Busy(s) = {e, d}
  <2>1. /\ Tail(s) \in Seq(Frames) /\ Len(Tail(s)) = Len(s) - 1 /\ \A i \in 1..(Len(s) - 1) : Tail(s)[i] = s[i + 1]
    BY <1>1, <1>2, PopFacts
  <2>2. Len(Tail(s)) = 1 /\ Tail(s)[1] = d
    BY <1>4, <2>1
  <2>3. Tail(s) = <<d>>
    BY <2>1, <2>2, Single
  <2>4. Busy(s) = Busy(Tail(s)) \cup Act(e)
    BY <1>1, <1>2, BusyPop
  <2>5. Busy(<<d>>) = {d} /\ Act(e) = {e}
    BY <1>1, <1>4, OneFrame DEF Act
  <2>6. Head(Tail(s)) = d /\ Tail(Tail(s)) = <<>>
    BY <2>1, <2>2, Single
  <2>7. QED
    BY <2>3, <2>4, <2>5, <2>6
<1>6. d.job = 0 /\ d.fn \in Firsts(c) /\ (d.fn = "destroy" => gone)
  BY <1>3, <1>4 DEF FrameRight, Loop, Firsts
<1> HIDE DEF s
<1>7. Base(stack[c]) = d.fn /\ Busy(stack[c]) = {e, d}
  BY <1>4, <1>5 DEF s
<1>8. Submitted' = Submitted /\ UNCHANGED <<job, gen, next, done, begun, workers, exited, gone, active, running, asleep, seen, stop>>
  BY <1>1 DEF Submitted, loops, pool
<1>9. queue' \subseteq queue
  BY <1>1 DEF DrainInline
<1>10. \A g \in Frames : FrameRight(g) => FrameRight(g)'
  BY <1>1, <1>8, <1>9, FramesStay DEF TypeOK
<1>11. Flat'
  BY <1>1, <1>8, <1>9 DEF TypeOK, Flat
<1>12. ASSUME NEW new, NEW rest, NEW old, NEW base, Stepped(c, rest, old, new, base),
              \A g \in old \cup new : ~Loop(g) /\ g.at # "chunk",
              base = Base(stack[c]) \/ (~gone /\ queue' = {}), TasksRight'
       PROVE  IInv'
  <2>1. Counted'
    BY <1>1, <1>3, <1>8, <1>12, CountsKept
  <2>2. LoopsRight'
    BY <1>1, <1>8, <1>12, LoopsKept DEF Loop
  <2>3. EndRight'
    BY <1>1, <1>8, <1>9, <1>12, EndKept DEF EndRight
  <2>4. QED
    BY <1>11, <1>12, <2>1, <2>2, <2>3, TypeStep DEF IInv, Stepped
<1>13. CASE /\ queue = {} /\ queue' = {}
            /\ stack' = WakeIdle([stack EXCEPT ![c] = IF d.fn = "submit" THEN <<>> ELSE <<Frame("destroy", "stop")>>])
  <2>1. ASSUME NEW new, NEW base, Stepped(c, {}, {e, d}, new, base), \A g \in new : ~Loop(g) /\ g.at # "chunk",
               base = Base(stack[c]) \/ ~gone
        PROVE  IInv'
    <3> DEFINE old == {e, d}
    <3>1. \A g \in old : g.fn # "task" \/ g.at = "end"
      BY <1>1, <1>4
    <3>2. \A g \in old : ~Loop(g) /\ g.at # "chunk"
      BY <1>1, <1>4 DEF Loop
    <3>3. Stepped(c, {}, old, new, base)
      BY <2>1
    <3> HIDE DEF old
    <3>4. TasksRight'
      <4>1. \A k : /\ HasTask(k, "start") => HasTask(k, "start")'
                   /\ HasTask(k, "run") => HasTask(k, "run")'
        BY <3>1, <3>3, TaskMoves
      <4>2. QED
        BY <1>1, <1>8, <1>13, <4>1 DEF TasksRight
    <3>5. QED
      BY <1>12, <1>13, <2>1, <3>2, <3>3, <3>4
  <2>2. CASE d.fn = "submit"
    <3>1. <<>> \in Seq(Frames) /\ Shape(<<>>, Firsts(c)) /\ InSeq(<<>>) = {} /\ Busy(<<>>) = {} /\ Base(<<>>) = "none"
      BY DEF Shape, InSeq, Busy, Base
    <3>2. LET st == [stack EXCEPT ![c] = <<>>] IN stack' = st \/ stack' = WakeIdle(st)
      BY <1>13, <2>2
    <3>3. Stepped(c, {}, {e, d}, {}, "none")
      <4> DEFINE r == <<>>
      <4>1. /\ r \in Seq(Frames) /\ Shape(r, Firsts(c)) /\ (\A g \in InSeq(r) : FrameRight(g)')
            /\ LET st == [stack EXCEPT ![c] = r] IN stack' = st \/ stack' = WakeIdle(st)
        BY <3>1, <3>2
      <4>2. Busy(r) = {} /\ Base(r) = "none"
        BY <3>1
      <4> HIDE DEF r
      <4>3. /\ stack' \in [Threads -> Seq(Frames)] /\ StacksRight'
            /\ Busy(stack'[c]) = Busy(r) /\ Base(stack'[c]) = Base(r)
            /\ \A u \in Threads \ {c} : Busy(stack'[u]) = Busy(stack[u]) /\ Base(stack'[u]) = Base(stack[u])
        BY <1>1, <1>3, <1>8, <1>10, <4>1, Stacked
      <4>4. QED
        BY <1>7, <4>2, <4>3 DEF Stepped
    <3>4. ~gone
      BY <1>1, <1>7, <2>2 DEF EndRight
    <3>5. QED
      BY <2>1, <3>3, <3>4
  <2>3. CASE d.fn = "destroy"
    <3>1. PICK g \in Frames : /\ g = Frame("destroy", "stop")
                              /\ g.fn = "destroy" /\ g.at = "stop" /\ g.job = 0 /\ g.task = 0 /\ g.owed = {}
      BY PlainFrame DEF Fns, Ats
    <3>2. FrameRight(g)'
      BY <1>6, <1>8, <1>13, <2>3, <3>1 DEF FrameRight, Loop
    <3>3. /\ <<g>> \in Seq(Frames) /\ Shape(<<g>>, Firsts(c)) /\ InSeq(<<g>>) = {g}
          /\ Busy(<<g>>) = {g} /\ Base(<<g>>) = "destroy" /\ <<g>> # <<>>
      BY <1>6, <2>3, <3>1, OneFrame
    <3>4. LET st == [stack EXCEPT ![c] = <<g>>] IN stack' = st \/ stack' = WakeIdle(st)
      BY <1>13, <2>3, <3>1
    <3>5. Stepped(c, {}, {e, d}, {g}, "destroy")
      <4> DEFINE r == <<g>>
      <4>1. /\ r \in Seq(Frames) /\ Shape(r, Firsts(c)) /\ (\A h \in InSeq(r) : FrameRight(h)')
            /\ LET st == [stack EXCEPT ![c] = r] IN stack' = st \/ stack' = WakeIdle(st)
        BY <3>2, <3>3, <3>4
      <4>2. Busy(r) = {g} /\ Base(r) = "destroy"
        BY <3>3
      <4> HIDE DEF r
      <4>3. /\ stack' \in [Threads -> Seq(Frames)] /\ StacksRight'
            /\ Busy(stack'[c]) = Busy(r) /\ Base(stack'[c]) = Base(r)
            /\ \A u \in Threads \ {c} : Busy(stack'[u]) = Busy(stack[u]) /\ Base(stack'[u]) = Base(stack[u])
        BY <1>1, <1>3, <1>8, <1>10, <4>1, Stacked
      <4>4. QED
        BY <1>7, <4>2, <4>3 DEF Stepped
    <3>6. \A h \in {g} : ~Loop(h) /\ h.at # "chunk"
      BY <3>1 DEF Loop
    <3>7. QED
      BY <1>7, <2>1, <2>3, <3>5, <3>6
  <2>4. QED
    BY <1>4, <2>2, <2>3
<1>14. CASE \E k \in queue : /\ queue' = queue \ {k}
                             /\ stack' = [stack EXCEPT ![c] = <<[Frame("task", "start") EXCEPT !.task = k]>> \o <<d>>]
  <2>1. PICK k \in queue : /\ queue' = queue \ {k}
                           /\ stack' = [stack EXCEPT ![c] = <<[Frame("task", "start") EXCEPT !.task = k]>> \o <<d>>]
    BY <1>14
  <2>2. k \in Tasks /\ k \in Submitted
    BY <1>1, <2>1 DEF TypeOK, TasksRight
  <2>3. PICK f \in Frames : /\ f = [Frame("task", "start") EXCEPT !.task = k]
                            /\ f.fn = "task" /\ f.at = "start" /\ f.job = 0 /\ f.task = k /\ f.owed = {}
    BY <2>2, TaskFrame
  <2>4. FrameRight(f)' /\ FrameRight(d)'
    <3>1. FrameRight(f)'
      BY <1>8, <2>2, <2>3 DEF FrameRight, Loop
    <3>2. QED
      BY <1>4, <1>10, <3>1
  <2> DEFINE r == <<f>> \o <<d>>
  <2>5. /\ r \in Seq(Frames) /\ Shape(r, Firsts(c)) /\ InSeq(r) = {f, d} /\ Busy(r) = {f, d} /\ Base(r) = d.fn
    BY <1>4, <1>6, <2>3, TwoFrames
  <2>6. stack' = [stack EXCEPT ![c] = r]
    BY <2>1, <2>3
  <2> HIDE DEF r
  <2>7. /\ stack' \in [Threads -> Seq(Frames)] /\ StacksRight'
        /\ Busy(stack'[c]) = Busy(r) /\ Base(stack'[c]) = Base(r)
        /\ \A u \in Threads \ {c} : Busy(stack'[u]) = Busy(stack[u]) /\ Base(stack'[u]) = Base(stack[u])
    BY <1>1, <1>3, <1>8, <1>10, <2>4, <2>5, <2>6, Stacked
  <2> DEFINE new == {f}
             old == {e}
  <2>8. Stepped(c, {d}, old, new, d.fn)
    BY <1>7, <2>5, <2>7 DEF Stepped
  <2>9. f \in new /\ \A g \in old : g.fn # "task" \/ g.at = "end"
    BY <1>1
  <2>10. \A g \in old \cup new : ~Loop(g) /\ g.at # "chunk"
    BY <1>1, <2>3 DEF Loop
  <2> HIDE DEF old, new
  <2>11. TasksRight'
    <3>1. TasksRight /\ state' = state /\ queue' = queue \ {f.task} /\ f.fn = "task" /\ f.at = "start"
      BY <1>1, <2>1, <2>3
    <3>2. QED
      BY <2>8, <2>9, <3>1, TaskTaken
  <2>12. QED
    BY <1>7, <1>12, <2>8, <2>10, <2>11
<1>15. QED
  BY <1>1, <1>5, <1>13, <1>14 DEF DrainInline

\* An idle caller's stack becomes one frame, or a task above one.
LEMMA EnterOne ==
  ASSUME TypeOK, StacksRight, NEW c \in Callers, stack[c] = <<>>, NEW g \in Frames,
         g.fn \in {"submit", "destroy"}, FrameRight(g)',
         LET st == [stack EXCEPT ![c] = <<g>>] IN stack' = st \/ stack' = WakeIdle(st),
         \A h \in Frames : FrameRight(h) => FrameRight(h)', workers' = workers, exited' = exited
  PROVE  Stepped(c, {}, {}, {g}, g.fn)
<1> DEFINE r == <<g>>
<1>1. c \in Threads /\ c \notin Workers
  BY TaskPoolAssumption DEF Threads
<1>2. /\ r \in Seq(Frames) /\ Shape(r, Firsts(c)) /\ InSeq(r) = {g} /\ Busy(r) = {g} /\ Base(r) = g.fn
  BY <1>1, OneFrame DEF Firsts
<1>3. LET st == [stack EXCEPT ![c] = r] IN stack' = st \/ stack' = WakeIdle(st)
  OBVIOUS
<1> HIDE DEF r
<1>4. /\ stack' \in [Threads -> Seq(Frames)] /\ StacksRight'
      /\ Busy(stack'[c]) = Busy(r) /\ Base(stack'[c]) = Base(r)
      /\ \A u \in Threads \ {c} : Busy(stack'[u]) = Busy(stack[u]) /\ Base(stack'[u]) = Base(stack[u])
  BY <1>1, <1>2, <1>3, Stacked
<1>5. Busy(stack[c]) = {}
  BY DEF Busy, InSeq
<1>6. QED
  BY <1>2, <1>4, <1>5 DEF Stepped

LEMMA EnterTwo ==
  ASSUME TypeOK, StacksRight, NEW c \in Callers, stack[c] = <<>>, NEW f \in Frames, NEW d \in Frames,
         f.fn = "task", f.job = 0, d.job = 0, d.fn \in {"submit", "destroy"}, d.at = "drain",
         FrameRight(f)', FrameRight(d)', stack' = [stack EXCEPT ![c] = <<f>> \o <<d>>],
         \A h \in Frames : FrameRight(h) => FrameRight(h)', workers' = workers, exited' = exited
  PROVE  Stepped(c, {}, {}, {f, d}, d.fn)
<1> DEFINE r == <<f>> \o <<d>>
<1>1. c \in Threads /\ c \notin Workers
  BY TaskPoolAssumption DEF Threads
<1>2. /\ r \in Seq(Frames) /\ Shape(r, Firsts(c)) /\ InSeq(r) = {f, d} /\ Busy(r) = {f, d} /\ Base(r) = d.fn
  <2>1. d.fn \in Firsts(c)
    BY <1>1 DEF Firsts
  <2>2. QED
    BY <2>1, TwoFrames
<1>3. stack' = [stack EXCEPT ![c] = r]
  OBVIOUS
<1> HIDE DEF r
<1>4. /\ stack' \in [Threads -> Seq(Frames)] /\ StacksRight'
      /\ Busy(stack'[c]) = Busy(r) /\ Base(stack'[c]) = Base(r)
      /\ \A u \in Threads \ {c} : Busy(stack'[u]) = Busy(stack[u]) /\ Base(stack'[u]) = Base(stack[u])
  BY <1>1, <1>2, <1>3, Stacked
<1>5. Busy(stack[c]) = {}
  BY DEF Busy, InSeq
<1>6. QED
  BY <1>2, <1>4, <1>5 DEF Stepped

LEMMA SubmitKeeps ==
  ASSUME IInv, NEW c \in Callers, Submit(c)
  PROVE  IInv'
<1> DEFINE k0 == Cardinality(Submitted) + 1
<1>1. /\ TypeOK /\ StacksRight /\ Counted /\ LoopsRight /\ TasksRight /\ EndRight
      /\ stack[c] = <<>> /\ ~gone /\ c \in Threads /\ c \notin Workers
      /\ k0 <= MaxTasks /\ state' = [state EXCEPT ![k0] = "queued"]
      /\ UNCHANGED <<stopped, loops, pool>>
      /\ IF workers = {} THEN DrainInline(c, queue \cup {k0}, <<Frame("submit", "drain")>>, <<>>)
                         ELSE queue' = queue \cup {k0} /\ Push(c, Frame("submit", "notify"))
  BY TaskPoolAssumption DEF IInv, Submit, Calls, Threads
<1>2. PICK n \in Nat : Submitted = 1..n
  BY <1>1 DEF TasksRight
<1>3. k0 = n + 1 /\ k0 \in Tasks
  <2>1. \A m \in Nat : Cardinality(1..m) = m
    BY FS_Interval
  <2>2. Cardinality(Submitted) = n
    BY <1>2, <2>1
  <2>3. k0 = n + 1 /\ n + 1 <= MaxTasks
    BY <1>1, <2>2
  <2>4. QED
    BY <2>3, TaskPoolAssumption DEF Tasks
<1> PICK k \in Tasks : k = k0
  BY <1>3
<1> HIDE DEF k0
<1>4. k \notin Submitted /\ n + 1 \in Nat /\ 1..(n + 1) = 1..n \cup {k} /\ state[k] = "none"
  <2>1. k \notin Submitted /\ n + 1 \in Nat /\ 1..(n + 1) = 1..n \cup {k}
    BY <1>2, <1>3
  <2>2. QED
    BY <2>1 DEF Submitted
<1>5. /\ state' \in [Tasks -> {"none", "queued", "running", "ran", "skipped"}]
      /\ \A i \in Tasks : state'[i] = IF i = k THEN "queued" ELSE state[i]
  BY <1>1 DEF TypeOK
<1>6. Submitted' = Submitted \cup {k} /\ Submitted' = 1..(n + 1)
  <2>1. Submitted' = Submitted \cup {k}
    BY <1>5 DEF Submitted
  <2>2. QED
    BY <1>2, <1>4, <2>1
<1>7. UNCHANGED <<job, gen, next, done, begun, workers, exited, gone, active, running, asleep, seen, stop>>
  BY <1>1 DEF loops, pool
<1>8. \A g \in Frames : FrameRight(g) => FrameRight(g)'
  BY <1>1, <1>6, <1>7, FramesStay DEF TypeOK
<1>9. Base(stack[c]) = "none"
  BY <1>1 DEF Base
<1>10. ASSUME NEW new, NEW base, Stepped(c, {}, {}, new, base), base # "none",
              \A g \in new : ~Loop(g) /\ g.at # "chunk", queue' \subseteq queue \cup {k},
              \A i \in queue \cup {k} : i \in queue' \/ \E f \in new : f.fn = "task" /\ f.task = i /\ f.at = "start"
       PROVE  IInv'
  <2>1. Counted'
    BY <1>1, <1>7, <1>10, CountsKept
  <2>2. LoopsRight'
    BY <1>1, <1>7, <1>10, LoopsKept DEF Loop
  <2>3. TasksRight'
    <3>1. \A i, a : HasTask(i, a) => HasTask(i, a)'
      BY <1>1, <1>10, TaskMoves
    <3>2. \A i, a : (\E f \in new : f.fn = "task" /\ f.task = i /\ f.at = a) => HasTask(i, a)'
      BY <1>1, <1>10, TaskMoves
    <3>3. ASSUME NEW i \in Tasks, state'[i] = "queued" PROVE i \in queue' \/ HasTask(i, "start")'
      <4>1. i \in queue \cup {k} \/ HasTask(i, "start")
        BY <1>1, <1>5, <3>3 DEF TasksRight
      <4>2. QED
        BY <1>10, <3>1, <3>2, <4>1
    <3>4. ASSUME NEW i \in Tasks, state'[i] = "running" PROVE HasTask(i, "run")'
      <4>1. HasTask(i, "run")
        BY <1>1, <1>5, <3>4 DEF TasksRight
      <4>2. QED
        BY <3>1, <4>1
    <3>5. queue' \subseteq Submitted' /\ \E m \in Nat : Submitted' = 1..m
      BY <1>1, <1>4, <1>6, <1>10 DEF TasksRight
    <3>6. QED
      BY <3>3, <3>4, <3>5 DEF TasksRight
  <2>4. EndRight'
    <3>1. Occupied'
      BY <1>10 DEF Occupied, Stepped
    <3>2. ~stop /\ exited = {}
      BY <1>1 DEF EndRight
    <3>3. QED
      BY <1>1, <1>7, <3>1, <3>2 DEF EndRight
  <2>5. Flat'
    BY <1>1, <1>5, <1>7, <1>10 DEF TypeOK, Flat
  <2>6. QED
    BY <1>10, <2>1, <2>2, <2>3, <2>4, <2>5, TypeStep DEF IInv, Stepped
<1>11. CASE workers # {}
  <2>1. queue' = queue \cup {k} /\ Push(c, Frame("submit", "notify"))
    BY <1>1, <1>11
  <2>2. PICK g \in Frames : /\ g = Frame("submit", "notify")
                            /\ g.fn = "submit" /\ g.at = "notify" /\ g.job = 0 /\ g.task = 0 /\ g.owed = {}
    BY PlainFrame DEF Fns, Ats
  <2>3. FrameRight(g)'
    BY <1>7, <1>11, <2>2 DEF FrameRight, Loop
  <2>4. stack' = [stack EXCEPT ![c] = <<g>>]
    BY <1>1, <2>1, <2>2 DEF Push
  <2>5. Stepped(c, {}, {}, {g}, "submit")
    BY <1>1, <1>7, <1>8, <2>2, <2>3, <2>4, EnterOne
  <2> DEFINE new == {g}
  <2>6. (\A h \in new : ~Loop(h) /\ h.at # "chunk") /\ Stepped(c, {}, {}, new, "submit")
    BY <2>2, <2>5 DEF Loop
  <2> HIDE DEF new
  <2>7. QED
    BY <1>10, <2>1, <2>6
<1>12. CASE workers = {}
  <2>1. PICK i \in queue \cup {k} :
          /\ queue' = (queue \cup {k}) \ {i}
          /\ stack' = [stack EXCEPT ![c] = <<[Frame("task", "start") EXCEPT !.task = i]>> \o <<Frame("submit", "drain")>>]
    <3>1. DrainInline(c, queue \cup {k}, <<Frame("submit", "drain")>>, <<>>)
      BY <1>1, <1>12
    <3>2. queue \cup {k} # {}
      OBVIOUS
    <3>3. QED
      BY <3>1, <3>2 DEF DrainInline
  <2>2. i \in Tasks /\ i \in Submitted'
    BY <1>1, <1>6, <2>1 DEF TypeOK, TasksRight
  <2>3. PICK f \in Frames : /\ f = [Frame("task", "start") EXCEPT !.task = i]
                            /\ f.fn = "task" /\ f.at = "start" /\ f.job = 0 /\ f.task = i /\ f.owed = {}
    BY <2>2, TaskFrame
  <2>4. PICK d \in Frames : /\ d = Frame("submit", "drain")
                            /\ d.fn = "submit" /\ d.at = "drain" /\ d.job = 0 /\ d.task = 0 /\ d.owed = {}
    BY PlainFrame DEF Fns, Ats
  <2>5. FrameRight(f)' /\ FrameRight(d)'
    BY <1>7, <1>12, <2>2, <2>3, <2>4 DEF FrameRight, Loop
  <2>6. stack' = [stack EXCEPT ![c] = <<f>> \o <<d>>]
    BY <2>1, <2>3, <2>4
  <2>7. Stepped(c, {}, {}, {f, d}, "submit")
    BY <1>1, <1>7, <1>8, <2>3, <2>4, <2>5, <2>6, EnterTwo
  <2> DEFINE new == {f, d}
  <2>8. /\ \A h \in new : ~Loop(h) /\ h.at # "chunk"
        /\ f \in new /\ Stepped(c, {}, {}, new, "submit")
    BY <2>3, <2>4, <2>7 DEF Loop
  <2> HIDE DEF new
  <2>9. queue' \subseteq queue \cup {k}
    BY <2>1
  <2>10. \A j \in queue \cup {k} : j \in queue' \/ \E h \in new : h.fn = "task" /\ h.task = j /\ h.at = "start"
    BY <2>1, <2>3, <2>8
  <2>11. QED
    BY <1>10, <2>8, <2>9, <2>10
<1>13. QED
  BY <1>11, <1>12

LEMMA DestroyKeeps ==
  ASSUME IInv, NEW c \in Callers, Destroy(c)
  PROVE  IInv'
<1>1. /\ TypeOK /\ StacksRight /\ Counted /\ LoopsRight /\ TasksRight /\ EndRight
      /\ stack[c] = <<>> /\ ~gone /\ gone' = TRUE /\ c \in Threads /\ c \notin Workers
      /\ \A d \in Callers : stack[d] = <<>>
      /\ UNCHANGED <<workers, asleep, seen, exited, active, running, stop, loops, state, stopped>>
      /\ IF workers = {}
         THEN DrainInline(c, queue, <<Frame("destroy", "drain")>>, <<Frame("destroy", "stop")>>)
         ELSE Push(c, Frame("destroy", "stop")) /\ UNCHANGED queue
  BY TaskPoolAssumption DEF IInv, Destroy, Threads
<1>2. Submitted' = Submitted /\ UNCHANGED <<job, gen, next, done, begun>>
  BY <1>1 DEF Submitted, loops
<1>3. queue' \subseteq queue
  BY <1>1 DEF DrainInline
<1>4. \A g \in Frames : FrameRight(g) => FrameRight(g)'
  BY <1>1, <1>2, <1>3, FramesStay DEF TypeOK
<1>5. \A d \in Callers : Base(stack[d]) = "none"
  BY <1>1 DEF Base
<1>6. ASSUME NEW new, Stepped(c, {}, {}, new, "destroy"), \A g \in new : ~Loop(g) /\ g.at # "chunk",
             \A i \in queue : i \in queue' \/ \E f \in new : f.fn = "task" /\ f.task = i /\ f.at = "start"
      PROVE  IInv'
  <2>1. Counted'
    BY <1>1, <1>2, <1>6, CountsKept
  <2>2. LoopsRight'
    BY <1>1, <1>2, <1>6, LoopsKept DEF Loop
  <2>3. TasksRight'
    <3>1. \A i, a : HasTask(i, a) => HasTask(i, a)'
      BY <1>1, <1>6, TaskMoves
    <3>2. \A i, a : (\E f \in new : f.fn = "task" /\ f.task = i /\ f.at = a) => HasTask(i, a)'
      BY <1>1, <1>6, TaskMoves
    <3>3. ASSUME NEW i \in Tasks, state[i] = "queued" PROVE i \in queue' \/ HasTask(i, "start")'
      <4>1. i \in queue \/ HasTask(i, "start")
        BY <1>1, <3>3 DEF TasksRight
      <4>2. QED
        BY <1>6, <3>1, <3>2, <4>1
    <3>4. QED
      BY <1>1, <1>2, <1>3, <3>1, <3>3 DEF TasksRight
  <2>4. EndRight'
    <3>1. Occupied' /\ \A d \in Callers : Base(stack'[d]) \in {"none", "destroy"}
      BY <1>5, <1>6 DEF Occupied, Stepped, Threads
    <3>2. QED
      BY <1>1, <1>3, <3>1 DEF EndRight
  <2>5. Flat'
    BY <1>1, <1>2, <1>3 DEF TypeOK, Flat
  <2>6. QED
    BY <1>6, <2>1, <2>2, <2>3, <2>4, <2>5, TypeStep DEF IInv, Stepped
<1>7. ASSUME workers # {} \/ queue' = {}, queue' = queue,
             LET st == [stack EXCEPT ![c] = <<Frame("destroy", "stop")>>] IN stack' = st \/ stack' = WakeIdle(st)
      PROVE  IInv'
  <2>1. PICK g \in Frames : /\ g = Frame("destroy", "stop")
                            /\ g.fn = "destroy" /\ g.at = "stop" /\ g.job = 0 /\ g.task = 0 /\ g.owed = {}
    BY PlainFrame DEF Fns, Ats
  <2>2. FrameRight(g)'
    BY <1>1, <1>7, <2>1 DEF FrameRight, Loop
  <2>3. Stepped(c, {}, {}, {g}, "destroy")
    BY <1>1, <1>4, <1>7, <2>1, <2>2, EnterOne
  <2> DEFINE new == {g}
  <2>4. (\A h \in new : ~Loop(h) /\ h.at # "chunk") /\ Stepped(c, {}, {}, new, "destroy")
    BY <2>1, <2>3 DEF Loop
  <2> HIDE DEF new
  <2>5. QED
    BY <1>6, <1>7, <2>4
<1>8. CASE workers # {}
  <2>1. stack' = [stack EXCEPT ![c] = <<Frame("destroy", "stop")>>] /\ queue' = queue
    BY <1>1, <1>8 DEF Push
  <2>2. QED
    BY <1>7, <1>8, <2>1
<1>9. CASE workers = {}
  <2>1. DrainInline(c, queue, <<Frame("destroy", "drain")>>, <<Frame("destroy", "stop")>>)
    BY <1>1, <1>9
  <2>2. CASE queue = {} /\ queue' = {} /\ stack' = WakeIdle([stack EXCEPT ![c] = <<Frame("destroy", "stop")>>])
    BY <1>7, <2>2
  <2>3. CASE \E i \in queue :
               /\ queue' = queue \ {i}
               /\ stack' = [stack EXCEPT ![c] = <<[Frame("task", "start") EXCEPT !.task = i]>> \o <<Frame("destroy", "drain")>>]
    <3>1. PICK i \in queue :
               /\ queue' = queue \ {i}
               /\ stack' = [stack EXCEPT ![c] = <<[Frame("task", "start") EXCEPT !.task = i]>> \o <<Frame("destroy", "drain")>>]
      BY <2>3
    <3>2. i \in Tasks /\ i \in Submitted
      BY <1>1, <3>1 DEF TypeOK, TasksRight
    <3>3. PICK f \in Frames : /\ f = [Frame("task", "start") EXCEPT !.task = i]
                              /\ f.fn = "task" /\ f.at = "start" /\ f.job = 0 /\ f.task = i /\ f.owed = {}
      BY <3>2, TaskFrame
    <3>4. PICK d \in Frames : /\ d = Frame("destroy", "drain")
                              /\ d.fn = "destroy" /\ d.at = "drain" /\ d.job = 0 /\ d.task = 0 /\ d.owed = {}
      BY PlainFrame DEF Fns, Ats
    <3>5. FrameRight(f)' /\ FrameRight(d)'
      BY <1>1, <1>2, <1>9, <3>2, <3>3, <3>4 DEF FrameRight, Loop
    <3>6. stack' = [stack EXCEPT ![c] = <<f>> \o <<d>>]
      BY <3>1, <3>3, <3>4
    <3>7. Stepped(c, {}, {}, {f, d}, "destroy")
      BY <1>1, <1>4, <3>3, <3>4, <3>5, <3>6, EnterTwo
    <3> DEFINE new == {f, d}
    <3>8. /\ \A h \in new : ~Loop(h) /\ h.at # "chunk"
          /\ f \in new /\ Stepped(c, {}, {}, new, "destroy")
      BY <3>3, <3>4, <3>7 DEF Loop
    <3> HIDE DEF new
    <3>9. \A j \in queue : j \in queue' \/ \E h \in new : h.fn = "task" /\ h.task = j /\ h.at = "start"
      BY <3>1, <3>3, <3>8
    <3>10. QED
      BY <1>6, <3>8, <3>9
  <2>4. QED
    BY <2>1, <2>2, <2>3 DEF DrainInline
<1>10. QED
  BY <1>8, <1>9

-----------------------------------------------------------------------------
(* The theorems *)

LEMMA InitRight == Init => IInv
<1> SUFFICES ASSUME Init PROVE IInv
  OBVIOUS
<1>1. /\ workers \in Pools /\ stack = [t \in Threads |-> <<>>] /\ asleep = {} /\ exited = {}
      /\ seen = [w \in Workers |-> 0] /\ job = 0 /\ gen = 0 /\ active = 0 /\ begun = 0
      /\ next = [j \in Jobs |-> 0] /\ done = [j \in Jobs |-> 0]
      /\ queue = {} /\ running = 0 /\ state = [k \in Tasks |-> "none"] /\ stopped = {} /\ stop = FALSE /\ gone = FALSE
  BY DEF Init
<1>2. IsFiniteSet(workers) /\ Cardinality(workers) \in Nat
  BY <1>1, ThreadsFinite, FS_CardinalityType
<1>3. TypeOK
  <2>1. <<>> \in Seq(Frames)
    OBVIOUS
  <2>2. stack \in [Threads -> Seq(Frames)]
    BY <1>1, <2>1
  <2>3. 0 \in 0..Cardinality(workers) /\ 0 \in 0..MaxJobs /\ 0 \in 0..Chunks
    BY <1>2, TaskPoolAssumption
  <2>4. QED
    BY <1>1, <2>2, <2>3 DEF TypeOK
<1>4. \A t \in Threads : stack[t] = <<>> /\ InSeq(stack[t]) = {} /\ Busy(stack[t]) = {} /\ Base(stack[t]) = "none"
  BY <1>1 DEF InSeq, Busy, Base
<1>5. StacksRight
  <2>1. \A firsts : Shape(<<>>, firsts)
    BY DEF Shape
  <2>2. QED
    BY <1>4, <2>1 DEF StacksRight, Threads
<1>6. Counted
  <2>1. InJob = {} /\ InTask = {} /\ \A j : InChunk(j) = {}
    BY <1>4 DEF InJob, InTask, InChunk, Threads
  <2>2. Cardinality({}) = 0
    BY FS_EmptySet
  <2>3. Cardinality(InJob) = 0 /\ Cardinality(InTask) = 0 /\ \A j : Cardinality(InChunk(j)) = 0
    BY <2>1, <2>2
  <2>4. \A j \in Jobs : next[j] = 0 /\ done[j] = 0
    BY <1>1
  <2>5. QED
    BY <1>1, <2>3, <2>4 DEF Counted
<1>7. LoopsRight
  BY <1>1, <1>4 DEF LoopsRight
<1>8. TasksRight
  <2>1. Submitted = 1..0
    BY <1>1 DEF Submitted
  <2>2. QED
    BY <1>1, <2>1 DEF TasksRight
<1>9. EndRight
  BY <1>1 DEF EndRight
<1>10. QED
  BY <1>3, <1>5, <1>6, <1>7, <1>8, <1>9 DEF IInv

LEMMA NextKeeps == IInv /\ [Next]_vars => IInv'
<1> SUFFICES ASSUME IInv, [Next]_vars PROVE IInv'
  OBVIOUS
<1>1. ASSUME NEW t \in Threads, Run(t) PROVE IInv'
  BY <1>1, NotifyAllKeeps, TakeChunkKeeps, EndChunkKeeps, NoChunkLeftKeeps, LeaveJobKeeps, AllDoneKeeps, ReturnKeeps,
     NotifyOneKeeps, StartTaskKeeps, EndTaskKeeps, AfterTaskKeeps, AfterInlineKeeps, CheckIdleKeeps,
     TakeTaskKeeps, TakeJobKeeps, SleepKeeps, ExitKeeps, SetStopKeeps, NotifyStopKeeps, JoinKeeps DEF Run
<1>2. ASSUME NEW t \in Threads, Use(t) PROVE IInv'
  BY <1>2, ParallelForKeeps, WaitIdleKeeps, DestroyKeeps, SubmitKeeps DEF Use
<1>3. ASSUME NEW k \in Tasks, RequestStop(k) PROVE IInv'
  BY <1>3, RequestStopKeeps
<1>4. CASE UNCHANGED vars
  <2>1. stack' \in [Threads -> Seq(Frames)] /\ StacksRight' /\ Counted' /\ LoopsRight' /\ TasksRight'
    BY <1>4, Still DEF vars, loops
  <2>2. EndRight'
    BY <1>4 DEF IInv, EndRight, vars, Occupied
  <2>3. Flat'
    BY <1>4 DEF IInv, TypeOK, Flat, vars
  <2>4. QED
    BY <2>1, <2>2, <2>3, TypeStep DEF IInv
<1>5. QED
  BY <1>1, <1>2, <1>3, <1>4 DEF Next

LEMMA FramesSeen == TypeOK => \A t \in Threads : InFrames(t) = InSeq(stack[t])
<1> SUFFICES ASSUME TypeOK, NEW t \in Threads PROVE InFrames(t) = InSeq(stack[t])
  OBVIOUS
<1>1. stack[t] \in Seq(Frames)
  BY DEF TypeOK
<1>2. DOMAIN stack[t] = 1..Len(stack[t])
  BY <1>1
<1>3. QED
  BY <1>2 DEF InFrames, InSeq

LEMMA LoopsHold == IInv => LoopInv
<1> SUFFICES ASSUME IInv PROVE LoopInv
  OBVIOUS
<1>1. \A t \in Threads : InFrames(t) = InSeq(stack[t])
  BY FramesSeen DEF IInv
<1>2. \A j : HasLoop(j) => InLoop(j)
  BY <1>1 DEF HasLoop, InLoop, Busy
<1>3. NoUseAfterReturn
  <2> SUFFICES ASSUME NEW w \in Threads, NEW f \in InFrames(w), f.fn = "job" PROVE InLoop(f.job)
    BY DEF NoUseAfterReturn
  <2>1. f \in Busy(stack[w])
    BY <1>1 DEF Busy
  <2>2. HasLoop(f.job)
    BY <2>1 DEF IInv, LoopsRight
  <2>3. QED
    BY <1>2, <2>2
<1>4. LoopIsComplete
  BY <1>2 DEF IInv, LoopsRight, LoopIsComplete
<1>5. QED
  BY <1>3, <1>4 DEF LoopInv

LEMMA TasksHold == IInv => TaskInv
<1> SUFFICES ASSUME IInv PROVE TaskInv
  OBVIOUS
<1>1. ASSUME gone, \A t \in Threads : stack[t] = <<>> PROVE Submitted \subseteq Finished
  <2>1. \A t \in Threads : Busy(stack[t]) = {} /\ Base(stack[t]) = "none"
    BY <1>1 DEF Busy, InSeq, Base
  <2>2. \A k, a : ~HasTask(k, a)
    BY <2>1 DEF HasTask
  <2>3. ~Occupied
    BY <2>1 DEF Occupied, Threads
  <2>4. queue = {}
    BY <1>1, <2>3 DEF IInv, EndRight
  <2>5. \A k \in Tasks : state[k] \notin {"queued", "running"}
    BY <2>2, <2>4 DEF IInv, TasksRight
  <2>6. \A k \in Tasks : state[k] \in {"none", "queued", "running", "ran", "skipped"}
    BY DEF IInv, TypeOK
  <2>7. QED
    BY <2>5, <2>6 DEF Submitted, Finished
<1>2. QED
  BY <1>1 DEF TaskInv, DestructorDrains, IInv

\* With no task queued or run by a worker, in a pool with workers, all are finished.
LEMMA IdleIsFinished ==
  ASSUME IInv, workers # {}, queue = {}, running = 0
  PROVE  Submitted \subseteq Finished
<1>1. InTask = {}
  <2>1. IsFiniteSet(InTask) /\ Cardinality(InTask) = 0
    BY ThreadsFinite, FS_Subset DEF InTask, IInv, Counted
  <2>2. QED
    BY <2>1, FS_EmptySet
<1>2. \A k, a : ~HasTask(k, a)
  <2> SUFFICES ASSUME NEW t \in Threads, NEW f \in Busy(stack[t]), f.fn = "task" PROVE FALSE
    BY DEF HasTask
  <2>1. (t \in Workers => Base(stack[t]) = "task") /\ (t \notin Workers => workers = {})
    BY FrameBase DEF IInv, Busy
  <2>2. QED
    BY <1>1, <2>1 DEF InTask
<1>3. \A k \in Tasks : state[k] \notin {"queued", "running"}
  BY <1>2 DEF IInv, TasksRight
<1>4. \A k \in Tasks : state[k] \in {"none", "queued", "running", "ran", "skipped"}
  BY DEF IInv, TypeOK
<1>5. QED
  BY <1>3, <1>4 DEF Submitted, Finished

\* No step of another thread empties a stack.
LEMMA OthersStay ==
  ASSUME TypeOK, NEW c \in Threads, stack[c] # <<>>, NEW t \in Threads, t # c,
         \E s : LET st == [stack EXCEPT ![t] = s] IN stack' = st \/ stack' = WakeIdle(st)
  PROVE  stack'[c] # <<>>
<1>1. PICK s : LET st == [stack EXCEPT ![t] = s] IN stack' = st \/ stack' = WakeIdle(st)
  OBVIOUS
<1> DEFINE st == [stack EXCEPT ![t] = s]
<1>2. st[c] = stack[c] /\ stack[c] \in Seq(Frames)
  BY DEF TypeOK
<1>3. CASE stack' = st
  BY <1>2, <1>3
<1>4. CASE stack' = WakeIdle(st)
  <2> HIDE DEF st
  <2>1. stack'[c] = WakeSeq(stack[c])
    BY <1>2, <1>4 DEF WakeIdle, WakeSeq
  <2>2. QED
    BY <1>2, <2>1, WakeFacts
<1>5. QED
  BY <1>1, <1>3, <1>4

Changes(t) == \E s : LET st == [stack EXCEPT ![t] = s] IN stack' = st \/ stack' = WakeIdle(st)

LEMMA StepsChange ==
  ASSUME NEW t \in Threads, Run(t) \/ Use(t)
  PROVE  Changes(t) \/ stack' = stack
<1>1. \A f : Push(t, f) => Changes(t)
  BY DEF Push, Changes
<1>2. Pop(t) => Changes(t)
  BY DEF Pop, Changes
<1>3. \A a : Goto(t, a) => Changes(t)
  BY DEF Goto, Changes
<1>4. \A q, inner, outer : DrainInline(t, q, inner, outer) => Changes(t)
  <2> SUFFICES ASSUME NEW q, NEW inner, NEW outer, DrainInline(t, q, inner, outer) PROVE Changes(t)
    OBVIOUS
  <2>1. CASE stack' = WakeIdle([stack EXCEPT ![t] = outer])
    BY <2>1 DEF Changes
  <2>2. CASE \E k \in q : stack' = [stack EXCEPT ![t] = <<[Frame("task", "start") EXCEPT !.task = k]>> \o inner]
    BY <2>2 DEF Changes
  <2>3. QED
    BY <2>1, <2>2 DEF DrainInline
<1>5. AfterTask(t) => Changes(t)
  BY DEF AfterTask, Changes
<1>6. Sleep(t) \/ Exit(t) => stack' = stack
  BY DEF Sleep, Exit
<1>7. ASSUME Run(t) PROVE Changes(t) \/ stack' = stack
  <2>1. NotifyAll(t) \/ TakeChunk(t) \/ EndChunk(t) \/ NoChunkLeft(t) \/ LeaveJob(t) \/ AllDone(t) \/ Return(t) => Changes(t)
    BY <1>2, <1>3 DEF NotifyAll, TakeChunk, EndChunk, NoChunkLeft, LeaveJob, AllDone, Return
  <2>2. NotifyOne(t) \/ StartTask(t) \/ EndTask(t) \/ AfterInline(t) \/ CheckIdle(t) => Changes(t)
    BY <1>2, <1>3, <1>4 DEF NotifyOne, StartTask, EndTask, AfterInline, CheckIdle
  <2>3. TakeTask(t) \/ TakeJob(t) \/ SetStop(t) \/ NotifyStop(t) \/ Join(t) => Changes(t)
    BY <1>1, <1>2, <1>3 DEF TakeTask, TakeJob, SetStop, NotifyStop, Join
  <2>4. QED
    BY <1>5, <1>6, <1>7, <2>1, <2>2, <2>3 DEF Run
<1>8. ASSUME Use(t) PROVE Changes(t)
  BY <1>1, <1>4, <1>8 DEF Use, ParallelFor, WaitIdle, Destroy, Submit
<1>9. QED
  BY <1>7, <1>8

LEMMA OnlyCheckIdleLeaves ==
  ASSUME IInv, NEW c \in Callers, In(c, "wait_idle", "check"), Next, stack'[c] = <<>>
  PROVE  CheckIdle(c)
<1>1. /\ TypeOK /\ c \in Threads /\ c \notin Workers /\ stack[c] # <<>>
      /\ Head(stack[c]).fn = "wait_idle" /\ Head(stack[c]).at = "check" /\ workers \subseteq Workers
  BY TaskPoolAssumption DEF IInv, In, Threads, TypeOK, Workers
<1>2. stack' # stack
  BY <1>1
<1>3. ASSUME NEW t \in Threads, Run(t) \/ Use(t) PROVE t = c
  <2>1. Changes(t)
    BY <1>2, <1>3, StepsChange
  <2>2. QED
    BY <1>1, <2>1, OthersStay DEF Changes
<1>4. Run(c) \/ Use(c)
  <2>1. \A k \in Tasks : ~RequestStop(k)
    BY <1>2 DEF RequestStop
  <2>2. QED
    BY <1>3, <2>1 DEF Next
<1>5. ~Calls(c) /\ ~Nests(c) /\ ~AtLoop(c) /\ ~(\A d \in Callers : stack[d] = <<>>)
  BY <1>1 DEF Calls, Nests, AtLoop, In, Top
<1>6. ~Use(c)
  BY <1>5 DEF Use, ParallelFor, WaitIdle, Destroy, Submit
<1>7. \A fn, at : In(c, fn, at) => fn = "wait_idle" /\ at = "check"
  BY <1>1 DEF In
<1>8. ~(NotifyAll(c) \/ TakeChunk(c) \/ EndChunk(c) \/ NoChunkLeft(c) \/ LeaveJob(c) \/ AllDone(c) \/ Return(c))
  BY <1>7 DEF NotifyAll, TakeChunk, EndChunk, NoChunkLeft, LeaveJob, AllDone, Return
<1>9. ~(NotifyOne(c) \/ StartTask(c) \/ EndTask(c) \/ AfterTask(c) \/ AfterInline(c))
  BY <1>7 DEF NotifyOne, StartTask, EndTask, AfterTask, AfterInline
<1>10. ~(TakeTask(c) \/ TakeJob(c) \/ Sleep(c) \/ Exit(c) \/ SetStop(c) \/ NotifyStop(c) \/ Join(c))
  BY <1>5, <1>7 DEF TakeTask, TakeJob, Sleep, Exit, SetStop, NotifyStop, Join
<1>11. QED
  BY <1>4, <1>6, <1>8, <1>9, <1>10 DEF Run

LEMMA IdleStep ==
  ASSUME IInv, [Next]_vars, NEW c \in Callers, workers # {}, In(c, "wait_idle", "check"), stack'[c] = <<>>
  PROVE  Top(c).owed \subseteq Finished
<1>1. TypeOK /\ StacksRight /\ c \in Threads /\ stack[c] # <<>>
  BY DEF IInv, In, Threads
<1>2. CheckIdle(c)
  <2>1. ~UNCHANGED vars
    BY <1>1 DEF vars
  <2>2. QED
    BY <2>1, OnlyCheckIdleLeaves
<1>3. ~Goto(c, "wait")
  <2> SUFFICES ASSUME Goto(c, "wait") PROVE FALSE
    OBVIOUS
  <2>1. stack[c] \in Seq(Frames)
    BY <1>1 DEF TypeOK
  <2>2. stack'[c] = [stack[c] EXCEPT ![1].at = "wait"]
    BY <1>1 DEF Goto, TypeOK
  <2>3. \A s \in Seq(Frames) : s # <<>> => [s EXCEPT ![1].at = "wait"] # <<>>
    <3>1. "wait" \in Ats
      BY DEF Ats
    <3>2. \A s \in Seq(Frames) : s # <<>> => TopMovedTo(s, "wait") # <<>>
      BY <3>1, GotoFacts
    <3>3. QED
      BY <3>2 DEF TopMovedTo
  <2>4. QED
    BY <1>1, <2>1, <2>2, <2>3
<1>4. queue = {} /\ running = 0
  BY <1>2, <1>3 DEF CheckIdle
<1>5. Submitted \subseteq Finished
  BY <1>4, IdleIsFinished
<1>6. Top(c).owed \subseteq Submitted
  <2>1. Top(c) \in Frames /\ FrameRight(Top(c))
    BY <1>1, TopFacts
  <2>2. QED
    BY <2>1 DEF FrameRight
<1>7. QED
  BY <1>5, <1>6

\* The invariant the others follow from.
LEMMA Holds == Spec => []IInv
BY InitRight, NextKeeps, PTL DEF Spec

\* When the destructor of a pool has returned no task is left, neither queued nor
\* half done, for any threads, tasks and loops and any nesting.
THEOREM NothingLeftBehind == Spec => []TaskInv
BY Holds, TasksHold, PTL

\* A worker is in the body of a loop only while the caller's parallel_for, on whose
\* stack the loop lives, has not returned; and when it has, every chunk was handed
\* out and finished exactly once.
THEOREM LoopsAreSafe == Spec => []LoopInv
BY Holds, LoopsHold, PTL

\* In a pool with workers wait_idle returns only when every task that was queued
\* before it was called has run or was skipped.
THEOREM WaitIdleSeesAll == Spec => IdleMeansFinished
<1>1. IInv /\ [Next]_vars => [\A c \in Callers :
         workers # {} /\ In(c, "wait_idle", "check") /\ stack'[c] = <<>> => Top(c).owed \subseteq Finished]_vars
  BY IdleStep
<1>2. QED
  BY Holds, <1>1, PTL DEF Spec, IdleMeansFinished
=============================================================================
