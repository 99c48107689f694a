--------------------------- MODULE ClassifyProofs ----------------------------
(***************************************************************************)
(* Proofs about the two components of classify: CyphaObject, for any set   *)
(* of paths, any of them saved to, and any number of steps; and            *)
(* FederatedCoordinator, for any number of workers, requests and runs.     *)
(***************************************************************************)
EXTENDS CyphaObject, FederatedCoordinator, FiniteSetTheorems, TLAPS

\* An object no model was loaded into has learned nothing.
EmptyUntilLoaded == ~Loaded(obj) => \A q \in Parts : obj[q].by = {}

\* A file holds a loaded object as it behaved, without a kernel it does not use ...
FileIsBehaviour(f) ==
  /\ Loaded(f.parts) /\ f.of = f.parts
  /\ ~f.use => f.parts["kernel"] = Default

\* ... and one of format 1 the weights of its own model and nothing else.
FileIsOld(f, p) == f.format = 1 => /\ ~f.use /\ ~f.mixed
                                   /\ f.parts["weights"] = [by |-> {p}, at |-> 0]
                                   /\ \A q \in Parts \ {"weights"} : f.parts[q] = Default

FilesAreSound == \A p \in Paths : files[p] # Torn => FileIsBehaviour(files[p]) /\ FileIsOld(files[p], p)

IInv == TypeOK /\ EmptyUntilLoaded /\ FilesAreSound /\ ModelsStayApart

-----------------------------------------------------------------------------
(* What each operator leaves of an object *)

LEMMA ValueFacts ==
  /\ Default \in Value /\ FromJson \in Value /\ Default.by = {} /\ FromJson.by = {}
  /\ New \in Objects /\ \A q \in Parts : New[q] = Default
BY ObjectAssumption DEF Default, FromJson, Value, New, Objects

LEMMA PartsAre ==
  /\ \A q \in {"weights", "totals", "kernel", "hparams", "gh", "enc", "replay",
               "session", "ewc", "ood", "head"} : q \in Parts
BY DEF Parts

\* A file is torn or it has the parts of an object.
LEMMA FileCases ==
  ASSUME TypeOK, NEW p \in Paths, files[p] # Torn
  PROVE  files[p] \in Files
BY DEF TypeOK

\* Learning a row changes parts to a value learned from what was read.
LearntAt(o, S, R, n) ==
  [q \in Parts |-> IF q \in S THEN [by |-> UNION {o[r].by : r \in S \cup R}, at |-> n] ELSE o[q]]

LEMMA LearntFacts ==
  ASSUME NEW o \in Objects, NEW S \in SUBSET Parts, NEW R \in SUBSET Parts, NEW n \in 0..MaxSteps + 1
  PROVE  /\ LearntAt(o, S, R, n) \in Objects
         /\ \A p : (\A q \in Parts : o[q].by \subseteq {p})
                     => \A q \in Parts : LearntAt(o, S, R, n)[q].by \subseteq {p}
         /\ \A q \in Parts : o[q].by \subseteq LearntAt(o, S, R, n)[q].by
<1>1. ASSUME NEW q \in Parts PROVE LearntAt(o, S, R, n)[q] \in Value
  <2>1. o[q] \in Value /\ \A r \in S \cup R : o[r].by \subseteq Paths
    BY DEF Objects, Value
  <2>2. UNION {o[r].by : r \in S \cup R} \subseteq Paths
    BY <2>1
  <2>3. QED
    BY <2>1, <2>2 DEF LearntAt, Value
<1>2. LearntAt(o, S, R, n) \in Objects
  BY <1>1 DEF LearntAt, Objects
<1>3. ASSUME NEW p, \A q \in Parts : o[q].by \subseteq {p}, NEW q \in Parts
      PROVE  LearntAt(o, S, R, n)[q].by \subseteq {p}
  BY <1>3 DEF LearntAt
<1>4. ASSUME NEW q \in Parts PROVE o[q].by \subseteq LearntAt(o, S, R, n)[q].by
  BY DEF LearntAt
<1>5. QED
  BY <1>2, <1>3, <1>4

LEMMA ClearedFacts ==
  ASSUME NEW o \in Objects
  PROVE  /\ Cleared(o) \in Objects
         /\ \A q \in {"hparams", "ood", "head"} : Cleared(o)[q] = Default
         /\ \A q \in Parts \ {"hparams", "ood", "head"} : Cleared(o)[q] = o[q]
BY ValueFacts DEF Cleared, Objects, Parts

LEMMA WithWeightsFacts ==
  ASSUME NEW o \in Objects, NEW f \in Files
  PROVE  /\ WithWeights(o, f) \in Objects
         /\ WithWeights(o, f)["weights"] = f.parts["weights"]
         /\ WithWeights(o, f)["totals"].by = f.parts["weights"].by
         /\ WithWeights(o, f)["kernel"] = IF f.use THEN f.parts["kernel"] ELSE Default
         /\ \A q \in Parts \ {"weights", "totals", "kernel"} : WithWeights(o, f)[q] = o[q]
<1>1. f.parts["weights"] \in Value /\ f.parts["kernel"] \in Value
  BY PartsAre DEF Files, Objects
<1>2. [f.parts["weights"] EXCEPT !.at = 0] \in Value /\ [f.parts["weights"] EXCEPT !.at = 0].by = f.parts["weights"].by
  BY <1>1, ObjectAssumption DEF Value
<1>3. QED
  BY <1>1, <1>2, ValueFacts, PartsAre DEF WithWeights, Objects

LEMMA WithHparamsFacts ==
  ASSUME NEW o \in Objects, NEW f \in Files, NEW json \in BOOLEAN
  PROVE  /\ WithHparams(o, f, json) \in Objects
         /\ WithHparams(o, f, json)["hparams"].by
              = IF f.format = 2 THEN f.parts["hparams"].by ELSE o["hparams"].by
         /\ ~json => WithHparams(o, f, json)["hparams"]
                       = IF f.format = 2 THEN f.parts["hparams"] ELSE o["hparams"]
         /\ \A q \in Parts \ {"hparams"} : WithHparams(o, f, json)[q] = o[q]
<1> DEFINE saved == IF f.format = 2 THEN f.parts["hparams"] ELSE o["hparams"]
<1>1. saved \in Value
  BY PartsAre DEF Files, Objects
<1>2. [saved EXCEPT !.at = FromJson.at] \in Value /\ [saved EXCEPT !.at = FromJson.at].by = saved.by
  BY <1>1, ObjectAssumption DEF Value, FromJson
<1>3. QED
  BY <1>1, <1>2, PartsAre DEF WithHparams, Objects

Restarted == {"gh", "enc", "replay"}
Saved == {"gh", "totals", "enc", "session", "ood", "replay", "ewc"}

LEMMA WithStateFacts ==
  ASSUME NEW o \in Objects, NEW f \in Files
  PROVE  /\ WithState(o, f) \in Objects
         /\ f.format = 1 => \A q \in Parts :
              WithState(o, f)[q] = IF q \in Restarted THEN Default ELSE o[q]
         /\ f.format = 2 => \A q \in Parts :
              WithState(o, f)[q] = IF q \in Saved THEN f.parts[q] ELSE o[q]
<1>1. /\ Freshened(o) \in Objects
      /\ \A q \in Parts : Freshened(o)[q] = IF q \in Restarted THEN Default ELSE o[q]
  BY ValueFacts DEF Freshened, Restarted, Objects
<1>2. /\ WithSavedState(Freshened(o), f) \in Objects
      /\ \A q \in Parts : WithSavedState(Freshened(o), f)[q] = IF q \in Saved THEN f.parts[q] ELSE Freshened(o)[q]
  BY <1>1 DEF WithSavedState, Saved, Objects, Files
<1>3. Restarted \subseteq Saved
  BY DEF Restarted, Saved
<1>4. QED
  BY <1>1, <1>2, <1>3 DEF WithState

LEMMA WithHeadFacts ==
  ASSUME NEW o \in Objects, NEW f \in Files, NEW head \in Heads
  PROVE  /\ WithHead(o, f, head) \in Objects
         /\ \/ WithHead(o, f, head)["head"] \in {FromJson, Default}
            \/ f.format = 2 /\ WithHead(o, f, head)["head"] = f.parts["head"]
         /\ f.format = 2 /\ (head = "none" \/ (head = "beside" /\ f.parts["head"] # Default))
              => WithHead(o, f, head)["head"] = f.parts["head"]
         /\ \A q \in Parts \ {"head"} : WithHead(o, f, head)[q] = o[q]
<1>1. f.parts["head"] \in Value
  BY PartsAre DEF Files, Objects
<1>2. QED
  BY <1>1, ValueFacts, PartsAre DEF WithHead, Objects, Heads

-----------------------------------------------------------------------------
(* The object after a whole load, and after one that stopped half way *)

\* A load that succeeds, part by part.
LEMMA AfterLoad ==
  ASSUME IInv, NEW p \in Paths, NEW json \in BOOLEAN, NEW head \in Heads, LoadSucceeds(p, json, head)
  PROVE  LET f == files[p] IN
         /\ obj' \in Objects /\ Loaded(obj)'
         /\ \A q \in Parts \ {"session", "ewc"} : obj'[q].by \subseteq f.parts[q].by \cup f.parts["weights"].by
         /\ f.format = 1 => \A q \in {"session", "ewc"} : obj'[q] = obj[q]
         /\ f.format = 2 =>
              /\ \A q \in Parts \ {"hparams", "head"} : obj'[q] = f.of[q]
              /\ ~json => obj'["hparams"] = f.of["hparams"]
              /\ (head = "none" \/ (head = "beside" /\ f.of["head"] # Default)) => obj'["head"] = f.of["head"]
<1> DEFINE f == files[p]
           o1 == Cleared(obj)
           o2 == WithWeights(o1, f)
           o3 == WithHparams(o2, f, json)
           o4 == WithState(o3, f)
<1>1. f \in Files /\ FileIsBehaviour(f) /\ obj \in Objects
  BY FileCases DEF IInv, TypeOK, FilesAreSound, LoadSucceeds
<1>2. obj' = WithHead(o4, f, head)
  BY DEF LoadSucceeds
<1> HIDE DEF f
<1>3. /\ o1 \in Objects
      /\ \A q \in {"hparams", "ood", "head"} : o1[q] = Default
      /\ \A q \in Parts \ {"hparams", "ood", "head"} : o1[q] = obj[q]
  BY <1>1, ClearedFacts
<1> HIDE DEF o1
<1>4. /\ o2 \in Objects
      /\ o2["weights"] = f.parts["weights"]
      /\ o2["totals"].by = f.parts["weights"].by
      /\ o2["kernel"] = IF f.use THEN f.parts["kernel"] ELSE Default
      /\ \A q \in Parts \ {"weights", "totals", "kernel"} : o2[q] = o1[q]
  BY <1>1, <1>3, WithWeightsFacts
<1> HIDE DEF o2
<1>5. /\ o3 \in Objects
      /\ o3["hparams"].by = IF f.format = 2 THEN f.parts["hparams"].by ELSE o2["hparams"].by
      /\ ~json => o3["hparams"] = IF f.format = 2 THEN f.parts["hparams"] ELSE o2["hparams"]
      /\ \A q \in Parts \ {"hparams"} : o3[q] = o2[q]
  BY <1>1, <1>4, WithHparamsFacts
<1> HIDE DEF o3
<1>6. /\ o4 \in Objects
      /\ f.format = 1 => \A q \in Parts : o4[q] = IF q \in Restarted THEN Default ELSE o3[q]
      /\ f.format = 2 => \A q \in Parts : o4[q] = IF q \in Saved THEN f.parts[q] ELSE o3[q]
  BY <1>1, <1>5, WithStateFacts
<1> HIDE DEF o4
<1>7. /\ obj' \in Objects
      /\ \/ obj'["head"] \in {FromJson, Default}
         \/ f.format = 2 /\ obj'["head"] = f.parts["head"]
      /\ f.format = 2 /\ (head = "none" \/ (head = "beside" /\ f.parts["head"] # Default))
           => obj'["head"] = f.parts["head"]
      /\ \A q \in Parts \ {"head"} : obj'[q] = o4[q]
  BY <1>1, <1>2, <1>6, WithHeadFacts
<1>8. f.format \in {1, 2} /\ f.parts \in Objects
  BY <1>1 DEF Files
<1>9. \A q \in Parts : q \in {"weights", "totals", "kernel", "hparams", "session", "head", "ewc"} \/ q \in Restarted \/ q = "ood"
  BY DEF Parts, Restarted
<1>10. CASE f.format = 1
  <2>1. \A q \in Parts \ {"head"} : obj'[q] = IF q \in Restarted THEN Default ELSE o3[q]
    BY <1>6, <1>7, <1>10
  <2>2. obj'["weights"] = f.parts["weights"] /\ obj'["totals"].by = f.parts["weights"].by
    BY <1>4, <1>5, <2>1, PartsAre DEF Restarted
  <2>3. obj'["kernel"].by \subseteq f.parts["kernel"].by /\ obj'["hparams"].by = {} /\ obj'["ood"].by = {}
    BY <1>3, <1>4, <1>5, <1>10, <2>1, PartsAre, ValueFacts DEF Restarted
  <2>4. obj'["head"].by = {} /\ \A q \in Restarted : obj'[q].by = {}
    BY <1>7, <1>10, <2>1, ValueFacts, PartsAre DEF Restarted
  <2>5. \A q \in {"session", "ewc"} : obj'[q] = obj[q]
    BY <1>3, <1>4, <1>5, <2>1, PartsAre DEF Restarted
  <2>6. \A q \in Parts \ {"session", "ewc"} : obj'[q].by \subseteq f.parts[q].by \cup f.parts["weights"].by
    BY <1>9, <2>2, <2>3, <2>4
  <2>7. Loaded(obj)'
    BY <1>1, <2>2 DEF Loaded, FileIsBehaviour
  <2>8. QED
    BY <1>7, <1>10, <2>5, <2>6, <2>7 DEF f
<1>11. CASE f.format = 2
  <2>1. \A q \in Parts \ {"head"} : obj'[q] = IF q \in Saved THEN f.parts[q] ELSE o3[q]
    BY <1>6, <1>7, <1>11
  <2>2. \A q \in Parts \ {"hparams", "head"} : obj'[q] = f.parts[q]
    <3>1. obj'["weights"] = f.parts["weights"] /\ obj'["kernel"] = f.parts["kernel"]
      BY <1>1, <1>4, <1>5, <2>1, PartsAre DEF Saved, FileIsBehaviour
    <3>2. \A q \in Parts \ {"hparams", "head", "weights", "kernel"} : q \in Saved
      BY DEF Parts, Saved
    <3>3. QED
      BY <2>1, <3>1, <3>2
  <2>3. obj'["hparams"].by = f.parts["hparams"].by /\ (~json => obj'["hparams"] = f.parts["hparams"])
    BY <1>5, <1>11, <2>1, PartsAre DEF Saved
  <2>4. obj'["head"].by \subseteq f.parts["head"].by
    BY <1>7, ValueFacts
  <2>5. \A q \in Parts \ {"session", "ewc"} : obj'[q].by \subseteq f.parts[q].by \cup f.parts["weights"].by
    BY <2>2, <2>3, <2>4
  <2>6. Loaded(obj)'
    BY <1>1, <2>2, PartsAre DEF Loaded, FileIsBehaviour
  <2>7. f.of = f.parts
    BY <1>1 DEF FileIsBehaviour
  <2>8. QED
    BY <1>7, <1>11, <2>2, <2>3, <2>5, <2>6, <2>7 DEF f
<1>12. QED
  BY <1>8, <1>10, <1>11

\* A load that fails holds parts of the object and of the file, the rates of
\* neither perhaps, and the weights of one of them.
LEMMA AfterFailure ==
  ASSUME IInv, NEW p \in Paths, LoadFails(p)
  PROVE  LET f == files[p] IN
         /\ obj' \in Objects
         /\ \/ /\ UNCHANGED <<use, mixed>> /\ obj'["weights"] = obj["weights"]
               /\ \A q \in Parts : obj'[q].by \subseteq obj[q].by
            \/ /\ f # Torn /\ use' = f.use /\ mixed' = (mixed \/ f.mixed \/ Loaded(obj))
               /\ Loaded(obj)'
               /\ \A q \in Parts : obj'[q].by \subseteq obj[q].by \cup f.parts[q].by \cup f.parts["weights"].by
<1> DEFINE f == files[p]
           o1 == Cleared(obj)
           o2 == WithWeights(o1, f)
<1>1. obj \in Objects
  BY DEF IInv, TypeOK
<1>2. /\ o1 \in Objects
      /\ \A q \in {"hparams", "ood", "head"} : o1[q] = Default
      /\ \A q \in Parts \ {"hparams", "ood", "head"} : o1[q] = obj[q]
  BY <1>1, ClearedFacts
<1>3. \A q \in Parts : o1[q].by \subseteq obj[q].by
  BY <1>2, ValueFacts
<1>4. CASE obj' = o1 /\ UNCHANGED <<use, mixed>>
  BY <1>2, <1>3, <1>4, PartsAre
<1>5. ASSUME f # Torn, use' = f.use, mixed' = (mixed \/ f.mixed \/ Loaded(obj)),
             \/ obj' = o2
             \/ \E json \in BOOLEAN :
                  \/ obj' = WithHparams(o2, f, json)
                  \/ obj' = [WithState(WithHparams(o2, f, json), f) EXCEPT !["head"] = Default]
      PROVE  /\ obj' \in Objects /\ Loaded(obj)'
             /\ \A q \in Parts : obj'[q].by \subseteq obj[q].by \cup f.parts[q].by \cup f.parts["weights"].by
  <2>1. f \in Files /\ FileIsBehaviour(f)
    BY <1>5, FileCases DEF IInv, FilesAreSound
  <2> HIDE DEF f, o1
  <2>2. /\ o2 \in Objects /\ o2["weights"] = f.parts["weights"]
        /\ \A q \in Parts : o2[q].by \subseteq obj[q].by \cup f.parts[q].by \cup f.parts["weights"].by
    <3>1. /\ o2 \in Objects
          /\ o2["weights"] = f.parts["weights"]
          /\ o2["totals"].by = f.parts["weights"].by
          /\ o2["kernel"] = IF f.use THEN f.parts["kernel"] ELSE Default
          /\ \A q \in Parts \ {"weights", "totals", "kernel"} : o2[q] = o1[q]
      BY <1>2, <2>1, WithWeightsFacts
    <3> HIDE DEF o2
    <3>2. QED
      BY <1>3, <3>1, ValueFacts
  <2> HIDE DEF o2
  <2>3. ASSUME NEW json \in BOOLEAN
        PROVE  LET o3 == WithHparams(o2, f, json) IN
               /\ o3 \in Objects /\ o3["weights"] = f.parts["weights"]
               /\ \A q \in Parts : o3[q].by \subseteq obj[q].by \cup f.parts[q].by \cup f.parts["weights"].by
    <3> DEFINE o3 == WithHparams(o2, f, json)
    <3>1. /\ o3 \in Objects
          /\ o3["hparams"].by = IF f.format = 2 THEN f.parts["hparams"].by ELSE o2["hparams"].by
          /\ \A q \in Parts \ {"hparams"} : o3[q] = o2[q]
      BY <2>1, <2>2, WithHparamsFacts
    <3> HIDE DEF o3
    <3>2. QED
      BY <2>2, <3>1, PartsAre DEF o3
  <2>4. ASSUME NEW json \in BOOLEAN
        PROVE  LET o4 == WithState(WithHparams(o2, f, json), f) IN
               /\ o4 \in Objects /\ o4["weights"] = f.parts["weights"]
               /\ \A q \in Parts : o4[q].by \subseteq obj[q].by \cup f.parts[q].by \cup f.parts["weights"].by
    <3> DEFINE o3 == WithHparams(o2, f, json)
               o4 == WithState(o3, f)
    <3>1. /\ o3 \in Objects /\ o3["weights"] = f.parts["weights"]
          /\ \A q \in Parts : o3[q].by \subseteq obj[q].by \cup f.parts[q].by \cup f.parts["weights"].by
      BY <2>3
    <3> HIDE DEF o3
    <3>2. /\ o4 \in Objects
          /\ f.format = 1 => \A q \in Parts : o4[q] = IF q \in Restarted THEN Default ELSE o3[q]
          /\ f.format = 2 => \A q \in Parts : o4[q] = IF q \in Saved THEN f.parts[q] ELSE o3[q]
          /\ f.format \in {1, 2}
      BY <2>1, <3>1, WithStateFacts DEF Files
    <3> HIDE DEF o4
    <3>3. o4["weights"] = f.parts["weights"]
      BY <3>1, <3>2, PartsAre DEF Restarted, Saved
    <3>4. QED
      BY <3>1, <3>2, <3>3, ValueFacts DEF o3, o4
  <2>5. ASSUME NEW o4 \in Objects, o4["weights"] = f.parts["weights"],
               \A q \in Parts : o4[q].by \subseteq obj[q].by \cup f.parts[q].by \cup f.parts["weights"].by,
               obj' = [o4 EXCEPT !["head"] = Default]
        PROVE  /\ obj' \in Objects /\ obj'["weights"] = f.parts["weights"]
               /\ \A q \in Parts : obj'[q].by \subseteq obj[q].by \cup f.parts[q].by \cup f.parts["weights"].by
    BY <2>5, ValueFacts, PartsAre DEF Objects
  <2>6. /\ obj' \in Objects /\ obj'["weights"] = f.parts["weights"]
        /\ \A q \in Parts : obj'[q].by \subseteq obj[q].by \cup f.parts[q].by \cup f.parts["weights"].by
    BY <1>5, <2>2, <2>3, <2>4, <2>5
  <2>7. QED
    BY <2>1, <2>6 DEF Loaded, FileIsBehaviour
<1>6. QED
  BY <1>4, <1>5 DEF LoadFails

-----------------------------------------------------------------------------
(* The invariant *)

LEMMA InitInv == Init => IInv
<1> SUFFICES ASSUME Init PROVE IInv
  OBVIOUS
<1>1. ASSUME NEW p \in Paths
      PROVE  /\ files[p] \in Files /\ files[p] # Torn
             /\ FileIsBehaviour(files[p]) /\ FileIsOld(files[p], p)
             /\ \A q \in Parts : files[p].parts[q].by \subseteq {p}
  <2> DEFINE o == [New EXCEPT !["weights"].by = {p}]
  <2>1. /\ o \in Objects /\ o["weights"] = [by |-> {p}, at |-> 0]
        /\ \A q \in Parts \ {"weights"} : o[q] = Default
    <3>1. /\ New \in [Parts -> Value] /\ "weights" \in Parts /\ New["weights"] = [by |-> {}, at |-> 0]
      BY ValueFacts, PartsAre DEF Objects, Default
    <3>2. [by |-> {p}, at |-> 0] \in Value
      BY ObjectAssumption DEF Value
    <3>3. [New["weights"] EXCEPT !.by = {p}] = [by |-> {p}, at |-> 0]
      <4>1. New["weights"] = [by |-> {}, at |-> 0]
        BY <3>1
      <4>2. [[by |-> {}, at |-> 0] EXCEPT !.by = {p}] = [by |-> {p}, at |-> 0]
        OBVIOUS
      <4>3. QED
        BY <4>1, <4>2
    <3>4. o = [New EXCEPT !["weights"] = [New["weights"] EXCEPT !.by = {p}]]
      OBVIOUS
    <3>5. QED
      BY <3>1, <3>2, <3>3, <3>4, ValueFacts DEF Objects
  <2>2. files[p] = [format |-> 1, parts |-> o, use |-> FALSE, of |-> o, mixed |-> FALSE]
    BY DEF Init, OldFile
  <2> HIDE DEF o
  <2>3. files[p] \in Files
    BY <2>1, <2>2 DEF Files
  <2>4. files[p] # Torn
    BY <2>2 DEF Torn
  <2>5. FileIsBehaviour(files[p])
    BY <2>1, <2>2, PartsAre DEF FileIsBehaviour, Loaded
  <2>6. FileIsOld(files[p], p)
    BY <2>1, <2>2 DEF FileIsOld
  <2>7. \A q \in Parts : files[p].parts[q].by \subseteq {p}
    BY <2>1, <2>2, ValueFacts
  <2>8. QED
    BY <2>3, <2>4, <2>5, <2>6, <2>7
<1>2. TypeOK
  <2>1. files \in [Paths -> Files \cup {Torn}]
    BY <1>1 DEF Init
  <2>2. obj \in Objects /\ clock \in 0..MaxSteps
    BY ValueFacts, ObjectAssumption DEF Init
  <2>3. QED
    BY <2>1, <2>2, Zenon DEF Init, TypeOK
<1>3. EmptyUntilLoaded
  BY ValueFacts DEF Init, EmptyUntilLoaded
<1>4. FilesAreSound
  BY <1>1 DEF FilesAreSound
<1>5. ModelsStayApart
  BY <1>1, ValueFacts, ObjectAssumption DEF Init, ModelsStayApart, OfOneModel
<1>6. QED
  BY <1>2, <1>3, <1>4, <1>5 DEF IInv

\* A step that keeps the files and learns nothing from another model.
LEMMA LearningInv ==
  ASSUME IInv, UNCHANGED <<files, mixed>>, obj' \in Objects, use' \in BOOLEAN, clock' \in 0..MaxSteps,
         ~Loaded(obj)' => ~Loaded(obj),
         \A p : (\A q \in Parts : obj[q].by \subseteq {p}) => \A q \in Parts : obj'[q].by \subseteq {p},
         ~Loaded(obj) => \A q \in Parts : obj'[q].by = {}
  PROVE  IInv'
<1>1. TypeOK'
  BY DEF IInv, TypeOK
<1>2. EmptyUntilLoaded'
  BY DEF EmptyUntilLoaded
<1>3. FilesAreSound'
  BY DEF IInv, FilesAreSound
<1>4. ModelsStayApart'
  BY DEF IInv, ModelsStayApart, OfOneModel
<1>5. QED
  BY <1>1, <1>2, <1>3, <1>4 DEF IInv

LEMMA UpdateInv ==
  ASSUME IInv, NEW target \in BOOLEAN, NEW gate \in BOOLEAN, NEW snapshot \in BOOLEAN,
         Update(target, gate, snapshot)
  PROVE  IInv'
<1> DEFINE before == IF snapshot
                     THEN [obj EXCEPT !["ewc"] = [by |-> obj["weights"].by, at |-> clock + 1]]
                     ELSE obj
           touched == {"weights", "totals", "enc", "replay", "session"}
                      \cup (IF use THEN {"kernel"} ELSE {})
                      \cup (IF target THEN {"head"} ELSE IF gate THEN {"gh"} ELSE {})
                      \cup (IF target \/ obj["head"] # Default THEN {} ELSE {"ood"})
           steering == {"hparams", "ewc"}
<1>1. /\ obj \in Objects /\ clock \in Nat /\ clock < MaxSteps /\ clock' = clock + 1 /\ clock' \in 0..MaxSteps
      /\ Loaded(obj) /\ use' = use /\ use' \in BOOLEAN /\ UNCHANGED <<files, mixed>>
      /\ obj' = LearntAt(before, touched, steering, clock + 1)
  BY ObjectAssumption DEF Update, Tick, IInv, TypeOK, Learnt, LearntAt
<1>2. touched \in SUBSET Parts /\ steering \in SUBSET Parts
  BY PartsAre
<1> HIDE DEF touched, steering
<1>3. [by |-> obj["weights"].by, at |-> clock + 1] \in Value
  BY <1>1, PartsAre, ObjectAssumption DEF Objects, Value
<1>4. before \in Objects
  BY <1>1, <1>3, PartsAre DEF Objects
<1>5. \A q \in Parts : before[q].by \subseteq obj[q].by \cup obj["weights"].by
  BY <1>1, PartsAre DEF Objects
<1>6. before["weights"] = obj["weights"]
  BY <1>1, PartsAre DEF Objects
<1> HIDE DEF before
<1>7. /\ obj' \in Objects
      /\ \A p : (\A q \in Parts : before[q].by \subseteq {p}) => \A q \in Parts : obj'[q].by \subseteq {p}
      /\ \A q \in Parts : before[q].by \subseteq obj'[q].by
  <2>1. clock + 1 \in 0..MaxSteps + 1
    BY <1>1, ObjectAssumption
  <2> DEFINE n == clock + 1
             learnt == LearntAt(before, touched, steering, n)
  <2>2. n \in 0..MaxSteps + 1 /\ obj' = learnt
    BY <1>1, <2>1
  <2> HIDE DEF n
  <2>3. learnt \in Objects
    BY <1>2, <1>4, <2>2, LearntFacts
  <2>4. \A p : (\A q \in Parts : before[q].by \subseteq {p}) => \A q \in Parts : learnt[q].by \subseteq {p}
    BY <1>2, <1>4, <2>2, LearntFacts
  <2>5. \A q \in Parts : before[q].by \subseteq learnt[q].by
    BY <1>2, <1>4, <2>2, LearntFacts
  <2> HIDE DEF learnt
  <2>6. QED
    BY <2>2, <2>3, <2>4, <2>5
<1>8. \A p : (\A q \in Parts : obj[q].by \subseteq {p}) => \A q \in Parts : before[q].by \subseteq {p}
  BY <1>5, PartsAre
<1>9. Loaded(obj)'
  BY <1>1, <1>6, <1>7, PartsAre DEF Loaded
<1>10. QED
  BY <1>1, <1>7, <1>8, <1>9, LearningInv

LEMMA PredictInv == IInv /\ Predict => IInv'
<1> SUFFICES ASSUME IInv, Predict PROVE IInv'
  OBVIOUS
<1> DEFINE kept == {"session"}
           read == {"weights"}
<1>1. /\ obj \in Objects /\ clock \in Nat /\ clock < MaxSteps /\ clock' \in 0..MaxSteps
      /\ Loaded(obj) /\ use' \in BOOLEAN /\ UNCHANGED <<files, mixed>>
      /\ obj' = LearntAt(obj, kept, read, clock + 1)
  BY ObjectAssumption DEF Predict, Tick, IInv, TypeOK, Learnt, LearntAt
<1>2. /\ obj' \in Objects
      /\ \A p : (\A q \in Parts : obj[q].by \subseteq {p}) => \A q \in Parts : obj'[q].by \subseteq {p}
      /\ \A q \in Parts : obj[q].by \subseteq obj'[q].by
  <2>1. kept \in SUBSET Parts /\ read \in SUBSET Parts
    BY PartsAre
  <2> HIDE DEF kept, read
  <2> DEFINE n == clock + 1
             learnt == LearntAt(obj, kept, read, n)
  <2>2. n \in 0..MaxSteps + 1 /\ obj' = learnt
    BY <1>1, ObjectAssumption
  <2> HIDE DEF n
  <2>0. obj \in Objects /\ n \in 0..MaxSteps + 1
    BY <1>1, <2>2
  <2>3. learnt \in Objects
    BY <2>0, <2>1, LearntFacts
  <2>4. ASSUME NEW p, \A q \in Parts : obj[q].by \subseteq {p}
        PROVE  \A q \in Parts : learnt[q].by \subseteq {p}
    BY <2>0, <2>1, <2>4, LearntFacts
  <2>5. \A q \in Parts : obj[q].by \subseteq learnt[q].by
    BY <2>0, <2>1, LearntFacts
  <2> HIDE DEF learnt
  <2>6. QED
    BY <2>2, <2>3, <2>4, <2>5
<1>3. Loaded(obj)'
  BY <1>1, <1>2, PartsAre DEF Loaded
<1>4. QED
  BY <1>1, <1>2, <1>3, LearningInv

LEMMA SettingsInv == IInv /\ (SetHparams \/ SetKernel) => IInv'
<1> SUFFICES ASSUME IInv, SetHparams \/ SetKernel PROVE IInv'
  OBVIOUS
<1>1. /\ obj \in Objects /\ clock \in Nat /\ clock < MaxSteps /\ clock' = clock + 1 /\ clock' \in 0..MaxSteps
      /\ use' \in BOOLEAN /\ UNCHANGED <<files, mixed>>
  <2>1. UNCHANGED <<files, mixed>> /\ Tick /\ use' \in BOOLEAN
    BY Zenon DEF SetHparams, SetKernel, IInv, TypeOK
  <2>2. QED
    BY <2>1, ObjectAssumption DEF Tick, IInv, TypeOK
<1>2. [by |-> {}, at |-> clock + 1] \in Value
  BY <1>1, ObjectAssumption DEF Value
<1>3. obj' \in Objects /\ obj'["weights"] = obj["weights"] /\ \A q \in Parts : obj'[q].by \subseteq obj[q].by
  <2>1. CASE SetHparams
    BY <1>1, <1>2, <2>1, PartsAre DEF SetHparams, Objects
  <2>2. CASE SetKernel
    <3>1. [obj["kernel"] EXCEPT !.at = clock + 1] \in Value
          /\ [obj["kernel"] EXCEPT !.at = clock + 1].by = obj["kernel"].by
      BY <1>1, PartsAre, ObjectAssumption DEF Objects, Value
    <3>2. QED
      BY <1>1, <2>2, <3>1, PartsAre DEF SetKernel, Objects
  <2>3. QED
    BY <2>1, <2>2
<1>4. Loaded(obj)' <=> Loaded(obj)
  BY <1>3 DEF Loaded
<1>5. ~Loaded(obj) => \A q \in Parts : obj'[q].by = {}
  BY <1>3 DEF IInv, EmptyUntilLoaded
<1>6. QED
  BY <1>1, <1>3, <1>4, <1>5, LearningInv

\* A new object, whatever is done to the files.
LEMMA NewObject == obj' = New => EmptyUntilLoaded' /\ OfOneModel(obj)'
BY ValueFacts, ObjectAssumption DEF EmptyUntilLoaded, OfOneModel

LEMMA RestartInv == IInv /\ Restart => IInv'
<1> SUFFICES ASSUME IInv, Restart PROVE IInv'
  OBVIOUS
<1>1. EmptyUntilLoaded' /\ OfOneModel(obj)'
  BY NewObject DEF Restart
<1>2. TypeOK' /\ FilesAreSound' /\ ModelsStayApart'
  BY <1>1, ValueFacts DEF Restart, IInv, TypeOK, FilesAreSound, ModelsStayApart
<1>3. QED
  BY <1>1, <1>2 DEF IInv

LEMMA SaveInv ==
  ASSUME IInv, NEW p \in Paths, Save(p)
  PROVE  IInv'
<1> DEFINE f == [format |-> 2, parts |-> Exported(obj), use |-> use, of |-> Behaviour(obj), mixed |-> mixed]
<1>1. /\ f \in Files /\ f # Torn /\ FileIsBehaviour(f) /\ FileIsOld(f, p)
      /\ ~f.mixed => OfOneModel(f.parts)
  <2>1. /\ Exported(obj) \in Objects /\ Behaviour(obj) = Exported(obj)
        /\ Exported(obj)["weights"] = obj["weights"]
        /\ ~use => Exported(obj)["kernel"] = Default
        /\ \A q \in Parts : Exported(obj)[q].by \subseteq obj[q].by
    BY ValueFacts, PartsAre DEF Exported, Behaviour, Objects, IInv, TypeOK
  <2>2. f \in Files
    BY <2>1 DEF Files, IInv, TypeOK
  <2>3. f # Torn
    BY DEF Torn
  <2>4. FileIsBehaviour(f) /\ FileIsOld(f, p)
    BY <2>1 DEF FileIsBehaviour, FileIsOld, Save, Loaded
  <2>5. ~f.mixed => OfOneModel(f.parts)
    BY <2>1 DEF IInv, ModelsStayApart, OfOneModel
  <2>6. QED
    BY <2>2, <2>3, <2>4, <2>5
<1> HIDE DEF f
<1>2. CASE files' = [files EXCEPT ![p] = f] /\ UNCHANGED <<obj, use, mixed>>
  <2>1. TypeOK' /\ EmptyUntilLoaded'
    BY <1>1, <1>2 DEF IInv, TypeOK, EmptyUntilLoaded, Save
  <2>2. FilesAreSound'
    BY <1>1, <1>2 DEF IInv, TypeOK, FilesAreSound
  <2>3. ModelsStayApart'
    BY <1>1, <1>2 DEF IInv, TypeOK, ModelsStayApart, OfOneModel
  <2>4. QED
    BY <2>1, <2>2, <2>3 DEF IInv
<1>3. CASE files' = [files EXCEPT ![p] = Torn] /\ (UNCHANGED <<obj, use, mixed>> \/ (obj' = New /\ use' = FALSE /\ mixed' = FALSE))
  <2>1. TypeOK' /\ EmptyUntilLoaded'
    BY <1>3, ValueFacts, NewObject DEF IInv, TypeOK, EmptyUntilLoaded, Save
  <2>2. FilesAreSound'
    BY <1>3 DEF IInv, TypeOK, FilesAreSound
  <2>3. ModelsStayApart'
    BY <1>3, NewObject DEF IInv, TypeOK, ModelsStayApart, OfOneModel
  <2>4. QED
    BY <2>1, <2>2, <2>3 DEF IInv
<1>4. QED
  BY <1>2, <1>3 DEF Save, f

LEMMA LoadFailsInv ==
  ASSUME IInv, NEW p \in Paths, LoadFails(p)
  PROVE  IInv'
<1> DEFINE f == files[p]
<1>1. UNCHANGED <<files, clock>> /\ use' \in BOOLEAN /\ mixed' \in BOOLEAN
  BY FileCases DEF LoadFails, IInv, TypeOK, Files
<1>2. FilesAreSound'
  BY <1>1 DEF IInv, FilesAreSound
<1>3. TypeOK'
  BY <1>1, AfterFailure DEF IInv, TypeOK
<1>4. CASE /\ UNCHANGED <<use, mixed>> /\ obj'["weights"] = obj["weights"]
           /\ \A q \in Parts : obj'[q].by \subseteq obj[q].by
  <2>1. EmptyUntilLoaded'
    BY <1>4 DEF IInv, EmptyUntilLoaded, Loaded
  <2>2. ModelsStayApart'
    BY <1>1, <1>4 DEF IInv, ModelsStayApart, OfOneModel
  <2>3. QED
    BY <1>2, <1>3, <2>1, <2>2 DEF IInv
<1>5. CASE /\ f # Torn /\ mixed' = (mixed \/ f.mixed \/ Loaded(obj)) /\ Loaded(obj)'
           /\ \A q \in Parts : obj'[q].by \subseteq obj[q].by \cup f.parts[q].by \cup f.parts["weights"].by
  <2>1. EmptyUntilLoaded'
    BY <1>5 DEF EmptyUntilLoaded
  <2>2. ~mixed' => OfOneModel(obj)'
    <3> SUFFICES ASSUME ~mixed' PROVE OfOneModel(obj)'
      OBVIOUS
    <3>1. \A q \in Parts : obj'[q].by \subseteq f.parts[q].by \cup f.parts["weights"].by
      BY <1>5 DEF IInv, EmptyUntilLoaded
    <3>2. PICK m \in Paths : \A q \in Parts : f.parts[q].by \subseteq {m}
      BY <1>5 DEF IInv, ModelsStayApart, OfOneModel
    <3>3. QED
      BY <3>1, <3>2, PartsAre DEF OfOneModel
  <2>3. ModelsStayApart'
    BY <1>1, <2>2 DEF IInv, ModelsStayApart
  <2>4. QED
    BY <1>2, <1>3, <2>1, <2>3 DEF IInv
<1>6. QED
  BY <1>4, <1>5, AfterFailure

LEMMA LoadSucceedsInv ==
  ASSUME IInv, NEW p \in Paths, NEW json \in BOOLEAN, NEW head \in Heads, LoadSucceeds(p, json, head)
  PROVE  IInv'
<1> DEFINE f == files[p]
<1>1. /\ UNCHANGED <<files, clock>> /\ f # Torn /\ f \in Files /\ use' = f.use
      /\ mixed' = IF f.format = 2 THEN f.mixed ELSE obj["session"] # Default \/ obj["ewc"] # Default
      /\ FileIsBehaviour(f) /\ FileIsOld(f, p)
  BY FileCases DEF LoadSucceeds, IInv, FilesAreSound
<1>2. /\ obj' \in Objects /\ Loaded(obj)'
      /\ \A q \in Parts \ {"session", "ewc"} : obj'[q].by \subseteq f.parts[q].by \cup f.parts["weights"].by
      /\ f.format = 1 => \A q \in {"session", "ewc"} : obj'[q] = obj[q]
      /\ f.format = 2 => \A q \in Parts \ {"hparams", "head"} : obj'[q] = f.of[q]
  BY AfterLoad
<1>3. TypeOK' /\ FilesAreSound' /\ EmptyUntilLoaded'
  BY <1>1, <1>2 DEF IInv, TypeOK, FilesAreSound, EmptyUntilLoaded, Files
<1>4. ~mixed' => OfOneModel(obj)'
  <2> SUFFICES ASSUME ~mixed' PROVE OfOneModel(obj)'
    OBVIOUS
  <2>1. CASE f.format = 1
    <3>1. \A q \in Parts : f.parts[q].by \subseteq {p}
      BY <1>1, <2>1, ValueFacts DEF FileIsOld
    <3>2. obj["session"] = Default /\ obj["ewc"] = Default
      <4>1. f.format # 2
        BY <2>1
      <4>2. QED
        BY <1>1, <4>1, Zenon
    <3>3. \A q \in {"session", "ewc"} : obj'[q].by = {}
      BY <1>2, <2>1, <3>2, ValueFacts
    <3>4. QED
      BY <1>2, <3>1, <3>3, PartsAre DEF OfOneModel
  <2>2. CASE f.format = 2
    <3>1. PICK m \in Paths : \A q \in Parts : f.parts[q].by \subseteq {m}
      BY <1>1, <2>2 DEF IInv, ModelsStayApart, OfOneModel
    <3>2. \A q \in Parts : obj'[q].by \subseteq {m}
      BY <1>1, <1>2, <2>2, <3>1, PartsAre DEF FileIsBehaviour
    <3>3. QED
      BY <3>2 DEF OfOneModel
  <2>3. QED
    BY <1>1, <2>1, <2>2 DEF Files
<1>5. ModelsStayApart'
  BY <1>1, <1>4 DEF IInv, ModelsStayApart
<1>6. QED
  BY <1>3, <1>5 DEF IInv

LEMMA StepInv == IInv /\ [Next]_vars => IInv'
<1> SUFFICES ASSUME IInv, [Next]_vars PROVE IInv'
  OBVIOUS
<1>1. CASE UNCHANGED vars
  BY <1>1 DEF vars, IInv, TypeOK, EmptyUntilLoaded, FilesAreSound, ModelsStayApart
<1>2. QED
  BY <1>1, UpdateInv, PredictInv, SettingsInv, RestartInv, SaveInv, LoadFailsInv, LoadSucceedsInv,
     ObjectAssumption DEF Next

LEMMA Inductive == Spec => []IInv
BY InitInv, StepInv, PTL DEF Spec

\* For any number of models, saves, failed loads and deaths: an object that was
\* not marked as mixed holds what one model has learned, and so does every file
\* saved from it (cypha.cpp load and save over a used object).
THEOREM ModelsApart == Spec => []ObjectInv
<1>1. IInv => ObjectInv
  BY DEF IInv, ObjectInv
<1>2. QED
  BY <1>1, Inductive, PTL

-----------------------------------------------------------------------------
(* Loading *)

LEMMA LoadStep ==
  ASSUME IInv
  PROVE  \A p \in Paths, json \in BOOLEAN, head \in Heads :
           LoadSucceeds(p, json, head) =>
             LET f == files[p] IN
             IF f.format = 1
             THEN \A q \in Parts \ {"session", "ewc"} : obj'[q].by \subseteq {p}
             ELSE /\ use' = f.use
                  /\ \A q \in Parts \ {"hparams", "head"} : obj'[q] = f.of[q]
                  /\ ~json => obj'["hparams"] = f.of["hparams"]
                  /\ (head = "none" \/ (head = "beside" /\ f.of["head"] # Default))
                     => obj'["head"] = f.of["head"]
<1> SUFFICES ASSUME NEW p \in Paths, NEW json \in BOOLEAN, NEW head \in Heads, LoadSucceeds(p, json, head)
             PROVE  LET f == files[p] IN
                    IF f.format = 1
                    THEN \A q \in Parts \ {"session", "ewc"} : obj'[q].by \subseteq {p}
                    ELSE /\ use' = f.use
                         /\ \A q \in Parts \ {"hparams", "head"} : obj'[q] = f.of[q]
                         /\ ~json => obj'["hparams"] = f.of["hparams"]
                         /\ (head = "none" \/ (head = "beside" /\ f.of["head"] # Default))
                            => obj'["head"] = f.of["head"]
  OBVIOUS
<1> DEFINE f == files[p]
<1>1. /\ f \in Files /\ use' = f.use /\ FileIsOld(f, p)
  BY FileCases DEF LoadSucceeds, IInv, FilesAreSound
<1>2. f.format = 1 => \A q \in Parts : f.parts[q].by \subseteq {p}
  BY <1>1, ValueFacts DEF FileIsOld
<1>3. CASE f.format = 1
  BY <1>2, <1>3, AfterLoad, PartsAre
<1>4. CASE f.format = 2
  BY <1>1, <1>4, AfterLoad
<1>5. QED
  BY <1>1, <1>3, <1>4 DEF Files

\* A load that succeeds gives back the object that was saved, whatever the loading
\* object was used for and whatever loads had failed on it before.
THEOREM LoadGivesBack == Spec => LoadRestores
<1> DEFINE Restores ==
      \A p \in Paths, json \in BOOLEAN, head \in Heads :
        LoadSucceeds(p, json, head) =>
          LET f == files[p] IN
          IF f.format = 1
          THEN \A q \in Parts \ {"session", "ewc"} : obj'[q].by \subseteq {p}
          ELSE /\ use' = f.use
               /\ \A q \in Parts \ {"hparams", "head"} : obj'[q] = f.of[q]
               /\ ~json => obj'["hparams"] = f.of["hparams"]
               /\ (head = "none" \/ (head = "beside" /\ f.of["head"] # Default))
                  => obj'["head"] = f.of["head"]
<1>1. IInv => [Restores]_vars
  BY LoadStep
<1>2. QED
  BY <1>1, Inductive, PTL DEF LoadRestores, Spec

-----------------------------------------------------------------------------
(* FederatedCoordinator: what an output, an exit code and an answer rest on *)

Distinct(s) == \A i, j \in 1..Len(s) : s[i] = s[j] => i = j

\* The payloads are of as many requests, and those of the last output are among
\* them; if there was one they are enough.
PayloadsRight ==
  /\ Distinct(payloads)
  /\ \A i \in 1..Len(payloads) : /\ payloads[i] \in Requests
                                 /\ pc[payloads[i]] \in {"merging", "writing", "200", "400"}
  /\ config.mode = "listen" =>
       merged <= Len(payloads) /\ (merged > 0 => Len(payloads) >= config.min)
  /\ config.mode = "watch" => payloads = <<>> /\ \A r \in Requests : pc[r] = "unsent"

\* Who merges or writes holds the mutex, and what it has parsed is what is kept.
MutexRight ==
  \A r \in Requests :
    /\ pc[r] \in {"merging", "writing"} => mu = r /\ Len(payloads) >= config.min
    /\ pc[r] = "writing" => took[r] = payloads /\ Mergeable(payloads)

\* The loop reads every file it listed once, and writes when all are read.
FilesRight ==
  /\ config.mode = "listen" => watch = Idle
  /\ Distinct(watch.took)
  /\ \A i \in 1..Len(watch.took) : watch.took[i] \in Workers \ watch.names
  /\ watch.at # "list" => Len(watch.took) + Cardinality(watch.names) >= config.min
  /\ watch.at = "write" => watch.names = {} /\ Mergeable(watch.took)

\* The output of a process that is done, or done but for its handlers, is whole
\* and of enough payloads, whose senders do not change any more.
OutGood == Written /\ Len(out.of) >= config.min /\ Mergeable(out.of)

OutRight ==
  /\ \A i \in 1..Len(out.of) : out.of[i] \in Requests => pc[out.of[i]] # "unsent"
  /\ proc = "exit 0" => OutGood
  /\ proc = "stopping" /\ (\A r \in Requests : pc[r] # "writing") => OutGood

FederatedIInv == /\ FederatedTypeOK /\ PayloadsRight /\ MutexRight /\ FilesRight
                 /\ OutRight /\ AckedIsInOutput /\ OnlyDeathLeavesItOpen

LEMMA FederatedPromised == FederatedIInv => FederatedInv
BY DEF FederatedIInv, FederatedInv, OutRight, OutGood, ExitZeroMeansMerged

LEMMA SourcesAre ==
  /\ MaxRequests \in Nat /\ Requests \subseteq Nat \ {0} /\ Workers \cap Requests = {}
  /\ IsFiniteSet(Workers) /\ Cardinality(Workers) \in Nat
  /\ IsFiniteSet(Requests) /\ Cardinality(Requests) = MaxRequests
  /\ Requests \subseteq Sources /\ Workers \subseteq Sources
<1>1. /\ MaxRequests \in Nat /\ Requests \subseteq Nat \ {0} /\ Workers \cap Requests = {}
      /\ IsFiniteSet(Workers)
  BY FederatedAssumption DEF Requests
<1>2. IsFiniteSet(Requests) /\ Cardinality(Requests) = MaxRequests
  BY <1>1, FS_Interval DEF Requests
<1>3. QED
  BY <1>1, <1>2, FS_CardinalityType DEF Sources

\* A list is a sequence no longer than there are senders.
LEMMA ListsAre ==
  /\ \A s \in Lists : s \in Seq(Sources)
  /\ \A s \in Seq(Sources) : Len(s) <= MaxRequests + Cardinality(Workers) => s \in Lists
<1>1. ASSUME NEW s \in Lists PROVE s \in Seq(Sources)
  <2>1. PICK n \in 0..(MaxRequests + Cardinality(Workers)) : s \in [1..n -> Sources]
    BY DEF Lists
  <2>2. QED
    BY <2>1, SourcesAre
<1>2. ASSUME NEW s \in Seq(Sources), Len(s) <= MaxRequests + Cardinality(Workers) PROVE s \in Lists
  <2>1. s \in [1..Len(s) -> Sources] /\ Len(s) \in 0..(MaxRequests + Cardinality(Workers))
    BY <1>2, SourcesAre
  <2>2. QED
    BY <2>1 DEF Lists
<1>3. QED
  BY <1>1, <1>2

\* So is one of distinct requests, or of distinct workers.
LEMMA ShortList ==
  ASSUME NEW T, T = Requests \/ T = Workers, NEW s \in Seq(Sources), Distinct(s),
         \A i \in 1..Len(s) : s[i] \in T
  PROVE  s \in Lists /\ Len(s) <= Cardinality(T)
<1>1. IsFiniteSet(T) /\ Cardinality(T) \in Nat /\ Cardinality(T) <= MaxRequests + Cardinality(Workers)
  BY SourcesAre
<1>2. s \in Injection(1..Len(s), T)
  <2>1. s \in [1..Len(s) -> T]
    OBVIOUS
  <2>2. \A i, j \in 1..Len(s) : s[i] = s[j] => i = j
    BY DEF Distinct
  <2>3. IsInjective(s)
    BY <2>1, <2>2 DEF IsInjective
  <2>4. QED
    BY <2>1, <2>3 DEF Injection
<1>3. Cardinality(1..Len(s)) <= Cardinality(T)
  BY <1>1, <1>2, FS_Injection
<1>4. Cardinality(1..Len(s)) = Len(s) /\ Len(s) \in Nat
  <2>1. Len(s) \in Nat
    OBVIOUS
  <2>2. PICK n \in Nat : n = Len(s)
    BY <2>1
  <2>3. Cardinality(1..n) = IF 1 > n THEN 0 ELSE n - 1 + 1
    BY FS_Interval
  <2>4. Cardinality(1..n) = n
    BY <2>3
  <2>5. QED
    BY <2>1, <2>2, <2>4
<1>5. QED
  BY <1>1, <1>3, <1>4, ListsAre, SourcesAre

LEMMA OneMore ==
  ASSUME NEW s \in Seq(Sources), Distinct(s), NEW x \in Sources, \A i \in 1..Len(s) : s[i] # x
  PROVE  /\ Append(s, x) \in Seq(Sources) /\ Len(Append(s, x)) = Len(s) + 1
         /\ Distinct(Append(s, x)) /\ Append(s, x)[Len(s) + 1] = x
         /\ \A i \in 1..Len(s) : Append(s, x)[i] = s[i]
<1>1. /\ Append(s, x) \in Seq(Sources) /\ Len(Append(s, x)) = Len(s) + 1 /\ Len(s) \in Nat
      /\ Append(s, x)[Len(s) + 1] = x /\ \A i \in 1..Len(s) : Append(s, x)[i] = s[i]
  OBVIOUS
<1>2. Distinct(Append(s, x))
  BY <1>1 DEF Distinct
<1>3. QED
  BY <1>1, <1>2

LEMMA NoList == <<>> \in Lists /\ Len(<<>>) = 0 /\ Distinct(<<>>)
<1>1. <<>> \in Seq(Sources) /\ Len(<<>>) = 0
  OBVIOUS
<1>2. <<>> \in Lists
  <2>1. 0 <= MaxRequests + Cardinality(Workers)
    BY SourcesAre
  <2>2. QED
    BY <1>1, <2>1, ListsAre
<1>3. QED
  BY <1>1, <1>2 DEF Distinct

LEMMA IdleIs == Idle \in [at: {"list", "read", "write"}, names: SUBSET Workers, took: Lists]
                /\ Idle.at = "list" /\ Idle.took = <<>>
BY NoList DEF Idle

LEMMA FederatedStart == FederatedInit => FederatedIInv
<1> SUFFICES ASSUME FederatedInit PROVE FederatedIInv
  OBVIOUS
<1>1. \A r \in Requests : pc[r] = "unsent"
  BY DEF FederatedInit
<1>2. FederatedTypeOK
  <2>1. from \in [Requests -> Workers]
    BY FederatedAssumption DEF FederatedInit
  <2>2. runs \in 1..MaxRuns /\ mu \in 0..MaxRequests
    BY FederatedAssumption DEF FederatedInit
  <2>3. out \in [is: Outputs, of: Lists] /\ took \in [Requests -> Lists]
    BY NoList DEF FederatedInit, Output, Outputs
  <2>4. QED
    BY <2>1, <2>2, <2>3, NoList, IdleIs DEF FederatedTypeOK, FederatedInit
<1>3. PayloadsRight
  BY <1>1, NoList DEF FederatedInit, PayloadsRight
<1>4. MutexRight
  BY <1>1 DEF MutexRight
<1>5. FilesRight
  BY IdleIs, NoList DEF FederatedInit, FilesRight
<1>6. OutRight
  BY NoList DEF FederatedInit, OutRight, Output
<1>7. AckedIsInOutput
  BY NoList DEF FederatedInit, AckedIsInOutput, Written
<1>8. OnlyDeathLeavesItOpen
  BY DEF FederatedInit, OnlyDeathLeavesItOpen, Output
<1>9. QED
  BY <1>2, <1>3, <1>4, <1>5, <1>6, <1>7, <1>8 DEF FederatedIInv

\* The types of the parts of the state, as the steps need them.
LEMMA FederatedTypes ==
  ASSUME FederatedTypeOK
  PROVE  /\ config.mode \in {"listen", "watch"} /\ config.min \in Nat /\ config.min > 0
         /\ config.min <= MaxMin
         /\ payloads \in Seq(Sources) /\ Len(payloads) \in Nat
         /\ watch.took \in Seq(Sources) /\ Len(watch.took) \in Nat
         /\ watch = [at |-> watch.at, names |-> watch.names, took |-> watch.took]
         /\ watch.at \in {"list", "read", "write"} /\ watch.names \in SUBSET Workers
         /\ out.is \in Outputs /\ out.of \in Seq(Sources)
         /\ merged \in Nat /\ IsFiniteSet(watch.names) /\ Cardinality(watch.names) \in Nat
<1>1. /\ config \in Configs /\ payloads \in Lists /\ merged \in Nat
      /\ watch \in [at: {"list", "read", "write"}, names: SUBSET Workers, took: Lists]
      /\ out \in [is: Outputs, of: Lists]
  BY DEF FederatedTypeOK
<1>2. /\ watch = [at |-> watch.at, names |-> watch.names, took |-> watch.took]
      /\ watch.at \in {"list", "read", "write"} /\ watch.names \in SUBSET Workers
      /\ watch.took \in Lists /\ out.is \in Outputs /\ out.of \in Lists
  BY <1>1
<1>3. config.mode \in {"listen", "watch"} /\ config.min \in 1..MaxMin
  BY <1>1 DEF Configs
<1>4. payloads \in Seq(Sources) /\ watch.took \in Seq(Sources) /\ out.of \in Seq(Sources)
  BY <1>1, <1>2, ListsAre
<1>5. Len(payloads) \in Nat /\ Len(watch.took) \in Nat
  BY <1>4
<1>6. IsFiniteSet(watch.names) /\ Cardinality(watch.names) \in Nat
  BY <1>2, SourcesAre, FS_Subset, FS_CardinalityType
<1>7. config.min \in Nat /\ config.min > 0 /\ config.min <= MaxMin
  BY <1>3, FederatedAssumption
<1>8. QED
  BY <1>1, <1>2, <1>3, <1>4, <1>5, <1>6, <1>7

-----------------------------------------------------------------------------
(* FederatedCoordinator: POST /submit *)

\* The payloads' own senders are settled: a request that is still unsent is in no list.
LEMMA ReceiveStep == ASSUME FederatedIInv, NEW w \in Workers, Receive(w) PROVE FederatedIInv'
<1>1. FederatedTypeOK /\ PayloadsRight /\ MutexRight /\ FilesRight /\ OutRight /\ AckedIsInOutput
  BY DEF FederatedIInv
<1>2. PICK r \in Requests :
        /\ pc[r] = "unsent" /\ from' = [from EXCEPT ![r] = w]
        /\ pc' = [pc EXCEPT ![r] = IF config.kind[w] = "text" THEN "400" ELSE "received"]
  BY DEF Receive
<1>3. /\ config.mode = "listen" /\ proc = "running"
      /\ UNCHANGED <<config, proc, runs, payloads, mu, took, file, watch, out, merged>>
  BY DEF Receive, loop
<1>4. /\ pc \in [Requests -> {"unsent", "received", "merging", "writing", "200", "400", "lost"}]
      /\ from \in [Requests -> Workers]
  BY <1>1 DEF FederatedTypeOK
<1>5. /\ pc' \in [Requests -> {"unsent", "received", "merging", "writing", "200", "400", "lost"}]
      /\ from' \in [Requests -> Workers] /\ pc'[r] \in {"400", "received"}
      /\ \A q \in Requests : q # r => pc'[q] = pc[q] /\ from'[q] = from[q]
  BY <1>2, <1>4
<1>6. FederatedTypeOK'
  BY <1>1, <1>3, <1>5 DEF FederatedTypeOK
<1>7. \A i \in 1..Len(payloads) : payloads[i] \in Requests /\ payloads[i] # r
  BY <1>1, <1>2 DEF PayloadsRight
<1>8. PayloadsRight'
  BY <1>1, <1>3, <1>5, <1>7 DEF PayloadsRight
<1>9. \A i \in 1..Len(payloads) : KindOf(payloads[i])' = KindOf(payloads[i])
  BY <1>3, <1>5, <1>7 DEF KindOf
<1>10. MutexRight'
  BY <1>1, <1>2, <1>3, <1>5, <1>9 DEF MutexRight, Mergeable, Dimensioned
<1>11. FilesRight'
  BY <1>1, <1>3, IdleIs DEF FilesRight
<1>12. OutRight'
  <2>1. \A i \in 1..Len(out.of) : out.of[i] # r
    BY <1>1, <1>2 DEF OutRight
  <2>2. QED
    BY <1>1, <1>3, <1>5, <2>1, FederatedTypes DEF OutRight, Sources
<1>13. AckedIsInOutput'
  <2>1. (\A q \in Requests : pc'[q] # "writing") => \A q \in Requests : pc[q] # "writing"
    BY <1>2, <1>5
  <2>2. \A i \in 1..Len(payloads) : pc'[payloads[i]] = pc[payloads[i]]
    BY <1>5, <1>7
  <2>3. QED
    BY <1>1, <1>3, <2>1, <2>2 DEF AckedIsInOutput, Written
<1>14. OnlyDeathLeavesItOpen'
  <2>1. \A q \in Requests : pc[q] = "writing" => pc'[q] = "writing"
    BY <1>2, <1>5
  <2>2. QED
    BY <1>3, <2>1 DEF FederatedIInv, OnlyDeathLeavesItOpen
<1>15. QED
  BY <1>6, <1>8, <1>10, <1>11, <1>12, <1>13, <1>14 DEF FederatedIInv

\* One more payload: the handler is answered, or has the mutex and enough of them.
LEMMA KeepStep == ASSUME FederatedIInv, NEW r \in Requests, Keep(r) PROVE FederatedIInv'
<1> DEFINE more == Append(payloads, r)
           here == Len(payloads) + 1
           answer == IF here < config.min THEN "200" ELSE "merging"
<1>1. FederatedTypeOK /\ PayloadsRight /\ MutexRight /\ FilesRight /\ OutRight /\ AckedIsInOutput
  BY DEF FederatedIInv
<1>2. /\ pc[r] = "received" /\ mu = 0 /\ proc \in {"running", "stopping"} /\ payloads' = more
      /\ UNCHANGED <<config, proc, runs, from, took, file, watch, out, merged>>
  BY DEF Keep, loop
<1>3. /\ pc \in [Requests -> {"unsent", "received", "merging", "writing", "200", "400", "lost"}]
      /\ payloads \in Seq(Sources) /\ Len(payloads) \in Nat /\ config.min \in Nat /\ merged \in Nat
      /\ config.mode \in {"listen", "watch"}
  BY <1>1, FederatedTypes DEF FederatedTypeOK
<1>4. \A i \in 1..Len(payloads) : payloads[i] \in Requests /\ payloads[i] # r
  BY <1>1, <1>2 DEF PayloadsRight
<1>5. /\ more \in Seq(Sources) /\ Len(more) = here /\ Distinct(more) /\ more[here] = r
      /\ \A i \in 1..Len(payloads) : more[i] = payloads[i]
  BY <1>1, <1>3, <1>4, OneMore, SourcesAre DEF PayloadsRight
<1>6. pc' = [pc EXCEPT ![r] = answer] /\ mu' = IF here < config.min THEN mu ELSE r
  BY <1>2, <1>5 DEF Keep
<1> HIDE DEF more
<1>7. \A i \in 1..here : more[i] \in Requests /\ (i # here => i \in 1..Len(payloads))
  BY <1>3, <1>4, <1>5
<1>8. more \in Lists
  BY <1>5, <1>7, ShortList
<1>9. /\ pc' \in [Requests -> {"unsent", "received", "merging", "writing", "200", "400", "lost"}]
      /\ pc'[r] \in {"200", "merging"} /\ \A q \in Requests : q # r => pc'[q] = pc[q]
      /\ (here < config.min => pc'[r] = "200") /\ (pc'[r] = "merging" => mu' = r /\ here >= config.min)
  BY <1>3, <1>6
<1>10. mu' \in 0..MaxRequests
  BY <1>1, <1>6 DEF FederatedTypeOK, Requests
<1>11. FederatedTypeOK'
  BY <1>1, <1>2, <1>8, <1>9, <1>10 DEF FederatedTypeOK
<1>12. config.mode = "listen"
  BY <1>1, <1>2, <1>3 DEF PayloadsRight
<1>13. PayloadsRight'
  <2>1. \A i \in 1..Len(more) : more[i] \in Requests /\ pc'[more[i]] \in {"merging", "writing", "200", "400"}
    <3> SUFFICES ASSUME NEW i \in 1..here
                 PROVE  pc'[more[i]] \in {"merging", "writing", "200", "400"}
      BY <1>5, <1>7
    <3>1. CASE i = here
      BY <1>5, <1>9, <3>1
    <3>2. CASE i # here
      BY <1>1, <1>4, <1>5, <1>7, <1>9, <3>2 DEF PayloadsRight
    <3>3. QED
      BY <3>1, <3>2
  <2>2. merged <= here /\ (merged > 0 => here >= config.min)
    BY <1>1, <1>3, <1>12 DEF PayloadsRight
  <2>3. QED
    BY <1>2, <1>5, <1>12, <2>1, <2>2 DEF PayloadsRight
<1>14. MutexRight'
  <2>1. \A q \in Requests : pc[q] \notin {"merging", "writing"}
    <3>1. \A q \in Requests : q # 0
      BY SourcesAre
    <3>2. QED
      BY <1>1, <1>2, <3>1 DEF MutexRight
  <2>2. \A q \in Requests : pc'[q] # "writing" /\ (pc'[q] = "merging" => q = r)
    BY <1>9, <2>1
  <2>3. QED
    BY <1>2, <1>5, <1>9, <2>2 DEF MutexRight
<1>15. FilesRight'
  BY <1>1, <1>2, <1>12 DEF FilesRight, Mergeable, Dimensioned, KindOf, Idle
<1>16. (\A q \in Requests : pc'[q] # "writing") => \A q \in Requests : pc[q] # "writing"
  BY <1>2, <1>9
<1>17. OutRight'
  <2>1. \A i \in 1..Len(out.of) : out.of[i] \in Requests => pc'[out.of[i]] # "unsent"
    BY <1>1, <1>9 DEF OutRight
  <2>2. OutGood => OutGood'
    BY <1>2 DEF OutGood, Written, Mergeable, Dimensioned, KindOf
  <2>3. QED
    BY <1>1, <1>2, <1>16, <2>1, <2>2 DEF OutRight
<1>18. AckedIsInOutput'
  <2> SUFFICES ASSUME \A q \in Requests : pc'[q] # "writing", NEW i \in 1..here,
                      pc'[more[i]] = "200", i >= config.min \/ merged > 0
               PROVE  Written /\ \E j \in 1..Len(out.of) : out.of[j] = more[i]
    BY <1>2, <1>5 DEF AckedIsInOutput, Written
  <2>1. i # here
    BY <1>1, <1>3, <1>5, <1>6, <1>9, <1>12 DEF PayloadsRight
  <2>2. i \in 1..Len(payloads) /\ more[i] = payloads[i] /\ pc[payloads[i]] = "200"
    BY <1>4, <1>5, <1>7, <1>9, <2>1
  <2>3. QED
    BY <1>1, <1>2, <1>16, <2>2 DEF AckedIsInOutput, Written
<1>19. OnlyDeathLeavesItOpen'
  <2>1. \A q \in Requests : pc[q] = "writing" => pc'[q] = "writing"
    BY <1>2, <1>9
  <2>2. QED
    BY <1>2, <2>1 DEF FederatedIInv, OnlyDeathLeavesItOpen
<1>20. QED
  BY <1>11, <1>13, <1>14, <1>15, <1>17, <1>18, <1>19 DEF FederatedIInv

\* The handlers that hold the mutex change nothing of the payloads; what a merge
\* has opened is written before the mutex goes.
LEMMA MergeStep == ASSUME FederatedIInv, NEW r \in Requests, Merge(r) PROVE FederatedIInv'
<1>1. FederatedTypeOK /\ PayloadsRight /\ MutexRight /\ FilesRight /\ OutRight /\ AckedIsInOutput
  BY DEF FederatedIInv
<1>2. /\ pc[r] = "merging" /\ mu = r /\ Mergeable(payloads) /\ out' = Output("open", <<>>)
      /\ proc \in {"running", "stopping"} /\ took' = [took EXCEPT ![r] = payloads]
      /\ pc' = [pc EXCEPT ![r] = "writing"]
      /\ UNCHANGED <<config, proc, runs, payloads, mu, from, file, watch, merged>>
  BY DEF Merge, Serving, OpenOut, loop
<1>3. /\ pc \in [Requests -> {"unsent", "received", "merging", "writing", "200", "400", "lost"}]
      /\ took \in [Requests -> Lists] /\ payloads \in Lists
  BY <1>1 DEF FederatedTypeOK
<1>4. /\ pc' \in [Requests -> {"unsent", "received", "merging", "writing", "200", "400", "lost"}]
      /\ pc'[r] = "writing" /\ \A q \in Requests : q # r => pc'[q] = pc[q]
      /\ took' \in [Requests -> Lists] /\ took'[r] = payloads
      /\ \A q \in Requests : q # r => took'[q] = took[q]
  BY <1>2, <1>3
<1>5. out' \in [is: Outputs, of: Lists] /\ out'.of = <<>>
  BY <1>2, NoList DEF Output, Outputs
<1>6. FederatedTypeOK'
  BY <1>1, <1>2, <1>4, <1>5 DEF FederatedTypeOK
<1>7. PayloadsRight'
  BY <1>1, <1>2, <1>4 DEF PayloadsRight
<1>8. Mergeable(payloads)'
  BY <1>2 DEF Mergeable, Dimensioned, KindOf
<1>9. MutexRight'
  BY <1>1, <1>2, <1>4, <1>8 DEF MutexRight
<1>10. FilesRight'
  BY <1>1, <1>2 DEF FilesRight, Mergeable, Dimensioned, KindOf, Idle
<1>11. OutRight'
  <2>1. Len(out'.of) = 0
    BY <1>5, NoList
  <2>2. \A i \in 1..Len(out'.of) : FALSE
    BY <2>1
  <2>3. proc' # "exit 0" /\ ~(\A q \in Requests : pc'[q] # "writing")
    BY <1>2, <1>4
  <2>4. QED
    BY <2>2, <2>3 DEF OutRight
<1>12. AckedIsInOutput'
  BY <1>2, <1>4 DEF AckedIsInOutput, Written
<1>13. OnlyDeathLeavesItOpen'
  BY <1>4 DEF OnlyDeathLeavesItOpen
<1>14. QED
  BY <1>6, <1>7, <1>9, <1>10, <1>11, <1>12, <1>13 DEF FederatedIInv

LEMMA RefuseStep == ASSUME FederatedIInv, NEW r \in Requests, Refuse(r) PROVE FederatedIInv'
<1>1. FederatedTypeOK /\ PayloadsRight /\ MutexRight /\ FilesRight /\ OutRight /\ AckedIsInOutput
  BY DEF FederatedIInv
<1>2. /\ pc[r] = "merging" /\ mu = r /\ mu' = 0 /\ pc' = [pc EXCEPT ![r] = "400"]
      /\ proc \in {"running", "stopping"}
      /\ UNCHANGED <<config, proc, runs, payloads, from, took, file, watch, out, merged>>
  BY DEF Refuse, Serving, loop
<1>3. pc \in [Requests -> {"unsent", "received", "merging", "writing", "200", "400", "lost"}]
  BY <1>1 DEF FederatedTypeOK
<1>4. /\ pc' \in [Requests -> {"unsent", "received", "merging", "writing", "200", "400", "lost"}]
      /\ pc'[r] = "400" /\ \A q \in Requests : q # r => pc'[q] = pc[q]
  BY <1>2, <1>3
<1>5. \A q \in Requests : pc[q] # "writing" /\ (pc[q] = "merging" => q = r)
  BY <1>1, <1>2 DEF MutexRight
<1>6. FederatedTypeOK'
  BY <1>1, <1>2, <1>4, SourcesAre DEF FederatedTypeOK
<1>7. PayloadsRight'
  BY <1>1, <1>2, <1>4 DEF PayloadsRight
<1>8. MutexRight'
  BY <1>4, <1>5 DEF MutexRight
<1>9. FilesRight'
  BY <1>1, <1>2 DEF FilesRight, Mergeable, Dimensioned, KindOf, Idle
<1>10. OutRight'
  <2>1. \A i \in 1..Len(out.of) : out.of[i] \in Requests => pc'[out.of[i]] # "unsent"
    BY <1>1, <1>4 DEF OutRight
  <2>2. OutGood => OutGood'
    BY <1>2 DEF OutGood, Written, Mergeable, Dimensioned, KindOf
  <2>3. QED
    BY <1>1, <1>2, <1>5, <2>1, <2>2 DEF OutRight
<1>11. AckedIsInOutput'
  <2>1. \A i \in 1..Len(payloads) : payloads[i] \in Requests /\ (pc'[payloads[i]] = "200" => pc[payloads[i]] = "200")
    BY <1>1, <1>4 DEF PayloadsRight
  <2>2. QED
    BY <1>1, <1>2, <1>5, <2>1 DEF AckedIsInOutput, Written
<1>12. OnlyDeathLeavesItOpen'
  BY <1>2, <1>5 DEF FederatedIInv, OnlyDeathLeavesItOpen
<1>13. QED
  BY <1>6, <1>7, <1>8, <1>9, <1>10, <1>11, <1>12 DEF FederatedIInv

\* Cut short or not, what is written is of the list it was given.
LEMMA WrittenOut ==
  ASSUME NEW list \in Lists, WriteOut(list)
  PROVE  /\ out' \in [is: Outputs, of: Lists] /\ out'.of = list /\ out'.is # "open"
         /\ Written' /\ merged' = Len(list)
<1>1. PICK is \in {"whole", "cut"} : out' = Output(is, list)
  BY DEF WriteOut
<1>2. out' = [is |-> is, of |-> list] /\ is \in Outputs
  BY <1>1 DEF Output, Outputs
<1>3. QED
  BY <1>1, <1>2 DEF Written, WriteOut

LEMMA WriteStep == ASSUME FederatedIInv, NEW r \in Requests, Write(r) PROVE FederatedIInv'
<1>1. FederatedTypeOK /\ PayloadsRight /\ MutexRight /\ FilesRight /\ OutRight /\ AckedIsInOutput
  BY DEF FederatedIInv
<1>2. /\ pc[r] = "writing" /\ proc \in {"running", "stopping"}
      /\ WriteOut(took[r])
      /\ pc' = [pc EXCEPT ![r] = "200"] /\ mu' = IF mu = r THEN 0 ELSE mu
      /\ proc' \in {proc, "stopping"}
      /\ UNCHANGED <<config, runs, payloads, from, took, file, watch>>
  BY DEF Write, loop
<1>3. /\ pc \in [Requests -> {"unsent", "received", "merging", "writing", "200", "400", "lost"}]
      /\ payloads \in Lists /\ Len(payloads) \in Nat /\ config.mode \in {"listen", "watch"}
  BY <1>1, FederatedTypes DEF FederatedTypeOK
<1>4. /\ mu = r /\ took[r] = payloads /\ Mergeable(payloads) /\ Len(payloads) >= config.min
  BY <1>1, <1>2 DEF MutexRight
<1>5. /\ out' \in [is: Outputs, of: Lists] /\ out'.of = payloads /\ out'.is # "open" /\ Written'
      /\ merged' = Len(payloads) /\ mu' = 0
  BY <1>2, <1>3, <1>4, WrittenOut
<1>6. /\ pc' \in [Requests -> {"unsent", "received", "merging", "writing", "200", "400", "lost"}]
      /\ pc'[r] = "200" /\ \A q \in Requests : q # r => pc'[q] = pc[q]
  BY <1>2, <1>3
<1>7. \A q \in Requests : q # r => pc[q] \notin {"merging", "writing"}
  BY <1>1, <1>4 DEF MutexRight
<1>8. FederatedTypeOK'
  BY <1>1, <1>2, <1>3, <1>5, <1>6, SourcesAre DEF FederatedTypeOK
<1>9. PayloadsRight'
  BY <1>1, <1>2, <1>3, <1>4, <1>5, <1>6 DEF PayloadsRight
<1>10. MutexRight'
  BY <1>6, <1>7 DEF MutexRight
<1>11. FilesRight'
  BY <1>1, <1>2 DEF FilesRight, Mergeable, Dimensioned, KindOf, Idle
<1>12. OutGood'
  BY <1>2, <1>4, <1>5 DEF OutGood, Mergeable, Dimensioned, KindOf
<1>13. OutRight'
  BY <1>1, <1>5, <1>6, <1>12 DEF OutRight, PayloadsRight
<1>14. AckedIsInOutput'
  BY <1>2, <1>5 DEF AckedIsInOutput
<1>15. OnlyDeathLeavesItOpen'
  BY <1>5 DEF OnlyDeathLeavesItOpen
<1>16. QED
  BY <1>8, <1>9, <1>10, <1>11, <1>13, <1>14, <1>15 DEF FederatedIInv

LEMMA ReturnStep == ASSUME FederatedIInv, Return PROVE FederatedIInv'
<1>1. FederatedTypeOK /\ PayloadsRight /\ MutexRight /\ FilesRight /\ OutRight /\ AckedIsInOutput
  BY DEF FederatedIInv
<1>2. /\ proc = "stopping" /\ proc' = "exit 0" /\ \A r \in Requests : pc[r] # "writing"
      /\ UNCHANGED <<config, runs, payloads, mu, from, pc, took, file, watch, out, merged>>
  BY DEF Return, handlers, loop, InHandler
<1>3. OutGood'
  BY <1>1, <1>2 DEF OutRight, OutGood, Written, Mergeable, Dimensioned, KindOf
<1>4. FederatedTypeOK'
  BY <1>1, <1>2 DEF FederatedTypeOK, Exits
<1>5. PayloadsRight' /\ MutexRight' /\ FilesRight'
  BY <1>1, <1>2 DEF PayloadsRight, MutexRight, FilesRight, Mergeable, Dimensioned, KindOf, Idle
<1>6. OutRight'
  BY <1>1, <1>2, <1>3 DEF OutRight
<1>7. AckedIsInOutput'
  BY <1>2 DEF AckedIsInOutput, Written
<1>8. OnlyDeathLeavesItOpen'
  BY <1>2 DEF FederatedIInv, OnlyDeathLeavesItOpen
<1>9. QED
  BY <1>4, <1>5, <1>6, <1>7, <1>8 DEF FederatedIInv

-----------------------------------------------------------------------------
(* FederatedCoordinator: --watch-dir *)

\* The loop does not touch what the handlers have; there are none.
LEMMA NoHandlers ==
  ASSUME FederatedIInv, config.mode = "watch", UNCHANGED <<config, runs, payloads, mu, from, pc, took>>,
         merged' \in Nat
  PROVE  PayloadsRight' /\ MutexRight' /\ AckedIsInOutput'
<1>1. PayloadsRight /\ payloads = <<>> /\ \A r \in Requests : pc[r] = "unsent"
  BY DEF FederatedIInv, PayloadsRight
<1>2. \A i \in 1..Len(payloads) : FALSE
  BY <1>1, NoList
<1>3. PayloadsRight'
  BY <1>1 DEF PayloadsRight, Distinct
<1>4. MutexRight'
  BY <1>1 DEF MutexRight
<1>5. AckedIsInOutput'
  BY <1>2 DEF AckedIsInOutput, Written
<1>6. QED
  BY <1>1, <1>2, <1>3, <1>4, <1>5

LEMMA WorkerWritesStep ==
  ASSUME FederatedIInv, NEW w \in Workers, WorkerWrites(w)
  PROVE  FederatedIInv'
<1>1. FederatedTypeOK /\ PayloadsRight /\ MutexRight /\ FilesRight /\ OutRight /\ AckedIsInOutput
  BY DEF FederatedIInv
<1>2. /\ config.mode = "watch" /\ file' = [file EXCEPT ![w] = IF @ = "partial" THEN "whole" ELSE "partial"]
      /\ UNCHANGED <<config, proc, runs, payloads, mu, from, pc, took, watch, out, merged>>
  BY DEF WorkerWrites, handlers
<1>3. FederatedTypeOK'
  BY <1>1, <1>2 DEF FederatedTypeOK
<1>4. PayloadsRight' /\ MutexRight' /\ AckedIsInOutput'
  BY <1>2, NoHandlers, <1>1 DEF FederatedTypeOK
<1>5. FilesRight' /\ OutRight'
  BY <1>1, <1>2 DEF FilesRight, OutRight, OutGood, Written, Mergeable, Dimensioned, KindOf, Idle
<1>6. OnlyDeathLeavesItOpen'
  BY <1>2 DEF FederatedIInv, OnlyDeathLeavesItOpen
<1>7. QED
  BY <1>3, <1>4, <1>5, <1>6 DEF FederatedIInv

LEMMA ListStep == ASSUME FederatedIInv, List PROVE FederatedIInv'
<1> DEFINE names == {w \in Workers : file[w] # "none"}
<1>1. FederatedTypeOK /\ PayloadsRight /\ MutexRight /\ FilesRight /\ OutRight /\ AckedIsInOutput
  BY DEF FederatedIInv
<1>2. /\ config.mode = "watch" /\ proc = "running"
      /\ UNCHANGED <<config, runs, payloads, mu, from, pc, took, file, out, merged>>
  BY DEF List, Watching, handlers
<1>3. PayloadsRight' /\ MutexRight' /\ AckedIsInOutput'
  BY <1>2, NoHandlers, <1>1 DEF FederatedTypeOK
<1>4. CASE /\ Cardinality(names) >= config.min /\ proc' = proc
           /\ watch' = [at |-> "read", names |-> names, took |-> <<>>]
  <2>1. FederatedTypeOK'
    BY <1>1, <1>2, <1>4, NoList DEF FederatedTypeOK
  <2>2. Cardinality(names) \in Nat
    BY SourcesAre, FS_Subset, FS_CardinalityType
  <2> HIDE DEF names
  <2>3. FilesRight'
    BY <1>2, <1>4, <2>2, NoList DEF FilesRight
  <2>4. OutRight'
    BY <1>1, <1>2, <1>4 DEF OutRight
  <2>5. OnlyDeathLeavesItOpen'
    BY <1>1, <1>2, <1>4 DEF FederatedIInv, OnlyDeathLeavesItOpen, List, Watching
  <2>6. QED
    BY <1>3, <2>1, <2>3, <2>4, <2>5 DEF FederatedIInv
<1>5. CASE watch' = watch /\ proc' \in {"exit 2", proc}
  <2>1. FederatedTypeOK'
    BY <1>1, <1>2, <1>5 DEF FederatedTypeOK, Exits
  <2>2. FilesRight' /\ OutRight'
    BY <1>1, <1>2, <1>5 DEF FilesRight, OutRight, Mergeable, Dimensioned, KindOf
  <2>3. OnlyDeathLeavesItOpen'
    BY <1>2, <1>5 DEF FederatedIInv, OnlyDeathLeavesItOpen
  <2>4. QED
    BY <1>3, <2>1, <2>2, <2>3 DEF FederatedIInv
<1>6. QED
  BY <1>4, <1>5 DEF List

LEMMA ReadStep == ASSUME FederatedIInv, Read PROVE FederatedIInv'
<1>1. FederatedTypeOK /\ PayloadsRight /\ MutexRight /\ FilesRight /\ OutRight /\ AckedIsInOutput
  BY DEF FederatedIInv
<1>2. /\ config.mode = "watch" /\ proc = "running" /\ watch.at = "read"
      /\ UNCHANGED <<config, runs, payloads, mu, from, pc, took, file, out, merged>>
  BY DEF Read, Watching, handlers
<1>3. PayloadsRight' /\ MutexRight' /\ AckedIsInOutput'
  BY <1>2, NoHandlers, <1>1 DEF FederatedTypeOK
<1>4. /\ watch.took \in Seq(Sources) /\ Len(watch.took) \in Nat /\ watch.names \in SUBSET Workers
      /\ watch = [at |-> watch.at, names |-> watch.names, took |-> watch.took]
      /\ IsFiniteSet(watch.names) /\ Cardinality(watch.names) \in Nat /\ config.min \in Nat
  BY <1>1, FederatedTypes
<1>5. ASSUME NEW w \in watch.names, proc' = proc,
             watch' = [watch EXCEPT !.names = @ \ {w}, !.took = Append(@, w)]
      PROVE  FederatedIInv'
  <2> DEFINE more == Append(watch.took, w)
             rest == watch.names \ {w}
  <2>1. watch' = [at |-> "read", names |-> rest, took |-> more]
    BY <1>2, <1>4, <1>5
  <2>2. w \in Workers /\ w \in Sources /\ \A i \in 1..Len(watch.took) : watch.took[i] # w
    BY <1>1, <1>4, <1>5, SourcesAre DEF FilesRight
  <2>3. /\ more \in Seq(Sources) /\ Len(more) = Len(watch.took) + 1 /\ Distinct(more)
        /\ more[Len(watch.took) + 1] = w /\ \A i \in 1..Len(watch.took) : more[i] = watch.took[i]
    BY <1>1, <1>4, <2>2, OneMore DEF FilesRight
  <2> HIDE DEF more
  <2>4. \A i \in 1..Len(more) : more[i] \in Workers \ rest
    <3> SUFFICES ASSUME NEW i \in 1..Len(more) PROVE more[i] \in Workers \ rest
      OBVIOUS
    <3>1. CASE i = Len(watch.took) + 1
      BY <2>2, <2>3, <3>1
    <3>2. CASE i \in 1..Len(watch.took)
      BY <1>1, <1>4, <2>3, <3>2 DEF FilesRight
    <3>3. QED
      BY <1>4, <2>3, <3>1, <3>2
  <2>5. more \in Lists
    BY <2>3, <2>4, ShortList
  <2>6. Cardinality(rest) = Cardinality(watch.names) - 1
    BY <1>4, <1>5, FS_RemoveElement
  <2> HIDE DEF rest
  <2>7. Len(more) + Cardinality(rest) >= config.min
    BY <1>1, <1>2, <1>4, <2>3, <2>6 DEF FilesRight
  <2>8. rest \in SUBSET Workers
    BY <1>4 DEF rest
  <2>9. FederatedTypeOK'
    BY <1>1, <1>2, <1>5, <2>1, <2>5, <2>8 DEF FederatedTypeOK
  <2>10. FilesRight'
    BY <1>2, <2>1, <2>3, <2>4, <2>7 DEF FilesRight
  <2>11. OutRight'
    BY <1>1, <1>2, <1>5 DEF OutRight
  <2>12. OnlyDeathLeavesItOpen'
    BY <1>2 DEF FederatedIInv, OnlyDeathLeavesItOpen
  <2>13. QED
    BY <1>3, <2>9, <2>10, <2>11, <2>12 DEF FederatedIInv
<1>6. CASE watch' = watch /\ proc' = "exit 1"
  <2>1. FederatedTypeOK'
    BY <1>1, <1>2, <1>6 DEF FederatedTypeOK, Exits
  <2>2. FilesRight' /\ OutRight'
    BY <1>1, <1>2, <1>6 DEF FilesRight, OutRight, Mergeable, Dimensioned, KindOf
  <2>3. OnlyDeathLeavesItOpen'
    BY <1>2 DEF FederatedIInv, OnlyDeathLeavesItOpen
  <2>4. QED
    BY <1>3, <2>1, <2>2, <2>3 DEF FederatedIInv
<1>7. QED
  BY <1>5, <1>6 DEF Read

LEMMA MergeFilesStep == ASSUME FederatedIInv, MergeFiles PROVE FederatedIInv'
<1>1. FederatedTypeOK /\ PayloadsRight /\ MutexRight /\ FilesRight /\ OutRight /\ AckedIsInOutput
  BY DEF FederatedIInv
<1>2. /\ config.mode = "watch" /\ proc = "running" /\ watch.at = "read" /\ watch.names = {}
      /\ UNCHANGED <<config, runs, payloads, mu, from, pc, took, file, merged>>
  BY DEF MergeFiles, Watching, handlers
<1>3. PayloadsRight' /\ MutexRight' /\ AckedIsInOutput'
  BY <1>2, NoHandlers, <1>1 DEF FederatedTypeOK
<1>4. watch = [at |-> watch.at, names |-> watch.names, took |-> watch.took] /\ watch.took \in Lists
  BY <1>1, FederatedTypes DEF FederatedTypeOK
<1>5. CASE /\ Mergeable(watch.took) /\ out' = Output("open", <<>>) /\ proc' = proc
           /\ watch' = [watch EXCEPT !.at = "write"]
  <2>1. watch' = [at |-> "write", names |-> watch.names, took |-> watch.took]
    BY <1>4, <1>5
  <2>2. out' \in [is: Outputs, of: Lists] /\ out'.of = <<>>
    BY <1>5, NoList DEF Output, Outputs
  <2>3. FederatedTypeOK'
    BY <1>1, <1>2, <1>4, <1>5, <2>1, <2>2 DEF FederatedTypeOK
  <2>4. FilesRight'
    BY <1>1, <1>2, <1>5, <2>1 DEF FilesRight, Mergeable, Dimensioned, KindOf
  <2>5. \A i \in 1..Len(out'.of) : FALSE
    BY <2>2, NoList
  <2>6. OutRight'
    BY <1>2, <1>5, <2>5 DEF OutRight
  <2>7. OnlyDeathLeavesItOpen'
    BY <2>1 DEF OnlyDeathLeavesItOpen
  <2>8. QED
    BY <1>3, <2>3, <2>4, <2>6, <2>7 DEF FederatedIInv
<1>6. CASE watch' = watch /\ out' = out /\ proc' = "exit 1"
  <2>1. FederatedTypeOK'
    BY <1>1, <1>2, <1>6 DEF FederatedTypeOK, Exits
  <2>2. FilesRight' /\ OutRight'
    BY <1>1, <1>2, <1>6 DEF FilesRight, OutRight, Mergeable, Dimensioned, KindOf
  <2>3. OnlyDeathLeavesItOpen'
    BY <1>2, <1>6 DEF FederatedIInv, OnlyDeathLeavesItOpen
  <2>4. QED
    BY <1>3, <2>1, <2>2, <2>3 DEF FederatedIInv
<1>7. QED
  BY <1>5, <1>6 DEF MergeFiles, OpenOut

LEMMA WriteFilesStep == ASSUME FederatedIInv, WriteFiles PROVE FederatedIInv'
<1>1. FederatedTypeOK /\ PayloadsRight /\ MutexRight /\ FilesRight /\ OutRight /\ AckedIsInOutput
  BY DEF FederatedIInv
<1>2. /\ config.mode = "watch" /\ proc = "running" /\ watch.at = "write" /\ proc' \in {"exit 0", proc}
      /\ WriteOut(watch.took) /\ watch' = Idle
      /\ UNCHANGED <<config, runs, payloads, mu, from, pc, took, file>>
  BY DEF WriteFiles, Watching, handlers
<1>3. /\ watch.took \in Lists /\ Len(watch.took) \in Nat /\ config.min \in Nat
      /\ out' \in [is: Outputs, of: Lists] /\ out'.of = watch.took /\ out'.is # "open" /\ Written'
      /\ merged' = Len(watch.took)
  BY <1>1, <1>2, FederatedTypes, WrittenOut DEF FederatedTypeOK
<1>4. PayloadsRight' /\ MutexRight' /\ AckedIsInOutput'
  BY <1>2, <1>3, NoHandlers
<1>5. FederatedTypeOK'
  BY <1>1, <1>2, <1>3, IdleIs DEF FederatedTypeOK, Exits
<1>6. FilesRight'
  <2>1. watch'.took = <<>> /\ watch'.at = "list" /\ config'.mode # "listen"
    BY <1>2, IdleIs
  <2>2. QED
    BY <2>1, NoList DEF FilesRight
<1>7. /\ Len(watch.took) >= config.min /\ Mergeable(watch.took)
      /\ \A i \in 1..Len(watch.took) : watch.took[i] \notin Requests
  <2>1. Cardinality(watch.names) = 0
    BY <1>1, <1>2, FS_EmptySet DEF FilesRight
  <2>2. Len(watch.took) + Cardinality(watch.names) >= config.min /\ Mergeable(watch.took)
    BY <1>1, <1>2 DEF FilesRight
  <2>3. \A i \in 1..Len(watch.took) : watch.took[i] \notin Requests
    BY <1>1, SourcesAre DEF FilesRight
  <2>4. QED
    BY <1>3, <2>1, <2>2, <2>3
<1>8. OutGood'
  BY <1>2, <1>3, <1>7 DEF OutGood, Mergeable, Dimensioned, KindOf
<1>9. OutRight'
  BY <1>2, <1>3, <1>7, <1>8 DEF OutRight
<1>10. OnlyDeathLeavesItOpen'
  BY <1>3 DEF OnlyDeathLeavesItOpen
<1>11. QED
  BY <1>4, <1>5, <1>6, <1>9, <1>10 DEF FederatedIInv

-----------------------------------------------------------------------------
(* FederatedCoordinator: the process, and what is promised *)

LEMMA DieStep == ASSUME FederatedIInv, Die PROVE FederatedIInv'
<1>1. FederatedTypeOK /\ PayloadsRight /\ MutexRight /\ FilesRight /\ OutRight /\ AckedIsInOutput
  BY DEF FederatedIInv
<1>2. /\ proc' = "killed"
      /\ UNCHANGED <<config, runs, payloads, mu, from, pc, took, file, watch, out, merged>>
  BY DEF Die, handlers, loop
<1>3. FederatedTypeOK'
  BY <1>1, <1>2 DEF FederatedTypeOK, Exits
<1>4. PayloadsRight'
  BY <1>1, <1>2 DEF PayloadsRight
<1>5. MutexRight'
  BY <1>1, <1>2 DEF MutexRight, Mergeable, Dimensioned, KindOf
<1>6. FilesRight'
  BY <1>1, <1>2 DEF FilesRight, Mergeable, Dimensioned, KindOf, Idle
<1>7. OutRight'
  BY <1>1, <1>2 DEF OutRight
<1>8. AckedIsInOutput'
  BY <1>2 DEF AckedIsInOutput, Written
<1>9. OnlyDeathLeavesItOpen'
  BY <1>2 DEF FederatedIInv, OnlyDeathLeavesItOpen
<1>10. QED
  BY <1>3, <1>4, <1>5, <1>6, <1>7, <1>8, <1>9 DEF FederatedIInv

LEMMA StartAgainStep == ASSUME FederatedIInv, StartAgain PROVE FederatedIInv'
<1>1. FederatedTypeOK /\ PayloadsRight /\ MutexRight /\ FilesRight /\ OutRight /\ AckedIsInOutput
  BY DEF FederatedIInv
<1>2. /\ proc' = "running" /\ payloads' = <<>> /\ mu' = 0 /\ watch' = Idle /\ merged' = 0
      /\ runs < MaxRuns /\ runs' = runs + 1
      /\ pc' = [r \in Requests |-> IF pc[r] \in {"received", "merging", "writing"} THEN "lost" ELSE pc[r]]
      /\ UNCHANGED <<config, from, took, file, out>>
  BY DEF StartAgain, InHandler
<1>3. /\ pc \in [Requests -> {"unsent", "received", "merging", "writing", "200", "400", "lost"}]
      /\ runs \in 1..MaxRuns /\ MaxRuns \in Nat
  BY <1>1, FederatedAssumption DEF FederatedTypeOK
<1>4. \A r \in Requests : /\ pc'[r] \in {"unsent", "200", "400", "lost"}
                          /\ pc'[r] = "unsent" <=> pc[r] = "unsent"
  BY <1>2, <1>3
<1>5. FederatedTypeOK'
  <2>1. runs' \in 1..MaxRuns /\ mu' \in 0..MaxRequests /\ merged' \in Nat
    BY <1>2, <1>3, SourcesAre
  <2>2. pc' \in [Requests -> {"unsent", "received", "merging", "writing", "200", "400", "lost"}]
    BY <1>2, <1>3
  <2>3. QED
    BY <1>1, <1>2, <2>1, <2>2, NoList, IdleIs DEF FederatedTypeOK
<1>6. PayloadsRight'
  <2>1. config.mode = "watch" => \A r \in Requests : pc'[r] = "unsent"
    BY <1>1, <1>4 DEF PayloadsRight
  <2>2. QED
    BY <1>2, <2>1, NoList DEF PayloadsRight
<1>7. MutexRight'
  BY <1>4 DEF MutexRight
<1>8. FilesRight'
  BY <1>2, IdleIs, NoList DEF FilesRight, Idle
<1>9. OutRight'
  BY <1>1, <1>2, <1>4 DEF OutRight
<1>10. AckedIsInOutput'
  BY <1>2, NoList DEF AckedIsInOutput, Written
<1>11. OnlyDeathLeavesItOpen'
  BY <1>2, <1>3 DEF OnlyDeathLeavesItOpen
<1>12. QED
  BY <1>5, <1>6, <1>7, <1>8, <1>9, <1>10, <1>11 DEF FederatedIInv

LEMMA FederatedStep == FederatedIInv /\ [FederatedNext]_federatedVars => FederatedIInv'
<1> SUFFICES ASSUME FederatedIInv, [FederatedNext]_federatedVars PROVE FederatedIInv'
  OBVIOUS
<1>1. CASE FederatedNext
  <2>1. \A w \in Workers : Receive(w) \/ WorkerWrites(w) => FederatedIInv'
    BY ReceiveStep, WorkerWritesStep
  <2>2. \A r \in Requests : Handler(r) => FederatedIInv'
    BY KeepStep, MergeStep, RefuseStep, WriteStep DEF Handler
  <2>3. Return \/ Loop \/ Die \/ StartAgain => FederatedIInv'
    BY ReturnStep, ListStep, ReadStep, MergeFilesStep, WriteFilesStep, DieStep, StartAgainStep DEF Loop
  <2>4. QED
    BY <1>1, <2>1, <2>2, <2>3 DEF FederatedNext
<1>2. CASE UNCHANGED federatedVars
  <2>1. FederatedTypeOK'
    BY <1>2 DEF federatedVars, FederatedIInv, FederatedTypeOK
  <2>2. PayloadsRight' /\ AckedIsInOutput'
    BY <1>2 DEF federatedVars, FederatedIInv, PayloadsRight, AckedIsInOutput, Written
  <2>3. MutexRight'
    BY <1>2 DEF federatedVars, FederatedIInv, MutexRight, Mergeable, Dimensioned, KindOf
  <2>4. FilesRight'
    BY <1>2 DEF federatedVars, FederatedIInv, FilesRight, Mergeable, Dimensioned, KindOf, Idle
  <2>5. OutRight'
    BY <1>2 DEF federatedVars, FederatedIInv, OutRight, OutGood, Written, Mergeable, Dimensioned, KindOf
  <2>6. OnlyDeathLeavesItOpen'
    BY <1>2 DEF federatedVars, FederatedIInv, OnlyDeathLeavesItOpen
  <2>7. QED
    BY <2>1, <2>2, <2>3, <2>4, <2>5, <2>6 DEF FederatedIInv
<1>3. QED
  BY <1>1, <1>2

LEMMA FederatedInductive == FederatedSpec => []FederatedIInv
BY FederatedStart, FederatedStep, PTL DEF FederatedSpec

\* An exit code of 0 and an answer 200 say of the output what they promise, for
\* any number of workers, submissions, retries and restarts.
THEOREM OutputIsMerged == FederatedSpec => []FederatedInv
BY FederatedInductive, FederatedPromised, PTL

\* No handler puts an older merge over a newer one: whoever writes has merged
\* everything that is kept, and what is kept only grows.
THEOREM MergesOnlyGrow == FederatedSpec => MergedNeverShrinks
<1>1. ASSUME FederatedIInv, FederatedNext, config.mode = "listen", runs' = runs
      PROVE  merged' >= merged
  <2>1. merged \in Nat /\ config.mode # "watch" /\ runs \in Nat
    BY <1>1, FederatedAssumption DEF FederatedIInv, FederatedTypeOK
  <2>2. ASSUME NEW r \in Requests, Write(r) PROVE merged' >= merged
    <3>1. merged' = Len(payloads)
      BY <1>1, <2>2 DEF Write, WriteOut, FederatedIInv, MutexRight
    <3>2. merged <= Len(payloads)
      BY <1>1 DEF FederatedIInv, PayloadsRight
    <3>3. QED
      BY <3>1, <3>2, <1>1, FederatedTypes DEF FederatedIInv
  <2>3. ~Loop /\ ~StartAgain /\ \A w \in Workers : ~WorkerWrites(w)
    BY <1>1, <2>1 DEF Loop, List, Read, MergeFiles, WriteFiles, Watching, StartAgain, WorkerWrites
  <2>4. ASSUME merged' = merged PROVE merged' >= merged
    BY <2>1, <2>4
  <2>5. QED
    BY <1>1, <2>2, <2>3, <2>4 DEF FederatedNext, Handler, Receive, Keep, Merge, Refuse, Return, Die
<1>2. FederatedIInv /\ [FederatedNext]_federatedVars =>
        [config.mode = "listen" /\ runs' = runs => merged' >= merged]_federatedVars
  BY <1>1
<1>3. QED
  BY <1>2, FederatedInductive, PTL DEF FederatedSpec, MergedNeverShrinks
==============================================================================
