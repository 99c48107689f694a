------------------------------ MODULE SumProofs ------------------------------
(***************************************************************************)
(* Proofs about the two components that promise sums: TrieTrainer, for any *)
(* corpus, any sizes and marks, and any number of stops and failures, and  *)
(* MemoryBudget, for any threads, caches, limits and reports; and what     *)
(* SumFunctionOnSet of the community modules is, for any finite set.       *)
(***************************************************************************)
EXTENDS TrieTrainer, MemoryBudget, Integers, FiniteSetTheorems, WellFoundedInduction, TLAPS

Running == pc \notin Stopped

\* What the process is about to rename to the checkpoint is its model ...
TmpIsModel == pc \in {"rename", "again"} => tmp = Whole(model)

\* ... and between the rename and the next file the checkpoint is its model.
CkptIsModel == pc \in {"list", "marks", "note"} => ckpt = Whole(model)

\* The model counts the file it is at, and what is listed and not lost.
ModelCounts ==
  /\ pc \in {"save", "flush", "rename", "again", "list"} => \A f \in file : model[f] > 0
  /\ Running => \A f \in trained \ lost : model[f] > 0

\* Only while the rename is tried again does a process run that has removed
\* the checkpoint of a file it is not to forget.
RemovedForRename == Running /\ pc # "again" /\ ckpt = Absent => trained \subseteq lost

\* Snapshots: those due are not noted yet, and the one just copied is complete.
Due0 ==
  /\ Running => noted \subseteq taken
  /\ Running => due \cap taken = {}
  /\ pc \notin {"marks", "note"} => due = {}
  /\ pc \in {"marks", "note"} => \A m \in due : BytesOf(model, size) >= m
  /\ pc = "note" => \A m \in due : (\A n \in due : m <= n) => snap[m] = Whole(model)

IInv ==
  /\ TypeOK /\ CheckpointIsWhole /\ NothingForgotten /\ SnapshotIsWhole
  /\ TmpIsModel /\ CkptIsModel /\ ModelCounts /\ RemovedForRename /\ Due0

-----------------------------------------------------------------------------
(* TrieTrainer: what can be on the disk *)

LEMMA DiskFacts ==
  /\ Absent.is = "absent" /\ Torn.is = "torn" /\ Absent # Torn
  /\ \A m : Whole(m).is = "whole" /\ Whole(m).holds = m /\ Whole(m) # Absent /\ Whole(m) # Torn
BY DEF Absent, Torn, Whole

LEMMA DiskCases ==
  ASSUME NEW x \in OnDisk
  PROVE  \/ x = Absent
         \/ x = Torn
         \/ x = Whole(x.holds) /\ x.holds \in Models
BY DEF OnDisk, Whole

LEMMA WholeOnDisk ==
  ASSUME NEW m \in Models
  PROVE  Whole(m) \in OnDisk
BY DEF OnDisk

LEMMA NothingIsModel == Nothing \in Models /\ Absent \in OnDisk /\ Torn \in OnDisk
BY TrieTrainerAssumption DEF Nothing, Models, OnDisk

LEMMA InitInv == Init => IInv
<1> SUFFICES ASSUME Init PROVE IInv
  OBVIOUS
<1>1. TypeOK
  BY TrieTrainerAssumption, NothingIsModel DEF Init, TypeOK, Stopped
<1>2. CheckpointIsWhole /\ NothingForgotten /\ SnapshotIsWhole
  BY DiskFacts DEF Init, CheckpointIsWhole, NothingForgotten, SnapshotIsWhole
<1>3. TmpIsModel /\ CkptIsModel /\ ModelCounts /\ RemovedForRename /\ Due0
  BY DEF Init, TmpIsModel, CkptIsModel, ModelCounts, RemovedForRename, Due0, Running, Stopped
<1>4. QED
  BY <1>1, <1>2, <1>3 DEF IInv

-----------------------------------------------------------------------------
(* Starting: what a run begins with *)

LEMMA ResumeInv == IInv /\ Resume => IInv'
<1> SUFFICES ASSUME IInv, Resume PROVE IInv'
  OBVIOUS
<1>1. ckpt # Absent /\ ckpt # Torn
  BY DiskFacts DEF IInv, CheckpointIsWhole, Resume
<1>2. ckpt = Whole(ckpt.holds) /\ ckpt.holds \in Models
  BY <1>1, DiskCases DEF IInv, TypeOK
<1>3. TypeOK'
  BY <1>2 DEF IInv, TypeOK, Resume, Begin, options, outside, disk
<1>4. CheckpointIsWhole' /\ NothingForgotten' /\ SnapshotIsWhole'
  BY DEF IInv, CheckpointIsWhole, NothingForgotten, SnapshotIsWhole, Bytes, Resume, Begin,
     options, outside, disk
<1>5. TmpIsModel' /\ CkptIsModel' /\ RemovedForRename'
  BY <1>1 DEF TmpIsModel, CkptIsModel, RemovedForRename, Resume, Begin, disk
<1>6. ModelCounts'
  BY <1>1 DEF IInv, NothingForgotten, HoldsFile, ModelCounts, Resume, Begin, disk
<1>7. Due0'
  <2>1. due = {} /\ due' = {} /\ noted' = noted /\ taken' = noted /\ pc' = "scan"
    BY DEF IInv, Due0, Resume, Begin, disk, Stopped
  <2>2. QED
    BY <2>1 DEF Due0
<1>8. QED
  BY <1>3, <1>4, <1>5, <1>6, <1>7 DEF IInv

\* A run that begins with an empty model, or with a part of one, loses what is listed.
LEMMA EmptyInv ==
  ASSUME IInv, NEW m \in Models, Begin(m), trained \subseteq lost', lost' \subseteq Files,
         troubles' \in 0..MaxTroubles
  PROVE  IInv'
<1>1. trained' \subseteq lost'
  BY DEF Begin, disk
<1>2. TypeOK'
  BY DEF IInv, TypeOK, Begin, options, outside, disk
<1>3. CheckpointIsWhole' /\ NothingForgotten' /\ SnapshotIsWhole'
  BY <1>1 DEF IInv, CheckpointIsWhole, NothingForgotten, SnapshotIsWhole, Bytes, Begin,
     options, outside, disk
<1>4. TmpIsModel' /\ CkptIsModel' /\ RemovedForRename' /\ ModelCounts'
  BY <1>1 DEF TmpIsModel, CkptIsModel, RemovedForRename, ModelCounts, Begin
<1>5. Due0'
  <2>1. due = {} /\ due' = {} /\ noted' = noted /\ taken' = noted /\ pc' = "scan"
    BY DEF IInv, Due0, Begin, disk, Stopped
  <2>2. QED
    BY <2>1 DEF Due0
<1>6. QED
  BY <1>2, <1>3, <1>4, <1>5 DEF IInv

LEMMA TroubleType == TypeOK /\ Trouble => troubles' \in 0..MaxTroubles
BY TrieTrainerAssumption DEF TypeOK, Trouble

LEMMA StartInv == IInv /\ Start => IInv'
<1> SUFFICES ASSUME IInv, Start PROVE IInv'
  OBVIOUS
<1>1. CASE Resume
  BY <1>1, ResumeInv
<1>2. CASE New
  BY <1>2, EmptyInv, NothingIsModel DEF New, IInv, TypeOK
<1>3. CASE CannotResume
  <2>1. troubles' \in 0..MaxTroubles
    BY <1>3, TroubleType DEF CannotResume, Fails, IInv
  <2>2. CASE pc' = "scan"
    <3>1. ckpt.holds \in Models
      BY DiskCases, DiskFacts, NothingIsModel DEF IInv, TypeOK, Absent, Torn
    <3>2. PICK m \in {Nothing, ckpt.holds} : Begin(m)
      BY <1>3, <2>2 DEF CannotResume
    <3>3. trained \subseteq lost' /\ lost' \subseteq Files
      BY <1>3, <2>2 DEF CannotResume, IInv, TypeOK
    <3>4. QED
      BY <2>1, <3>1, <3>2, <3>3, EmptyInv, NothingIsModel
  <2>3. CASE pc' # "scan"
    <3>1. /\ pc \in Stopped /\ pc' = "failed"
          /\ UNCHANGED <<options, outside, disk, memory, lost>>
      BY <1>3, <2>3 DEF CannotResume, Begin
    <3>2. TypeOK'
      BY <2>1, <3>1 DEF IInv, TypeOK, Stopped, options, outside, disk, memory
    <3>3. QED
      BY <3>1, <3>2 DEF IInv, CheckpointIsWhole, NothingForgotten, SnapshotIsWhole, Bytes,
         TmpIsModel, CkptIsModel, ModelCounts, RemovedForRename, Due0, Running, Stopped,
         options, outside, disk, memory
  <2>4. QED
    BY <2>2, <2>3
<1>4. QED
  BY <1>1, <1>2, <1>3 DEF Start

-----------------------------------------------------------------------------
(* The end of a run: the disk stays, the memory goes *)

LEMMA EndInv ==
  ASSUME IInv, pc' \in Stopped, Forget, UNCHANGED <<options, outside, ckpt, trained, snap, noted, lost>>,
         tmp' = tmp, troubles' \in 0..MaxTroubles
  PROVE  IInv'
<1>1. TypeOK'
  BY NothingIsModel DEF IInv, TypeOK, Forget, options, outside, Stopped
<1>2. CheckpointIsWhole' /\ NothingForgotten' /\ SnapshotIsWhole'
  BY DEF IInv, CheckpointIsWhole, NothingForgotten, SnapshotIsWhole, Bytes, options
<1>3. TmpIsModel' /\ CkptIsModel' /\ ModelCounts' /\ RemovedForRename' /\ Due0'
  BY DEF TmpIsModel, CkptIsModel, ModelCounts, RemovedForRename, Due0, Running, Stopped, Forget
<1>4. QED
  BY <1>1, <1>2, <1>3 DEF IInv

LEMMA StopInv == IInv /\ Stop => IInv'
BY EndInv, TroubleType DEF IInv, Stop, Stopped, options, outside, disk

LEMMA FinishInv == IInv /\ Finish => IInv'
BY EndInv, TroubleType DEF IInv, TypeOK, Finish, Walk, Fails, Exit, Goto, Stopped, options, outside, disk

-----------------------------------------------------------------------------
(* Around the files: nothing on the disk changes *)

LEMMA LoopInv == IInv /\ (Scan \/ EndOfFiles \/ EndOfMarks \/ \E f \in Files : Skip(f)) => IInv'
<1> SUFFICES ASSUME IInv, Scan \/ EndOfFiles \/ EndOfMarks \/ \E f \in Files : Skip(f) PROVE IInv'
  OBVIOUS
<1>1. /\ UNCHANGED <<options, outside, disk, model, done, file, taken, due, lost>>
      /\ pc \in {"scan", "files", "marks"} /\ pc' \in {"scan", "files"} /\ due = {}
      /\ fresh' \subseteq Files /\ troubles' \in 0..MaxTroubles
  <2>1. CASE Scan
    BY <2>1, TroubleType DEF IInv, TypeOK, Due0, Scan, Walk, Fails, Goto
  <2>2. CASE ~Scan
    BY <2>2 DEF IInv, TypeOK, Due0, EndOfFiles, EndOfMarks, Skip, Goto, memory
  <2>3. QED
    BY <2>1, <2>2
<1>2. TypeOK'
  BY <1>1 DEF IInv, TypeOK, options, outside, disk
<1>3. CheckpointIsWhole' /\ NothingForgotten' /\ SnapshotIsWhole'
  BY <1>1 DEF IInv, CheckpointIsWhole, NothingForgotten, SnapshotIsWhole, Bytes, options, disk
<1>4. TmpIsModel' /\ CkptIsModel' /\ ModelCounts' /\ RemovedForRename' /\ Due0'
  BY <1>1 DEF IInv, TmpIsModel, CkptIsModel, ModelCounts, RemovedForRename, Due0, Running, Stopped, disk
<1>5. QED
  BY <1>2, <1>3, <1>4 DEF IInv

LEMMA TrainInv == ASSUME IInv, NEW f \in Files, Train(f) PROVE IInv'
<1>1. /\ model[f] \in Nat /\ model' \in Models /\ \A g \in Files : model[g] > 0 => model'[g] > 0
      /\ model'[f] > 0
  BY TrieTrainerAssumption DEF IInv, TypeOK, Train, Models
<1>2. TypeOK'
  BY <1>1 DEF IInv, TypeOK, Train, Goto, options, outside, disk
<1>3. CheckpointIsWhole' /\ NothingForgotten' /\ SnapshotIsWhole'
  BY DEF IInv, CheckpointIsWhole, NothingForgotten, SnapshotIsWhole, Bytes, Train, options, disk
<1>4. TmpIsModel' /\ CkptIsModel' /\ RemovedForRename' /\ Due0'
  BY DEF IInv, TmpIsModel, CkptIsModel, RemovedForRename, Due0, Running, Stopped, Train, Goto, disk
<1>5. ModelCounts'
  BY <1>1 DEF IInv, TypeOK, ModelCounts, Running, Stopped, Train, Goto, disk
<1>6. QED
  BY <1>2, <1>3, <1>4, <1>5 DEF IInv

-----------------------------------------------------------------------------
(* Saving: between Open and the rename the .tmp file is worthless or the model *)

\* A running process that has not removed the checkpoint can write to .tmp.
LEMMA TmpIsFree ==
  ASSUME IInv, Running, pc # "again", NEW f \in trained \ lost
  PROVE  HoldsFile(ckpt, f)
BY DEF IInv, NothingForgotten, RemovedForRename

LEMMA OpenInv == IInv /\ Open => IInv'
<1> SUFFICES ASSUME IInv, Open PROVE IInv'
  OBVIOUS
<1>1. CASE pc' = "failed"
  BY <1>1, EndInv, TroubleType DEF IInv, Open, Exit, Goto, Fails, Stopped
<1>2. CASE pc' # "failed"
  <2>1. /\ pc = "save" /\ pc' = "flush" /\ tmp' = Torn
        /\ UNCHANGED <<options, outside, ckpt, trained, snap, noted, memory, troubles, lost>>
    BY <1>2 DEF Open, Exit, Goto
  <2>2. TypeOK'
    BY <2>1, NothingIsModel DEF IInv, TypeOK, options, outside, memory
  <2>3. CheckpointIsWhole' /\ NothingForgotten' /\ SnapshotIsWhole'
    <3>1. NothingForgotten'
      BY <2>1, TmpIsFree DEF NothingForgotten, HoldsFile, Running, Stopped
    <3>2. QED
      BY <2>1, <3>1 DEF IInv, CheckpointIsWhole, SnapshotIsWhole, Bytes, options
  <2>4. TmpIsModel' /\ CkptIsModel' /\ ModelCounts' /\ RemovedForRename' /\ Due0'
    BY <2>1 DEF IInv, TmpIsModel, CkptIsModel, ModelCounts, RemovedForRename, Due0, Running, Stopped, memory
  <2>5. QED
    BY <2>2, <2>3, <2>4 DEF IInv
<1>3. QED
  BY <1>1, <1>2

LEMMA FlushInv == IInv /\ Flush => IInv'
<1> SUFFICES ASSUME IInv, Flush PROVE IInv'
  OBVIOUS
<1>1. CASE pc' = "failed"
  BY <1>1, EndInv, TroubleType DEF IInv, Flush, Exit, Goto, Fails, Stopped
<1>2. CASE pc' # "failed"
  <2>1. /\ pc = "flush" /\ pc' = "rename" /\ tmp' = Whole(model)
        /\ UNCHANGED <<options, outside, ckpt, trained, snap, noted, memory, troubles, lost>>
    BY <1>2 DEF Flush, Exit, Goto
  <2>2. TypeOK'
    BY <2>1, WholeOnDisk DEF IInv, TypeOK, options, outside, memory
  <2>3. CheckpointIsWhole' /\ NothingForgotten' /\ SnapshotIsWhole'
    <3>1. NothingForgotten'
      BY <2>1, TmpIsFree DEF NothingForgotten, HoldsFile, Running, Stopped
    <3>2. QED
      BY <2>1, <3>1 DEF IInv, CheckpointIsWhole, SnapshotIsWhole, Bytes, options
  <2>4. TmpIsModel' /\ CkptIsModel' /\ ModelCounts' /\ RemovedForRename' /\ Due0'
    BY <2>1 DEF IInv, TmpIsModel, CkptIsModel, ModelCounts, RemovedForRename, Due0, Running, Stopped, memory
  <2>5. QED
    BY <2>2, <2>3, <2>4 DEF IInv
<1>3. QED
  BY <1>1, <1>2

\* The rename at once and the one that is tried again.
LEMMA RenamedInv ==
  ASSUME IInv, NEW from \in {"rename", "again"}, Renamed(from),
         UNCHANGED <<options, outside, trained, snap, noted, memory, troubles, lost>>
  PROVE  IInv'
<1>1. ckpt' = Whole(model) /\ model \in Models /\ ckpt'.is = "whole" /\ ckpt'.holds = model
      /\ ckpt' # Absent /\ Running /\ pc \in {"rename", "again"} /\ pc' = "list"
  BY DiskFacts DEF IInv, TypeOK, TmpIsModel, Renamed, Goto, Running, Stopped
<1>2. TypeOK'
  BY <1>1, WholeOnDisk, NothingIsModel DEF IInv, TypeOK, Renamed, options, outside, memory
<1>3. CheckpointIsWhole' /\ NothingForgotten' /\ SnapshotIsWhole'
  BY <1>1 DEF IInv, CheckpointIsWhole, NothingForgotten, HoldsFile, ModelCounts, SnapshotIsWhole,
     Bytes, options
<1>4. TmpIsModel' /\ CkptIsModel' /\ ModelCounts' /\ RemovedForRename' /\ Due0'
  BY <1>1 DEF IInv, TmpIsModel, CkptIsModel, ModelCounts, RemovedForRename, Due0, Running, Stopped, memory
<1>5. QED
  BY <1>2, <1>3, <1>4 DEF IInv

LEMMA RenameInv == IInv /\ Rename => IInv'
<1> SUFFICES ASSUME IInv, Rename PROVE IInv'
  OBVIOUS
<1>1. CASE pc' = "list"
  BY <1>1, RenamedInv DEF Rename, Goto
<1>2. CASE pc' # "list"
  <2>1. /\ pc = "rename" /\ pc' = "again" /\ ckpt' = Absent /\ tmp' = tmp
        /\ UNCHANGED <<options, outside, trained, snap, noted, memory, lost>>
        /\ troubles' \in 0..MaxTroubles
    BY <1>2, TroubleType DEF IInv, Rename, Renamed, Goto, Fails
  <2>2. tmp = Whole(model) /\ tmp.is = "whole" /\ tmp.holds = model
    BY <2>1, DiskFacts DEF IInv, TmpIsModel
  <2>3. TypeOK'
    BY <2>1, NothingIsModel DEF IInv, TypeOK, options, outside, memory
  <2>4. CheckpointIsWhole' /\ SnapshotIsWhole'
    BY <2>1, DiskFacts DEF IInv, CheckpointIsWhole, SnapshotIsWhole, Bytes, options
  <2>5. NothingForgotten'
    BY <2>1, <2>2 DEF IInv, NothingForgotten, HoldsFile, ModelCounts, Running, Stopped
  <2>6. TmpIsModel' /\ CkptIsModel' /\ ModelCounts' /\ RemovedForRename' /\ Due0'
    BY <2>1, <2>2 DEF IInv, TmpIsModel, CkptIsModel, ModelCounts, RemovedForRename, Due0,
       Running, Stopped, memory
  <2>7. QED
    BY <2>3, <2>4, <2>5, <2>6 DEF IInv
<1>3. QED
  BY <1>1, <1>2

LEMMA RenameAgainInv == IInv /\ RenameAgain => IInv'
<1> SUFFICES ASSUME IInv, RenameAgain PROVE IInv'
  OBVIOUS
<1>1. CASE pc' = "list"
  BY <1>1, RenamedInv DEF RenameAgain, Exit, Goto
<1>2. CASE pc' # "list"
  BY <1>2, EndInv, TroubleType DEF IInv, RenameAgain, Renamed, Exit, Goto, Fails, Stopped
<1>3. QED
  BY <1>1, <1>2

-----------------------------------------------------------------------------
(* After the checkpoint *)

LEMMA ListInv == IInv /\ List => IInv'
<1> SUFFICES ASSUME IInv, List PROVE IInv'
  OBVIOUS
<1>1. /\ ckpt = Whole(model) /\ ckpt.is = "whole" /\ ckpt.holds = model /\ ckpt # Absent
      /\ pc = "list" /\ pc' = "marks" /\ Running
  BY DiskFacts DEF IInv, CkptIsModel, List, Goto, Running, Stopped
<1>2. /\ trained' \subseteq trained \cup file /\ file' = {} /\ done' = done \cup file
      /\ due' = Due /\ troubles' \in 0..MaxTroubles
      /\ UNCHANGED <<options, outside, ckpt, tmp, snap, noted, model, fresh, taken, lost>>
  BY TroubleType DEF IInv, TypeOK, List, Fails
<1>3. /\ Due \subseteq Marks /\ Due \cap taken = {}
      /\ \A m \in Due : BytesOf(model, size) >= m
  BY DEF Due, Bytes
<1>4. TypeOK'
  BY <1>1, <1>2, <1>3 DEF IInv, TypeOK, options, outside
<1>5. \A f \in trained' \ lost' : model[f] > 0
  BY <1>1, <1>2 DEF IInv, ModelCounts
<1>6. CheckpointIsWhole' /\ NothingForgotten' /\ SnapshotIsWhole'
  BY <1>1, <1>2, <1>5 DEF IInv, CheckpointIsWhole, NothingForgotten, HoldsFile, SnapshotIsWhole,
     Bytes, options
<1>7. TmpIsModel' /\ CkptIsModel' /\ RemovedForRename'
  BY <1>1, <1>2 DEF TmpIsModel, CkptIsModel, RemovedForRename
<1>8. ModelCounts'
  BY <1>1, <1>2, <1>5 DEF ModelCounts
<1>9. Due0'
  BY <1>1, <1>2, <1>3 DEF IInv, Due0, Running, Stopped, options
<1>10. QED
  BY <1>4, <1>6, <1>7, <1>8, <1>9 DEF IInv

\* A snapshot that is due is not noted: it may be written.
LEMMA DueNotNoted == IInv /\ Running => \A m \in due : m \notin noted
BY DEF IInv, Due0

\* Two smallest marks are one.
LEMMA SmallestIsOne ==
  ASSUME TypeOK, NEW m \in due, NEW n \in due,
         \A k \in due : m <= k, \A k \in due : n <= k
  PROVE  m = n
BY TrieTrainerAssumption DEF TypeOK

LEMMA CopyInv == ASSUME IInv, NEW m \in Marks, Copy(m) PROVE IInv'
<1>1. /\ pc = "marks" /\ pc' = "marks" /\ Running /\ m \in due /\ m \notin noted
      /\ snap' = [snap EXCEPT ![m] = Torn]
      /\ UNCHANGED <<options, outside, ckpt, tmp, trained, noted, memory, troubles, lost>>
  BY DueNotNoted DEF Copy, Running, Stopped
<1>2. TypeOK'
  BY <1>1, NothingIsModel DEF IInv, TypeOK, options, outside, memory
<1>3. CheckpointIsWhole' /\ NothingForgotten' /\ SnapshotIsWhole'
  BY <1>1 DEF IInv, TypeOK, CheckpointIsWhole, NothingForgotten, SnapshotIsWhole, Bytes, options
<1>4. TmpIsModel' /\ CkptIsModel' /\ ModelCounts' /\ RemovedForRename' /\ Due0'
  BY <1>1 DEF IInv, TmpIsModel, CkptIsModel, ModelCounts, RemovedForRename, Due0, Running, Stopped,
     memory, options
<1>5. QED
  BY <1>2, <1>3, <1>4 DEF IInv

LEMMA CopyEndsInv == ASSUME IInv, NEW m \in Marks, CopyEnds(m) PROVE IInv'
<1>1. /\ pc = "marks" /\ pc' \in {"marks", "note"} /\ Running /\ m \in due /\ m \notin noted
      /\ \A n \in due : m <= n
      /\ snap' = [snap EXCEPT ![m] = ckpt] \/ snap' = snap
      /\ due' \subseteq due /\ troubles' \in 0..MaxTroubles
      /\ UNCHANGED <<options, outside, ckpt, tmp, trained, noted, model, done, fresh, file, taken, lost>>
  BY DueNotNoted, TroubleType DEF IInv, TypeOK, CopyEnds, Goto, Fails, Running, Stopped
<1>2. TypeOK'
  BY <1>1 DEF IInv, TypeOK, options, outside
<1>3. CheckpointIsWhole' /\ NothingForgotten' /\ SnapshotIsWhole'
  BY <1>1 DEF IInv, TypeOK, CheckpointIsWhole, NothingForgotten, SnapshotIsWhole, Bytes, options
<1>4. TmpIsModel' /\ CkptIsModel' /\ ModelCounts' /\ RemovedForRename'
  BY <1>1 DEF IInv, TmpIsModel, CkptIsModel, ModelCounts, RemovedForRename, Running, Stopped
<1>5. pc' = "note" => \A n \in due' : (\A k \in due' : n <= k) => snap'[n] = Whole(model')
  <2> SUFFICES ASSUME pc' = "note", NEW n \in due', \A k \in due' : n <= k
               PROVE  snap'[n] = Whole(model')
    OBVIOUS
  <2>1. due' = due /\ snap' = [snap EXCEPT ![m] = ckpt] /\ ckpt = Whole(model) /\ model' = model
    BY <1>1 DEF IInv, CkptIsModel, CopyEnds, Goto
  <2>2. n = m
    BY <1>1, <2>1, SmallestIsOne DEF IInv
  <2>3. QED
    BY <2>1, <2>2 DEF IInv, TypeOK
<1>6. Due0'
  BY <1>1, <1>5 DEF IInv, Due0, Running, Stopped, options
<1>7. QED
  BY <1>2, <1>3, <1>4, <1>6 DEF IInv

LEMMA NoteInv == ASSUME IInv, NEW m \in Marks, Note(m) PROVE IInv'
<1>1. /\ pc = "note" /\ pc' = "marks" /\ Running /\ m \in due /\ \A n \in due : m <= n
      /\ taken' = taken \cup {m} /\ due' = due \ {m} /\ noted' \subseteq noted \cup {m}
      /\ troubles' \in 0..MaxTroubles
      /\ UNCHANGED <<options, outside, ckpt, tmp, trained, snap, model, done, fresh, file, lost>>
  BY TroubleType DEF IInv, TypeOK, Note, Goto, Fails, Running, Stopped
<1>2. snap[m].is = "whole" /\ snap[m].holds = model /\ BytesOf(model, size) >= m
  BY <1>1, DiskFacts DEF IInv, Due0
<1>3. TypeOK'
  BY <1>1 DEF IInv, TypeOK, options, outside
<1>4. CheckpointIsWhole' /\ NothingForgotten' /\ SnapshotIsWhole'
  BY <1>1, <1>2 DEF IInv, CheckpointIsWhole, NothingForgotten, SnapshotIsWhole, Bytes, options
<1>5. TmpIsModel' /\ CkptIsModel' /\ ModelCounts' /\ RemovedForRename'
  BY <1>1 DEF IInv, TmpIsModel, CkptIsModel, ModelCounts, RemovedForRename, Running, Stopped
<1>6. Due0'
  BY <1>1 DEF IInv, Due0, Running, Stopped, options
<1>7. QED
  BY <1>3, <1>4, <1>5, <1>6 DEF IInv

-----------------------------------------------------------------------------
(* The whole *)

LEMMA OutsideInv == IInv /\ (\E f \in Files : Downloaded(f) \/ Unlock(f)) => IInv'
<1> SUFFICES ASSUME IInv, NEW f \in Files, Downloaded(f) \/ Unlock(f) PROVE IInv'
  OBVIOUS
<1>1. /\ UNCHANGED <<options, disk, pc, memory, troubles, lost>>
      /\ corpus' \subseteq Files /\ locked' \subseteq Files
  BY DEF IInv, TypeOK, Downloaded, Unlock
<1>2. TypeOK'
  BY <1>1 DEF IInv, TypeOK, options, disk, memory
<1>3. QED
  BY <1>1, <1>2 DEF IInv, CheckpointIsWhole, NothingForgotten, SnapshotIsWhole, Bytes, TmpIsModel,
     CkptIsModel, ModelCounts, RemovedForRename, Due0, Running, Stopped, options, disk, memory

LEMMA StutterInv == IInv /\ UNCHANGED vars => IInv'
BY DEF IInv, TypeOK, CheckpointIsWhole, NothingForgotten, SnapshotIsWhole, Bytes, TmpIsModel,
   CkptIsModel, ModelCounts, RemovedForRename, Due0, Running, Stopped,
   vars, options, outside, disk, memory

LEMMA StepInv == IInv /\ [Next]_vars => IInv'
<1> SUFFICES ASSUME IInv, [Next]_vars PROVE IInv'
  OBVIOUS
<1>1. CASE Start
  BY <1>1, StartInv
<1>2. CASE Step
  BY <1>2, LoopInv, FinishInv, TrainInv, OpenInv, FlushInv, RenameInv, RenameAgainInv, ListInv,
     CopyInv, CopyEndsInv, NoteInv DEF Step
<1>3. CASE Stop
  BY <1>3, StopInv
<1>4. CASE \E f \in Files : Downloaded(f) \/ Unlock(f)
  BY <1>4, OutsideInv
<1>5. CASE UNCHANGED vars
  BY <1>5, StutterInv
<1>6. QED
  BY <1>1, <1>2, <1>3, <1>4, <1>5 DEF Next

LEMMA Inductive == Spec => []IInv
BY InitInv, StepInv, PTL DEF Spec

\* The state keeps its type, the checkpoint is never torn and every snapshot that
\* is noted is whole, whatever the trainers are stopped at and however often.
THEOREM DiskIsSound == Spec => []TrainerInv
BY Inductive, PTL DEF IInv, TrainerInv

\* A file trained.txt names is counted in the checkpoint, or in the .tmp file
\* while a failed rename is tried again.
THEOREM ListedIsHeld == Spec => []NothingForgotten
BY Inductive, PTL DEF IInv

\* The checkpoint that trained.txt, the snapshots and the next run are about is
\* the model of the process from the rename to the next file.
THEOREM SavedIsModel == Spec => []CkptIsModel
BY Inductive, PTL DEF IInv

-----------------------------------------------------------------------------
(* --once: done is what the checkpoint holds *)

\* What a run takes for done is in its model and, but for a checkpoint removed by
\* a failed rename, in the checkpoint.
DoneIsHeld ==
  Running => \A f \in done \ lost : model[f] > 0 /\ (pc # "again" => HoldsFile(ckpt, f))

\* The model is what the checkpoint holds.
LEMMA WholeHolds ==
  ASSUME ckpt = Whole(model), NEW f, model[f] > 0
  PROVE  HoldsFile(ckpt, f)
BY DiskFacts DEF HoldsFile

LEMMA StartHeld == IInv /\ Start => DoneIsHeld'
<1> SUFFICES ASSUME IInv, Start PROVE DoneIsHeld'
  OBVIOUS
<1>1. CASE Resume
  BY <1>1, DiskFacts DEF IInv, NothingForgotten, HoldsFile, DoneIsHeld, Resume, Begin, disk
<1>2. CASE New \/ (CannotResume /\ pc' = "scan")
  BY <1>2 DEF DoneIsHeld, New, CannotResume, Begin
<1>3. CASE CannotResume /\ pc' # "scan"
  BY <1>3 DEF DoneIsHeld, Running, Stopped, CannotResume, Begin
<1>4. QED
  BY <1>1, <1>2, <1>3 DEF Start

LEMMA SaveHeld == IInv /\ DoneIsHeld /\ (Open \/ Flush \/ Rename \/ RenameAgain) => DoneIsHeld'
<1> SUFFICES ASSUME IInv, DoneIsHeld, Open \/ Flush \/ Rename \/ RenameAgain, Running' PROVE DoneIsHeld'
  BY DEF DoneIsHeld
<1>1. Running /\ UNCHANGED <<memory, lost>>
  BY DEF Open, Flush, Rename, RenameAgain, Renamed, Exit, Goto, Running, Stopped
<1>2. CASE pc' = "list"
  <2>1. ckpt' = Whole(model)
    BY <1>2 DEF IInv, TmpIsModel, Open, Flush, Rename, RenameAgain, Renamed, Exit, Goto
  <2>2. QED
    BY <1>1, <2>1, DiskFacts DEF DoneIsHeld, HoldsFile, memory
<1>3. CASE pc' # "list"
  <2>1. pc' = "again" \/ (pc # "again" /\ ckpt' = ckpt)
    BY <1>3 DEF Open, Flush, Rename, RenameAgain, Renamed, Exit, Goto, Running, Stopped
  <2>2. QED
    BY <1>1, <2>1 DEF DoneIsHeld, HoldsFile, memory
<1>4. QED
  BY <1>2, <1>3

LEMMA TrainHeld == ASSUME IInv, DoneIsHeld, NEW f \in Files, Train(f) PROVE DoneIsHeld'
<1>1. \A g \in Files : model[g] > 0 => model'[g] > 0
  BY TrieTrainerAssumption DEF IInv, TypeOK, Train, Models
<1>2. /\ pc = "files" /\ ckpt' = ckpt /\ done' = done /\ lost' = lost /\ done \subseteq Files
  BY DEF IInv, TypeOK, Train, Goto, disk
<1>3. QED
  BY <1>1, <1>2 DEF DoneIsHeld, HoldsFile, Running, Stopped

LEMMA ListHeld == IInv /\ DoneIsHeld /\ List => DoneIsHeld'
<1> SUFFICES ASSUME IInv, DoneIsHeld, List PROVE DoneIsHeld'
  OBVIOUS
<1>1. /\ pc = "list" /\ pc' = "marks" /\ ckpt' = Whole(model) /\ model' = model
      /\ lost' = lost /\ done' = done \cup file
  BY DEF IInv, CkptIsModel, List, Goto
<1>2. \A f \in done' \ lost' : model[f] > 0
  BY <1>1 DEF IInv, ModelCounts, DoneIsHeld, Running, Stopped
<1>3. QED
  BY <1>1, <1>2, DiskFacts DEF DoneIsHeld, HoldsFile

LEMMA HeldInv == IInv /\ DoneIsHeld /\ [Next]_vars => DoneIsHeld'
<1> SUFFICES ASSUME IInv, DoneIsHeld, [Next]_vars PROVE DoneIsHeld'
  OBVIOUS
<1>1. CASE Start
  BY <1>1, StartHeld
<1>2. CASE Open \/ Flush \/ Rename \/ RenameAgain
  BY <1>2, SaveHeld
<1>3. CASE List \/ \E f \in Files : Train(f)
  BY <1>3, ListHeld, TrainHeld
<1>4. CASE Finish \/ Stop
  BY <1>4 DEF DoneIsHeld, Running, Stopped, Finish, Stop, Exit, Goto
<1>5. CASE \/ Scan \/ EndOfFiles \/ EndOfMarks \/ \E f \in Files : Skip(f)
           \/ \E m \in Marks : Copy(m) \/ CopyEnds(m) \/ Note(m)
  <2>1. Running /\ pc # "again" /\ UNCHANGED <<ckpt, model, done, lost>>
    BY <1>5 DEF Scan, EndOfFiles, EndOfMarks, Skip, Copy, CopyEnds, Note, Goto, Running, Stopped,
       disk, memory
  <2>2. QED
    BY <2>1 DEF DoneIsHeld, HoldsFile
<1>6. CASE (\E f \in Files : Downloaded(f) \/ Unlock(f)) \/ UNCHANGED vars
  <2>1. UNCHANGED <<pc, ckpt, model, done, lost>>
    BY <1>6 DEF Downloaded, Unlock, vars, disk, memory
  <2>2. QED
    BY <2>1 DEF DoneIsHeld, HoldsFile, Running
<1>7. QED
  BY <1>1, <1>2, <1>3, <1>4, <1>5, <1>6 DEF Next, Step

\* Only Finish ends a run with "done", and its walk has found nothing fresh.
LEMMA DoneStep ==
  IInv /\ DoneIsHeld /\ [Next]_vars
    => [pc # "done" /\ pc' = "done" =>
          \A f \in (IF WalkBrokeOff THEN done ELSE corpus) : HoldsFile(ckpt, f) \/ f \in lost]_vars
<1> SUFFICES ASSUME IInv, DoneIsHeld, Next, pc # "done", pc' = "done",
                    NEW f, f \in (IF WalkBrokeOff THEN done ELSE corpus)
             PROVE  HoldsFile(ckpt, f) \/ f \in lost
  OBVIOUS
<1>1. Finish
  BY DEF Next, Start, Resume, New, CannotResume, Begin, Step, Scan, EndOfFiles, Train, Skip, Open, Flush,
     Rename, RenameAgain, Renamed, List, Copy, CopyEnds, Note, EndOfMarks, Stop, Downloaded, Unlock, Exit, Goto
<1>2. pc = "scan" /\ f \in done
  <2>1. CASE WalkBrokeOff
    BY <1>1, <2>1 DEF Finish, Exit, Goto
  <2>2. CASE ~WalkBrokeOff
    <3>1. troubles \in Nat
      BY TrieTrainerAssumption DEF IInv, TypeOK
    <3>2. corpus \subseteq done
      BY <1>1, <2>2, <3>1 DEF Finish, Walk, WalkBrokeOff, Fails, Trouble
    <3>3. QED
      BY <1>1, <2>2, <3>2 DEF Finish, Exit, Goto
  <2>3. QED
    BY <2>1, <2>2
<1>3. QED
  BY <1>2 DEF DoneIsHeld, Running, Stopped

\* --once ends when every file finished by then is in the checkpoint, or was lost with an
\* earlier one; after a walk that was broken off, every file it takes for done is.
THEOREM DoneIsAll == Spec => DoneMeansAll
<1>1. Init => DoneIsHeld
  BY DEF Init, DoneIsHeld, Running, Stopped
<1>2. Spec => [](IInv /\ DoneIsHeld)
  BY <1>1, InitInv, StepInv, HeldInv, PTL DEF Spec
<1>3. QED
  BY <1>2, DoneStep, PTL DEF Spec, DoneMeansAll

-----------------------------------------------------------------------------
(* Sums over finite sets *)

\* A set of numbers that is not empty has a least element.
LEMMA LeastNat ==
  ASSUME NEW T \in SUBSET Nat, T # {}
  PROVE  \E n \in T : \A k \in T : n <= k
<1> DEFINE R == OpToRel(<, Nat)
<1>1. R = {ss \in Nat \X Nat : ss[1] < ss[2]}
  BY DEF OpToRel
<1>2. \E n \in T : \A k \in T : ~ (<<k, n>> \in R)
  BY NatLessThanWellFounded, WFMin
<1> HIDE DEF R
<1>3. PICK n \in T : \A k \in T : ~ (<<k, n>> \in R)
  BY <1>2
<1>4. ASSUME NEW k \in T PROVE n <= k
  <2>1. <<k, n>> \in Nat \X Nat
    OBVIOUS
  <2>2. ~(k < n)
    BY <1>1, <1>3, <2>1
  <2>3. QED
    BY <2>2
<1>5. QED
  BY <1>3, <1>4

\* Induction over the subsets of a finite set: of those that fail there would be
\* one of which every smaller one does not.
LEMMA LeastSubset ==
  ASSUME NEW S, IsFiniteSet(S), NEW X \in SUBSET (SUBSET S), X # {}
  PROVE  \E s \in X : \A x \in s : s \ {x} \notin X
<1> DEFINE T == {n \in Nat : \E s \in X : Cardinality(s) = n}
<1>1. \A s \in X : IsFiniteSet(s) /\ Cardinality(s) \in Nat
  BY FS_Subset, FS_CardinalityType
<1>2. T \in SUBSET Nat /\ T # {}
  BY <1>1
<1>3. PICK n \in T : \A k \in T : n <= k
  BY <1>2, LeastNat
<1>4. PICK s \in X : Cardinality(s) = n
  BY <1>3
<1>5. ASSUME NEW x \in s, s \ {x} \in X PROVE FALSE
  <2>1. Cardinality(s \ {x}) = n - 1
    BY <1>1, <1>4, FS_RemoveElement
  <2>2. Cardinality(s \ {x}) \in T /\ n \in Nat
    BY <1>1, <1>3, <1>5
  <2> HIDE DEF T
  <2>3. n <= Cardinality(s \ {x})
    BY <1>3, <2>2
  <2>4. QED
    BY <2>1, <2>2, <2>3
<1>6. QED
  BY <1>4, <1>5

Picked(s) == CHOOSE x \in s : TRUE
Natural(f, S) == \A x \in S : f[x] \in Nat

\* What SumFunctionOnSet asks of the function it chooses.
Added(f, g, s) == IF s = {} THEN 0 ELSE f[Picked(s)] + g[s \ {Picked(s)}]
Adds(f, S, g) == g = [s \in SUBSET S |-> Added(f, g, s)]

LEMMA SumIs ==
  ASSUME NEW f, NEW S
  PROVE  SumFunctionOnSet(f, S) = (CHOOSE g : Adds(f, S, g))[S]
BY DEF SumFunctionOnSet, FoldFunctionOnSet, MapThenFoldSet, Picked, Adds, Added

\* There is one, built from the small subsets up.
LEMMA SumExists ==
  ASSUME NEW f, NEW S, IsFiniteSet(S), Natural(f, S)
  PROVE  \E g \in [SUBSET S -> Nat] : Adds(f, S, g)
<1> DEFINE Small(n) == {s \in SUBSET S : Cardinality(s) <= n}
           Partial(n, g) == g \in [Small(n) -> Nat] /\ \A s \in Small(n) : g[s] = Added(f, g, s)
           T == {n \in Nat : ~ \E g : Partial(n, g)}
<1>1. \A s \in SUBSET S : /\ IsFiniteSet(s) /\ Cardinality(s) \in Nat
                          /\ Cardinality(s) = 0 <=> s = {}
  BY FS_Subset, FS_CardinalityType, FS_EmptySet
<1>2. ASSUME NEW s \in SUBSET S, s # {}
      PROVE  /\ Picked(s) \in s /\ f[Picked(s)] \in Nat /\ s \ {Picked(s)} \in SUBSET S
             /\ Cardinality(s \ {Picked(s)}) = Cardinality(s) - 1
  BY <1>1, <1>2, FS_RemoveElement DEF Picked, Natural
<1>3. ASSUME T # {} PROVE FALSE
  <2>1. PICK n \in T : \A k \in T : n <= k
    BY <1>3, LeastNat
  <2>2. CASE n = 0
    <3>1. Small(0) = {{}}
      BY <1>1
    <3>2. Partial(0, [s \in Small(0) |-> 0])
      BY <3>1 DEF Added
    <3>3. QED
      BY <2>1, <2>2, <3>2
  <2>3. CASE n # 0
    <3>0. n \in Nat /\ n - 1 \in Nat /\ ~(n <= n - 1)
      BY <2>1, <2>3
    <3>1. n - 1 \notin T
      <4> HIDE DEF T
      <4>1. QED
        BY <2>1, <3>0
    <3>2. PICK g : Partial(n - 1, g)
      BY <3>0, <3>1
    <3> DEFINE h == [s \in Small(n) |-> Added(f, g, s)]
    <3>3. ASSUME NEW s \in Small(n), s # {}
          PROVE  s \ {Picked(s)} \in Small(n - 1) /\ g[s \ {Picked(s)}] \in Nat
      <4>1. s \ {Picked(s)} \in Small(n - 1)
        BY <1>1, <1>2, <3>3, <2>1
      <4>2. QED
        BY <4>1, <3>2
    <3>4. h \in [Small(n) -> Nat]
      BY <3>3, <1>2 DEF Added
    <3>5. \A s \in Small(n - 1) : s \in Small(n) /\ h[s] = g[s]
      BY <3>2, <1>1, <2>1
    <3>6. ASSUME NEW s \in Small(n) PROVE h[s] = Added(f, h, s)
      BY <3>3, <3>5 DEF Added
    <3>7. Partial(n, h)
      BY <3>4, <3>6
    <3>8. QED
      BY <2>1, <3>7
  <2>4. QED
    BY <2>2, <2>3
<1>4. Cardinality(S) \in Nat /\ Small(Cardinality(S)) = SUBSET S
  BY <1>1, FS_Subset
<1>5. PICK g : Partial(Cardinality(S), g)
  BY <1>3, <1>4
<1>6. g \in [SUBSET S -> Nat] /\ \A s \in SUBSET S : g[s] = Added(f, g, s)
  BY <1>4, <1>5
<1>7. Adds(f, S, g)
  BY <1>6 DEF Adds
<1>8. QED
  BY <1>6, <1>7

\* Two of them agree wherever both are defined.
LEMMA SumsAgree ==
  ASSUME NEW f, NEW S, IsFiniteSet(S), NEW R \in SUBSET S, NEW g, NEW h,
         Adds(f, S, g), Adds(f, R, h)
  PROVE  \A s \in SUBSET R : g[s] = h[s]
<1> DEFINE X == {s \in SUBSET R : g[s] # h[s]}
<1>1. IsFiniteSet(R)
  BY FS_Subset
<1>2. ASSUME X # {} PROVE FALSE
  <2>1. PICK s \in X : \A x \in s : s \ {x} \notin X
    BY <1>1, <1>2, LeastSubset
  <2>2. g[s] = Added(f, g, s) /\ h[s] = Added(f, h, s)
    BY <2>1 DEF Adds
  <2>3. CASE s = {}
    BY <2>1, <2>2, <2>3 DEF Added
  <2>4. CASE s # {}
    <3>1. Picked(s) \in s
      BY <2>4 DEF Picked
    <3>2. g[s \ {Picked(s)}] = h[s \ {Picked(s)}]
      BY <2>1, <3>1
    <3>3. QED
      BY <2>1, <2>2, <2>4, <3>2 DEF Added
  <2>5. QED
    BY <2>3, <2>4
<1>3. QED
  BY <1>2

\* A sum is a number, nothing sums up to zero, and one element can be split off ...
LEMMA SumPicked ==
  ASSUME NEW f, NEW S, IsFiniteSet(S), Natural(f, S)
  PROVE  /\ SumFunctionOnSet(f, S) \in Nat
         /\ S = {} => SumFunctionOnSet(f, S) = 0
         /\ S # {} => /\ Picked(S) \in S
                      /\ SumFunctionOnSet(f, S) = f[Picked(S)] + SumFunctionOnSet(f, S \ {Picked(S)})
<1> DEFINE G(R) == CHOOSE g : Adds(f, R, g)
<1>1. PICK g \in [SUBSET S -> Nat] : Adds(f, S, g)
  BY SumExists
<1>2. Adds(f, S, G(S))
  BY <1>1
<1>3. G(S)[S] = g[S] /\ SumFunctionOnSet(f, S) = G(S)[S]
  BY <1>1, <1>2, SumsAgree, SumIs
<1>4. g[S] = Added(f, g, S) /\ g[S] \in Nat
  BY <1>1 DEF Adds
<1>5. CASE S = {}
  BY <1>3, <1>4, <1>5 DEF Added
<1>6. CASE S # {}
  <2> DEFINE R == S \ {Picked(S)}
  <2>1. Picked(S) \in S /\ R \in SUBSET S /\ IsFiniteSet(R) /\ Natural(f, R)
    BY <1>6, FS_Subset DEF Picked, Natural
  <2>2. \E h \in [SUBSET R -> Nat] : Adds(f, R, h)
    BY <2>1, SumExists
  <2>3. Adds(f, R, G(R))
    BY <2>2
  <2>4. g[R] = G(R)[R] /\ SumFunctionOnSet(f, R) = G(R)[R]
    BY <2>1, <2>3, <1>1, SumsAgree, SumIs
  <2>5. QED
    BY <2>1, <2>4, <1>3, <1>4, <1>6 DEF Added
<1>7. QED
  BY <1>5, <1>6

\* ... whichever element it is.
LEMMA SumRemove ==
  ASSUME NEW f, NEW S, IsFiniteSet(S), Natural(f, S), NEW x \in S
  PROVE  SumFunctionOnSet(f, S) = f[x] + SumFunctionOnSet(f, S \ {x})
<1> DEFINE Splits(s, a) == SumFunctionOnSet(f, s) = f[a] + SumFunctionOnSet(f, s \ {a})
           X == {s \in SUBSET S : \E a \in s : ~Splits(s, a)}
<1>1. ASSUME NEW s \in SUBSET S
      PROVE  /\ IsFiniteSet(s) /\ Natural(f, s) /\ SumFunctionOnSet(f, s) \in Nat
             /\ \A a \in s : f[a] \in Nat
             /\ s # {} => Picked(s) \in s /\ Splits(s, Picked(s))
  <2>1. IsFiniteSet(s) /\ Natural(f, s)
    BY FS_Subset DEF Natural
  <2>2. QED
    BY <2>1, SumPicked DEF Natural
<1>2. ASSUME X # {} PROVE FALSE
  <2>1. PICK s \in X : \A a \in s : s \ {a} \notin X
    BY <1>2, LeastSubset
  <2>2. PICK a \in s : ~Splits(s, a)
    BY <2>1
  <2> DEFINE b == Picked(s)
  <2>3. b \in s /\ Splits(s, b) /\ a # b /\ f[a] \in Nat /\ f[b] \in Nat
    BY <1>1, <2>1, <2>2
  <2> HIDE DEF b
  <2>4. Splits(s \ {b}, a) /\ Splits(s \ {a}, b)
    BY <2>1, <2>2, <2>3
  <2>5. (s \ {b}) \ {a} = (s \ {a}) \ {b}
    OBVIOUS
  <2>6. /\ SumFunctionOnSet(f, s) \in Nat /\ SumFunctionOnSet(f, s \ {a}) \in Nat
        /\ SumFunctionOnSet(f, s \ {b}) \in Nat
        /\ SumFunctionOnSet(f, (s \ {a}) \ {b}) \in Nat
    BY <1>1, <2>1
  <2> DEFINE w == SumFunctionOnSet(f, s)
             p == SumFunctionOnSet(f, s \ {a})
             q == SumFunctionOnSet(f, s \ {b})
             z == SumFunctionOnSet(f, (s \ {a}) \ {b})
  <2>7. w = f[b] + q /\ q = f[a] + z /\ p = f[b] + z
    BY <2>3, <2>4, <2>5
  <2>8. w \in Nat /\ p \in Nat /\ q \in Nat /\ z \in Nat
    BY <2>6
  <2> HIDE DEF w, p, q, z
  <2>9. w = f[a] + p
    BY <2>3, <2>7, <2>8
  <2>10. QED
    BY <2>2, <2>9 DEF w, p
<1>3. QED
  BY <1>2

\* Where the terms do not grow the sum does not ...
LEMMA SumMonotone ==
  ASSUME NEW S, IsFiniteSet(S), NEW f, NEW g, Natural(f, S), Natural(g, S),
         \A x \in S : f[x] <= g[x]
  PROVE  SumFunctionOnSet(f, S) <= SumFunctionOnSet(g, S)
<1> DEFINE X == {s \in SUBSET S : ~(SumFunctionOnSet(f, s) <= SumFunctionOnSet(g, s))}
<1>1. ASSUME NEW s \in SUBSET S
      PROVE  IsFiniteSet(s) /\ Natural(f, s) /\ Natural(g, s)
  BY FS_Subset DEF Natural
<1>2. ASSUME X # {} PROVE FALSE
  <2>1. PICK s \in X : \A a \in s : s \ {a} \notin X
    BY <1>2, LeastSubset
  <2>2. s # {}
    <3>1. s = {} => SumFunctionOnSet(f, s) = 0 /\ SumFunctionOnSet(g, s) = 0
      BY <1>1, <2>1, SumPicked
    <3>2. QED
      BY <2>1, <3>1
  <2>3. PICK a \in s : TRUE
    BY <2>2
  <2>4. SumFunctionOnSet(f, s \ {a}) <= SumFunctionOnSet(g, s \ {a})
    BY <2>1
  <2>5. /\ SumFunctionOnSet(f, s) = f[a] + SumFunctionOnSet(f, s \ {a})
        /\ SumFunctionOnSet(g, s) = g[a] + SumFunctionOnSet(g, s \ {a})
    BY <1>1, <2>1, SumRemove
  <2>6. /\ SumFunctionOnSet(f, s \ {a}) \in Nat /\ SumFunctionOnSet(g, s \ {a}) \in Nat
        /\ f[a] \in Nat /\ g[a] \in Nat /\ f[a] <= g[a]
    BY <1>1, <2>1, SumPicked DEF Natural
  <2>7. SumFunctionOnSet(f, s) <= SumFunctionOnSet(g, s)
    BY <2>4, <2>5, <2>6
  <2>8. QED
    BY <2>1, <2>7
<1>3. QED
  BY <1>2

\* ... and of the same terms it is the same.
LEMMA SumSame ==
  ASSUME NEW S, IsFiniteSet(S), NEW f, NEW g, Natural(f, S), \A x \in S : f[x] = g[x]
  PROVE  SumFunctionOnSet(f, S) = SumFunctionOnSet(g, S)
<1>1. Natural(g, S) /\ \A x \in S : f[x] <= g[x] /\ g[x] <= f[x]
  BY DEF Natural
<1>2. /\ SumFunctionOnSet(f, S) <= SumFunctionOnSet(g, S)
      /\ SumFunctionOnSet(g, S) <= SumFunctionOnSet(f, S)
  BY <1>1, SumMonotone
<1>3. SumFunctionOnSet(f, S) \in Nat /\ SumFunctionOnSet(g, S) \in Nat
  BY <1>1, SumPicked
<1>4. QED
  BY <1>2, <1>3

\* One more of one term is one more of the sum.
LEMMA SumUpdate ==
  ASSUME NEW S, IsFiniteSet(S), NEW f, NEW g, Natural(f, S), NEW x \in S, g[x] \in Nat,
         \A y \in S : y # x => f[y] = g[y]
  PROVE  /\ SumFunctionOnSet(g, S) = (SumFunctionOnSet(f, S) - f[x]) + g[x]
         /\ f[x] <= SumFunctionOnSet(f, S)
<1> DEFINE R == S \ {x}
<1>1. IsFiniteSet(R) /\ Natural(f, R) /\ Natural(g, S) /\ Natural(g, R) /\ \A y \in R : f[y] = g[y]
  BY FS_Subset DEF Natural
<1>2. SumFunctionOnSet(f, R) = SumFunctionOnSet(g, R)
  BY <1>1, SumSame
<1>3. /\ SumFunctionOnSet(f, S) = f[x] + SumFunctionOnSet(f, R)
      /\ SumFunctionOnSet(g, S) = g[x] + SumFunctionOnSet(g, R)
  BY <1>1, SumRemove
<1>4. SumFunctionOnSet(f, R) \in Nat /\ f[x] \in Nat
  BY <1>1, SumPicked DEF Natural
<1>5. QED
  BY <1>2, <1>3, <1>4

\* A sum of zeros.
LEMMA SumZero ==
  ASSUME NEW S, IsFiniteSet(S), NEW f, \A x \in S : f[x] = 0
  PROVE  SumFunctionOnSet(f, S) = 0
<1> DEFINE X == {s \in SUBSET S : SumFunctionOnSet(f, s) # 0}
<1>1. ASSUME NEW s \in SUBSET S PROVE IsFiniteSet(s) /\ Natural(f, s)
  BY FS_Subset DEF Natural
<1>2. ASSUME X # {} PROVE FALSE
  <2>1. PICK s \in X : \A a \in s : s \ {a} \notin X
    BY <1>2, LeastSubset
  <2>2. s # {}
    BY <1>1, <2>1, SumPicked
  <2>3. PICK a \in s : TRUE
    BY <2>2
  <2>4. SumFunctionOnSet(f, s) = f[a] + SumFunctionOnSet(f, s \ {a})
    BY <1>1, <2>1, SumRemove
  <2>5. QED
    BY <2>1, <2>3, <2>4
<1>3. QED
  BY <1>2

\* Fewer terms sum up to no more.
LEMMA SumSubset ==
  ASSUME NEW S, IsFiniteSet(S), NEW f, Natural(f, S), NEW R \in SUBSET S
  PROVE  SumFunctionOnSet(f, R) <= SumFunctionOnSet(f, S)
<1> DEFINE X == {s \in SUBSET S : R \subseteq s /\
                   ~(SumFunctionOnSet(f, R) <= SumFunctionOnSet(f, s))}
<1>1. ASSUME NEW s \in SUBSET S
      PROVE  IsFiniteSet(s) /\ Natural(f, s) /\ SumFunctionOnSet(f, s) \in Nat
  <2>1. IsFiniteSet(s) /\ Natural(f, s)
    BY FS_Subset DEF Natural
  <2>2. QED
    BY <2>1, SumPicked
<1>2. ASSUME X # {} PROVE FALSE
  <2>0. X \in SUBSET (SUBSET S)
    OBVIOUS
  <2> HIDE DEF X
  <2>1. PICK s \in X : \A a \in s : s \ {a} \notin X
    BY <1>2, <2>0, LeastSubset
  <2> USE DEF X
  <2>2. s # R
    BY <1>1, <2>1
  <2>3. PICK a \in s : a \notin R
    BY <2>1, <2>2
  <2>4. SumFunctionOnSet(f, R) <= SumFunctionOnSet(f, s \ {a})
    BY <2>1, <2>3
  <2>5. SumFunctionOnSet(f, s) = f[a] + SumFunctionOnSet(f, s \ {a})
    BY <1>1, <2>1, SumRemove
  <2>6. /\ SumFunctionOnSet(f, s \ {a}) \in Nat /\ SumFunctionOnSet(f, R) \in Nat
        /\ f[a] \in Nat /\ SumFunctionOnSet(f, s) \in Nat
    BY <1>1, <2>1 DEF Natural
  <2>7. SumFunctionOnSet(f, R) <= SumFunctionOnSet(f, s)
    BY <2>4, <2>5, <2>6
  <2>8. QED
    BY <2>1, <2>7
<1>3. QED
  BY <1>2

-----------------------------------------------------------------------------
(* The deep check of the trie trainers' checkpoint *)

\* The check compares one sum, of the bytes of every file as often as it is counted,
\* with that of the files that can be read: with every file counted at least
\* once they are the same only if none is counted twice.
LEMMA SumsTellTwice ==
  ASSUME TypeOK, NothingForgotten,
         Verified, lost = {}
  PROVE  \A f \in corpus : ckpt.holds[f] = 1
<1> DEFINE m == ckpt.holds
           b == [f \in Files |-> m[f] * size[f]]
           C == corpus \ locked
<1>1. IsFiniteSet(Files) /\ Sizes \subseteq Nat \ {0}
  BY TrieTrainerAssumption
<1>2. size \in [Files -> Sizes] /\ corpus \in SUBSET Files /\ C \in SUBSET Files
  BY DEF TypeOK
<1>3. \A f \in corpus : m[f] > 0
  BY DEF NothingForgotten, Verified, HoldsFile, Absent
<1>4. m \in [Files -> Nat]
  BY DiskCases DEF TypeOK, Verified, OnDisk, Models,
     Absent, Torn, Whole
<1> HIDE DEF m, b, C
<1>5. \A f \in Files : m[f] \in Nat /\ size[f] \in Nat /\ size[f] > 0
  <2> SUFFICES ASSUME NEW f \in Files
               PROVE  m[f] \in Nat /\ size[f] \in Nat /\ size[f] > 0
    OBVIOUS
  <2>1. size[f] \in Sizes
    BY <1>2
  <2>2. size[f] \in Nat \ {0}
    BY <1>1, <2>1
  <2>3. QED
    BY <1>4, <2>2
<1>6. \A f \in Files : b[f] \in Nat /\ b[f] = m[f] * size[f]
  BY <1>5 DEF b
<1>7. \A f \in corpus : b[f] >= size[f] /\ (m[f] # 1 => b[f] > size[f])
  <2> SUFFICES ASSUME NEW f \in corpus
               PROVE  b[f] >= size[f] /\ (m[f] # 1 => b[f] > size[f])
    OBVIOUS
  <2>1. f \in Files /\ m[f] \in Nat /\ size[f] \in Nat /\ m[f] >= 1 /\ size[f] > 0
    BY <1>2, <1>3, <1>5
  <2>2. \A x, y \in Nat : x >= 1 /\ y > 0 => x * y >= y /\ (x # 1 => x * y > y)
    OBVIOUS
  <2>3. b[f] = m[f] * size[f]
    BY <1>6, <2>1
  <2>4. QED
    BY <2>1, <2>2, <2>3
<1>8. SumFunctionOnSet(b, Files) = SumFunctionOnSet(size, C)
  BY DEF Verified, Bytes, BytesOf, CorpusBytes, b, m, C
<1>9. SUFFICES ASSUME NEW f \in corpus, m[f] # 1 PROVE FALSE
  BY DEF m
<1>10. f \in Files /\ b[f] > size[f] /\ b[f] \in Nat /\ size[f] \in Nat
  BY <1>2, <1>5, <1>6, <1>7, <1>9
<1> DEFINE R == Files \ {f}
<1>11. /\ IsFiniteSet(R) /\ IsFiniteSet(C) /\ Natural(b, Files) /\ Natural(b, R) /\ Natural(b, C)
       /\ Natural(size, C)
  BY <1>1, <1>2, <1>5, <1>6, FS_Subset DEF Natural
<1>12. /\ SumFunctionOnSet(b, Files) = b[f] + SumFunctionOnSet(b, R)
       /\ SumFunctionOnSet(b, R) \in Nat /\ SumFunctionOnSet(b, C) \in Nat
       /\ SumFunctionOnSet(size, C) \in Nat
  <2>1. SumFunctionOnSet(b, Files) = b[f] + SumFunctionOnSet(b, R)
    BY <1>1, <1>10, <1>11, SumRemove
  <2>2. QED
    BY <2>1, <1>11, SumPicked
<1> DEFINE rest == SumFunctionOnSet(b, R)
<1>13. CASE f \in C
  <2> DEFINE D == C \ {f}
  <2>1. /\ IsFiniteSet(D) /\ D \in SUBSET R /\ Natural(b, D) /\ Natural(size, D)
        /\ \A x \in D : size[x] <= b[x]
    BY <1>2, <1>5, <1>6, <1>7, <1>11, FS_Subset DEF Natural, C
  <2>2. SumFunctionOnSet(size, C) = size[f] + SumFunctionOnSet(size, D)
    BY <1>11, <1>13, SumRemove
  <2>3. SumFunctionOnSet(size, D) <= SumFunctionOnSet(b, D)
    BY <2>1, SumMonotone
  <2>4. SumFunctionOnSet(b, D) <= SumFunctionOnSet(b, R)
    BY <2>1, <1>11, SumSubset
  <2>5. SumFunctionOnSet(size, D) \in Nat /\ SumFunctionOnSet(b, D) \in Nat
    BY <2>1, SumPicked
  <2> DEFINE few == SumFunctionOnSet(b, D)
             sizes == SumFunctionOnSet(size, D)
  <2>6. /\ b[f] + rest = size[f] + sizes
        /\ sizes <= few /\ few <= rest /\ rest \in Nat /\ few \in Nat /\ sizes \in Nat
    BY <1>8, <1>12, <2>2, <2>3, <2>4, <2>5
  <2> HIDE DEF rest, few, sizes
  <2>7. \A x, y \in Nat : x > y => x + rest # y + sizes
    BY <2>6
  <2>8. QED
    BY <1>10, <2>6, <2>7
<1>14. CASE f \notin C
  <2>1. C \in SUBSET R /\ \A x \in C : size[x] <= b[x]
    BY <1>2, <1>5, <1>6, <1>7, <1>14 DEF C
  <2>2. SumFunctionOnSet(size, C) <= SumFunctionOnSet(b, C)
    BY <2>1, <1>11, SumMonotone
  <2>3. SumFunctionOnSet(b, C) <= SumFunctionOnSet(b, R)
    BY <2>1, <1>11, SumSubset
  <2>4. QED
    BY <1>8, <1>10, <1>12, <2>2, <2>3
<1>15. QED
  BY <1>13, <1>14

\* trie_ckpt verify --deep sees the sum of the bytes and the list, not what was
\* counted: it is right all the same, for any corpus, sizes and stops, as long as
\* no run began without its checkpoint.
THEOREM VerifiedIsTrained == Spec => []VerifiedMeansTrained
<1>1. IInv => VerifiedMeansTrained
  BY SumsTellTwice DEF IInv, VerifiedMeansTrained
<1>2. Spec => []IInv
  BY Inductive
<1>3. QED
  BY <1>1, <1>2, PTL

-----------------------------------------------------------------------------
(* MemoryBudget *)

\* A thread asks for bytes inside an operation only, and never for more than it may
\* hold in the end.
AsksWithinLease ==
  \A t \in Threads : /\ at[t] = "idle" => op[t] = "none"
                     /\ op[t] \in {"none", "trim"} => bytes[t] = 0
                     /\ lease[t] + bytes[t] <= MaxLease

\* used_ is right, and what it is made of has its type ...
BooksRight == /\ used \in Nat /\ ext \in Reports \cup {0}
              /\ lease \in [Threads -> 0..MaxLease] /\ held \in [Caches -> {0, Fill}]
              /\ UsedIsExact

\* ... and the rest of the type.
ThreadsRight ==
  /\ limit \in Limits /\ listed \in Registered /\ dropping \subseteq Lazy
  /\ at \in [Threads -> {"idle", "need", "callbacks", "released", "tell",
                         "look", "enter", "asleep", "woken"}]
  /\ op \in [Threads -> {"none", "try", "reserve", "wait", "trim"}]
  /\ bytes \in [Threads -> 0..MaxLease]
  /\ want \in [Threads -> Nat] /\ freed \in [Threads -> Nat]
  /\ todo \in [Threads -> SUBSET Caches]
  /\ silent \in BOOLEAN
  /\ AsksWithinLease

MemoryIInv == BooksRight /\ ThreadsRight /\ SleeperIsTold

LEMMA BudgetFromParts == MemoryIInv => BudgetInv
BY DEF MemoryIInv, BudgetInv, BudgetTypeOK, BooksRight, ThreadsRight

\* The constants, as numbers and finite sets.
LEMMA MemoryConstants ==
  /\ IsFiniteSet(Threads) /\ IsFiniteSet(Leased) /\ IsFiniteSet(Caches)
         /\ Limits \subseteq Nat /\ MaxLease \in Nat /\ Fill \in Nat /\ Fill > 0
         /\ Reports \cup {0} \subseteq Nat /\ Leased \cap Lazy = {}
         /\ Caches = Leased \cup Lazy
         /\ \A R \in Registered : R \subseteq Caches
<1>1. IsFiniteSet(Threads) /\ IsFiniteSet(Caches)
  BY MemoryBudgetAssumption
<1>2. IsFiniteSet(Leased)
  BY <1>1, FS_Subset DEF Caches
<1>3. QED
  BY <1>1, <1>2, MemoryBudgetAssumption DEF Caches

\* What the lists of the books are: numbers, and those of the leases sum up.
LEMMA BooksFacts ==
  ASSUME MemoryIInv
  PROVE  /\ limit \in Nat /\ used \in Nat /\ ext \in Nat
         /\ lease \in [Threads -> 0..MaxLease] /\ held \in [Caches -> {0, Fill}]
         /\ Natural(lease, Threads) /\ Natural(held, Leased) /\ Natural(held, Caches)
         /\ SumFunctionOnSet(lease, Threads) \in Nat /\ SumFunctionOnSet(held, Leased) \in Nat
         /\ used = ext + SumFunctionOnSet(lease, Threads) + SumFunctionOnSet(held, Leased)
<1>1. /\ limit \in Nat /\ used \in Nat /\ ext \in Nat
      /\ lease \in [Threads -> 0..MaxLease] /\ held \in [Caches -> {0, Fill}]
  BY MemoryConstants DEF MemoryIInv, BooksRight, ThreadsRight
<1>2. Natural(lease, Threads) /\ Natural(held, Leased) /\ Natural(held, Caches)
  BY <1>1, MemoryConstants DEF Natural
<1>3. SumFunctionOnSet(lease, Threads) \in Nat /\ SumFunctionOnSet(held, Leased) \in Nat
  BY <1>2, MemoryConstants, SumPicked
<1>4. used = ext + SumFunctionOnSet(lease, Threads) + SumFunctionOnSet(held, Leased)
  BY DEF MemoryIInv, BooksRight, UsedIsExact
<1>5. QED
  BY <1>1, <1>2, <1>3, <1>4

\* n bytes more or less for thread t, on both sides ...
LEMMA LeaseChanges ==
  ASSUME MemoryIInv, NEW t \in Threads, NEW n \in Int,
         lease[t] + n \in 0..MaxLease, used' = used + n,
         lease' = [lease EXCEPT ![t] = @ + n], UNCHANGED <<ext, held>>
  PROVE  BooksRight'
<1> DEFINE s == SumFunctionOnSet(lease, Threads)
           z == SumFunctionOnSet(held, Leased)
<1>1. /\ IsFiniteSet(Threads) /\ Natural(lease, Threads) /\ s \in Nat /\ z \in Nat /\ ext \in Nat
      /\ lease \in [Threads -> 0..MaxLease] /\ MaxLease \in Nat /\ used = ext + s + z
  BY BooksFacts, MemoryConstants
<1>2. /\ lease' \in [Threads -> 0..MaxLease] /\ lease'[t] = lease[t] + n
      /\ \A u \in Threads : u # t => lease'[u] = lease[u]
  BY <1>1
<1>3. PICK f : f = lease'
  OBVIOUS
<1>4. f[t] = lease[t] + n /\ f[t] \in Nat /\ \A u \in Threads : u # t => lease[u] = f[u]
  BY <1>1, <1>2, <1>3
<1>5. SumFunctionOnSet(f, Threads) = (s - lease[t]) + f[t] /\ lease[t] <= s
  BY <1>1, <1>4, SumUpdate
<1>6. lease[t] \in Nat
  BY <1>1
<1>7. SumFunctionOnSet(f, Threads) = s + n
  BY <1>1, <1>4, <1>5, <1>6
<1>8. s + n \in Nat
  BY <1>1, <1>4, <1>5, <1>6
<1>9. used' \in Nat /\ used' = ext + SumFunctionOnSet(f, Threads) + z
  BY <1>1, <1>7, <1>8
<1>10. UsedIsExact'
  BY <1>3, <1>9 DEF UsedIsExact
<1>11. QED
  BY <1>2, <1>9, <1>10 DEF BooksRight, MemoryIInv

\* ... for cache c, if it holds a lease; if it does not it is in no book ...
LEMMA SizeChanges ==
  ASSUME MemoryIInv, NEW c \in Caches, NEW v \in {0, Fill},
         held' = [held EXCEPT ![c] = v],
         used' = IF c \in Leased THEN (used - held[c]) + v ELSE used,
         UNCHANGED <<ext, lease>>
  PROVE  BooksRight'
<1> DEFINE s == SumFunctionOnSet(lease, Threads)
           z == SumFunctionOnSet(held, Leased)
<1>1. /\ IsFiniteSet(Leased) /\ Natural(held, Leased) /\ s \in Nat /\ z \in Nat /\ ext \in Nat
      /\ held \in [Caches -> {0, Fill}] /\ Fill \in Nat /\ used = ext + s + z
      /\ used \in Nat /\ Leased \subseteq Caches
  BY BooksFacts, MemoryConstants
<1>2. /\ held' \in [Caches -> {0, Fill}] /\ held'[c] = v
      /\ \A d \in Caches : d # c => held'[d] = held[d]
  BY <1>1
<1>3. PICK f : f = held'
  OBVIOUS
<1>4. f[c] = v /\ v \in Nat /\ \A d \in Leased : d # c => held[d] = f[d]
  BY <1>1, <1>2, <1>3
<1>5. CASE c \in Leased
  <2>1. SumFunctionOnSet(f, Leased) = (z - held[c]) + f[c] /\ held[c] <= z
    BY <1>1, <1>4, <1>5, SumUpdate
  <2>2. held[c] \in Nat
    BY <1>1
  <2>3. used' \in Nat /\ used' = ext + s + SumFunctionOnSet(f, Leased)
    BY <1>1, <1>4, <1>5, <2>1, <2>2
  <2>4. UsedIsExact'
    BY <1>3, <2>3 DEF UsedIsExact
  <2>5. QED
    BY <1>2, <2>3, <2>4 DEF BooksRight, MemoryIInv
<1>6. CASE c \notin Leased
  <2>1. \A d \in Leased : held[d] = f[d]
    BY <1>4, <1>6
  <2>2. z = SumFunctionOnSet(f, Leased)
    BY <1>1, <2>1, SumSame
  <2>3. UsedIsExact'
    BY <1>1, <1>3, <1>6, <2>2 DEF UsedIsExact
  <2>4. QED
    BY <1>1, <1>2, <1>6, <2>3 DEF BooksRight, MemoryIInv
<1>7. QED
  BY <1>5, <1>6

\* ... or nothing.
LEMMA BooksUnchanged ==
  ASSUME MemoryIInv, UNCHANGED <<used, ext, lease, held>>
  PROVE  BooksRight'
BY DEF MemoryIInv, BooksRight, UsedIsExact

\* Nobody can sleep over room that a step did not make ...
LEMMA NoRoomMade ==
  ASSUME MemoryIInv, limit' = limit, used' \in Nat, used' >= used,
         silent' = silent,
         \A u \in Threads : at'[u] = "asleep" =>
           bytes'[u] = bytes[u] /\ (at[u] = "asleep" \/ ~Fits(bytes[u])),
         \A u \in Threads : at[u] \in {"tell", "released"} => at'[u] = at[u]
  PROVE  SleeperIsTold'
<1> SUFFICES ASSUME NEW t \in Threads, at'[t] = "asleep", limit' = 0 \/ used' + bytes'[t] <= limit'
             PROVE  silent' \/ \E u \in Threads : at'[u] \in {"tell", "released"}
  BY DEF SleeperIsTold, Fits, FitsIn
<1>1. bytes[t] \in Nat /\ used \in Nat /\ limit \in Nat
  BY BooksFacts, MemoryConstants DEF MemoryIInv, ThreadsRight
<1>2. limit = 0 \/ used + bytes[t] <= limit
  BY <1>1
<1>3. at[t] = "asleep" /\ Fits(bytes[t])
  BY <1>2 DEF Fits, FitsIn
<1>4. silent \/ \E u \in Threads : at[u] \in {"tell", "released"}
  BY <1>3 DEF MemoryIInv, SleeperIsTold
<1>5. QED
  BY <1>4

\* ... nor after one that is about to tell, or has told, everybody.
LEMMA SomebodyTells ==
  ASSUME silent' \/ (\E u \in Threads : at'[u] \in {"tell", "released"})
         \/ \A u \in Threads : at'[u] # "asleep"
  PROVE  SleeperIsTold'
BY DEF SleeperIsTold

LEMMA MemoryInit ==
  ASSUME BudgetInit
  PROVE  MemoryIInv
<1>1. SumFunctionOnSet(lease, Threads) = 0 /\ SumFunctionOnSet(held, Leased) = 0
  <2>1. \A t \in Threads : lease[t] = 0
    BY DEF BudgetInit
  <2>2. \A c \in Leased : held[c] = 0
    BY MemoryConstants DEF BudgetInit
  <2>3. QED
    BY <2>1, <2>2, MemoryConstants, SumZero
<1>2. BooksRight
  <2>1. UsedIsExact
    BY <1>1 DEF UsedIsExact, BudgetInit
  <2>2. QED
    BY <2>1, MemoryConstants DEF BooksRight, BudgetInit
<1>3. ThreadsRight
  <2>1. 0 \in 0..MaxLease /\ 0 \in Nat
    BY MemoryConstants
  <2>2. AsksWithinLease
    BY <2>1 DEF AsksWithinLease, BudgetInit
  <2>3. QED
    BY <2>1, <2>2 DEF ThreadsRight, BudgetInit
<1>4. SleeperIsTold
  BY DEF SleeperIsTold, BudgetInit
<1>5. QED
  BY <1>2, <1>3, <1>4 DEF MemoryIInv

-----------------------------------------------------------------------------
(* Leases *)

LEMMA AskStep ==
  ASSUME MemoryIInv, NEW t \in Threads,
         NEW o \in {"try", "reserve"}, NEW n \in 1..MaxLease, Ask(t, o, n)
  PROVE  MemoryIInv'
<1>1. /\ ThreadsRight /\ limit \in Nat /\ used \in Nat /\ n \in Nat /\ MaxLease \in Nat
      /\ lease \in [Threads -> 0..MaxLease] /\ lease[t] + n \in 0..MaxLease
  BY BooksFacts, MemoryConstants DEF MemoryIInv, Ask
<1>2. UNCHANGED <<limit, ext, listed, held, dropping, want, freed, todo, silent>>
  BY DEF Ask, caches, evicting
<1>3. CASE Fits(n)
  <2>1. used' = used + n /\ lease' = [lease EXCEPT ![t] = @ + n] /\ UNCHANGED <<at, op, bytes>>
    BY <1>3 DEF Ask, Charge
  <2>2. BooksRight'
    <3>1. UNCHANGED <<ext, held>> /\ n \in Int
      BY <1>1, <1>2
    <3>2. QED
      BY <1>1, <2>1, <3>1, LeaseChanges
  <2>3. ThreadsRight'
    BY <1>1, <1>2, <2>1 DEF ThreadsRight, AsksWithinLease, Ask
  <2>4. SleeperIsTold'
    BY <1>1, <1>2, <2>1, NoRoomMade
  <2>5. QED
    BY <2>2, <2>3, <2>4 DEF MemoryIInv
<1>4. CASE ~Fits(n)
  <2>1. /\ at[t] = "idle" /\ at' = [at EXCEPT ![t] = "need"] /\ UNCHANGED <<used, lease>>
        /\ op' = [op EXCEPT ![t] = o] /\ bytes' = [bytes EXCEPT ![t] = n]
    BY <1>4 DEF Ask, Move
  <2>2. BooksRight'
    BY <1>2, <2>1, BooksUnchanged
  <2>3. ThreadsRight'
    BY <1>1, <1>2, <2>1 DEF ThreadsRight, AsksWithinLease, Ask
  <2>4. SleeperIsTold'
    BY <1>1, <1>2, <2>1, NoRoomMade DEF ThreadsRight
  <2>5. QED
    BY <2>2, <2>3, <2>4 DEF MemoryIInv
<1>5. QED
  BY <1>3, <1>4

\* The looks: a lease is granted or denied, or the thread goes on trying.
LEMMA LookStep ==
  ASSUME MemoryIInv, NEW t \in Threads,
         at[t] \notin {"idle", "tell", "released"},
         UNCHANGED <<limit, ext, listed, held, dropping, want, freed, todo, silent>>,
         \/ \E from \in {"look", "enter", "asleep", "woken"} :
              Grant(t, from) \/ Deny(t, from)
         \/ /\ \E to \in {"enter", "asleep", "need"} :
                 at' = [at EXCEPT ![t] = to] /\ ~Fits(bytes[t])
            /\ op' = op \/ op' = [op EXCEPT ![t] = "wait"]
            /\ UNCHANGED <<used, lease, bytes>>
  PROVE  MemoryIInv'
<1>1. /\ ThreadsRight /\ limit \in Nat /\ used \in Nat /\ bytes[t] \in Nat /\ MaxLease \in Nat
      /\ lease \in [Threads -> 0..MaxLease] /\ lease[t] + bytes[t] \in 0..MaxLease
  BY BooksFacts, MemoryConstants DEF MemoryIInv, ThreadsRight, AsksWithinLease
<1>2. CASE \E from \in {"look", "enter", "asleep", "woken"} : Grant(t, from)
  <2>1. /\ used' = used + bytes[t] /\ lease' = [lease EXCEPT ![t] = @ + bytes[t]]
        /\ at' = [at EXCEPT ![t] = "idle"] /\ op' = [op EXCEPT ![t] = "none"]
        /\ bytes' = [bytes EXCEPT ![t] = 0]
    BY <1>2 DEF Grant, Charge, Return, Move
  <2>2. BooksRight'
    <3>1. UNCHANGED <<ext, held>> /\ bytes[t] \in Int
      BY <1>1
    <3>2. QED
      BY <1>1, <2>1, <3>1, LeaseChanges
  <2>3. ThreadsRight'
    BY <1>1, <2>1 DEF ThreadsRight, AsksWithinLease
  <2>4. SleeperIsTold'
    BY <1>1, <2>1, NoRoomMade DEF ThreadsRight
  <2>5. QED
    BY <2>2, <2>3, <2>4 DEF MemoryIInv
<1>3. CASE \E from \in {"look", "enter", "asleep", "woken"} : Deny(t, from)
  <2>1. /\ UNCHANGED <<used, lease>>
        /\ at' = [at EXCEPT ![t] = "idle"] /\ op' = [op EXCEPT ![t] = "none"]
        /\ bytes' = [bytes EXCEPT ![t] = 0]
    BY <1>3 DEF Deny, Return, Move
  <2>2. BooksRight'
    BY <2>1, BooksUnchanged
  <2>3. ThreadsRight'
    BY <1>1, <2>1 DEF ThreadsRight, AsksWithinLease
  <2>4. SleeperIsTold'
    BY <1>1, <2>1, NoRoomMade DEF ThreadsRight
  <2>5. QED
    BY <2>2, <2>3, <2>4 DEF MemoryIInv
<1>4. CASE /\ \E to \in {"enter", "asleep", "need"} :
                at' = [at EXCEPT ![t] = to] /\ ~Fits(bytes[t])
           /\ op' = op \/ op' = [op EXCEPT ![t] = "wait"]
           /\ UNCHANGED <<used, lease, bytes>>
  <2>1. BooksRight'
    BY <1>4, BooksUnchanged
  <2>2. ThreadsRight'
    BY <1>1, <1>4 DEF ThreadsRight, AsksWithinLease
  <2>3. SleeperIsTold'
    BY <1>1, <1>4, NoRoomMade DEF ThreadsRight
  <2>4. QED
    BY <2>1, <2>2, <2>3 DEF MemoryIInv
<1>5. QED
  BY <1>2, <1>3, <1>4

LEMMA LooksStep ==
  ASSUME MemoryIInv, NEW t \in Threads,
         \/ LookAgain(t) \/ LookInReserve(t) \/ Enter(t)
         \/ Wake(t) \/ LookInLoop(t) \/ TimeUp(t)
  PROVE  MemoryIInv'
<1>1. UNCHANGED <<limit, ext, listed, held, dropping, want, freed, todo, silent>>
  BY DEF LookAgain, LookInReserve, Enter, Wake, LookInLoop,
     TimeUp, caches, evicting
<1>2. at[t] \in {"look", "enter", "asleep", "woken"}
  BY DEF LookAgain, LookInReserve, Enter, Wake, LookInLoop,
     TimeUp, Grant, Move, Return
<1>3. \/ \E from \in {"look", "enter", "asleep", "woken"} :
           Grant(t, from) \/ Deny(t, from)
      \/ /\ \E to \in {"enter", "asleep", "need"} :
              at' = [at EXCEPT ![t] = to] /\ ~Fits(bytes[t])
         /\ op' = op \/ op' = [op EXCEPT ![t] = "wait"]
         /\ UNCHANGED <<used, lease, bytes>>
  BY DEF LookAgain, LookInReserve, Enter, Wake, LookInLoop,
     TimeUp, Move, request, MemoryIInv, ThreadsRight
<1>4. QED
  BY <1>1, <1>2, <1>3, LookStep

-----------------------------------------------------------------------------
(* Evicting *)

LEMMA ReadNeedStep ==
  ASSUME MemoryIInv, NEW t \in Threads, ReadNeed(t)
  PROVE  MemoryIInv'
<1>1. /\ ThreadsRight /\ limit \in Nat /\ used \in Nat /\ bytes[t] \in Nat
      /\ listed \in SUBSET Caches
  BY BooksFacts, MemoryConstants DEF MemoryIInv, ThreadsRight
<1>2. /\ at[t] = "need" /\ at' = [at EXCEPT ![t] = "callbacks"]
      /\ want' = [want EXCEPT ![t] = Need(bytes[t])] /\ todo' = [todo EXCEPT ![t] = listed]
      /\ UNCHANGED <<limit, used, ext, listed, held, dropping, lease, op, bytes, freed, silent>>
  BY DEF ReadNeed, Move, budget, caches, request
<1>3. Need(bytes[t]) \in Nat
  BY <1>1 DEF Need, Fits, FitsIn
<1>4. BooksRight'
  BY <1>2, BooksUnchanged
<1>5. ThreadsRight'
  BY <1>1, <1>2, <1>3 DEF ThreadsRight, AsksWithinLease
<1>6. SleeperIsTold'
  BY <1>1, <1>2, NoRoomMade DEF ThreadsRight
<1>7. QED
  BY <1>4, <1>5, <1>6 DEF MemoryIInv

\* A cache that gives its lease back makes room, and its thread tells.
LEMMA CallbackStep ==
  ASSUME MemoryIInv, NEW t \in Threads, NEW c \in Caches,
         Callback(t, c)
  PROVE  MemoryIInv'
<1>1. /\ ThreadsRight /\ held \in [Caches -> {0, Fill}] /\ held[c] \in Nat /\ used \in Nat
      /\ Caches = Leased \cup Lazy /\ Leased \cap Lazy = {} /\ limit \in Nat /\ Fill \in Nat
  BY BooksFacts, MemoryConstants DEF MemoryIInv
<1>2. /\ at[t] = "callbacks" /\ todo' = [todo EXCEPT ![t] = @ \ {c}]
      /\ freed' = [freed EXCEPT ![t] = @ + held[c]]
      /\ dropping' = dropping \/ (c \in Lazy /\ dropping' = dropping \cup {c})
      /\ UNCHANGED <<limit, ext, listed, lease, op, bytes, want, silent>>
  BY DEF Callback, request
<1>3. CASE c \in Lazy \/ held[c] = 0
  <2>1. UNCHANGED <<used, held, at>>
    BY <1>3 DEF Callback
  <2>2. BooksRight'
    BY <1>2, <2>1, BooksUnchanged
  <2>3. ThreadsRight'
    BY <1>1, <1>2, <2>1 DEF ThreadsRight, AsksWithinLease
  <2>4. SleeperIsTold'
    BY <1>1, <1>2, <2>1, NoRoomMade
  <2>5. QED
    BY <2>2, <2>3, <2>4 DEF MemoryIInv
<1>4. CASE ~(c \in Lazy \/ held[c] = 0)
  <2>1. /\ used' = used - held[c] /\ held' = [held EXCEPT ![c] = 0]
        /\ at' = [at EXCEPT ![t] = "released"] /\ c \in Leased
    BY <1>1, <1>4 DEF Callback, Move
  <2>2. BooksRight'
    <3>1. used' = (used - held[c]) + 0 /\ UNCHANGED <<ext, lease>>
      BY <1>1, <1>2, <2>1
    <3>2. QED
      BY <2>1, <3>1, SizeChanges
  <2>3. ThreadsRight'
    BY <1>1, <1>2, <2>1 DEF ThreadsRight, AsksWithinLease
  <2>4. SleeperIsTold'
    BY <1>1, <2>1, SomebodyTells DEF ThreadsRight
  <2>5. QED
    BY <2>2, <2>3, <2>4 DEF MemoryIInv
<1>5. QED
  BY <1>3, <1>4

LEMMA ToldType ==
  ASSUME ThreadsRight
  PROVE  /\ Told(at) \in [Threads -> {"idle", "need", "callbacks", "released", "tell",
                                             "look", "enter", "asleep", "woken"}]
         /\ \A u \in Threads : /\ Told(at)[u] # "asleep"
                               /\ Told(at)[u] = "idle" => at[u] = "idle"
BY DEF Told, ThreadsRight

LEMMA ToldStep ==
  ASSUME MemoryIInv, NEW t \in Threads,
         Released(t) \/ Tell(t)
  PROVE  MemoryIInv'
<1> DEFINE told == Told(at)
<1>1. ThreadsRight
  BY DEF MemoryIInv
<1>2. UNCHANGED <<limit, used, ext, listed, held, dropping, lease, bytes, want, freed, todo>>
      /\ silent' = FALSE
  BY DEF Released, Tell, budget, caches, request, evicting
<1>3. /\ told \in [Threads -> {"idle", "need", "callbacks", "released", "tell",
                                "look", "enter", "asleep", "woken"}]
      /\ \A u \in Threads : told[u] # "asleep" /\ (told[u] = "idle" => at[u] = "idle")
  BY <1>1, ToldType
<1> HIDE DEF told
<1>4. \E to \in {"callbacks", "idle", "look"} :
         /\ at' = [told EXCEPT ![t] = to]
         /\ to = "idle" => op'[t] = "none"
  BY <1>1 DEF Released, Tell, After, told, ThreadsRight
<1>5. /\ op' = op \/ (op[t] = "trim" /\ op' = [op EXCEPT ![t] = "none"])
  BY <1>1 DEF Released, Tell, request, ThreadsRight
<1>6. BooksRight'
  BY <1>2, BooksUnchanged
<1>7. ThreadsRight'
  <2>1. at' \in [Threads -> {"idle", "need", "callbacks", "released", "tell",
                             "look", "enter", "asleep", "woken"}]
    BY <1>3, <1>4
  <2>2. op' \in [Threads -> {"none", "try", "reserve", "wait", "trim"}]
    BY <1>1, <1>5 DEF ThreadsRight
  <2>3. \A u \in Threads : /\ op'[u] = op[u] \/ (op[u] = "trim" /\ op'[u] = "none")
                           /\ op[u] = "none" => op'[u] = "none"
    BY <1>1, <1>5 DEF ThreadsRight
  <2>4. ASSUME NEW u \in Threads, at'[u] = "idle"
        PROVE  op'[u] = "none"
    <3>1. CASE u = t
      BY <1>3, <1>4, <2>4, <3>1
    <3>2. CASE u # t
      <4>1. at[u] = "idle"
        BY <1>3, <1>4, <2>4, <3>2
      <4>2. QED
        BY <1>1, <2>3, <4>1 DEF ThreadsRight, AsksWithinLease
    <3>3. QED
      BY <3>1, <3>2
  <2>5. AsksWithinLease'
    BY <1>1, <1>2, <2>3, <2>4 DEF ThreadsRight, AsksWithinLease
  <2>6. QED
    BY <1>1, <1>2, <2>1, <2>2, <2>5 DEF ThreadsRight
<1>8. SleeperIsTold'
  <2>1. \A u \in Threads : at'[u] # "asleep"
    BY <1>3, <1>4
  <2>2. QED
    BY <2>1, SomebodyTells
<1>9. QED
  BY <1>6, <1>7, <1>8 DEF MemoryIInv

LEMMA EvictedStep ==
  ASSUME MemoryIInv, NEW t \in Threads, Evicted(t)
  PROVE  MemoryIInv'
<1>1. ThreadsRight /\ used \in Nat
  BY BooksFacts DEF MemoryIInv
<1>2. /\ at[t] = "callbacks" /\ want' = [want EXCEPT ![t] = 0] /\ freed' = [freed EXCEPT ![t] = 0]
      /\ todo' = [todo EXCEPT ![t] = {}]
      /\ UNCHANGED <<limit, used, ext, listed, held, dropping, lease, bytes, silent>>
  BY DEF Evicted, LeaveEvict, budget, caches
<1>3. /\ \E to \in {"idle", "look", "tell"} : /\ at' = [at EXCEPT ![t] = to]
                                              /\ to = "idle" => op'[t] = "none"
      /\ op' = op \/ (op[t] = "trim" /\ op' = [op EXCEPT ![t] = "none"])
  BY <1>1 DEF Evicted, Move, After, ThreadsRight
<1>4. BooksRight'
  BY <1>2, BooksUnchanged
<1>5. ThreadsRight'
  BY <1>1, <1>2, <1>3 DEF ThreadsRight, AsksWithinLease
<1>6. SleeperIsTold'
  BY <1>1, <1>2, <1>3, NoRoomMade DEF ThreadsRight
<1>7. QED
  BY <1>4, <1>5, <1>6 DEF MemoryIInv

LEMMA TrimStep ==
  ASSUME MemoryIInv, NEW t \in Threads, Trim(t)
  PROVE  MemoryIInv'
<1>1. /\ ThreadsRight /\ used \in Nat /\ limit \in Nat /\ listed \in SUBSET Caches
      /\ Cached \in Nat
  BY BooksFacts, MemoryConstants, SumPicked DEF MemoryIInv, ThreadsRight, Cached
<1>2. /\ at[t] = "idle" /\ at' = [at EXCEPT ![t] = "callbacks"] /\ op' = [op EXCEPT ![t] = "trim"]
      /\ todo' = [todo EXCEPT ![t] = listed]
      /\ UNCHANGED <<limit, used, ext, listed, held, dropping, lease, bytes, freed, silent>>
  BY DEF Trim, Move, budget, caches
<1>3. want' \in [Threads -> Nat]
  <2>1. CASE want' = [want EXCEPT ![t] = 0]
    BY <1>1, <2>1 DEF ThreadsRight
  <2>2. CASE /\ used + Cached > SoftLimit
             /\ want' = [want EXCEPT ![t] = used + Cached - SoftLimit]
    <3>1. SoftLimit \in Nat
      BY <1>1 DEF SoftLimit
    <3>2. used + Cached - SoftLimit \in Nat
      BY <1>1, <2>2, <3>1
    <3>3. QED
      BY <1>1, <2>2, <3>2 DEF ThreadsRight
  <2>3. QED
    BY <2>1, <2>2 DEF Trim
<1>4. BooksRight'
  BY <1>2, BooksUnchanged
<1>5. ThreadsRight'
  BY <1>1, <1>2, <1>3 DEF ThreadsRight, AsksWithinLease
<1>6. SleeperIsTold'
  BY <1>1, <1>2, NoRoomMade DEF ThreadsRight
<1>7. QED
  BY <1>4, <1>5, <1>6 DEF MemoryIInv

-----------------------------------------------------------------------------
(* Releases, reports, the limit, and the owners of the caches *)

LEMMA UnchargeStep ==
  ASSUME MemoryIInv, NEW t \in Threads, NEW n \in 1..MaxLease,
         Uncharge(t, n)
  PROVE  MemoryIInv'
<1>1. /\ ThreadsRight /\ used \in Nat /\ lease \in [Threads -> 0..MaxLease] /\ MaxLease \in Nat
  BY BooksFacts, MemoryConstants DEF MemoryIInv
<1>2. /\ at[t] = "idle" /\ at' = [at EXCEPT ![t] = "tell"] /\ n \in 1..lease[t]
      /\ used' = used - n /\ lease' = [lease EXCEPT ![t] = @ - n]
      /\ UNCHANGED <<limit, ext, listed, held, dropping, op, bytes, want, freed, todo, silent>>
  BY DEF Uncharge, Move, caches, request, evicting
<1>3. BooksRight'
  <2>1. lease[t] \in 0..MaxLease /\ n \in Int /\ n <= lease[t]
    BY <1>1, <1>2
  <2>2. -n \in Int /\ used - n = used + (-n) /\ lease[t] - n = lease[t] + (-n)
    BY <1>1, <2>1
  <2>3. lease[t] + (-n) \in 0..MaxLease
    BY <1>1, <1>2, <2>1
  <2>4. /\ used' = used + (-n) /\ lease' = [lease EXCEPT ![t] = @ + (-n)]
        /\ UNCHANGED <<ext, held>>
    BY <1>2, <2>2, Zenon
  <2>5. QED
    BY <2>2, <2>3, <2>4, LeaseChanges
<1>4. ThreadsRight'
  BY <1>1, <1>2 DEF ThreadsRight, AsksWithinLease
<1>5. SleeperIsTold'
  BY <1>1, <1>2, SomebodyTells DEF ThreadsRight
<1>6. QED
  BY <1>3, <1>4, <1>5 DEF MemoryIInv

LEMMA SetUsageStep ==
  ASSUME MemoryIInv, NEW n \in Reports, SetUsage(n)
  PROVE  MemoryIInv'
<1> DEFINE s == SumFunctionOnSet(lease, Threads)
           z == SumFunctionOnSet(held, Leased)
<1>1. /\ ThreadsRight /\ used = ext + s + z /\ s \in Nat /\ z \in Nat /\ ext \in Nat /\ n \in Nat
      /\ used \in Nat
  BY BooksFacts, MemoryConstants DEF MemoryIInv
<1>2. /\ used' = used - ext + n /\ ext' = n /\ silent' = (silent \/ n < ext)
      /\ UNCHANGED <<limit, listed, held, dropping, lease, at, op, bytes, want, freed, todo>>
  BY DEF SetUsage, caches, request, evicting
<1>3. used' = ext' + s + z /\ used' \in Nat
  BY <1>1, <1>2
<1>4. UsedIsExact'
  BY <1>2, <1>3 DEF UsedIsExact
<1>5. BooksRight'
  BY <1>2, <1>3, <1>4 DEF BooksRight, MemoryIInv
<1>6. ThreadsRight'
  BY <1>1, <1>2 DEF ThreadsRight, AsksWithinLease
<1>7. SleeperIsTold'
  <2>1. CASE n < ext
    BY <1>2, <2>1, SomebodyTells
  <2>2. CASE ~(n < ext)
    <3>1. silent' = silent /\ used' >= used
      BY <1>1, <1>2, <2>2 DEF ThreadsRight
    <3>2. QED
      BY <1>2, <1>3, <3>1, NoRoomMade
  <2>3. QED
    BY <2>1, <2>2
<1>8. QED
  BY <1>5, <1>6, <1>7 DEF MemoryIInv

LEMMA SetLimitStep ==
  ASSUME MemoryIInv, NEW n \in Limits, SetLimit(n)
  PROVE  MemoryIInv'
<1>1. ThreadsRight
  BY DEF MemoryIInv
<1>2. /\ limit' = n /\ at' = Told(at) /\ silent' = FALSE
      /\ UNCHANGED <<used, ext, listed, held, dropping, lease, op, bytes, want, freed, todo>>
  BY DEF SetLimit, caches, request, evicting
<1>3. /\ at' \in [Threads -> {"idle", "need", "callbacks", "released", "tell",
                               "look", "enter", "asleep", "woken"}]
      /\ \A u \in Threads : at'[u] # "asleep" /\ (at'[u] = "idle" => at[u] = "idle")
  BY <1>1, <1>2, ToldType
<1>4. BooksRight'
  BY <1>2, BooksUnchanged
<1>5. ThreadsRight'
  BY <1>1, <1>2, <1>3 DEF ThreadsRight, AsksWithinLease
<1>6. SleeperIsTold'
  BY <1>3, SomebodyTells
<1>7. QED
  BY <1>4, <1>5, <1>6 DEF MemoryIInv

LEMMA CachesStep ==
  ASSUME MemoryIInv, NEW c \in Caches,
         Refill(c) \/ Drop(c)
  PROVE  MemoryIInv'
<1>1. /\ ThreadsRight /\ used \in Nat /\ Caches = Leased \cup Lazy /\ Leased \cap Lazy = {}
      /\ Fill \in Nat
  BY BooksFacts, MemoryConstants DEF MemoryIInv
<1>2. UNCHANGED <<limit, ext, listed, lease, at, op, bytes, want, freed, todo, silent>>
  BY DEF Refill, Drop, budget, request, evicting
<1>3. dropping' \subseteq Lazy
  BY <1>1 DEF Refill, Drop, ThreadsRight
<1>4. ThreadsRight'
  BY <1>1, <1>2, <1>3 DEF ThreadsRight, AsksWithinLease
<1>5. BooksRight' /\ used' >= used
  <2>1. CASE Refill(c)
    <3>1. /\ held' = [held EXCEPT ![c] = Fill] /\ held[c] = 0 /\ UNCHANGED <<ext, lease>>
          /\ used' = IF c \in Leased THEN (used - held[c]) + Fill ELSE used
      BY <1>1, <2>1 DEF Refill
    <3>2. BooksRight'
      <4>1. Fill \in {0, Fill}
        OBVIOUS
      <4>2. QED
        BY <3>1, <4>1, SizeChanges
    <3>3. (used - held[c]) + Fill >= used
      BY <1>1, <3>1
    <3>4. used' >= used
      BY <1>1, <3>1, <3>3
    <3>5. QED
      BY <3>2, <3>4
  <2>2. CASE Drop(c)
    <3>1. /\ held' = [held EXCEPT ![c] = 0] /\ c \notin Leased /\ UNCHANGED <<ext, lease, used>>
      BY <1>1, <2>2 DEF Drop, budget, ThreadsRight
    <3>2. used' = IF c \in Leased THEN (used - held[c]) + 0 ELSE used
      BY <3>1
    <3>3. BooksRight'
      <4>1. 0 \in {0, Fill}
        OBVIOUS
      <4>2. QED
        BY <3>1, <3>2, <4>1, SizeChanges
    <3>4. QED
      BY <1>1, <3>1, <3>3
  <2>3. QED
    BY <2>1, <2>2
<1>6. used' \in Nat
  BY <1>5 DEF BooksRight
<1>7. SleeperIsTold'
  BY <1>2, <1>5, <1>6, NoRoomMade
<1>8. QED
  BY <1>4, <1>5, <1>7 DEF MemoryIInv

LEMMA MemoryStutter == MemoryIInv /\ UNCHANGED budgetVars => MemoryIInv'
BY DEF budgetVars, budget, caches, request, evicting, MemoryIInv,
   BooksRight, ThreadsRight, AsksWithinLease, UsedIsExact, SleeperIsTold, Fits,
   FitsIn

LEMMA MemoryStep ==
  ASSUME MemoryIInv, [BudgetNext]_budgetVars
  PROVE  MemoryIInv'
<1>1. ASSUME NEW t \in Threads, Continue(t) \/ TimeUp(t) \/ Trim(t)
      PROVE  MemoryIInv'
  BY <1>1, ReadNeedStep, LooksStep, ToldStep, EvictedStep, CallbackStep, TrimStep DEF Continue
<1>2. ASSUME NEW t \in Threads, NEW n \in 1..MaxLease,
             (\E o \in {"try", "reserve"} : Ask(t, o, n)) \/ Uncharge(t, n)
      PROVE  MemoryIInv'
  BY <1>2, AskStep, UnchargeStep
<1>3. QED
  BY <1>1, <1>2, SetUsageStep, SetLimitStep, CachesStep, MemoryStutter DEF BudgetNext

LEMMA MemoryInductive == BudgetSpec => []MemoryIInv
<1>1. BudgetInit => MemoryIInv
  BY MemoryInit
<1>2. MemoryIInv /\ [BudgetNext]_budgetVars => MemoryIInv'
  BY MemoryStep
<1>3. QED
  BY <1>1, <1>2, PTL DEF BudgetSpec

\* used_ is exactly what is leased and reported, and a waiter that fits is told, or
\* somebody is about to tell it: for any number of threads and caches, whatever
\* is charged, given back, resized or reported while evict has given up the lock.
THEOREM BudgetIsSound == BudgetSpec => []BudgetInv
<1>1. BudgetSpec => []MemoryIInv
  BY MemoryInductive
<1>2. QED
  BY <1>1, BudgetFromParts, PTL

\* Every charge is looked at in the hold of the lock that makes it.
LEMMA ChargesFit ==
  ASSUME MemoryIInv, BudgetNext,
         used' > used, limit' # 0, used' > limit'
  PROVE  ext' > ext
<1>1. /\ ThreadsRight /\ used \in Nat /\ limit \in Nat /\ ext \in Nat /\ Fill \in Nat
      /\ \A c \in Caches : held[c] \in Nat
      /\ \A t \in Threads : bytes[t] \in Nat /\ lease[t] \in Nat
      /\ \A n \in Reports : n \in Nat
  BY BooksFacts, MemoryConstants DEF MemoryIInv, ThreadsRight
<1>2. ASSUME NEW t \in Threads PROVE ~(Grant(t, "look") \/ Grant(t, "enter")
                                       \/ Grant(t, "asleep") \/ Grant(t, "woken"))
             \/ limit' # limit
  BY <1>1 DEF Grant, Charge, Fits, FitsIn
<1>3. ASSUME NEW t \in Threads, Continue(t) \/ TimeUp(t) \/ Trim(t) PROVE FALSE
  <2>1. CASE \/ LookAgain(t) \/ LookInReserve(t) \/ Enter(t) \/ Wake(t)
             \/ LookInLoop(t) \/ TimeUp(t)
    BY <1>1, <1>2, <2>1 DEF LookAgain, LookInReserve, Enter, Wake,
       LookInLoop, TimeUp, Deny
  <2>2. CASE \/ ReadNeed(t) \/ Released(t) \/ Evicted(t) \/ Tell(t)
             \/ Trim(t)
    BY <1>1, <2>2 DEF ReadNeed, Released, Evicted, Tell, Trim,
       budget
  <2>3. CASE \E c \in Caches : Callback(t, c)
    BY <1>1, <2>3 DEF Callback
  <2>4. QED
    BY <1>3, <2>1, <2>2, <2>3 DEF Continue
<1>4. ASSUME NEW t \in Threads, NEW n \in 1..MaxLease,
             (\E o \in {"try", "reserve"} : Ask(t, o, n)) \/ Uncharge(t, n)
      PROVE  FALSE
  BY <1>1, <1>4, MemoryConstants
     DEF Ask, Uncharge, Charge, Fits, FitsIn
<1>5. ASSUME NEW n \in Reports, SetUsage(n) PROVE ext' > ext
  BY <1>1, <1>5 DEF SetUsage
<1>6. ASSUME NEW n \in Limits, SetLimit(n) PROVE FALSE
  BY <1>1, <1>6 DEF SetLimit
<1>7. ASSUME NEW c \in Caches, Refill(c) \/ Drop(c) PROVE FALSE
  BY <1>1, <1>7 DEF Refill, Drop, budget, Fits, FitsIn
<1>8. QED
  BY <1>3, <1>4, <1>5, <1>6, <1>7 DEF BudgetNext

\* Only a report takes the budget over its limit: try_reserve, reserve and grow_ look
\* again after evict, however many threads and caches came in between.
THEOREM LeasesNeverOvershoot == BudgetSpec => OnlyReportsOvershoot
<1>1. BudgetSpec => []MemoryIInv
  BY MemoryInductive
<1>2. MemoryIInv /\ [BudgetNext]_budgetVars =>
        [used' > used /\ limit' # 0 /\ used' > limit' => ext' > ext]_budgetVars
  BY ChargesFit
<1>3. QED
  BY <1>1, <1>2, PTL DEF BudgetSpec, OnlyReportsOvershoot
=============================================================================
