----------------------------- MODULE TrieTrainer -----------------------------
(***************************************************************************)
(* The two corpus trainers: trie_stream_train ("live") and                 *)
(* trie_stream_train_v2 ("v2").  A trainer adds each finished corpus file  *)
(* to its model, writes the model to checkpoint.bin, puts the file's name  *)
(* into trained.txt and, v2, keeps copies of the checkpoint past certain   *)
(* sizes.  It may be stopped between any two steps and started again, when *)
(* it has only what is on the disk.  A model is how often it counts each   *)
(* file.  What is written to a file stays when the process is stopped.     *)
(***************************************************************************)
EXTENDS Naturals, FiniteSets, Functions

CONSTANTS Files,        \* the corpus, once every download has finished
          Sizes,        \* how large a file may be
          Marks,        \* --snapshots of v2
          Faults,       \* of "write", "rename", "list", "copy", "read", "walk": what may fail
          MaxTroubles   \* bound: stops and failures

ASSUME TrieTrainerAssumption ==
  /\ IsFiniteSet(Files) /\ Sizes \subseteq Nat \ {0} /\ Marks \subseteq Nat
  /\ Faults \subseteq {"write", "rename", "list", "copy", "read", "walk"} /\ MaxTroubles \in Nat

VARIABLES kind, once, size,     \* the trainer, --once, the files' sizes
          corpus, locked,       \* finished files, files that cannot be opened
          ckpt, tmp,            \* checkpoint.bin and checkpoint.bin.tmp
          trained,              \* trained.txt
          snap, noted,          \* checkpoint_<mark>.bin, snapshots.tsv
          pc, model,            \* the process, its model
          done, fresh, file,    \* done, what is left of fresh, {p} until p is listed
          taken, due,           \* taken, what is left of snaps
          troubles,             \* stops and failures so far
          lost                  \* history: a run began without their checkpoint, or with
                                \* a part of it

options == <<kind, once, size>>
outside == <<corpus, locked>>
disk == <<ckpt, tmp, trained, snap, noted>>
memory == <<model, done, fresh, file, taken, due>>
vars == <<options, outside, disk, pc, memory, troubles, lost>>

Nothing == [f \in Files |-> 0]
BytesOf(m, sizes) == SumFunctionOnSet([f \in Files |-> m[f] * sizes[f]], Files)
Bytes(m) == BytesOf(m, size)                                      \* bytes_seen

Absent == [is |-> "absent", holds |-> Nothing]
Torn == [is |-> "torn", holds |-> Nothing]
Whole(m) == [is |-> "whole", holds |-> m]
HoldsFile(x, f) == x.is = "whole" /\ x.holds[f] > 0

Models == [Files -> 0..MaxTroubles + 1]
OnDisk == {Absent, Torn} \cup {Whole(m) : m \in Models}
Stopped == {"off", "failed", "done"}

TypeOK ==
  /\ kind \in {"live", "v2"} /\ once \in BOOLEAN /\ size \in [Files -> Sizes]
  /\ corpus \subseteq Files /\ locked \subseteq Files /\ trained \subseteq Files
  /\ ckpt \in OnDisk /\ tmp \in OnDisk /\ snap \in [Marks -> OnDisk] /\ noted \subseteq Marks
  /\ pc \in Stopped \cup {"scan", "files", "save", "flush", "rename", "again", "list", "marks", "note"}
  /\ model \in Models /\ done \subseteq Files /\ fresh \subseteq Files /\ file \subseteq Files
  /\ taken \subseteq Marks /\ due \subseteq Marks
  /\ troubles \in 0..MaxTroubles /\ lost \subseteq Files

Init ==
  /\ kind \in {"live", "v2"} /\ once \in BOOLEAN /\ size \in [Files -> Sizes]
  /\ corpus = {} /\ locked \in SUBSET Files
  /\ ckpt = Absent /\ tmp = Absent /\ trained = {} /\ snap = [m \in Marks |-> Absent] /\ noted = {}
  /\ pc = "off" /\ model = Nothing /\ done = {} /\ fresh = {} /\ file = {}
  /\ taken = {} /\ due = {} /\ troubles = 0 /\ lost = {}

Goto(from, to) == pc = from /\ pc' = to
Forget == /\ model' = Nothing /\ done' = {} /\ fresh' = {} /\ file' = {}
          /\ taken' = {} /\ due' = {}
Trouble == troubles < MaxTroubles /\ troubles' = troubles + 1
Fails(what) == what \in Faults /\ Trouble
Exit(from, to) == Goto(from, to) /\ Forget

-----------------------------------------------------------------------------
(* main, up to the loop *)

\* What a run begins with: the checkpoint is whole (CheckpointIsWhole).
Begin(m) ==
  /\ pc \in Stopped /\ pc' = "scan"
  /\ model' = m /\ done' = trained /\ taken' = noted
  /\ UNCHANGED <<options, outside, disk, fresh, file, due>>

Resume == ckpt.is # "absent" /\ Begin(ckpt.holds) /\ UNCHANGED <<troubles, lost>>

\* A new checkpoint: trained.txt is read all the same.
New == ckpt.is = "absent" /\ Begin(Nothing) /\ lost' = lost \cup trained /\ UNCHANGED troubles

\* The checkpoint cannot be opened, or not be read to its end: the trainer exits; but
\* the live trainer, once it has seen the magic, goes on with what was read when
\* reading stopped.  That is nothing, or else bytes_seen, for which the model then
\* stands: nobody knows which counts it has of the files.
CannotResume ==
  /\ ckpt.is # "absent" /\ Fails("read")
  /\ \/ /\ pc \in Stopped /\ pc' = "failed"
        /\ UNCHANGED <<options, outside, disk, memory, lost>>
     \/ kind = "live" /\ Begin(Nothing) /\ lost' = lost \cup trained
     \/ /\ kind = "live" /\ Begin(ckpt.holds)
        /\ lost' = lost \cup trained \cup {f \in Files : ckpt.holds[f] > 0}

-----------------------------------------------------------------------------
(* The loop: look for finished files, train each *)

\* The walk comes to every finished file, or to some: an error of a directory, or of the
\* root itself, ends it and is not looked at again.
Walk(seen) ==
  \/ seen = corpus /\ UNCHANGED troubles
  \/ seen \subseteq corpus /\ Fails("walk")

Scan ==
  /\ \E seen \in SUBSET corpus :
       Walk(seen) /\ fresh' = seen \ done /\ fresh' # {}
  /\ Goto("scan", "files")
  /\ UNCHANGED <<options, outside, disk, model, done, file, taken, due, lost>>

Finish ==
  /\ once /\ (\E seen \in SUBSET corpus : Walk(seen) /\ seen \subseteq done)
  /\ Exit("scan", "done")
  /\ UNCHANGED <<options, outside, disk, lost>>

\* Mutant: the file is listed before the checkpoint holds it.
TrainListed(f) ==
  /\ f \in fresh \ locked /\ Goto("files", "save")
  /\ model[f] <= MaxTroubles /\ model' = [model EXCEPT ![f] = @ + 1]
  /\ file' = {f} /\ fresh' = fresh \ {f} /\ trained' = trained \cup {f}
  /\ UNCHANGED <<options, outside, ckpt, tmp, snap, noted, done, taken, due, troubles, lost>>

\* In sorted order, which no property tells from another.  A shard that cannot
\* open the file keeps all of them out of the model.
Train(f) ==
  /\ f \in fresh \ locked /\ Goto("files", "save")
  /\ model[f] <= MaxTroubles /\ model' = [model EXCEPT ![f] = @ + 1]
  /\ file' = {f} /\ fresh' = fresh \ {f}
  /\ UNCHANGED <<options, outside, disk, done, taken, due, troubles, lost>>

\* Mutant: an unreadable file counts as trained.
SkipForGood(f) ==
  /\ f \in fresh \cap locked /\ pc = "files" /\ fresh' = fresh \ {f} /\ done' = done \cup {f}
  /\ UNCHANGED <<options, outside, disk, pc, model, file, taken, due, troubles, lost>>

Skip(f) ==
  /\ f \in fresh \cap locked /\ pc = "files" /\ fresh' = fresh \ {f}
  /\ UNCHANGED <<options, outside, disk, pc, model, done, file, taken, due, troubles, lost>>

EndOfFiles == fresh = {} /\ Goto("files", "scan") /\ UNCHANGED <<options, outside, disk, memory, troubles, lost>>

-----------------------------------------------------------------------------
(* save, save_checkpoint *)

Open ==
  /\ \/ Goto("save", "flush") /\ tmp' = Torn /\ UNCHANGED <<memory, troubles>>
     \/ Exit("save", "failed") /\ Fails("write") /\ UNCHANGED tmp
  /\ UNCHANGED <<options, outside, ckpt, trained, snap, noted, lost>>

Flush ==
  /\ \/ Goto("flush", "rename") /\ tmp' = Whole(model) /\ UNCHANGED <<memory, troubles>>
     \/ Exit("flush", "failed") /\ Fails("write") /\ UNCHANGED tmp
  /\ UNCHANGED <<options, outside, ckpt, trained, snap, noted, lost>>

Renamed(from) == Goto(from, "list") /\ ckpt' = tmp /\ tmp' = Absent

\* When the rename fails the checkpoint is removed first, and it is tried again.
Rename ==
  /\ \/ Renamed("rename") /\ UNCHANGED troubles
     \/ Fails("rename") /\ Goto("rename", "again") /\ ckpt' = Absent /\ UNCHANGED tmp
  /\ UNCHANGED <<options, outside, trained, snap, noted, memory, lost>>

RenameAgain ==
  /\ \/ Renamed("again") /\ UNCHANGED <<memory, troubles>>
     \/ Exit("again", "failed") /\ Fails("rename") /\ UNCHANGED <<ckpt, tmp>>
  /\ UNCHANGED <<options, outside, trained, snap, noted, lost>>

-----------------------------------------------------------------------------
(* After the checkpoint: trained.txt, and the snapshots of v2 *)

Due == IF kind = "v2" THEN {m \in Marks : Bytes(model) >= m /\ m \notin taken} ELSE {}

\* Nobody looks whether the line was written.
List ==
  /\ Goto("list", "marks") /\ done' = done \cup file /\ file' = {} /\ due' = Due
  /\ \/ trained' = trained \cup file /\ UNCHANGED troubles
     \/ Fails("list") /\ UNCHANGED trained
  /\ UNCHANGED <<options, outside, ckpt, tmp, snap, noted, model, fresh, taken, lost>>

\* Mutant: the snapshot is noted before it is copied.
CopyNoted(m) ==
  /\ m \in due /\ \A n \in due : m <= n
  /\ snap[m] # Torn /\ pc = "marks" /\ snap' = [snap EXCEPT ![m] = Torn] /\ noted' = noted \cup {m}
  /\ UNCHANGED <<options, outside, ckpt, tmp, trained, pc, memory, troubles, lost>>

\* The copy is torn until it has ended.
Copy(m) ==
  /\ m \in due /\ \A n \in due : m <= n
  /\ snap[m] # Torn /\ pc = "marks" /\ snap' = [snap EXCEPT ![m] = Torn]
  /\ UNCHANGED <<options, outside, ckpt, tmp, trained, noted, pc, memory, troubles, lost>>

CopyEnds(m) ==
  /\ m \in due /\ (\A n \in due : m <= n) /\ snap[m] = Torn
  /\ \/ Goto("marks", "note") /\ snap' = [snap EXCEPT ![m] = ckpt] /\ UNCHANGED <<due, troubles>>
     \/ pc = "marks" /\ Fails("copy") /\ due' = due \ {m} /\ UNCHANGED <<pc, snap>>
  /\ UNCHANGED <<options, outside, ckpt, tmp, trained, noted, model, done, fresh, file, taken, lost>>

Note(m) ==
  /\ m \in due /\ \A n \in due : m <= n
  /\ Goto("note", "marks") /\ taken' = taken \cup {m} /\ due' = due \ {m}
  /\ \/ noted' = noted \cup {m} /\ UNCHANGED troubles
     \/ Fails("list") /\ UNCHANGED noted
  /\ UNCHANGED <<options, outside, ckpt, tmp, trained, snap, model, done, fresh, file, lost>>

EndOfMarks == due = {} /\ Goto("marks", "files") /\ UNCHANGED <<options, outside, disk, memory, troubles, lost>>

-----------------------------------------------------------------------------
(* What the trainer is stopped by, and the downloads *)

Stop ==
  /\ pc \notin Stopped /\ pc' = "off" /\ Forget /\ Trouble
  /\ UNCHANGED <<options, outside, disk, lost>>

Downloaded(f) ==
  /\ f \notin corpus /\ corpus' = corpus \cup {f}
  /\ UNCHANGED <<options, locked, disk, pc, memory, troubles, lost>>

Unlock(f) ==
  /\ f \in locked /\ locked' = locked \ {f}
  /\ UNCHANGED <<options, corpus, disk, pc, memory, troubles, lost>>

Start == Resume \/ New \/ CannotResume
Step ==
  \/ Scan \/ Finish \/ EndOfFiles \/ Open \/ Flush \/ Rename \/ RenameAgain \/ List \/ EndOfMarks
  \/ \E f \in Files : Train(f) \/ Skip(f)
  \/ \E m \in Marks : Copy(m) \/ CopyEnds(m) \/ Note(m)

Next == Start \/ Step \/ Stop \/ \E f \in Files : Downloaded(f) \/ Unlock(f)

Spec == Init /\ [][Next]_vars

\* The process runs, and who runs it starts it again (scripts/train_model.sh).
FairSpec == Spec /\ WF_vars(Step) /\ WF_vars(Start)
-----------------------------------------------------------------------------
(* trie_ckpt verify --deep: the names of the finished files, and their bytes *)

CorpusBytes == SumFunctionOnSet(size, corpus \ locked)

\* Mutant: the bytes are not compared.
VerifiedByNames == ckpt.is = "whole" /\ corpus \subseteq trained

Verified == ckpt.is = "whole" /\ corpus \subseteq trained /\ Bytes(ckpt.holds) = CorpusBytes

-----------------------------------------------------------------------------
(* What the trainers promise *)

\* Whenever the process is stopped, checkpoint.bin can be resumed: only what was
\* written to its end is renamed to it (save, save_checkpoint).
CheckpointIsWhole == ckpt.is # "torn"

\* A file trained.txt names, which no run trains again, is counted in the
\* checkpoint, whenever the process is stopped.  While a failed rename is tried
\* again it is counted in the .tmp file, and lost if a run begins without.
NothingForgotten ==
  \A f \in trained \ lost : HoldsFile(ckpt, f) \/ (ckpt = Absent /\ HoldsFile(tmp, f))

\* A snapshot snapshots.tsv names is a copy to the end of a checkpoint past its
\* size, and is not written over by a later run.
SnapshotIsWhole == \A m \in noted : snap[m].is = "whole" /\ Bytes(snap[m].holds) >= m

TrainerInv == TypeOK /\ CheckpointIsWhole /\ SnapshotIsWhole

\* A checkpoint the deep check verifies counts every finished file once, though
\* the check sees the sum of the bytes and the list and not what was counted; as long
\* as no run began without the checkpoint of files that are listed, or with a part of one.
VerifiedMeansTrained == Verified /\ lost = {} => \A f \in corpus : ckpt.holds[f] = 1

\* --once stops when the checkpoint holds every file finished by then, those skipped
\* before, retried after a crash or unlisted included.  Two exceptions: when an error
\* broke off the last walk (trie_stream_train_v2.cpp:132) it holds the files that count
\* as done, and others may be left; and files are missing that were lost, because a run
\* ended when a failed rename had removed their checkpoint (stream_trie.hpp:439), or did
\* not get to read all of it, and trained.txt was believed all the same.
WalkBrokeOff == troubles' # troubles
DoneMeansAll ==
  [][pc # "done" /\ pc' = "done" =>
       \A f \in (IF WalkBrokeOff THEN done ELSE corpus) : HoldsFile(ckpt, f) \/ f \in lost]_vars

\* A finished file that can be read gets into the checkpoint, whatever stops the
\* trainer on the way and whichever other files it cannot read; if it is not among the
\* lost, and walks of the corpus are broken off only so often (MaxTroubles).
FilesGetTrained ==
  \A f \in Files : f \in corpus /\ f \notin locked ~> HoldsFile(ckpt, f) \/ f \in lost

\* "done: every finished file is trained" (trie_stream_train_v2.cpp:191), without the two
\* exceptions.
EveryFileIsTrained ==
  [][pc # "done" /\ pc' = "done" => \A f \in corpus : HoldsFile(ckpt, f)]_vars

\* train_model.sh: "It resumes if stopped and ends when every finished corpus file
\* is trained", and the model it ends with is to be verified.
DoneIsVerified == pc = "done" /\ trained # {} /\ corpus \subseteq trained => Verified
=============================================================================
