---------------------------- MODULE ModelRegistry ----------------------------
(***************************************************************************)
(* One version directory <root>/<name>/<version> of the on-disk model      *)
(* registry, as registry_register_bundle writes it and registry_scan reads *)
(* it.  Version directories do not interact, so one is enough.  Every file *)
(* system call of the writer is a step of its own: another writer (the     *)
(* registry_register tool, the desktop shell, a server's POST /register)   *)
(* or a scan may come in between, and a writer may die at any step.        *)
(***************************************************************************)
EXTENDS Naturals, FiniteSets

CONSTANTS Writers,     \* processes that call registry_register_bundle
          MaxCalls     \* bound: calls made in a behaviour

ASSUME RegistryAssumption == /\ Writers # {} /\ IsFiniteSet(Writers)
                             /\ MaxCalls \in Nat \ {0}

Files == {"model", "card", "pre"}

\* A file: the calls whose bytes it holds, and whether a copy into it ended.
Absent == [by |-> {}, whole |-> FALSE]
FileState == [by: SUBSET (1..MaxCalls), whole: BOOLEAN]

\* A call: whether it may overwrite, the sources that exist, and whether it
\* names a preprocessor at all.
Requests == {r \in [overwrite: BOOLEAN, sources: SUBSET Files, pre: BOOLEAN] :
               r.pre \/ "pre" \notin r.sources}

VARIABLES dir,      \* the version directory exists
          file,     \* its files
          calls,    \* calls begun so far; the number names a call
          pc,       \* where each writer is
          req,      \* the call each writer is in (or was last in)
          id,       \* that call's number
          open,     \* it has the target of the copy it is in open
          result,   \* what its last call returned
          raced     \* history: two calls were under way at once

registryVars == <<dir, file, calls, pc, req, id, open, result, raced>>

PCs == {"idle", "exists", "remove", "create", "check", "model", "card", "pre"}
Results == {"none", "ok", "refused", "missing", "died"}

RegistryTypeOK == /\ dir \in BOOLEAN
          /\ file \in [Files -> FileState]
          /\ calls \in 0..MaxCalls
          /\ pc \in [Writers -> PCs]
          /\ req \in [Writers -> Requests]
          /\ id \in [Writers -> 0..MaxCalls]
          /\ open \in [Writers -> BOOLEAN]
          /\ result \in [Writers -> Results]
          /\ raced \in BOOLEAN

RegistryInit == /\ dir = FALSE
        /\ file = [f \in Files |-> Absent]
        /\ calls = 0
        /\ pc = [w \in Writers |-> "idle"]
        /\ req = [w \in Writers |-> [overwrite |-> FALSE, sources |-> {}, pre |-> FALSE]]
        /\ id = [w \in Writers |-> 0]
        /\ open = [w \in Writers |-> FALSE]
        /\ result = [w \in Writers |-> "none"]
        /\ raced = FALSE

Goto(w, l) == pc' = [pc EXCEPT ![w] = l]
Return(w, r) == Goto(w, "idle") /\ result' = [result EXCEPT ![w] = r]

Call(w, r) ==
  /\ pc[w] = "idle" /\ calls < MaxCalls
  /\ calls' = calls + 1
  /\ id' = [id EXCEPT ![w] = calls + 1]
  /\ req' = [req EXCEPT ![w] = r]
  /\ result' = [result EXCEPT ![w] = "none"]
  /\ Goto(w, "exists")
  /\ raced' = (raced \/ \E v \in Writers : pc[v] # "idle")
  /\ UNCHANGED <<dir, file, open>>

\* fs::exists(dest), and the refusal of a call without overwrite.
CheckExists(w) ==
  /\ pc[w] = "exists"
  /\ \/ ~dir /\ Goto(w, "create") /\ UNCHANGED result
     \/ dir /\ req[w].overwrite /\ Goto(w, "remove") /\ UNCHANGED result
     \/ dir /\ ~req[w].overwrite /\ Return(w, "refused")
  /\ UNCHANGED <<dir, file, calls, req, id, open, raced>>

Present(f) == file[f] # Absent

\* Mutant: the overwrite copies over the old bundle instead of clearing it.
RemoveNothing(w) ==
  /\ pc[w] = "remove"
  /\ Goto(w, "create")
  /\ UNCHANGED <<dir, file, calls, req, id, open, result, raced>>

\* fs::remove_all(dest): the files in any order, then the directory.
RemoveAll(w) ==
  /\ pc[w] = "remove"
  /\ \/ /\ \E f \in Files : Present(f) /\ file' = [file EXCEPT ![f] = Absent]
        /\ UNCHANGED <<dir, pc>>
     \/ /\ \A f \in Files : ~Present(f)
        /\ dir' = FALSE
        /\ Goto(w, "create")
        /\ UNCHANGED file
  /\ UNCHANGED <<calls, req, id, open, result, raced>>

CreateDir(w) ==
  /\ pc[w] = "create"
  /\ dir' = TRUE
  /\ Goto(w, "check")
  /\ UNCHANGED <<file, calls, req, id, open, result, raced>>

\* The model and card sources are looked at only after dest was cleared.
CheckSources(w) ==
  /\ pc[w] = "check"
  /\ IF {"model", "card"} \subseteq req[w].sources
     THEN Goto(w, "model") /\ UNCHANGED result
     ELSE Return(w, "missing")
  /\ UNCHANGED <<dir, file, calls, req, id, open, raced>>

Copying(w, f) == pc[w] = f /\ f \in req[w].sources

\* fs::copy_file creates or truncates the target (and throws when another
\* writer has removed the directory: then only Die is left) ...
StartCopy(w, f) ==
  /\ Copying(w, f) /\ dir /\ ~open[w]
  /\ file' = [file EXCEPT ![f] = [by |-> {id[w]}, whole |-> FALSE]]
  /\ open' = [open EXCEPT ![w] = TRUE]
  /\ UNCHANGED <<dir, calls, pc, req, id, result, raced>>

NextAfter(w, f) ==
  CASE f = "model" -> "card"
    [] f = "card" /\ req[w].pre -> "pre"
    [] OTHER -> "idle"

\* Mutant: a copy that stops half way is taken for done.
EndCopyIgnoringErrors(w, f) ==
  /\ Copying(w, f) /\ open[w]
  /\ file' \in {file, [file EXCEPT ![f].whole = Present(f)]}
  /\ open' = [open EXCEPT ![w] = FALSE]
  /\ IF NextAfter(w, f) = "idle" THEN Return(w, "ok")
                                 ELSE Goto(w, NextAfter(w, f)) /\ UNCHANGED result
  /\ UNCHANGED <<dir, calls, req, id, raced>>

\* ... and fills it.  If another writer unlinked or truncated it meanwhile the
\* bytes go to the unlinked file, or into the one the other is writing.
EndCopy(w, f) ==
  /\ Copying(w, f) /\ open[w]
  /\ \/ id[w] \in file[f].by /\ file' = [file EXCEPT ![f].whole = TRUE]
     \/ id[w] \notin file[f].by /\ UNCHANGED file
     \/ /\ id[w] \notin file[f].by /\ Present(f)
        /\ file' = [file EXCEPT ![f].by = @ \cup {id[w]}]
  /\ open' = [open EXCEPT ![w] = FALSE]
  /\ IF NextAfter(w, f) = "idle" THEN Return(w, "ok")
                                 ELSE Goto(w, NextAfter(w, f)) /\ UNCHANGED result
  /\ UNCHANGED <<dir, calls, req, id, raced>>

\* The preprocessor source is looked at last, with the model and card in place.
MissingPreprocessor(w) ==
  /\ pc[w] = "pre" /\ "pre" \notin req[w].sources
  /\ Return(w, "missing")
  /\ UNCHANGED <<dir, file, calls, req, id, open, raced>>

\* The process is killed, or a file system call fails and the call returns
\* through its catch: nothing is undone.
Die(w) ==
  /\ pc[w] # "idle"
  /\ Return(w, "died")
  /\ open' = [open EXCEPT ![w] = FALSE]
  /\ UNCHANGED <<dir, file, calls, req, id, raced>>

Step(w) == \/ \E r \in Requests : Call(w, r)
           \/ CheckExists(w) \/ RemoveAll(w) \/ CreateDir(w) \/ CheckSources(w)
           \/ \E f \in Files : StartCopy(w, f) \/ EndCopy(w, f)
           \/ MissingPreprocessor(w)
           \/ Die(w)

RegistryNext == \E w \in Writers : Step(w)

RegistrySpec == RegistryInit /\ [][RegistryNext]_registryVars

\* registry_scan lists a version directory that holds a model and a card.
Scanned == dir /\ Present("model") /\ Present("card")

-----------------------------------------------------------------------------
\* While calls follow one another a bundle the scan lists has a whole model file:
\* the card is created only once the model is copied, so a writer that dies half
\* way through model.cypha leaves nothing a server would load.
ListedModelIsWhole == Scanned /\ ~raced => file["model"].whole

\* Of calls at the same time this much is left: a half-written model is listed
\* only where two calls wrote into the directory.
HalfModelNeedsTwoCalls ==
  Scanned /\ ~file["model"].whole
    => Cardinality(UNION {file[f].by : f \in Files}) >= 2

\* The files of the directory all come from one call unless calls overlapped: an
\* overwrite that died while clearing the old bundle is not completed with new
\* files.
NeverMixed ==
  ~raced => \A f, g \in Files : Present(f) /\ Present(g) => file[f].by = file[g].by

\* What a scan may find, with the types of the state.
RegistryInv == RegistryTypeOK /\ ListedModelIsWhole /\ HalfModelNeedsTwoCalls /\ NeverMixed

\* A call that returns true, and met no other, leaves exactly the bundle it was
\* given: every file it names whole, and no preprocessor of an earlier bundle.
OkMeansInstalled ==
  [][\A w \in Writers : ~raced /\ result'[w] = "ok" /\ result[w] = "none" =>
        \A f \in Files :
          file'[f] = IF f = "pre" /\ ~req[w].pre THEN Absent
                     ELSE [by |-> {id[w]}, whole |-> TRUE]]_registryVars
=============================================================================
