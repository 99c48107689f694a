----------------------------- MODULE CyphaObject -----------------------------
(***************************************************************************)
(* One cypha::Cypha object and the .cypha files it is saved to and loaded  *)
(* from: train, save, die, load, train on.  A value says only where it     *)
(* comes from: the models it was learned from (a model is named by the     *)
(* path its first file is at) and the step that changed it last.  What a   *)
(* row does to the numbers is left out; which parts of the object it reads *)
(* and which it changes is kept, so that what one part holds of another    *)
(* model shows in every part that learns from it.                          *)
(***************************************************************************)
EXTENDS Naturals

CONSTANTS Paths,     \* of .cypha files
          Targets,   \* the paths that are saved to
          MaxSteps   \* bound: steps that change the object

ASSUME ObjectAssumption == Paths # {} /\ Targets \subseteq Paths /\ MaxSteps \in Nat

\* The parts of an object that are reset, written or read together:
\*   weights  infer_, mem_, total_steps_, llr_ema_ (the keys of format 1)
\*   totals   what from_root recomputes: running totals, world_M2, log-norm
\*   hparams  rates, ood_sigma_ and tsp_        gh       the gate session
\*   enc      enc_updates_                      ood      the ring of latents
\*   session  rng_, ewc_lambda_, epistemic_threshold_, last_active_query_score_
\*   kernel, replay, ewc, head                  the optional members
\* The preprocessor is left out: it is read from a file of its own and never saved.
Parts == {"weights", "totals", "kernel", "hparams", "gh", "enc", "replay",
          "session", "ewc", "ood", "head"}

Value == [by: SUBSET Paths, at: 0..MaxSteps + 1]
Default == [by |-> {}, at |-> 0]
FromJson == [by |-> {}, at |-> MaxSteps + 1]   \* read from a file beside the model

Objects == [Parts -> Value]
New == [q \in Parts |-> Default]

\* A file: its format, the parts in it, use_kernel_llr; and, for the properties,
\* how the object it was saved from behaved and whether that was mixed.
Files == [format: {1, 2}, parts: Objects, use: BOOLEAN, of: Objects, mixed: BOOLEAN]
Torn == [format |-> 0]

VARIABLES obj,     \* the object
          use,     \* use_kernel_llr_
          files,   \* what is at each path
          clock,   \* steps so far
          mixed    \* a load has left parts of another model in the object

vars == <<obj, use, files, clock, mixed>>

TypeOK == /\ obj \in Objects /\ use \in BOOLEAN /\ mixed \in BOOLEAN
          /\ files \in [Paths -> Files \cup {Torn}]
          /\ clock \in 0..MaxSteps

\* A format-1 file of a model of its own at every path, and a new object.
OldFile(p) == LET o == [New EXCEPT !["weights"].by = {p}] IN
              [format |-> 1, parts |-> o, use |-> FALSE, of |-> o, mixed |-> FALSE]

Init == /\ obj = New /\ use = FALSE /\ clock = 0 /\ mixed = FALSE
        /\ files = [p \in Paths |-> OldFile(p)]

Loaded(o) == o["weights"].by # {}

-----------------------------------------------------------------------------
(* Learning *)

\* The parts in S change, from what they and the parts in R were.
Learnt(o, S, R) ==
  [q \in Parts |-> IF q \in S
                   THEN [by |-> UNION {o[r].by : r \in S \cup R}, at |-> clock + 1]
                   ELSE o[q]]

Tick == clock < MaxSteps /\ clock' = clock + 1

\* update(): a labelled row, with or without the GH gate, or a regression
\* target; ewc_snapshot anchors the weights before the row is learned.
Update(target, gate, snapshot) ==
  /\ Loaded(obj) /\ Tick
  /\ target => obj["head"] # Default
  /\ LET before == IF snapshot
                   THEN [obj EXCEPT !["ewc"] = [by |-> obj["weights"].by, at |-> clock + 1]]
                   ELSE obj
         touched == {"weights", "totals", "enc", "replay", "session"}
                    \cup (IF use THEN {"kernel"} ELSE {})
                    \cup (IF target THEN {"head"} ELSE IF gate THEN {"gh"} ELSE {})
                    \cup (IF target \/ obj["head"] # Default THEN {} ELSE {"ood"})
     IN obj' = Learnt(before, touched, {"hparams", "ewc"})
  /\ UNCHANGED <<use, files, mixed>>

\* predict() keeps the last active-query score and the self-correction threshold.
Predict == /\ Loaded(obj) /\ Tick
           /\ obj' = Learnt(obj, {"session"}, {"weights"})
           /\ UNCHANGED <<use, files, mixed>>

\* The caller sets rates, or turns the kernel scores on or off.
SetHparams == /\ Tick
              /\ obj' = [obj EXCEPT !["hparams"] = [by |-> {}, at |-> clock + 1]]
              /\ UNCHANGED <<use, files, mixed>>

SetKernel == /\ Loaded(obj) /\ Tick
             /\ use' = ~use
             /\ obj' = IF ~use /\ obj["kernel"] = Default
                       THEN [obj EXCEPT !["kernel"].at = clock + 1] ELSE obj
             /\ UNCHANGED <<files, mixed>>

-----------------------------------------------------------------------------
(* Saving *)

\* What predict and update read of an object: not a kernel that is switched off.
Behaviour(o) == [o EXCEPT !["kernel"] = IF use THEN @ ELSE Default]

\* export_save_state and the keys save() patches: the kernel only while its
\* scores are used.
Exported(o) == [o EXCEPT !["kernel"] = IF use THEN @ ELSE Default]

\* The file is emptied and written in place and the write is not checked: it
\* is whole, or it is cut short without a word, or the process dies in it.
Save(p) ==
  /\ Loaded(obj)
  /\ \/ /\ files' = [files EXCEPT ![p] = [format |-> 2, parts |-> Exported(obj), use |-> use,
                                        of |-> Behaviour(obj), mixed |-> mixed]]
        /\ UNCHANGED <<obj, use, mixed>>
     \/ /\ files' = [files EXCEPT ![p] = Torn]
        /\ UNCHANGED <<obj, use, mixed>>
     \/ /\ files' = [files EXCEPT ![p] = Torn]
        /\ obj' = New /\ use' = FALSE /\ mixed' = FALSE
  /\ UNCHANGED clock

\* The process ends; the next one starts with a new object.
Restart == /\ obj' = New /\ use' = FALSE /\ mixed' = FALSE
           /\ UNCHANGED <<files, clock>>

-----------------------------------------------------------------------------
(* Loading, in the order of load(): each operator is the object after one more *)
(* part of it                                                                  *)

\* apply_default_hparams, reset_ood_threshold, clear_mke: before the file is read.
Cleared(o) == [o EXCEPT !["hparams"] = Default, !["ood"] = Default, !["head"] = Default]

\* Mutant: a kernel is replaced, never dropped.
WithWeightsOldKernel(o, f) ==
  [o EXCEPT !["weights"] = f.parts["weights"],
            !["totals"] = [f.parts["weights"] EXCEPT !.at = 0],
            !["kernel"] = IF f.use THEN f.parts["kernel"] ELSE @]

\* from_root and from_cypha_root, then the kernel if the file uses one.
WithWeights(o, f) ==
  [o EXCEPT !["weights"] = f.parts["weights"],
            !["totals"] = [f.parts["weights"] EXCEPT !.at = 0],
            !["kernel"] = IF f.use THEN f.parts["kernel"] ELSE Default]

\* The saved rates of format 2; then a train_hparams.json overrides those it has.
WithHparams(o, f, json) ==
  LET saved == IF f.format = 2 THEN f.parts["hparams"] ELSE o["hparams"] IN
  [o EXCEPT !["hparams"] = IF json THEN [saved EXCEPT !.at = FromJson.at] ELSE saved]

\* The gate session is taken from the weights; the encoder count and the
\* replay buffer start again.  rng_, ewc_ and the rest of the session stay.
Freshened(o) == [o EXCEPT !["gh"] = Default, !["enc"] = Default, !["replay"] = Default]

\* Mutant: a file without anchors leaves those of the object.
WithSavedStateOrOld(o, f) ==
  [q \in Parts |-> IF \/ q \in {"gh", "totals", "enc", "session", "ood", "replay"}
                      \/ q = "ewc" /\ f.parts["ewc"] # Default
                   THEN f.parts[q] ELSE o[q]]

\* The state only format 2 has (import_save_state).
WithSavedState(o, f) ==
  [q \in Parts |-> IF q \in {"gh", "totals", "enc", "session", "ood", "replay", "ewc"}
                   THEN f.parts[q] ELSE o[q]]

WithState(o, f) == IF f.format = 2 THEN WithSavedState(Freshened(o), f) ELSE Freshened(o)

\* A regression head by path, else the saved one, else one beside the file.
WithHead(o, f, head) ==
  [o EXCEPT !["head"] = IF head = "given" THEN FromJson
                        ELSE IF f.format = 2 /\ f.parts["head"] # Default
                        THEN f.parts["head"]
                        ELSE IF head = "beside" THEN FromJson ELSE Default]

\* load() fails in the middle and the object keeps what was read so far: the file
\* is cut short or its f_field data are missing, the preprocessor or the rates
\* do not parse, or a head given by path cannot be read.
LoadFails(p) ==
  /\ \/ obj' = Cleared(obj) /\ UNCHANGED <<use, mixed>>
     \/ /\ files[p] # Torn
        /\ LET f == files[p]
               read == WithWeights(Cleared(obj), f) IN
           \/ obj' = read
           \/ \E json \in BOOLEAN :
                \/ obj' = WithHparams(read, f, json)
                \/ obj' = [WithState(WithHparams(read, f, json), f) EXCEPT !["head"] = Default]
        /\ use' = files[p].use
        /\ mixed' = (mixed \/ files[p].mixed \/ Loaded(obj))
  /\ UNCHANGED <<files, clock>>

\* A train_hparams.json, and a head given by path or beside the file.
Heads == {"none", "given", "beside"}

LoadSucceeds(p, json, head) ==
  /\ files[p] # Torn
  /\ LET f == files[p]
         read == WithWeights(Cleared(obj), f) IN
     /\ obj' = WithHead(WithState(WithHparams(read, f, json), f), f, head)
     /\ use' = f.use
     /\ mixed' = IF f.format = 2 THEN f.mixed
                 ELSE obj["session"] # Default \/ obj["ewc"] # Default
  /\ UNCHANGED <<files, clock>>

Next == \/ \E target, gate, snapshot \in BOOLEAN : Update(target, gate, snapshot)
        \/ Predict \/ SetHparams \/ SetKernel \/ Restart
        \/ \E p \in Targets : Save(p)
        \/ \E p \in Paths : LoadFails(p)
        \/ \E p \in Paths, json \in BOOLEAN, head \in Heads : LoadSucceeds(p, json, head)

Spec == Init /\ [][Next]_vars

-----------------------------------------------------------------------------
\* A format-2 file gives back the object it was saved from, in every part that
\* predict and update read, whatever the loading object was used for before and
\* whatever loads failed on it; only the rates and the head given besides it are
\* not the file's, and a head lying beside it does not win over its own.  From
\* a format-1 file everything but the session and the anchors is its model's.
LoadRestores ==
  [][\A p \in Paths, json \in BOOLEAN, head \in Heads :
       LoadSucceeds(p, json, head) =>
         LET f == files[p] IN
         IF f.format = 1
         THEN \A q \in Parts \ {"session", "ewc"} : obj'[q].by \subseteq {p}
         ELSE /\ use' = f.use
              /\ \A q \in Parts \ {"hparams", "head"} : obj'[q] = f.of[q]
              /\ ~json => obj'["hparams"] = f.of["hparams"]
              /\ (head = "none" \/ (head = "beside" /\ f.of["head"] # Default))
                 => obj'["head"] = f.of["head"]]_vars

\* One model's experience: unless a load failed half way, or a format-1 file was
\* loaded over an object whose generator or anchors were in use, an object, and
\* every file saved from it, holds nothing learned by another model.
OfOneModel(o) == \E p \in Paths : \A q \in Parts : o[q].by \subseteq {p}

ModelsStayApart ==
  /\ ~mixed => OfOneModel(obj)
  /\ \A p \in Paths : files[p] # Torn /\ ~files[p].mixed => OfOneModel(files[p].parts)

ObjectInv == TypeOK /\ ModelsStayApart
=============================================================================
