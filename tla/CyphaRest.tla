------------------------------ MODULE CyphaRest ------------------------------
(***************************************************************************)
(* The models the REST server cypha_rest holds: the active one in the      *)
(* process globals, the map of named slots and the cached registry listing *)
(* under the routes that read or change them.                              *)
(* A route that holds g_mu for its whole body is one action; POST /load of *)
(* one model takes g_mu twice, so it is two.                               *)
(***************************************************************************)
EXTENDS Naturals, FiniteSets

CONSTANTS Keys,        \* registry keys "name/version"
          NoKey,       \* no key: an empty g_active_model_key, an omitted "model"
          Outside,     \* the source of a --cypha file that is not in the registry
          Threads,     \* HTTP handler threads that serve POST /load
          Shapes,      \* the bundles that may be written to the registry
          MaxFiles,    \* bound: bundles written to the registry
          MaxLearned   \* bound: updates a model object takes

FaultKinds == {"none", "noField", "badState", "badPre", "badHead", "badCard"}

\* A bundle: whether a preprocessor and a regression head lie beside the model,
\* and how loading it goes wrong.
Shape == [pre: BOOLEAN, head: BOOLEAN, fault: FaultKinds]

ASSUME RestAssumption ==
  /\ Keys # {} /\ IsFiniteSet(Keys)
  /\ NoKey \notin Keys /\ Outside \notin Keys /\ NoKey # Outside
  /\ Shapes \subseteq Shape
  /\ MaxFiles \in Nat /\ MaxLearned \in Nat

\* A bundle directory: the registration that wrote it (0: there is no bundle).
Bundles == [n: 0..MaxFiles, shape: Shape]
NoBundle == [n |-> 0, shape |-> [pre |-> FALSE, head |-> FALSE, fault |-> "none"]]

\* A cypha::Cypha object: the bundle each part was read from, the updates taken
\* since, and whether the last load of it returned true.
Sources == [key: Keys \cup {NoKey, Outside}, n: 0..MaxFiles]
NoFile == [key |-> NoKey, n |-> 0]
Models == [weights: Sources, pre: Sources, head: Sources,
           learned: 0..MaxLearned, clean: BOOLEAN]
Fresh == [weights |-> NoFile, pre |-> NoFile, head |-> NoFile,
          learned |-> 0, clean |-> FALSE]
Loaded(m) == m.weights # NoFile

\* What a scan recorded of a key: g_registry_cache keeps the paths it found.
Listings == {"unlisted", "plain", "withPre"}

Ops == {"start", "predict", "update", "load", "loadAll", "register", "other"}
Replies == [op: Ops, key: Keys \cup {NoKey}, status: {200, 400, 404, 500, 503}]
NotLoading == [key |-> NoKey, scan |-> 0]

VARIABLES disk,     \* the registry tree: the bundle under each key
          files,    \* bundles written so far
          up,       \* the server runs
          cache,    \* g_registry_cache
          scans,    \* the scan that built it: where its elements live
          globals,  \* *g_cypha
          mapped,   \* the keys with an entry in g_models
          slots,    \* those entries
          active,   \* g_active_model_key
          load,     \* per thread, the ref of a /load between its two lock holds
          reply     \* the last reply sent

vars == <<disk, files, up, cache, scans, globals, mapped, slots, active,
          load, reply>>
listing == <<cache, scans>>
models == <<globals, mapped, slots, active>>

TypeOK == /\ disk \in [Keys -> Bundles] /\ files \in 0..MaxFiles
          /\ up \in BOOLEAN
          /\ cache \in [Keys -> Listings] /\ scans \in Nat
          /\ globals \in Models /\ mapped \subseteq Keys
          /\ slots \in [Keys -> Models] /\ active \in Keys \cup {NoKey}
          /\ load \in [Threads -> {NotLoading} \cup [key: Keys, scan: Nat]]
          /\ reply \in Replies

Init == /\ disk = [k \in Keys |-> NoBundle] /\ files = 0
        /\ up = FALSE
        /\ cache = [k \in Keys |-> "unlisted"] /\ scans = 0
        /\ globals = Fresh /\ mapped = {} /\ slots = [k \in Keys |-> Fresh]
        /\ active = NoKey
        /\ load = [t \in Threads |-> NotLoading]
        /\ reply = [op |-> "other", key |-> NoKey, status |-> 200]

Say(o, k, s) == reply' = [op |-> o, key |-> k, status |-> s]

-----------------------------------------------------------------------------
(* Loading one bundle into one model object: Cypha::load *)

Scan(d) == [k \in Keys |-> IF d[k].n = 0 THEN "unlisted"
                           ELSE IF d[k].shape.pre THEN "withPre" ELSE "plain"]
Listed == {k \in Keys : cache[k] # "unlisted"}

\* How reading the files under k goes wrong, given what the scan found there: the
\* bundle may have been rewritten (or emptied) since, by another process.
FaultOf(k, found) ==
  IF disk[k].n = 0 THEN "gone"
  ELSE CASE found = "withPre" /\ ~disk[k].shape.pre
              /\ disk[k].shape.fault \notin {"noField", "badState"} -> "badPre"
         [] found # "withPre" /\ disk[k].shape.fault = "badPre" -> "none"
         [] OTHER -> disk[k].shape.fault

Throws(f) == f \in {"gone", "badState", "badPre"}
Fails(f) == Throws(f) \/ f \in {"noField", "badHead"}

\* Mutant: a bundle without a preprocessor leaves the last one in place.
AfterLoadKeepingPre(m, k, found) ==
  LET src == [key |-> k, n |-> disk[k].n]
      f == FaultOf(k, found)
      cleared == [m EXCEPT !.head = NoFile, !.clean = FALSE]
  IN IF f \in {"gone", "noField"} THEN cleared
     ELSE [cleared EXCEPT
             !.weights = src, !.learned = 0,
             !.pre = IF found = "withPre" /\ ~Throws(f) THEN src ELSE @,
             !.head = IF disk[k].shape.head /\ ~Fails(f) THEN src ELSE @,
             !.clean = ~Fails(f)]

\* Mutant: the old weights are dropped before the file is opened.
AfterLoadResetFirst(m, k, found) ==
  LET src == [key |-> k, n |-> disk[k].n]
      f == FaultOf(k, found)
  IN [weights |-> IF f \in {"gone", "noField"} THEN NoFile ELSE src,
      pre |-> IF found = "withPre" /\ ~Throws(f) /\ f # "noField" THEN src ELSE NoFile,
      head |-> IF disk[k].shape.head /\ ~Fails(f) THEN src ELSE NoFile,
      learned |-> 0, clean |-> ~Fails(f)]

\* The object after a load attempt.  Learning parameters and the regression head
\* are reset before the file is opened; the weights are replaced as soon as they
\* are read, the preprocessor after them, the head last.  Nothing is undone.
AfterLoad(m, k, found) ==
  LET src == [key |-> k, n |-> disk[k].n]
      f == FaultOf(k, found)
      cleared == [m EXCEPT !.head = NoFile, !.clean = FALSE]
  IN IF f \in {"gone", "noField"} THEN cleared
     ELSE [cleared EXCEPT
             !.weights = src, !.learned = 0,
             !.pre = IF f = "badState" THEN @
                     ELSE IF f = "badPre" \/ found # "withPre" THEN NoFile ELSE src,
             !.head = IF disk[k].shape.head /\ ~Fails(f) THEN src ELSE @,
             !.clean = ~Fails(f)]

-----------------------------------------------------------------------------
(* Startup and stop *)

\* --preload-registry: every listed key but the active one and those in the map.
Preloadable(k, found) == {j \in Keys : found[j] # "unlisted" /\ j # k}

\* main: the --cypha file must load (the command line names its sidecars, so a
\* missing field is no fault there).  If it is a listed bundle its key becomes
\* active and the slot is loaded too, whatever comes of it.  A preload that
\* throws is not caught: the server does not start.
Start(k, preload) ==
  LET found == Scan(disk)
      src == IF k = NoKey THEN [key |-> Outside, n |-> 0] ELSE [key |-> k, n |-> disk[k].n]
      pre == IF preload THEN Preloadable(k, found) ELSE {}
      filled == pre \cup ({k} \cap Keys)
  IN /\ ~up
     /\ k # NoKey => disk[k].n # 0 /\ disk[k].shape.fault \in {"none", "noField", "badCard"}
     /\ \A j \in pre : ~Throws(FaultOf(j, found[j]))
     /\ up' = TRUE
     /\ cache' = found /\ scans' = 1
     /\ globals' = [weights |-> src, learned |-> 0, clean |-> TRUE,
                    pre |-> IF k # NoKey /\ disk[k].shape.pre THEN src ELSE NoFile,
                    head |-> IF k # NoKey /\ disk[k].shape.head THEN src ELSE NoFile]
     /\ active' = k
     /\ mapped' = filled
     /\ slots' = [j \in Keys |-> IF j \in filled THEN AfterLoad(Fresh, j, found[j]) ELSE Fresh]
     /\ load' = [t \in Threads |-> NotLoading]
     /\ Say("start", k, 200)
     /\ UNCHANGED <<disk, files>>

\* The process ends: everything but the registry tree is lost.
Stop ==
  /\ up /\ up' = FALSE
  /\ cache' = [k \in Keys |-> "unlisted"] /\ scans' = 0
  /\ globals' = Fresh /\ mapped' = {} /\ slots' = [k \in Keys |-> Fresh]
  /\ active' = NoKey
  /\ load' = [t \in Threads |-> NotLoading]
  /\ Say("other", NoKey, 200)
  /\ UNCHANGED <<disk, files>>

-----------------------------------------------------------------------------
(* The registry tree *)

Write(k, s) == /\ files < MaxFiles /\ files' = files + 1
               /\ disk' = [disk EXCEPT ![k] = [n |-> files + 1, shape |-> s]]

\* POST /register: a bundle is copied in and the listing rebuilt ...
Register(k, s) ==
  /\ up /\ Write(k, s)
  /\ cache' = Scan(disk') /\ scans' = scans + 1
  /\ Say("register", k, 200)
  /\ UNCHANGED <<up, models, load>>

\* ... or, overwriting with a source missing, the old bundle is gone and the
\* listing still names it.
RegisterFails(k) ==
  /\ up /\ disk[k].n # 0
  /\ disk' = [disk EXCEPT ![k] = NoBundle]
  /\ Say("register", k, 400)
  /\ UNCHANGED <<files, up, listing, models, load>>

\* The registry_register tool or the desktop shell writes the tree: no server
\* rescans it for that.
ExternalRegister(k, s) ==
  /\ Write(k, s)
  /\ UNCHANGED <<up, listing, models, load, reply>>

-----------------------------------------------------------------------------
(* POST /load *)

LoadReply(k, f) == Say("load", k, IF Throws(f) \/ f = "badCard" THEN 400
                                  ELSE IF Fails(f) THEN 500 ELSE 200)

\* Mutant: a hot swap drops the other slots.
LoadActiveAlone(k, found) ==
  LET f == FaultOf(k, found) IN
  /\ globals' = AfterLoad(globals, k, found)
  /\ active' = IF Fails(f) THEN active ELSE k
  /\ mapped' = IF Fails(f) THEN mapped ELSE {k}
  /\ slots' = [j \in Keys |-> IF Fails(f) THEN slots[j]
                            ELSE IF j = k THEN AfterLoad(slots[k], k, found) ELSE Fresh]
  /\ LoadReply(k, f)

\* load_registry_ref_into_map with set_active: the globals first, then the key,
\* then the slot.  A failed load replies 500 or, if it threw, 400; so does a
\* load that succeeded when the card is not JSON.
LoadActive(k, found) ==
  LET f == FaultOf(k, found) IN
  /\ globals' = AfterLoad(globals, k, found)
  /\ IF Fails(f)
     THEN UNCHANGED <<active, mapped, slots>>
     ELSE /\ active' = k
          /\ mapped' = mapped \cup {k}
          /\ slots' = [slots EXCEPT ![k] = AfterLoad(@, k, found)]
  /\ LoadReply(k, f)

\* First lock hold: find the ref, and keep a pointer into the listing.
FindRef(t, k) ==
  /\ up /\ load[t] = NotLoading /\ Listed # {}
  /\ IF k \in Listed
     THEN load' = [load EXCEPT ![t] = [key |-> k, scan |-> scans]] /\ UNCHANGED reply
     ELSE Say("load", k, 404) /\ UNCHANGED load
  /\ UNCHANGED <<disk, files, up, listing, models>>

\* Second lock hold: load what the pointer points at.
LoadFound(t) ==
  /\ up /\ load[t] # NotLoading /\ load[t].scan = scans
  /\ LoadActive(load[t].key, cache[load[t].key])
  /\ load' = [load EXCEPT ![t] = NotLoading]
  /\ UNCHANGED <<disk, files, up, listing>>

\* The listing was rebuilt in between and the pointer dangles: what is read is
\* the old element, one of the new listing, or the process dies (see Stop).
LoadDangling(t) ==
  /\ up /\ load[t] # NotLoading /\ load[t].scan # scans
  /\ \E k \in Listed \cup {load[t].key} : \E found \in {"plain", "withPre"} :
       /\ k # load[t].key => found = cache[k]
       /\ LoadActive(k, found)
  /\ load' = [load EXCEPT ![t] = NotLoading]
  /\ UNCHANGED <<disk, files, up, listing>>

\* An empty body loads every listed bundle into its slot, in listing order, and
\* gives up at the first that throws.
LoadAll ==
  /\ up /\ Listed # {}
  /\ LET thrown == {k \in Listed : Throws(FaultOf(k, cache[k]))} IN
     \E tried \in SUBSET Listed :
       /\ IF thrown = {} THEN tried = Listed ELSE Cardinality(tried \cap thrown) = 1
       /\ mapped' = mapped \cup tried
       /\ slots' = [k \in Keys |-> IF k \in tried THEN AfterLoad(slots[k], k, cache[k])
                                                  ELSE slots[k]]
       /\ Say("loadAll", NoKey, IF thrown = {} THEN 200 ELSE 400)
  /\ UNCHANGED <<disk, files, up, listing, globals, active, load>>

\* Nothing listed: the reply is the one for a server without a registry.
LoadNothingListed ==
  /\ up /\ Listed = {}
  /\ Say("load", NoKey, 503)
  /\ UNCHANGED <<disk, files, up, listing, models, load>>

-----------------------------------------------------------------------------
(* POST /predict and /update *)

ByGlobals(k) == k = NoKey \/ k = active
Served(k) == IF ByGlobals(k) THEN globals ELSE slots[k]

Refusal(k) == IF ByGlobals(k) THEN 503 ELSE 404

\* A prediction leaves the models alone; an input that does not fit is a 400.
Predict(k) ==
  /\ up
  /\ IF Loaded(Served(k))
     THEN \E status \in {200, 400} : Say("predict", k, status)
     ELSE Say("predict", k, Refusal(k))
  /\ UNCHANGED <<disk, files, up, listing, models, load>>

\* Mutant: a named update goes to the slot of that name even when it is active.
UpdateSlotAlways(k, good, total) ==
  /\ up
  /\ IF Loaded(Served(k))
     THEN /\ Served(k).learned + good <= MaxLearned
          /\ IF k = NoKey
             THEN globals' = [globals EXCEPT !.learned = @ + good] /\ UNCHANGED slots
             ELSE slots' = [slots EXCEPT ![k].learned = @ + good] /\ UNCHANGED globals
          /\ Say("update", k, IF good = total THEN 200 ELSE 400)
     ELSE Say("update", k, Refusal(k)) /\ UNCHANGED <<globals, slots>>
  /\ UNCHANGED <<disk, files, up, listing, mapped, active, load>>

\* An update of total rows: the first bad row ends it, and what was learned from
\* the good rows before it stays learned under the 400.
Update(k, good, total) ==
  /\ up
  /\ IF Loaded(Served(k))
     THEN /\ Served(k).learned + good <= MaxLearned
          /\ IF ByGlobals(k)
             THEN globals' = [globals EXCEPT !.learned = @ + good] /\ UNCHANGED slots
             ELSE slots' = [slots EXCEPT ![k].learned = @ + good] /\ UNCHANGED globals
          /\ Say("update", k, IF good = total THEN 200 ELSE 400)
     ELSE Say("update", k, Refusal(k)) /\ UNCHANGED <<globals, slots>>
  /\ UNCHANGED <<disk, files, up, listing, mapped, active, load>>

Next == \/ \E k \in Keys \cup {NoKey}, preload \in BOOLEAN : Start(k, preload)
        \/ Stop
        \/ \E k \in Keys, s \in Shapes : Register(k, s) \/ ExternalRegister(k, s)
        \/ \E k \in Keys : RegisterFails(k)
        \/ \E t \in Threads : \/ \E k \in Keys : FindRef(t, k)
                             \/ LoadFound(t) \/ LoadDangling(t)
        \/ LoadAll \/ LoadNothingListed
        \/ \E k \in Keys \cup {NoKey} : \/ Predict(k)
                                      \/ \E total \in 1..2 : \E good \in {total - 1, total} :
                                           Update(k, good, total)

Spec == Init /\ [][Next]_vars

-----------------------------------------------------------------------------
\* A server that came up never goes back to answering 503 for its default
\* model: no failing load takes the weights away.
AlwaysServes == up => Loaded(globals)

\* A named slot holds weights registered under its own name and no other's,
\* whatever loads failed or read a dangling listing entry.
SlotHoldsItsKey ==
  \A k \in Keys : Loaded(slots[k]) => slots[k].weights.key = k /\ k \in mapped

\* After a load that succeeded, the preprocessor and regression head in use
\* belong to the bundle the weights came from: none is left of the model before.
OneBundle(m) == m.clean => m.pre \in {NoFile, m.weights} /\ m.head \in {NoFile, m.weights}
CleanModelIsOneBundle == OneBundle(globals) /\ \A k \in Keys : OneBundle(slots[k])

\* While the last load of the globals succeeded, the active key names them.
CleanActiveKeyIsRight ==
  up /\ globals.clean => globals.weights.key = IF active = NoKey THEN Outside ELSE active

\* Every name is answered with its own model: the default one, which is there and
\* is the one the active key names, and those of the slots.
ServerInv == TypeOK /\ AlwaysServes /\ CleanActiveKeyIsRight /\ SlotHoldsItsKey

\* A running server forgets what a key has learned in three ways only: a /load of
\* that key; a /load of everything, when the key is that of a slot; and, for the
\* default model and the active key, a /load of any other key once it has read that
\* key's weights.  The last one need not succeed: a load that fails behind the weights
\* leaves the active key, and its updates are gone though nobody named it.
ForgetsOnlyByLoad ==
  [][\A k \in Keys \cup {NoKey} :
       up /\ up' /\ Served(k)'.learned < Served(k).learned
       => \/ reply'.op = "load" /\ reply'.key = k
          \/ reply'.op = "load" /\ ByGlobals(k) /\ globals'.weights.key = reply'.key
          \/ reply'.op = "loadAll" /\ ~ByGlobals(k)]_vars

\* An update acknowledged for a key is there for the next request to that key.
AckedIsServed ==
  [][\A k \in Keys \cup {NoKey} :
       /\ reply'.op = "update" /\ reply'.status = 200 /\ reply'.key = k
       /\ models' # models
       => Served(k)'.learned > Served(k).learned]_vars

-----------------------------------------------------------------------------
(* What the documentation says and the code does not keep *)

\* PORT_CONTRACT: passing the active key routes to the globals, and /predict
\* accepts a name to choose the model: the weights behind the active key are
\* the ones registered under it.
ActiveKeyNamesServedWeights ==
  up /\ active # NoKey => globals.weights.key = active

\* PORT_CONTRACT on /load: a 200 names the model that was asked for and hot-swapped.
LoadsWhatWasAsked ==
  [][\A t \in Threads :
       load[t] # NotLoading /\ load'[t] = NotLoading /\ up' /\ reply'.status = 200
         => reply'.key = load[t].key]_vars
=============================================================================
