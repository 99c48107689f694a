----------------------------- MODULE ServeProofs -----------------------------
(***************************************************************************)
(* Proofs about what a server serves from, the models it holds and the     *)
(* registry they come from: CyphaRest for any registry, any number of      *)
(* /load threads and any bundles, ModelRegistry for any number of writers  *)
(* and of calls.                                                           *)
(***************************************************************************)
EXTENDS CyphaRest, ModelRegistry, FiniteSetTheorems, TLAPS

(***************************************************************************)
(* What a load attempt leaves of a model object, failed or not: it is a    *)
(* model object again, its weights are the ones it had or those of the     *)
(* bundle it was told to load, and if it is clean all of it is of that     *)
(* bundle.                                                                 *)
(***************************************************************************)
LEMMA AfterLoadFacts ==
  ASSUME TypeOK, NEW m \in Models, NEW k \in Keys, NEW found
  PROVE  LET a == AfterLoad(m, k, found)
             src == [key |-> k, n |-> disk[k].n]
         IN /\ a \in Models
            /\ a.weights \in {m.weights, src}
            /\ a.clean => /\ a.weights = src
                          /\ a.pre \in {NoFile, src} /\ a.head \in {NoFile, src}
            /\ a.clean = ~Fails(FaultOf(k, found))
<1> DEFINE src == [key |-> k, n |-> disk[k].n]
           f == FaultOf(k, found)
<1>1. src \in Sources /\ NoFile \in Sources /\ 0 \in 0..MaxLearned
  BY RestAssumption DEF TypeOK, Bundles, Sources, NoFile
<1>2. CASE f \in {"gone", "noField"}
  BY <1>1, <1>2 DEF AfterLoad, Models, Fails, Throws
<1>3. CASE f \notin {"gone", "noField"}
  BY <1>1, <1>3 DEF AfterLoad, Models, Fails, Throws
<1>4. QED
  BY <1>2, <1>3

\* The four invariants of the models in memory.
ModelsInv == /\ AlwaysServes
             /\ SlotHoldsItsKey
             /\ CleanModelIsOneBundle
             /\ CleanActiveKeyIsRight

IInv == TypeOK /\ ModelsInv

LEMMA FreshIsModel ==
  /\ Fresh \in Models /\ NoFile \in Sources /\ ~Loaded(Fresh) /\ ~Fresh.clean
  /\ \A k \in Keys : k # NoKey /\ k # Outside
BY RestAssumption DEF Fresh, Models, Sources, NoFile, Loaded

LEMMA ScanType == \A d : Scan(d) \in [Keys -> Listings]
BY DEF Scan, Listings

LEMMA InitInv == Init => IInv
<1> SUFFICES ASSUME Init PROVE IInv
  OBVIOUS
<1>1. TypeOK
  <2>1. disk \in [Keys -> Bundles] /\ files \in 0..MaxFiles
    BY RestAssumption DEF Init, NoBundle, Bundles, Shape, FaultKinds
  <2>2. load \in [Threads -> {NotLoading} \cup [key: Keys, scan: Nat]]
    BY DEF Init, NotLoading
  <2>3. reply \in Replies
    BY DEF Init, Replies, Ops
  <2>4. QED
    BY <2>1, <2>2, <2>3, FreshIsModel DEF Init, TypeOK, Listings
<1>2. ModelsInv
  BY FreshIsModel DEF Init, ModelsInv, AlwaysServes, SlotHoldsItsKey,
     CleanModelIsOneBundle, OneBundle, CleanActiveKeyIsRight
<1>3. QED
  BY <1>1, <1>2 DEF IInv

(***************************************************************************)
(* The steps that change a model object all go through LoadActive, LoadAll,*)
(* Start, Stop or Update; each is followed once.                           *)
(***************************************************************************)
LEMMA LoadActiveInv ==
  ASSUME IInv, NEW k \in Keys, NEW found, LoadActive(k, found), up' = up, up
  PROVE  /\ globals' \in Models /\ mapped' \subseteq Keys
         /\ slots' \in [Keys -> Models] /\ active' \in Keys \cup {NoKey}
         /\ reply' \in Replies
         /\ ModelsInv'
<1> DEFINE src == [key |-> k, n |-> disk[k].n]
           f == FaultOf(k, found)
           g == AfterLoad(globals, k, found)
           s == AfterLoad(slots[k], k, found)
<1> USE DEF IInv
<1>0. globals \in Models /\ slots[k] \in Models /\ src # NoFile
  BY FreshIsModel DEF TypeOK, NoFile
<1>1. /\ g \in Models /\ g.weights \in {globals.weights, src}
      /\ g.clean => /\ g.weights = src
                    /\ g.pre \in {NoFile, src} /\ g.head \in {NoFile, src}
      /\ g.clean = ~Fails(f)
  BY <1>0, AfterLoadFacts
<1>2. /\ s \in Models /\ s.weights \in {slots[k].weights, src}
      /\ s.clean => /\ s.weights = src
                    /\ s.pre \in {NoFile, src} /\ s.head \in {NoFile, src}
      /\ s.clean = ~Fails(f)
  BY <1>0, AfterLoadFacts
<1> HIDE DEF g, s, f
<1>3. globals' = g /\ reply' \in Replies
  BY DEF LoadActive, LoadReply, Say, Replies, Ops, g, f
<1>4. CASE Fails(f)
  <2>1. UNCHANGED <<active, mapped, slots>> /\ ~g.clean
    BY <1>4, <1>1 DEF LoadActive, f
  <2>2. ModelsInv'
    BY <2>1, <1>0, <1>1, <1>3 DEF ModelsInv, AlwaysServes, SlotHoldsItsKey, Loaded,
       CleanModelIsOneBundle, OneBundle, CleanActiveKeyIsRight
  <2>3. QED
    BY <2>1, <2>2, <1>1, <1>3 DEF TypeOK
<1>5. CASE ~Fails(f)
  <2>1. /\ active' = k /\ mapped' = mapped \cup {k}
        /\ slots' = [slots EXCEPT ![k] = s]
    BY <1>5 DEF LoadActive, f, s
  <2>2. /\ slots' \in [Keys -> Models] /\ mapped' \subseteq Keys
        /\ slots'[k] = s /\ \A j \in Keys : j # k => slots'[j] = slots[j]
    BY <2>1, <1>2 DEF TypeOK
  <2>3. AlwaysServes' /\ CleanActiveKeyIsRight'
    BY <2>1, <1>0, <1>1, <1>3, <1>5, FreshIsModel DEF ModelsInv, AlwaysServes, Loaded, CleanActiveKeyIsRight
  <2>4. SlotHoldsItsKey'
    BY <2>1, <2>2, <1>2, <1>5 DEF ModelsInv, SlotHoldsItsKey, Loaded
  <2>5. CleanModelIsOneBundle'
    BY <2>2, <1>1, <1>2, <1>3 DEF ModelsInv, CleanModelIsOneBundle, OneBundle
  <2>6. QED
    BY <2>1, <2>2, <2>3, <2>4, <2>5, <1>1, <1>3 DEF ModelsInv
<1>6. QED
  BY <1>4, <1>5

LEMMA LoadAllInv == IInv /\ LoadAll => IInv'
<1> SUFFICES ASSUME IInv, LoadAll PROVE IInv'
  OBVIOUS
<1> USE DEF IInv
<1>1. PICK tried \in SUBSET Listed :
        /\ mapped' = mapped \cup tried
        /\ slots' = [k \in Keys |-> IF k \in tried THEN AfterLoad(slots[k], k, cache[k])
                                                   ELSE slots[k]]
  BY DEF LoadAll
<1>2. tried \subseteq Keys /\ reply' \in Replies
  BY DEF Listed, LoadAll, Say, Replies, Ops
<1>3. ASSUME NEW k \in Keys
      PROVE  /\ slots'[k] \in Models
             /\ Loaded(slots'[k]) => slots'[k].weights.key = k /\ k \in mapped'
             /\ OneBundle(slots'[k])
  <2>1. CASE k \in tried
    <3> DEFINE s == AfterLoad(slots[k], k, cache[k])
               src == [key |-> k, n |-> disk[k].n]
    <3>1. slots'[k] = s /\ k \in mapped'
      BY <1>1, <2>1
    <3>2. /\ s \in Models /\ s.weights \in {slots[k].weights, src}
          /\ s.clean => /\ s.weights = src
                        /\ s.pre \in {NoFile, src} /\ s.head \in {NoFile, src}
      BY AfterLoadFacts DEF TypeOK
    <3> HIDE DEF s
    <3>3. QED
      BY <3>1, <3>2 DEF ModelsInv, SlotHoldsItsKey, Loaded, OneBundle
  <2>2. CASE k \notin tried
    BY <1>1, <2>2 DEF TypeOK, ModelsInv, SlotHoldsItsKey, CleanModelIsOneBundle
  <2>3. QED
    BY <2>1, <2>2
<1>4. slots' = [k \in Keys |-> slots'[k]]
  BY <1>1
<1>5. TypeOK'
  BY <1>1, <1>2, <1>3, <1>4 DEF TypeOK, LoadAll, listing
<1>6. ModelsInv'
  BY <1>3 DEF LoadAll, listing, ModelsInv, AlwaysServes, SlotHoldsItsKey, CleanModelIsOneBundle,
     CleanActiveKeyIsRight
<1>7. QED
  BY <1>5, <1>6

LEMMA StartInv ==
  ASSUME IInv, NEW k \in Keys \cup {NoKey}, NEW preload \in BOOLEAN, Start(k, preload)
  PROVE  IInv'
<1> DEFINE found == Scan(disk)
           pre == IF preload THEN Preloadable(k, found) ELSE {}
           filled == pre \cup ({k} \cap Keys)
           src == IF k = NoKey THEN [key |-> Outside, n |-> 0] ELSE [key |-> k, n |-> disk[k].n]
           g == [weights |-> src, learned |-> 0, clean |-> TRUE,
                 pre |-> IF k # NoKey /\ disk[k].shape.pre THEN src ELSE NoFile,
                 head |-> IF k # NoKey /\ disk[k].shape.head THEN src ELSE NoFile]
<1> USE DEF IInv
<1>1. /\ up' = TRUE /\ cache' = found /\ scans' = 1 /\ globals' = g /\ active' = k
      /\ mapped' = filled
      /\ slots' = [j \in Keys |-> IF j \in filled THEN AfterLoad(Fresh, j, found[j]) ELSE Fresh]
      /\ load' = [t \in Threads |-> NotLoading]
      /\ reply' = [op |-> "start", key |-> k, status |-> 200]
      /\ UNCHANGED <<disk, files>>
  BY DEF Start, Say
<1>2. src \in Sources /\ src # NoFile /\ NoFile \in Sources
  <2>1. CASE k = NoKey
    BY <2>1, RestAssumption DEF Sources, NoFile
  <2>2. CASE k # NoKey
    BY <2>2, RestAssumption DEF Sources, NoFile, TypeOK, Bundles
  <2>3. QED
    BY <2>1, <2>2
<1>3. g \in Models /\ Loaded(g) /\ OneBundle(g)
      /\ g.weights.key = IF k = NoKey THEN Outside ELSE k
  BY <1>2, RestAssumption DEF Models, Loaded, OneBundle
<1> HIDE DEF g, src
<1>4. filled \subseteq Keys
  BY DEF Preloadable
<1>5. ASSUME NEW j \in Keys
      PROVE  /\ slots'[j] \in Models
             /\ Loaded(slots'[j]) => slots'[j].weights.key = j /\ j \in mapped'
             /\ OneBundle(slots'[j])
  <2>1. CASE j \in filled
    <3> DEFINE s == AfterLoad(Fresh, j, found[j])
               from == [key |-> j, n |-> disk[j].n]
    <3>1. slots'[j] = s /\ j \in mapped'
      BY <1>1, <2>1
    <3>2. /\ s \in Models /\ s.weights \in {Fresh.weights, from}
          /\ s.clean => /\ s.weights = from
                        /\ s.pre \in {NoFile, from} /\ s.head \in {NoFile, from}
      BY AfterLoadFacts, FreshIsModel
    <3> HIDE DEF s
    <3>3. QED
      BY <3>1, <3>2, FreshIsModel DEF Loaded, OneBundle
  <2>2. CASE j \notin filled
    BY <1>1, <2>2, FreshIsModel DEF OneBundle
  <2>3. QED
    BY <2>1, <2>2
<1>6. slots' = [j \in Keys |-> slots'[j]]
  BY <1>1
<1>7. cache' \in [Keys -> Listings] /\ reply' \in Replies
  BY <1>1, ScanType DEF Replies, Ops
<1>8. load' \in [Threads -> {NotLoading} \cup [key: Keys, scan: Nat]]
  BY <1>1 DEF NotLoading
<1> HIDE DEF filled, pre, found
<1>9. TypeOK'
  BY <1>1, <1>3, <1>4, <1>5, <1>6, <1>7, <1>8 DEF TypeOK
<1>10. ModelsInv'
  BY <1>1, <1>3, <1>5 DEF ModelsInv, AlwaysServes, SlotHoldsItsKey, CleanModelIsOneBundle,
     CleanActiveKeyIsRight
<1>11. QED
  BY <1>9, <1>10

LEMMA StopInv == IInv /\ Stop => IInv'
<1> SUFFICES ASSUME IInv, Stop PROVE IInv'
  OBVIOUS
<1> USE DEF IInv, Stop
<1>1. load' \in [Threads -> {NotLoading} \cup [key: Keys, scan: Nat]]
  BY DEF NotLoading
<1>2. reply' \in Replies
  BY DEF Say, Replies, Ops
<1>3. TypeOK'
  BY <1>1, <1>2, FreshIsModel DEF TypeOK, Listings
<1>4. ModelsInv'
  BY FreshIsModel DEF ModelsInv, AlwaysServes, SlotHoldsItsKey, CleanModelIsOneBundle,
     OneBundle, CleanActiveKeyIsRight
<1>5. QED
  BY <1>3, <1>4

\* Learning a row changes neither where an object came from nor whether it is clean.
LEMMA UpdateInv ==
  ASSUME IInv, NEW k \in Keys \cup {NoKey}, NEW total \in 1..2,
         NEW good \in {total - 1, total}, Update(k, good, total)
  PROVE  IInv'
<1> DEFINE Learn(m) == [m EXCEPT !.learned = @ + good]
<1> USE DEF IInv
<1>1. good \in 0..2
  OBVIOUS
<1>2. ASSUME NEW m \in Models, m.learned + good <= MaxLearned
      PROVE  /\ Learn(m) \in Models /\ Learn(m).weights = m.weights /\ Learn(m).pre = m.pre
             /\ Learn(m).head = m.head /\ Learn(m).clean = m.clean
  BY <1>1, <1>2, RestAssumption DEF Models
<1>3. reply' \in Replies
  BY DEF Update, Say, Refusal, Replies, Ops
<1>4. UNCHANGED <<disk, files, up, cache, scans, mapped, active, load>>
  BY DEF Update, listing
<1>5. CASE UNCHANGED <<globals, slots>>
  BY <1>3, <1>4, <1>5 DEF TypeOK, ModelsInv, AlwaysServes, SlotHoldsItsKey,
     CleanModelIsOneBundle, CleanActiveKeyIsRight
<1>6. CASE Loaded(Served(k)) /\ ByGlobals(k)
  <2>1. globals' = Learn(globals) /\ UNCHANGED slots /\ globals.learned + good <= MaxLearned
    BY <1>6 DEF Update, Served
  <2>2. globals \in Models
    BY DEF TypeOK
  <2>3. /\ globals' \in Models /\ globals'.weights = globals.weights
        /\ globals'.pre = globals.pre /\ globals'.head = globals.head
        /\ globals'.clean = globals.clean
    BY <2>1, <2>2, <1>2
  <2>4. TypeOK'
    BY <2>1, <2>3, <1>3, <1>4 DEF TypeOK
  <2>5. ModelsInv'
    BY <2>1, <2>3, <1>4 DEF ModelsInv, AlwaysServes, Loaded, SlotHoldsItsKey,
       CleanModelIsOneBundle, OneBundle, CleanActiveKeyIsRight
  <2>6. QED
    BY <2>4, <2>5
<1>7. CASE Loaded(Served(k)) /\ ~ByGlobals(k)
  <2>1. k \in Keys
    BY <1>7 DEF ByGlobals
  <2>2. /\ slots' = [slots EXCEPT ![k] = Learn(slots[k])] /\ UNCHANGED globals
        /\ slots[k].learned + good <= MaxLearned /\ slots[k] \in Models
    BY <1>7, <2>1 DEF Update, Served, TypeOK
  <2>3. /\ Learn(slots[k]) \in Models /\ Learn(slots[k]).weights = slots[k].weights
        /\ Learn(slots[k]).pre = slots[k].pre /\ Learn(slots[k]).head = slots[k].head
        /\ Learn(slots[k]).clean = slots[k].clean
    BY <2>2, <1>2
  <2> HIDE DEF Learn
  <2>4. /\ slots' \in [Keys -> Models]
        /\ slots'[k] = Learn(slots[k]) /\ \A j \in Keys : j # k => slots'[j] = slots[j]
    BY <2>1, <2>2, <2>3 DEF TypeOK
  <2>5. TypeOK'
    BY <2>2, <2>4, <1>3, <1>4 DEF TypeOK
  <2>6. ModelsInv'
    BY <2>1, <2>2, <2>3, <2>4, <1>4 DEF ModelsInv, AlwaysServes, Loaded, SlotHoldsItsKey,
       CleanModelIsOneBundle, OneBundle, CleanActiveKeyIsRight
  <2>7. QED
    BY <2>5, <2>6
<1>8. QED
  BY <1>5, <1>6, <1>7 DEF Update

\* A step that touches no model object keeps what is said of them.
LEMMA ModelsInvFrame == ModelsInv /\ UNCHANGED <<models, up>> => ModelsInv'
BY DEF models, ModelsInv, AlwaysServes, SlotHoldsItsKey, CleanModelIsOneBundle, OneBundle,
   Loaded, CleanActiveKeyIsRight

LEMMA RegisterInv ==
  ASSUME IInv, NEW k \in Keys, NEW s \in Shapes, Register(k, s) \/ ExternalRegister(k, s)
  PROVE  IInv'
<1> USE DEF IInv
<1>1. ModelsInv'
  BY ModelsInvFrame DEF Register, ExternalRegister
<1>2. disk' \in [Keys -> Bundles] /\ files' \in 0..MaxFiles
  <2>1. files + 1 \in 0..MaxFiles /\ [n |-> files + 1, shape |-> s] \in Bundles
    BY RestAssumption DEF Register, ExternalRegister, Write, TypeOK, Bundles
  <2>2. QED
    BY <2>1 DEF Register, ExternalRegister, Write, TypeOK
<1>3. reply' \in Replies
  BY DEF Register, ExternalRegister, Say, TypeOK, Replies, Ops
<1>4. cache' \in [Keys -> Listings] /\ scans' \in Nat
  BY ScanType DEF Register, ExternalRegister, listing, TypeOK
<1>5. QED
  BY <1>1, <1>2, <1>3, <1>4 DEF Register, ExternalRegister, models, TypeOK

LEMMA RegisterFailsInv == ASSUME IInv, NEW k \in Keys, RegisterFails(k) PROVE IInv'
<1>1. ModelsInv'
  BY ModelsInvFrame DEF RegisterFails, IInv
<1>2. NoBundle \in Bundles
  BY RestAssumption DEF NoBundle, Bundles, Shape, FaultKinds
<1>3. TypeOK'
  BY <1>2 DEF RegisterFails, IInv, TypeOK, Say, Replies, Ops, listing, models
<1>4. QED
  BY <1>1, <1>3 DEF IInv

LEMMA LoadStepInv ==
  ASSUME IInv, NEW t \in Threads, LoadFound(t) \/ LoadDangling(t)
  PROVE  IInv'
<1> USE DEF IInv
<1>1. PICK k \in Keys : \E found : LoadActive(k, found)
  <2>1. load[t].key \in Keys
    BY DEF TypeOK, LoadFound, LoadDangling
  <2>2. QED
    BY <2>1 DEF LoadFound, LoadDangling, Listed
<1>2. up /\ up' = up /\ UNCHANGED <<disk, files, cache, scans>>
  BY DEF LoadFound, LoadDangling, listing
<1>3. load' \in [Threads -> {NotLoading} \cup [key: Keys, scan: Nat]]
  BY DEF LoadFound, LoadDangling, NotLoading, TypeOK
<1>4. QED
  BY <1>1, <1>2, <1>3, LoadActiveInv DEF TypeOK

LEMMA FindRefInv == ASSUME IInv, NEW t \in Threads, NEW k \in Keys, FindRef(t, k)
                    PROVE  IInv'
<1> USE DEF IInv
<1>1. ModelsInv'
  BY ModelsInvFrame DEF FindRef
<1>2. load' \in [Threads -> {NotLoading} \cup [key: Keys, scan: Nat]]
  BY DEF FindRef, TypeOK
<1>3. reply' \in Replies
  BY DEF FindRef, Say, TypeOK, Replies, Ops
<1>4. QED
  BY <1>1, <1>2, <1>3 DEF FindRef, models, listing, TypeOK

\* A step that only answers.
LEMMA ReplyInv == ASSUME IInv, LoadNothingListed \/ \E k \in Keys \cup {NoKey} : Predict(k)
                  PROVE  IInv'
<1> USE DEF IInv
<1>1. ModelsInv'
  BY ModelsInvFrame DEF LoadNothingListed, Predict
<1>2. reply' \in Replies
  BY DEF LoadNothingListed, Predict, Refusal, Say, Replies, Ops
<1>3. QED
  BY <1>1, <1>2 DEF LoadNothingListed, Predict, models, listing, TypeOK

LEMMA StepInv == IInv /\ [Next]_vars => IInv'
<1> SUFFICES ASSUME IInv, [Next]_vars PROVE IInv'
  OBVIOUS
<1>1. CASE \E k \in Keys \cup {NoKey}, preload \in BOOLEAN : Start(k, preload)
  BY <1>1, StartInv
<1>2. CASE Stop
  BY <1>2, StopInv
<1>3. CASE \E k \in Keys, s \in Shapes : Register(k, s) \/ ExternalRegister(k, s)
  BY <1>3, RegisterInv
<1>4. CASE \E k \in Keys : RegisterFails(k)
  BY <1>4, RegisterFailsInv
<1>5. CASE \E t \in Threads, k \in Keys : FindRef(t, k)
  BY <1>5, FindRefInv
<1>6. CASE \E t \in Threads : LoadFound(t) \/ LoadDangling(t)
  BY <1>6, LoadStepInv
<1>7. CASE LoadAll
  BY <1>7, LoadAllInv
<1>8. CASE LoadNothingListed \/ \E k \in Keys \cup {NoKey} : Predict(k)
  BY <1>8, ReplyInv
<1>9. CASE \E k \in Keys \cup {NoKey} : \E total \in 1..2 : \E good \in {total - 1, total} :
             Update(k, good, total)
  BY <1>9, UpdateInv
<1>10. CASE UNCHANGED vars
  <2>1. TypeOK'
    BY <1>10 DEF vars, IInv, TypeOK
  <2>2. ModelsInv'
    BY <1>10, ModelsInvFrame DEF vars, models, IInv
  <2>3. QED
    BY <2>1, <2>2 DEF IInv
<1>11. QED
  BY <1>1, <1>2, <1>3, <1>4, <1>5, <1>6, <1>7, <1>8, <1>9, <1>10 DEF Next

LEMMA Inductive == Spec => []IInv
<1>1. QED
  BY InitInv, StepInv, PTL DEF Spec

\* The state of the server always has its type: what the routes of cypha_rest
\* leave in the globals, the map and the listing are models, keys and listings.
THEOREM TypeCorrect == Spec => []TypeOK
<1>1. IInv => TypeOK
  BY DEF IInv
<1>2. QED
  BY <1>1, Inductive, PTL

\* A server that came up always has a default model to serve: Cypha::load never
\* leaves g_cypha without weights, wherever it fails.
THEOREM ServesForever == Spec => []AlwaysServes
<1>1. IInv => AlwaysServes
  BY DEF IInv, ModelsInv
<1>2. QED
  BY <1>1, Inductive, PTL

\* A slot of g_models only ever holds weights registered under its own key, even
\* when /load followed a pointer into a listing that was rebuilt.
THEOREM SlotsKeepTheirKeys == Spec => []SlotHoldsItsKey
<1>1. IInv => SlotHoldsItsKey
  BY DEF IInv, ModelsInv
<1>2. QED
  BY <1>1, Inductive, PTL

\* A model whose last load returned true is of one bundle: Cypha::load leaves no
\* preprocessor and no regression head of the model before it.
THEOREM OneBundleAfterLoad == Spec => []CleanModelIsOneBundle
<1>1. IInv => CleanModelIsOneBundle
  BY DEF IInv, ModelsInv
<1>2. QED
  BY <1>1, Inductive, PTL

\* While the last load of g_cypha returned true, g_active_model_key names the
\* bundle its weights came from.
THEOREM ActiveKeyOfCleanModel == Spec => []CleanActiveKeyIsRight
<1>1. IInv => CleanActiveKeyIsRight
  BY DEF IInv, ModelsInv
<1>2. QED
  BY <1>1, Inductive, PTL

\* Together: the default model is there, and its key is right, under every route.
THEOREM DefaultModelIsSound == Spec => []ServerInv
<1>1. IInv => ServerInv
  BY DEF IInv, ModelsInv, ServerInv
<1>2. QED
  BY <1>1, Inductive, PTL
-----------------------------------------------------------------------------
(* What a request may change of the models that are served *)

\* An update that names k adds its good rows to the model served for k, and takes
\* nothing from any other.
LEMMA UpdateAdds ==
  ASSUME TypeOK, NEW k \in Keys \cup {NoKey}, NEW good \in Nat, NEW total \in Nat,
         Update(k, good, total), NEW j \in Keys \cup {NoKey}
  PROVE  /\ Served(j)'.learned >= Served(j).learned
         /\ reply'.status = 200 =>
              good = total /\ Served(k)'.learned = Served(k).learned + good
<1>1. active' = active /\ NoKey \notin Keys
  BY RestAssumption DEF Update
<1>2. /\ globals \in Models /\ slots \in [Keys -> Models] /\ active \in Keys \cup {NoKey}
  BY DEF TypeOK
<1>3. /\ globals.learned \in Nat /\ \A i \in Keys : slots[i].learned \in Nat
  BY <1>2 DEF Models
<1>4. CASE ~Loaded(Served(k))
  <2>1. globals' = globals /\ slots' = slots /\ reply'.status # 200
    BY <1>4 DEF Update, Say, Refusal
  <2>2. QED
    BY <2>1, <1>1, <1>2, <1>3 DEF Served, ByGlobals
<1>5. CASE Loaded(Served(k)) /\ ByGlobals(k)
  <2>1. /\ globals' = [globals EXCEPT !.learned = @ + good] /\ slots' = slots
        /\ reply'.status = IF good = total THEN 200 ELSE 400
    BY <1>5 DEF Update, Say
  <2>2. globals'.learned = globals.learned + good
    BY <2>1, <1>2 DEF Models
  <2>3. QED
    BY <2>1, <2>2, <1>1, <1>2, <1>3, <1>5 DEF Served, ByGlobals
<1>6. CASE Loaded(Served(k)) /\ ~ByGlobals(k)
  <2>1. /\ slots' = [slots EXCEPT ![k].learned = @ + good] /\ globals' = globals
        /\ reply'.status = IF good = total THEN 200 ELSE 400
    BY <1>6 DEF Update, Say
  <2>2. k \in Keys
    BY <1>6 DEF ByGlobals
  <2>3. /\ slots'[k].learned = slots[k].learned + good
        /\ \A i \in Keys : i # k => slots'[i] = slots[i]
    BY <2>1, <2>2, <1>2 DEF Models
  <2>4. QED
    BY <2>1, <2>2, <2>3, <1>1, <1>2, <1>3, <1>6 DEF Served, ByGlobals
<1>7. QED
  BY <1>4, <1>5, <1>6

\* A load of one key takes learned updates from another only if that one is served by
\* the globals, which then have the weights of the key that was loaded.
LEMMA LoadSparesOthers ==
  ASSUME TypeOK, NEW k \in Keys, NEW found, LoadActive(k, found),
         NEW j \in Keys \cup {NoKey}, j # k
  PROVE  \/ Served(j)'.learned = Served(j).learned
         \/ ByGlobals(j) /\ globals'.weights.key = k
<1> DEFINE f == FaultOf(k, found)
<1>1. globals \in Models /\ slots \in [Keys -> Models]
  BY DEF TypeOK
<1>2. globals' = AfterLoad(globals, k, found)
  BY DEF LoadActive
<1>3. CASE ~ByGlobals(j)
  <2>1. j \in Keys /\ j # active /\ j # NoKey
    BY <1>3 DEF ByGlobals
  <2>2. active' \in {active, k}
    BY DEF LoadActive
  <2>3. slots'[j] = slots[j]
    BY <1>1, <2>1 DEF LoadActive
  <2>4. QED
    BY <1>3, <2>1, <2>2, <2>3 DEF Served, ByGlobals
<1>4. CASE ByGlobals(j) /\ f \in {"gone", "noField"}
  <2>1. Fails(f)
    BY <1>4 DEF Fails, Throws
  <2>2. active' = active
    BY <2>1 DEF LoadActive
  <2>3. globals'.learned = globals.learned
    BY <1>1, <1>2, <1>4 DEF AfterLoad, Models
  <2>4. QED
    BY <1>4, <2>2, <2>3 DEF Served, ByGlobals
<1>5. CASE ByGlobals(j) /\ f \notin {"gone", "noField"}
  <2>1. globals'.weights = [key |-> k, n |-> disk[k].n]
    BY <1>1, <1>2, <1>5 DEF AfterLoad, Models
  <2>2. QED
    BY <1>5, <2>1
<1>6. QED
  BY <1>3, <1>4, <1>5

\* The steps that do not go through the models leave what is served alone.
LEMMA ServedFrame ==
  ASSUME UNCHANGED models, NEW j
  PROVE  Served(j)' = Served(j)
BY DEF models, Served, ByGlobals

\* The steps of Next that change a model and keep the server up.
LEMMA ModelSteps ==
  ASSUME TypeOK, Next, up, up'
  PROVE  \/ UNCHANGED models /\ (reply' = reply \/ reply'.op # "update")
         \/ \E k \in Keys, found \in Listings : LoadActive(k, found)
         \/ LoadAll
         \/ \E k \in Keys \cup {NoKey} : \E total \in 1..2 : \E good \in {total - 1, total} :
              Update(k, good, total)
<1>1. CASE \E k \in Keys \cup {NoKey}, preload \in BOOLEAN : Start(k, preload)
  BY <1>1 DEF Start
<1>2. CASE Stop
  BY <1>2 DEF Stop
<1>3. CASE \E k \in Keys, s \in Shapes : Register(k, s) \/ ExternalRegister(k, s)
  BY <1>3 DEF Register, ExternalRegister, Say
<1>4. CASE \E k \in Keys : RegisterFails(k)
  BY <1>4 DEF RegisterFails, Say
<1>5. CASE \E t \in Threads, k \in Keys : FindRef(t, k)
  BY <1>5 DEF FindRef, Say
<1>6. ASSUME NEW t \in Threads, LoadFound(t)
      PROVE  \E k \in Keys, found \in Listings : LoadActive(k, found)
  <2>1. load[t].key \in Keys
    BY <1>6 DEF TypeOK, LoadFound
  <2>2. cache[load[t].key] \in Listings
    BY <2>1 DEF TypeOK
  <2>3. QED
    BY <1>6, <2>1, <2>2 DEF LoadFound
<1>7. ASSUME NEW t \in Threads, LoadDangling(t)
      PROVE  \E k \in Keys, found \in Listings : LoadActive(k, found)
  <2>1. load[t].key \in Keys
    BY <1>7 DEF TypeOK, LoadDangling
  <2>2. QED
    BY <1>7, <2>1 DEF LoadDangling, Listed, Listings
<1>8. CASE LoadAll
  BY <1>8
<1>9. CASE LoadNothingListed
  BY <1>9 DEF LoadNothingListed, Say
<1>10. CASE \E k \in Keys \cup {NoKey} : Predict(k)
  BY <1>10 DEF Predict, Say
<1>11. QED
  BY <1>1, <1>2, <1>3, <1>4, <1>5, <1>6, <1>7, <1>8, <1>9, <1>10 DEF Next

LEMMA LearnedIsNat ==
  ASSUME TypeOK, NEW j \in Keys \cup {NoKey}
  PROVE  Served(j).learned \in Nat
<1>1. Served(j) \in Models
  BY DEF TypeOK, Served, ByGlobals
<1>2. QED
  BY <1>1 DEF Models

\* No request makes a slot forget what it learned except a /load of its key or of
\* everything, whatever other loads fail or dangle; the default model and the active
\* key forget when a /load, successful or not, has put other weights in their place.
THEOREM UpdatesAreKept == Spec => ForgetsOnlyByLoad
<1> DEFINE Excused(k) ==
             \/ reply'.op = "load" /\ reply'.key = k
             \/ reply'.op = "load" /\ ByGlobals(k) /\ globals'.weights.key = reply'.key
             \/ reply'.op = "loadAll" /\ ~ByGlobals(k)
<1>1. ASSUME IInv, Next, NEW k \in Keys \cup {NoKey},
             up, up', Served(k)'.learned < Served(k).learned
      PROVE  Excused(k)
  <2>0. TypeOK /\ Served(k).learned \in Nat
    BY <1>1, LearnedIsNat DEF IInv
  <2>1. CASE UNCHANGED models
    <3>1. Served(k)' = Served(k)
      BY <2>1, ServedFrame
    <3>2. QED
      BY <1>1, <3>1, <2>0
  <2>2. ASSUME NEW j \in Keys, NEW found \in Listings, LoadActive(j, found)
        PROVE  Excused(k)
    <3>1. reply'.op = "load" /\ reply'.key = j
      BY <2>2 DEF LoadActive, LoadReply, Say
    <3>2. Served(k)'.learned # Served(k).learned
      BY <1>1, <2>0
    <3>3. k # j => ByGlobals(k) /\ globals'.weights.key = j
      <4> HIDE DEF Excused
      <4>1. QED
        BY <2>0, <2>2, <3>2, LoadSparesOthers
    <3>4. QED
      BY <3>1, <3>3
  <2>5. CASE LoadAll
    <3>1. reply'.op = "loadAll" /\ globals' = globals /\ active' = active
      BY <2>5 DEF LoadAll, Say
    <3>2. ByGlobals(k) => Served(k)' = Served(k)
      BY <3>1 DEF Served, ByGlobals
    <3>3. QED
      BY <1>1, <2>0, <3>1, <3>2
  <2>3. ASSUME NEW j \in Keys \cup {NoKey}, NEW total \in 1..2, NEW good \in {total - 1, total},
               Update(j, good, total)
        PROVE  FALSE
    <3>1. good \in Nat /\ total \in Nat
      OBVIOUS
    <3>2. Served(k)'.learned >= Served(k).learned
      BY <2>0, <2>3, <3>1, UpdateAdds
    <3>3. TypeOK'
      BY <1>1, StepInv DEF IInv
    <3>4. Served(k)'.learned \in Nat
      <4>1. Served(k)' \in Models
        BY <3>3 DEF TypeOK, Served, ByGlobals
      <4>2. QED
        BY <4>1 DEF Models
    <3>5. QED
      BY <1>1, <2>0, <3>2, <3>4
  <2>4. QED
    BY <1>1, <2>0, <2>1, <2>2, <2>3, <2>5, ModelSteps
<1>2. IInv /\ [Next]_vars =>
        [\A k \in Keys \cup {NoKey} :
           up /\ up' /\ Served(k)'.learned < Served(k).learned => Excused(k)]_vars
  BY <1>1
<1>3. QED
  BY <1>2, Inductive, PTL DEF Spec, ForgetsOnlyByLoad

\* A 200 to an update means that the model the next request to that name gets has
\* learned every row of it.
THEOREM AckedUpdateIsServed == Spec => AckedIsServed
<1>1. ASSUME IInv, Next, NEW k \in Keys \cup {NoKey},
             reply'.op = "update", reply'.status = 200, reply'.key = k, models' # models
      PROVE  Served(k)'.learned > Served(k).learned
  <2>0. TypeOK /\ Served(k).learned \in Nat
    BY <1>1, LearnedIsNat DEF IInv
  <2>1. up /\ up'
    <3>1. ASSUME NEW j \in Keys \cup {NoKey}, NEW preload \in BOOLEAN, Start(j, preload) PROVE FALSE
      <4>1. Say("start", j, 200)
        BY <3>1 DEF Start
      <4>2. QED
        BY <1>1, <4>1 DEF Say
    <3>2. ~Stop
      <4>1. Stop => Say("other", NoKey, 200)
        BY DEF Stop
      <4>2. QED
        BY <1>1, <4>1 DEF Say
    <3>3. CASE \/ \E j \in Keys, s \in Shapes : Register(j, s) \/ ExternalRegister(j, s)
               \/ \E j \in Keys : RegisterFails(j)
      BY <1>1, <3>3 DEF Register, ExternalRegister, RegisterFails, models
    <3>4. CASE \E t \in Threads : (\E j \in Keys : FindRef(t, j)) \/ LoadFound(t) \/ LoadDangling(t)
      BY <3>4 DEF FindRef, LoadFound, LoadDangling, LoadActive
    <3>5. CASE LoadAll \/ LoadNothingListed
      BY <3>5 DEF LoadAll, LoadNothingListed
    <3>6. CASE \E j \in Keys \cup {NoKey} :
                 Predict(j) \/ \E total \in 1..2 : \E good \in {total - 1, total} : Update(j, good, total)
      BY <3>6 DEF Predict, Update
    <3>7. QED
      BY <1>1, <3>1, <3>2, <3>3, <3>4, <3>5, <3>6 DEF Next
  <2>2. ASSUME NEW j \in Keys, NEW found \in Listings, LoadActive(j, found) PROVE FALSE
    BY <1>1, <2>2 DEF LoadActive, LoadReply, Say
  <2>21. ~LoadAll
    <3>1. LoadAll => reply'.op = "loadAll"
      BY DEF LoadAll, Say
    <3>2. QED
      BY <1>1, <3>1
  <2>3. PICK j \in Keys \cup {NoKey} : \E total \in 1..2 : \E good \in {total - 1, total} :
          Update(j, good, total)
    BY <1>1, <2>0, <2>1, <2>2, <2>21, ModelSteps
  <2>4. PICK total \in 1..2 : \E good \in {total - 1, total} : Update(j, good, total)
    BY <2>3
  <2>5. PICK good \in {total - 1, total} : Update(j, good, total)
    BY <2>4
  <2>6. j = k
    BY <1>1, <2>5 DEF Update, Say
  <2>7. good \in Nat /\ total \in Nat
    OBVIOUS
  <2>8. good = total /\ Served(k)'.learned = Served(k).learned + good
    BY <1>1, <2>0, <2>5, <2>6, <2>7, UpdateAdds
  <2>9. QED
    BY <2>0, <2>8
<1>2. IInv /\ [Next]_vars =>
        [\A k \in Keys \cup {NoKey} :
           /\ reply'.op = "update" /\ reply'.status = 200 /\ reply'.key = k
           /\ models' # models
           => Served(k)'.learned > Served(k).learned]_vars
  BY <1>1
<1>3. QED
  BY <1>2, Inductive, PTL DEF Spec, AckedIsServed

Whole(c) == [by |-> {c}, whole |-> TRUE]
Half(c) == [by |-> {c}, whole |-> FALSE]

\* The numbers of calls under way are their own, and name what was written.
Numbered ==
  /\ \A w \in Writers : pc[w] # "idle" => id[w] \in 1..calls
  /\ \A v, w \in Writers : pc[v] # "idle" /\ pc[w] # "idle" /\ id[v] = id[w] => v = w
  /\ \A f \in Files : file[f].by \subseteq 1..calls

\* A file there is has a writer, and no directory means no files.
FilesHaveWriters ==
  /\ \A f \in Files : Present(f) => file[f].by # {}
  /\ ~dir => \A f \in Files : ~Present(f)

\* A call begins its card only when it is done with the model: the model is not
\* half its own and nobody else's any more.
CardAfterModel ==
  /\ \A c \in file["card"].by : file["model"] # Half(c)
  /\ \A w \in Writers : pc[w] \in {"card", "pre"} => file["model"] # Half(id[w])
  /\ \A w \in Writers : pc[w] \in {"exists", "remove", "create", "check", "model"}
                          => id[w] \notin file["card"].by

Alone == \A v, w \in Writers : pc[v] # "idle" /\ pc[w] # "idle" => v = w

\* The file a call is at: not there until the copy is begun.
Begun(w, f) == file[f] = IF open[w] THEN Half(id[w]) ELSE Absent

\* How far a call that is alone has come.
Progress(w) ==
  /\ pc[w] \in {"create", "check"} => \A f \in Files : file[f] = Absent
  /\ pc[w] = "model" => Begun(w, "model") /\ file["card"] = Absent /\ file["pre"] = Absent
  /\ pc[w] = "card" => file["model"] = Whole(id[w]) /\ Begun(w, "card") /\ file["pre"] = Absent
  /\ pc[w] = "pre" => /\ file["model"] = Whole(id[w]) /\ file["card"] = Whole(id[w])
                      /\ Begun(w, "pre") /\ req[w].pre

\* A target is open only in the copy of a source there is.
OpenInCopy == \A w \in Writers : open[w] => pc[w] \in Files /\ pc[w] \in req[w].sources

OneByOne == ~raced => Alone /\ \A w \in Writers : Progress(w)

RegistryIInv == /\ RegistryTypeOK /\ Numbered /\ FilesHaveWriters /\ CardAfterModel /\ OpenInCopy
        /\ OneByOne /\ ListedModelIsWhole /\ NeverMixed
-----------------------------------------------------------------------------
(* The invariant *)

LEMMA RegistryInitInv == RegistryInit => RegistryIInv
<1> SUFFICES ASSUME RegistryInit PROVE RegistryIInv
  OBVIOUS
<1>1. RegistryTypeOK
  <2>1. Absent \in FileState
    BY DEF Absent, FileState
  <2>2. [overwrite |-> FALSE, sources |-> {}, pre |-> FALSE] \in Requests
    BY DEF Requests
  <2>3. 0 \in 0..MaxCalls
    BY RegistryAssumption
  <2>4. QED
    BY <2>1, <2>2, <2>3 DEF RegistryInit, RegistryTypeOK, PCs, Results
<1>2. Numbered /\ FilesHaveWriters /\ OpenInCopy
  BY DEF RegistryInit, Numbered, FilesHaveWriters, OpenInCopy, Present, Absent
<1>3. CardAfterModel
  BY DEF RegistryInit, CardAfterModel, Absent, Half, Files
<1>4. OneByOne
  BY DEF RegistryInit, OneByOne, Alone, Progress
<1>5. ListedModelIsWhole /\ NeverMixed
  BY DEF RegistryInit, ListedModelIsWhole, NeverMixed, Scanned
<1>6. QED
  BY <1>1, <1>2, <1>3, <1>4, <1>5 DEF RegistryIInv

\* What the types say of a writer and of a file, by name.
LEMMA TypesOf ==
  ASSUME RegistryTypeOK, NEW w \in Writers
  PROVE  /\ pc[w] \in PCs /\ req[w] \in Requests /\ id[w] \in Nat /\ open[w] \in BOOLEAN
         /\ calls \in Nat /\ \A f \in Files : file[f] \in FileState
BY RegistryAssumption DEF RegistryTypeOK

LEMMA CallInv ==
  ASSUME RegistryIInv, NEW w \in Writers, NEW r \in Requests, Call(w, r)
  PROVE  RegistryIInv'
<1>1. RegistryTypeOK'
  BY RegistryAssumption DEF RegistryIInv, Call, RegistryTypeOK, FileState, Absent, PCs, Results, Goto, Return
<1>2. Numbered'
  BY RegistryAssumption DEF RegistryIInv, Call, Numbered, RegistryTypeOK, Goto, Return
<1>3. FilesHaveWriters'
  BY RegistryAssumption DEF RegistryIInv, Call, FilesHaveWriters, RegistryTypeOK, Present, Goto, Return
<1>4. CardAfterModel'
  BY RegistryAssumption DEF RegistryIInv, Call, CardAfterModel, Numbered, RegistryTypeOK, Half, Files, Goto, Return
<1>5. OpenInCopy'
  BY RegistryAssumption DEF RegistryIInv, Call, OpenInCopy, RegistryTypeOK, Files, Goto, Return
<1>6. OneByOne'
  BY RegistryAssumption DEF RegistryIInv, Call, OneByOne, Alone, Progress, Begun, RegistryTypeOK, Goto, Return
<1>7. ListedModelIsWhole'
  BY RegistryAssumption DEF RegistryIInv, Call, ListedModelIsWhole, Scanned, Present, RegistryTypeOK, Goto, Return
<1>8. NeverMixed'
  BY RegistryAssumption DEF RegistryIInv, Call, NeverMixed, Present, RegistryTypeOK, Goto, Return
<1>9. QED
  BY <1>1, <1>2, <1>3, <1>4, <1>5, <1>6, <1>7, <1>8 DEF RegistryIInv

LEMMA CheckExistsInv ==
  ASSUME RegistryIInv, NEW w \in Writers, CheckExists(w)
  PROVE  RegistryIInv'
<1>1. RegistryTypeOK'
  BY RegistryAssumption DEF RegistryIInv, CheckExists, RegistryTypeOK, FileState, Absent, PCs, Results, Goto, Return
<1>2. Numbered'
  BY RegistryAssumption DEF RegistryIInv, CheckExists, Numbered, RegistryTypeOK, Goto, Return
<1>3. FilesHaveWriters'
  BY RegistryAssumption DEF RegistryIInv, CheckExists, FilesHaveWriters, RegistryTypeOK, Present, Goto, Return
<1>4. CardAfterModel'
  BY RegistryAssumption DEF RegistryIInv, CheckExists, CardAfterModel, Numbered, RegistryTypeOK, Half, Files, Goto, Return
<1>5. OpenInCopy'
  BY RegistryAssumption DEF RegistryIInv, CheckExists, OpenInCopy, RegistryTypeOK, Files, Goto, Return
<1>6. OneByOne'
  <2>1. pc \in [Writers -> PCs] /\ pc[w] # "idle" /\ UNCHANGED <<file, req, id, open, raced>>
    BY DEF RegistryIInv, RegistryTypeOK, CheckExists
  <2>2. \A v \in Writers \ {w} : pc'[v] = pc[v]
    BY <2>1 DEF CheckExists, Goto, Return
  <2>3. ~raced => \A v \in Writers \ {w} : pc'[v] = "idle" /\ Progress(v)'
    BY <2>1, <2>2 DEF RegistryIInv, OneByOne, Alone, Progress
  <2>4. ~raced => Progress(w)'
    BY <2>1 DEF RegistryIInv, OneByOne, FilesHaveWriters, Present, CheckExists, Progress, Begun, Goto, Return
  <2>5. QED
    BY <2>1, <2>3, <2>4 DEF OneByOne, Alone
<1>7. ListedModelIsWhole'
  BY RegistryAssumption DEF RegistryIInv, CheckExists, ListedModelIsWhole, Scanned, Present, RegistryTypeOK, Goto, Return
<1>8. NeverMixed'
  BY RegistryAssumption DEF RegistryIInv, CheckExists, NeverMixed, Present, RegistryTypeOK, Goto, Return
<1>9. QED
  BY <1>1, <1>2, <1>3, <1>4, <1>5, <1>6, <1>7, <1>8 DEF RegistryIInv

LEMMA RemoveAllInv ==
  ASSUME RegistryIInv, NEW w \in Writers, RemoveAll(w)
  PROVE  RegistryIInv'
<1>1. /\ pc[w] = "remove" /\ pc \in [Writers -> PCs] /\ file \in [Files -> FileState]
      /\ UNCHANGED <<calls, req, id, open, result, raced>>
      /\ ~raced => \A v \in Writers \ {w} : pc[v] = "idle"
  BY DEF RegistryIInv, RegistryTypeOK, RemoveAll, OneByOne, Alone
<1>2. CASE \E f \in Files : Present(f) /\ file' = [file EXCEPT ![f] = Absent] /\ UNCHANGED <<dir, pc>>
  <2>1. PICK f \in Files : file' = [file EXCEPT ![f] = Absent] /\ UNCHANGED <<dir, pc>>
    BY <1>2
  <2>2. /\ file' \in [Files -> FileState] /\ file'[f] = Absent /\ \A g \in Files \ {f} : file'[g] = file[g]
        /\ \A c : Absent # Half(c) /\ Absent.by = {}
    BY <1>1, <2>1 DEF Absent, FileState, Half
  <2>3. RegistryTypeOK' /\ OpenInCopy'
    BY <1>1, <2>1, <2>2 DEF RegistryIInv, RegistryTypeOK, OpenInCopy
  <2>4. Numbered' /\ FilesHaveWriters'
    BY <1>1, <2>1, <2>2 DEF RegistryIInv, Numbered, FilesHaveWriters, Present
  <2>5. CardAfterModel'
    BY <1>1, <2>1, <2>2 DEF RegistryIInv, CardAfterModel, Files
  <2>6. OneByOne'
    BY <1>1, <2>1 DEF RegistryIInv, OneByOne, Alone, Progress
  <2>7. ListedModelIsWhole' /\ NeverMixed'
    BY <1>1, <2>1, <2>2 DEF RegistryIInv, ListedModelIsWhole, Scanned, NeverMixed, Present, Files
  <2>8. QED
    BY <2>3, <2>4, <2>5, <2>6, <2>7 DEF RegistryIInv
<1>3. CASE (\A f \in Files : ~Present(f)) /\ dir' = FALSE /\ Goto(w, "create") /\ UNCHANGED file
  <2>1. pc' = [pc EXCEPT ![w] = "create"] /\ pc' \in [Writers -> PCs] /\ \A f \in Files : file'[f] = Absent
    BY <1>1, <1>3 DEF Goto, PCs, Present
  <2>2. RegistryTypeOK' /\ OpenInCopy'
    BY <1>1, <1>3, <2>1 DEF RegistryIInv, RegistryTypeOK, OpenInCopy, Files
  <2>3. Numbered' /\ FilesHaveWriters'
    BY <1>1, <1>3, <2>1 DEF RegistryIInv, Numbered, FilesHaveWriters, Present
  <2>4. CardAfterModel'
    BY <1>1, <1>3, <2>1 DEF RegistryIInv, CardAfterModel
  <2>5. OneByOne'
    BY <1>1, <1>3, <2>1 DEF OneByOne, Alone, Progress
  <2>6. ListedModelIsWhole' /\ NeverMixed'
    BY <1>3, <2>1 DEF ListedModelIsWhole, Scanned, NeverMixed, Present
  <2>7. QED
    BY <2>2, <2>3, <2>4, <2>5, <2>6 DEF RegistryIInv
<1>4. QED
  BY <1>2, <1>3 DEF RemoveAll

LEMMA CreateDirInv ==
  ASSUME RegistryIInv, NEW w \in Writers, CreateDir(w)
  PROVE  RegistryIInv'
<1>1. RegistryTypeOK'
  BY RegistryAssumption DEF RegistryIInv, CreateDir, RegistryTypeOK, FileState, Absent, PCs, Results, Goto, Return
<1>2. Numbered'
  BY RegistryAssumption DEF RegistryIInv, CreateDir, Numbered, RegistryTypeOK, Goto, Return
<1>3. FilesHaveWriters'
  BY RegistryAssumption DEF RegistryIInv, CreateDir, FilesHaveWriters, RegistryTypeOK, Present, Goto, Return
<1>4. CardAfterModel'
  BY RegistryAssumption DEF RegistryIInv, CreateDir, CardAfterModel, Numbered, RegistryTypeOK, Half, Files, Goto, Return
<1>5. OpenInCopy'
  BY RegistryAssumption DEF RegistryIInv, CreateDir, OpenInCopy, RegistryTypeOK, Files, Goto, Return
<1>6. OneByOne'
  BY RegistryAssumption DEF RegistryIInv, CreateDir, OneByOne, Alone, Progress, Begun, RegistryTypeOK, Goto, Return
<1>7. ListedModelIsWhole'
  BY RegistryAssumption DEF RegistryIInv, CreateDir, ListedModelIsWhole, OneByOne, Progress, Scanned, Present, RegistryTypeOK, Files, Goto, Return
<1>8. NeverMixed'
  BY RegistryAssumption DEF RegistryIInv, CreateDir, NeverMixed, Present, RegistryTypeOK, Goto, Return
<1>9. QED
  BY <1>1, <1>2, <1>3, <1>4, <1>5, <1>6, <1>7, <1>8 DEF RegistryIInv

LEMMA CheckSourcesInv ==
  ASSUME RegistryIInv, NEW w \in Writers, CheckSources(w)
  PROVE  RegistryIInv'
<1>1. RegistryTypeOK'
  BY RegistryAssumption DEF RegistryIInv, CheckSources, RegistryTypeOK, FileState, Absent, PCs, Results, Goto, Return
<1>2. Numbered'
  BY RegistryAssumption DEF RegistryIInv, CheckSources, Numbered, RegistryTypeOK, Goto, Return
<1>3. FilesHaveWriters'
  BY RegistryAssumption DEF RegistryIInv, CheckSources, FilesHaveWriters, RegistryTypeOK, Present, Goto, Return
<1>4. CardAfterModel'
  BY RegistryAssumption DEF RegistryIInv, CheckSources, CardAfterModel, Numbered, RegistryTypeOK, Half, Files, Goto, Return
<1>5. OpenInCopy'
  BY RegistryAssumption DEF RegistryIInv, CheckSources, OpenInCopy, RegistryTypeOK, Files, Goto, Return
<1>6. OneByOne'
  <2>1. pc \in [Writers -> PCs] /\ pc[w] # "idle" /\ UNCHANGED <<file, req, id, open, raced>>
    BY DEF RegistryIInv, RegistryTypeOK, CheckSources
  <2>2. \A v \in Writers \ {w} : pc'[v] = pc[v]
    BY <2>1 DEF CheckSources, Goto, Return
  <2>3. ~raced => \A v \in Writers \ {w} : pc'[v] = "idle" /\ Progress(v)'
    BY <2>1, <2>2 DEF RegistryIInv, OneByOne, Alone, Progress
  <2>4. ~raced => Progress(w)'
    BY <2>1 DEF RegistryIInv, OneByOne, OpenInCopy, Files, CheckSources, Progress, Begun, Goto, Return
  <2>5. QED
    BY <2>1, <2>3, <2>4 DEF OneByOne, Alone
<1>7. ListedModelIsWhole'
  BY RegistryAssumption DEF RegistryIInv, CheckSources, ListedModelIsWhole, Scanned, Present, RegistryTypeOK, Goto, Return
<1>8. NeverMixed'
  BY RegistryAssumption DEF RegistryIInv, CheckSources, NeverMixed, Present, RegistryTypeOK, Goto, Return
<1>9. QED
  BY <1>1, <1>2, <1>3, <1>4, <1>5, <1>6, <1>7, <1>8 DEF RegistryIInv

LEMMA StartCopyInv ==
  ASSUME RegistryIInv, NEW w \in Writers, NEW f \in Files, StartCopy(w, f)
  PROVE  RegistryIInv'
<1>1. /\ file' = [file EXCEPT ![f] = Half(id[w])] /\ file \in [Files -> FileState]
      /\ open' = [open EXCEPT ![w] = TRUE] /\ open \in [Writers -> BOOLEAN] /\ ~open[w]
      /\ pc[w] = f /\ pc[w] # "idle" /\ f \in req[w].sources /\ dir
      /\ UNCHANGED <<dir, calls, pc, req, id, result, raced>>
  BY DEF RegistryIInv, RegistryTypeOK, StartCopy, Copying, Half, Files
<1>2. id[w] \in 1..calls /\ 1..calls \subseteq 1..MaxCalls /\ calls \in Nat
  BY <1>1, RegistryAssumption DEF RegistryIInv, RegistryTypeOK, Numbered
<1>3. Half(id[w]) \in FileState /\ Half(id[w]).by = {id[w]} /\ ~Half(id[w]).whole /\ Half(id[w]) # Absent
  BY <1>2 DEF Half, FileState, Absent
<1>4. file' \in [Files -> FileState] /\ file'[f] = Half(id[w]) /\ \A g \in Files \ {f} : file'[g] = file[g]
  BY <1>1, <1>3
<1>5. open' \in [Writers -> BOOLEAN] /\ open'[w] /\ \A v \in Writers \ {w} : open'[v] = open[v]
  BY <1>1
<1>6. ~raced => Progress(w) /\ \A v \in Writers \ {w} : pc[v] = "idle"
  BY <1>1 DEF RegistryIInv, OneByOne, Alone
<1>7. RegistryTypeOK'
  BY <1>1, <1>4, <1>5 DEF RegistryIInv, RegistryTypeOK
<1>8. Numbered'
  BY <1>1, <1>2, <1>3, <1>4 DEF RegistryIInv, Numbered
<1>9. FilesHaveWriters'
  BY <1>1, <1>3, <1>4 DEF RegistryIInv, FilesHaveWriters, Present
<1>10. CardAfterModel'
  <2>1. \A v \in Writers : pc[v] # "idle" /\ id[v] = id[w] => v = w
    BY <1>1 DEF RegistryIInv, Numbered
  <2>2. \A c : Half(c) = Half(id[w]) => c = id[w]
    BY <1>3 DEF Half
  <2>3. CASE f = "model"
    BY <1>1, <1>4, <2>1, <2>2, <2>3 DEF RegistryIInv, CardAfterModel, Files
  <2>4. CASE f = "card"
    BY <1>1, <1>3, <1>4, <2>1, <2>4 DEF RegistryIInv, CardAfterModel, Files
  <2>5. CASE f = "pre"
    BY <1>1, <1>4, <2>5 DEF RegistryIInv, CardAfterModel, Files
  <2>6. QED
    BY <2>3, <2>4, <2>5 DEF Files
<1>11. OpenInCopy'
  BY <1>1, <1>5 DEF RegistryIInv, OpenInCopy
<1>12. ~raced => Progress(w)'
  <2>1. CASE f = "model"
    BY <1>1, <1>4, <1>5, <1>6, <2>1 DEF Progress, Begun, Files
  <2>2. CASE f = "card"
    BY <1>1, <1>4, <1>5, <1>6, <2>2 DEF Progress, Begun, Files
  <2>3. CASE f = "pre"
    BY <1>1, <1>4, <1>5, <1>6, <2>3 DEF Progress, Begun, Files
  <2>4. QED
    BY <2>1, <2>2, <2>3 DEF Files
<1>13. OneByOne'
  <2>1. ~raced => \A v \in Writers \ {w} : Progress(v)'
    BY <1>1, <1>6 DEF Progress
  <2>2. QED
    BY <1>1, <1>12, <2>1 DEF RegistryIInv, OneByOne, Alone
<1>14. ListedModelIsWhole'
  BY <1>1, <1>3, <1>12 DEF ListedModelIsWhole, Scanned, Present, Progress, Whole, Files
<1>15. NeverMixed'
  <2>1. SUFFICES ASSUME ~raced
                 PROVE  (\A g, h \in Files : Present(g) /\ Present(h) => file[g].by = file[h].by)'
    BY <1>1 DEF NeverMixed
  <2>2. Progress(w) /\ pc[w] = f
    BY <1>1, <1>6, <2>1
  <2>3. Whole(id[w]).by = {id[w]}
    BY DEF Whole
  <2>4. ASSUME NEW g \in Files \ {f} PROVE file[g] = Absent \/ file[g] = Whole(id[w])
    <3>1. CASE f = "model"
      BY <2>2, <3>1 DEF Progress, Files
    <3>2. CASE f = "card"
      BY <2>2, <3>2 DEF Progress, Files
    <3>3. CASE f = "pre"
      BY <2>2, <3>3 DEF Progress, Files
    <3>4. QED
      BY <3>1, <3>2, <3>3 DEF Files
  <2>5. \A g \in Files : file'[g] = Absent \/ file'[g].by = {id[w]}
    BY <1>3, <1>4, <2>3, <2>4
  <2>6. QED
    BY <2>5 DEF Present
<1>16. QED
  BY <1>7, <1>8, <1>9, <1>10, <1>11, <1>13, <1>14, <1>15 DEF RegistryIInv

LEMMA EndCopyInv ==
  ASSUME RegistryIInv, NEW w \in Writers, NEW f \in Files, EndCopy(w, f)
  PROVE  RegistryIInv'
<1>1. /\ file \in [Files -> FileState] /\ open[w] /\ open \in [Writers -> BOOLEAN]
      /\ open' = [open EXCEPT ![w] = FALSE]
      /\ pc[w] = f /\ pc[w] # "idle" /\ pc \in [Writers -> PCs] /\ result \in [Writers -> Results]
      /\ UNCHANGED <<dir, calls, req, id, raced>>
  BY DEF RegistryIInv, RegistryTypeOK, EndCopy, Copying, Files
<1>2. id[w] \in 1..calls /\ 1..calls \subseteq 1..MaxCalls /\ calls \in Nat
  BY <1>1, RegistryAssumption DEF RegistryIInv, RegistryTypeOK, Numbered
<1>3. /\ pc' = [pc EXCEPT ![w] = NextAfter(w, f)] /\ NextAfter(w, f) \in {"idle", "card", "pre"}
      /\ result' \in [Writers -> Results]
      /\ f = "model" => NextAfter(w, f) = "card"
      /\ f = "card" => NextAfter(w, f) \in {"idle", "pre"} /\ (NextAfter(w, f) = "pre" => req[w].pre)
      /\ f = "pre" => NextAfter(w, f) = "idle"
  BY <1>1 DEF EndCopy, Goto, Return, NextAfter, Results, Files
<1>4. /\ file' \in [Files -> FileState] /\ \A g \in Files \ {f} : file'[g] = file[g]
      /\ \/ file'[f] = file[f] /\ id[w] \notin file[f].by
         \/ file'[f] = [by |-> file[f].by, whole |-> TRUE] /\ id[w] \in file[f].by
         \/ /\ file'[f] = [by |-> file[f].by \cup {id[w]}, whole |-> file[f].whole]
            /\ id[w] \notin file[f].by /\ Present(f)
  <2>1. file[f] \in FileState
    BY <1>1
  <2>2. CASE id[w] \in file[f].by /\ file' = [file EXCEPT ![f].whole = TRUE]
    BY <1>1, <2>1, <2>2 DEF FileState
  <2>3. CASE id[w] \notin file[f].by /\ UNCHANGED file
    BY <1>1, <2>3
  <2>4. CASE id[w] \notin file[f].by /\ Present(f) /\ file' = [file EXCEPT ![f].by = @ \cup {id[w]}]
    <3>1. file[f].by \in SUBSET (1..MaxCalls) /\ file[f].whole \in BOOLEAN /\ id[w] \in 1..MaxCalls
      BY <1>2, <2>1 DEF FileState
    <3>2. file[f] = [by |-> file[f].by, whole |-> file[f].whole]
      BY <2>1 DEF FileState
    <3>3. file' = [file EXCEPT ![f] = [by |-> file[f].by \cup {id[w]}, whole |-> file[f].whole]]
      <4>1. [file[f] EXCEPT !.by = @ \cup {id[w]}] = [by |-> file[f].by \cup {id[w]}, whole |-> file[f].whole]
        BY <3>2
      <4>2. file' = [file EXCEPT ![f] = [file[f] EXCEPT !.by = @ \cup {id[w]}]]
        BY <2>4
      <4>3. QED
        BY <4>1, <4>2
    <3>4. [by |-> file[f].by \cup {id[w]}, whole |-> file[f].whole] \in FileState
      BY <3>1 DEF FileState
    <3>5. file' \in [Files -> FileState] /\ \A g \in Files \ {f} : file'[g] = file[g]
      BY <1>1, <3>3, <3>4
    <3>6. file'[f] = [by |-> file[f].by \cup {id[w]}, whole |-> file[f].whole]
      BY <1>1, <3>3
    <3>7. QED
      BY <2>4, <3>5, <3>6
  <2>5. QED
    BY <2>2, <2>3, <2>4 DEF EndCopy
<1>5. open' \in [Writers -> BOOLEAN] /\ ~open'[w] /\ \A v \in Writers \ {w} : open'[v] = open[v] /\ pc'[v] = pc[v]
  BY <1>1, <1>3
<1>6. pc'[w] = NextAfter(w, f)
  BY <1>1, <1>3
<1>7. ~raced => /\ Progress(w) /\ \A v \in Writers \ {w} : pc[v] = "idle"
                /\ file[f] = Half(id[w]) /\ file'[f] = Whole(id[w])
  <2>1. ~raced => Progress(w) /\ \A v \in Writers \ {w} : pc[v] = "idle"
    BY <1>1 DEF RegistryIInv, OneByOne, Alone
  <2>2. ~raced => file[f] = Half(id[w])
    BY <1>1, <2>1 DEF Progress, Begun, Files
  <2>3. QED
    BY <1>4, <2>1, <2>2 DEF Half, Whole
<1> HIDE DEF NextAfter
<1>8. RegistryTypeOK'
  BY <1>1, <1>3, <1>4, <1>5 DEF RegistryIInv, RegistryTypeOK, PCs
<1>9. Numbered'
  <2>1. \A g \in Files : file'[g].by \subseteq 1..calls
    BY <1>2, <1>4 DEF RegistryIInv, Numbered
  <2>2. QED
    BY <1>1, <1>5, <2>1 DEF RegistryIInv, Numbered
<1>10. FilesHaveWriters'
  <2>1. Present(f)' => Present(f) /\ file'[f].by # {}
    BY <1>4 DEF RegistryIInv, FilesHaveWriters, Present, Absent
  <2>2. QED
    BY <1>1, <1>4, <2>1 DEF RegistryIInv, FilesHaveWriters, Present
<1>11. CardAfterModel'
  <2>1. \A v \in Writers : pc[v] # "idle" /\ id[v] = id[w] => v = w
    BY <1>1 DEF RegistryIInv, Numbered
  <2>2. \A c : Half(c).by = {c} /\ ~Half(c).whole
    BY DEF Half
  <2>3. CASE f = "model"
    <3>1. \A c : file'["model"] = Half(c) => file["model"] = Half(c) /\ c # id[w]
      BY <1>4, <2>2, <2>3 DEF RegistryIInv, FilesHaveWriters, Half
    <3>2. QED
      BY <1>1, <1>3, <1>4, <1>5, <1>6, <2>3, <3>1 DEF RegistryIInv, CardAfterModel, Files
  <2>4. CASE f = "card"
    BY <1>1, <1>3, <1>4, <1>5, <1>6, <2>1, <2>4 DEF RegistryIInv, CardAfterModel, Files
  <2>5. CASE f = "pre"
    BY <1>1, <1>3, <1>4, <1>5, <1>6, <2>5 DEF RegistryIInv, CardAfterModel, Files
  <2>6. QED
    BY <2>3, <2>4, <2>5 DEF Files
<1>12. OpenInCopy'
  BY <1>1, <1>5 DEF RegistryIInv, OpenInCopy
<1>13. ~raced => Progress(w)'
  <2>1. CASE f = "model"
    BY <1>1, <1>3, <1>4, <1>5, <1>6, <1>7, <2>1 DEF Progress, Begun, Files
  <2>2. CASE f = "card"
    BY <1>1, <1>3, <1>4, <1>5, <1>6, <1>7, <2>2 DEF Progress, Begun, Files
  <2>3. CASE f = "pre"
    BY <1>1, <1>3, <1>4, <1>5, <1>6, <1>7, <2>3 DEF Progress, Begun, Files
  <2>4. QED
    BY <2>1, <2>2, <2>3 DEF Files
<1>14. OneByOne'
  <2>1. ~raced => \A v \in Writers \ {w} : pc'[v] = "idle" /\ Progress(v)'
    BY <1>5, <1>7 DEF Progress
  <2>2. QED
    BY <1>1, <1>13, <2>1 DEF OneByOne, Alone
<1>15. ~raced => \/ file'["model"] = Whole(id[w]) /\ file'["card"] = Absent /\ file'["pre"] = Absent
                 \/ file'["model"] = Whole(id[w]) /\ file'["card"] = Whole(id[w]) /\ file'["pre"] \in {Absent, Whole(id[w])}
  BY <1>1, <1>4, <1>7 DEF Progress, Files
<1>16. ListedModelIsWhole' /\ NeverMixed'
  <2>1. \A c : Whole(c).whole /\ Whole(c).by = {c}
    BY DEF Whole
  <2>2. ListedModelIsWhole'
    BY <1>1, <1>15, <2>1 DEF ListedModelIsWhole
  <2>3. ~raced => \A g \in Files : file'[g] = Absent \/ file'[g].by = {id[w]}
    BY <1>15, <2>1 DEF Files
  <2>4. NeverMixed'
    BY <1>1, <2>3 DEF NeverMixed, Present
  <2>5. QED
    BY <2>2, <2>4
<1>17. QED
  BY <1>8, <1>9, <1>10, <1>11, <1>12, <1>14, <1>16 DEF RegistryIInv

LEMMA MissingPreprocessorInv ==
  ASSUME RegistryIInv, NEW w \in Writers, MissingPreprocessor(w)
  PROVE  RegistryIInv'
<1>1. RegistryTypeOK'
  BY RegistryAssumption DEF RegistryIInv, MissingPreprocessor, RegistryTypeOK, FileState, Absent, PCs, Results, Goto, Return
<1>2. Numbered'
  BY RegistryAssumption DEF RegistryIInv, MissingPreprocessor, Numbered, RegistryTypeOK, Goto, Return
<1>3. FilesHaveWriters'
  BY RegistryAssumption DEF RegistryIInv, MissingPreprocessor, FilesHaveWriters, RegistryTypeOK, Present, Goto, Return
<1>4. CardAfterModel'
  BY RegistryAssumption DEF RegistryIInv, MissingPreprocessor, CardAfterModel, Numbered, RegistryTypeOK, Half, Files, Goto, Return
<1>5. OpenInCopy'
  BY RegistryAssumption DEF RegistryIInv, MissingPreprocessor, OpenInCopy, RegistryTypeOK, Files, Goto, Return
<1>6. OneByOne'
  BY RegistryAssumption DEF RegistryIInv, MissingPreprocessor, OneByOne, Alone, Progress, Begun, RegistryTypeOK, Goto, Return
<1>7. ListedModelIsWhole'
  BY RegistryAssumption DEF RegistryIInv, MissingPreprocessor, ListedModelIsWhole, Scanned, Present, RegistryTypeOK, Goto, Return
<1>8. NeverMixed'
  BY RegistryAssumption DEF RegistryIInv, MissingPreprocessor, NeverMixed, Present, RegistryTypeOK, Goto, Return
<1>9. QED
  BY <1>1, <1>2, <1>3, <1>4, <1>5, <1>6, <1>7, <1>8 DEF RegistryIInv

LEMMA DieInv ==
  ASSUME RegistryIInv, NEW w \in Writers, Die(w)
  PROVE  RegistryIInv'
<1>1. RegistryTypeOK'
  BY RegistryAssumption DEF RegistryIInv, Die, RegistryTypeOK, FileState, Absent, PCs, Results, Goto, Return
<1>2. Numbered'
  BY RegistryAssumption DEF RegistryIInv, Die, Numbered, RegistryTypeOK, Goto, Return
<1>3. FilesHaveWriters'
  BY RegistryAssumption DEF RegistryIInv, Die, FilesHaveWriters, RegistryTypeOK, Present, Goto, Return
<1>4. CardAfterModel'
  BY RegistryAssumption DEF RegistryIInv, Die, CardAfterModel, Numbered, RegistryTypeOK, Half, Files, Goto, Return
<1>5. OpenInCopy'
  BY RegistryAssumption DEF RegistryIInv, Die, OpenInCopy, RegistryTypeOK, Files, Goto, Return
<1>6. OneByOne'
  BY RegistryAssumption DEF RegistryIInv, Die, OneByOne, Alone, Progress, Begun, RegistryTypeOK, Goto, Return
<1>7. ListedModelIsWhole'
  BY RegistryAssumption DEF RegistryIInv, Die, ListedModelIsWhole, Scanned, Present, RegistryTypeOK, Goto, Return
<1>8. NeverMixed'
  BY RegistryAssumption DEF RegistryIInv, Die, NeverMixed, Present, RegistryTypeOK, Goto, Return
<1>9. QED
  BY <1>1, <1>2, <1>3, <1>4, <1>5, <1>6, <1>7, <1>8 DEF RegistryIInv

LEMMA RegistryStepInv == RegistryIInv /\ [RegistryNext]_registryVars => RegistryIInv'
<1> SUFFICES ASSUME RegistryIInv, [RegistryNext]_registryVars PROVE RegistryIInv'
  OBVIOUS
<1>1. CASE UNCHANGED registryVars
  BY <1>1 DEF registryVars, RegistryIInv, RegistryTypeOK, Numbered, FilesHaveWriters, CardAfterModel, OpenInCopy, OneByOne, Alone,
              Progress, Begun, ListedModelIsWhole, Scanned, NeverMixed, Present
<1>2. ASSUME NEW w \in Writers, Step(w) PROVE RegistryIInv'
  BY <1>2, CallInv, CheckExistsInv, RemoveAllInv, CreateDirInv, CheckSourcesInv, StartCopyInv, EndCopyInv,
     MissingPreprocessorInv, DieInv DEF Step
<1>3. QED
  BY <1>1, <1>2 DEF RegistryNext

LEMMA RegistryInductive == RegistrySpec => []RegistryIInv
BY RegistryInitInv, RegistryStepInv, PTL DEF RegistrySpec

-----------------------------------------------------------------------------
(* The theorems *)

\* A listed half-written model is not the card writer's alone: two calls are named.
LEMMA HalfModel == RegistryIInv => HalfModelNeedsTwoCalls
<1> SUFFICES ASSUME RegistryIInv, Scanned, ~file["model"].whole
             PROVE  Cardinality(UNION {file[f].by : f \in Files}) >= 2
  BY DEF HalfModelNeedsTwoCalls
<1> DEFINE writers == UNION {file[f].by : f \in Files}
<1>1. file["model"].by # {} /\ file["card"].by # {} /\ file["model"] \in FileState
  BY DEF RegistryIInv, RegistryTypeOK, FilesHaveWriters, Scanned, Files
<1>2. PICK c : c \in file["card"].by
  BY <1>1
<1>3. file["model"] # Half(c)
  BY <1>2 DEF RegistryIInv, CardAfterModel
<1>4. PICK d \in file["model"].by : d # c
  <2>1. file["model"].by # {c}
    BY <1>1, <1>3 DEF Half, FileState
  <2>2. QED
    BY <1>1, <2>1
<1>5. {c, d} \subseteq writers
  BY <1>2, <1>4 DEF Files
<1>6. IsFiniteSet(writers)
  <2>1. writers \subseteq 1..MaxCalls
    BY DEF RegistryIInv, RegistryTypeOK, FileState
  <2>2. IsFiniteSet(1..MaxCalls)
    BY RegistryAssumption, FS_Interval
  <2>3. QED
    BY <2>1, <2>2, FS_Subset
<1>7. Cardinality({c, d}) = 2
  <2>1. IsFiniteSet({c}) /\ Cardinality({c}) = 1
    BY FS_Singleton
  <2>2. Cardinality({c} \cup {d}) = 2
    BY <1>4, <2>1, FS_AddElement
  <2>3. {c} \cup {d} = {c, d}
    OBVIOUS
  <2>4. QED
    BY <2>2, <2>3
<1>8. Cardinality({c, d}) <= Cardinality(writers) /\ Cardinality(writers) \in Nat
  BY <1>5, <1>6, FS_Subset, FS_CardinalityType
<1>9. QED
  BY <1>7, <1>8

\* Whatever the writers do and wherever they die: calls that follow one another
\* list only whole models, never mixed with an older bundle, and calls that met
\* leave a half-written model listed only where two of them wrote.
THEOREM RegistryIsSound == RegistrySpec => []RegistryInv
<1>1. RegistryIInv => RegistryInv
  BY HalfModel DEF RegistryIInv, RegistryInv
<1>2. QED
  BY <1>1, RegistryInductive, PTL

\* Only the end of the last copy returns true, and then every file is in place.
LEMMA OkStep ==
  ASSUME RegistryIInv, [RegistryNext]_registryVars, NEW w \in Writers, ~raced, result'[w] = "ok", result[w] = "none", NEW f \in Files
  PROVE  file'[f] = IF f = "pre" /\ ~req[w].pre THEN Absent ELSE Whole(id[w])
<1>1. result \in [Writers -> Results]
  BY DEF RegistryIInv, RegistryTypeOK
<1>2. PICK g \in Files : EndCopy(w, g) /\ NextAfter(w, g) = "idle"
  <2>1. ASSUME NEW v \in Writers, Step(v), ~\E g \in Files : EndCopy(v, g) PROVE result'[w] # "ok"
    BY <1>1, <2>1 DEF Step, Call, CheckExists, RemoveAll, CreateDir, CheckSources, StartCopy,
                      MissingPreprocessor, Die, Goto, Return
  <2>2. ASSUME NEW v \in Writers, NEW g \in Files, EndCopy(v, g), ~(v = w /\ NextAfter(v, g) = "idle")
        PROVE  result'[w] # "ok"
    BY <1>1, <2>2 DEF EndCopy, Goto, Return
  <2>3. result' # result
    BY DEF Results
  <2>4. QED
    BY <2>1, <2>2, <2>3 DEF RegistryNext, registryVars
<1>3. Copying(w, g) /\ open[w] /\ Progress(w) /\ file \in [Files -> FileState]
  BY <1>2 DEF EndCopy, Copying, RegistryIInv, OneByOne, RegistryTypeOK
<1>4. file[g] = Half(id[w]) /\ \A h \in Files \ {g} : file'[h] = file[h]
  BY <1>2, <1>3 DEF EndCopy, Copying, Progress, Begun, Files
<1>5. file'[g] = Whole(id[w])
  <2>1. id[w] \in file[g].by
    BY <1>4 DEF Half
  <2>2. file' = [file EXCEPT ![g].whole = TRUE]
    BY <1>2, <2>1 DEF EndCopy
  <2>3. file'[g] = [Half(id[w]) EXCEPT !.whole = TRUE]
    BY <1>3, <1>4, <2>2
  <2>4. QED
    BY <2>3 DEF Half, Whole
<1>6. CASE g = "card" /\ ~req[w].pre
  BY <1>3, <1>4, <1>5, <1>6 DEF Copying, Progress, Files
<1>7. CASE g = "pre"
  BY <1>3, <1>4, <1>5, <1>7 DEF Copying, Progress, Files
<1>8. QED
  BY <1>2, <1>3, <1>6, <1>7 DEF NextAfter, Copying, Files

\* A call that met no other and returns true has installed exactly its bundle.
THEOREM OkInstallsTheBundle == RegistrySpec => OkMeansInstalled
<1> DEFINE Installed ==
      \A w \in Writers : ~raced /\ result'[w] = "ok" /\ result[w] = "none" =>
        \A f \in Files :
          file'[f] = IF f = "pre" /\ ~req[w].pre THEN Absent
                     ELSE [by |-> {id[w]}, whole |-> TRUE]
<1>1. RegistryIInv /\ [RegistryNext]_registryVars => [Installed]_registryVars
  BY OkStep DEF Whole
<1>2. QED
  BY <1>1, RegistryInductive, PTL DEF OkMeansInstalled, RegistrySpec
==============================================================================
