------------------------ MODULE SettingsForm_proofs ------------------------
(***************************************************************************)
(* The settings form for any set of options, values and any bounds.        *)
(*                                                                         *)
(* A field the form shows as saved is one of three copies of an option:    *)
(* the baseline, the cached options and the answer of a fetch.  Which copy *)
(* must agree with the database depends on what is still to come: an effect  *)
(* that has not run, a fetch that was asked for, a PUT whose answer will   *)
(* ask for one.                                                            *)
(***************************************************************************)
EXTENDS SettingsForm, TLAPS

\* The PUT of f is in the database and its answer is to come: the fetch it asks
\* for will read the option again.
Awaited(f) ==
    \E m \in 1..MaxMounts : saves[m].st \in {"stored", "ok"} /\ saves[m].key = f

\* The options in x are the database's, as far as the page can know.
Agrees(x) == \A f \in Fields : x[f] = stored[f] \/ f \in unseen \/ Awaited(f)

\* Each copy, while nothing that will replace it is under way.
FetchedAgrees == fetch.st = "read" => Agrees(fetch.opts)
CachedAgrees == fetch = NoFetch => Agrees(cached)
BaselineAgrees == fetch = NoFetch /\ ~fresh =>
    \A f \in Fields : \/ baseline[f] = stored[f] \/ Awaited(f)
                      \/ f \in unseen \/ f \in claimed

\* Only edited fields are dirty, and only dirty ones are saved.
OnlyTouched ==
    /\ \A f \in Fields : form[f] # baseline[f] => f \in touched
    /\ \A m \in 1..MaxMounts : saves[m] # NoSave =>
          saves[m].key \in saves[m].todo /\ saves[m].todo \subseteq touched

IInv ==
    /\ TypeOK
    /\ OnlyTouched
    /\ FetchedAgrees /\ CachedAgrees /\ BaselineAgrees

----------------------------------------------------------------------------
Runs == [st : {"sent", "stored", "ok", "refused", "failed"}, data : Options,
         todo : SUBSET Fields, key : Fields]

\* A save that is running has its fields.
LEMMA RunFacts ==
    ASSUME TypeOK, NEW m \in 1..MaxMounts, saves[m].st # "none"
    PROVE  /\ saves[m] # NoSave /\ saves[m] \in Runs
           /\ saves[m].data \in Options /\ saves[m].todo \in SUBSET Fields
           /\ saves[m].key \in Fields
  <1>1. saves[m] \in Saves /\ saves[m] # NoSave
     BY DEF TypeOK, NoSave
  <1>2. saves[m] \in Runs
     BY <1>1 DEF Saves, Runs
  <1>. QED  BY <1>1, <1>2 DEF Runs

\* The save of mount m takes another state.
LEMMA TakeFacts ==
    ASSUME TypeOK, NEW m \in 1..MaxMounts, saves[m].st # "none",
           NEW st \in {"sent", "stored", "ok", "refused", "failed"},
           saves' = [saves EXCEPT ![m].st = st]
    PROVE  /\ saves' \in [1..MaxMounts -> Saves]
           /\ \A i \in (1..MaxMounts) \ {m} : saves'[i] = saves[i]
           /\ saves'[m].st = st /\ saves'[m].key = saves[m].key
           /\ saves'[m].todo = saves[m].todo
  <1>. DEFINE x == [saves[m] EXCEPT !.st = st]
  <1>1. saves[m] \in Runs
     BY RunFacts
  <1>2. /\ x \in Runs /\ x.st = st /\ x.key = saves[m].key /\ x.todo = saves[m].todo
     BY <1>1 DEF Runs
  <1>3. x \in Saves
     BY <1>2 DEF Saves, Runs
  <1>4. saves' = [saves EXCEPT ![m] = x]
     OBVIOUS
  <1>. HIDE DEF x
  <1>. QED  BY <1>2, <1>3, <1>4 DEF TypeOK

\* The save of mount m ends.
LEMMA EndFacts ==
    ASSUME TypeOK, NEW m \in 1..MaxMounts, saves' = [saves EXCEPT ![m] = NoSave]
    PROVE  /\ saves' \in [1..MaxMounts -> Saves]
           /\ \A i \in (1..MaxMounts) \ {m} : saves'[i] = saves[i]
           /\ saves'[m] = NoSave
  BY DEF TypeOK, Saves

\* A step that hides no change: what it changes in the database the page will
\* learn of, or cannot know.
Careful ==
    /\ unseen \subseteq unseen'
    /\ \A f \in Fields :
          /\ Awaited(f) => Awaited(f)' \/ f \in unseen'
          /\ stored'[f] = stored[f] \/ f \in unseen' \/ Awaited(f)'

\* Copies that agreed still do after such a step.
LEMMA CarefulStep ==
    ASSUME Careful, NEW x, Agrees(x)
    PROVE  \A f \in Fields : x[f] = stored'[f] \/ f \in unseen' \/ Awaited(f)'
  BY DEF Careful, Agrees

\* So a careful step that leaves the copies alone keeps what they agree on.
LEMMA CarefulCopies ==
    ASSUME IInv, Careful, UNCHANGED <<fetch, cached>>
    PROVE  /\ FetchedAgrees' /\ CachedAgrees'
           /\ UNCHANGED <<fresh, baseline, claimed>> => BaselineAgrees'
  <1>1. FetchedAgrees'
    <2>. SUFFICES ASSUME fetch'.st = "read" PROVE Agrees(fetch.opts)'
       BY DEF FetchedAgrees
    <2>1. Agrees(fetch.opts) /\ fetch'.opts = fetch.opts
       BY DEF IInv, FetchedAgrees
    <2>2. \A f \in Fields : fetch.opts[f] = stored'[f] \/ f \in unseen' \/ Awaited(f)'
       BY <2>1, CarefulStep
    <2>. QED  BY <2>1, <2>2 DEF Agrees
  <1>2. CachedAgrees'
    <2>. SUFFICES ASSUME fetch' = NoFetch PROVE Agrees(cached)'
       BY DEF CachedAgrees
    <2>1. Agrees(cached)
       BY DEF IInv, CachedAgrees
    <2>2. \A f \in Fields : cached[f] = stored'[f] \/ f \in unseen' \/ Awaited(f)'
       BY <2>1, CarefulStep
    <2>. QED  BY <2>2 DEF Agrees
  <1>3. ASSUME UNCHANGED <<fresh, baseline, claimed>> PROVE BaselineAgrees'
     BY <1>3 DEF IInv, BaselineAgrees, Careful
  <1>. QED  BY <1>1, <1>2, <1>3

----------------------------------------------------------------------------
\* The administrator

\* A step that leaves the database, the saves and what is unseen alone.
LEMMA Untouched ==
    ASSUME UNCHANGED <<stored, saves, unseen>>
    PROVE  Careful
  BY DEF Careful, Awaited

\* An edit makes only its own field dirty, and touches it.
LEMMA EditStep ==
    ASSUME IInv, NEW f \in Fields, NEW v \in Values, Edit(f, v)
    PROVE  IInv'
  <1>1. TypeOK'
     BY BoundsAssumption DEF Edit, IInv, TypeOK, Options, Writes
  <1>2. OnlyTouched'
     BY DEF Edit, IInv, TypeOK, Options, OnlyTouched
  <1>3. FetchedAgrees' /\ CachedAgrees' /\ BaselineAgrees'
     BY Untouched, CarefulCopies DEF Edit
  <1>. QED  BY <1>1, <1>2, <1>3 DEF IInv

\* A submit sends dirty fields, which are touched.
LEMMA SubmitStep ==
    ASSUME IInv, NEW f \in Fields, Submit(f)
    PROVE  IInv'
  <1>. DEFINE x == [st |-> "sent", data |-> form, todo |-> Changed, key |-> f]
  <1>1. /\ saves[mount] = NoSave /\ f \in Changed /\ saves' = [saves EXCEPT ![mount] = x]
        /\ UNCHANGED <<stored, optionMap, load, applying, page, history>>
        /\ mount \in 1..MaxMounts /\ TypeOK
     BY DEF Submit, isSubmitting, IInv, TypeOK
  <1>2. Changed \in SUBSET Fields /\ form \in Options /\ Changed \subseteq touched
     BY DEF Changed, IInv, TypeOK, OnlyTouched
  <1>3. /\ x \in Saves /\ x.st = "sent" /\ x.todo = Changed /\ x.key = f
     BY <1>2 DEF Saves
  <1>. HIDE DEF x
  <1>4. /\ saves' \in [1..MaxMounts -> Saves] /\ saves'[mount] = x
        /\ \A i \in (1..MaxMounts) \ {mount} : saves'[i] = saves[i]
     BY <1>1, <1>3 DEF TypeOK
  <1>5. TypeOK'
     BY <1>1, <1>4 DEF TypeOK, page, history
  <1>6. OnlyTouched'
     BY <1>1, <1>2, <1>3, <1>4 DEF IInv, OnlyTouched, page, history
  <1>7. Careful
    <2>1. ASSUME NEW g \in Fields, Awaited(g) PROVE Awaited(g)'
       BY <1>1, <1>4, <2>1 DEF Awaited, NoSave
    <2>. QED  BY <1>1, <2>1 DEF Careful, history
  <1>. QED  BY <1>1, <1>5, <1>6, <1>7, CarefulCopies DEF IInv, page, history

\* A reset leaves nothing dirty.
LEMMA ResetStep ==
    ASSUME IInv, Reset
    PROVE  IInv'
  <1>1. TypeOK'
     BY DEF Reset, IInv, TypeOK, history
  <1>2. OnlyTouched'
     BY DEF Reset, IInv, OnlyTouched, history
  <1>. QED  BY <1>1, <1>2, Untouched, CarefulCopies DEF Reset, IInv, history

\* A new mount starts from the cached options.
LEMMA RemountStep ==
    ASSUME IInv, Remount
    PROVE  IInv'
  <1>1. mount' \in 1..MaxMounts
     BY BoundsAssumption DEF Remount, IInv, TypeOK
  <1>2. TypeOK'
     BY <1>1 DEF Remount, IInv, TypeOK
  <1>3. OnlyTouched'
     BY DEF Remount, IInv, OnlyTouched
  <1>4. FetchedAgrees' /\ CachedAgrees'
     BY Untouched, CarefulCopies DEF Remount
  <1>5. BaselineAgrees'
     BY <1>4 DEF Remount, BaselineAgrees, CachedAgrees, Agrees, Awaited
  <1>. QED  BY <1>2, <1>3, <1>4, <1>5 DEF IInv

----------------------------------------------------------------------------
\* The save

\* A written option is awaited.
LEMMA ServePutStep ==
    ASSUME IInv, NEW m \in 1..MaxMounts, ServePut(m)
    PROVE  IInv'
  <1>. DEFINE s == saves[m]
  <1>. PICK k : k = s.key
     OBVIOUS
  <1>1. /\ TypeOK /\ s.st = "sent" /\ k \in Fields /\ s.data \in Options
        /\ stored \in Options /\ s # NoSave
        /\ UNCHANGED <<optionMap, load, applying, page, history>>
     BY RunFacts DEF ServePut, IInv, TypeOK
  <1>2. PICK st \in {"stored", "refused", "failed"} :
          /\ saves' = [saves EXCEPT ![m].st = st]
          /\ \/ stored' = [stored EXCEPT ![k] = s.data[k]] /\ st = "stored"
             \/ UNCHANGED stored
     BY DEF ServePut
  <1>3. /\ saves' \in [1..MaxMounts -> Saves]
        /\ \A i \in (1..MaxMounts) \ {m} : saves'[i] = saves[i]
        /\ saves'[m].st = st /\ saves'[m].key = k /\ saves'[m].todo = s.todo
     BY <1>1, <1>2, TakeFacts
  <1>4. /\ stored' \in Options
        /\ \A f \in Fields \ {k} : stored'[f] = stored[f]
        /\ stored'[k] = stored[k] \/ st = "stored"
    <2>1. s.data[k] \in Values
       BY <1>1 DEF Options
    <2>. QED  BY <1>1, <1>2, <2>1 DEF Options, TypeOK
  <1>5. TypeOK'
     BY <1>1, <1>3, <1>4 DEF TypeOK, page, history
  <1>6. OnlyTouched'
     BY <1>1, <1>3 DEF IInv, OnlyTouched, page, history
  <1>7. Careful
    <2>1. ASSUME NEW f \in Fields, Awaited(f) PROVE Awaited(f)'
       BY <1>1, <1>3, <2>1 DEF Awaited
    <2>2. st = "stored" => Awaited(k)'
       BY <1>3 DEF Awaited
    <2>3. ASSUME NEW f \in Fields PROVE stored'[f] = stored[f] \/ Awaited(f)'
       BY <1>4, <2>2
    <2>. QED  BY <1>1, <2>1, <2>3 DEF Careful, history
  <1>. QED  BY <1>1, <1>5, <1>6, <1>7, CarefulCopies DEF IInv, page, history

\* A written option stays awaited, or its error or lost answer is marked unseen.
LEMMA ApplyPutStep ==
    ASSUME IInv, NEW m \in 1..MaxMounts, NEW n \in Nodes, ApplyPut(m, n)
    PROVE  IInv'
  <1>. DEFINE s == saves[m]
  <1>. PICK k : k = s.key
     OBVIOUS
  <1>1. /\ TypeOK /\ s.st = "stored" /\ k \in Fields
        /\ s.data \in Options /\ s # NoSave
        /\ optionMap' = [optionMap EXCEPT ![n][k] = s.data[k]]
        /\ UNCHANGED <<stored, load, applying, page, events, touched,
                       claimed>>
     BY RunFacts DEF ApplyPut, IInv, TypeOK
  <1>2. PICK st \in {"ok", "refused", "failed"} :
          /\ saves' = [saves EXCEPT ![m].st = st]
          /\ \/ st = "ok" /\ unseen' = unseen
             \/ unseen' = unseen \cup {k}
     BY DEF ApplyPut
  <1>3. /\ saves' \in [1..MaxMounts -> Saves]
        /\ \A i \in (1..MaxMounts) \ {m} : saves'[i] = saves[i]
        /\ saves'[m].st = st /\ saves'[m].key = k /\ saves'[m].todo = s.todo
     BY <1>1, <1>2, TakeFacts
  <1>4. /\ unseen' \in SUBSET Fields /\ unseen \subseteq unseen'
        /\ st = "ok" \/ k \in unseen'
     BY <1>1, <1>2 DEF TypeOK
  <1>5. TypeOK'
    <2>1. s.data[k] \in Values
       BY <1>1 DEF Options
    <2>2. optionMap' \in [Nodes -> Options]
       BY <1>1, <2>1 DEF TypeOK, Options
    <2>. QED  BY <1>1, <1>3, <1>4, <2>2 DEF TypeOK, page
  <1>6. OnlyTouched'
     BY <1>1, <1>3 DEF IInv, OnlyTouched, page
  <1>7. Careful
    <2>1. st = "ok" => Awaited(k)'
       BY <1>3 DEF Awaited
    <2>2. ASSUME NEW f \in Fields, Awaited(f) PROVE Awaited(f)' \/ f \in unseen'
      <3>1. CASE f = k
         BY <1>4, <2>1, <3>1
      <3>2. CASE f # k
        <4>1. PICK i \in (1..MaxMounts) \ {m} :
                 saves[i].st \in {"stored", "ok"} /\ saves[i].key = f
           BY <2>2, <3>2 DEF Awaited
        <4>. QED  BY <1>3, <4>1 DEF Awaited
      <3>. QED  BY <3>1, <3>2
    <2>. QED  BY <1>1, <1>4, <2>2 DEF Careful
  <1>. QED  BY <1>1, <1>5, <1>6, <1>7, CarefulCopies DEF IInv, page

\* The save's next state after an answer, and what it leaves to the fields.
LEMMA PutAnsweredStep ==
    ASSUME IInv, NEW m \in 1..MaxMounts, PutAnswered(m)
    PROVE  IInv'
  <1>. DEFINE s == saves[m]
              left == s.todo \ {s.key}
              ok == s.st = "ok"
  <1>1. /\ TypeOK /\ s.st \in {"ok", "refused"} /\ s.key \in Fields /\ s.data \in Options
        /\ s \in Runs /\ s # NoSave /\ s.todo \subseteq Fields
        /\ fetch' = Invalidated(ok) /\ fresh' = (fresh \/ ok)
        /\ UNCHANGED <<stored, optionMap, load, applying, cached, mount, events, touched, unseen>>
        /\ s.todo \subseteq touched
     BY RunFacts DEF PutAnswered, IInv, OnlyTouched
  <1>2. /\ saves' \in [1..MaxMounts -> Saves]
        /\ \A i \in (1..MaxMounts) \ {m} : saves'[i] = saves[i]
        /\ saves'[m].st \in {"none", "sent"}
        /\ saves'[m] # NoSave =>
              saves'[m].key \in saves'[m].todo /\ saves'[m].todo \subseteq touched
    <2>1. CASE saves' = [saves EXCEPT ![m] = NoSave]
       BY <1>1, <2>1, EndFacts DEF NoSave
    <2>2. ASSUME NEW f \in left,
                 saves' = [saves EXCEPT ![m] =
                   [s EXCEPT !.st = "sent", !.todo = left, !.key = f]]
          PROVE  /\ saves' \in [1..MaxMounts -> Saves]
                 /\ \A i \in (1..MaxMounts) \ {m} : saves'[i] = saves[i]
                 /\ saves'[m].st \in {"none", "sent"}
                 /\ saves'[m].key \in saves'[m].todo /\ saves'[m].todo \subseteq touched
      <3>. DEFINE x == [s EXCEPT !.st = "sent", !.todo = left, !.key = f]
      <3>1. left \in SUBSET Fields /\ f \in Fields /\ left \subseteq touched
         BY <1>1
      <3>. HIDE DEF left
      <3>2. x \in Runs /\ x.st = "sent" /\ x.todo = left /\ x.key = f
         BY <1>1, <3>1 DEF Runs
      <3>3. x \in Saves
         BY <3>2 DEF Saves, Runs
      <3>. HIDE DEF x
      <3>4. saves' = [saves EXCEPT ![m] = x]
         BY <2>2 DEF x
      <3>. QED  BY <1>1, <3>1, <3>2, <3>3, <3>4 DEF TypeOK
    <2>. QED  BY <2>1, <2>2 DEF PutAnswered
  <1>3. \/ UNCHANGED <<form, baseline, claimed>>
        \/ /\ form' = s.data /\ baseline' = s.data
           /\ claimed' = {f \in Fields : ~ok /\ s.data[f] # stored[f]}
     BY <1>1 DEF PutAnswered, Submitted
  <1>4. form' \in Options /\ baseline' \in Options /\ claimed' \in SUBSET Fields
     BY <1>1, <1>3 DEF TypeOK
  <1>5. fetch' \in Fetches /\ fresh' \in BOOLEAN
     BY <1>1 DEF Invalidated, Fetches, TypeOK
  <1>6. TypeOK'
     BY <1>1, <1>2, <1>4, <1>5 DEF TypeOK
  <1>7. OnlyTouched'
    <2>1. \A f \in Fields : form'[f] # baseline'[f] => f \in touched'
       BY <1>1, <1>3 DEF IInv, OnlyTouched
    <2>. QED  BY <1>1, <1>2, <2>1 DEF IInv, OnlyTouched
  <1>8. FetchedAgrees' /\ CachedAgrees' /\ BaselineAgrees'
    <2>1. CASE ok
       BY <1>1, <2>1 DEF Invalidated, Asked, NoFetch, FetchedAgrees, CachedAgrees,
                         BaselineAgrees
    <2>2. CASE ~ok
      <3>1. UNCHANGED <<fetch, fresh, cached>>
         BY <1>1, <2>2 DEF Invalidated, TypeOK
      <3>2. Careful
        <4>1. ASSUME NEW f \in Fields, Awaited(f) PROVE Awaited(f)'
           BY <1>1, <1>2, <2>2, <4>1 DEF Awaited
        <4>. QED  BY <1>1, <4>1 DEF Careful
      <3>3. CASE UNCHANGED <<baseline, claimed>>
         BY <3>1, <3>2, <3>3, CarefulCopies
      <3>4. CASE /\ baseline' = s.data
                 /\ claimed' = {f \in Fields : ~ok /\ s.data[f] # stored[f]}
         BY <1>1, <2>2, <3>1, <3>2, <3>4, CarefulCopies DEF BaselineAgrees
      <3>. QED  BY <1>3, <3>3, <3>4
    <2>. QED  BY <2>1, <2>2
  <1>. QED  BY <1>6, <1>7, <1>8 DEF IInv

\* A save that ends on an error awaited no answer.
LEMMA PutFailedStep ==
    ASSUME IInv, NEW m \in 1..MaxMounts, PutFailed(m)
    PROVE  IInv'
  <1>1. /\ TypeOK /\ saves[m].st = "failed" /\ saves' = [saves EXCEPT ![m] = NoSave]
        /\ UNCHANGED <<stored, optionMap, load, applying, page, history>>
     BY DEF PutFailed, IInv
  <1>2. /\ saves' \in [1..MaxMounts -> Saves] /\ saves'[m] = NoSave
        /\ \A i \in (1..MaxMounts) \ {m} : saves'[i] = saves[i]
     BY <1>1, EndFacts
  <1>3. TypeOK'
     BY <1>1, <1>2 DEF TypeOK, page, history
  <1>4. OnlyTouched'
     BY <1>1, <1>2 DEF IInv, OnlyTouched, page, history
  <1>5. Careful
    <2>1. ASSUME NEW f \in Fields, Awaited(f) PROVE Awaited(f)'
       BY <1>1, <1>2, <2>1 DEF Awaited
    <2>. QED  BY <1>1, <2>1 DEF Careful, history
  <1>. QED  BY <1>1, <1>3, <1>4, <1>5, CarefulCopies DEF IInv, page, history

----------------------------------------------------------------------------
\* The option maps

\* A load changes option maps only.
LEMMA LoadStep ==
    ASSUME IInv, NEW n \in Nodes, Sync(n)
    PROVE  IInv'
  <1>1. /\ UNCHANGED <<stored, applying, page, saves, touched, unseen, claimed>>
        /\ TypeOK /\ load[n] \in Loads
     BY DEF Sync, LoadRead, LoadApply, history, IInv, TypeOK
  <1>2. ASSUME LoadRead(n) PROVE TypeOK'
    <2>1. Options \subseteq Loads
       BY DEF Options, Loads
    <2>2. load' \in [Nodes -> Loads]
       BY <1>1, <1>2, <2>1 DEF LoadRead, TypeOK
    <2>3. events' \in 0..MaxEvents
       BY <1>1, <1>2, BoundsAssumption DEF LoadRead, TypeOK
    <2>. QED  BY <1>1, <1>2, <2>2, <2>3 DEF LoadRead, TypeOK, page
  <1>3. ASSUME NEW f \in Fields, LoadApply(n, f) PROVE TypeOK'
    <2>. PICK r : r = load[n]
       OBVIOUS
    <2>. DEFINE x == [g \in DOMAIN r \ {f} |-> r[g]]
    <2>1. PICK S \in SUBSET Fields : r \in [S -> Values]
       BY <1>1 DEF Loads
    <2>2. f \in S /\ r[f] \in Values /\ S \ {f} \in SUBSET Fields /\ x \in [S \ {f} -> Values]
       BY <1>3, <2>1 DEF LoadApply
    <2>3. x \in Loads
       BY <2>2 DEF Loads
    <2>4. load' = [load EXCEPT ![n] = x] /\ optionMap' = [optionMap EXCEPT ![n][f] = r[f]]
       BY <1>1, <1>3 DEF LoadApply, TypeOK
    <2>. HIDE DEF x
    <2>5. load' \in [Nodes -> Loads]
       BY <1>1, <2>3, <2>4 DEF TypeOK
    <2>6. optionMap' \in [Nodes -> Options]
       BY <1>1, <2>2, <2>4 DEF TypeOK, Options
    <2>7. events' = events
       BY <1>3 DEF LoadApply, history
    <2>. QED  BY <1>1, <2>5, <2>6, <2>7 DEF TypeOK, page
  <1>4. TypeOK'
    <2>1. CASE LoadRead(n)
       BY <1>2, <2>1
    <2>2. CASE \E f \in Fields : LoadApply(n, f)
       BY <1>3, <2>2
    <2>. QED  BY <2>1, <2>2 DEF Sync
  <1>5. OnlyTouched'
     BY <1>1 DEF IInv, OnlyTouched, page
  <1>. QED  BY <1>1, <1>4, <1>5, Untouched, CarefulCopies DEF IInv, page

\* So does another administrator's PUT when it reaches one.
LEMMA OtherAppliedStep ==
    ASSUME IInv, NEW w \in applying, NEW n \in Nodes, OtherApplied(w, n)
    PROVE  IInv'
  <1>1. /\ UNCHANGED <<stored, load, page, saves, history>> /\ TypeOK
        /\ w.key \in Fields /\ w.value \in Values
     BY DEF OtherApplied, IInv, TypeOK, Writes
  <1>2. optionMap' \in [Nodes -> Options] /\ applying' \subseteq Writes
     BY <1>1 DEF OtherApplied, TypeOK, Options
  <1>3. TypeOK'
     BY <1>1, <1>2 DEF TypeOK, page, history
  <1>4. OnlyTouched'
     BY <1>1 DEF IInv, OnlyTouched, page, history
  <1>. QED  BY <1>1, <1>3, <1>4, Untouched, CarefulCopies DEF IInv, page, history

----------------------------------------------------------------------------
\* The query, the effect and the other administrator

\* What a fetch reads agrees but for what its option map is behind on; what it
\* fails to read is marked unseen.
LEMMA FetchStep ==
    ASSUME IInv, (\E n \in Nodes : ServeFetch(n)) \/ FetchDone \/ FetchFails \/ Refetch
    PROVE  IInv'
  <1>1. UNCHANGED <<stored, optionMap, load, applying, form, baseline, mount, saves,
                    events, touched, claimed>>
     BY DEF ServeFetch, FetchDone, FetchFails, Refetch, history
  <1>2. OnlyTouched'
     BY <1>1 DEF IInv, OnlyTouched
  <1>3. ASSUME NEW n \in Nodes, ServeFetch(n) PROVE IInv'
    <2>1. /\ fetch'.st = "read" /\ fetch'.opts = optionMap[n] /\ fetch' # NoFetch
          /\ \A f \in Fields : optionMap[n][f] = stored[f] \/ f \in unseen'
       BY <1>3 DEF ServeFetch, NoFetch
    <2>2. fetch' \in Fetches /\ TypeOK
       BY <1>3 DEF ServeFetch, Fetches, IInv, TypeOK
    <2>3. TypeOK'
       BY <1>1, <1>3, <2>2 DEF ServeFetch, TypeOK
    <2>. QED  BY <1>1, <1>2, <2>1, <2>3 DEF IInv, FetchedAgrees, CachedAgrees,
                                            BaselineAgrees, Agrees
  <1>4. CASE FetchDone
    <2>1. /\ fetch.st = "read" /\ fetch \in Fetches /\ TypeOK /\ Agrees(fetch.opts)
          /\ cached' = fetch.opts /\ fetch' = NoFetch /\ fresh' = TRUE /\ unseen' = unseen
       BY <1>4 DEF FetchDone, IInv, TypeOK, FetchedAgrees, history
    <2>2. fetch.opts \in Options
       BY <2>1 DEF Fetches, NoFetch, Asked
    <2>3. TypeOK'
       BY <1>1, <2>1, <2>2 DEF TypeOK, Fetches
    <2>4. Agrees(cached)'
       BY <1>1, <2>1 DEF Agrees, Awaited
    <2>. QED  BY <1>2, <2>1, <2>3, <2>4 DEF IInv, FetchedAgrees, CachedAgrees,
                                            BaselineAgrees, NoFetch
  <1>5. CASE FetchFails
    <2>1. TypeOK'
       BY <1>1, <1>5 DEF FetchFails, IInv, TypeOK, Fetches
    <2>2. Agrees(cached)'
       BY <1>1, <1>5 DEF FetchFails, Agrees
    <2>. QED  BY <1>2, <1>5, <2>1, <2>2 DEF FetchFails, IInv, FetchedAgrees, CachedAgrees,
                                            BaselineAgrees, NoFetch
  <1>6. CASE Refetch
    <2>1. TypeOK'
       BY <1>1, <1>6 DEF Refetch, IInv, TypeOK, Fetches, history
    <2>. QED  BY <1>2, <1>6, <2>1 DEF Refetch, IInv, FetchedAgrees, CachedAgrees,
                                      BaselineAgrees, NoFetch, Asked
  <1>. QED  BY <1>3, <1>4, <1>5, <1>6

\* After the effect the baseline is the cached options.
LEMMA EffectStep ==
    ASSUME IInv, Effect
    PROVE  IInv'
  <1>1. baseline' = cached /\ (form' = cached \/ UNCHANGED <<form, baseline>>)
     BY DEF Effect, Differs
  <1>2. TypeOK'
     BY <1>1 DEF Effect, IInv, TypeOK
  <1>3. OnlyTouched'
     BY <1>1 DEF Effect, IInv, OnlyTouched
  <1>4. FetchedAgrees' /\ CachedAgrees'
     BY Untouched, CarefulCopies DEF Effect
  <1>5. BaselineAgrees'
     BY <1>1, <1>4 DEF Effect, BaselineAgrees, CachedAgrees, Agrees, Awaited
  <1>. QED  BY <1>2, <1>3, <1>4, <1>5 DEF IInv

\* Another administrator's write is marked unseen.
LEMMA OtherWritesStep ==
    ASSUME IInv, NEW f \in Fields, NEW v \in Values, OtherWrites(f, v)
    PROVE  IInv'
  <1>1. TypeOK'
    <2>1. stored' \in Options /\ unseen' \subseteq Fields /\ events' \in 0..MaxEvents
       BY BoundsAssumption DEF OtherWrites, IInv, TypeOK, Options
    <2>2. applying' \subseteq Writes
       BY DEF OtherWrites, IInv, TypeOK, Writes
    <2>. QED  BY <2>1, <2>2 DEF OtherWrites, IInv, TypeOK, page
  <1>2. OnlyTouched'
     BY DEF OtherWrites, IInv, OnlyTouched, page
  <1>3. Careful
    <2>1. \A g \in Fields : stored'[g] = stored[g] \/ g \in unseen'
       BY DEF OtherWrites, IInv, TypeOK, Options
    <2>. QED  BY <2>1 DEF OtherWrites, Careful, Awaited
  <1>. QED  BY <1>1, <1>2, <1>3, CarefulCopies DEF OtherWrites, IInv, page

----------------------------------------------------------------------------
\* The invariant

\* It holds when the page opens.
LEMMA InitIInv == Init => IInv
  <1>. SUFFICES ASSUME Init PROVE IInv
     OBVIOUS
  <1>1. TypeOK
    <2>1. NoSave \in Saves /\ NoFetch \in Fetches
       BY DEF Saves, Fetches
    <2>2. saves \in [1..MaxMounts -> Saves] /\ fetch \in Fetches
       BY <2>1 DEF Init
    <2>3. /\ mount \in 1..MaxMounts /\ events \in 0..MaxEvents
       BY BoundsAssumption DEF Init
    <2>4. NoLoad \in [{} -> Values]
       BY DEF NoLoad
    <2>5. NoLoad \in Loads
       BY <2>4 DEF Loads
    <2>6. load \in [Nodes -> Loads] /\ optionMap \in [Nodes -> Options]
       BY <2>5 DEF Init
    <2>. QED  BY <2>2, <2>3, <2>6 DEF Init, TypeOK
  <1>2. OnlyTouched
     BY DEF Init, OnlyTouched
  <1>3. FetchedAgrees /\ CachedAgrees /\ BaselineAgrees
     BY DEF Init, FetchedAgrees, CachedAgrees, BaselineAgrees, Agrees, NoFetch
  <1>. QED  BY <1>1, <1>2, <1>3 DEF IInv

\* Every step keeps it.
LEMMA NextIInv == IInv /\ [Next]_vars => IInv'
  <1>. SUFFICES ASSUME IInv, [Next]_vars PROVE IInv'
     OBVIOUS
  <1>1. CASE UNCHANGED vars
    <2>1. TypeOK' /\ OnlyTouched'
       BY <1>1 DEF vars, page, history, IInv, TypeOK, OnlyTouched
    <2>. QED  BY <1>1, <2>1, Untouched, CarefulCopies DEF vars, page, history, IInv
  <1>2. CASE Next
     BY <1>2, EditStep, ResetStep, RemountStep, SubmitStep, ServePutStep, ApplyPutStep,
        PutAnsweredStep, PutFailedStep, LoadStep, FetchStep, EffectStep, OtherWritesStep,
        OtherAppliedStep DEF Next, User, Serve
  <1>. QED  BY <1>1, <1>2

\* Which copy of the options agrees with the database at every moment.
THEOREM InductiveInvariant == Spec => []IInv
  BY InitIInv, NextIInv, PTL DEF Spec

\* No save, fetch or effect leaves a value outside its type.
THEOREM TypeCorrect == Spec => []TypeOK
  <1>1. IInv => TypeOK
     BY DEF IInv
  <1>. QED  BY <1>1, InductiveInvariant, PTL

\* A field shown as saved holds what the database holds, or is one of the
\* exceptions the invariant names, for any options and processes and any
\* interleaving of saves, loads, fetches and remounts (useSettingsForm).
THEOREM CleanIsSaved == Spec => []CleanMeansSaved
  <1>1. IInv => CleanMeansSaved
    <2>. SUFFICES ASSUME IInv, AtRest, NEW f \in Fields, form[f] = baseline[f]
                  PROVE  form[f] = stored[f] \/ f \in unseen \cup claimed
       BY DEF CleanMeansSaved
    <2>1. ~Awaited(f)
       BY DEF AtRest, Awaited, NoSave
    <2>. QED  BY <2>1 DEF IInv, AtRest, BaselineAgrees
  <1>. QED  BY <1>1, InductiveInvariant, PTL

\* A save writes only options this administrator has edited, whatever another
\* one writes meanwhile (collectDirtyValues, handleSubmit).
THEOREM OthersAreKept == Spec => OthersKept
  <1>1. IInv /\ [Next]_vars =>
           [\A f \in Fields :
              stored'[f] # stored[f] => events' # events \/ f \in touched]_vars
    <2>. SUFFICES ASSUME IInv, Next, NEW f \in Fields, stored'[f] # stored[f]
                  PROVE  events' # events \/ f \in touched
       OBVIOUS
    <2>1. ASSUME NEW m \in 1..MaxMounts, ServePut(m) PROVE f \in touched
      <3>1. saves[m].st = "sent" /\ TypeOK
         BY <2>1 DEF ServePut, IInv
      <3>2. saves[m] # NoSave /\ stored \in Options
         BY <3>1, RunFacts DEF TypeOK
      <3>3. saves[m].key \in touched
         BY <3>2 DEF IInv, OnlyTouched
      <3>4. f = saves[m].key
         BY <2>1, <3>2 DEF ServePut, Options
      <3>. QED  BY <3>3, <3>4
    <2>2. ASSUME NEW g \in Fields, NEW v \in Values, OtherWrites(g, v)
          PROVE  events' # events
       BY <2>2 DEF OtherWrites, IInv, TypeOK
    <2>3. \/ \E m \in 1..MaxMounts : ServePut(m)
          \/ \E g \in Fields, v \in Values : OtherWrites(g, v)
       BY DEF Next, User, Edit, Reset, Remount, Submit, Serve, ApplyPut, PutAnswered, PutFailed,
              ServeFetch, Sync, LoadRead, LoadApply, FetchDone, FetchFails, Refetch, Effect,
              OtherApplied
    <2>. QED  BY <2>1, <2>2, <2>3
  <1>. QED  BY <1>1, InductiveInvariant, PTL DEF Spec, OthersKept
=============================================================================
