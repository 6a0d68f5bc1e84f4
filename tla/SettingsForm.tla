---------------------------- MODULE SettingsForm ----------------------------
(***************************************************************************)
(* A section of the system settings page built on useSettingsForm          *)
(* (web/src/features/system-settings): the form the administrator edits,   *)
(* the save that writes the changed options one PUT after another, the     *)
(* query that fetches the options again after each write, and the effect   *)
(* that resets the form when the fetched options differ from its baseline. *)
(* Another administrator may write the same options.                       *)
(*                                                                         *)
(* The server is several processes over one database.  Each answers the    *)
(* query from an option map of its own (common.OptionMap), which a PUT     *)
(* changes on the process it went to, after the database, and which every  *)
(* process loads again from the database now and then (SyncOptions).       *)
(*                                                                         *)
(* React Hook Form keeps default values of its own, defaultValuesRef the   *)
(* same ones and baselineRef their flattened form; every path sets the     *)
(* three together, so they are one variable, baseline, and a field is      *)
(* dirty when the form's value differs from it.                            *)
(***************************************************************************)
EXTENDS Naturals, FiniteSets

CONSTANTS Nodes,       \* the server's processes
          Fields,      \* the options of the section
          Values,      \* what an option may hold
          MaxMounts,   \* bound: times the section is mounted
          MaxEvents    \* bound: edits, another administrator's writes and loads
                       \* of the option maps, together

ASSUME BoundsAssumption == MaxMounts \in Nat \ {0} /\ MaxEvents \in Nat

VARIABLES stored,    \* the options table of the database
          optionMap, \* each process's option map
          load,      \* each process's load of the table: the rows still to copy
          applying,  \* another administrator's writes not yet in an option map
          cached,    \* the options in the query cache
          fetch,     \* the query's fetch: none, asked, or the options read
          fresh,     \* a new defaultValues object the effect has not seen
          form,      \* the values on screen
          baseline,  \* the values the form takes for saved
          mount,     \* which mount of the section is on screen
          saves,     \* the save each mount has running
          events,    \* edits, another administrator's writes and loads so far
          touched,   \* history: fields this administrator has edited
          unseen,    \* history: fields that may differ from what the form knows
          claimed    \* history: fields taken for saved though the PUT was refused

page == <<cached, fetch, fresh, form, baseline, mount>>
history == <<events, touched, unseen, claimed>>
vars == <<stored, optionMap, load, applying, page, saves, history>>

Options == [Fields -> Values]
NoFetch == [st |-> "none"]
Asked == [st |-> "asked"]
Fetches == {NoFetch, Asked} \cup [st : {"read"}, opts : Options]

(* A save: the submitted values, the changed fields not yet answered, and  *)
(* the state of the PUT of one of them: sent, stored in the database,      *)
(* answered, or failed.                                                    *)
NoSave == [st |-> "none"]
Saves == {NoSave} \cup
  [st : {"sent", "stored", "ok", "refused", "failed"}, data : Options,
   todo : SUBSET Fields, key : Fields]

(* loadOptionsFromDatabase: the rows AllOption read and the loop has not   *)
(* yet copied.                                                             *)
Loads == UNION {[S -> Values] : S \in SUBSET Fields}
NoLoad == [f \in {} |-> CHOOSE v \in Values : TRUE]

Init ==
  /\ stored \in Options
  /\ optionMap = [n \in Nodes |-> stored]
  /\ load = [n \in Nodes |-> NoLoad]
  /\ applying = {}
  /\ cached = stored
  /\ fetch = NoFetch
  /\ fresh = FALSE
  /\ form = stored
  /\ baseline = stored
  /\ mount = 1
  /\ saves = [m \in 1..MaxMounts |-> NoSave]
  /\ events = 0
  /\ touched = {}
  /\ unseen = {}
  /\ claimed = {}

isSubmitting == saves[mount] # NoSave
isDirty == form # baseline

(***************************************************************************)
(* The administrator.                                                      *)
(***************************************************************************)
\* The inputs stay enabled while a save is running.
Edit(f, v) ==
  /\ events < MaxEvents
  /\ v # form[f]
  /\ form' = [form EXCEPT ![f] = v]
  /\ events' = events + 1
  /\ touched' = touched \cup {f}
  /\ UNCHANGED <<stored, optionMap, load, applying, cached, fetch, fresh,
                 baseline, mount, saves, unseen, claimed>>

\* Mutant: saves the whole form once anything in it has changed.
ChangedAll == IF isDirty THEN Fields ELSE {}

\* collectDirtyValues and the comparison with baselineRef.
Changed == {f \in Fields : form[f] # baseline[f]}

\* handleSubmit up to the first PUT; with nothing changed only a toast.
Submit(f) ==
  /\ ~isSubmitting
  /\ f \in Changed
  /\ saves' = [saves EXCEPT ![mount] =
       [st |-> "sent", data |-> form, todo |-> Changed, key |-> f]]
  /\ UNCHANGED <<stored, optionMap, load, applying, page, history>>

\* handleReset; the button is off while saving or clean.
Reset ==
  /\ ~isSubmitting
  /\ isDirty
  /\ form' = baseline
  /\ UNCHANGED <<stored, optionMap, load, applying, cached, fetch, fresh,
                 baseline, mount, saves, history>>

\* Leave the section and come back: a new form over the cached options. A
\* save of the old mount goes on without a form.
Remount ==
  /\ mount < MaxMounts
  /\ mount' = mount + 1
  /\ form' = cached
  /\ baseline' = cached
  /\ fresh' = FALSE
  /\ claimed' = {}
  /\ UNCHANGED <<stored, optionMap, load, applying, cached, fetch, saves,
                 events, touched, unseen>>

(***************************************************************************)
(* The save: one PUT at a time.                                            *)
(***************************************************************************)
\* UpdateOption up to the write of the row, or a refusal (success = false); a
\* PUT may also fail before the server.
ServePut(m) ==
  /\ saves[m].st = "sent"
  /\ LET s == saves[m]
         Take(st) == saves' = [saves EXCEPT ![m].st = st]
     IN \/ /\ stored' = [stored EXCEPT ![s.key] = s.data[s.key]]
           /\ Take("stored")
        \/ Take("refused") /\ UNCHANGED stored
        \/ Take("failed") /\ UNCHANGED stored
  /\ UNCHANGED <<optionMap, load, applying, page, history>>

\* updateOptionMap on n, the process that took the PUT (which one it was shows
\* only now), and the answer: success, an error of the setting behind the
\* option (success = false although the option is written), or an answer that
\* is lost.
ApplyPut(m, n) ==
  LET s == saves[m]
      Take(st) == saves' = [saves EXCEPT ![m].st = st]
  IN /\ s.st = "stored"
     /\ optionMap' = [optionMap EXCEPT ![n][s.key] = s.data[s.key]]
     /\ \/ Take("ok") /\ UNCHANGED unseen
        \/ /\ Take("refused") \/ Take("failed")
           /\ unseen' = unseen \cup {s.key}
     /\ UNCHANGED <<stored, load, applying, page, events, touched, claimed>>

\* Mutant: an accepted write leaves the cached options alone.
InvalidatedNever(ok) == fetch

\* useUpdateOption's onSuccess: an accepted write invalidates the options
\* query, which cancels a fetch under way and starts another; the page
\* renders (isFetching) with a new defaultValues object.
Invalidated(ok) == IF ok THEN Asked ELSE fetch

\* What handleSubmit keeps as saved values when every PUT has been answered.
Submitted(s) == s.data

\* mutateAsync resolves, whether the server accepted or refused: the next
\* PUT is sent, or the submitted values become form and baseline.
PutAnswered(m) ==
  LET s == saves[m]
      left == s.todo \ {s.key}
      last == left = {}
      ok == s.st = "ok"
      onScreen == m = mount
  IN /\ s.st \in {"ok", "refused"}
     /\ fetch' = Invalidated(ok)
     /\ fresh' = (fresh \/ ok)
     /\ \/ /\ ~last
           /\ \E f \in left : saves' = [saves EXCEPT ![m] =
                [s EXCEPT !.st = "sent", !.todo = left, !.key = f]]
           /\ UNCHANGED <<form, baseline, claimed>>
        \/ /\ last
           /\ saves' = [saves EXCEPT ![m] = NoSave]
           /\ form' = IF onScreen THEN Submitted(s) ELSE form
           /\ baseline' = IF onScreen THEN Submitted(s) ELSE baseline
           /\ claimed' = IF onScreen
                THEN {f \in Fields : ~ok /\ s.data[f] # stored[f]} ELSE claimed
     /\ UNCHANGED <<stored, optionMap, load, applying, cached, mount, events,
                    touched, unseen>>

\* mutateAsync rejects: handleSubmit ends where it is.
PutFailed(m) ==
  /\ saves[m].st = "failed"
  /\ saves' = [saves EXCEPT ![m] = NoSave]
  /\ UNCHANGED <<stored, optionMap, load, applying, page, history>>

(***************************************************************************)
(* The option maps.                                                        *)
(***************************************************************************)
\* SyncOptions' turn on process n: AllOption reads the table.
LoadRead(n) ==
  /\ DOMAIN load[n] = {}
  /\ events < MaxEvents
  /\ load' = [load EXCEPT ![n] = stored]
  /\ events' = events + 1
  /\ UNCHANGED <<stored, optionMap, applying, page, saves, touched, unseen,
                 claimed>>

\* The loop over the rows: one option at a time, as read, whatever was written
\* to the table or to the map since.
LoadApply(n, f) ==
  /\ f \in DOMAIN load[n]
  /\ optionMap' = [optionMap EXCEPT ![n][f] = load[n][f]]
  /\ load' = [load EXCEPT ![n] = [g \in DOMAIN @ \ {f} |-> @[g]]]
  /\ UNCHANGED <<stored, applying, page, saves, history>>

\* Another administrator's PUT, as ServePut and ApplyPut.
OtherWrites(f, v) ==
  /\ events < MaxEvents
  /\ stored[f] # v
  /\ stored' = [stored EXCEPT ![f] = v]
  /\ applying' = applying \cup {[key |-> f, value |-> v, id |-> events]}
  /\ events' = events + 1
  /\ unseen' = unseen \cup {f}
  /\ UNCHANGED <<optionMap, load, page, saves, touched, claimed>>

OtherApplied(w, n) ==
  /\ applying' = applying \ {w}
  /\ optionMap' = [optionMap EXCEPT ![n][w.key] = w.value]
  /\ UNCHANGED <<stored, load, page, saves, history>>

(***************************************************************************)
(* The options query and the hook's effect.                                *)
(***************************************************************************)
\* GetOptions on any of the processes: its option map, current or not.
ServeFetch(n) ==
  /\ fetch = Asked
  /\ fetch' = [st |-> "read", opts |-> optionMap[n]]
  /\ unseen' = {f \in Fields : optionMap[n][f] # stored[f]}
  /\ UNCHANGED <<stored, optionMap, load, applying, cached, fresh, form,
                 baseline, mount, saves, events, touched, claimed>>

FetchDone ==
  /\ fetch.st = "read"
  /\ cached' = fetch.opts
  /\ fetch' = NoFetch
  /\ fresh' = TRUE
  /\ UNCHANGED <<stored, optionMap, load, applying, form, baseline, mount,
                 saves, history>>

\* Every retry of the fetch failed: the page keeps the options it has.
FetchFails ==
  /\ fetch = Asked
  /\ fetch' = NoFetch
  /\ fresh' = TRUE
  /\ unseen' = unseen \cup {f \in Fields : stored[f] # cached[f]}
  /\ UNCHANGED <<stored, optionMap, load, applying, cached, form, baseline,
                 mount, saves, events, touched, claimed>>

\* The options are fetched again: they were older than the stale time when
\* the page mounted, or the connection came back.
Refetch ==
  /\ fetch = NoFetch
  /\ fetch' = Asked
  /\ fresh' = TRUE
  /\ UNCHANGED <<stored, optionMap, load, applying, cached, form, baseline,
                 mount, saves, history>>

\* The effect: defaults that differ from the serialized baseline reset both.
Differs == cached # baseline

Effect ==
  /\ fresh
  /\ fresh' = FALSE
  /\ \/ /\ Differs
        /\ form' = cached
        /\ baseline' = cached
     \/ ~Differs /\ UNCHANGED <<form, baseline>>
  /\ claimed' = {}
  /\ UNCHANGED <<stored, optionMap, load, applying, cached, fetch, mount,
                 saves, events, touched, unseen>>

User == (\E f \in Fields, v \in Values : Edit(f, v)) \/ Reset \/ Remount

Serve(m) == ServePut(m) \/ \E n \in Nodes : ApplyPut(m, n)

Sync(n) == LoadRead(n) \/ \E f \in Fields : LoadApply(n, f)

Next ==
  \/ User
  \/ \E f \in Fields : Submit(f)
  \/ \E m \in 1..MaxMounts : Serve(m) \/ PutAnswered(m) \/ PutFailed(m)
  \/ \E n \in Nodes : ServeFetch(n) \/ Sync(n)
  \/ FetchDone \/ FetchFails \/ Refetch \/ Effect
  \/ \E f \in Fields, v \in Values : OtherWrites(f, v)
  \/ \E w \in applying, n \in Nodes : OtherApplied(w, n)

Spec == Init /\ [][Next]_vars

(***************************************************************************)
(* Properties.                                                             *)
(***************************************************************************)
Writes == [key : Fields, value : Values, id : 0..MaxEvents]

\* The types of the variables.
TypeOK ==
  /\ stored \in Options /\ cached \in Options
  /\ optionMap \in [Nodes -> Options]
  /\ load \in [Nodes -> Loads]
  /\ applying \subseteq Writes
  /\ fetch \in Fetches
  /\ fresh \in BOOLEAN
  /\ form \in Options /\ baseline \in Options
  /\ mount \in 1..MaxMounts
  /\ saves \in [1..MaxMounts -> Saves]
  /\ events \in 0..MaxEvents
  /\ touched \subseteq Fields /\ unseen \subseteq Fields /\ claimed \subseteq Fields

\* Once nothing is running, a field that the form shows as saved (and that
\* FormNavigationGuard therefore lets the administrator leave) holds what the
\* database holds, with these exceptions.  The page could not learn of the
\* change: another administrator's write, a write whose answer was lost or was
\* an error, a failed fetch, a fetch answered from an option map that was behind
\* the database for this option (all in unseen, until the next fetch).  Or the
\* last PUT of a save was refused (claimed): handleSubmit takes the values for
\* saved and fetches nothing.
AtRest == fetch = NoFetch /\ ~fresh /\ \A m \in 1..MaxMounts : saves[m] = NoSave
CleanMeansSaved ==
  AtRest => \A f \in Fields :
    form[f] = baseline[f] => form[f] = stored[f] \/ f \in unseen \cup claimed

\* A save writes only options this administrator has edited: whatever resets
\* happen in between, it never puts an old value back over another
\* administrator's change of an option it did not touch.
OthersKept ==
  [][\A f \in Fields :
       stored'[f] # stored[f] => events' # events \/ f \in touched]_vars
=============================================================================
