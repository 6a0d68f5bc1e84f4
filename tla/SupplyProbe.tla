---------------------------- MODULE SupplyProbe ----------------------------
(***************************************************************************)
(* The probes that decide whether a provider's channel is routed           *)
(* (model/hub_supply_probe.go, controller/hub_supply_probe.go).            *)
(*                                                                         *)
(* One supply group with its channel.  Every configured model has a probe  *)
(* target for every configuration version of the group; a change of the    *)
(* channel's connection starts a new version, whose targets have to pass a *)
(* probe before the channel is routed again.  Runners are executions of    *)
(* the scheduled hub_supply_probe task, Testers are requests for an        *)
(* immediate test of one model.  Both claim targets with a lease token,    *)
(* probe them and record the results, while administrators disable and     *)
(* enable the channel, providers are suspended, connections, endpoints and *)
(* schedules change, leases expire and processes die.                      *)
(*                                                                         *)
(* Each action is one database statement or transaction; an edit and a     *)
(* change of the channel's status read the channel in one step and write   *)
(* what follows from it in another, without a lock.  A time is             *)
(* "never" (zero), "now" (reached) or "later"; Elapse turns the one into   *)
(* the other.  Tokens are random in the code: here a fresh one is one that *)
(* no row and no process holds.                                            *)
(***************************************************************************)
EXTENDS Naturals, FiniteSets

CONSTANTS
    Models,          \* the models the channel is configured for
    Runners,         \* executions of the scheduled task
    Testers,         \* requests for an immediate test
    Threshold,       \* failures after which a target is not routed (2)
    Limit,           \* failures after which a target is suspended (100)
    MaxEdits,        \* bound: edits of the channel
    Budgets          \* bounds: edits of the channel (at most MaxEdits),
                     \* administrative operations (admin), and crashes,
                     \* aborts and failing requests (faults)

ASSUME ConstantsAssumption ==
    /\ IsFiniteSet(Models) /\ IsFiniteSet(Runners) /\ IsFiniteSet(Testers)
    /\ Runners \cap Testers = {}
    /\ Threshold \in Nat \ {0} /\ Limit \in Nat /\ Threshold <= Limit
    /\ MaxEdits \in Nat
    /\ Budgets \subseteq [edits : 0 .. MaxEdits, admin : Nat, faults : Nat]

VARIABLES
    version,  \* hub_supply_groups.config_version
    autoOff,  \* hub_supply_groups.auto_probe_disabled_models
    rows,     \* hub_supply_group_probe_targets, by version and model
    conn,     \* the channel's connection (base URL, key, type), as the
              \* number of the write that last changed it
    chan,     \* channels.status
    editing,  \* the status an edit of the channel read ("none": no edit)
    saves,    \* the changes of status that read the channel, by who makes them
    byHand,   \* history: the administrator's last word was to disable
    active,   \* whether the provider is active
    queued,   \* whether a hub_supply_probe task was enqueued
    owed,     \* whether a handler still has to reconcile the group
    proc,     \* the executions of runners and testers
    inflight, \* whether a request, or a check of the balance, found the
              \* channel enabled and is running
    overtaken,\* history: probes whose target was reset since they began
    left      \* what is left of the budget

staff == <<editing, saves, byHand>>
vars == <<version, autoOff, rows, conn, chan, active, queued, owed, proc,
          inflight, overtaken, left, editing, saves, byHand>>

Procs == Runners \cup Testers
Versions == 1 .. MaxEdits + 1
Targets == Versions \X Models
Tokens == 1 .. Cardinality(Procs) + Cardinality(Targets) + 1

Statuses == {"pending", "testing", "waiting", "available", "error",
             "suspended"}
Row == [st : Statuses \cup {"absent"}, due : {"never", "now", "later"},
        token : Tokens \cup {0}, fails : 0 .. Limit, proven : Nat,
        manual : BOOLEAN]
\* proven is the connection of the last success (last_success_at), 0 if none.
Absent == [st |-> "absent", due |-> "never", token |-> 0, fails |-> 0,
           proven |-> 0, manual |-> FALSE]
NewRow(st, due) == [Absent EXCEPT !.st = st, !.due = due]

\* An execution: the version and the schedule it read, its token, and the
\* state of its jobs with the connection each one is probing.
Proc == [pc : {"idle", "sync", "list", "reset", "claim", "probe"},
         ver : Versions, off : SUBSET Models, token : Tokens \cup {0},
         job : [Models -> {"none", "queued", "running"}],
         forced : SUBSET Models, on : [Models -> Nat],
         affected : BOOLEAN]
Idle == [pc |-> "idle", ver |-> 1, off |-> {}, token |-> 0,
         job |-> [m \in Models |-> "none"], forced |-> {},
         on |-> [m \in Models |-> 0], affected |-> FALSE]

\* A change of status on its way: the status to write, and the connection of
\* the row that will be saved with it.
ChannelStatuses == {"enabled", "auto", "manual"}
Savers == {"admin", "auto"}
Save == [to : ChannelStatuses \cup {"none"}, conn : Nat]
NoSave == [to |-> "none", conn |-> 0]

\* A group just created: its targets wait for their first probe and its
\* channel is not routed.
Init ==
    /\ version = 1 /\ autoOff = {} /\ conn = 1 /\ chan = "auto"
    /\ rows = [t \in Targets |->
                 IF t[1] = 1 THEN NewRow("pending", "now") ELSE Absent]
    /\ active = TRUE /\ queued = TRUE /\ owed = FALSE
    /\ proc = [p \in Procs |-> Idle]
    /\ inflight = FALSE /\ overtaken = {}
    /\ editing = "none" /\ saves = [w \in Savers |-> NoSave] /\ byHand = FALSE
    /\ left \in Budgets

-----------------------------------------------------------------------------
(* Which models are routed, and the channel status that follows.           *)

\* hubSupplyProbeTargetRoutable: a target that once succeeded is routed until
\* its failures reach the threshold; hubSupplyAutoProbeDisabledModelKinds: one
\* without a schedule is routed by its success alone.
Routable(r, off) ==
    /\ r.proven > 0
    /\ \/ off
       \/ r.st = "available"
       \/ r.st \in {"pending", "testing", "error"} /\ r.fails < Threshold

\* Mutant of RouteStatus: the update does not exclude a manual disable.
RouteStatusOverManual(rs, v, off) ==
    IF active /\ \E m \in Models : Routable(rs[<<v, m>>], m \in off)
    THEN "enabled" ELSE "auto"

\* reconcileHubSupplyGroupRouteStateTx with the target rows rs of version v.
RouteStatus(rs, v, off) ==
    IF chan = "manual" THEN "manual"
    ELSE IF active /\ \E m \in Models : Routable(rs[<<v, m>>], m \in off)
    THEN "enabled" ELSE "auto"

Reconcile == chan' = RouteStatus(rows', version', autoOff')

\* Mutant of Rescheduled: a suspended target gets a time as any other.
RescheduledSuspended(r, off, at) ==
    IF r.st = "absent" THEN r
    ELSE IF off /\ ~r.manual THEN [r EXCEPT !.due = "never"]
    ELSE IF r.st \in {"available", "error"} THEN [r EXCEPT !.due = at]
    ELSE IF r.due = "never" THEN [r EXCEPT !.due = "now"]
    ELSE r

\* rescheduleHubSupplyGroupProbeTargetsTx: a probed target is due an interval
\* after its last probe, which is at, now or later; one without a time is due
\* at once; a suspended one, or one without a schedule, never.
Rescheduled(r, off, at) ==
    IF r.st = "absent" THEN r
    ELSE IF \/ off /\ ~r.manual
            \/ r.st = "suspended" \/ r.fails >= Limit
    THEN [r EXCEPT !.due = "never"]
    ELSE IF r.st \in {"available", "error"} THEN [r EXCEPT !.due = at]
    ELSE IF r.due = "never" THEN [r EXCEPT !.due = "now"]
    ELSE r

\* Mutant of Created: a new version takes over the evidence of the last one.
CreatedProven(rs, t) ==
    [NewRow("pending", "now") EXCEPT !.proven =
        IF t[1] = 1 THEN 0 ELSE rs[<<t[1] - 1, t[2]>>].proven]

\* A target that is missing: pending, without evidence, due at once.
Created(rs, t) == NewRow("pending", "now")

\* syncHubSupplyGroupProbeTargetsTx: version v gets its missing targets, and
\* all of its targets are rescheduled.
Synced(rs, v, off, at) ==
    [t \in Targets |->
       IF t[1] # v THEN rs[t]
       ELSE Rescheduled(IF rs[t].st = "absent" THEN Created(rs, t) ELSE rs[t],
                        t[2] \in off, at[t[2]])]

Times == [Models -> {"now", "later"}]

\* The probes that run on targets ts are overtaken.
Overtake(ts) ==
    overtaken' = overtaken \cup
        {o \in Procs \X ts : /\ proc[o[1]].ver = o[2][1]
                             /\ proc[o[1]].job[o[2][2]] = "running"}

\* Probes of p that are over are no longer overtaken.
Forget(p) == overtaken' = {o \in overtaken : o[1] # p}

-----------------------------------------------------------------------------
(* The scheduled task.                                                     *)

\* A target of the group's version that may be probed by the schedule.
Eligible(t) ==
    /\ t[1] = version /\ rows[t].st \notin {"absent", "suspended"}
    /\ active
    /\ chan = "manual" => rows[t].manual

Due(t) == Eligible(t) /\ rows[t].due = "now"

Become(p, s) == proc' = [proc EXCEPT ![p] = s]

\* Mutant of Expired: leases left behind by a dead process are kept.
ExpiredNever == {}

\* RequeueExpiredHubSupplyProbeTargets: targets whose lease ran out.
Expired == {t \in Targets : rows[t].st = "testing" /\ rows[t].due # "later"}

\* Runner p starts because a task was enqueued or a target is due, returns the
\* targets with expired leases, and reads the group.
Begin(p) ==
    /\ p \in Runners /\ proc[p].pc = "idle"
    /\ queued \/ \E t \in Targets : Due(t)
    /\ queued' = FALSE
    /\ rows' = [t \in Targets |->
          IF t \in Expired
          THEN [rows[t] EXCEPT !.st = "pending", !.due = "now", !.token = 0]
          ELSE rows[t]]
    /\ Overtake(Expired)
    /\ Become(p, [Idle EXCEPT !.pc = "sync", !.ver = version, !.off = autoOff])
    /\ UNCHANGED <<version, autoOff, conn, chan, active, owed, inflight,
                   left, staff>>

\* EnsureHubSupplyGroupProbeTargets: writes back the version it read.
Sync(p) ==
    /\ proc[p].pc = "sync"
    /\ version' = proc[p].ver
    /\ \E at \in Times : rows' = Synced(rows, proc[p].ver, proc[p].off, at)
    /\ Become(p, [proc[p] EXCEPT !.pc = "list"])
    /\ UNCHANGED <<autoOff, conn, active, queued, owed, inflight, overtaken,
                   left, staff>>
    /\ Reconcile

\* GetDueHubSupplyProbeJobs.
List(p) ==
    LET due == {m \in Models : Due(<<version, m>>)}
    IN  /\ proc[p].pc = "list"
        /\ Become(p, IF due = {} THEN Idle
             ELSE [Idle EXCEPT !.pc = "claim", !.ver = version,
                     !.job = [m \in Models |->
                                IF m \in due THEN "queued" ELSE "none"],
                     !.forced = {m \in due : rows[<<version, m>>].manual}])
        /\ UNCHANGED <<version, autoOff, rows, conn, chan, active, queued,
                       owed, inflight, overtaken, left, staff>>

\* A token that nothing holds.
FreshToken ==
    CHOOSE k \in Tokens : /\ \A t \in Targets : rows[t].token # k
                          /\ \A p \in Procs : proc[p].token # k

\* ClaimHubSupplyProbeTargetsTesting: the jobs' targets that are still due
\* and not being tested.
Claim(p) ==
    /\ proc[p].pc = "claim"
    /\ rows' = [t \in Targets |->
          IF /\ t[1] = proc[p].ver /\ proc[p].job[t[2]] = "queued"
             /\ rows[t].st \notin {"absent", "suspended", "testing"}
             /\ rows[t].due = "now"
          THEN [rows[t] EXCEPT !.st = "testing", !.due = "later",
                               !.token = FreshToken]
          ELSE rows[t]]
    /\ Become(p, [proc[p] EXCEPT !.pc = "probe", !.token = FreshToken])
    /\ UNCHANGED <<version, autoOff, conn, chan, active, queued, owed,
                   inflight, overtaken, left, staff>>

-----------------------------------------------------------------------------
(* An immediate test of one model.                                         *)

TestStart(p, m) ==
    /\ p \in Testers /\ proc[p].pc = "idle" /\ left.admin > 0
    /\ active /\ rows[<<version, m>>].st # "absent"
    /\ left' = [left EXCEPT !.admin = @ - 1]
    /\ Become(p, [Idle EXCEPT !.pc = "reset", !.ver = version,
                    !.job = [Idle.job EXCEPT ![m] = "queued"],
                    !.forced = {m}])
    /\ UNCHANGED <<version, autoOff, rows, conn, chan, active, queued, owed,
                   inflight, overtaken, staff>>

\* Targets ts as a manual probe finds them.
ResetRows(ts) ==
    [t \in Targets |->
       IF t \in ts /\ rows[t].st # "absent"
       THEN [rows[t] EXCEPT !.st = "pending", !.due = "now", !.fails = 0,
                            !.manual = TRUE, !.token = 0]
       ELSE rows[t]]

\* ResetHubSupplyProbeTargetsForManualProbe.
Reset(p) ==
    LET ts == {t \in Targets : t[1] = proc[p].ver /\ t[2] \in proc[p].forced}
    IN  /\ proc[p].pc = "reset"
        /\ rows' = ResetRows(ts)
        /\ Overtake(ts)
        /\ Become(p, [proc[p] EXCEPT !.pc = "claim"])
        /\ UNCHANGED <<version, autoOff, conn, chan, active, queued, owed,
                       inflight, left, staff>>

-----------------------------------------------------------------------------
(* Probing, and what becomes of the results.                               *)

\* Mutant of Holds: any lease on the target is as good as this one.
HoldsAny(p, t) == rows[t].st = "testing" /\ proc[p].token # 0

\* The target is being tested under the token of p.
Holds(p, t) == rows[t].st = "testing" /\ rows[t].token = proc[p].token

\* CheckHubSupplyProbeJobExecutable.
Executable(p, m) ==
    /\ Holds(p, <<proc[p].ver, m>>) /\ proc[p].ver = version
    /\ active /\ (chan = "manual" => m \in proc[p].forced)

\* The job is executable, and its request is sent over the connection.
Execute(p, m) ==
    /\ proc[p].pc = "probe" /\ proc[p].job[m] = "queued" /\ Executable(p, m)
    /\ Become(p, [proc[p] EXCEPT !.job[m] = "running", !.on[m] = conn])
    /\ UNCHANGED <<version, autoOff, rows, conn, chan, active, queued, owed,
                   inflight, overtaken, left, staff>>

\* ReleaseSkippedHubSupplyProbeTargetWithLease.
Released(r) ==
    [r EXCEPT !.st = IF r.fails >= Limit THEN "suspended"
                     ELSE IF r.fails > 0 THEN "error"
                     ELSE IF r.proven > 0 THEN "available" ELSE "pending",
              !.due = IF r.fails >= Limit THEN "never" ELSE "now",
              !.manual = FALSE, !.token = 0]

\* The job is not executable: its lease is given back.
Skip(p, m) ==
    LET t == <<proc[p].ver, m>>
    IN  /\ proc[p].pc = "probe" /\ proc[p].job[m] = "queued"
        /\ ~Executable(p, m)
        /\ rows' = IF Holds(p, t)
                   THEN [rows EXCEPT ![t] = Released(rows[t])] ELSE rows
        /\ Become(p, [proc[p] EXCEPT !.job[m] = "none", !.affected = TRUE])
        /\ UNCHANGED <<version, autoOff, conn, chan, active, queued, owed,
                       inflight, overtaken, left, staff>>

\* The row after a result: a success clears the failures, and the last
\* failure allowed suspends the target.
Recorded(r, ok, current, off, by) ==
    LET fails == IF ok THEN 0 ELSE r.fails + 1
    IN  [r EXCEPT !.st = IF ok THEN "available"
                         ELSE IF fails >= Limit THEN "suspended" ELSE "error",
                  !.fails = fails,
                  !.proven = IF ok THEN by ELSE r.proven,
                  !.due = IF current /\ fails < Limit /\ ~off
                          THEN "later" ELSE "never",
                  !.manual = FALSE, !.token = 0]

\* recordHubSupplyProbeResultWithLease: one transaction with the group's
\* reconciliation; a lost lease changes nothing.
Result(p, m, ok) ==
    LET t == <<proc[p].ver, m>>
        current == proc[p].ver = version
    IN  /\ proc[p].pc = "probe" /\ proc[p].job[m] = "running"
        /\ rows' = IF Holds(p, t)
                   THEN [rows EXCEPT ![t] = Recorded(rows[t], ok, current,
                                              m \in autoOff, proc[p].on[m])]
                   ELSE rows
        /\ Become(p, [proc[p] EXCEPT !.job[m] = "none",
                        !.affected = @ \/ (Holds(p, t) /\ current)])
        /\ overtaken' = overtaken \ {<<p, t>>}
        /\ UNCHANGED <<version, autoOff, conn, active, queued, owed,
                       inflight, left, staff>>
        /\ IF Holds(p, t) /\ current THEN Reconcile ELSE UNCHANGED chan

\* RequeueHubSupplyProbeTargetsWithLease: what p left in testing.
Requeued(p) ==
    [t \in Targets |->
       IF t[1] = proc[p].ver /\ proc[p].token # 0 /\ Holds(p, t)
       THEN [rows[t] EXCEPT !.st = "pending", !.due = "now", !.token = 0]
       ELSE rows[t]]

\* Every job has its result.
Close(p) ==
    /\ proc[p].pc = "probe" /\ \A m \in Models : proc[p].job[m] = "none"
    /\ rows' = Requeued(p)
    /\ Become(p, Idle)
    /\ UNCHANGED <<version, autoOff, conn, active, queued, owed, inflight,
                   overtaken, left, staff>>
    /\ IF proc[p].affected THEN Reconcile ELSE UNCHANGED chan

\* The context is cancelled or a query fails: the deferred function returns
\* the targets and reconciles.
Abort(p) ==
    /\ proc[p].pc = "probe" /\ left.faults > 0
    /\ left' = [left EXCEPT !.faults = @ - 1]
    /\ rows' = Requeued(p)
    /\ Become(p, Idle) /\ Forget(p)
    /\ UNCHANGED <<version, autoOff, conn, active, queued, owed, inflight,
                   staff>>
    /\ Reconcile

\* The process dies; its leases stay behind.
Crash(p) ==
    /\ proc[p].pc # "idle" /\ left.faults > 0
    /\ left' = [left EXCEPT !.faults = @ - 1]
    /\ Become(p, Idle) /\ Forget(p)
    /\ UNCHANGED <<version, autoOff, rows, conn, chan, active, queued, owed,
                   inflight, staff>>

-----------------------------------------------------------------------------
(* Administrators, providers, users and time.                              *)

Spend(k) == left[k] > 0 /\ left' = [left EXCEPT ![k] = @ - 1]

\* Targets from before the change belong to an older version.
NextVersion == version + 1

\* The status after a change of the connection: a manual disable that the edit
\* read is kept.
EditedStatus == IF editing = "manual" THEN "manual" ELSE "auto"

\* An edit of the channel reads it: updateTx its row before the change, the
\* provider's form the status it will write back.
EditRead ==
    /\ editing = "none" /\ Spend("edits")
    /\ editing' = chan
    /\ UNCHANGED <<version, autoOff, rows, conn, chan, active, queued, owed,
                   proc, inflight, overtaken, saves, byHand>>

\* The edit changes the connection, which starts a version.  The provider's
\* own form reconciles the group and enqueues the task afterwards.
EditConnection(form) ==
    /\ editing # "none" /\ NextVersion \in Versions
    /\ editing' = "none"
    /\ conn' = conn + 1
    /\ version' = NextVersion
    /\ chan' = EditedStatus
    /\ \E at \in Times : rows' = Synced(rows, NextVersion, autoOff, at)
    /\ owed' = (owed \/ form) /\ queued' = (queued \/ form)
    /\ UNCHANGED <<autoOff, active, proc, inflight, overtaken, left, saves,
                   byHand>>

\* The provider's form leaves the connection as it is: the status the form
\* read is written back with the other fields.
EditOthers ==
    /\ editing # "none"
    /\ editing' = "none"
    /\ chan' = editing
    /\ \E at \in Times : rows' = Synced(rows, version, autoOff, at)
    /\ owed' = TRUE /\ queued' = TRUE
    /\ UNCHANGED <<version, autoOff, conn, active, proc, inflight, overtaken,
                   left, saves, byHand>>

\* UpdateHubSupplyGroupModelProbeEndpoint with an endpoint of its own: the
\* evidence is deleted and the target waits for its time.
ChangeEndpoint(m) ==
    LET t == <<version, m>>
    IN  /\ Spend("admin")
        /\ active /\ rows[t].st # "testing"
        /\ rows' = [rows EXCEPT ![t] = NewRow("waiting",
                      IF m \in autoOff THEN "never" ELSE "later")]
        /\ Overtake({t}) /\ owed' = TRUE
        /\ UNCHANGED <<version, autoOff, conn, active, queued, proc,
                       inflight, staff>>
        /\ Reconcile

\* The same with the automatic choice: a target that never succeeded is
\* created again, and the targets are rescheduled.
AutoEndpoint(m) ==
    LET t == <<version, m>>
    IN  /\ Spend("admin")
        /\ active /\ rows[t].st # "testing"
        /\ \E at \in Times :
              rows' = Synced(IF rows[t].proven > 0 THEN rows
                             ELSE [rows EXCEPT ![t] = Absent],
                             version, autoOff, at)
        /\ IF rows[t].proven > 0 THEN UNCHANGED overtaken ELSE Overtake({t})
        /\ owed' = TRUE
        /\ UNCHANGED <<version, autoOff, conn, active, queued, proc,
                       inflight, staff>>
        /\ Reconcile

\* UpdateHubSupplyGroupModelAutoProbe.
ToggleAutoProbe(m) ==
    /\ Spend("admin")
    /\ rows[<<version, m>>].st # "testing"
    /\ autoOff' = IF m \in autoOff THEN autoOff \ {m} ELSE autoOff \cup {m}
    /\ \E at \in Times : rows' = Synced(rows, version, autoOff', at)
    /\ UNCHANGED <<version, conn, active, queued, owed, proc, inflight,
                   overtaken, staff>>
    /\ Reconcile

\* RequestImmediateHubSupplyGroupProbe.
RequestProbe ==
    LET ts == {t \in Targets : t[1] = version}
    IN  /\ Spend("admin")
        /\ rows' = ResetRows(ts) /\ Overtake(ts) /\ queued' = TRUE
        /\ UNCHANGED <<version, autoOff, conn, chan, active, owed, proc,
                       inflight, staff>>

\* AdminUpdateHubProviderStatus: the status first, the group afterwards.
SetProvider ==
    /\ Spend("admin")
    /\ active' = ~active /\ owed' = TRUE
    /\ UNCHANGED <<version, autoOff, rows, conn, chan, queued, proc,
                   inflight, overtaken, staff>>

HandlerReconciles ==
    /\ owed /\ owed' = FALSE
    /\ UNCHANGED <<version, autoOff, rows, conn, active, queued, proc,
                   inflight, overtaken, left, staff>>
    /\ Reconcile

\* UpdateChannelStatus reads the row, and has nothing to do if it has the
\* status already.
ReadToSave(w, to) ==
    saves' = [saves EXCEPT ![w] =
                IF chan = to THEN NoSave ELSE [to |-> to, conn |-> conn]]

\* An administrator disables or enables the channel.
SetStatus(off) ==
    /\ saves["admin"] = NoSave /\ Spend("admin")
    /\ ReadToSave("admin", IF off THEN "manual" ELSE "enabled")
    /\ UNCHANGED <<version, autoOff, rows, conn, chan, active, queued, owed,
                   proc, inflight, overtaken, editing, byHand>>

\* A request is sent over the enabled channel, or updateAllChannelsBalance
\* finds it enabled ...
RequestStarts ==
    /\ chan = "enabled" /\ ~inflight /\ inflight' = TRUE
    /\ UNCHANGED <<version, autoOff, rows, conn, chan, active, queued, owed,
                   proc, overtaken, left, staff>>

\* ... and the request fails, or the balance is used up: DisableChannel, on a
\* channel with auto_ban, whatever its status is by then.
RequestFails ==
    /\ inflight /\ inflight' = FALSE
    /\ saves["auto"] = NoSave /\ Spend("faults")
    /\ ReadToSave("auto", "auto")
    /\ UNCHANGED <<version, autoOff, rows, conn, chan, active, queued, owed,
                   proc, overtaken, editing, byHand>>

\* SaveWithoutKey: the whole row goes back with the new status, and with it
\* the connection that was read, which differs from the one in place when an
\* edit came in between.
SaveStatus(w) ==
    /\ saves[w] # NoSave
    /\ saves' = [saves EXCEPT ![w] = NoSave]
    /\ chan' = saves[w].to
    /\ conn' = IF saves[w].conn = conn THEN conn ELSE conn + 1
    /\ byHand' = IF w = "admin" THEN saves[w].to = "manual" ELSE byHand
    /\ UNCHANGED <<version, autoOff, rows, active, queued, owed, proc,
                   inflight, overtaken, left, editing>>

\* The time of target t comes, or its lease runs out.
Elapse(t) ==
    /\ rows[t].due = "later"
    /\ rows' = [rows EXCEPT ![t].due = "now"]
    /\ UNCHANGED <<version, autoOff, conn, chan, active, queued, owed, proc,
                   inflight, overtaken, left, staff>>

\* A target of another group is due, which starts the task as well.
OthersDue ==
    /\ ~queued /\ queued' = TRUE
    /\ UNCHANGED <<version, autoOff, rows, conn, chan, active, owed, proc,
                   inflight, overtaken, left, staff>>

-----------------------------------------------------------------------------

Probe(p) ==
    \/ Begin(p) \/ Sync(p) \/ List(p) \/ Reset(p) \/ Claim(p) \/ Close(p)
    \/ \E m \in Models : Execute(p, m) \/ Skip(p, m)
    \/ \E m \in Models, ok \in BOOLEAN : Result(p, m, ok)

Admin ==
    \/ EditRead \/ EditOthers \/ \E form \in BOOLEAN : EditConnection(form)
    \/ \E m \in Models : ChangeEndpoint(m) \/ AutoEndpoint(m)
                            \/ ToggleAutoProbe(m)
    \/ \E p \in Testers, m \in Models : TestStart(p, m)
    \/ RequestProbe \/ SetProvider \/ HandlerReconciles
    \/ \E off \in BOOLEAN : SetStatus(off)

Next ==
    \/ \E p \in Procs : Probe(p) \/ Abort(p) \/ Crash(p)
    \/ Admin
    \/ RequestStarts \/ RequestFails \/ \E w \in Savers : SaveStatus(w)
    \/ \E t \in Targets : Elapse(t)
    \/ OthersDue

Spec == Init /\ [][Next]_vars

\* The task runner keeps starting the task while it is enqueued or due, every
\* probe has a timeout, time passes, and every scheduled target of another
\* group comes due again within the hour.
FairSpec ==
    /\ Spec
    /\ \A p \in Procs : WF_vars(Probe(p))
    /\ \A t \in Targets : WF_vars(Elapse(t))
    /\ WF_vars(OthersDue)

-----------------------------------------------------------------------------

\* The types of the variables.
TypeOK ==
    /\ version \in Versions /\ autoOff \subseteq Models
    /\ rows \in [Targets -> Row] /\ conn \in Nat
    /\ chan \in ChannelStatuses /\ editing \in ChannelStatuses \cup {"none"}
    /\ saves \in [Savers -> Save]
    /\ {active, queued, owed, inflight, byHand} \subseteq BOOLEAN
    /\ proc \in [Procs -> Proc] /\ overtaken \subseteq Procs \X Targets
    /\ left \in [edits : 0 .. MaxEdits, admin : Nat, faults : Nat]

\* Requests for m reach the channel (hubSupplyChannelSupportsRequest).
Served(m) == chan = "enabled" /\ Routable(rows[<<version, m>>], m \in autoOff)

\* Every edit of the connection starts a version; the two part for good when a
\* synchronisation writes back the version it read before an edit, or a change
\* of status the connection it read before an edit.
VersionCurrent == version = conn

\* Requests for a model are sent over a connection only after a probe of that
\* model succeeded over the very same connection, whatever probes of earlier
\* connections report in the meantime, unless a synchronisation undid the new
\* version (EnsureHubSupplyGroupProbeTargets) or a change of status undid the
\* new connection (SaveWithoutKey).
ProvenBeforeServed ==
    VersionCurrent =>
      \A m \in Models : Served(m) => rows[<<version, m>>].proven = conn

\* A channel its administrator disabled stays disabled through probes, tests,
\* reconciliations, crashes and recovery, and through every edit that found it
\* disabled.  Besides the administrator, it is ended only by a write that was
\* prepared before: the automatic disable of a channel that was enabled when
\* its request or balance check began (UpdateChannelStatus writes it over any
\* status), or an edit that had read another status (updateTx reads without a
\* lock).
ManualDisableKept ==
    [][chan = "manual" /\ chan' # "manual" =>
          \/ SaveStatus("admin") /\ saves["admin"].to = "enabled"
          \/ SaveStatus("auto")
          \/ editing \notin {"none", "manual"} /\ editing' = "none"]_vars

\* What the documentation promises of a manual disable: until the
\* administrator enables the channel again, or an edit writes its status, no
\* automatic step enables it.  A request or a balance check that began before
\* the disable breaks it: the channel becomes an automatically disabled one,
\* which the next reconciliation enables.
OnlyEnabledByHand ==
    [][byHand /\ chan # "enabled" /\ chan' = "enabled" =>
          SaveStatus("admin") \/ editing' # editing]_vars

\* The failure limit and the suspension go together, and a suspended target
\* has no time: nothing but a manual test or a new endpoint revives it.
SuspendedAtLimit ==
    \A t \in Targets :
        /\ (rows[t].fails = Limit) <=> (rows[t].st = "suspended")
        /\ rows[t].st = "suspended" => rows[t].due = "never"

\* The result of a probe whose target was meanwhile returned to the queue,
\* reset for a manual test or given another endpoint leaves the target alone.
LateResultIgnored ==
    [][\A p \in Procs, t \in Targets :
          /\ <<p, t>> \in overtaken
          /\ proc[p].job[t[2]] = "running" /\ proc'[p].job[t[2]] = "none"
          => rows'[t] = rows[t]]_vars

\* A lease never keeps a target in testing: while its provider is active and
\* its channel not disabled by hand, the target leaves testing, also after
\* the process that claimed it died.
TestingEnds ==
    \A t \in Targets : []<>(rows[t].st # "testing" \/ ~Eligible(t))
=============================================================================
