---------------------------- MODULE SystemTasks ----------------------------
(***************************************************************************)
(* The system-task runner of model/system_task.go and                      *)
(* service/system_task.go for ONE task type.  Types are independent: the   *)
(* lock table is keyed by type and active_key is unique per type.          *)
(*                                                                         *)
(* Every master node runs one runner goroutine (claim pass, scheduler,     *)
(* stale-lock pass, strictly one at a time) and one goroutine per claimed  *)
(* task.  All of them act on two tables, system_tasks and                  *)
(* system_task_locks, one SQL statement per step; other nodes may act      *)
(* between any two statements.                                             *)
(*                                                                         *)
(* Time is abstracted: the lock row is live (locked_until >= now) or has   *)
(* lapsed.  A heartbeat only prolongs a live row, so it changes nothing    *)
(* here; Lapse is the passing of locked_until.                             *)
(***************************************************************************)
EXTENDS Naturals, FiniteSets

CONSTANTS
    Runners,          \* runner ids; a restarted process is a new id
    MaxTasks,         \* bound: rows ever created for this type
    ClaimWithinLease  \* TRUE: no runner stalls past the TTL inside a claim

ASSUME RunnersAssumption == IsFiniteSet(Runners)
ASSUME MaxTasksAssumption == MaxTasks \in Nat
ASSUME ClaimAssumption == ClaimWithinLease \in BOOLEAN
ASSUME NobodyAssumption == "nobody" \notin Runners  \* a runner id is never empty

VARIABLES
    status,    \* system_tasks.status by row id
    lockedBy,  \* system_tasks.locked_by by row id
    lock,      \* the system_task_locks row of the type, or NoLock
    runner,    \* what each runner goroutine is in the middle of
    exec       \* <<runner, row>> whose handler goroutine is executing

vars == <<status, lockedBy, lock, runner, exec>>

Rows == 1..MaxTasks
None == 0
Nobody == "nobody"
Active == {"pending", "running"}
Terminal == {"succeeded", "failed"}
Statuses == {"absent"} \cup Active \cup Terminal

NoLock == [task |-> None, by |-> Nobody, live |-> FALSE]
Locks == [task : Rows, by : Runners, live : BOOLEAN]

\* idle; or between two statements of a claim or of the stale-lock pass.
\* task/by: the row being claimed, or the stale lock that was read;
\* prev: the row named by the lock this claim took over;
\* late: the lock row in the table had lapsed by the `now` this pass took when
\* it began (locked_until < now), which is what its SQL conditions compare.
Idle == [pc |-> "idle", task |-> None, by |-> Nobody, prev |-> None, late |-> FALSE]
Dead == [Idle EXCEPT !.pc = "dead"]
PCs == {"idle", "dead", "found", "takeover", "acquired", "mark", "delete"}
RunnerStates == [pc : PCs, task : Rows \cup {None},
                 by : Runners \cup {Nobody}, prev : Rows \cup {None},
                 late : BOOLEAN]

TypeOK ==
    /\ status \in [Rows -> Statuses]
    /\ lockedBy \in [Rows -> Runners \cup {Nobody}]
    /\ lock \in Locks \cup {NoLock}
    /\ runner \in [Runners -> RunnerStates]
    /\ exec \subseteq Runners \X Rows

Init ==
    /\ status = [t \in Rows |-> "absent"]
    /\ lockedBy = [t \in Rows |-> Nobody]
    /\ lock = NoLock
    /\ runner = [r \in Runners |-> Idle]
    /\ exec = {}

----------------------------------------------------------------------------
\* Rows

\* The unique index on active_key: pending and running rows hold the key.
HoldsActiveKey(t) == status[t] \in Active

\* runSystemTaskScheduler, EnqueueSystemTask and StartLogCleanupTask all read
\* first and then insert; the read is only advisory, the unique index decides,
\* and a refused insert changes nothing.
CreateSystemTask(t) ==
    /\ status[t] = "absent"
    /\ \A u \in Rows : u < t => status[u] # "absent"
    /\ \A u \in Rows : ~HoldsActiveKey(u)
    /\ status' = [status EXCEPT ![t] = "pending"]
    /\ UNCHANGED <<lockedBy, lock, runner, exec>>

\* Mutants of LeaseExpired: no check of the status, no effect, unknown status,
\* the row is queued again.
LeaseExpiredUnchecked(t) == [status EXCEPT ![t] = "failed"]
LeaseExpiredIgnored(t) == status
LeaseExpiredNewStatus(t) ==
    IF status[t] = "running" THEN [status EXCEPT ![t] = "expired"] ELSE status
LeaseExpiredRequeued(t) ==
    IF status[t] = "running" THEN [status EXCEPT ![t] = "pending"] ELSE status

\* MarkSystemTaskLeaseExpired: only a running row is failed.
LeaseExpired(t) ==
    IF status[t] = "running" THEN [status EXCEPT ![t] = "failed"] ELSE status

\* ReleaseSystemTaskLock deletes the row only if it is still ours.
Released(t, r) == IF lock.task = t /\ lock.by = r THEN NoLock ELSE lock

Lapsed == lock # NoLock /\ ~lock.live

\* r writes its lock row, with the locked_until it computed when its claim
\* began.  A claim that stalled longer than the TTL writes a row that has
\* already lapsed, for the others too if their passes began later.
PutLock(r) ==
    \E live \in {TRUE, ClaimWithinLease} : \E others \in SUBSET (Runners \ {r}) :
       /\ live => others = {}
       /\ lock' = [task |-> runner[r].task, by |-> r, live |-> live]
       /\ runner' = [q \in Runners |->
                        IF q = r THEN [runner[r] EXCEPT !.pc = "acquired", !.late = FALSE]
                        ELSE [runner[q] EXCEPT !.late = q \in others
                                               /\ runner[q].pc \notin {"idle", "dead"}]]

----------------------------------------------------------------------------
\* Claim pass of a runner

\* FindEarliestPendingSystemTasks and the first read of ClaimSystemTask.
FindPending(r, t) ==
    /\ runner[r].pc = "idle"
    /\ status[t] = "pending"
    /\ runner' = [runner EXCEPT ![r] = [Idle EXCEPT !.pc = "found", !.task = t,
                                                    !.late = Lapsed]]
    /\ UNCHANGED <<status, lockedBy, lock, exec>>

\* acquireSystemTaskLock: insert the lock row; when it exists, read it and
\* give up if locked_until >= now, else go on to take it over.
AcquireLock(r) ==
    /\ runner[r].pc = "found"
    /\ \/ lock = NoLock /\ PutLock(r)
       \/ /\ lock # NoLock /\ ~runner[r].late
          /\ runner' = [runner EXCEPT ![r] = Idle]
          /\ UNCHANGED lock
       \/ /\ lock # NoLock /\ runner[r].late
          /\ runner' = [runner EXCEPT ![r].pc = "takeover", ![r].prev = lock.task]
          /\ UNCHANGED lock
    /\ UNCHANGED <<status, lockedBy, exec>>

\* The conditional update of acquireSystemTaskLock: it checks locked_until
\* only, not the row that was read.
TakeOverLock(r) ==
    /\ runner[r].pc = "takeover"
    /\ \/ lock # NoLock /\ runner[r].late /\ PutLock(r)
       \/ /\ lock = NoLock \/ ~runner[r].late
          /\ runner' = [runner EXCEPT ![r] = Idle]
          /\ UNCHANGED lock
    /\ UNCHANGED <<status, lockedBy, exec>>

\* ClaimSystemTask fails the row of the lease it took over.
MarkPrevious(r) ==
    /\ runner[r].pc = "acquired"
    /\ runner[r].prev \notin {None, runner[r].task}
    /\ status' = LeaseExpired(runner[r].prev)
    /\ runner' = [runner EXCEPT ![r].prev = None]
    /\ UNCHANGED <<lockedBy, lock, exec>>

\* The compare-and-set pending -> running.
MayStart(t) == status[t] = "pending"

\* ClaimSystemTask's update: win the row and start its handler, or give the
\* lock back.
ClaimSystemTask(r) ==
    LET t == runner[r].task IN
    /\ runner[r].pc = "acquired"
    /\ runner[r].prev \in {None, t}
    /\ runner' = [runner EXCEPT ![r] = Idle]
    /\ \/ /\ MayStart(t)
          /\ status' = [status EXCEPT ![t] = "running"]
          /\ lockedBy' = [lockedBy EXCEPT ![t] = r]
          /\ exec' = exec \cup {<<r, t>>}
          /\ UNCHANGED lock
       \/ /\ ~MayStart(t)
          /\ lock' = Released(t, r)
          /\ UNCHANGED <<status, lockedBy, exec>>

\* A statement of the claim fails in the database after the lock was taken:
\* the lock is released (best effort) and nothing else is done.
ClaimAborted(r) ==
    /\ runner[r].pc = "acquired"
    /\ \E ok \in BOOLEAN :
          lock' = IF ok THEN Released(runner[r].task, r) ELSE lock
    /\ runner' = [runner EXCEPT ![r] = Idle]
    /\ UNCHANGED <<status, lockedBy, exec>>

----------------------------------------------------------------------------
\* Handler goroutine

\* The condition of FinishSystemTask and UpdateSystemTaskState: the row is
\* running, ours, and our lock on it is live.
OwnsLease(r, t) ==
    /\ status[t] = "running"
    /\ lockedBy[t] = r
    /\ lock = [task |-> t, by |-> r, live |-> TRUE]

\* FinishSystemTask: the row becomes terminal and the lock is released by a
\* second statement, which may fail and leave the row to lapse.
FinishSystemTask(r, t) ==
    /\ <<r, t>> \in exec
    /\ OwnsLease(r, t)
    /\ \E s \in Terminal : status' = [status EXCEPT ![t] = s]
    /\ \E ok \in BOOLEAN : lock' = IF ok THEN Released(t, r) ELSE lock
    /\ exec' = exec \ {<<r, t>>}
    /\ UNCHANGED <<lockedBy, runner>>

\* The handler ends without finishing the row: FinishSystemTask or
\* UpdateSystemTaskState returned ErrSystemTaskLockLost or a database error,
\* or the heartbeat cancelled the context.  The lock is left to lapse.
HandlerLost(r, t) ==
    /\ <<r, t>> \in exec
    /\ exec' = exec \ {<<r, t>>}
    /\ UNCHANGED <<status, lockedBy, lock, runner>>

----------------------------------------------------------------------------
\* Stale-lock pass of a runner (ExpireStaleSystemTaskLocks): read, mark, delete

ReadStaleLock(r) ==
    /\ runner[r].pc = "idle"
    /\ Lapsed
    /\ runner' = [runner EXCEPT ![r] = [Idle EXCEPT !.pc = "mark", !.task = lock.task,
                                                    !.by = lock.by, !.late = TRUE]]
    /\ UNCHANGED <<status, lockedBy, lock, exec>>

MarkSystemTaskLeaseExpired(r) ==
    /\ runner[r].pc = "mark"
    /\ status' = LeaseExpired(runner[r].task)
    /\ runner' = [runner EXCEPT ![r].pc = "delete"]
    /\ UNCHANGED <<lockedBy, lock, exec>>

DeleteStaleLock(r) ==
    /\ runner[r].pc = "delete"
    /\ lock' = IF runner[r].late THEN Released(runner[r].task, runner[r].by) ELSE lock
    /\ runner' = [runner EXCEPT ![r] = Idle]
    /\ UNCHANGED <<status, lockedBy, exec>>

----------------------------------------------------------------------------
\* Environment

\* A runner that is still between taking the lock and its compare-and-set.
Claiming(r) == lock.by = r /\ runner[r].pc = "acquired"

\* locked_until passes.
Lapse ==
    /\ lock # NoLock /\ lock.live
    /\ ClaimWithinLease => \A r \in Runners : ~Claiming(r)
    /\ lock' = [lock EXCEPT !.live = FALSE]
    /\ UNCHANGED <<status, lockedBy, runner, exec>>

\* A node dies with its runner and its handlers; some other node survives.
Crash(r) ==
    /\ runner[r].pc # "dead"
    /\ \E q \in Runners \ {r} : runner[q].pc # "dead"
    /\ runner' = [runner EXCEPT ![r] = Dead]
    /\ exec' = {e \in exec : e[1] # r}
    /\ UNCHANGED <<status, lockedBy, lock>>

Next ==
    \/ \E t \in Rows : CreateSystemTask(t)
    \/ \E r \in Runners, t \in Rows :
          \/ FindPending(r, t)
          \/ FinishSystemTask(r, t)
          \/ HandlerLost(r, t)
    \/ \E r \in Runners :
          \/ AcquireLock(r)
          \/ TakeOverLock(r)
          \/ MarkPrevious(r)
          \/ ClaimSystemTask(r)
          \/ ClaimAborted(r)
          \/ ReadStaleLock(r)
          \/ MarkSystemTaskLeaseExpired(r)
          \/ DeleteStaleLock(r)
          \/ Crash(r)
    \/ Lapse

Spec == Init /\ [][Next]_vars

\* A runner in the middle of a pass finishes it; handlers return (they must
\* honour cancellation); a lock nobody renews lapses; idle runners keep
\* polling every 15 s.  Nothing forces a claim to abort, a node to crash or a
\* renewed lock to lapse.  ReadStaleLock competes with claims for the runner,
\* so both get strong fairness.
Unrenewed == lock # NoLock /\ lock.live
             /\ <<lock.by, lock.task>> \notin exec /\ \A r \in Runners : ~Claiming(r)
Fairness ==
    /\ WF_vars(Lapse /\ Unrenewed)
    /\ \A r \in Runners :
          /\ WF_vars(AcquireLock(r) \/ TakeOverLock(r) \/ MarkPrevious(r)
                     \/ MarkSystemTaskLeaseExpired(r) \/ DeleteStaleLock(r))
          /\ SF_vars(ClaimSystemTask(r))
          /\ SF_vars(ReadStaleLock(r))
          /\ \A t \in Rows : /\ SF_vars(FindPending(r, t))
                             /\ WF_vars(FinishSystemTask(r, t) \/ HandlerLost(r, t))
FairSpec == Spec /\ Fairness

----------------------------------------------------------------------------
\* Properties

\* A row is executed by at most one runner, ever: the compare-and-set of
\* ClaimSystemTask decides even when the lock was taken over in between.
OneExecutorPerRow ==
    /\ \A e \in exec : lockedBy[e[2]] = e[1]
    /\ \A t \in Rows : status[t] \in {"absent", "pending"} <=> lockedBy[t] = Nobody

\* Once claimed, a row never changes hands, and a terminal row (finished or
\* failed by a lapsed lease) is never revived or finished a second time by a
\* runner that comes back late.
RowsAreFinal ==
    [][\A t \in Rows :
          /\ lockedBy[t] # Nobody => lockedBy'[t] = lockedBy[t]
          /\ status[t] \in Terminal => status'[t] = status[t]]_vars

\* An active row does not stay active forever: it runs and ends, or its lapsed
\* lease is found and the row is failed, so the type can be scheduled again.
ActiveRowEnds ==
    \A t \in Rows : status[t] \in Active ~> status[t] \in Terminal
============================================================================
