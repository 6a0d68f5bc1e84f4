------------------------- MODULE SystemTasks_proofs -------------------------
(***************************************************************************)
(* Theorems about SystemTasks for any number of runners and rows, with and *)
(* without the assumption that a claim finishes within its lease.          *)
(***************************************************************************)
EXTENDS SystemTasks, TLAPS

\* A runner in the middle of a pass works on a row.
Working == \A r \in Runners : runner[r].pc \notin {"idle", "dead"} => runner[r].task \in Rows

\* Who claimed a row is fixed by its status, and a handler runs only for the
\* runner that claimed the row.
IInv == TypeOK /\ Working /\ OneExecutorPerRow

----------------------------------------------------------------------------

\* Failing a running row keeps the types and the other statuses.
LEMMA LeaseExpiredFacts ==
    ASSUME status \in [Rows -> Statuses], NEW t
    PROVE  /\ LeaseExpired(t) \in [Rows -> Statuses]
           /\ \A u \in Rows : \/ LeaseExpired(t)[u] = status[u]
                              \/ status[u] = "running" /\ LeaseExpired(t)[u] = "failed"
  BY DEF LeaseExpired, Statuses, Terminal

\* Deleting a lock row that is still ours keeps the type.
LEMMA ReleasedFacts ==
    ASSUME lock \in Locks \cup {NoLock}, NEW t, NEW r
    PROVE  Released(t, r) \in Locks \cup {NoLock}
  BY DEF Released

\* The runner states a pass goes through.
LEMMA RunnerFacts ==
    /\ Idle \in RunnerStates /\ Idle.pc = "idle" /\ Dead \in RunnerStates /\ Dead.pc = "dead"
    /\ \A t \in Rows, q \in Runners :
          LET s == [Idle EXCEPT !.pc = "mark", !.task = t, !.by = q, !.late = TRUE]
          IN  s \in RunnerStates /\ s.task = t
  BY DEF Idle, Dead, RunnerStates, PCs, None, Nobody

\* The lock row is written for the row being claimed.
LEMMA PutLockFacts ==
    ASSUME TypeOK, Working, NEW r \in Runners, PutLock(r), runner[r].task \in Rows
    PROVE  /\ lock' \in Locks \cup {NoLock}
           /\ runner' \in [Runners -> RunnerStates]
           /\ Working'
  <1>. PICK live \in {TRUE, ClaimWithinLease}, others \in SUBSET (Runners \ {r}) :
          /\ lock' = [task |-> runner[r].task, by |-> r, live |-> live]
          /\ runner' = [q \in Runners |->
                          IF q = r THEN [runner[r] EXCEPT !.pc = "acquired", !.late = FALSE]
                          ELSE [runner[q] EXCEPT !.late = q \in others
                                                 /\ runner[q].pc \notin {"idle", "dead"}]]
     BY DEF PutLock
  <1>1. lock' \in Locks
     BY ClaimAssumption DEF Locks
  <1>2. ASSUME NEW q \in Runners
        PROVE  /\ runner'[q] \in RunnerStates
               /\ runner'[q].task = runner[q].task
               /\ runner'[q].pc = IF q = r THEN "acquired" ELSE runner[q].pc
     <2>1. runner[q] \in RunnerStates
        BY DEF TypeOK
     <2>. QED  BY <2>1 DEF RunnerStates, PCs
  <1>3. runner' \in [Runners -> RunnerStates]
     BY <1>2
  <1>4. Working'
     BY <1>2 DEF Working
  <1>. QED  BY <1>1, <1>3, <1>4

----------------------------------------------------------------------------
\* The invariant holds initially and every action preserves it.

\* No row exists and no lock is held at the start.
LEMMA InitIInv == Init => IInv
  <1>. SUFFICES ASSUME Init PROVE IInv
     OBVIOUS
  <1>1. TypeOK
     BY RunnerFacts DEF Init, TypeOK, Statuses
  <1>2. Working
     BY RunnerFacts DEF Init, Working
  <1>3. OneExecutorPerRow
     BY DEF Init, OneExecutorPerRow
  <1>. QED  BY <1>1, <1>2, <1>3 DEF IInv

\* Steps that leave the rows and the handlers alone only need their types.
LEMMA LockSteps ==
    ASSUME IInv, UNCHANGED <<status, lockedBy, exec>>,
           lock' \in Locks \cup {NoLock}, runner' \in [Runners -> RunnerStates], Working'
    PROVE  IInv'
  BY DEF IInv, TypeOK, OneExecutorPerRow

\* A runner's own state changes, and it works on a row or on nothing.
LEMMA RunnerStep ==
    ASSUME TypeOK, Working, NEW r \in Runners, NEW s \in RunnerStates,
           s.pc \notin {"idle", "dead"} => s.task \in Rows,
           runner' = [runner EXCEPT ![r] = s]
    PROVE  runner' \in [Runners -> RunnerStates] /\ Working'
  BY DEF TypeOK, Working

\* Inserting a row.
LEMMA CreateStep ==
    ASSUME IInv, NEW t \in Rows, CreateSystemTask(t)
    PROVE  IInv'
  BY DEF IInv, TypeOK, Working, OneExecutorPerRow, CreateSystemTask, Statuses, Active

\* The claim pass up to the lock.
LEMMA ClaimPassStep ==
    ASSUME IInv, NEW r \in Runners,
           (\E t \in Rows : FindPending(r, t)) \/ AcquireLock(r) \/ TakeOverLock(r)
    PROVE  IInv'
  <1>. TypeOK /\ Working /\ runner[r] \in RunnerStates /\ Lapsed \in BOOLEAN
     BY DEF IInv, TypeOK, Lapsed, Locks, NoLock
  <1>0. ASSUME runner' = [runner EXCEPT ![r] = Idle], UNCHANGED <<status, lockedBy, lock, exec>>
        PROVE  IInv'
     BY <1>0, RunnerFacts, RunnerStep, LockSteps DEF TypeOK
  <1>1. ASSUME NEW t \in Rows, FindPending(r, t) PROVE IInv'
     <2>. DEFINE s == [Idle EXCEPT !.pc = "found", !.task = t, !.late = Lapsed]
     <2>1. s \in RunnerStates /\ s.task \in Rows
        BY DEF Idle, RunnerStates, PCs, None, Nobody
     <2>2. runner' \in [Runners -> RunnerStates] /\ Working'
        BY <1>1, <2>1, RunnerStep DEF FindPending
     <2>. QED  BY <1>1, <2>2, LockSteps DEF FindPending, TypeOK
  <1>2. CASE AcquireLock(r)
     <2>1. runner[r].task \in Rows
        BY <1>2 DEF AcquireLock, Working
     <2>2. CASE PutLock(r)
        BY <1>2, <2>1, <2>2, PutLockFacts, LockSteps DEF AcquireLock
     <2>3. CASE lock # NoLock /\ UNCHANGED lock
                /\ runner' = [runner EXCEPT ![r].pc = "takeover", ![r].prev = lock.task]
        <3>1. lock.task \in Rows
           BY <2>3 DEF TypeOK, Locks
        <3>2. /\ [runner[r] EXCEPT !.pc = "takeover", !.prev = lock.task] \in RunnerStates
              /\ [runner[r] EXCEPT !.pc = "takeover", !.prev = lock.task].task = runner[r].task
           BY <3>1 DEF RunnerStates, PCs
        <3>3. runner' = [runner EXCEPT ![r] = [runner[r] EXCEPT !.pc = "takeover", !.prev = lock.task]]
           BY <2>3 DEF TypeOK
        <3>4. runner' \in [Runners -> RunnerStates] /\ Working'
           BY <2>1, <3>2, <3>3, RunnerStep
        <3>. QED  BY <1>2, <2>3, <3>4, LockSteps DEF AcquireLock, TypeOK
     <2>. QED  BY <1>0, <1>2, <2>2, <2>3 DEF AcquireLock
  <1>3. CASE TakeOverLock(r)
     <2>1. runner[r].task \in Rows
        BY <1>3 DEF TakeOverLock, Working
     <2>2. CASE PutLock(r)
        BY <1>3, <2>1, <2>2, PutLockFacts, LockSteps DEF TakeOverLock
     <2>. QED  BY <1>0, <1>3, <2>2 DEF TakeOverLock
  <1>. QED  BY <1>1, <1>2, <1>3

\* Failing the row of a lapsed lease, from either pass.
LEMMA ExpireStep ==
    ASSUME IInv, NEW r \in Runners, NEW t, status' = LeaseExpired(t),
           runner' \in [Runners -> RunnerStates], Working',
           UNCHANGED <<lockedBy, lock, exec>>
    PROVE  IInv'
  <1>1. /\ status' \in [Rows -> Statuses]
        /\ \A u \in Rows : \/ status'[u] = status[u]
                           \/ status[u] = "running" /\ status'[u] = "failed"
     BY LeaseExpiredFacts DEF IInv, TypeOK
  <1>. QED  BY <1>1 DEF IInv, TypeOK, OneExecutorPerRow

\* The steps of a runner that holds the lock.
LEMMA HolderStep ==
    ASSUME IInv, NEW r \in Runners, MarkPrevious(r) \/ ClaimSystemTask(r) \/ ClaimAborted(r)
    PROVE  IInv'
  <1>. /\ TypeOK /\ Working /\ runner[r] \in RunnerStates
       /\ runner[r].pc = "acquired" /\ runner[r].task \in Rows
     BY DEF IInv, TypeOK, Working, MarkPrevious, ClaimSystemTask, ClaimAborted
  <1>0. ASSUME runner' = [runner EXCEPT ![r] = Idle]
        PROVE  runner' \in [Runners -> RunnerStates] /\ Working'
     BY <1>0, RunnerFacts, RunnerStep
  <1>1. CASE MarkPrevious(r)
     <2>1. /\ [runner[r] EXCEPT !.prev = None] \in RunnerStates
           /\ [runner[r] EXCEPT !.prev = None].task = runner[r].task
        BY DEF RunnerStates
     <2>2. runner' = [runner EXCEPT ![r] = [runner[r] EXCEPT !.prev = None]]
        BY <1>1 DEF MarkPrevious, TypeOK
     <2>3. runner' \in [Runners -> RunnerStates] /\ Working'
        BY <2>1, <2>2, RunnerStep
     <2>. QED  BY <1>1, <2>3, ExpireStep DEF MarkPrevious
  <1>2. CASE ClaimSystemTask(r)
     <2>1. CASE /\ MayStart(runner[r].task)
                /\ status' = [status EXCEPT ![runner[r].task] = "running"]
                /\ lockedBy' = [lockedBy EXCEPT ![runner[r].task] = r]
                /\ exec' = exec \cup {<<r, runner[r].task>>}
                /\ UNCHANGED lock
        <3>1. \A e \in exec : e[2] # runner[r].task
           BY <2>1, NobodyAssumption DEF IInv, TypeOK, OneExecutorPerRow, MayStart, Nobody
        <3>2. TypeOK'
           BY <1>0, <1>2, <2>1 DEF ClaimSystemTask, TypeOK, Statuses, Active
        <3>3. OneExecutorPerRow'
           BY <2>1, <3>1, NobodyAssumption DEF IInv, TypeOK, OneExecutorPerRow, Nobody
        <3>. QED  BY <1>0, <1>2, <3>2, <3>3 DEF ClaimSystemTask, IInv
     <2>2. CASE lock' = Released(runner[r].task, r) /\ UNCHANGED <<status, lockedBy, exec>>
        BY <1>0, <1>2, <2>2, ReleasedFacts, LockSteps DEF ClaimSystemTask, TypeOK
     <2>. QED  BY <1>2, <2>1, <2>2 DEF ClaimSystemTask
  <1>3. CASE ClaimAborted(r)
     BY <1>0, <1>3, ReleasedFacts, LockSteps DEF ClaimAborted, TypeOK
  <1>. QED  BY <1>1, <1>2, <1>3

\* The stale-lock pass.
LEMMA StalePassStep ==
    ASSUME IInv, NEW r \in Runners,
           ReadStaleLock(r) \/ MarkSystemTaskLeaseExpired(r) \/ DeleteStaleLock(r)
    PROVE  IInv'
  <1>. TypeOK /\ Working /\ runner[r] \in RunnerStates
     BY DEF IInv, TypeOK
  <1>1. CASE ReadStaleLock(r)
     <2>. DEFINE s == [Idle EXCEPT !.pc = "mark", !.task = lock.task, !.by = lock.by, !.late = TRUE]
     <2>1. lock.task \in Rows /\ lock.by \in Runners
        BY <1>1 DEF ReadStaleLock, Lapsed, TypeOK, Locks
     <2>2. s \in RunnerStates /\ s.task \in Rows
        BY <2>1, RunnerFacts
     <2>3. runner' \in [Runners -> RunnerStates] /\ Working'
        BY <1>1, <2>2, RunnerStep DEF ReadStaleLock
     <2>. QED  BY <1>1, <2>3, LockSteps DEF ReadStaleLock, TypeOK
  <1>2. CASE MarkSystemTaskLeaseExpired(r)
     <2>1. /\ [runner[r] EXCEPT !.pc = "delete"] \in RunnerStates
           /\ [runner[r] EXCEPT !.pc = "delete"].task = runner[r].task
           /\ runner[r].task \in Rows
        BY <1>2 DEF RunnerStates, PCs, MarkSystemTaskLeaseExpired, Working
     <2>2. runner' = [runner EXCEPT ![r] = [runner[r] EXCEPT !.pc = "delete"]]
        BY <1>2 DEF MarkSystemTaskLeaseExpired, TypeOK
     <2>3. runner' \in [Runners -> RunnerStates] /\ Working'
        BY <2>1, <2>2, RunnerStep
     <2>. QED  BY <1>2, <2>3, ExpireStep DEF MarkSystemTaskLeaseExpired
  <1>3. CASE DeleteStaleLock(r)
     BY <1>3, RunnerFacts, RunnerStep, ReleasedFacts, LockSteps DEF DeleteStaleLock, TypeOK
  <1>. QED  BY <1>1, <1>2, <1>3

\* The handler goroutine, crashes and the passing of time.
LEMMA HandlerStep ==
    ASSUME IInv, NEW r \in Runners, NEW t \in Rows, FinishSystemTask(r, t) \/ HandlerLost(r, t)
    PROVE  IInv'
  <1>1. CASE FinishSystemTask(r, t)
     <2>1. TypeOK'
        BY <1>1, ReleasedFacts DEF FinishSystemTask, IInv, TypeOK, Statuses, Terminal
     <2>2. OneExecutorPerRow'
        BY <1>1 DEF FinishSystemTask, OwnsLease, IInv, TypeOK, OneExecutorPerRow, Terminal
     <2>. QED  BY <1>1, <2>1, <2>2 DEF FinishSystemTask, IInv, Working
  <1>2. CASE HandlerLost(r, t)
     BY <1>2 DEF HandlerLost, IInv, TypeOK, Working, OneExecutorPerRow
  <1>. QED  BY <1>1, <1>2

\* A node dies, or a lease runs out.
LEMMA EnvironmentStep ==
    ASSUME IInv, (\E r \in Runners : Crash(r)) \/ Lapse
    PROVE  IInv'
  <1>1. ASSUME NEW r \in Runners, Crash(r) PROVE IInv'
     <2>1. runner' \in [Runners -> RunnerStates] /\ Working'
        BY <1>1, RunnerFacts, RunnerStep DEF Crash, IInv
     <2>. QED  BY <1>1, <2>1 DEF Crash, IInv, TypeOK, OneExecutorPerRow
  <1>2. CASE Lapse
     <2>1. lock' \in Locks
        BY <1>2 DEF Lapse, IInv, TypeOK, Locks
     <2>. QED  BY <1>2, <2>1 DEF Lapse, IInv, TypeOK, Working, OneExecutorPerRow
  <1>. QED  BY <1>1, <1>2

\* The invariant is inductive.
LEMMA NextIInv == IInv /\ [Next]_vars => IInv'
  <1>. SUFFICES ASSUME IInv, [Next]_vars PROVE IInv'
     OBVIOUS
  <1>1. CASE UNCHANGED vars
     BY <1>1 DEF IInv, TypeOK, Working, OneExecutorPerRow, vars
  <1>. QED  BY <1>1, CreateStep, ClaimPassStep, HolderStep, StalePassStep, HandlerStep,
               EnvironmentStep DEF Next

----------------------------------------------------------------------------
\* Theorems

\* The inductive invariant holds in every reachable state.
THEOREM InductiveInvariant == Spec => []IInv
  BY InitIInv, NextIInv, PTL DEF Spec

\* Rows, lock and runners keep their types: in particular a lock row always
\* names a row of the table and a runner.
THEOREM TypeCorrect == Spec => []TypeOK
  <1>1. IInv => TypeOK
     BY DEF IInv
  <1>. QED  BY <1>1, InductiveInvariant, PTL

\* OneExecutorPerRow for any number of runners: a handler runs only for the
\* runner whose compare-and-set won the row, whatever happened to the lock.
THEOREM OneExecutor == Spec => []OneExecutorPerRow
  <1>1. IInv => OneExecutorPerRow
     BY DEF IInv
  <1>. QED  BY <1>1, InductiveInvariant, PTL

\* RowsAreFinal for any number of runners: a claimed row never changes hands and
\* a terminal row is never revived, by a late runner or a stale lock.
THEOREM RowsFinal == Spec => RowsAreFinal
  <1>1. ASSUME IInv, [Next]_vars, NEW t \in Rows
        PROVE  /\ lockedBy[t] # Nobody => lockedBy'[t] = lockedBy[t]
               /\ status[t] \in Terminal => status'[t] = status[t]
     <2>. USE DEF IInv, TypeOK
     <2>1. ASSUME NEW u, status' = LeaseExpired(u), UNCHANGED lockedBy
           PROVE  /\ lockedBy'[t] = lockedBy[t]
                  /\ status[t] \in Terminal => status'[t] = status[t]
        BY <1>1, <2>1, LeaseExpiredFacts DEF Terminal
     <2>2. ASSUME NEW r \in Runners, ClaimSystemTask(r)
           PROVE  /\ lockedBy[t] # Nobody => lockedBy'[t] = lockedBy[t]
                  /\ status[t] \in Terminal => status'[t] = status[t]
        BY <1>1, <2>2 DEF ClaimSystemTask, MayStart, OneExecutorPerRow, Terminal
     <2>3. ASSUME NEW r \in Runners, NEW u \in Rows, FinishSystemTask(r, u)
           PROVE  /\ lockedBy'[t] = lockedBy[t]
                  /\ status[t] \in Terminal => status'[t] = status[t]
        BY <1>1, <2>3 DEF FinishSystemTask, OwnsLease, Terminal
     <2>4. ASSUME NEW u \in Rows, CreateSystemTask(u)
           PROVE  /\ lockedBy'[t] = lockedBy[t]
                  /\ status[t] \in Terminal => status'[t] = status[t]
        BY <1>1, <2>4 DEF CreateSystemTask, Terminal
     <2>5. CASE UNCHANGED <<status, lockedBy>>
        BY <2>5
     <2>. QED  BY <1>1, <2>1, <2>2, <2>3, <2>4, <2>5
               DEF Next, vars, FindPending, HandlerLost, AcquireLock, TakeOverLock, MarkPrevious,
                   ClaimAborted, ReadStaleLock, MarkSystemTaskLeaseExpired, DeleteStaleLock,
                   Crash, Lapse
  <1>2. IInv /\ [Next]_vars =>
           [\A t \in Rows :
               /\ lockedBy[t] # Nobody => lockedBy'[t] = lockedBy[t]
               /\ status[t] \in Terminal => status'[t] = status[t]]_vars
     BY <1>1
  <1>. QED  BY <1>2, InductiveInvariant, PTL DEF Spec, RowsAreFinal
============================================================================
