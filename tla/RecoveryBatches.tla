-------------------------- MODULE RecoveryBatches --------------------------
(***************************************************************************)
(* How a recovery worker chooses its next batch.  Every fifteen seconds a  *)
(* pass lists at most Limit rows and tries them one after the other; a row *)
(* that fails is tried again by a later pass.  The three tables order      *)
(* their rows differently:                                                 *)
(*   backoff  billing_task_settlements: by id, rows whose next_attempt_at  *)
(*            lies ahead are skipped (model/billing_task_settlement.go)    *)
(*   attempt  billing_token_adjustments: by last_attempt_at, then id       *)
(*            (model/billing_token_adjustment.go)                          *)
(*   id       billing_refunds and released provider earnings: by id        *)
(*            (model/billing_refund.go, hub_provider_settlement.go)        *)
(* Time is counted in passes.                                              *)
(***************************************************************************)
EXTENDS Naturals, FiniteSets

CONSTANTS
    Rows,        \* row ids, in order of creation
    Broken,      \* rows that can never succeed: a deleted user or token
    Limit,       \* batch size
    Policies,    \* the tables considered, by the order of their lists
    MaxBackoff,  \* cap of the back-off, in passes
    MaxFaults    \* bound: transient errors and passes cut short

ASSUME RowsAssumption == Rows \subseteq Nat /\ IsFiniteSet(Rows) /\ Broken \subseteq Rows
ASSUME LimitAssumption == Limit \in Nat \ {0} /\ MaxBackoff \in Nat \ {0} /\ MaxFaults \in Nat
ASSUME PolicyAssumption == Policies \subseteq {"backoff", "attempt", "id"}

VARIABLES
    policy,  \* the order of the table at hand; it never changes
    status,  \* absent, pending or complete
    fails,   \* attempt_count, as far as the back-off depends on it
    wait,    \* passes until next_attempt_at
    age,     \* passes since last_attempt_at, Oldest if never tried
    batch,   \* rows of the pass under way still to be tried
    busy,    \* a pass is under way
    faults

vars == <<policy, status, fails, wait, age, batch, busy, faults>>

\* Rows tried longer ago than every other row need no further order.
Oldest == Cardinality(Rows) + 1

\* The types of the variables.
TypeOK ==
    /\ policy \in Policies
    /\ status \in [Rows -> {"absent", "pending", "complete"}]
    /\ fails \in [Rows -> 0 .. MaxBackoff]
    /\ wait \in [Rows -> 0 .. MaxBackoff]
    /\ age \in [Rows -> 0 .. Oldest]
    /\ batch \subseteq Rows
    /\ busy \in BOOLEAN
    /\ faults \in 0 .. MaxFaults

Init ==
    /\ policy \in Policies
    /\ status = [r \in Rows |-> "absent"]
    /\ fails = [r \in Rows |-> 0]
    /\ wait = [r \in Rows |-> 0]
    /\ age = [r \in Rows |-> Oldest]
    /\ batch = {}
    /\ busy = FALSE
    /\ faults = 0

\* Rows are created in the order of their ids.
Create(r) ==
    /\ status[r] = "absent"
    /\ \A q \in Rows : q < r => status[q] # "absent"
    /\ status' = [status EXCEPT ![r] = "pending"]
    /\ UNCHANGED <<policy, fails, wait, age, batch, busy, faults>>

\* Mutant of Due: the back-off is recorded and never looked at.
DueAlways(r) == status[r] = "pending"

\* The WHERE clause of the list.
Due(r) == status[r] = "pending" /\ (policy = "backoff" => wait[r] = 0)

\* The ORDER BY clause of the list.
Before(q, r) == IF policy = "attempt" /\ age[q] # age[r] THEN age[q] > age[r] ELSE q < r

Listed == {r \in Rows : Due(r)}

\* A pass lists its batch.
List ==
    /\ ~busy
    /\ Listed # {}
    /\ busy' = TRUE
    /\ batch' = {r \in Listed : Cardinality({q \in Listed : Before(q, r)}) < Limit}
    /\ UNCHANGED <<policy, status, fails, wait, age, faults>>

IsNext(r) == r \in batch /\ \A q \in batch \ {r} : Before(r, q)

Complete(r) ==
    /\ IsNext(r)
    /\ r \notin Broken
    /\ status' = [status EXCEPT ![r] = "complete"]
    /\ batch' = batch \ {r}
    /\ UNCHANGED <<policy, fails, wait, age, busy, faults>>

\* 15 s, doubled with each attempt up to an hour: 1, 2, 4, ... passes.
Backoff(n) == IF 2^(n - 1) < MaxBackoff THEN 2^(n - 1) ELSE MaxBackoff

\* RecordBillingTaskSettlementFailure, RecordBillingTokenAdjustmentFailure and
\* RecordBillingRefundFailure; only the first sets next_attempt_at.
Failed(r) ==
    LET n == IF fails[r] < MaxBackoff THEN fails[r] + 1 ELSE fails[r]
    IN /\ fails' = [fails EXCEPT ![r] = IF policy = "backoff" THEN n ELSE 0]
       /\ wait' = [wait EXCEPT ![r] = IF policy = "backoff" THEN Backoff(n) ELSE 0]
       /\ age' = [age EXCEPT ![r] = 0]
       /\ batch' = batch \ {r}
       /\ UNCHANGED <<policy, status, busy>>

Fail(r) ==
    /\ IsNext(r)
    /\ r \in Broken
    /\ Failed(r)
    /\ UNCHANGED faults

\* A transient database error.
FailOnce(r) ==
    /\ IsNext(r)
    /\ r \notin Broken
    /\ faults < MaxFaults
    /\ faults' = faults + 1
    /\ Failed(r)

\* The context is cancelled or the process dies: the rest is not tried.
CutShort ==
    /\ batch # {}
    /\ faults < MaxFaults
    /\ faults' = faults + 1
    /\ batch' = {}
    /\ UNCHANGED <<policy, status, fails, wait, age, busy>>

\* The pass ends and the interval of the system task goes by; without a row to
\* try, no pass is scheduled and only time passes.
Pass ==
    /\ batch = {}
    /\ busy \/ Listed = {}
    /\ busy' = FALSE
    /\ wait' = [r \in Rows |-> IF wait[r] > 0 THEN wait[r] - 1 ELSE 0]
    /\ age' = [r \in Rows |-> IF age[r] < Oldest THEN age[r] + 1 ELSE Oldest]
    /\ UNCHANGED <<policy, status, fails, batch, faults>>

Work == List \/ Pass \/ \E r \in Rows : Complete(r) \/ Fail(r)

Next == Work \/ CutShort \/ \E r \in Rows : Create(r) \/ FailOnce(r)

Spec == Init /\ [][Next]_vars

\* The runner schedules a pass whenever rows are pending, and a pass goes on.
FairSpec == Spec /\ WF_vars(Work)

\* A row that can succeed is recovered in the end although a whole batch of
\* older rows, and more, fails for ever ("failed recoveries back off by their
\* next attempt time, so that records that fail for ever do not block a whole
\* batch", docs/llmhub/service-tier-routing-hardening.md:78).  The backoff is
\* capped, so this is about fewer broken rows than the passes of one capped
\* backoff can take: more of them would be due again all the time.
NotStarved == \A r \in Rows \ Broken : status[r] = "pending" ~> status[r] = "complete"
============================================================================
