--------------------------- MODULE TaskSettlement ---------------------------
(***************************************************************************)
(* Billing of an asynchronous task (a video or a song): charged when the   *)
(* upstream accepts it, settled or refunded when its final status is seen  *)
(* (service/task_polling.go, task_billing.go, the recovery workers and     *)
(* model/billing_task_settlement.go, billing_refund.go,                    *)
(* hub_provider_settlement.go, task.go).                                   *)
(*                                                                         *)
(* A worker is one goroutine: a polling pass or timeout sweep, a recovery  *)
(* pass, or a user's request.  Each transaction is one step of a worker,   *)
(* so passes of several instances interleave between any two of them.      *)
(* Reading the upstream and the write that follows are one step: what the  *)
(* upstream reported in between is caught by the same compare-and-set.     *)
(*                                                                         *)
(* Funding is one balance: wallet, subscription and token move together in *)
(* the transactions modelled here.                                         *)
(***************************************************************************)
EXTENDS Integers, FiniteSets

CONSTANTS
    Tasks,
    Quotas,         \* amounts a task may be charged at submission or cost
    Balance,        \* the user's funding at the start
    Pollers, Recoverers, Visitors,
    Budgets         \* bounds a run may have: workers that stop in the middle of
                    \* a task, changes of the referral provider's status, other
                    \* requests that spend the user's funding, status queries

Workers == Pollers \cup Recoverers \cup Visitors

ASSUME TaskAssumption == Tasks # {}
ASSUME QuotaAssumption == Quotas \subseteq Nat \ {0} /\ Balance \in Nat
BudgetType == [aborts : Nat, referrals : Nat, spends : Nat, visits : Nat]
ASSUME BoundAssumption == Budgets \subseteq BudgetType

VARIABLES
    row,      \* tasks row: status, quota, and what kind of task it is
    up,       \* the upstream's answer: status and final cost (0: not told)
    work,     \* what each worker is doing, with its copy of the row
    stl,      \* billing_task_settlements row
    rfd,      \* billing_refunds row of the task's request
    earn,     \* hub_provider_earnings row of the task's request
    ref,      \* the referral provider is active
    funds,    \* what the user has left
    paid,     \* history: net amount the task took from the user
    revived,  \* history: what had been decided when a status query wrote over
              \* the final status
    left      \* what is left of the bounds

tables == <<stl, rfd, earn>>
rest == <<revived, left>>
vars == <<row, up, work, stl, rfd, earn, ref, funds, paid, revived, left>>

Unfinished == {"queued", "running"}
Terminal == {"success", "failure"}
\* supply: a provider earns on it; legacy: submitted before
\* TaskRefundLegacyCutoff, when there were no providers.
Kinds == {"supply", "plain", "legacy"}
\* charged: billed and not yet inserted; gone: never inserted.
Statuses == {"new", "charged", "gone"} \cup Unfinished \cup Terminal
PCs == {"idle", "commit", "settle", "mark", "ready", "earn", "release",
        "refund", "process", "cancel", "display"}

NoStl == [status |-> "none", pre |-> 0, act |-> 0, marked |-> FALSE, released |-> FALSE]
Stls == [status : {"none", "pending", "complete"}, pre : Nat, act : Nat,
         marked : BOOLEAN, released : BOOLEAN]
NoRfd == [status |-> "none", amount |-> 0]
Rfds == [status : {"none", "pending", "complete"}, amount : Nat]
\* split: the referral status the stored shares were computed with.
NoEarn == [status |-> "none", deferred |-> TRUE, gross |-> 0, split |-> TRUE]
Earns == [status : {"none", "pending", "settled", "cancelled"}, deferred : BOOLEAN,
          gross : Nat, split : BOOLEAN]
AtRest == [pc |-> "idle", task |-> CHOOSE t \in Tasks : TRUE, st |-> "new", quota |-> 0]
Works == [pc : PCs, task : Tasks, st : Statuses, quota : Nat]

\* What the tables say of a task: decided, its price, the provider's income.
NotRevived == [yes |-> FALSE, outcome |-> "open", price |-> 0, income |-> 0]
Views == [yes : BOOLEAN, outcome : {"open", "charged", "returned"}, price : Nat,
          income : Nat]

TypeOK ==
    /\ row \in [Tasks -> [st : Statuses, quota : Nat, kind : Kinds]]
    /\ up \in [Tasks -> [st : Unfinished \cup Terminal, cost : Nat]]
    /\ work \in [Workers -> Works]
    /\ stl \in [Tasks -> Stls]
    /\ rfd \in [Tasks -> Rfds]
    /\ earn \in [Tasks -> Earns]
    /\ ref \in BOOLEAN
    /\ funds \in Nat
    /\ paid \in [Tasks -> Int]
    /\ revived \in [Tasks -> Views]
    /\ left \in BudgetType

Init ==
    /\ row = [t \in Tasks |-> [st |-> "new", quota |-> 0, kind |-> "plain"]]
    /\ up = [t \in Tasks |-> [st |-> "queued", cost |-> 0]]
    /\ work = [w \in Workers |-> AtRest]
    /\ stl = [t \in Tasks |-> NoStl]
    /\ rfd = [t \in Tasks |-> NoRfd]
    /\ earn = [t \in Tasks |-> NoEarn]
    /\ ref = TRUE
    /\ funds = Balance
    /\ paid = [t \in Tasks |-> 0]
    /\ revived = [t \in Tasks |-> NotRevived]
    /\ left \in Budgets

----------------------------------------------------------------------------
\* Workers

Goto(w, p) == work' = [work EXCEPT ![w].pc = p]
Stop(w) == work' = [work EXCEPT ![w] = AtRest]
At(w, p) == work[w].pc = p

\* A worker takes a task, with the status and quota it read.
Take(w, t, p) ==
    /\ At(w, "idle")
    /\ work' = [work EXCEPT ![w] =
                   [pc |-> p, task |-> t, st |-> row[t].st, quota |-> row[t].quota]]

\* The amounts a worker's step moves from the user to the task.
Move(t, n) ==
    /\ funds' = funds - n
    /\ paid' = [paid EXCEPT ![t] = @ + n]
money == <<funds, paid>>

Spend(k) == left[k] > 0 /\ left' = [left EXCEPT ![k] = @ - 1]

\* An error or a crash ends the worker's turn between two transactions.
Abort(w) ==
    /\ ~At(w, "idle")
    /\ Spend("aborts")
    /\ Stop(w)
    /\ UNCHANGED <<row, up, tables, ref, money, revived>>

----------------------------------------------------------------------------
\* The upstream and the referral provider

UpstreamMoves(t) ==
    /\ row[t].st # "new"
    /\ \/ /\ up[t].st = "queued"
          /\ up' = [up EXCEPT ![t].st = "running"]
       \/ /\ up[t].st = "running"
          /\ \E c \in Quotas \cup {0} :
                up' = [up EXCEPT ![t] = [st |-> "success", cost |-> c]]
       \/ /\ up[t].st = "running"
          /\ up' = [up EXCEPT ![t].st = "failure"]
    /\ UNCHANGED <<row, work, tables, ref, money, rest>>

\* An administrator disables or enables the referral provider.
ReferralChanges ==
    /\ Spend("referrals")
    /\ ref' = ~ref
    /\ UNCHANGED <<row, up, work, tables, money, revived>>

\* The user's other requests spend the same funding.
OthersSpend(n) ==
    /\ Spend("spends")
    /\ n <= funds
    /\ funds' = funds - n
    /\ UNCHANGED <<row, up, work, tables, ref, paid, revived>>

----------------------------------------------------------------------------
\* Submission (controller/relay.go)

\* The request charges the task's quota and prepares the deferred earning;
\* RequestBilling has the steps of SettleTaskBillingAndPrepareProviderEarning.
SubmitCharge(t) ==
    /\ row[t].st = "new"
    /\ \E q \in Quotas, k \in Kinds :
          /\ q <= funds
          /\ Move(t, q)
          /\ row' = [row EXCEPT ![t] = [st |-> "charged", quota |-> q, kind |-> k]]
          /\ earn' = IF k = "supply"
                     THEN [earn EXCEPT ![t] = [status |-> "pending", deferred |-> TRUE,
                                               gross |-> q, split |-> ref]]
                     ELSE earn
    /\ UNCHANGED <<up, work, stl, rfd, ref, rest>>

Insert(t) ==
    /\ row[t].st = "charged"
    /\ row' = [row EXCEPT ![t].st = "queued"]
    /\ UNCHANGED <<up, work, tables, ref, money, rest>>

\* The insert fails and the request's goroutine refunds the accepted task.
InsertFails(t, w) ==
    /\ row[t].st = "charged"
    /\ Take(w, t, "refund")
    /\ row' = [row EXCEPT ![t].st = "gone"]
    /\ UNCHANGED <<up, tables, ref, money, rest>>

----------------------------------------------------------------------------
\* Polling and the timeout sweep

\* GetAllUnFinishSyncTasks and GetTimedOutUnfinishedTasks.
ReadUnfinished(w, t) ==
    /\ row[t].st \in Unfinished
    /\ Take(w, t, "commit")
    /\ UNCHANGED <<row, up, tables, ref, money, rest>>

\* Mutant of Unmoved: the row is saved by its id alone.
UnmovedUnchecked(w) == TRUE

\* WHERE status = fromStatus.
Unmoved(w) == row[work[w].task].st = work[w].st

\* The whole in-memory row is written, the quota the worker read included.
Written(w, st, q) ==
    [row EXCEPT ![work[w].task].st = st, ![work[w].task].quota = q]

CasLost(w) ==
    /\ At(w, "commit")
    /\ ~Unmoved(w)
    /\ Stop(w)
    /\ UNCHANGED <<row, up, tables, ref, money, rest>>

\* calculateTaskBillingOnComplete: what the upstream told, or the pre-charge.
ActualQuota(t, q) == IF up[t].cost > 0 THEN up[t].cost ELSE q

\* createBillingTaskSettlementTx: DO NOTHING on conflict, then the existing
\* row must be the same one.
StlFor(t, q) ==
    IF stl[t].status = "none"
    THEN [NoStl EXCEPT !.status = "pending", !.pre = q, !.act = ActualQuota(t, q)]
    ELSE stl[t]
StlMatches(t, q) ==
    stl[t].status = "none" \/ (stl[t].pre = q /\ stl[t].act = ActualQuota(t, q))

\* Mutant of AfterSuccess: the earning is finalized before the settlement.
AfterSuccessEarly == "ready"
AfterSuccess == "settle"

\* UpdateWithStatusAndBillingSettlement; a conflict rolls the commit back.
CommitSuccess(w) ==
    LET t == work[w].task
        q == work[w].quota
        ok == StlMatches(t, q)
    IN /\ At(w, "commit") /\ Unmoved(w)
       /\ up[t].st = "success"
       /\ row' = IF ok THEN Written(w, "success", q) ELSE row
       /\ stl' = [stl EXCEPT ![t] = StlFor(t, q)]
       /\ work' = [work EXCEPT ![w] =
                      IF ok THEN [@ EXCEPT !.pc = AfterSuccess, !.quota = ActualQuota(t, q)]
                      ELSE AtRest]
       /\ UNCHANGED <<up, rfd, earn, ref, money, rest>>

\* createBillingRefundTx.
RfdFor(t, q) ==
    IF rfd[t].status = "none" THEN [status |-> "pending", amount |-> q] ELSE rfd[t]
RfdMatches(t, q) == rfd[t].status = "none" \/ rfd[t].amount = q

\* UpdateWithStatusAndBillingRefund, reached when the upstream reports
\* failure, answers with an error, never gave a task id, or the task is
\* older than the timeout.
CommitFailure(w) ==
    LET t == work[w].task
        q == work[w].quota
        ok == RfdMatches(t, q)
    IN /\ At(w, "commit") /\ Unmoved(w)
       /\ q > 0
       /\ row' = IF ok THEN Written(w, "failure", q) ELSE row
       /\ rfd' = [rfd EXCEPT ![t] = RfdFor(t, q)]
       /\ work' = [work EXCEPT ![w] = IF ok THEN [@ EXCEPT !.pc = "refund"] ELSE AtRest]
       /\ UNCHANGED <<up, stl, earn, ref, money, rest>>

\* Without a quota there is nothing to refund; the sweep then cancels the
\* earning, the video poller does not.
CommitFreeFailure(w) ==
    /\ At(w, "commit") /\ Unmoved(w)
    /\ work[w].quota = 0
    /\ row' = Written(w, "failure", 0)
    /\ Goto(w, "cancel") \/ Stop(w)
    /\ UNCHANGED <<up, tables, ref, money, rest>>

\* The sweep fails a legacy task and clears its quota: nothing is refunded.
SweepLegacy(w) ==
    /\ At(w, "commit") /\ Unmoved(w)
    /\ row[work[w].task].kind = "legacy"
    /\ row' = Written(w, "failure", 0)
    /\ Stop(w)
    /\ UNCHANGED <<up, tables, ref, money, rest>>

\* Progress is written with UpdateWithStatus.
CommitProgress(w) ==
    LET t == work[w].task
    IN /\ At(w, "commit") /\ Unmoved(w)
       /\ up[t].st \in Unfinished
       /\ row' = Written(w, up[t].st, work[w].quota)
       /\ Stop(w)
       /\ UNCHANGED <<up, tables, ref, money, rest>>

----------------------------------------------------------------------------
\* Settlement of a finished task

\* ProcessBillingTaskSettlement moves money only for a pending row.
Chargeable(t) == stl[t].status = "pending"

Delta(t) == stl[t].act - stl[t].pre

\* Mutant of CanCharge: the user's balance is not part of the update.
CanChargeUncovered(t) == row[t].quota = stl[t].pre

\* The checks on the task's quota and the user's funds.
CanCharge(t) == row[t].quota = stl[t].pre /\ Delta(t) <= funds

\* completePersistedTaskQuotaSettlement, first transaction.
ProcessSettlement(w) ==
    LET t == work[w].task
    IN /\ At(w, "settle")
       /\ \/ /\ Chargeable(t) /\ CanCharge(t)
             /\ Move(t, Delta(t))
             /\ row' = [row EXCEPT ![t].quota = stl[t].act]
             /\ stl' = [stl EXCEPT ![t].status = "complete"]
             /\ work' = [work EXCEPT ![w].pc = "mark", ![w].quota = stl[t].act]
          \/ /\ Chargeable(t) /\ ~CanCharge(t)
             /\ Stop(w)
             /\ UNCHANGED <<row, stl, money>>
          \/ /\ ~Chargeable(t)
             /\ work' = [work EXCEPT ![w].pc = "mark", ![w].quota = stl[t].act]
             /\ UNCHANGED <<row, stl, money>>
       /\ UNCHANGED <<up, rfd, earn, ref, rest>>

\* recordTaskQuotaAdjustment and MarkBillingTaskSettlementAccountingRecorded.
MarkAccounting(w) ==
    /\ At(w, "mark")
    /\ stl' = [stl EXCEPT ![work[w].task].marked = TRUE]
    /\ Goto(w, "ready")
    /\ UNCHANGED <<row, up, rfd, earn, ref, money, rest>>

\* The stored shares of a settled earning are compared with the shares
\* calculateHubProviderEarningRevenueSplit computes now.
SameSplit(t, q) == earn[t].gross = q /\ earn[t].split = ref

\* MarkHubProviderEarningReady; a task without an earning row has no provider.
MarkReady(w) ==
    LET t == work[w].task
        q == work[w].quota
    IN /\ At(w, "ready")
       /\ \/ /\ q = 0 \/ earn[t].status = "none"
             /\ Goto(w, "release")
             /\ UNCHANGED earn
          \/ /\ q > 0 /\ earn[t].status = "pending"
             /\ earn' = [earn EXCEPT ![t] = [@ EXCEPT !.deferred = FALSE, !.gross = q,
                                                      !.split = ref]]
             /\ Goto(w, "earn")
          \/ /\ q > 0 /\ earn[t].status = "settled"
             /\ IF SameSplit(t, q) THEN Goto(w, "earn") ELSE Stop(w)
             /\ UNCHANGED earn
          \/ /\ q > 0 /\ earn[t].status = "cancelled"
             /\ Stop(w)
             /\ UNCHANGED earn
       /\ UNCHANGED <<row, up, stl, rfd, ref, money, rest>>

Settled(t, q) ==
    earn' = [earn EXCEPT ![t] = [@ EXCEPT !.status = "settled", !.gross = q, !.split = ref]]

\* SettleHubProviderEarning.
SettleEarning(w) ==
    LET t == work[w].task
        q == work[w].quota
    IN /\ At(w, "earn")
       /\ \/ /\ earn[t].status = "pending" /\ ~earn[t].deferred
             /\ Settled(t, q)
             /\ Goto(w, "release")
          \/ /\ earn[t].status = "settled"
             /\ IF SameSplit(t, q) THEN Goto(w, "release") ELSE Stop(w)
             /\ UNCHANGED earn
          \/ /\ earn[t].status = "cancelled"
             /\ Stop(w)
             /\ UNCHANGED earn
       /\ UNCHANGED <<row, up, stl, rfd, ref, money, rest>>

\* MarkBillingTaskSettlementEarningReleased.
Release(w) ==
    /\ At(w, "release")
    /\ stl' = IF stl[work[w].task].status = "complete"
              THEN [stl EXCEPT ![work[w].task].released = TRUE] ELSE stl
    /\ Stop(w)
    /\ UNCHANGED <<row, up, rfd, earn, ref, money, rest>>

----------------------------------------------------------------------------
\* Refund of a failed task (RefundTaskQuota)

\* CreateBillingRefund finds the intent of the commit, or makes it for a task
\* that was never inserted.
CreateRefund(w) ==
    LET t == work[w].task
        q == work[w].quota
    IN /\ At(w, "refund")
       /\ rfd' = [rfd EXCEPT ![t] = RfdFor(t, q)]
       /\ IF ~RfdMatches(t, q) THEN Stop(w)
          ELSE Goto(w, IF rfd[t].status = "complete" THEN "cancel" ELSE "process")
       /\ UNCHANGED <<row, up, stl, earn, ref, money, rest>>

\* cancelHubProviderEarningTx.
Cancelled(t) ==
    IF earn[t].status = "pending" THEN [earn EXCEPT ![t].status = "cancelled"] ELSE earn

\* Mutant of Returnable: a completed refund is processed again.
ReturnableAgain(t) == TRUE

Returnable(t) == rfd[t].status = "pending"

\* Mutant of Payout: the earning was checked before the transaction.
PayoutUnchecked(t) == FALSE

\* ErrHubProviderEarningAlreadySettled.
Payout(t) == earn[t].status = "settled"

\* ProcessBillingRefund: the earning is cancelled, the money returned and the
\* task's quota cleared in one transaction; refused if the earning is settled.
ProcessRefund(w) ==
    LET t == work[w].task
    IN /\ At(w, "process")
       /\ \/ /\ Returnable(t) /\ ~Payout(t)
             /\ earn' = Cancelled(t)
             /\ Move(t, -rfd[t].amount)
             /\ row' = [row EXCEPT ![t].quota = 0]
             /\ rfd' = [rfd EXCEPT ![t].status = "complete"]
             /\ Goto(w, "cancel")
          \/ /\ Returnable(t) /\ Payout(t)
             /\ Stop(w)
             /\ UNCHANGED <<row, rfd, earn, money>>
          \/ /\ ~Returnable(t)
             /\ Goto(w, "cancel")
             /\ UNCHANGED <<row, rfd, earn, money>>
       /\ UNCHANGED <<up, stl, ref, rest>>

\* CancelTaskProviderEarning; its error is only logged.
CancelEarning(w) ==
    /\ At(w, "cancel")
    /\ earn' = Cancelled(work[w].task)
    /\ Stop(w)
    /\ UNCHANGED <<row, up, stl, rfd, ref, money, rest>>

----------------------------------------------------------------------------
\* Recovery workers

\* Mutants of Recoverable: a completed settlement is considered done; only a
\* completed one is looked for.
RecoverablePending(t) == stl[t].status = "pending"
RecoverableComplete(t) == stl[t].status = "complete" /\ ~stl[t].released

\* ListRecoverableBillingTaskSettlementIDs; its back-off is RecoveryBatches'.
Recoverable(t) ==
    stl[t].status = "pending" \/ (stl[t].status = "complete" /\ ~stl[t].released)

RecoverSettlement(w, t) ==
    /\ At(w, "idle")
    /\ Recoverable(t)
    /\ work' = [work EXCEPT ![w] =
                  [pc |-> IF stl[t].status = "pending" THEN "settle"
                          ELSE IF stl[t].marked THEN "ready" ELSE "mark",
                   task |-> t, st |-> row[t].st, quota |-> stl[t].act]]
    /\ UNCHANGED <<row, up, tables, ref, money, rest>>

RecoverRefund(w, t) ==
    /\ rfd[t].status = "pending"
    /\ Take(w, t, "process")
    /\ UNCHANGED <<row, up, tables, ref, money, rest>>

\* RecoverReadyHubProviderEarnings settles one released earning.
RecoverEarning(t) ==
    /\ earn[t].status = "pending" /\ ~earn[t].deferred
    /\ Settled(t, earn[t].gross)
    /\ UNCHANGED <<row, up, work, stl, rfd, ref, money, rest>>

----------------------------------------------------------------------------
\* What has been decided, charged and paid for a task: the settlement intent
\* decides the charge, the refund intent the return.
Payable(t) ==
    earn[t].status = "settled" \/ (earn[t].status = "pending" /\ ~earn[t].deferred)
Outcome(t) ==
    IF rfd[t].status # "none" THEN "returned"
    ELSE IF stl[t].status # "none" THEN "charged" ELSE "open"
View(t) == [yes |-> TRUE, outcome |-> Outcome(t), price |-> stl[t].act,
            income |-> IF Payable(t) THEN earn[t].gross ELSE 0]

\* A user's status query on a Gemini or Vertex channel (tryRealtimeFetch)

Visit(w, t) ==
    /\ row[t].st \in Unfinished \cup Terminal
    /\ Spend("visits")
    /\ Take(w, t, "display")
    /\ UNCHANGED <<row, up, tables, ref, money, revived>>

\* shouldPersistRealtimeTaskSnapshot.
shouldPersist(previous, current) == previous \in Terminal \/ current \in Unfinished

\* The row is written when the snapshot differs from what was read: with another
\* status always, with the same one when progress, result or data differ.
Display(w) ==
    LET t == work[w].task
        mayWrite == shouldPersist(work[w].st, up[t].st) /\ Unmoved(w)
        writes == mayWrite /\ row' = Written(w, up[t].st, work[w].quota)
        revives == row[t].st \in Terminal /\ row' # row
    IN /\ At(w, "display")
       /\ \/ writes
          \/ row' = row /\ (mayWrite => work[w].st = up[t].st)
       /\ revived' = IF revives /\ ~revived[t].yes
                     THEN [revived EXCEPT ![t] = View(t)] ELSE revived
       /\ Stop(w)
       /\ UNCHANGED <<up, tables, ref, money, left>>

----------------------------------------------------------------------------
Step(w) ==
    \/ CasLost(w) \/ CommitSuccess(w) \/ CommitFailure(w) \/ CommitFreeFailure(w)
    \/ SweepLegacy(w) \/ CommitProgress(w)
    \/ ProcessSettlement(w) \/ MarkAccounting(w) \/ MarkReady(w)
    \/ SettleEarning(w) \/ Release(w)
    \/ CreateRefund(w) \/ ProcessRefund(w) \/ CancelEarning(w)
    \/ Display(w)

Next ==
    \/ \E t \in Tasks :
          \/ SubmitCharge(t) \/ Insert(t) \/ UpstreamMoves(t) \/ RecoverEarning(t)
          \/ \E w \in Pollers : InsertFails(t, w) \/ ReadUnfinished(w, t)
          \/ \E w \in Recoverers : RecoverSettlement(w, t) \/ RecoverRefund(w, t)
          \/ \E w \in Visitors : Visit(w, t)
    \/ \E w \in Workers : Step(w) \/ Abort(w)
    \/ ReferralChanges
    \/ \E n \in Quotas : OthersSpend(n)

Spec == Init /\ [][Next]_vars

\* Goroutines run on; every recovery pass takes each row its query lists, one
\* after the other.
Fairness ==
    /\ \A w \in Workers : WF_vars(Step(w))
    /\ \A t \in Tasks :
          /\ WF_vars(RecoverEarning(t))
          /\ SF_vars(\E w \in Recoverers : RecoverSettlement(w, t))
          /\ SF_vars(\E w \in Recoverers : RecoverRefund(w, t))

FairSpec == Spec /\ Fairness

----------------------------------------------------------------------------
\* Properties
\*
\* A status query may write what the upstream reports over a final status
\* (relay/relay_task.go:546).  What the properties below say of a task holds
\* until that happens to it; NoPaidRefund holds whatever happens.

Persisted(t) == row[t].st \in Unfinished \cup Terminal

\* Two passes, a sweep and the recovery of the same task never bill it twice:
\* the quota shown on the task is what the user has paid for it, a completed
\* settlement charged exactly the actual quota and a completed refund returned
\* everything.
BooksAgree ==
    \A t \in Tasks : ~revived[t].yes =>
       /\ Persisted(t) /\ row[t].kind # "legacy" => paid[t] = row[t].quota
       /\ stl[t].status = "complete" => paid[t] = stl[t].act
       /\ rfd[t].status = "complete" => paid[t] = 0

\* Provider income of a task waits for its final settlement: the earning is
\* payable only when the user has really been charged its gross amount, not
\* while the task runs, after a refund or on an earlier amount.
EarningFollowsSettlement ==
    \A t \in Tasks : Payable(t) /\ ~revived[t].yes =>
       /\ stl[t].status = "complete" /\ stl[t].marked
       /\ earn[t].gross = stl[t].act /\ earn[t].gross = paid[t]

\* Even when a user's status query brings a finished task back, the platform
\* never pays the provider for a task it has refunded.
NoPaidRefund == \A t \in Tasks : rfd[t].status = "complete" => ~Payable(t)

\* The abstract view of a task, as it was when a status query revived it.
Seen(t) == IF revived[t].yes THEN revived[t] ELSE View(t)
Abstract == INSTANCE RequestOutcome WITH
    Requests <- Tasks,
    outcome <- [t \in Tasks |-> Seen(t).outcome],
    price <- [t \in Tasks |-> Seen(t).price],
    income <- [t \in Tasks |-> Seen(t).income]

\* Asynchronous billing keeps the promise synchronous billing keeps: a task is
\* charged once or returned, and its provider paid once what was charged.
ImplementsOutcome == Abstract!Spec

\* What a commit decided is carried out, whatever worker died on the way: the
\* refund is returned, and the settlement charged unless the user cannot pay.
DecisionCarriedOut ==
    \A t \in Tasks :
       /\ rfd[t].status = "pending" ~> rfd[t].status = "complete" \/ revived[t].yes
       /\ stl[t].status = "pending"
            ~> stl[t].status = "complete" \/ Delta(t) > funds \/ revived[t].yes

\* A charged settlement is released with its provider paid, however often the
\* steps after the charge are interrupted and repeated; unless the referral
\* changed after the earning was settled, when the shares computed again differ
\* from the stored ones and every retry fails.
SettlementReleased ==
    \A t \in Tasks : stl[t].status = "complete" ~>
       \/ stl[t].released /\ (row[t].kind = "supply" => earn[t].status = "settled")
       \/ earn[t].status = "settled" /\ earn[t].split # ref
       \/ revived[t].yes
============================================================================
