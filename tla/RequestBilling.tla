--------------------------- MODULE RequestBilling ---------------------------
(***************************************************************************)
(* The money path of a synchronous relay request: pre-charge, top-up       *)
(* before a dearer retry, settlement, refund, violation fee, provider      *)
(* earning, and the recovery of what a failure left pending                *)
(* (service/billing_session.go, funding_source.go, billing.go,             *)
(* violation_fee.go, hub_provider_settlement.go and the tables they write).*)
(*                                                                         *)
(* Requests of one user share a wallet, a subscription and a token.  Every *)
(* database statement or transaction is one step, so that requests and the *)
(* recovery workers interleave between any two of them.  A statement that  *)
(* returns an error has not been applied.                                  *)
(***************************************************************************)
EXTENDS Integers, Sequences, FiniteSets

CONSTANTS
    Requests,        \* request ids
    Quotas,          \* amounts each request may ask for, reserve or consume
    InitialBalance,  \* balance of each account at the start
    TokenUnlimited,  \* token.unlimited_quota
    AllowOverflow,   \* user_subscription.allow_wallet_overflow
    Plans,           \* orders in which funding sources are tried
    Playground,      \* requests that do not use the token's quota
    Supply           \* requests served by a provider that earns on them

Sources == {"wallet", "subscription"}
Accounts == Sources \cup {"token"}

\* Wallet_only, subscription_only, wallet_first and subscription_first;
\* NewBillingSession falls back to the wallet only if the plan allows it.
AllPlans == {<<"wallet">>, <<"subscription">>, <<"wallet", "subscription">>,
             <<"subscription", "wallet">>}

ASSUME QuotasAssumption == Quotas \in [Requests -> SUBSET Nat]
ASSUME BalanceAssumption == InitialBalance \in [Accounts -> Nat]
ASSUME PlansAssumption ==
    /\ Plans \subseteq AllPlans
    /\ <<"subscription", "wallet">> \in Plans => AllowOverflow
ASSUME FlagsAssumption == TokenUnlimited \in BOOLEAN /\ AllowOverflow \in BOOLEAN
ASSUME RequestsAssumption == Playground \subseteq Requests /\ Supply \subseteq Requests

VARIABLES
    bal,      \* users.quota, subscription total - used, tokens.remain_quota
    pc,       \* the next statement of each request's goroutine
    sess,     \* the BillingSession of each request
    earning,  \* hub_provider_earnings row of each request
    refund,   \* billing_refunds row of each request
    adj,      \* billing_token_adjustments row of each request
    taken,    \* history: net amount each request took from each account
    fee,      \* history: the violation fee among it
    slip      \* history: a compensation of the request was lost to an error

tables == <<earning, refund, adj>>
money == <<bal, taken, fee>>
vars == <<bal, pc, sess, earning, refund, adj, taken, fee, slip>>

PCs == {"idle", "open", "token", "fund", "undo", "serving", "reserved",
        "unreserve", "prepare", "settle", "overflow", "settleToken", "adjust",
        "publish", "cancel", "earn", "closing", "fee", "done", "dead"}

\* state: the flags fundingSettled, retainedPreQuota, settled and refunded;
\* amt: the amount of the step under way (pre-charge or top-up delta);
\* act: the final quota; err: the handler will return an error.
States == {"open", "funded", "retained", "settled", "refunded"}
NoSession ==
    [src |-> "none", plan |-> <<>>, amt |-> 0, pre |-> 0, tok |-> 0, extra |-> 0,
     held |-> 0, act |-> 0, com |-> 0, state |-> "open", err |-> FALSE]
Sessions ==
    [src : Sources \cup {"none"}, plan : Seq(Sources), amt : Nat, pre : Nat,
     tok : Nat, extra : Nat, held : Nat, act : Nat, com : Nat, state : States,
     err : BOOLEAN]

NoEarning == [status |-> "none", deferred |-> TRUE, gross |-> 0]
Earnings == [status : {"none", "pending", "settled", "cancelled"},
             deferred : BOOLEAN, gross : Nat]
NoRefund == [status |-> "none", src |-> "none", fund |-> 0, extra |-> 0, token |-> 0]
Refunds == [status : {"none", "pending", "complete"}, src : Sources \cup {"none"},
            fund : Nat, extra : Nat, token : Nat]
NoAdj == [status |-> "none", delta |-> 0]
Adjs == [status : {"none", "pending", "complete"}, delta : Int]

TypeOK ==
    /\ bal \in [Accounts -> Int]
    /\ pc \in [Requests -> PCs]
    /\ sess \in [Requests -> Sessions]
    /\ earning \in [Requests -> Earnings]
    /\ refund \in [Requests -> Refunds]
    /\ adj \in [Requests -> Adjs]
    /\ taken \in [Requests -> [Accounts -> Int]]
    /\ fee \in [Requests -> Nat]
    /\ slip \in [Requests -> BOOLEAN]

Init ==
    /\ bal = InitialBalance
    /\ pc = [r \in Requests |-> "idle"]
    /\ sess = [r \in Requests |-> NoSession]
    /\ earning = [r \in Requests |-> NoEarning]
    /\ refund = [r \in Requests |-> NoRefund]
    /\ adj = [r \in Requests |-> NoAdj]
    /\ taken = [r \in Requests |-> [a \in Accounts |-> 0]]
    /\ fee = [r \in Requests |-> 0]
    /\ slip = [r \in Requests |-> FALSE]

----------------------------------------------------------------------------
\* Accounts

\* Mutant of Covers: the balance was checked before, not in the update.
CoversAnything(a, n) == TRUE

\* The WHERE clause of TryDecreaseUserQuota and decreaseTokenQuotaTx and the
\* total check of postConsumeUserSubscriptionDeltaTx.
Covers(a, n) == (a = "token" /\ TokenUnlimited) \/ bal[a] >= n

\* The CASE of the token updates: the remaining quota of an unlimited token
\* does not move, only its used quota.
Metered(a, n) == IF a = "token" /\ TokenUnlimited THEN 0 ELSE n

\* postConsumeUserSubscriptionDeltaTx clamps amount_used at 0, which a period
\* reset between the charge and its return makes necessary.
Capped(a, n) ==
    IF a = "subscription" /\ n > InitialBalance[a] THEN InitialBalance[a] ELSE n

Charge(r, a, n) ==
    /\ Covers(a, n)
    /\ bal' = [bal EXCEPT ![a] = @ - Metered(a, n)]
    /\ taken' = [taken EXCEPT ![r][a] = @ + n]
    /\ UNCHANGED fee

Credit(r, a, n) ==
    /\ bal' = [bal EXCEPT ![a] = Capped(a, @ + Metered(a, n))]
    /\ taken' = [taken EXCEPT ![r][a] = @ - n]
    /\ UNCHANGED fee

\* A settlement delta: positive deltas are charged, negative ones returned.
Apply(r, a, delta) == IF delta >= 0 THEN Charge(r, a, delta) ELSE Credit(r, a, -delta)

Goto(r, l) == pc' = [pc EXCEPT ![r] = l]
Become(r, s) == sess' = [sess EXCEPT ![r] = s]

\* A best-effort compensation fails and is only logged.  Bound: at most one of
\* the compensations of a request is lost.
Lost(r) == ~slip[r] /\ slip' = [slip EXCEPT ![r] = TRUE]

----------------------------------------------------------------------------
\* Pre-charge: PreConsumeBilling, NewBillingSession, preConsume

\* A session is opened for `want`, trying the sources of a plan in order.
OpenSession(r, want) ==
    \E plan \in Plans :
       /\ Become(r, [NoSession EXCEPT !.plan = plan, !.amt = want, !.err = sess[r].err])
       /\ Goto(r, "open")

\* Relay: a free model skips billing, anything else is pre-charged.
Begin(r, want) ==
    /\ pc[r] = "idle"
    /\ \/ OpenSession(r, want)
       \/ want = 0 /\ Goto(r, "serving") /\ UNCHANGED sess
    /\ UNCHANGED <<money, tables, slip>>

\* The session is dropped; the next source of the plan is tried, or the
\* request fails without a session: no Refund is deferred yet, or there is
\* nothing for it to do.
NextSource(r, rest) ==
    /\ Become(r, [NoSession EXCEPT !.plan = rest, !.amt = sess[r].amt, !.err = rest = <<>>])
    /\ Goto(r, IF rest = <<>> THEN "done" ELSE "open")

\* tryWallet: the balance is read through a cache, so the check may pass or
\* fail whatever the real balance is; a trusted user is not pre-charged.
TryWallet(r) ==
    /\ pc[r] = "open" /\ Head(sess[r].plan) = "wallet"
    /\ \/ \E rest \in {Tail(sess[r].plan), <<>>} : NextSource(r, rest)
       \/ Become(r, [sess[r] EXCEPT !.src = "wallet", !.amt = 0]) /\ Goto(r, "serving")
       \/ sess[r].amt > 0 /\ Goto(r, "token") /\ UNCHANGED sess
    /\ UNCHANGED <<money, tables, slip>>

\* trySubscription always pre-charges, at least 1.
TrySubscription(r) ==
    /\ pc[r] = "open" /\ Head(sess[r].plan) = "subscription"
    /\ Become(r, [sess[r] EXCEPT !.amt = IF @ = 0 THEN 1 ELSE @])
    /\ Goto(r, "token")
    /\ UNCHANGED <<money, tables, slip>>

\* The part of n that the token of r pays too: none for the playground.
Share(r, n) == IF r \in Playground THEN 0 ELSE n

\* The token's quota, unless the request comes from the playground.
TokenStep(r, delta) ==
    IF r \in Playground THEN UNCHANGED money ELSE Apply(r, "token", delta)

\* PreConsumeTokenQuota; its failure is not a reason to try another source.
PreConsumeToken(r) ==
    /\ pc[r] = "token"
    /\ \/ /\ TokenStep(r, sess[r].amt)
          /\ Become(r, [sess[r] EXCEPT !.tok = sess[r].amt])
          /\ Goto(r, "fund")
       \/ r \notin Playground /\ NextSource(r, <<>>) /\ UNCHANGED money
    /\ UNCHANGED <<tables, slip>>

\* FundingSource.PreConsume.  Only insufficient quota moves on to the next
\* source of the plan; a database error fails the request.
PreConsumeFunding(r) ==
    LET a == Head(sess[r].plan) IN
    /\ pc[r] = "fund"
    /\ \/ /\ Charge(r, a, sess[r].amt)
          /\ Become(r, [sess[r] EXCEPT !.src = a, !.pre = sess[r].amt,
                                       !.held = sess[r].amt, !.amt = 0])
          /\ Goto(r, "serving")
       \/ /\ \E rest \in {Tail(sess[r].plan), <<>>} :
                /\ rest = <<>> \/ ~Covers(a, sess[r].amt)
                /\ Become(r, [sess[r] EXCEPT !.plan = rest])
          /\ Goto(r, "undo")
          /\ UNCHANGED money
    /\ UNCHANGED <<tables, slip>>

\* preConsume returns the token quota when funding failed.
UndoToken(r) ==
    /\ pc[r] = "undo"
    /\ \/ TokenStep(r, -sess[r].tok) /\ UNCHANGED slip
       \/ r \notin Playground /\ Lost(r) /\ UNCHANGED money
    /\ NextSource(r, sess[r].plan)
    /\ UNCHANGED tables

----------------------------------------------------------------------------
\* Top-up: PrepareBillingForSelectedChannel, PreWssConsumeQuota, Reserve

\* A failed Reserve ends an ordinary request; a realtime session still settles
\* the usage so far before it returns the error.
ReserveFailed(r, s) ==
    /\ Become(r, [s EXCEPT !.err = TRUE, !.amt = 0])
    /\ \E l \in {"serving", "closing"} : Goto(r, l)

\* WalletFunding.consumed follows the top-up; a subscription's does not.
Held(s, n) == IF s.src = "wallet" THEN s.held + n ELSE s.held

ReserveFunding(r, target) ==
    LET delta == target - sess[r].pre IN
    /\ pc[r] = "serving" /\ sess[r].src # "none" /\ delta > 0
    /\ \/ /\ Charge(r, sess[r].src, delta)
          /\ Become(r, [sess[r] EXCEPT !.amt = delta, !.held = Held(sess[r], delta)])
          /\ Goto(r, "reserved")
       \/ ReserveFailed(r, sess[r]) /\ UNCHANGED money
    /\ UNCHANGED <<tables, slip>>

\* A free request is routed to a channel that is not free.
PreConsumeLate(r, target) ==
    /\ pc[r] = "serving" /\ sess[r].src = "none" /\ target > 0
    /\ OpenSession(r, target)
    /\ UNCHANGED <<money, tables, slip>>

ReserveToken(r) ==
    /\ pc[r] = "reserved"
    /\ \/ /\ TokenStep(r, sess[r].amt)
          /\ Become(r, [sess[r] EXCEPT !.pre = @ + sess[r].amt, !.tok = @ + sess[r].amt,
                                       !.extra = @ + sess[r].amt, !.amt = 0])
          /\ Goto(r, "serving")
       \/ r \notin Playground /\ Goto(r, "unreserve") /\ UNCHANGED <<money, sess>>
    /\ UNCHANGED <<tables, slip>>

\* rollbackFundingReserve: best effort.
RollbackReserve(r) ==
    /\ pc[r] = "unreserve"
    /\ \/ /\ Credit(r, sess[r].src, sess[r].amt)
          /\ ReserveFailed(r, [sess[r] EXCEPT !.held = Held(sess[r], -sess[r].amt)])
          /\ UNCHANGED slip
       \/ ReserveFailed(r, sess[r]) /\ Lost(r) /\ UNCHANGED money
    /\ UNCHANGED tables

----------------------------------------------------------------------------
\* Upstream, then settlement: SettleBillingAndProviderEarning

UpstreamFails(r) ==
    /\ pc[r] = "serving"
    /\ Become(r, [sess[r] EXCEPT !.err = TRUE])
    /\ Goto(r, "closing")
    /\ UNCHANGED <<money, tables, slip>>

UpstreamSucceeds(r, act) ==
    /\ pc[r] = "serving"
    /\ Become(r, [sess[r] EXCEPT !.act = act])
    /\ Goto(r, "prepare")
    /\ UNCHANGED <<money, tables, slip>>

\* PrepareHubProviderEarning: the estimate, not payable before it is released.
PreparedEarning(r) == [status |-> "pending", deferred |-> TRUE, gross |-> sess[r].act]

\* prepareHubProviderEarning; a failure stops the settlement.
PrepareEarning(r) ==
    /\ pc[r] = "prepare"
    /\ \/ /\ sess[r].act = 0 \/ r \notin Supply
          /\ Goto(r, "settle")
          /\ UNCHANGED <<sess, earning>>
       \/ /\ sess[r].act > 0 /\ r \in Supply
          /\ earning' = [earning EXCEPT ![r] = PreparedEarning(r)]
          /\ Goto(r, "settle")
          /\ UNCHANGED sess
       \/ /\ sess[r].act > 0 /\ r \in Supply
          /\ Become(r, [sess[r] EXCEPT !.err = TRUE])
          /\ Goto(r, "closing")
          /\ UNCHANGED earning
    /\ UNCHANGED <<money, refund, adj, slip>>

\* SettleBilling gives a request without a session a wallet session when a
\* zero-priced model turns out to cost something.
SettleSource(r) == IF sess[r].src = "none" THEN "wallet" ELSE sess[r].src
Delta(r) == sess[r].act - sess[r].pre

\* Nothing to adjust: an exact pre-charge, or no session and no charge.
SettleEven(r) ==
    /\ pc[r] = "settle" /\ Delta(r) = 0
    /\ \/ /\ sess[r].src # "none"
          /\ Become(r, [sess[r] EXCEPT !.state = "settled", !.com = sess[r].act])
          /\ Goto(r, "publish")
       \/ sess[r].src = "none" /\ Goto(r, "closing") /\ UNCHANGED sess
    /\ UNCHANGED <<money, tables, slip>>

\* Mutant of FundingSettled: the delta is recorded as the committed quota.
FundingSettledDelta(r) ==
    /\ Become(r, [sess[r] EXCEPT !.src = SettleSource(r), !.state = "funded",
                                 !.com = Delta(r)])
    /\ Goto(r, "settleToken")

\* The funding change is committed, the token's is still to come.
FundingSettled(r) ==
    /\ Become(r, [sess[r] EXCEPT !.src = SettleSource(r), !.state = "funded",
                                 !.com = sess[r].act])
    /\ Goto(r, "settleToken")

\* Mutant of Retained: the unpaid final quota is recorded as committed.
RetainedAsActual(r) ==
    [sess[r] EXCEPT !.src = SettleSource(r), !.err = TRUE, !.state = "retained",
                    !.com = sess[r].act]

\* The adjustment failed: a successful request keeps its pre-charge.
Retained(r) ==
    IF sess[r].act > 0 /\ sess[r].pre > 0
    THEN [sess[r] EXCEPT !.err = TRUE, !.state = "retained", !.com = sess[r].pre]
    ELSE [sess[r] EXCEPT !.src = SettleSource(r), !.err = TRUE]
SettleFailed(r) ==
    /\ Become(r, Retained(r))
    /\ Goto(r, IF Retained(r).state = "retained" THEN "publish" ELSE "cancel")
    /\ UNCHANGED money

\* FundingSource.Settle; a subscription without room may overflow to the wallet.
SettleFunding(r) ==
    LET a == SettleSource(r) IN
    /\ pc[r] = "settle" /\ Delta(r) # 0
    /\ \/ Apply(r, a, Delta(r)) /\ FundingSettled(r)
       \/ /\ a = "subscription" /\ AllowOverflow /\ ~Covers(a, Delta(r))
          /\ Goto(r, "overflow")
          /\ UNCHANGED <<money, sess>>
       \/ SettleFailed(r)
    /\ UNCHANGED <<tables, slip>>

SettleOverflow(r) ==
    /\ pc[r] = "overflow"
    /\ \/ Charge(r, "wallet", Delta(r)) /\ FundingSettled(r)
       \/ SettleFailed(r)
    /\ UNCHANGED <<tables, slip>>

SettleToken(r) ==
    /\ pc[r] = "settleToken"
    /\ \/ /\ TokenStep(r, Delta(r))
          /\ Become(r, [sess[r] EXCEPT !.state = "settled"])
          /\ Goto(r, "publish")
       \/ r \notin Playground /\ Goto(r, "adjust") /\ UNCHANGED <<money, sess>>
    /\ UNCHANGED <<tables, slip>>

\* CreateBillingTokenAdjustment keeps the token delta for recovery; when even
\* that fails the settlement reports an error, with the charge committed.
PersistAdjustment(r) ==
    /\ pc[r] = "adjust"
    /\ \/ /\ adj' = [adj EXCEPT ![r] = [status |-> "pending", delta |-> Delta(r)]]
          /\ Become(r, [sess[r] EXCEPT !.state = "settled"])
          /\ UNCHANGED slip
       \/ /\ Become(r, [sess[r] EXCEPT !.state = "settled", !.err = TRUE])
          /\ Lost(r)
          /\ UNCHANGED adj
    /\ Goto(r, "publish")
    /\ UNCHANGED <<money, earning, refund>>

----------------------------------------------------------------------------
\* Provider earning after settlement

Pending(r) == earning[r].status = "pending"
Ready(r) == Pending(r) /\ ~earning[r].deferred

\* Mutant of ReadyEarning: the estimate is published, not the committed quota.
ReadyEstimate(r) == [earning[r] EXCEPT !.deferred = FALSE]

\* MarkHubProviderEarningReady publishes the committed quota.
ReadyEarning(r) == [earning[r] EXCEPT !.deferred = FALSE, !.gross = sess[r].com]

MarkReady(r) ==
    /\ pc[r] = "publish"
    /\ \/ /\ Pending(r)
          /\ earning' = [earning EXCEPT ![r] = ReadyEarning(r)]
          /\ Goto(r, "earn")
          /\ UNCHANGED sess
       \/ /\ Pending(r)
          /\ Become(r, [sess[r] EXCEPT !.err = TRUE])
          /\ Goto(r, "closing")
          /\ UNCHANGED earning
       \/ ~Pending(r) /\ Goto(r, "closing") /\ UNCHANGED <<sess, earning>>
    /\ UNCHANGED <<money, refund, adj, slip>>

SettledEarning(r) == [earning EXCEPT ![r].status = "settled"]
CancelledEarning(r) ==
    IF Pending(r) THEN [earning EXCEPT ![r].status = "cancelled"] ELSE earning

\* SettleHubProviderEarning right after the release; recovery does it if this
\* attempt fails, and may already have done it.
SettleEarning(r) ==
    /\ pc[r] = "earn"
    /\ \/ Ready(r) /\ earning' = SettledEarning(r)
       \/ UNCHANGED earning
    /\ Goto(r, "closing")
    /\ UNCHANGED <<money, sess, refund, adj, slip>>

\* CancelHubProviderEarning after a settlement that committed nothing.
CancelEarning(r) ==
    /\ pc[r] = "cancel"
    /\ \/ earning' = CancelledEarning(r)
       \/ UNCHANGED earning
    /\ Goto(r, "closing")
    /\ UNCHANGED <<money, sess, refund, adj, slip>>

----------------------------------------------------------------------------
\* Refund

\* Mutant of Refundable: the flags of a committed settlement are not looked at.
RefundableAlways(s) == s.tok > 0 \/ (s.src = "subscription" /\ s.held > 0)

\* needsRefundLocked.
Refundable(s) ==
    /\ s.state = "open"
    /\ s.tok > 0 \/ (s.src = "subscription" /\ s.held > 0)

\* billingRefundParamsLocked.
RefundRow(r) ==
    [status |-> "pending", src |-> sess[r].src, fund |-> sess[r].held,
     extra |-> IF sess[r].src = "subscription" THEN sess[r].extra ELSE 0,
     token |-> Share(r, sess[r].tok)]

\* The deferred Refund runs when the handler returns an error: always after
\* err, and also after a settlement when a realtime session ends in an error.
\* Whether the error carries the violation marker is the upstream's word.
Refund(r) ==
    /\ pc[r] = "closing"
    /\ \/ /\ Refundable(sess[r])
          /\ refund' = [refund EXCEPT ![r] = RefundRow(r)]
          /\ Become(r, [sess[r] EXCEPT !.state = "refunded"])
          /\ UNCHANGED slip
       \/ Refundable(sess[r]) /\ Lost(r) /\ UNCHANGED <<sess, refund>>
       \/ ~Refundable(sess[r]) /\ UNCHANGED <<sess, refund, slip>>
    /\ \E l \in {"fee", "done"} : Goto(r, l)
    /\ UNCHANGED <<money, earning, adj>>

\* Mutant of FeeFromToken: only the funding source is charged.
FeeFromNoToken(r, n) == 0

\* The token part of ApplyLegacyQuotaAdjustment.
FeeFromToken(r, n) == Share(r, n)

\* ChargeViolationFeeIfNeeded, after Refund has written its row and whether or
\* not that is processed yet: ApplyLegacyQuotaAdjustment charges the session's
\* source and the token in one transaction; a failure is only logged.
ChargeViolationFee(r, n) ==
    LET a == SettleSource(r)
        t == FeeFromToken(r, n) IN
    /\ pc[r] = "fee" /\ n > 0
    /\ \/ /\ Covers(a, n) /\ Covers("token", t)
          /\ bal' = [bal EXCEPT ![a] = @ - n, !["token"] = @ - Metered("token", t)]
          /\ taken' = [taken EXCEPT ![r][a] = @ + n, ![r]["token"] = @ + t]
          /\ fee' = [fee EXCEPT ![r] = @ + n]
       \/ UNCHANGED money
    /\ Goto(r, "done")
    /\ UNCHANGED <<sess, tables, slip>>

\* The handler returns no error.
Finish(r) ==
    /\ pc[r] = "closing" /\ ~sess[r].err
    /\ Goto(r, "done")
    /\ UNCHANGED <<money, sess, tables, slip>>

\* Mutant of RefundDue: a completed row is processed again.
RefundDueAgain(r) ==
    refund[r].status \in {"pending", "complete"} /\ earning[r].status # "settled"

\* The row is still pending and cancelHubProviderEarningTx would not refuse.
RefundDue(r) == refund[r].status = "pending" /\ earning[r].status # "settled"

\* ProcessBillingRefund, by the request's own goroutine or by recovery: one
\* transaction that cancels the earning, returns funding and token quota and
\* completes the row.  It rolls back when the earning is already settled.
ProcessBillingRefund(r) ==
    LET f == refund[r] IN
    /\ RefundDue(r)
    /\ earning' = CancelledEarning(r)
    /\ bal' = [bal EXCEPT ![f.src] = Capped(f.src, @ + f.fund + f.extra),
                          !["token"] = @ + Metered("token", f.token)]
    /\ taken' = [taken EXCEPT ![r][f.src] = @ - f.fund - f.extra,
                              ![r]["token"] = @ - f.token]
    /\ refund' = [refund EXCEPT ![r].status = "complete"]
    /\ UNCHANGED <<pc, sess, adj, fee, slip>>

----------------------------------------------------------------------------
\* Recovery workers and environment

\* RecoverReadyHubProviderEarnings.
RecoverReadyEarning(r) ==
    /\ Ready(r)
    /\ earning' = SettledEarning(r)
    /\ UNCHANGED <<bal, pc, sess, refund, adj, taken, fee, slip>>

\* ProcessBillingTokenAdjustment: stays pending while the token cannot pay.
ProcessTokenAdjustment(r) ==
    /\ adj[r].status = "pending"
    /\ Apply(r, "token", adj[r].delta)
    /\ adj' = [adj EXCEPT ![r].status = "complete"]
    /\ UNCHANGED <<pc, sess, earning, refund, slip>>

\* ResetDueSubscriptions: a new period starts.
ResetSubscription ==
    /\ bal["subscription"] # InitialBalance["subscription"]
    /\ bal' = [bal EXCEPT !["subscription"] = InitialBalance["subscription"]]
    /\ UNCHANGED <<pc, sess, earning, refund, adj, taken, fee, slip>>

\* The process serving r dies.
Crash(r) ==
    /\ pc[r] \notin {"idle", "done", "dead"}
    /\ Goto(r, "dead")
    /\ UNCHANGED <<money, sess, tables, slip>>

Step(r) ==
    \/ \E q \in Quotas[r] : \/ Begin(r, q)
                            \/ ReserveFunding(r, q)
                            \/ PreConsumeLate(r, q)
                            \/ UpstreamSucceeds(r, q)
                            \/ ChargeViolationFee(r, q)
    \/ TryWallet(r) \/ TrySubscription(r) \/ PreConsumeToken(r)
    \/ PreConsumeFunding(r) \/ UndoToken(r) \/ ReserveToken(r) \/ RollbackReserve(r)
    \/ UpstreamFails(r) \/ PrepareEarning(r)
    \/ SettleEven(r) \/ SettleFunding(r) \/ SettleOverflow(r)
    \/ SettleToken(r) \/ PersistAdjustment(r)
    \/ MarkReady(r) \/ SettleEarning(r) \/ CancelEarning(r)
    \/ Refund(r) \/ Finish(r)

Recover(r) ==
    \/ ProcessBillingRefund(r) \/ RecoverReadyEarning(r) \/ ProcessTokenAdjustment(r)

Next ==
    \/ \E r \in Requests : Step(r) \/ Recover(r) \/ Crash(r)
    \/ ResetSubscription

Spec == Init /\ [][Next]_vars

\* The recovery tasks run every 15 s as long as there is something pending.
Fairness ==
    \A r \in Requests : /\ WF_vars(ProcessBillingRefund(r))
                        /\ WF_vars(RecoverReadyEarning(r))
                        /\ WF_vars(ProcessTokenAdjustment(r))
FairSpec == Spec /\ Fairness

----------------------------------------------------------------------------
\* Properties

\* What the request has paid for its answer, a violation fee apart.
Paid(r) == taken[r]["wallet"] + taken[r]["subscription"] - fee[r]
PaidByToken(r) == taken[r]["token"] - Share(r, fee[r])
Committed(r) == sess[r].state \in {"funded", "retained", "settled"}
Payable(r) == Ready(r) \/ earning[r].status = "settled"

\* Whatever requests, rollbacks, refunds and late token adjustments interleave,
\* no account goes below zero, and a refund that arrives after a period
\* reset does not give the subscription more than its total
\* (docs/llmhub/service-tier-routing-hardening.md: no negative balances).
NoOverdraft ==
    /\ \A a \in Accounts : bal[a] >= 0
    /\ bal["subscription"] <= InitialBalance["subscription"]

\* A provider is only ever owed what the consumer has really paid, and that
\* payment is not given back: not while the earning is settled later by
\* recovery, not after a retained pre-charge, not by a late deferred Refund.
EarningBacked ==
    \A r \in Requests : Payable(r) =>
       /\ 0 < earning[r].gross /\ earning[r].gross <= Paid(r)
       /\ ~slip[r] => earning[r].gross = Paid(r)

\* One accounting decision per request: a refund row exists only for a request
\* whose settlement never committed, so its transaction can never be refused
\* because the earning is settled ("a settled earning is never refunded").
RefundExcludesCharge ==
    \A r \in Requests : refund[r].status # "none" =>
       ~Committed(r) /\ ~Payable(r)

\* When a request is over, every account agrees on what it cost: a committed
\* request paid exactly its committed quota from funding and, once the pending
\* adjustment is applied, from the token; a refunded or uncommitted one paid
\* nothing.  On top of that comes the violation fee that an error may bring,
\* even for a refunded request: the same from funding and token.  Only a lost
\* compensation, which the code logs, can break this.
Cost(r) == IF Committed(r) THEN sess[r].com ELSE 0
AccountsAgree ==
    \A r \in Requests :
       pc[r] = "done" /\ ~slip[r] /\ refund[r].status # "pending" =>
          /\ taken[r]["wallet"] + taken[r]["subscription"] = Cost(r) + fee[r]
          /\ adj[r].status # "pending" =>
                taken[r]["token"] = Share(r, Cost(r)) + Share(r, fee[r])

\* A completed refund or a settled earning is the last word: no later step
\* moves the request's money or changes the decision.  The exception is the
\* violation fee, charged after the refund was ordered: it leaves the rest as
\* it is and is charged once.
BooksClosed ==
    [][\A r \in Requests :
          /\ refund[r].status = "complete" =>
                /\ refund'[r] = refund[r] /\ ~Payable(r)'
                /\ Paid(r)' = Paid(r) /\ PaidByToken(r)' = PaidByToken(r)
          /\ earning[r].status = "settled" =>
                earning'[r] = earning[r] /\ Paid(r)' = Paid(r)
          /\ fee[r] > 0 => fee'[r] = fee[r]]_vars

\* The abstract view of a request: decided by the refund row and the session's
\* flags, with the provider owed what is ready or settled.
Outcome(r) ==
    IF refund[r].status # "none" THEN "returned"
    ELSE IF Committed(r) THEN "charged" ELSE "open"
Abstract == INSTANCE RequestOutcome WITH
    outcome <- [r \in Requests |-> Outcome(r)],
    price <- [r \in Requests |-> Cost(r)],
    income <- [r \in Requests |-> IF Payable(r) THEN earning[r].gross ELSE 0]

\* Settlement, refund, release and recovery together implement RequestOutcome:
\* charged once or returned, and the provider paid exactly what was charged.
ImplementsOutcome == Abstract!Spec

\* Every refund intent, every released earning and every token credit that
\* reached its table is completed, whatever happened to the process.
RecoveryCompletes ==
    \A r \in Requests :
       /\ refund[r].status = "pending" ~> refund[r].status = "complete"
       /\ Ready(r) ~> earning[r].status = "settled"
       /\ adj[r].status = "pending" /\ adj[r].delta < 0 ~> adj[r].status = "complete"
============================================================================
