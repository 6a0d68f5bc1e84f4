----------------------- MODULE RequestBilling_proofs -----------------------
(***************************************************************************)
(* Theorems about RequestBilling, for every set of requests, every set of  *)
(* amounts and every initial balance.  They follow from one inductive      *)
(* invariant, IInv: types, the control state of a request against its      *)
(* rows (Ctl), and what it has paid so far (Funds).                        *)
(*                                                                         *)
(* RequestBilling implements RequestOutcome, closed books stay closed and  *)
(* every account agrees when a request is over.  The first two rest on     *)
(* what one step does to the decision about its request (Decision) and on  *)
(* its leaving the other requests alone (Frame); the last on what the      *)
(* session, the refund and the adjustment say was charged (Books).         *)
(***************************************************************************)
EXTENDS RequestBilling, TLAPS

Early == {"idle", "open", "token", "fund", "undo"}
Reserving == {"reserved", "unreserve"}
Serving == {"serving", "prepare", "settle", "overflow", "cancel"}

\* Where a request stands against the flags of its session and its rows.
Ctl(r) ==
    /\ pc[r] \in {"open", "token", "fund"} => Len(sess[r].plan) > 0
    /\ pc[r] \in Early \cup Reserving \cup Serving => sess[r].state = "open"
    /\ pc[r] \in {"settleToken", "adjust"} => sess[r].state = "funded"
    /\ pc[r] \in {"publish", "earn"} => sess[r].state \in {"retained", "settled"}
    /\ sess[r].state = "refunded" <=> refund[r].status # "none"
    /\ sess[r].state = "refunded" => pc[r] \in {"fee", "done", "dead"}
    /\ pc[r] \in Early \cup Reserving \cup {"serving", "prepare"} =>
          earning[r].status = "none"
    /\ earning[r].status = "pending" => sess[r].act > 0
    /\ sess[r].state \in {"funded", "settled"} => sess[r].com = sess[r].act
    /\ sess[r].state = "retained" => sess[r].com > 0
    /\ Payable(r) => Committed(r) /\ earning[r].gross = sess[r].com /\ sess[r].com > 0

\* At least n has been paid; exactly n if no compensation was lost.
PaidFor(r, n) == Paid(r) >= n /\ (~slip[r] => Paid(r) = n)

\* What a request has paid at each point of its life.
Funds(r) ==
    /\ pc[r] \in Early => sess[r].src = "none"
    /\ sess[r].state = "open" /\ sess[r].src = "none" => sess[r].pre = 0 /\ Paid(r) = 0
    /\ pc[r] \in Serving => PaidFor(r, sess[r].pre)
    /\ pc[r] \in Reserving =>
          /\ sess[r].src # "none"
          /\ sess[r].src = "wallet" => sess[r].held >= sess[r].amt
          /\ PaidFor(r, sess[r].pre + sess[r].amt)
    /\ Committed(r) => PaidFor(r, sess[r].com)

IInv == TypeOK /\ \A r \in Requests : Ctl(r) /\ Funds(r)

----------------------------------------------------------------------------
\* A step of r keeps the types and leaves the other requests alone: the part
\* about accounts, and the part about the three tables.

MoneyOK(r) ==
    /\ bal' \in [Accounts -> Int] /\ taken' \in [Requests -> [Accounts -> Int]]
    /\ fee' \in [Requests -> Nat]
    /\ \A q \in Requests \ {r} : taken'[q] = taken[q] /\ fee'[q] = fee[q]

TablesOK(r) ==
    /\ earning' \in [Requests -> Earnings]
    /\ refund' \in [Requests -> Refunds]
    /\ adj' \in [Requests -> Adjs]
    /\ \A q \in Requests \ {r} : earning'[q] = earning[q] /\ refund'[q] = refund[q]

\* The proof obligation of a step of r is about r only.
LEMMA OneRequest ==
    ASSUME IInv, NEW r \in Requests, NEW s \in Sessions, NEW l \in PCs,
           Become(r, s), Goto(r, l), MoneyOK(r), TablesOK(r), UNCHANGED slip \/ Lost(r),
           Ctl(r)', Funds(r)'
    PROVE  IInv'
  <1>1. TypeOK'
     BY DEF IInv, TypeOK, Become, Goto, MoneyOK, TablesOK, Lost
  <1>. SUFFICES ASSUME NEW q \in Requests \ {r} PROVE Ctl(q)' /\ Funds(q)'
     BY <1>1 DEF IInv
  <1>2. /\ pc'[q] = pc[q] /\ sess'[q] = sess[q]
        /\ earning'[q] = earning[q] /\ refund'[q] = refund[q]
        /\ taken'[q] = taken[q] /\ fee'[q] = fee[q] /\ slip'[q] = slip[q]
     BY DEF IInv, TypeOK, Become, Goto, MoneyOK, TablesOK, Lost
  <1>3. Ctl(q) /\ Funds(q)
     BY DEF IInv
  <1>4. Ctl(q)'
     BY <1>2, <1>3 DEF Ctl, Payable, Committed, Ready, Pending
  <1>5. Funds(q)'
     BY <1>2, <1>3 DEF Funds, PaidFor, Paid, Committed
  <1>. QED  BY <1>4, <1>5

\* What r's goroutine is and has after a step.
LEMMA Moved ==
    ASSUME IInv, NEW r \in Requests, NEW s, NEW l, Become(r, s), Goto(r, l)
    PROVE  sess'[r] = s /\ pc'[r] = l
  BY DEF IInv, TypeOK, Become, Goto

\* The session of a request, and the fields the steps compute with.
LEMMA SessionOf ==
    ASSUME IInv, NEW r \in Requests
    PROVE  /\ sess[r] \in Sessions /\ sess[r].plan \in Seq(Sources)
           /\ sess[r].amt \in Nat /\ sess[r].pre \in Nat /\ sess[r].tok \in Nat
           /\ sess[r].extra \in Nat /\ sess[r].held \in Nat /\ sess[r].act \in Nat
           /\ sess[r].com \in Nat
  <1>1. sess[r] \in Sessions  BY DEF IInv, TypeOK
  <1>. QED  BY <1>1 DEF Sessions

\* A statement that leaves the session alone keeps it as it is.
LEMMA SameSession ==
    ASSUME IInv, NEW r \in Requests, UNCHANGED sess
    PROVE  Become(r, sess[r]) /\ sess[r] \in Sessions
  BY DEF IInv, TypeOK, Become

\* So do statements that write none of the tables.
LEMMA SameTables ==
    ASSUME IInv, NEW r \in Requests, UNCHANGED tables
    PROVE  TablesOK(r) /\ earning'[r] = earning[r] /\ refund'[r] = refund[r]
  BY DEF IInv, TypeOK, TablesOK, tables

\* And statements that move no money.
LEMMA SameMoney ==
    ASSUME IInv, NEW r \in Requests, UNCHANGED money
    PROVE  MoneyOK(r) /\ Paid(r)' = Paid(r)
  BY DEF IInv, TypeOK, MoneyOK, money, Paid

----------------------------------------------------------------------------
\* What the account operations do

\* A charge takes n from one account on behalf of r and nothing else.
LEMMA ChargeFacts ==
    ASSUME TypeOK, NEW r \in Requests, NEW a \in Accounts, NEW n \in Int, Charge(r, a, n)
    PROVE  /\ MoneyOK(r)
           /\ fee' = fee /\ taken'[r][a] = taken[r][a] + n
           /\ \A b \in Accounts \ {a} : taken'[r][b] = taken[r][b]
  BY DEF TypeOK, Charge, Metered, Accounts, Sources, MoneyOK

\* A credit returns n.
LEMMA CreditFacts ==
    ASSUME TypeOK, NEW r \in Requests, NEW a \in Accounts, NEW n \in Int, Credit(r, a, n)
    PROVE  /\ MoneyOK(r)
           /\ fee' = fee /\ taken'[r][a] = taken[r][a] - n
           /\ \A b \in Accounts \ {a} : taken'[r][b] = taken[r][b]
  BY BalanceAssumption DEF TypeOK, Credit, Capped, Metered, Accounts, Sources, MoneyOK

\* A change of a funding source is a change of what r has paid.
LEMMA FundingFacts ==
    ASSUME TypeOK, NEW r \in Requests, NEW a \in Sources, NEW n \in Int,
           Charge(r, a, n) \/ Credit(r, a, -n) \/ Apply(r, a, n)
    PROVE  MoneyOK(r) /\ Paid(r)' = Paid(r) + n
  <1>1. a \in Accounts /\ -n \in Int /\ {"wallet", "subscription"} \subseteq Accounts
     BY DEF Accounts, Sources
  <1>2. /\ MoneyOK(r) /\ fee' = fee
        /\ taken'[r][a] = taken[r][a] + n
        /\ \A b \in Accounts \ {a} : taken'[r][b] = taken[r][b]
     <2>1. CASE Charge(r, a, n)
        BY <2>1, <1>1, ChargeFacts
     <2>2. CASE Credit(r, a, -n)
        BY <2>2, <1>1, CreditFacts DEF TypeOK
     <2>. QED  BY <2>1, <2>2 DEF Apply
  <1>. QED  BY <1>1, <1>2 DEF Paid, Sources, TypeOK

\* A change of the token's quota is none of what r has paid.
LEMMA TokenFacts ==
    ASSUME TypeOK, NEW r \in Requests, NEW n \in Int, TokenStep(r, n) \/ Apply(r, "token", n)
    PROVE  MoneyOK(r) /\ Paid(r)' = Paid(r)
  <1>1. "token" \in Accounts /\ -n \in Int
        /\ {"wallet", "subscription"} \subseteq Accounts \ {"token"}
     BY DEF Accounts, Sources
  <1>2. CASE UNCHANGED money
     BY <1>2 DEF money, TypeOK, MoneyOK, Paid
  <1>3. CASE Charge(r, "token", n)
     BY <1>3, <1>1, ChargeFacts DEF Paid
  <1>4. CASE Credit(r, "token", -n)
     BY <1>4, <1>1, CreditFacts DEF Paid
  <1>. QED  BY <1>2, <1>3, <1>4 DEF TokenStep, Apply

\* What a request has paid is a number.
LEMMA PaidInt ==
    ASSUME IInv, NEW r \in Requests
    PROVE  Paid(r) \in Int
  BY DEF IInv, TypeOK, Paid, Accounts, Sources

----------------------------------------------------------------------------
\* Plans

\* NewBillingSession always has a source to try.
LEMMA PlanFacts == \A p \in Plans : p \in Seq(Sources) /\ Len(p) > 0
  BY PlansAssumption DEF AllPlans, Sources

\* The plan that has run out, and the ones that have not.
LEMMA EmptyPlan == <<>> \in Seq(Sources) /\ \A p \in Seq(Sources) : p # <<>> => Len(p) > 0
  OBVIOUS

\* Dropping the first source of a plan leaves a plan.
LEMMA RestFacts ==
    ASSUME NEW p \in Seq(Sources), Len(p) > 0
    PROVE  Head(p) \in Sources /\ Tail(p) \in Seq(Sources)
  OBVIOUS

----------------------------------------------------------------------------
\* Every step preserves IInv

\* A request that has not started has paid nothing.
LEMMA InitIInv == Init => IInv
  BY BalanceAssumption
  DEF Init, IInv, TypeOK, Ctl, Funds, PaidFor, Paid, Committed, Payable, Ready, Pending,
      NoSession, Sessions, NoEarning, Earnings, NoRefund, Refunds, NoAdj, Adjs,
      PCs, States, Sources, Accounts, Early, Reserving, Serving

\* A new session has paid nothing and knows no source yet.
LEMMA OpenSessionStep ==
    ASSUME IInv, NEW r \in Requests, NEW want \in Quotas[r], OpenSession(r, want),
           sess[r].state = "open", sess[r].src = "none", earning[r].status = "none",
           UNCHANGED <<money, tables, slip>>
    PROVE  IInv'
  <1>. PICK plan \in Plans :
          /\ Become(r, [NoSession EXCEPT !.plan = plan, !.amt = want, !.err = sess[r].err])
          /\ Goto(r, "open")
     BY DEF OpenSession
  <1>1. [NoSession EXCEPT !.plan = plan, !.amt = want, !.err = sess[r].err] \in Sessions
     BY PlanFacts, QuotasAssumption DEF IInv, TypeOK, Sessions, States, NoSession
  <1>2. sess'[r] = [NoSession EXCEPT !.plan = plan, !.amt = want, !.err = sess[r].err] /\ pc'[r] = "open"
     BY <1>1, Moved
  <1>3. TablesOK(r) /\ earning'[r] = earning[r] /\ refund'[r] = refund[r]
     BY SameTables
  <1>4. MoneyOK(r) /\ Paid(r)' = Paid(r)
     BY SameMoney
  <1>5. Ctl(r)'
     BY <1>2, <1>3, PlanFacts DEF IInv, TypeOK, Sessions, Ctl, Payable, Committed, Ready, Pending,
        Early, Reserving, Serving, NoSession
  <1>6. Funds(r)'
     BY <1>2, <1>4 DEF IInv, TypeOK, Sessions, Ctl, Funds, PaidFor, Committed,
        Early, Reserving, Serving, NoSession
  <1>. QED  BY <1>1, <1>3, <1>4, <1>5, <1>6, OneRequest DEF PCs

\* Relay opens a session or serves a free model.
LEMMA BeginStep ==
    ASSUME IInv, NEW r \in Requests, NEW q \in Quotas[r], Begin(r, q)
    PROVE  IInv'
  <1>. pc[r] = "idle" /\ UNCHANGED <<money, tables, slip>>
     BY DEF Begin
  <1>1. CASE OpenSession(r, q)
     BY <1>1, OpenSessionStep DEF IInv, Ctl, Funds, Early
  <1>2. CASE Goto(r, "serving") /\ UNCHANGED sess
    <2>1. sess[r] \in Sessions /\ Become(r, sess[r])
       BY <1>2, SameSession
    <2>2. sess'[r] = sess[r] /\ pc'[r] = "serving"
       BY <1>2, <2>1, Moved
    <2>3. TablesOK(r) /\ earning'[r] = earning[r] /\ refund'[r] = refund[r]
       BY <1>2, SameTables
    <2>4. MoneyOK(r) /\ Paid(r)' = Paid(r)
       BY <1>2, SameMoney
    <2>5. Ctl(r)'
       BY <1>2, <2>2, <2>3 DEF IInv, TypeOK, Sessions, Ctl, Payable, Committed, Ready, Pending,
          Early, Reserving, Serving
    <2>6. Funds(r)'
       BY <1>2, <2>2, <2>4 DEF IInv, TypeOK, Sessions, Ctl, Funds, PaidFor, Committed,
          Early, Reserving, Serving
    <2>. QED  BY <1>2, <2>1, <2>3, <2>4, <2>5, <2>6, OneRequest DEF PCs
  <1>. QED  BY <1>1, <1>2 DEF Begin

\* A session that is dropped before it paid anything.
LEMMA NextSourceStep ==
    ASSUME IInv, NEW r \in Requests, NEW rest \in Seq(Sources), NextSource(r, rest),
           pc[r] \in Early, MoneyOK(r), Paid(r)' = Paid(r), UNCHANGED tables,
           UNCHANGED slip \/ Lost(r)
    PROVE  IInv'
  <1>. DEFINE l == IF rest = <<>> THEN "done" ELSE "open"
  <1>. Become(r, [NoSession EXCEPT !.plan = rest, !.amt = sess[r].amt, !.err = rest = <<>>])
       /\ Goto(r, l)
     BY DEF NextSource
  <1>1. [NoSession EXCEPT !.plan = rest, !.amt = sess[r].amt, !.err = rest = <<>>] \in Sessions
     BY DEF IInv, TypeOK, Sessions, States, NoSession, Sources
  <1>2. sess'[r] = [NoSession EXCEPT !.plan = rest, !.amt = sess[r].amt, !.err = rest = <<>>] /\ pc'[r] = l
     BY <1>1, Moved
  <1>3. TablesOK(r) /\ earning'[r] = earning[r] /\ refund'[r] = refund[r]
     BY SameTables
  <1>4. MoneyOK(r) /\ Paid(r)' = Paid(r)
     OBVIOUS
  <1>5. Ctl(r)'
     BY <1>2, <1>3, EmptyPlan DEF IInv, TypeOK, Sessions, Ctl, Payable, Committed, Ready, Pending,
        Early, Reserving, Serving, NoSession, Sources
  <1>6. Funds(r)'
     BY <1>2, <1>4 DEF IInv, TypeOK, Sessions, Ctl, Funds, PaidFor, Committed,
        Early, Reserving, Serving, NoSession, Sources
  <1>. QED  BY <1>1, <1>3, <1>4, <1>5, <1>6, OneRequest DEF PCs

\* tryWallet gives up, trusts the user or goes on to the token.
LEMMA TryWalletStep ==
    ASSUME IInv, NEW r \in Requests, TryWallet(r)
    PROVE  IInv'
  <1>. pc[r] = "open" /\ UNCHANGED <<money, tables, slip>>
     BY DEF TryWallet
  <1>0. Tail(sess[r].plan) \in Seq(Sources)
     BY RestFacts DEF IInv, TypeOK, Sessions, Ctl
  <1>1. ASSUME NEW rest \in {Tail(sess[r].plan), <<>>}, NextSource(r, rest)
        PROVE  IInv'
     <2>1. rest \in Seq(Sources)
        BY <1>0, EmptyPlan
     <2>. QED  BY <1>1, <2>1, SameMoney, NextSourceStep DEF Early
  <1>2. CASE Become(r, [sess[r] EXCEPT !.src = "wallet", !.amt = 0]) /\ Goto(r, "serving")
    <2>1. [sess[r] EXCEPT !.src = "wallet", !.amt = 0] \in Sessions
       BY SessionOf DEF Sessions, Sources
    <2>2. sess'[r] = [sess[r] EXCEPT !.src = "wallet", !.amt = 0] /\ pc'[r] = "serving"
       BY <1>2, <2>1, Moved
    <2>3. TablesOK(r) /\ earning'[r] = earning[r] /\ refund'[r] = refund[r]
       BY <1>2, SameTables
    <2>4. MoneyOK(r) /\ Paid(r)' = Paid(r)
       BY <1>2, SameMoney
    <2>5. Ctl(r)'
       BY <1>2, <2>2, <2>3 DEF IInv, TypeOK, Sessions, Ctl, Payable, Committed, Ready, Pending,
          Early, Reserving, Serving, Sources
    <2>6. Funds(r)'
       BY <1>2, <2>2, <2>4 DEF IInv, TypeOK, Sessions, Ctl, Funds, PaidFor, Committed,
          Early, Reserving, Serving, Sources
    <2>. QED  BY <1>2, <2>1, <2>3, <2>4, <2>5, <2>6, OneRequest DEF PCs
  <1>3. CASE Goto(r, "token") /\ UNCHANGED sess
    <2>1. sess[r] \in Sessions /\ Become(r, sess[r])
       BY <1>3, SameSession
    <2>2. sess'[r] = sess[r] /\ pc'[r] = "token"
       BY <1>3, <2>1, Moved
    <2>3. TablesOK(r) /\ earning'[r] = earning[r] /\ refund'[r] = refund[r]
       BY <1>3, SameTables
    <2>4. MoneyOK(r) /\ Paid(r)' = Paid(r)
       BY <1>3, SameMoney
    <2>5. Ctl(r)'
       BY <1>3, <2>2, <2>3 DEF IInv, TypeOK, Sessions, Ctl, Payable, Committed, Ready, Pending,
          Early, Reserving, Serving
    <2>6. Funds(r)'
       BY <1>3, <2>2, <2>4 DEF IInv, TypeOK, Sessions, Ctl, Funds, PaidFor, Committed,
          Early, Reserving, Serving
    <2>. QED  BY <1>3, <2>1, <2>3, <2>4, <2>5, <2>6, OneRequest DEF PCs
  <1>. QED  BY <1>1, <1>2, <1>3 DEF TryWallet

\* trySubscription raises the amount and moves no money.
LEMMA TrySubscriptionStep ==
    ASSUME IInv, NEW r \in Requests, TrySubscription(r)
    PROVE  IInv'
  <1>. /\ pc[r] = "open" /\ UNCHANGED <<money, tables, slip>>
       /\ Become(r, [sess[r] EXCEPT !.amt = IF @ = 0 THEN 1 ELSE @]) /\ Goto(r, "token")
     BY DEF TrySubscription
  <1>1. [sess[r] EXCEPT !.amt = IF @ = 0 THEN 1 ELSE @] \in Sessions
     BY SessionOf DEF Sessions
  <1>2. sess'[r] = [sess[r] EXCEPT !.amt = IF @ = 0 THEN 1 ELSE @] /\ pc'[r] = "token"
     BY <1>1, Moved
  <1>3. TablesOK(r) /\ earning'[r] = earning[r] /\ refund'[r] = refund[r]
     BY SameTables
  <1>4. MoneyOK(r) /\ Paid(r)' = Paid(r)
     BY SameMoney
  <1>5. Ctl(r)'
     BY <1>2, <1>3 DEF IInv, TypeOK, Sessions, Ctl, Payable, Committed, Ready, Pending,
        Early, Reserving, Serving
  <1>6. Funds(r)'
     BY <1>2, <1>4 DEF IInv, TypeOK, Sessions, Ctl, Funds, PaidFor, Committed,
        Early, Reserving, Serving
  <1>. QED  BY <1>1, <1>3, <1>4, <1>5, <1>6, OneRequest DEF PCs

\* The token pre-charge is none of what the request has paid.
LEMMA PreConsumeTokenStep ==
    ASSUME IInv, NEW r \in Requests, PreConsumeToken(r)
    PROVE  IInv'
  <1>. pc[r] = "token" /\ UNCHANGED <<tables, slip>>
     BY DEF PreConsumeToken
  <1>1. CASE /\ TokenStep(r, sess[r].amt)
             /\ Become(r, [sess[r] EXCEPT !.tok = sess[r].amt])
             /\ Goto(r, "fund")
    <2>1. [sess[r] EXCEPT !.tok = sess[r].amt] \in Sessions
       BY SessionOf DEF Sessions
    <2>2. sess'[r] = [sess[r] EXCEPT !.tok = sess[r].amt] /\ pc'[r] = "fund"
       BY <1>1, <2>1, Moved
    <2>3. TablesOK(r) /\ earning'[r] = earning[r] /\ refund'[r] = refund[r]
       BY <1>1, SameTables
    <2>4. MoneyOK(r) /\ Paid(r)' = Paid(r)
       BY <1>1, TokenFacts, SessionOf DEF IInv
    <2>5. Ctl(r)'
       BY <1>1, <2>2, <2>3 DEF IInv, TypeOK, Sessions, Ctl, Payable, Committed, Ready, Pending,
          Early, Reserving, Serving
    <2>6. Funds(r)'
       BY <1>1, <2>2, <2>4 DEF IInv, TypeOK, Sessions, Ctl, Funds, PaidFor, Committed,
          Early, Reserving, Serving
    <2>. QED  BY <1>1, <2>1, <2>3, <2>4, <2>5, <2>6, OneRequest DEF PCs
  <1>2. CASE NextSource(r, <<>>) /\ UNCHANGED money
     BY <1>2, EmptyPlan, SameMoney, NextSourceStep DEF Early
  <1>. QED  BY <1>1, <1>2 DEF PreConsumeToken

\* The pre-charge becomes what the request has paid.
LEMMA PreConsumeFundingStep ==
    ASSUME IInv, NEW r \in Requests, PreConsumeFunding(r)
    PROVE  IInv'
  <1>. DEFINE a == Head(sess[r].plan)
  <1>. pc[r] = "fund" /\ UNCHANGED <<tables, slip>>
     BY DEF PreConsumeFunding
  <1>0. a \in Sources /\ sess[r].amt \in Nat /\ Tail(sess[r].plan) \in Seq(Sources)
     BY RestFacts DEF IInv, TypeOK, Sessions, Ctl
  <1>. HIDE DEF a
  <1>1. CASE /\ Charge(r, a, sess[r].amt)
             /\ Become(r, [sess[r] EXCEPT !.src = a, !.pre = sess[r].amt,
                                          !.held = sess[r].amt, !.amt = 0])
             /\ Goto(r, "serving")
    <2>1. [sess[r] EXCEPT !.src = a, !.pre = sess[r].amt, !.held = sess[r].amt, !.amt = 0] \in Sessions
       BY <1>0, SessionOf DEF Sessions
    <2>2. sess'[r] = [sess[r] EXCEPT !.src = a, !.pre = sess[r].amt, !.held = sess[r].amt, !.amt = 0] /\ pc'[r] = "serving"
       BY <1>1, <2>1, Moved
    <2>3. TablesOK(r) /\ earning'[r] = earning[r] /\ refund'[r] = refund[r]
       BY <1>1, SameTables
    <2>4. MoneyOK(r) /\ Paid(r)' = Paid(r) + sess[r].amt
       BY <1>1, <1>0, FundingFacts DEF IInv
    <2>5. Ctl(r)'
       BY <1>1, <2>2, <2>3 DEF IInv, TypeOK, Sessions, Ctl, Payable, Committed, Ready, Pending,
          Early, Reserving, Serving
    <2>6. Funds(r)'
       BY <1>1, <2>2, <2>4, <1>0, PaidInt DEF IInv, TypeOK, Sessions, Ctl, Funds, PaidFor, Committed,
          Early, Reserving, Serving, Sources
    <2>. QED  BY <1>1, <2>1, <2>3, <2>4, <2>5, <2>6, OneRequest DEF PCs
  <1>2. ASSUME NEW rest \in {Tail(sess[r].plan), <<>>},
               Become(r, [sess[r] EXCEPT !.plan = rest]), Goto(r, "undo"), UNCHANGED money
        PROVE  IInv'
    <2>1. [sess[r] EXCEPT !.plan = rest] \in Sessions
       BY <1>0, EmptyPlan, SessionOf DEF Sessions
    <2>2. sess'[r] = [sess[r] EXCEPT !.plan = rest] /\ pc'[r] = "undo"
       BY <1>2, <2>1, Moved
    <2>3. TablesOK(r) /\ earning'[r] = earning[r] /\ refund'[r] = refund[r]
       BY <1>2, SameTables
    <2>4. MoneyOK(r) /\ Paid(r)' = Paid(r)
       BY <1>2, SameMoney
    <2>5. Ctl(r)'
       BY <1>2, <2>2, <2>3 DEF IInv, TypeOK, Sessions, Ctl, Payable, Committed, Ready, Pending,
          Early, Reserving, Serving
    <2>6. Funds(r)'
       BY <1>2, <2>2, <2>4 DEF IInv, TypeOK, Sessions, Ctl, Funds, PaidFor, Committed,
          Early, Reserving, Serving
    <2>. QED  BY <1>2, <2>1, <2>3, <2>4, <2>5, <2>6, OneRequest DEF PCs
  <1>. QED  BY <1>1, <1>2 DEF PreConsumeFunding, a

\* Undoing the token leaves a request that has paid nothing.
LEMMA UndoTokenStep ==
    ASSUME IInv, NEW r \in Requests, UndoToken(r)
    PROVE  IInv'
  <1>1. MoneyOK(r) /\ Paid(r)' = Paid(r)
     <2>1. CASE TokenStep(r, -sess[r].tok)
        <3>1. -sess[r].tok \in Int
           BY DEF IInv, TypeOK, Sessions
        <3>. QED  BY <2>1, <3>1, TokenFacts DEF IInv
     <2>2. CASE UNCHANGED money
        BY <2>2, SameMoney
     <2>. QED  BY <2>1, <2>2 DEF UndoToken
  <1>2. /\ pc[r] \in Early /\ UNCHANGED tables /\ NextSource(r, sess[r].plan)
        /\ UNCHANGED slip \/ Lost(r)
     BY DEF UndoToken, Early
  <1>3. sess[r].plan \in Seq(Sources)
     BY DEF IInv, TypeOK, Sessions
  <1>. QED  BY <1>1, <1>2, <1>3, NextSourceStep

\* A top-up that failed leaves a request that still holds its pre-charge.
LEMMA ReserveFailedStep ==
    ASSUME IInv, NEW r \in Requests, NEW h \in Nat,
           ReserveFailed(r, [sess[r] EXCEPT !.held = h]),
           pc[r] \in Reserving \cup {"serving"}, sess[r].src # "none",
           MoneyOK(r), PaidFor(r, sess[r].pre)', sess'[r].pre = sess[r].pre,
           UNCHANGED tables, UNCHANGED slip \/ Lost(r)
    PROVE  IInv'
  <1>. DEFINE s == [sess[r] EXCEPT !.held = h, !.err = TRUE, !.amt = 0]
  <1>. PICK l \in {"serving", "closing"} : Goto(r, l)
     BY DEF ReserveFailed
  <1>0. Become(r, s)
     BY DEF ReserveFailed, IInv, TypeOK, Sessions
  <1>1. s \in Sessions
     BY SessionOf DEF Sessions
  <1>2. sess'[r] = s /\ pc'[r] = l
     BY <1>0, Moved
  <1>3. TablesOK(r) /\ earning'[r] = earning[r] /\ refund'[r] = refund[r]
     BY SameTables
  <1>4. Ctl(r)'
     BY <1>2, <1>3 DEF IInv, TypeOK, Sessions, Ctl, Payable, Committed, Ready, Pending,
        Early, Reserving, Serving
  <1>5. Funds(r)'
     BY <1>2 DEF IInv, TypeOK, Sessions, Ctl, Funds, PaidFor, Committed,
        Early, Reserving, Serving
  <1>. QED  BY <1>0, <1>1, <1>3, <1>4, <1>5, OneRequest DEF PCs

\* A top-up adds its delta to what was paid, and is not yet counted.
LEMMA ReserveFundingStep ==
    ASSUME IInv, NEW r \in Requests, NEW q \in Quotas[r], ReserveFunding(r, q)
    PROVE  IInv'
  <1>. DEFINE delta == q - sess[r].pre
              h == Held(sess[r], delta)
  <1>. pc[r] = "serving" /\ sess[r].src # "none" /\ UNCHANGED <<tables, slip>>
     BY DEF ReserveFunding
  <1>0. /\ delta \in Nat /\ h \in Nat /\ sess[r].src \in Sources
        /\ sess[r].src = "wallet" => h >= delta
     BY QuotasAssumption DEF ReserveFunding, IInv, TypeOK, Sessions, Held
  <1>1. CASE /\ Charge(r, sess[r].src, delta)
             /\ Become(r, [sess[r] EXCEPT !.amt = delta, !.held = h])
             /\ Goto(r, "reserved")
     <2>. HIDE DEF delta, h
    <2>1. [sess[r] EXCEPT !.amt = delta, !.held = h] \in Sessions
       BY <1>0, SessionOf DEF Sessions
    <2>2. sess'[r] = [sess[r] EXCEPT !.amt = delta, !.held = h] /\ pc'[r] = "reserved"
       BY <1>1, <2>1, Moved
    <2>3. TablesOK(r) /\ earning'[r] = earning[r] /\ refund'[r] = refund[r]
       BY <1>1, SameTables
    <2>4. MoneyOK(r) /\ Paid(r)' = Paid(r) + delta
       BY <1>1, <1>0, FundingFacts DEF IInv
    <2>5. Ctl(r)'
       BY <1>1, <2>2, <2>3 DEF IInv, TypeOK, Sessions, Ctl, Payable, Committed, Ready, Pending,
          Early, Reserving, Serving
    <2>6. Funds(r)'
      <3>1. /\ sess'[r].state = sess[r].state /\ sess'[r].src = sess[r].src
            /\ sess'[r].pre = sess[r].pre /\ sess'[r].amt = delta /\ sess'[r].held = h
         BY <2>2, SessionOf DEF Sessions
      <3>2. /\ PaidFor(r, sess[r].pre) /\ Paid(r) \in Int /\ sess[r].pre \in Nat
            /\ sess[r].state = "open" /\ slip'[r] = slip[r]
         BY PaidInt, SessionOf DEF IInv, Ctl, Funds, Serving
      <3>3. /\ Paid(r)' >= sess[r].pre + delta
            /\ ~slip'[r] => Paid(r)' = sess[r].pre + delta
         BY <1>0, <2>4, <3>2 DEF PaidFor
      <3>. QED  BY <1>0, <2>2, <3>1, <3>2, <3>3 DEF Funds, PaidFor, Committed, Early, Reserving, Serving
    <2>. QED  BY <1>1, <2>1, <2>3, <2>4, <2>5, <2>6, OneRequest DEF PCs
  <1>2. CASE ReserveFailed(r, sess[r]) /\ UNCHANGED money
     <2>1. /\ sess[r].held \in Nat /\ sess[r] = [sess[r] EXCEPT !.held = sess[r].held]
           /\ sess'[r].pre = sess[r].pre
        BY <1>2 DEF IInv, TypeOK, Sessions, ReserveFailed, Become
     <2>2. PaidFor(r, sess[r].pre)'
        BY <1>2, <2>1, SameMoney DEF IInv, Funds, Serving, PaidFor
     <2>. QED  BY <1>2, <2>1, <2>2, SameMoney, ReserveFailedStep
  <1>. QED  BY <1>1, <1>2 DEF ReserveFunding

\* A free request that turns out to cost opens its session late.
LEMMA PreConsumeLateStep ==
    ASSUME IInv, NEW r \in Requests, NEW q \in Quotas[r], PreConsumeLate(r, q)
    PROVE  IInv'
  BY OpenSessionStep DEF PreConsumeLate, IInv, Ctl, Funds, Serving

\* The four fields a top-up writes.
LEMMA FourFields ==
    ASSUME NEW s \in Sessions, NEW i \in Nat, NEW j \in Nat, NEW k \in Nat
    PROVE  [s EXCEPT !.pre = i, !.tok = j, !.extra = k, !.amt = 0] \in Sessions
  BY DEF Sessions

\* The top-up is counted, or has to be rolled back.
LEMMA ReserveTokenStep ==
    ASSUME IInv, NEW r \in Requests, ReserveToken(r)
    PROVE  IInv'
  <1>. pc[r] = "reserved" /\ UNCHANGED <<tables, slip>>
     BY DEF ReserveToken
  <1>1. CASE /\ TokenStep(r, sess[r].amt)
             /\ Become(r, [sess[r] EXCEPT !.pre = @ + sess[r].amt, !.tok = @ + sess[r].amt,
                                          !.extra = @ + sess[r].amt, !.amt = 0])
             /\ Goto(r, "serving")
     <2>. DEFINE s == [sess[r] EXCEPT !.pre = @ + sess[r].amt, !.tok = @ + sess[r].amt,
                                      !.extra = @ + sess[r].amt, !.amt = 0]
     <2>0. /\ sess[r] \in Sessions /\ sess[r].pre + sess[r].amt \in Nat
           /\ sess[r].tok + sess[r].amt \in Nat /\ sess[r].extra + sess[r].amt \in Nat
        BY DEF IInv, TypeOK, Sessions
    <2>1. s \in Sessions
       BY <2>0, FourFields DEF IInv, TypeOK, Sessions
    <2>2. sess'[r] = s /\ pc'[r] = "serving"
       BY <1>1, <2>1, Moved
    <2>3. TablesOK(r) /\ earning'[r] = earning[r] /\ refund'[r] = refund[r]
       BY <1>1, SameTables
    <2>4. MoneyOK(r) /\ Paid(r)' = Paid(r)
       BY <1>1, TokenFacts, SessionOf DEF IInv
    <2>5. Ctl(r)'
       BY <1>1, <2>2, <2>3 DEF IInv, TypeOK, Sessions, Ctl, Payable, Committed, Ready, Pending,
          Early, Reserving, Serving
    <2>6. Funds(r)'
       BY <1>1, <2>2, <2>4 DEF IInv, TypeOK, Sessions, Ctl, Funds, PaidFor, Committed,
          Early, Reserving, Serving
    <2>. QED  BY <1>1, <2>1, <2>3, <2>4, <2>5, <2>6, OneRequest DEF PCs
  <1>2. CASE Goto(r, "unreserve") /\ UNCHANGED <<money, sess>>
    <2>1. sess[r] \in Sessions /\ Become(r, sess[r])
       BY <1>2, SameSession
    <2>2. sess'[r] = sess[r] /\ pc'[r] = "unreserve"
       BY <1>2, <2>1, Moved
    <2>3. TablesOK(r) /\ earning'[r] = earning[r] /\ refund'[r] = refund[r]
       BY <1>2, SameTables
    <2>4. MoneyOK(r) /\ Paid(r)' = Paid(r)
       BY <1>2, SameMoney
    <2>5. Ctl(r)'
       BY <1>2, <2>2, <2>3 DEF IInv, TypeOK, Sessions, Ctl, Payable, Committed, Ready, Pending,
          Early, Reserving, Serving
    <2>6. Funds(r)'
       BY <1>2, <2>2, <2>4 DEF IInv, TypeOK, Sessions, Ctl, Funds, PaidFor, Committed,
          Early, Reserving, Serving
    <2>. QED  BY <1>2, <2>1, <2>3, <2>4, <2>5, <2>6, OneRequest DEF PCs
  <1>. QED  BY <1>1, <1>2 DEF ReserveToken

\* The rollback returns the delta; a lost one is a slip.
LEMMA RollbackReserveStep ==
    ASSUME IInv, NEW r \in Requests, RollbackReserve(r)
    PROVE  IInv'
  <1>. DEFINE h == Held(sess[r], -sess[r].amt)
  <1>. pc[r] = "unreserve" /\ UNCHANGED tables
     BY DEF RollbackReserve
  <1>0. /\ sess[r].src \in Sources /\ sess[r].src # "none" /\ sess[r].amt \in Nat
        /\ h \in Nat /\ -(-sess[r].amt) = sess[r].amt
     BY DEF IInv, TypeOK, Sessions, Funds, Held, Reserving
  <1>1. CASE /\ Credit(r, sess[r].src, sess[r].amt)
             /\ ReserveFailed(r, [sess[r] EXCEPT !.held = h])
             /\ UNCHANGED slip
     <2>. HIDE DEF h
     <2>1. MoneyOK(r) /\ Paid(r)' = Paid(r) + (-sess[r].amt)
        BY <1>0, <1>1, FundingFacts DEF IInv
     <2>2. sess'[r].pre = sess[r].pre
        BY <1>0, <1>1 DEF IInv, TypeOK, Sessions, ReserveFailed, Become
     <2>3. PaidFor(r, sess[r].pre)'
        <3>1. PaidFor(r, sess[r].pre + sess[r].amt) /\ sess[r].pre \in Nat
           BY DEF IInv, TypeOK, Sessions, Funds, Reserving
        <3>2. slip'[r] = slip[r] /\ Paid(r) \in Int
           BY <1>1, PaidInt
        <3>. QED  BY <3>1, <3>2, <1>0, <2>1, <2>2 DEF PaidFor
     <2>. QED  BY <1>0, <1>1, <2>1, <2>2, <2>3, ReserveFailedStep DEF Reserving
  <1>2. CASE ReserveFailed(r, sess[r]) /\ Lost(r) /\ UNCHANGED money
     <2>1. /\ sess[r].held \in Nat /\ sess[r] = [sess[r] EXCEPT !.held = sess[r].held]
           /\ sess'[r].pre = sess[r].pre
        BY <1>2 DEF IInv, TypeOK, Sessions, ReserveFailed, Become
     <2>2. PaidFor(r, sess[r].pre)'
        BY <1>0, <1>2, <2>1, SameMoney DEF IInv, TypeOK, Sessions, Funds, Reserving, PaidFor, Lost
     <2>. QED  BY <1>0, <1>2, <2>1, <2>2, SameMoney, ReserveFailedStep DEF Reserving
  <1>. QED  BY <1>1, <1>2 DEF RollbackReserve

\* An upstream failure moves no money.
LEMMA UpstreamFailsStep ==
    ASSUME IInv, NEW r \in Requests, UpstreamFails(r)
    PROVE  IInv'
  <1>. /\ pc[r] = "serving" /\ UNCHANGED <<money, tables, slip>>
       /\ Become(r, [sess[r] EXCEPT !.err = TRUE]) /\ Goto(r, "closing")
     BY DEF UpstreamFails
  <1>1. [sess[r] EXCEPT !.err = TRUE] \in Sessions
     BY SessionOf DEF Sessions
  <1>2. sess'[r] = [sess[r] EXCEPT !.err = TRUE] /\ pc'[r] = "closing"
     BY <1>1, Moved
  <1>3. TablesOK(r) /\ earning'[r] = earning[r] /\ refund'[r] = refund[r]
     BY SameTables
  <1>4. MoneyOK(r) /\ Paid(r)' = Paid(r)
     BY SameMoney
  <1>5. Ctl(r)'
     BY <1>2, <1>3 DEF IInv, TypeOK, Sessions, Ctl, Payable, Committed, Ready, Pending,
        Early, Reserving, Serving
  <1>6. Funds(r)'
     BY <1>2, <1>4 DEF IInv, TypeOK, Sessions, Ctl, Funds, PaidFor, Committed,
        Early, Reserving, Serving
  <1>. QED  BY <1>1, <1>3, <1>4, <1>5, <1>6, OneRequest DEF PCs

\* An upstream answer fixes the final quota.
LEMMA UpstreamSucceedsStep ==
    ASSUME IInv, NEW r \in Requests, NEW q \in Quotas[r], UpstreamSucceeds(r, q)
    PROVE  IInv'
  <1>. /\ pc[r] = "serving" /\ UNCHANGED <<money, tables, slip>>
       /\ Become(r, [sess[r] EXCEPT !.act = q]) /\ Goto(r, "prepare")
     BY DEF UpstreamSucceeds
  <1>1. [sess[r] EXCEPT !.act = q] \in Sessions
     BY QuotasAssumption, SessionOf DEF Sessions
  <1>2. sess'[r] = [sess[r] EXCEPT !.act = q] /\ pc'[r] = "prepare"
     BY <1>1, Moved
  <1>3. TablesOK(r) /\ earning'[r] = earning[r] /\ refund'[r] = refund[r]
     BY SameTables
  <1>4. MoneyOK(r) /\ Paid(r)' = Paid(r)
     BY SameMoney
  <1>5. Ctl(r)'
     BY <1>2, <1>3 DEF IInv, TypeOK, Sessions, Ctl, Payable, Committed, Ready, Pending,
        Early, Reserving, Serving
  <1>6. Funds(r)'
     BY <1>2, <1>4 DEF IInv, TypeOK, Sessions, Ctl, Funds, PaidFor, Committed,
        Early, Reserving, Serving
  <1>. QED  BY <1>1, <1>3, <1>4, <1>5, <1>6, OneRequest DEF PCs

\* The deferred earning is not payable yet.
LEMMA PrepareEarningStep ==
    ASSUME IInv, NEW r \in Requests, PrepareEarning(r)
    PROVE  IInv'
  <1>. pc[r] = "prepare" /\ UNCHANGED <<money, refund, adj, slip>>
     BY DEF PrepareEarning
  <1>1. CASE Goto(r, "settle") /\ UNCHANGED <<sess, earning>>
    <2>1. sess[r] \in Sessions /\ Become(r, sess[r])
       BY <1>1, SameSession
    <2>2. sess'[r] = sess[r] /\ pc'[r] = "settle"
       BY <1>1, <2>1, Moved
    <2>3. TablesOK(r) /\ earning'[r] = earning[r] /\ refund'[r] = refund[r]
       BY <1>1, SameTables DEF tables
    <2>4. MoneyOK(r) /\ Paid(r)' = Paid(r)
       BY <1>1, SameMoney
    <2>5. Ctl(r)'
       BY <1>1, <2>2, <2>3 DEF IInv, TypeOK, Sessions, Ctl, Payable, Committed, Ready, Pending,
          Early, Reserving, Serving
    <2>6. Funds(r)'
       BY <1>1, <2>2, <2>4 DEF IInv, TypeOK, Sessions, Ctl, Funds, PaidFor, Committed,
          Early, Reserving, Serving
    <2>. QED  BY <1>1, <2>1, <2>3, <2>4, <2>5, <2>6, OneRequest DEF PCs
  <1>2. CASE /\ earning' = [earning EXCEPT ![r] = [status |-> "pending", deferred |-> TRUE,
                                                  gross |-> sess[r].act]]
             /\ sess[r].act > 0 /\ Goto(r, "settle") /\ UNCHANGED sess
    <2>1. sess[r] \in Sessions /\ Become(r, sess[r])
       BY <1>2, SameSession
    <2>2. sess'[r] = sess[r] /\ pc'[r] = "settle"
       BY <1>2, <2>1, Moved
    <2>3. /\ TablesOK(r) /\ refund'[r] = refund[r]
          /\ earning'[r] = [status |-> "pending", deferred |-> TRUE, gross |-> sess[r].act]
       BY <1>2, <2>1 DEF IInv, TypeOK, TablesOK, Earnings, Sessions
    <2>4. MoneyOK(r) /\ Paid(r)' = Paid(r)
       BY <1>2, SameMoney
    <2>5. Ctl(r)'
       BY <1>2, <2>2, <2>3 DEF IInv, TypeOK, Sessions, Ctl, Payable, Committed, Ready, Pending,
          Early, Reserving, Serving
    <2>6. Funds(r)'
       BY <1>2, <2>2, <2>4 DEF IInv, TypeOK, Sessions, Ctl, Funds, PaidFor, Committed,
          Early, Reserving, Serving
    <2>. QED  BY <1>2, <2>1, <2>3, <2>4, <2>5, <2>6, OneRequest DEF PCs
  <1>3. CASE /\ Become(r, [sess[r] EXCEPT !.err = TRUE]) /\ Goto(r, "closing")
             /\ UNCHANGED earning
    <2>1. [sess[r] EXCEPT !.err = TRUE] \in Sessions
       BY SessionOf DEF Sessions
    <2>2. sess'[r] = [sess[r] EXCEPT !.err = TRUE] /\ pc'[r] = "closing"
       BY <1>3, <2>1, Moved
    <2>3. TablesOK(r) /\ earning'[r] = earning[r] /\ refund'[r] = refund[r]
       BY <1>3, SameTables DEF tables
    <2>4. MoneyOK(r) /\ Paid(r)' = Paid(r)
       BY <1>3, SameMoney
    <2>5. Ctl(r)'
       BY <1>3, <2>2, <2>3 DEF IInv, TypeOK, Sessions, Ctl, Payable, Committed, Ready, Pending,
          Early, Reserving, Serving
    <2>6. Funds(r)'
       BY <1>3, <2>2, <2>4 DEF IInv, TypeOK, Sessions, Ctl, Funds, PaidFor, Committed,
          Early, Reserving, Serving
    <2>. QED  BY <1>3, <2>1, <2>3, <2>4, <2>5, <2>6, OneRequest DEF PCs
  <1>. QED  BY <1>1, <1>2, <1>3 DEF PrepareEarning, PreparedEarning

\* An exact pre-charge commits without moving money.
LEMMA SettleEvenStep ==
    ASSUME IInv, NEW r \in Requests, SettleEven(r)
    PROVE  IInv'
  <1>. /\ pc[r] = "settle" /\ Delta(r) = 0 /\ UNCHANGED <<money, tables, slip>>
     BY DEF SettleEven
  <1>0. sess[r].act = sess[r].pre
     BY DEF Delta, IInv, TypeOK, Sessions
  <1>1. CASE /\ Become(r, [sess[r] EXCEPT !.state = "settled", !.com = sess[r].act])
             /\ Goto(r, "publish")
    <2>1. [sess[r] EXCEPT !.state = "settled", !.com = sess[r].act] \in Sessions
       BY SessionOf DEF Sessions, States
    <2>2. sess'[r] = [sess[r] EXCEPT !.state = "settled", !.com = sess[r].act] /\ pc'[r] = "publish"
       BY <1>1, <2>1, Moved
    <2>3. TablesOK(r) /\ earning'[r] = earning[r] /\ refund'[r] = refund[r]
       BY <1>1, SameTables
    <2>4. MoneyOK(r) /\ Paid(r)' = Paid(r)
       BY <1>1, SameMoney
    <2>5. Ctl(r)'
       BY <1>1, <2>2, <2>3 DEF IInv, TypeOK, Sessions, Ctl, Payable, Committed, Ready, Pending,
          Early, Reserving, Serving
    <2>6. Funds(r)'
       BY <1>1, <2>2, <2>4, <1>0 DEF IInv, TypeOK, Sessions, Ctl, Funds, PaidFor, Committed,
          Early, Reserving, Serving
    <2>. QED  BY <1>1, <2>1, <2>3, <2>4, <2>5, <2>6, OneRequest DEF PCs
  <1>2. CASE Goto(r, "closing") /\ UNCHANGED sess
    <2>1. sess[r] \in Sessions /\ Become(r, sess[r])
       BY <1>2, SameSession
    <2>2. sess'[r] = sess[r] /\ pc'[r] = "closing"
       BY <1>2, <2>1, Moved
    <2>3. TablesOK(r) /\ earning'[r] = earning[r] /\ refund'[r] = refund[r]
       BY <1>2, SameTables
    <2>4. MoneyOK(r) /\ Paid(r)' = Paid(r)
       BY <1>2, SameMoney
    <2>5. Ctl(r)'
       BY <1>2, <2>2, <2>3 DEF IInv, TypeOK, Sessions, Ctl, Payable, Committed, Ready, Pending,
          Early, Reserving, Serving
    <2>6. Funds(r)'
       BY <1>2, <2>2, <2>4 DEF IInv, TypeOK, Sessions, Ctl, Funds, PaidFor, Committed,
          Early, Reserving, Serving
    <2>. QED  BY <1>2, <2>1, <2>3, <2>4, <2>5, <2>6, OneRequest DEF PCs
  <1>. QED  BY <1>1, <1>2 DEF SettleEven

\* Settlement charges a source, and pre-charge and delta add up to the quota.
LEMMA SettleSourceFacts ==
    ASSUME IInv, NEW r \in Requests
    PROVE  /\ SettleSource(r) \in Sources /\ Delta(r) \in Int
           /\ sess[r].act = sess[r].pre + Delta(r)
  BY DEF IInv, TypeOK, Sessions, SettleSource, Delta, Sources

\* The sessions settlement makes are sessions.
LEMMA SettledSessions ==
    ASSUME NEW t \in Sessions, NEW a \in Sources, NEW st \in States, NEW n \in Nat
    PROVE  /\ [t EXCEPT !.src = a, !.state = st, !.com = n] \in Sessions
           /\ [t EXCEPT !.err = TRUE, !.state = st, !.com = n] \in Sessions
           /\ [t EXCEPT !.src = a, !.err = TRUE] \in Sessions
  BY DEF Sessions

\* The funding change went through, at its source or in the wallet.
LEMMA FundingSettledStep ==
    ASSUME IInv, NEW r \in Requests, FundingSettled(r), pc[r] \in {"settle", "overflow"},
           MoneyOK(r), Paid(r)' = Paid(r) + Delta(r), UNCHANGED <<tables, slip>>
    PROVE  IInv'
  <1>. DEFINE s == [sess[r] EXCEPT !.src = SettleSource(r), !.state = "funded",
                                   !.com = sess[r].act]
  <1>. Become(r, s) /\ Goto(r, "settleToken")
     BY DEF FundingSettled
  <1>0. /\ sess[r] \in Sessions /\ sess[r].act \in Nat /\ sess[r].pre \in Nat
        /\ sess[r].state = "open" /\ PaidFor(r, sess[r].pre)
     BY DEF IInv, TypeOK, Sessions, Ctl, Funds, Serving
  <1>1. s \in Sessions
     BY <1>0, SettleSourceFacts, SettledSessions DEF States
  <1>2. sess'[r] = s /\ pc'[r] = "settleToken"
     BY <1>1, Moved
  <1>3. TablesOK(r) /\ earning'[r] = earning[r] /\ refund'[r] = refund[r]
     BY SameTables
  <1>4. /\ sess'[r].state = "funded" /\ sess'[r].com = sess[r].act
        /\ sess'[r].act = sess[r].act /\ sess'[r].src \in Sources
     BY <1>0, <1>2, SettleSourceFacts DEF Sessions
  <1>5. Ctl(r)'
     BY <1>0, <1>2, <1>3, <1>4 DEF IInv, Ctl, Payable, Committed, Ready, Pending,
        Early, Reserving, Serving
  <1>6. PaidFor(r, sess[r].act)'
     <2>1. slip'[r] = slip[r]
        OBVIOUS
     <2>. QED  BY <2>1, <1>0, <1>4, SettleSourceFacts, PaidInt DEF PaidFor
  <1>7. Funds(r)'
     BY <1>2, <1>4, <1>6 DEF Funds, PaidFor, Early, Reserving, Serving, Sources
  <1>. QED  BY <1>1, <1>3, <1>5, <1>7, OneRequest DEF PCs

\* The funding change failed: the pre-charge is retained, or nothing is due.
LEMMA SettleFailedStep ==
    ASSUME IInv, NEW r \in Requests, SettleFailed(r), pc[r] \in {"settle", "overflow"},
           UNCHANGED <<tables, slip>>
    PROVE  IInv'
  <1>. UNCHANGED money
     BY DEF SettleFailed
  <1>0. /\ sess[r] \in Sessions /\ sess[r].act \in Nat /\ sess[r].pre \in Nat
        /\ sess[r].state = "open" /\ PaidFor(r, sess[r].pre)
     BY DEF IInv, TypeOK, Sessions, Ctl, Funds, Serving
  <1>1. TablesOK(r) /\ earning'[r] = earning[r] /\ refund'[r] = refund[r]
     BY SameTables
  <1>2. MoneyOK(r) /\ Paid(r)' = Paid(r) /\ slip'[r] = slip[r]
     BY SameMoney
  <1>3. CASE sess[r].act > 0 /\ sess[r].pre > 0
     <2>. DEFINE s == [sess[r] EXCEPT !.err = TRUE, !.state = "retained", !.com = sess[r].pre]
     <2>1. Become(r, s) /\ Goto(r, "publish")
        BY <1>3, <1>0 DEF SettleFailed, Retained, Sessions
     <2>2. s \in Sessions
        BY <1>0, SettleSourceFacts, SettledSessions DEF States
     <2>3. sess'[r] = s /\ pc'[r] = "publish"
        BY <2>1, <2>2, Moved
     <2>4. /\ sess'[r].state = "retained" /\ sess'[r].com = sess[r].pre
           /\ sess'[r].act = sess[r].act
        BY <1>0, <2>3 DEF Sessions
     <2>5. Ctl(r)'
        BY <1>0, <1>1, <1>3, <2>3, <2>4 DEF IInv, Ctl, Payable, Committed, Ready, Pending,
           Early, Reserving, Serving
     <2>6. Funds(r)'
        BY <1>0, <1>2, <2>3, <2>4 DEF Funds, PaidFor, Committed, Early, Reserving, Serving
     <2>. QED  BY <1>1, <1>2, <2>1, <2>2, <2>5, <2>6, OneRequest DEF PCs
  <1>4. CASE ~(sess[r].act > 0 /\ sess[r].pre > 0)
     <2>. DEFINE s == [sess[r] EXCEPT !.src = SettleSource(r), !.err = TRUE]
     <2>1. Become(r, s) /\ Goto(r, "cancel")
        BY <1>4, <1>0 DEF SettleFailed, Retained, Sessions
     <2>2. s \in Sessions
        BY <1>0, SettleSourceFacts, SettledSessions DEF States
     <2>3. sess'[r] = s /\ pc'[r] = "cancel"
        BY <2>1, <2>2, Moved
     <2>4. /\ sess'[r].state = "open" /\ sess'[r].pre = sess[r].pre
           /\ sess'[r].com = sess[r].com
           /\ sess'[r].act = sess[r].act /\ sess'[r].src \in Sources
        BY <1>0, <2>3, SettleSourceFacts DEF Sessions
     <2>5. Ctl(r)'
        BY <1>0, <1>1, <2>3, <2>4 DEF IInv, Ctl, Payable, Committed, Ready, Pending,
           Early, Reserving, Serving
     <2>6. Funds(r)'
        BY <1>0, <1>2, <2>3, <2>4
        DEF Funds, PaidFor, Committed, Early, Reserving, Serving, Sources
     <2>. QED  BY <1>1, <1>2, <2>1, <2>2, <2>5, <2>6, OneRequest DEF PCs
  <1>. QED  BY <1>3, <1>4

\* The funding statement of the settlement.
LEMMA SettleFundingStep ==
    ASSUME IInv, NEW r \in Requests, SettleFunding(r)
    PROVE  IInv'
  <1>. pc[r] = "settle" /\ UNCHANGED <<tables, slip>>
     BY DEF SettleFunding
  <1>1. CASE Apply(r, SettleSource(r), Delta(r)) /\ FundingSettled(r)
     <2>1. MoneyOK(r) /\ Paid(r)' = Paid(r) + Delta(r)
        BY <1>1, SettleSourceFacts, FundingFacts DEF IInv
     <2>. QED  BY <1>1, <2>1, FundingSettledStep
  <1>2. CASE Goto(r, "overflow") /\ UNCHANGED <<money, sess>>
    <2>1. sess[r] \in Sessions /\ Become(r, sess[r])
       BY <1>2, SameSession
    <2>2. sess'[r] = sess[r] /\ pc'[r] = "overflow"
       BY <1>2, <2>1, Moved
    <2>3. TablesOK(r) /\ earning'[r] = earning[r] /\ refund'[r] = refund[r]
       BY <1>2, SameTables
    <2>4. MoneyOK(r) /\ Paid(r)' = Paid(r)
       BY <1>2, SameMoney
    <2>5. Ctl(r)'
       BY <1>2, <2>2, <2>3 DEF IInv, TypeOK, Sessions, Ctl, Payable, Committed, Ready, Pending,
          Early, Reserving, Serving
    <2>6. Funds(r)'
       BY <1>2, <2>2, <2>4 DEF IInv, TypeOK, Sessions, Ctl, Funds, PaidFor, Committed,
          Early, Reserving, Serving
    <2>. QED  BY <1>2, <2>1, <2>3, <2>4, <2>5, <2>6, OneRequest DEF PCs
  <1>3. CASE SettleFailed(r)
     BY <1>3, SettleFailedStep
  <1>. QED  BY <1>1, <1>2, <1>3 DEF SettleFunding

\* The rest of a subscription charge taken from the wallet.
LEMMA SettleOverflowStep ==
    ASSUME IInv, NEW r \in Requests, SettleOverflow(r)
    PROVE  IInv'
  <1>. pc[r] = "overflow" /\ UNCHANGED <<tables, slip>>
     BY DEF SettleOverflow
  <1>1. CASE Charge(r, "wallet", Delta(r)) /\ FundingSettled(r)
     <2>1. MoneyOK(r) /\ Paid(r)' = Paid(r) + Delta(r)
        BY <1>1, SettleSourceFacts, FundingFacts DEF IInv, Sources
     <2>. QED  BY <1>1, <2>1, FundingSettledStep
  <1>2. CASE SettleFailed(r)
     BY <1>2, SettleFailedStep
  <1>. QED  BY <1>1, <1>2 DEF SettleOverflow

\* The token statement of the settlement.
LEMMA SettleTokenStep ==
    ASSUME IInv, NEW r \in Requests, SettleToken(r)
    PROVE  IInv'
  <1>. pc[r] = "settleToken" /\ UNCHANGED <<tables, slip>>
     BY DEF SettleToken
  <1>1. CASE /\ TokenStep(r, Delta(r))
             /\ Become(r, [sess[r] EXCEPT !.state = "settled"])
             /\ Goto(r, "publish")
    <2>1. [sess[r] EXCEPT !.state = "settled"] \in Sessions
       BY SessionOf DEF Sessions, States
    <2>2. sess'[r] = [sess[r] EXCEPT !.state = "settled"] /\ pc'[r] = "publish"
       BY <1>1, <2>1, Moved
    <2>3. TablesOK(r) /\ earning'[r] = earning[r] /\ refund'[r] = refund[r]
       BY <1>1, SameTables
    <2>4. MoneyOK(r) /\ Paid(r)' = Paid(r)
       BY <1>1, SettleSourceFacts, TokenFacts DEF IInv
    <2>5. Ctl(r)'
       BY <1>1, <2>2, <2>3 DEF IInv, TypeOK, Sessions, Ctl, Payable, Committed, Ready, Pending,
          Early, Reserving, Serving
    <2>6. Funds(r)'
       BY <1>1, <2>2, <2>4 DEF IInv, TypeOK, Sessions, Ctl, Funds, PaidFor, Committed,
          Early, Reserving, Serving
    <2>. QED  BY <1>1, <2>1, <2>3, <2>4, <2>5, <2>6, OneRequest DEF PCs
  <1>2. CASE Goto(r, "adjust") /\ UNCHANGED <<money, sess>>
    <2>1. sess[r] \in Sessions /\ Become(r, sess[r])
       BY <1>2, SameSession
    <2>2. sess'[r] = sess[r] /\ pc'[r] = "adjust"
       BY <1>2, <2>1, Moved
    <2>3. TablesOK(r) /\ earning'[r] = earning[r] /\ refund'[r] = refund[r]
       BY <1>2, SameTables
    <2>4. MoneyOK(r) /\ Paid(r)' = Paid(r)
       BY <1>2, SameMoney
    <2>5. Ctl(r)'
       BY <1>2, <2>2, <2>3 DEF IInv, TypeOK, Sessions, Ctl, Payable, Committed, Ready, Pending,
          Early, Reserving, Serving
    <2>6. Funds(r)'
       BY <1>2, <2>2, <2>4 DEF IInv, TypeOK, Sessions, Ctl, Funds, PaidFor, Committed,
          Early, Reserving, Serving
    <2>. QED  BY <1>2, <2>1, <2>3, <2>4, <2>5, <2>6, OneRequest DEF PCs
  <1>. QED  BY <1>1, <1>2 DEF SettleToken

\* The token adjustment kept for recovery.
LEMMA PersistAdjustmentStep ==
    ASSUME IInv, NEW r \in Requests, PersistAdjustment(r)
    PROVE  IInv'
  <1>. pc[r] = "adjust" /\ Goto(r, "publish") /\ UNCHANGED <<money, earning, refund>>
     BY DEF PersistAdjustment
  <1>1. CASE /\ adj' = [adj EXCEPT ![r] = [status |-> "pending", delta |-> Delta(r)]]
             /\ Become(r, [sess[r] EXCEPT !.state = "settled"])
             /\ UNCHANGED slip
    <2>1. [sess[r] EXCEPT !.state = "settled"] \in Sessions
       BY SessionOf DEF Sessions, States
    <2>2. sess'[r] = [sess[r] EXCEPT !.state = "settled"] /\ pc'[r] = "publish"
       BY <1>1, <2>1, Moved
    <2>3. TablesOK(r) /\ earning'[r] = earning[r] /\ refund'[r] = refund[r]
       BY <1>1, SettleSourceFacts DEF IInv, TypeOK, TablesOK, Adjs
    <2>4. MoneyOK(r) /\ Paid(r)' = Paid(r)
       BY <1>1, SameMoney
    <2>5. Ctl(r)'
       BY <1>1, <2>2, <2>3 DEF IInv, TypeOK, Sessions, Ctl, Payable, Committed, Ready, Pending,
          Early, Reserving, Serving
    <2>6. Funds(r)'
       BY <1>1, <2>2, <2>4 DEF IInv, TypeOK, Sessions, Ctl, Funds, PaidFor, Committed,
          Early, Reserving, Serving
    <2>. QED  BY <1>1, <2>1, <2>3, <2>4, <2>5, <2>6, OneRequest DEF PCs
  <1>2. CASE /\ Become(r, [sess[r] EXCEPT !.state = "settled", !.err = TRUE])
             /\ Lost(r)
             /\ UNCHANGED adj
     <2>0. slip'[r]
        BY <1>2 DEF Lost, IInv, TypeOK
    <2>1. [sess[r] EXCEPT !.state = "settled", !.err = TRUE] \in Sessions
       BY SessionOf DEF Sessions, States
    <2>2. sess'[r] = [sess[r] EXCEPT !.state = "settled", !.err = TRUE] /\ pc'[r] = "publish"
       BY <1>2, <2>1, Moved
    <2>3. TablesOK(r) /\ earning'[r] = earning[r] /\ refund'[r] = refund[r]
       BY <1>2, SameTables DEF tables
    <2>4. MoneyOK(r) /\ Paid(r)' = Paid(r)
       BY <1>2, SameMoney
    <2>5. Ctl(r)'
       BY <1>2, <2>2, <2>3 DEF IInv, TypeOK, Sessions, Ctl, Payable, Committed, Ready, Pending,
          Early, Reserving, Serving
    <2>6. Funds(r)'
       BY <1>2, <2>2, <2>4, <2>0, PaidInt DEF IInv, TypeOK, Sessions, Ctl, Funds, PaidFor, Committed,
          Early, Reserving, Serving
    <2>. QED  BY <1>2, <2>1, <2>3, <2>4, <2>5, <2>6, OneRequest DEF PCs
  <1>. QED  BY <1>1, <1>2 DEF PersistAdjustment

\* The rows a step leaves when it changes the earning of r only.
LEMMA EarningChanged ==
    ASSUME IInv, NEW r \in Requests, NEW e \in Earnings,
           earning' = [earning EXCEPT ![r] = e], UNCHANGED <<refund, adj>>
    PROVE  TablesOK(r) /\ earning'[r] = e /\ refund'[r] = refund[r]
  BY DEF IInv, TypeOK, TablesOK

\* Publishing makes the committed quota payable.
LEMMA MarkReadyStep ==
    ASSUME IInv, NEW r \in Requests, MarkReady(r)
    PROVE  IInv'
  <1>. pc[r] = "publish" /\ UNCHANGED <<money, refund, adj, slip>>
     BY DEF MarkReady
  <1>1. CASE /\ Pending(r)
             /\ earning' = [earning EXCEPT ![r] = ReadyEarning(r)]
             /\ Goto(r, "earn")
             /\ UNCHANGED sess
    <2>0. /\ ReadyEarning(r) \in Earnings /\ ReadyEarning(r).gross = sess[r].com
          /\ ReadyEarning(r).status = earning[r].status
       BY DEF IInv, TypeOK, Earnings, Sessions, ReadyEarning
    <2>1. sess[r] \in Sessions /\ Become(r, sess[r])
       BY <1>1, SameSession
    <2>2. sess'[r] = sess[r] /\ pc'[r] = "earn"
       BY <1>1, <2>1, Moved
    <2>3. TablesOK(r) /\ earning'[r] = ReadyEarning(r) /\ refund'[r] = refund[r]
       BY <1>1, <2>0, EarningChanged
    <2>4. MoneyOK(r) /\ Paid(r)' = Paid(r)
       BY <1>1, SameMoney
    <2>5. Ctl(r)'
       BY <1>1, <2>2, <2>3, <2>0 DEF IInv, TypeOK, Sessions, Ctl, Payable, Committed, Ready, Pending,
          Early, Reserving, Serving
    <2>6. Funds(r)'
       BY <1>1, <2>2, <2>4 DEF IInv, TypeOK, Sessions, Ctl, Funds, PaidFor, Committed,
          Early, Reserving, Serving
    <2>. QED  BY <1>1, <2>1, <2>3, <2>4, <2>5, <2>6, OneRequest DEF PCs
  <1>2. CASE /\ Become(r, [sess[r] EXCEPT !.err = TRUE])
             /\ Goto(r, "closing")
             /\ UNCHANGED earning
    <2>1. [sess[r] EXCEPT !.err = TRUE] \in Sessions
       BY SessionOf DEF Sessions
    <2>2. sess'[r] = [sess[r] EXCEPT !.err = TRUE] /\ pc'[r] = "closing"
       BY <1>2, <2>1, Moved
    <2>3. TablesOK(r) /\ earning'[r] = earning[r] /\ refund'[r] = refund[r]
       BY <1>2, SameTables DEF tables
    <2>4. MoneyOK(r) /\ Paid(r)' = Paid(r)
       BY <1>2, SameMoney
    <2>5. Ctl(r)'
       BY <1>2, <2>2, <2>3 DEF IInv, TypeOK, Sessions, Ctl, Payable, Committed, Ready, Pending,
          Early, Reserving, Serving
    <2>6. Funds(r)'
       BY <1>2, <2>2, <2>4 DEF IInv, TypeOK, Sessions, Ctl, Funds, PaidFor, Committed,
          Early, Reserving, Serving
    <2>. QED  BY <1>2, <2>1, <2>3, <2>4, <2>5, <2>6, OneRequest DEF PCs
  <1>3. CASE Goto(r, "closing") /\ UNCHANGED <<sess, earning>>
    <2>1. sess[r] \in Sessions /\ Become(r, sess[r])
       BY <1>3, SameSession
    <2>2. sess'[r] = sess[r] /\ pc'[r] = "closing"
       BY <1>3, <2>1, Moved
    <2>3. TablesOK(r) /\ earning'[r] = earning[r] /\ refund'[r] = refund[r]
       BY <1>3, SameTables DEF tables
    <2>4. MoneyOK(r) /\ Paid(r)' = Paid(r)
       BY <1>3, SameMoney
    <2>5. Ctl(r)'
       BY <1>3, <2>2, <2>3 DEF IInv, TypeOK, Sessions, Ctl, Payable, Committed, Ready, Pending,
          Early, Reserving, Serving
    <2>6. Funds(r)'
       BY <1>3, <2>2, <2>4 DEF IInv, TypeOK, Sessions, Ctl, Funds, PaidFor, Committed,
          Early, Reserving, Serving
    <2>. QED  BY <1>3, <2>1, <2>3, <2>4, <2>5, <2>6, OneRequest DEF PCs
  <1>. QED  BY <1>1, <1>2, <1>3 DEF MarkReady

\* An earning that is settled or cancelled keeps its amount.
LEMMA EarningEnds ==
    ASSUME IInv, NEW r \in Requests, UNCHANGED <<refund, adj>>,
           \/ Ready(r) /\ earning' = SettledEarning(r)
           \/ earning' = CancelledEarning(r)
           \/ UNCHANGED earning
    PROVE  /\ TablesOK(r) /\ refund'[r] = refund[r]
           /\ earning'[r].gross = earning[r].gross
           /\ earning'[r].deferred = earning[r].deferred
           /\ \/ earning'[r].status = earning[r].status
              \/ Ready(r) /\ earning'[r].status = "settled"
              \/ Pending(r) /\ earning'[r].status = "cancelled"
  <1>1. earning[r] \in Earnings
     BY DEF IInv, TypeOK
  <1>2. ASSUME NEW st \in {"settled", "cancelled"}, earning' = [earning EXCEPT ![r].status = st]
        PROVE  TablesOK(r) /\ earning'[r] = [earning[r] EXCEPT !.status = st]
     BY <1>1, <1>2 DEF IInv, TypeOK, TablesOK, Earnings
  <1>3. CASE UNCHANGED earning
     BY <1>3 DEF IInv, TypeOK, TablesOK
  <1>4. CASE Ready(r) /\ earning' = SettledEarning(r)
     BY <1>1, <1>2, <1>4 DEF SettledEarning, Earnings
  <1>5. CASE earning' = CancelledEarning(r)
     BY <1>1, <1>2, <1>3, <1>5 DEF CancelledEarning, Earnings
  <1>. QED  BY <1>3, <1>4, <1>5

\* Settling right after publishing.
LEMMA SettleEarningStep ==
    ASSUME IInv, NEW r \in Requests, SettleEarning(r)
    PROVE  IInv'
  <1>. /\ pc[r] = "earn" /\ Goto(r, "closing") /\ UNCHANGED <<money, sess, refund, adj, slip>>
       /\ (Ready(r) /\ earning' = SettledEarning(r)) \/ UNCHANGED earning
     BY DEF SettleEarning
  <1>1. sess[r] \in Sessions /\ Become(r, sess[r])
     BY SameSession
  <1>2. sess'[r] = sess[r] /\ pc'[r] = "closing"
     BY <1>1, Moved
  <1>3. /\ TablesOK(r) /\ refund'[r] = refund[r]
        /\ earning'[r].gross = earning[r].gross
        /\ earning'[r].deferred = earning[r].deferred
        /\ \/ earning'[r].status = earning[r].status
           \/ Ready(r) /\ earning'[r].status = "settled"
           \/ Pending(r) /\ earning'[r].status = "cancelled"
     BY EarningEnds
  <1>4. MoneyOK(r) /\ Paid(r)' = Paid(r)
     BY SameMoney
  <1>5. Ctl(r)'
     BY <1>2, <1>3 DEF IInv, TypeOK, Sessions, Ctl, Payable, Committed, Ready, Pending,
        Early, Reserving, Serving
  <1>6. Funds(r)'
     BY <1>2, <1>4 DEF IInv, TypeOK, Sessions, Ctl, Funds, PaidFor, Committed,
        Early, Reserving, Serving
  <1>. QED  BY <1>1, <1>3, <1>4, <1>5, <1>6, OneRequest DEF PCs

\* Cancelling after a settlement that committed nothing.
LEMMA CancelEarningStep ==
    ASSUME IInv, NEW r \in Requests, CancelEarning(r)
    PROVE  IInv'
  <1>. /\ pc[r] = "cancel" /\ Goto(r, "closing") /\ UNCHANGED <<money, sess, refund, adj, slip>>
       /\ earning' = CancelledEarning(r) \/ UNCHANGED earning
     BY DEF CancelEarning
  <1>1. sess[r] \in Sessions /\ Become(r, sess[r])
     BY SameSession
  <1>2. sess'[r] = sess[r] /\ pc'[r] = "closing"
     BY <1>1, Moved
  <1>3. /\ TablesOK(r) /\ refund'[r] = refund[r]
        /\ earning'[r].gross = earning[r].gross
        /\ earning'[r].deferred = earning[r].deferred
        /\ \/ earning'[r].status = earning[r].status
           \/ Ready(r) /\ earning'[r].status = "settled"
           \/ Pending(r) /\ earning'[r].status = "cancelled"
     BY EarningEnds
  <1>4. MoneyOK(r) /\ Paid(r)' = Paid(r)
     BY SameMoney
  <1>5. Ctl(r)'
     BY <1>2, <1>3 DEF IInv, TypeOK, Sessions, Ctl, Payable, Committed, Ready, Pending,
        Early, Reserving, Serving
  <1>6. Funds(r)'
     BY <1>2, <1>4 DEF IInv, TypeOK, Sessions, Ctl, Funds, PaidFor, Committed,
        Early, Reserving, Serving
  <1>. QED  BY <1>1, <1>3, <1>4, <1>5, <1>6, OneRequest DEF PCs

\* The deferred Refund writes a row only for an uncommitted request.
LEMMA RefundStep ==
    ASSUME IInv, NEW r \in Requests, Refund(r)
    PROVE  IInv'
  <1>. pc[r] = "closing" /\ UNCHANGED <<money, earning, adj>>
     BY DEF Refund
  <1>. PICK l \in {"fee", "done"} : Goto(r, l)
     BY DEF Refund
  <1>1. CASE /\ Refundable(sess[r])
             /\ refund' = [refund EXCEPT ![r] = RefundRow(r)]
             /\ Become(r, [sess[r] EXCEPT !.state = "refunded"])
             /\ UNCHANGED slip
    <2>0. RefundRow(r) \in Refunds /\ RefundRow(r).status = "pending"
       BY DEF IInv, TypeOK, Sessions, Refunds, RefundRow, Share
    <2>1. [sess[r] EXCEPT !.state = "refunded"] \in Sessions
       BY SessionOf DEF Sessions, States
    <2>2. sess'[r] = [sess[r] EXCEPT !.state = "refunded"] /\ pc'[r] = l
       BY <1>1, <2>1, Moved
    <2>3. TablesOK(r) /\ earning'[r] = earning[r] /\ refund'[r] = RefundRow(r)
       BY <1>1, <2>0 DEF IInv, TypeOK, TablesOK
    <2>4. MoneyOK(r) /\ Paid(r)' = Paid(r)
       BY <1>1, SameMoney
    <2>5. Ctl(r)'
      <3>1. Ctl(r) /\ sess[r] \in Sessions /\ sess[r].state = "open"
         BY <1>1, SessionOf DEF IInv, Refundable
      <3>2. sess'[r] = [sess[r] EXCEPT !.state = "refunded"] /\ sess'[r].state = "refunded"
         BY <2>2, <3>1 DEF Sessions
      <3>. QED  BY <2>0, <2>2, <2>3, <3>1, <3>2 DEF Sessions, Ctl, Payable, Committed,
              Ready, Pending, Early, Reserving, Serving
    <2>6. Funds(r)'
       BY <1>1, <2>2, <2>4 DEF IInv, TypeOK, Sessions, Ctl, Funds, PaidFor, Committed,
          Early, Reserving, Serving, Refundable
    <2>. QED  BY <1>1, <2>1, <2>3, <2>4, <2>5, <2>6, OneRequest DEF PCs
  <1>2. CASE UNCHANGED <<sess, refund>> /\ (Lost(r) \/ UNCHANGED slip)
    <2>0. slip'[r] = slip[r] \/ slip'[r]
       BY <1>2 DEF Lost, IInv, TypeOK
    <2>1. sess[r] \in Sessions /\ Become(r, sess[r])
       BY <1>2, SameSession
    <2>2. sess'[r] = sess[r] /\ pc'[r] = l
       BY <1>2, <2>1, Moved
    <2>3. TablesOK(r) /\ earning'[r] = earning[r] /\ refund'[r] = refund[r]
       BY <1>2, SameTables DEF tables
    <2>4. MoneyOK(r) /\ Paid(r)' = Paid(r)
       BY <1>2, SameMoney
    <2>5. Ctl(r)'
       BY <1>2, <2>2, <2>3 DEF IInv, TypeOK, Sessions, Ctl, Payable, Committed, Ready, Pending,
          Early, Reserving, Serving
    <2>6. Funds(r)'
       BY <1>2, <2>2, <2>4, <2>0, PaidInt DEF IInv, TypeOK, Sessions, Ctl, Funds, PaidFor, Committed,
          Early, Reserving, Serving
    <2>. QED  BY <1>2, <2>1, <2>3, <2>4, <2>5, <2>6, OneRequest DEF PCs
  <1>. QED  BY <1>1, <1>2 DEF Refund

\* The violation fee moves money, but not what the request paid otherwise.
LEMMA FeeFacts ==
    ASSUME TypeOK, NEW r \in Requests, NEW n \in Nat, SettleSource(r) \in Sources,
           ChargeViolationFee(r, n)
    PROVE  MoneyOK(r) /\ Paid(r)' = Paid(r) /\ PaidByToken(r)' = PaidByToken(r)
  <1>1. CASE UNCHANGED money
     BY <1>1 DEF money, TypeOK, MoneyOK, Paid, PaidByToken
  <1>2. ASSUME NEW a \in Sources, NEW t \in Nat, t = Share(r, n),
               bal' = [bal EXCEPT ![a] = @ - n, !["token"] = @ - Metered("token", t)],
               taken' = [taken EXCEPT ![r][a] = @ + n, ![r]["token"] = @ + t],
               fee' = [fee EXCEPT ![r] = @ + n]
        PROVE  MoneyOK(r) /\ Paid(r)' = Paid(r) /\ PaidByToken(r)' = PaidByToken(r)
     <2>1. a \in Accounts /\ a # "token" /\ "token" \in Accounts /\ taken[r] \in [Accounts -> Int]
        BY DEF Accounts, Sources, TypeOK
     <2>2. bal' \in [Accounts -> Int]
        BY <1>2, <2>1 DEF TypeOK, Metered
     <2>3. /\ taken' \in [Requests -> [Accounts -> Int]]
           /\ \A q \in Requests \ {r} : taken'[q] = taken[q]
           /\ taken'[r][a] = taken[r][a] + n /\ taken'[r]["token"] = taken[r]["token"] + t
           /\ \A b \in Accounts \ {"token", a} : taken'[r][b] = taken[r][b]
        BY <1>2, <2>1 DEF TypeOK
     <2>4. /\ fee' \in [Requests -> Nat] /\ fee'[r] = fee[r] + n /\ fee[r] \in Nat
           /\ \A q \in Requests \ {r} : fee'[q] = fee[q]
        BY <1>2 DEF TypeOK
     <2>5. Paid(r)' = Paid(r)
        BY <2>1, <2>3, <2>4 DEF Paid, Accounts, Sources
     <2>6. PaidByToken(r)' = PaidByToken(r)
        BY <1>2, <2>1, <2>3, <2>4 DEF PaidByToken, Share
     <2>. QED  BY <2>2, <2>3, <2>4, <2>5, <2>6 DEF MoneyOK
  <1>3. Share(r, n) \in Nat
     BY DEF Share
  <1>. QED  BY <1>1, <1>2, <1>3 DEF ChargeViolationFee, FeeFromToken

\* The session and the rows are as Refund left them.
LEMMA ChargeViolationFeeStep ==
    ASSUME IInv, NEW r \in Requests, NEW n \in Quotas[r], ChargeViolationFee(r, n)
    PROVE  IInv'
  <1>. /\ pc[r] = "fee" /\ Goto(r, "done") /\ UNCHANGED <<sess, tables, slip>>
     BY DEF ChargeViolationFee
  <1>1. sess[r] \in Sessions /\ Become(r, sess[r])
     BY SameSession
  <1>2. sess'[r] = sess[r] /\ pc'[r] = "done"
     BY <1>1, Moved
  <1>3. TablesOK(r) /\ earning'[r] = earning[r] /\ refund'[r] = refund[r]
     BY SameTables
  <1>4. MoneyOK(r) /\ Paid(r)' = Paid(r)
     BY FeeFacts, SettleSourceFacts, QuotasAssumption DEF IInv
  <1>5. Ctl(r)'
     BY <1>2, <1>3 DEF IInv, TypeOK, Sessions, Ctl, Payable, Committed, Ready, Pending,
        Early, Reserving, Serving
  <1>6. Funds(r)'
     BY <1>2, <1>4 DEF IInv, TypeOK, Sessions, Ctl, Funds, PaidFor, Committed,
        Early, Reserving, Serving
  <1>. QED  BY <1>1, <1>3, <1>4, <1>5, <1>6, OneRequest DEF PCs

\* A handler that returns no error.
LEMMA FinishStep ==
    ASSUME IInv, NEW r \in Requests, Finish(r)
    PROVE  IInv'
  <1>. /\ pc[r] = "closing" /\ Goto(r, "done") /\ UNCHANGED <<money, sess, tables, slip>>
     BY DEF Finish
  <1>1. sess[r] \in Sessions /\ Become(r, sess[r])
     BY SameSession
  <1>2. sess'[r] = sess[r] /\ pc'[r] = "done"
     BY <1>1, Moved
  <1>3. TablesOK(r) /\ earning'[r] = earning[r] /\ refund'[r] = refund[r]
     BY SameTables
  <1>4. MoneyOK(r) /\ Paid(r)' = Paid(r)
     BY SameMoney
  <1>5. Ctl(r)'
     BY <1>2, <1>3 DEF IInv, TypeOK, Sessions, Ctl, Payable, Committed, Ready, Pending,
        Early, Reserving, Serving
  <1>6. Funds(r)'
     BY <1>2, <1>4 DEF IInv, TypeOK, Sessions, Ctl, Funds, PaidFor, Committed,
        Early, Reserving, Serving
  <1>. QED  BY <1>1, <1>3, <1>4, <1>5, <1>6, OneRequest DEF PCs

\* A crash leaves the rows as they are.
LEMMA CrashStep ==
    ASSUME IInv, NEW r \in Requests, Crash(r)
    PROVE  IInv'
  <1>. /\ pc[r] \notin {"idle", "done", "dead"} /\ Goto(r, "dead")
       /\ UNCHANGED <<money, sess, tables, slip>>
     BY DEF Crash
  <1>1. sess[r] \in Sessions /\ Become(r, sess[r])
     BY SameSession
  <1>2. sess'[r] = sess[r] /\ pc'[r] = "dead"
     BY <1>1, Moved
  <1>3. TablesOK(r) /\ earning'[r] = earning[r] /\ refund'[r] = refund[r]
     BY SameTables
  <1>4. MoneyOK(r) /\ Paid(r)' = Paid(r)
     BY SameMoney
  <1>5. Ctl(r)'
     BY <1>2, <1>3 DEF IInv, TypeOK, Sessions, Ctl, Payable, Committed, Ready, Pending,
        Early, Reserving, Serving
  <1>6. Funds(r)'
     BY <1>2, <1>4 DEF IInv, TypeOK, Sessions, Ctl, Funds, PaidFor, Committed,
        Early, Reserving, Serving
  <1>. QED  BY <1>1, <1>3, <1>4, <1>5, <1>6, OneRequest DEF PCs

\* Recovery and the deferred refund do not move the request's goroutine.
LEMMA SamePlace ==
    ASSUME IInv, NEW r \in Requests, UNCHANGED <<pc, sess>>
    PROVE  /\ Goto(r, pc[r]) /\ pc[r] \in PCs /\ pc'[r] = pc[r]
           /\ Become(r, sess[r]) /\ sess[r] \in Sessions /\ sess'[r] = sess[r]
  BY DEF IInv, TypeOK, Goto, Become

\* The refund transaction: the request is not committed, so no payment is owed.
LEMMA ProcessBillingRefundStep ==
    ASSUME IInv, NEW r \in Requests, ProcessBillingRefund(r)
    PROVE  IInv'
  <1>. UNCHANGED <<pc, sess, adj, slip>> /\ RefundDue(r) /\ earning' = CancelledEarning(r)
       /\ refund' = [refund EXCEPT ![r].status = "complete"]
     BY DEF ProcessBillingRefund
  <1>1. /\ Goto(r, pc[r]) /\ pc[r] \in PCs /\ pc'[r] = pc[r]
        /\ Become(r, sess[r]) /\ sess[r] \in Sessions /\ sess'[r] = sess[r]
     BY SamePlace
  <1>2. sess[r].state = "refunded" /\ pc[r] \in {"fee", "done", "dead"}
     BY DEF RefundDue, IInv, Ctl
  <1>3. MoneyOK(r)
     BY BalanceAssumption
     DEF ProcessBillingRefund, Capped, Metered, MoneyOK, IInv, TypeOK, Refunds, Accounts, Sources
  <1>4. /\ refund' \in [Requests -> Refunds] /\ refund'[r].status = "complete"
        /\ \A q \in Requests \ {r} : refund'[q] = refund[q]
     BY DEF IInv, TypeOK, Refunds
  <1>5. /\ earning' \in [Requests -> Earnings] /\ \A q \in Requests \ {r} : earning'[q] = earning[q]
        /\ earning'[r] = earning[r] \/ earning'[r].status = "cancelled"
     BY DEF IInv, TypeOK, Earnings, CancelledEarning
  <1>6. TablesOK(r)
     BY <1>4, <1>5 DEF TablesOK, IInv, TypeOK
  <1>7. Ctl(r)'
     BY <1>1, <1>2, <1>4, <1>5 DEF IInv, Ctl, Payable, Committed, Ready, Pending, Early, Reserving, Serving
  <1>8. Funds(r)'
     BY <1>1, <1>2 DEF Funds, Committed, Early, Reserving, Serving
  <1>. QED  BY <1>1, <1>3, <1>6, <1>7, <1>8, OneRequest

\* Recovery settles what was published.
LEMMA RecoverReadyEarningStep ==
    ASSUME IInv, NEW r \in Requests, RecoverReadyEarning(r)
    PROVE  IInv'
  <1>. /\ Ready(r) /\ earning' = SettledEarning(r)
       /\ UNCHANGED <<bal, pc, sess, refund, adj, taken, fee, slip>>
     BY DEF RecoverReadyEarning
  <1>1. /\ Goto(r, pc[r]) /\ pc[r] \in PCs /\ pc'[r] = pc[r]
        /\ Become(r, sess[r]) /\ sess[r] \in Sessions /\ sess'[r] = sess[r]
     BY SamePlace
  <1>2. /\ TablesOK(r) /\ refund'[r] = refund[r]
        /\ earning'[r].gross = earning[r].gross
        /\ earning'[r].deferred = earning[r].deferred
        /\ \/ earning'[r].status = earning[r].status
           \/ Ready(r) /\ earning'[r].status = "settled"
           \/ Pending(r) /\ earning'[r].status = "cancelled"
     BY EarningEnds
  <1>3. MoneyOK(r) /\ Paid(r)' = Paid(r)
     BY SameMoney DEF money
  <1>4. Ctl(r)'
     BY <1>1, <1>2 DEF IInv, Ctl, Payable, Committed, Ready, Pending, Early, Reserving, Serving
  <1>5. Funds(r)'
     BY <1>1, <1>3 DEF IInv, Funds, PaidFor, Committed
  <1>. QED  BY <1>1, <1>2, <1>3, <1>4, <1>5, OneRequest

\* Recovery applies a token adjustment.
LEMMA ProcessTokenAdjustmentStep ==
    ASSUME IInv, NEW r \in Requests, ProcessTokenAdjustment(r)
    PROVE  IInv'
  <1>. /\ Apply(r, "token", adj[r].delta) /\ adj' = [adj EXCEPT ![r].status = "complete"]
       /\ UNCHANGED <<pc, sess, earning, refund, slip>>
     BY DEF ProcessTokenAdjustment
  <1>1. /\ Goto(r, pc[r]) /\ pc[r] \in PCs /\ pc'[r] = pc[r]
        /\ Become(r, sess[r]) /\ sess[r] \in Sessions /\ sess'[r] = sess[r]
     BY SamePlace
  <1>2. TablesOK(r) /\ earning'[r] = earning[r] /\ refund'[r] = refund[r]
     BY DEF IInv, TypeOK, TablesOK, Adjs
  <1>3. MoneyOK(r) /\ Paid(r)' = Paid(r)
     BY TokenFacts DEF IInv, TypeOK, Adjs
  <1>4. Ctl(r)'
     BY <1>1, <1>2 DEF IInv, Ctl, Payable, Committed, Ready, Pending
  <1>5. Funds(r)'
     BY <1>1, <1>3 DEF IInv, Funds, PaidFor, Committed
  <1>. QED  BY <1>1, <1>2, <1>3, <1>4, <1>5, OneRequest

\* A new subscription period changes a balance and nothing else.
LEMMA ResetSubscriptionStep ==
    ASSUME IInv, ResetSubscription
    PROVE  IInv'
  <1>1. TypeOK'
     BY BalanceAssumption DEF IInv, TypeOK, ResetSubscription, Accounts, Sources
  <1>. SUFFICES ASSUME NEW r \in Requests PROVE Ctl(r)' /\ Funds(r)'
     BY <1>1 DEF IInv
  <1>. QED  BY DEF IInv, Ctl, Funds, PaidFor, Paid, Committed, Payable, Ready, Pending,
               ResetSubscription

\* Every statement of a goroutine.
LEMMA StepIInv ==
    ASSUME IInv, NEW r \in Requests, Step(r)
    PROVE  IInv'
  BY BeginStep, ReserveFundingStep, PreConsumeLateStep, UpstreamSucceedsStep, TryWalletStep,
     TrySubscriptionStep, PreConsumeTokenStep, PreConsumeFundingStep, UndoTokenStep,
     ReserveTokenStep, RollbackReserveStep, UpstreamFailsStep, PrepareEarningStep,
     SettleEvenStep, SettleFundingStep, SettleOverflowStep, SettleTokenStep,
     PersistAdjustmentStep, MarkReadyStep, SettleEarningStep, CancelEarningStep,
     RefundStep, ChargeViolationFeeStep, FinishStep
  DEF Step

\* Every step.
LEMMA NextIInv == IInv /\ [Next]_vars => IInv'
  <1>. SUFFICES ASSUME IInv, [Next]_vars PROVE IInv'
     OBVIOUS
  <1>1. ASSUME NEW r \in Requests, Step(r) PROVE IInv'
     BY <1>1, StepIInv
  <1>2. ASSUME NEW r \in Requests, Recover(r) PROVE IInv'
     BY <1>2, ProcessBillingRefundStep, RecoverReadyEarningStep, ProcessTokenAdjustmentStep
     DEF Recover
  <1>3. ASSUME NEW r \in Requests, Crash(r) PROVE IInv'
     BY <1>3, CrashStep
  <1>4. CASE UNCHANGED vars
     BY <1>4 DEF IInv, TypeOK, Ctl, Funds, PaidFor, Paid, Committed, Payable, Ready, Pending, vars
  <1>. QED  BY <1>1, <1>2, <1>3, <1>4, ResetSubscriptionStep DEF Next

----------------------------------------------------------------------------
\* Theorems

\* The inductive invariant holds in every reachable state.
THEOREM InductiveInvariant == Spec => []IInv
  BY InitIInv, NextIInv, PTL DEF Spec

\* Every row, session and balance keeps its type; in particular the amounts in
\* the session, the earnings and the refund rows never become negative.
THEOREM TypeCorrect == Spec => []TypeOK
  <1>1. IInv => TypeOK
     BY DEF IInv
  <1>. QED  BY <1>1, InductiveInvariant, PTL

\* EarningBacked for every set of requests, amounts and balances: a provider is
\* never owed more than the consumer has paid, and exactly that unless a logged
\* compensation of the request was lost.
THEOREM EarningIsBacked == Spec => []EarningBacked
  <1>1. ASSUME IInv, NEW r \in Requests, Payable(r)
        PROVE  /\ 0 < earning[r].gross /\ earning[r].gross <= Paid(r)
               /\ ~slip[r] => earning[r].gross = Paid(r)
    <2>1. Paid(r) \in Int /\ sess[r].com \in Nat
       BY <1>1, PaidInt, SessionOf
    <2>2. Committed(r) /\ earning[r].gross = sess[r].com /\ sess[r].com > 0
       BY <1>1 DEF IInv, Ctl
    <2>3. PaidFor(r, sess[r].com)
       BY <1>1, <2>2 DEF IInv, Funds
    <2>. QED  BY <2>1, <2>2, <2>3 DEF PaidFor
  <1>2. IInv => EarningBacked
     BY <1>1 DEF EarningBacked
  <1>. QED  BY <1>2, InductiveInvariant, PTL

\* RefundExcludesCharge for every instance: a request has a refund row or a
\* committed charge, never both, so ProcessBillingRefund is never refused.
THEOREM RefundsExcludeCharges == Spec => []RefundExcludesCharge
  <1>1. IInv => RefundExcludesCharge
     BY DEF IInv, RefundExcludesCharge, Ctl, Committed
  <1>. QED  BY <1>1, InductiveInvariant, PTL

----------------------------------------------------------------------------
\* No account is overdrawn

\* A covered charge and a capped credit keep every balance in its bounds.
LEMMA AccountBounds ==
    ASSUME IInv, NoOverdraft, NEW r \in Requests, NEW a \in Accounts, NEW n \in Int,
           \/ Charge(r, a, n) /\ (a = "subscription" => n >= 0)
           \/ Credit(r, a, n) /\ n >= 0
           \/ Apply(r, a, n)
    PROVE  NoOverdraft'
  <1>. USE BalanceAssumption DEF IInv, TypeOK, NoOverdraft, Accounts, Sources
  <1>1. ASSUME NEW m \in Int, Charge(r, a, m), a = "subscription" => m >= 0
        PROVE  NoOverdraft'
     BY <1>1 DEF Charge, Covers, Metered
  <1>2. ASSUME NEW m \in Int, Credit(r, a, m), m >= 0
        PROVE  NoOverdraft'
     BY <1>2 DEF Credit, Capped, Metered
  <1>3. CASE Apply(r, a, n)
     BY <1>1, <1>2, <1>3 DEF Apply
  <1>. QED  BY <1>1, <1>2, <1>3

\* The same for the token, which playground requests leave alone.
LEMMA TokenBounds ==
    ASSUME IInv, NoOverdraft, NEW r \in Requests, NEW n \in Int, TokenStep(r, n)
    PROVE  NoOverdraft'
  <1>1. CASE UNCHANGED money
     BY <1>1 DEF money, NoOverdraft
  <1>2. CASE Apply(r, "token", n)
     BY <1>2, AccountBounds DEF Accounts
  <1>. QED  BY <1>1, <1>2 DEF TokenStep

\* The refund transaction only returns non-negative amounts.
LEMMA RefundBounds ==
    ASSUME IInv, NoOverdraft, NEW r \in Requests, ProcessBillingRefund(r)
    PROVE  NoOverdraft'
  <1>1. /\ refund[r].fund \in Nat /\ refund[r].extra \in Nat /\ refund[r].token \in Nat
        /\ refund[r].src \in Sources \cup {"none"}
     BY DEF IInv, TypeOK, Refunds
  <1>2. /\ bal \in [Accounts -> Int] /\ InitialBalance \in [Accounts -> Nat]
        /\ bal' = [bal EXCEPT ![refund[r].src] =
                                 Capped(refund[r].src, @ + refund[r].fund + refund[r].extra),
                              !["token"] = @ + Metered("token", refund[r].token)]
     BY BalanceAssumption DEF IInv, TypeOK, ProcessBillingRefund
  <1>. QED  BY <1>1, <1>2 DEF NoOverdraft, Capped, Metered, Accounts, Sources

\* The fee transaction is refused where an account does not cover it.
LEMMA FeeBounds ==
    ASSUME IInv, NoOverdraft, NEW r \in Requests, NEW n \in Quotas[r], ChargeViolationFee(r, n)
    PROVE  NoOverdraft'
  <1>1. SettleSource(r) \in Sources /\ n \in Nat /\ FeeFromToken(r, n) \in Nat
     BY SettleSourceFacts, QuotasAssumption DEF FeeFromToken, Share
  <1>2. CASE UNCHANGED money
     BY <1>2 DEF money, NoOverdraft
  <1>3. ASSUME NEW a \in Sources, NEW t \in Nat, Covers(a, n), Covers("token", t),
               bal' = [bal EXCEPT ![a] = @ - n, !["token"] = @ - Metered("token", t)]
        PROVE  NoOverdraft'
     BY <1>1, <1>3, BalanceAssumption
     DEF IInv, TypeOK, NoOverdraft, Covers, Metered, Accounts, Sources
  <1>. QED  BY <1>1, <1>2, <1>3 DEF ChargeViolationFee

\* The steps of a request that move money, one by one.
LEMMA StepBounds ==
    ASSUME IInv, NoOverdraft, NEW r \in Requests, Step(r)
    PROVE  NoOverdraft'
  <1>1. /\ sess[r].amt \in Nat /\ sess[r].tok \in Nat /\ sess[r].pre \in Nat
        /\ -sess[r].tok \in Int /\ sess[r].src \in Sources \cup {"none"}
     BY DEF IInv, TypeOK, Sessions
  <1>2. Accounts = Sources \cup {"token"} /\ "wallet" \in Sources
     BY DEF Accounts, Sources
  <1>3. CASE UNCHANGED money
     BY <1>3 DEF money, NoOverdraft
  <1>4. CASE PreConsumeToken(r) \/ UndoToken(r) \/ ReserveToken(r) \/ SettleToken(r)
     BY <1>1, <1>3, <1>4, SettleSourceFacts, TokenBounds
     DEF PreConsumeToken, UndoToken, ReserveToken, SettleToken
  <1>5. CASE PreConsumeFunding(r)
     <2>1. Head(sess[r].plan) \in Sources
        BY <1>5, RestFacts DEF PreConsumeFunding, IInv, TypeOK, Sessions, Ctl
     <2>. QED  BY <1>1, <1>2, <1>3, <1>5, <2>1, AccountBounds DEF PreConsumeFunding
  <1>6. ASSUME NEW q \in Quotas[r], ReserveFunding(r, q) PROVE NoOverdraft'
     <2>1. q - sess[r].pre \in Int /\ q - sess[r].pre >= 0
        BY <1>1, <1>6, QuotasAssumption DEF ReserveFunding
     <2>2. sess[r].src \in Sources
        BY <1>1, <1>6 DEF ReserveFunding
     <2>. QED  BY <1>2, <1>3, <1>6, <2>1, <2>2, AccountBounds DEF ReserveFunding
  <1>7. CASE RollbackReserve(r)
     <2>1. sess[r].src \in Sources
        BY <1>1, <1>7 DEF RollbackReserve, IInv, Funds, Reserving
     <2>. QED  BY <1>1, <1>2, <1>3, <1>7, <2>1, AccountBounds DEF RollbackReserve
  <1>8. CASE SettleFunding(r)
     BY <1>2, <1>3, <1>8, SettleSourceFacts, AccountBounds DEF SettleFunding, SettleFailed
  <1>9. CASE SettleOverflow(r)
     BY <1>2, <1>3, <1>9, SettleSourceFacts, AccountBounds DEF SettleOverflow, SettleFailed
  <1>. QED  BY <1>3, <1>4, <1>5, <1>6, <1>7, <1>8, <1>9, FeeBounds
            DEF Step, Begin, PreConsumeLate, UpstreamSucceeds, TryWallet, TrySubscription,
                UpstreamFails, PrepareEarning, SettleEven, PersistAdjustment, MarkReady,
                SettleEarning, CancelEarning, Refund, Finish

\* NoOverdraft for every instance: conditional updates and the clamp of
\* postConsumeUserSubscriptionDeltaTx suffice, whatever interleaves with them.
THEOREM NothingOverdrawn == Spec => []NoOverdraft
  <1>1. Init => NoOverdraft
     BY BalanceAssumption DEF Init, NoOverdraft, Accounts, Sources
  <1>2. IInv /\ NoOverdraft /\ [Next]_vars => NoOverdraft'
     <2>. SUFFICES ASSUME IInv, NoOverdraft, [Next]_vars PROVE NoOverdraft'
        OBVIOUS
     <2>1. ASSUME NEW r \in Requests, Step(r) PROVE NoOverdraft'
        BY <2>1, StepBounds
     <2>2. ASSUME NEW r \in Requests, Recover(r) PROVE NoOverdraft'
        <3>1. CASE ProcessBillingRefund(r)
           BY <3>1, RefundBounds
        <3>2. CASE RecoverReadyEarning(r)
           BY <3>2 DEF RecoverReadyEarning, NoOverdraft
        <3>3. CASE ProcessTokenAdjustment(r)
           BY <3>3, AccountBounds DEF ProcessTokenAdjustment, IInv, TypeOK, Adjs, Accounts
        <3>. QED  BY <2>2, <3>1, <3>2, <3>3 DEF Recover
     <2>3. ASSUME NEW r \in Requests, Crash(r) PROVE NoOverdraft'
        BY <2>3 DEF Crash, money, NoOverdraft
     <2>4. CASE ResetSubscription
        BY <2>4, BalanceAssumption
        DEF ResetSubscription, NoOverdraft, IInv, TypeOK, Accounts, Sources
     <2>5. CASE UNCHANGED vars
        BY <2>5 DEF vars, NoOverdraft
     <2>. QED  BY <2>1, <2>2, <2>3, <2>4, <2>5 DEF Next
  <1>. QED  BY <1>1, <1>2, InductiveInvariant, PTL DEF Spec

----------------------------------------------------------------------------
\* The decision about a request

\* A step of r leaves the other requests alone.
Frame(r) ==
    \A q \in Requests \ {r} :
       /\ sess'[q] = sess[q] /\ earning'[q] = earning[q] /\ refund'[q] = refund[q]
       /\ adj'[q] = adj[q] /\ taken'[q] = taken[q] /\ fee'[q] = fee[q]

\* What a step of r may do to the decision about r: nothing, commit it while
\* the earning stands, return it, or release the earning of a committed one.
SameDecision(r) ==
    /\ sess[r].state = sess'[r].state \/ (Committed(r) /\ Committed(r)')
    /\ Committed(r) => sess'[r].com = sess[r].com
    /\ Committed(r) => Payable(r)' = Payable(r)
    /\ Committed(r) /\ Payable(r) => earning'[r].gross = earning[r].gross
Decision(r) ==
    \/ SameDecision(r)
    \/ sess[r].state = "open" /\ Committed(r)' /\ earning'[r] = earning[r]
    \/ sess[r].state = "open" /\ sess'[r].state = "refunded"
    \/ Committed(r) /\ sess'[r] = sess[r] /\ Payable(r)' /\ ~Payable(r)

----------------------------------------------------------------------------
\* Frame

\* The parts of an action: the session, the money, the label.
LEMMA BecomeFrame ==
    ASSUME TypeOK, NEW r \in Requests, NEW s, Become(r, s)
    PROVE  /\ \A q \in Requests \ {r} : sess'[q] = sess[q]
           /\ sess'[r] = s
  BY DEF TypeOK, Become

\* Accounts are charged on behalf of one request.
LEMMA MoneyFrame ==
    ASSUME TypeOK, NEW r \in Requests, NEW a, NEW n,
           \/ Charge(r, a, n) \/ Credit(r, a, n) \/ Apply(r, a, n) \/ TokenStep(r, n)
           \/ UNCHANGED money
    PROVE  \A q \in Requests \ {r} : taken'[q] = taken[q] /\ fee'[q] = fee[q]
  BY DEF TypeOK, Charge, Credit, Apply, TokenStep, money

\* The steps of a goroutine.
LEMMA StepFrame ==
    ASSUME IInv, NEW r \in Requests, Step(r)
    PROVE  Frame(r)
  <1>. TypeOK
     BY DEF IInv
  <1>. DEFINE S == \A q \in Requests \ {r} : sess'[q] = sess[q]
              M == \A q \in Requests \ {r} : taken'[q] = taken[q] /\ fee'[q] = fee[q]
              T == \A q \in Requests \ {r} : /\ earning'[q] = earning[q]
                                             /\ refund'[q] = refund[q] /\ adj'[q] = adj[q]
  <1>1. UNCHANGED tables => T
     BY DEF tables
  <1>2. UNCHANGED money => M
     BY DEF money
  <1>3. UNCHANGED sess => S
     OBVIOUS
  <1>4. ASSUME NEW s, Become(r, s) PROVE S
     BY <1>4, BecomeFrame
  <1>. SUFFICES S /\ M /\ T
     BY DEF Frame
  <1>. HIDE DEF S, M, T
  <1>5. ASSUME NEW q \in Quotas[r], Begin(r, q) \/ PreConsumeLate(r, q) \/ UpstreamSucceeds(r, q)
        PROVE  S /\ M /\ T
     BY <1>1, <1>2, <1>3, <1>4, <1>5 DEF Begin, PreConsumeLate, UpstreamSucceeds, OpenSession
  <1>6. ASSUME NEW q \in Quotas[r], ReserveFunding(r, q)
        PROVE  S /\ M /\ T
     BY <1>1, <1>4, <1>6, MoneyFrame DEF ReserveFunding, ReserveFailed, M
  <1>7. CASE TryWallet(r) \/ TrySubscription(r) \/ UpstreamFails(r) \/ SettleEven(r) \/ Finish(r)
     BY <1>1, <1>2, <1>3, <1>4, <1>7
     DEF TryWallet, TrySubscription, NextSource, UpstreamFails, SettleEven, Finish
  <1>8. CASE PreConsumeToken(r) \/ UndoToken(r) \/ ReserveToken(r) \/ SettleToken(r)
     BY <1>1, <1>3, <1>4, <1>8, MoneyFrame
     DEF PreConsumeToken, UndoToken, ReserveToken, SettleToken, NextSource, M
  <1>9. CASE PreConsumeFunding(r) \/ RollbackReserve(r)
     BY <1>1, <1>3, <1>4, <1>9, MoneyFrame DEF PreConsumeFunding, RollbackReserve, ReserveFailed, M
  <1>10. CASE SettleFunding(r) \/ SettleOverflow(r)
     BY <1>1, <1>3, <1>4, <1>10, MoneyFrame
     DEF SettleFunding, SettleOverflow, FundingSettled, SettleFailed, M
  <1>11. CASE PrepareEarning(r) \/ MarkReady(r)
     <2>1. S /\ M
        BY <1>2, <1>3, <1>4, <1>11 DEF PrepareEarning, MarkReady
     <2>2. T
        BY <1>11 DEF PrepareEarning, MarkReady, T, TypeOK
     <2>. QED  BY <2>1, <2>2
  <1>12. CASE SettleEarning(r) \/ CancelEarning(r)
     <2>1. S /\ M
        BY <1>2, <1>3, <1>12 DEF SettleEarning, CancelEarning
     <2>2. T
        BY <1>12 DEF SettleEarning, CancelEarning, SettledEarning, CancelledEarning, T, TypeOK
     <2>. QED  BY <2>1, <2>2
  <1>13. CASE PersistAdjustment(r) \/ Refund(r)
     <2>1. S /\ M
        BY <1>2, <1>3, <1>4, <1>13 DEF PersistAdjustment, Refund
     <2>2. T
        BY <1>13 DEF PersistAdjustment, Refund, T, TypeOK
     <2>. QED  BY <2>1, <2>2
  <1>14. ASSUME NEW n \in Quotas[r], ChargeViolationFee(r, n)
         PROVE  S /\ M /\ T
     <2>1. M
        BY <1>14, FeeFacts, SettleSourceFacts, QuotasAssumption DEF MoneyOK, M
     <2>. QED  BY <1>1, <1>3, <1>14, <2>1 DEF ChargeViolationFee
  <1>. QED  BY <1>5, <1>6, <1>7, <1>8, <1>9, <1>10, <1>11, <1>12, <1>13, <1>14 DEF Step

\* The recovery workers and a crash.
LEMMA RecoverFrame ==
    ASSUME IInv, NEW r \in Requests, Recover(r) \/ Crash(r)
    PROVE  Frame(r)
  <1>. TypeOK
     BY DEF IInv
  <1>1. CASE ProcessBillingRefund(r)
     BY <1>1 DEF ProcessBillingRefund, CancelledEarning, Frame, TypeOK
  <1>2. CASE RecoverReadyEarning(r)
     BY <1>2 DEF RecoverReadyEarning, SettledEarning, Frame, TypeOK
  <1>3. CASE ProcessTokenAdjustment(r)
     <2>1. \A q \in Requests \ {r} : taken'[q] = taken[q] /\ fee'[q] = fee[q]
        BY <1>3, MoneyFrame DEF ProcessTokenAdjustment
     <2>. QED  BY <1>3, <2>1 DEF ProcessTokenAdjustment, Frame, TypeOK
  <1>4. CASE Crash(r)
     BY <1>4 DEF Crash, Frame, tables, money
  <1>. QED  BY <1>1, <1>2, <1>3, <1>4 DEF Recover

----------------------------------------------------------------------------
\* Decision

\* A session and an earning that do not change.
LEMMA SameRows ==
    ASSUME NEW r \in Requests, sess'[r] = sess[r], earning'[r] = earning[r]
    PROVE  Decision(r)
  BY DEF Decision, SameDecision, Committed, Payable, Ready, Pending

\* Until it settles, a request is undecided.
LEMMA OpenDecision ==
    ASSUME NEW r \in Requests, sess[r].state = "open", sess'[r].state = "open"
    PROVE  Decision(r)
  BY DEF Decision, SameDecision, Committed

\* Pre-charge: every session that is built or dropped is open.
LEMMA EarlyDecision ==
    ASSUME IInv, NEW r \in Requests,
           \/ \E q \in Quotas[r] : Begin(r, q) \/ PreConsumeLate(r, q)
           \/ TryWallet(r) \/ TrySubscription(r) \/ PreConsumeToken(r) \/ PreConsumeFunding(r)
           \/ UndoToken(r)
    PROVE  Decision(r)
  <1>1. sess[r].state = "open" /\ sess[r] \in Sessions /\ TypeOK
     BY DEF IInv, TypeOK, Ctl, Early, Serving, Begin, PreConsumeLate, TryWallet,
        TrySubscription, PreConsumeToken, PreConsumeFunding, UndoToken
  <1>2. ASSUME NEW want, OpenSession(r, want) PROVE sess'[r].state = "open"
     <2>1. PICK plan \in Plans : Become(r, [NoSession EXCEPT !.plan = plan, !.amt = want,
                                                          !.err = sess[r].err])
        BY <1>2 DEF OpenSession
     <2>2. sess'[r] = [NoSession EXCEPT !.plan = plan, !.amt = want, !.err = sess[r].err]
        BY <1>1, <2>1, BecomeFrame
     <2>. QED  BY <2>2 DEF NoSession
  <1>3. ASSUME NEW rest, NextSource(r, rest) PROVE sess'[r].state = "open"
     <2>1. sess'[r] = [NoSession EXCEPT !.plan = rest, !.amt = sess[r].amt, !.err = rest = <<>>]
        BY <1>1, <1>3, BecomeFrame DEF NextSource
     <2>. QED  BY <2>1 DEF NoSession
  <1>4. UNCHANGED sess => sess'[r].state = "open"
     BY <1>1
  <1>5. ASSUME NEW q \in Quotas[r], Begin(r, q) \/ PreConsumeLate(r, q)
        PROVE  sess'[r].state = "open"
     BY <1>2, <1>4, <1>5 DEF Begin, PreConsumeLate
  <1>6. CASE TryWallet(r)
     <2>1. CASE Become(r, [sess[r] EXCEPT !.src = "wallet", !.amt = 0])
        <3>1. sess'[r] = [sess[r] EXCEPT !.src = "wallet", !.amt = 0]
           BY <1>1, <2>1, BecomeFrame
        <3>. QED  BY <1>1, <3>1, OpenDecision DEF Sessions
     <2>. QED  BY <1>1, <1>3, <1>4, <1>6, <2>1, OpenDecision DEF TryWallet
  <1>7. CASE TrySubscription(r)
     BY <1>1, <1>7, BecomeFrame, OpenDecision DEF TrySubscription, Sessions
  <1>8. CASE PreConsumeToken(r)
     <2>1. CASE Become(r, [sess[r] EXCEPT !.tok = sess[r].amt])
        BY <1>1, <2>1, BecomeFrame, OpenDecision DEF Sessions
     <2>. QED  BY <1>1, <1>3, <1>8, <2>1, OpenDecision DEF PreConsumeToken
  <1>9. CASE PreConsumeFunding(r)
     <2>1. ASSUME NEW a, Become(r, [sess[r] EXCEPT !.src = a, !.pre = sess[r].amt,
                                                 !.held = sess[r].amt, !.amt = 0])
           PROVE  sess'[r].state = "open"
        <3>1. sess'[r] = [sess[r] EXCEPT !.src = a, !.pre = sess[r].amt, !.held = sess[r].amt, !.amt = 0]
           BY <1>1, <2>1, BecomeFrame
        <3>. QED  BY <1>1, <3>1 DEF Sessions
     <2>2. ASSUME NEW rest, Become(r, [sess[r] EXCEPT !.plan = rest])
           PROVE  sess'[r].state = "open"
        BY <1>1, <2>2, BecomeFrame DEF Sessions
     <2>. QED  BY <1>1, <1>9, <2>1, <2>2, OpenDecision DEF PreConsumeFunding
  <1>10. CASE UndoToken(r)
     BY <1>1, <1>3, <1>10, OpenDecision DEF UndoToken
  <1>. QED  BY <1>1, <1>5, <1>6, <1>7, <1>8, <1>9, <1>10, OpenDecision

\* Top-up and upstream: the session stays open.
LEMMA ServingDecision ==
    ASSUME IInv, NEW r \in Requests,
           \/ \E q \in Quotas[r] : ReserveFunding(r, q) \/ UpstreamSucceeds(r, q)
           \/ ReserveToken(r) \/ RollbackReserve(r) \/ UpstreamFails(r) \/ PrepareEarning(r)
    PROVE  Decision(r)
  <1>1. sess[r].state = "open" /\ sess[r] \in Sessions /\ TypeOK
     BY DEF IInv, TypeOK, Ctl, Serving, Reserving, ReserveFunding, UpstreamSucceeds,
        ReserveToken, RollbackReserve, UpstreamFails, PrepareEarning
  <1>2. UNCHANGED sess => sess'[r].state = "open"
     BY <1>1
  <1>3. ASSUME ReserveFailed(r, sess[r]) PROVE sess'[r].state = "open"
     <2>1. sess'[r] = [sess[r] EXCEPT !.err = TRUE, !.amt = 0]
        BY <1>1, <1>3, BecomeFrame DEF ReserveFailed
     <2>. QED  BY <1>1, <2>1 DEF Sessions
  <1>4. ASSUME NEW q \in Quotas[r], ReserveFunding(r, q) PROVE sess'[r].state = "open"
     <2>1. ASSUME NEW d, NEW h, Become(r, [sess[r] EXCEPT !.amt = d, !.held = h])
           PROVE  sess'[r].state = "open"
        <3>1. sess'[r] = [sess[r] EXCEPT !.amt = d, !.held = h]
           BY <1>1, <2>1, BecomeFrame
        <3>. QED  BY <1>1, <3>1 DEF Sessions
     <2>. QED  BY <1>3, <1>4, <2>1 DEF ReserveFunding
  <1>5. ASSUME NEW q \in Quotas[r], UpstreamSucceeds(r, q) PROVE sess'[r].state = "open"
     BY <1>1, <1>5, BecomeFrame DEF UpstreamSucceeds, Sessions
  <1>6. CASE ReserveToken(r)
     <2>1. ASSUME NEW a, NEW b, NEW c,
                  Become(r, [sess[r] EXCEPT !.pre = a, !.tok = b, !.extra = c, !.amt = 0])
           PROVE  sess'[r].state = "open"
        <3>1. sess'[r] = [sess[r] EXCEPT !.pre = a, !.tok = b, !.extra = c, !.amt = 0]
           BY <1>1, <2>1, BecomeFrame
        <3>. QED  BY <1>1, <3>1 DEF Sessions
     <2>. QED  BY <1>1, <1>2, <1>6, <2>1, OpenDecision DEF ReserveToken
  <1>7. CASE RollbackReserve(r)
     <2>1. ASSUME NEW h, ReserveFailed(r, [sess[r] EXCEPT !.held = h])
           PROVE  sess'[r].state = "open"
        <3>1. sess'[r] = [[sess[r] EXCEPT !.held = h] EXCEPT !.err = TRUE, !.amt = 0]
           BY <1>1, <2>1, BecomeFrame DEF ReserveFailed
        <3>. QED  BY <1>1, <3>1 DEF Sessions
     <2>. QED  BY <1>1, <1>3, <1>7, <2>1, OpenDecision DEF RollbackReserve
  <1>8. Become(r, [sess[r] EXCEPT !.err = TRUE]) => sess'[r].state = "open"
     BY <1>1, BecomeFrame DEF Sessions
  <1>9. CASE UpstreamFails(r)
     BY <1>1, <1>8, <1>9, OpenDecision DEF UpstreamFails
  <1>10. CASE PrepareEarning(r)
     BY <1>1, <1>2, <1>8, <1>10, OpenDecision DEF PrepareEarning
  <1>. QED  BY <1>1, <1>4, <1>5, <1>6, <1>7, <1>9, <1>10, OpenDecision

\* Settlement commits the decision, at the final quota or at the pre-charge.
LEMMA SettleDecision ==
    ASSUME IInv, NEW r \in Requests, SettleEven(r) \/ SettleFunding(r) \/ SettleOverflow(r)
    PROVE  Decision(r)
  <1>1. sess[r].state = "open" /\ sess[r] \in Sessions /\ TypeOK /\ UNCHANGED tables
     BY DEF IInv, TypeOK, Ctl, Serving, SettleEven, SettleFunding, SettleOverflow
  <1>2. earning'[r] = earning[r]
     BY <1>1 DEF tables
  <1>3. sess'[r].state \in {"funded", "retained", "settled"} => Decision(r)
     BY <1>1, <1>2 DEF Decision, Committed
  <1>4. UNCHANGED sess => Decision(r)
     BY <1>2, SameRows
  <1>5. FundingSettled(r) => sess'[r].state = "funded"
     <2>1. ASSUME NEW a, NEW c, Become(r, [sess[r] EXCEPT !.src = a, !.state = "funded", !.com = c])
           PROVE  sess'[r].state = "funded"
        <3>1. sess'[r] = [sess[r] EXCEPT !.src = a, !.state = "funded", !.com = c]
           BY <1>1, <2>1, BecomeFrame
        <3>. QED  BY <1>1, <3>1 DEF Sessions
     <2>. QED  BY <2>1 DEF FundingSettled
  <1>6. SettleFailed(r) => sess'[r].state \in {"open", "retained"}
     <2>1. ASSUME NEW c, Become(r, [sess[r] EXCEPT !.err = TRUE, !.state = "retained", !.com = c])
           PROVE  sess'[r].state = "retained"
        <3>1. sess'[r] = [sess[r] EXCEPT !.err = TRUE, !.state = "retained", !.com = c]
           BY <1>1, <2>1, BecomeFrame
        <3>. QED  BY <1>1, <3>1 DEF Sessions
     <2>2. ASSUME NEW a, Become(r, [sess[r] EXCEPT !.src = a, !.err = TRUE])
           PROVE  sess'[r].state = "open"
        <3>1. sess'[r] = [sess[r] EXCEPT !.src = a, !.err = TRUE]
           BY <1>1, <2>2, BecomeFrame
        <3>. QED  BY <1>1, <3>1 DEF Sessions
     <2>. QED  BY <2>1, <2>2 DEF SettleFailed, Retained
  <1>7. CASE SettleEven(r)
     <2>1. ASSUME NEW c, Become(r, [sess[r] EXCEPT !.state = "settled", !.com = c])
           PROVE  sess'[r].state = "settled"
        <3>1. sess'[r] = [sess[r] EXCEPT !.state = "settled", !.com = c]
           BY <1>1, <2>1, BecomeFrame
        <3>. QED  BY <1>1, <3>1 DEF Sessions
     <2>. QED  BY <1>3, <1>4, <1>7, <2>1 DEF SettleEven
  <1>8. FundingSettled(r) \/ SettleFailed(r) => Decision(r)
     BY <1>1, <1>3, <1>5, <1>6, OpenDecision
  <1>. QED  BY <1>4, <1>7, <1>8 DEF SettleFunding, SettleOverflow

\* After the commit the charge stands; only the earning moves.
LEMMA CommittedDecision ==
    ASSUME IInv, NEW r \in Requests,
           SettleToken(r) \/ PersistAdjustment(r) \/ MarkReady(r) \/ SettleEarning(r)
    PROVE  Decision(r)
  <1>1. Committed(r) /\ sess[r] \in Sessions /\ earning[r] \in Earnings /\ TypeOK
     BY DEF IInv, TypeOK, Ctl, Committed, SettleToken, PersistAdjustment, MarkReady, SettleEarning
  <1>2. ASSUME sess'[r].state \in {"settled", sess[r].state}, sess'[r].com = sess[r].com,
               earning'[r] = earning[r]
        PROVE  Decision(r)
     BY <1>1, <1>2 DEF Decision, SameDecision, Committed, Payable, Ready, Pending
  <1>3. /\ Become(r, [sess[r] EXCEPT !.state = "settled"]) =>
              sess'[r].state = "settled" /\ sess'[r].com = sess[r].com
        /\ Become(r, [sess[r] EXCEPT !.state = "settled", !.err = TRUE]) =>
              sess'[r].state = "settled" /\ sess'[r].com = sess[r].com
        /\ Become(r, [sess[r] EXCEPT !.err = TRUE]) =>
              sess'[r].state = sess[r].state /\ sess'[r].com = sess[r].com
     <2>1. ASSUME Become(r, [sess[r] EXCEPT !.state = "settled"])
           PROVE  sess'[r].state = "settled" /\ sess'[r].com = sess[r].com
        BY <1>1, <2>1, BecomeFrame DEF Sessions
     <2>2. ASSUME Become(r, [sess[r] EXCEPT !.state = "settled", !.err = TRUE])
           PROVE  sess'[r].state = "settled" /\ sess'[r].com = sess[r].com
        <3>1. sess'[r] = [sess[r] EXCEPT !.state = "settled", !.err = TRUE]
           BY <1>1, <2>2, BecomeFrame
        <3>. QED  BY <1>1, <3>1 DEF Sessions
     <2>3. ASSUME Become(r, [sess[r] EXCEPT !.err = TRUE])
           PROVE  sess'[r].state = sess[r].state /\ sess'[r].com = sess[r].com
        BY <1>1, <2>3, BecomeFrame DEF Sessions
     <2>. QED  BY <2>1, <2>2, <2>3
  <1>4. CASE SettleToken(r)
     <2>1. earning'[r] = earning[r]
        BY <1>4 DEF SettleToken, tables
     <2>. QED  BY <1>2, <1>3, <1>4, <2>1, SameRows DEF SettleToken
  <1>5. CASE PersistAdjustment(r)
     <2>1. earning'[r] = earning[r]
        BY <1>5 DEF PersistAdjustment
     <2>. QED  BY <1>2, <1>3, <1>5, <2>1 DEF PersistAdjustment
  <1>6. CASE MarkReady(r)
     <2>1. CASE UNCHANGED earning
        BY <1>2, <1>3, <1>6, <2>1, SameRows DEF MarkReady
     <2>2. CASE earning' = [earning EXCEPT ![r] = ReadyEarning(r)] /\ Pending(r) /\ UNCHANGED sess
        <3>1. /\ earning'[r].status = "pending" /\ ~earning'[r].deferred
              /\ earning'[r].gross = sess[r].com
           BY <1>1, <2>2 DEF TypeOK, ReadyEarning, Earnings, Pending
        <3>2. Payable(r)'
           BY <3>1 DEF Payable, Ready, Pending
        <3>3. Payable(r) => earning[r].gross = sess[r].com
           BY DEF IInv, Ctl
        <3>. QED  BY <1>1, <2>2, <3>1, <3>2, <3>3 DEF Decision, SameDecision, Committed
     <2>. QED  BY <1>6, <2>1, <2>2 DEF MarkReady
  <1>7. CASE SettleEarning(r)
     <2>1. CASE UNCHANGED earning
        BY <1>7, <2>1, SameRows DEF SettleEarning
     <2>2. CASE Ready(r) /\ earning' = SettledEarning(r)
        <3>1. earning'[r].status = "settled" /\ earning'[r].gross = earning[r].gross
           BY <1>1, <2>2 DEF TypeOK, SettledEarning, Earnings
        <3>. QED  BY <1>7, <2>2, <3>1 DEF SettleEarning, Decision, SameDecision, Committed, Payable
     <2>. QED  BY <1>7, <2>1, <2>2 DEF SettleEarning
  <1>. QED  BY <1>4, <1>5, <1>6, <1>7

\* The end of the request, its refund, recovery and crashes.
LEMMA ClosingDecision ==
    ASSUME IInv, NEW r \in Requests,
           \/ CancelEarning(r) \/ Refund(r) \/ Finish(r) \/ Recover(r) \/ Crash(r)
           \/ \E n \in Quotas[r] : ChargeViolationFee(r, n)
    PROVE  Decision(r)
  <1>1. sess[r] \in Sessions /\ earning[r] \in Earnings /\ TypeOK
     BY DEF IInv, TypeOK
  <1>2. CASE CancelEarning(r)
     BY <1>2, OpenDecision DEF CancelEarning, IInv, Ctl, Serving
  <1>3. CASE Refund(r)
     <2>1. CASE Refundable(sess[r]) /\ Become(r, [sess[r] EXCEPT !.state = "refunded"])
        BY <1>1, <2>1, BecomeFrame DEF Refundable, Sessions, Decision
     <2>. QED  BY <1>3, <2>1, SameRows DEF Refund
  <1>4. CASE Finish(r) \/ Crash(r) \/ ProcessTokenAdjustment(r)
             \/ \E n \in Quotas[r] : ChargeViolationFee(r, n)
     BY <1>4, SameRows DEF Finish, Crash, ProcessTokenAdjustment, ChargeViolationFee, tables
  <1>5. CASE ProcessBillingRefund(r)
     <2>1. ~Committed(r) /\ sess'[r] = sess[r]
        BY <1>5 DEF ProcessBillingRefund, RefundDue, IInv, Ctl, Committed
     <2>. QED  BY <2>1 DEF Decision, SameDecision
  <1>6. CASE RecoverReadyEarning(r)
     <2>1. earning'[r].status = "settled" /\ earning'[r].gross = earning[r].gross
        BY <1>1, <1>6 DEF RecoverReadyEarning, TypeOK, SettledEarning, Earnings
     <2>. QED  BY <1>6, <2>1 DEF RecoverReadyEarning, Decision, SameDecision, Committed, Payable
  <1>. QED  BY <1>2, <1>3, <1>4, <1>5, <1>6 DEF Recover

\* Every step is a step of one request, or moves no request.
LEMMA NextDecision ==
    ASSUME IInv, [Next]_vars
    PROVE  \/ \E r \in Requests : Frame(r) /\ Decision(r) /\ (Step(r) \/ Recover(r) \/ Crash(r))
           \/ UNCHANGED <<sess, earning, refund, adj, taken, fee>>
  <1>1. ASSUME NEW r \in Requests, Step(r) PROVE Decision(r)
     BY <1>1, EarlyDecision, ServingDecision, SettleDecision, CommittedDecision,
        ClosingDecision DEF Step
  <1>2. ASSUME NEW r \in Requests, Recover(r) \/ Crash(r) PROVE Decision(r)
     BY <1>2, ClosingDecision
  <1>3. CASE ResetSubscription \/ UNCHANGED vars
     BY <1>3 DEF ResetSubscription, vars
  <1>. QED  BY <1>1, <1>2, <1>3, StepFrame, RecoverFrame DEF Next

----------------------------------------------------------------------------
\* Refinement

\* The provider's share as RequestOutcome sees it.
Income(r) == IF Payable(r) THEN earning[r].gross ELSE 0

\* The invariant makes the abstract view a function of the session's state.
View(r) ==
    /\ Outcome(r) = "open" <=> sess[r].state = "open"
    /\ Outcome(r) = "returned" <=> sess[r].state = "refunded"
    /\ Outcome(r) = "charged" <=> Committed(r)
    /\ sess[r].state \in States
    /\ Payable(r) => Committed(r) /\ earning[r].gross = sess[r].com /\ sess[r].com > 0
    /\ sess[r].com \in Nat

\* It follows from the invariant, before a step and after it.
LEMMA InvView ==
    ASSUME NEW r \in Requests
    PROVE  (IInv => View(r)) /\ (IInv' => View(r)')
  <1>1. IInv => View(r)
     BY DEF IInv, Ctl, View, Outcome, Committed, States, TypeOK, Sessions
  <1>2. IInv' => View(r)'
     BY DEF IInv, Ctl, View, Outcome, Committed, States, TypeOK, Sessions
  <1>. QED  BY <1>1, <1>2

\* What a decision about r means for the abstract variables at r.
LEMMA AbstractAtRequest ==
    ASSUME IInv, IInv', NEW r \in Requests, Decision(r)
    PROVE  \/ /\ Outcome(r)' = Outcome(r) /\ Cost(r)' = Cost(r) /\ Income(r)' = Income(r)
           \/ /\ Outcome(r) = "open" /\ Outcome(r)' = "charged" /\ Cost(r)' \in Nat
              /\ Income(r)' = Income(r)
           \/ /\ Outcome(r) = "open" /\ Outcome(r)' = "returned"
              /\ Cost(r)' = Cost(r) /\ Income(r)' = Income(r)
           \/ /\ Outcome(r) = "charged" /\ Income(r) = 0 /\ Cost(r) > 0
              /\ Income(r)' = Cost(r) /\ Outcome(r)' = Outcome(r) /\ Cost(r)' = Cost(r)
  <1>1. View(r) /\ View(r)'
     BY InvView
  <1>2. CASE SameDecision(r)
     BY <1>1, <1>2 DEF SameDecision, View, Committed, Cost, Income, States
  <1>3. CASE sess[r].state = "open" /\ Committed(r)' /\ earning'[r] = earning[r]
     <2>1. ~Payable(r) /\ ~Payable(r)'
        BY <1>1, <1>3 DEF View, Committed, Payable, Ready, Pending
     <2>. QED  BY <1>1, <1>3, <2>1 DEF View, Committed, Cost, Income, States
  <1>4. CASE sess[r].state = "open" /\ sess'[r].state = "refunded"
     BY <1>1, <1>4 DEF View, Committed, Cost, Income
  <1>5. CASE Committed(r) /\ sess'[r] = sess[r] /\ Payable(r)' /\ ~Payable(r)
     BY <1>1, <1>5 DEF View, Committed, Cost, Income
  <1>. QED  BY <1>2, <1>3, <1>4, <1>5 DEF Decision

\* The other requests do not move.
LEMMA AbstractElsewhere ==
    ASSUME NEW r \in Requests, Frame(r)
    PROVE  \A q \in Requests \ {r} :
              Outcome(q)' = Outcome(q) /\ Cost(q)' = Cost(q) /\ Income(q)' = Income(q)
  BY DEF Frame, Outcome, Cost, Income, Committed, Payable, Ready, Pending

\* A step of the code is a step of RequestOutcome or a stutter.
LEMMA AbstractStep ==
    ASSUME IInv, IInv', [Next]_vars
    PROVE  [Abstract!Next]_(Abstract!ovars)
  <1>1. CASE UNCHANGED <<sess, earning, refund, adj, taken, fee>>
     BY <1>1 DEF Abstract!ovars, Outcome, Cost, Committed, Payable, Ready, Pending
  <1>2. ASSUME NEW r \in Requests, Frame(r), Decision(r)
        PROVE  [Abstract!Next]_(Abstract!ovars)
     <2>1. \A q \in Requests \ {r} :
              Outcome(q)' = Outcome(q) /\ Cost(q)' = Cost(q) /\ Income(q)' = Income(q)
        BY <1>2, AbstractElsewhere
     <2>2. CASE Outcome(r)' = Outcome(r) /\ Cost(r)' = Cost(r) /\ Income(r)' = Income(r)
        BY <2>1, <2>2 DEF Abstract!ovars, Income
     <2>3. CASE /\ Outcome(r) = "open" /\ Outcome(r)' = "charged" /\ Cost(r)' \in Nat
                /\ Income(r)' = Income(r)
        <3>. Abstract!Commit(r)
           BY <2>1, <2>3 DEF Abstract!Commit, Income
        <3>. QED  BY DEF Abstract!Next
     <2>4. CASE /\ Outcome(r) = "open" /\ Outcome(r)' = "returned"
                /\ Cost(r)' = Cost(r) /\ Income(r)' = Income(r)
        <3>. Abstract!Return(r)
           BY <2>1, <2>4 DEF Abstract!Return, Income
        <3>. QED  BY DEF Abstract!Next
     <2>5. CASE /\ Outcome(r) = "charged" /\ Income(r) = 0 /\ Cost(r) > 0
                /\ Income(r)' = Cost(r) /\ Outcome(r)' = Outcome(r) /\ Cost(r)' = Cost(r)
        <3>. Abstract!Release(r)
           BY <2>1, <2>5 DEF Abstract!Release, Income
        <3>. QED  BY DEF Abstract!Next
     <2>. QED  BY <1>2, <2>2, <2>3, <2>4, <2>5, AbstractAtRequest
  <1>. QED  BY <1>1, <1>2, NextDecision

\* ImplementsOutcome for every instance: the settlement, refund and recovery
\* code charges a request once or returns it, and the provider is owed
\* exactly what was charged.
THEOREM OutcomeRefined == Spec => ImplementsOutcome
  <1>1. Init => Abstract!Init
     BY DEF Init, Abstract!Init, Outcome, Cost, Committed, Payable, Ready, Pending,
        NoSession, NoRefund, NoEarning
  <1>2. IInv /\ IInv' /\ [Next]_vars => [Abstract!Next]_(Abstract!ovars)
     BY AbstractStep
  <1>. QED  BY <1>1, <1>2, InductiveInvariant, PTL DEF Spec, ImplementsOutcome, Abstract!Spec

----------------------------------------------------------------------------
\* Closed books

\* Only a committed settlement leaves a token adjustment behind.
AdjCommitted == \A r \in Requests : adj[r].status # "none" => Committed(r)

\* The adjustment row is written by one statement and closed by one worker.
LEMMA AdjStep ==
    ASSUME IInv, AdjCommitted, NEW r \in Requests, Step(r) \/ Recover(r) \/ Crash(r)
    PROVE  adj'[r].status # "none" => Committed(r)
  <1>1. CASE PersistAdjustment(r)
     BY <1>1 DEF PersistAdjustment, IInv, Ctl, Committed
  <1>2. CASE ProcessTokenAdjustment(r)
     BY <1>2 DEF ProcessTokenAdjustment, AdjCommitted
  <1>3. CASE adj' = adj
     BY <1>3 DEF AdjCommitted
  <1>. QED  BY <1>1, <1>2, <1>3
            DEF Step, Recover, Crash, Begin, ReserveFunding, PreConsumeLate,
                UpstreamSucceeds, TryWallet, TrySubscription, PreConsumeToken,
                PreConsumeFunding, UndoToken, ReserveToken, RollbackReserve, UpstreamFails,
                PrepareEarning, SettleEven, SettleFunding, SettleOverflow, SettleToken,
                MarkReady, SettleEarning, CancelEarning, Refund, ChargeViolationFee, Finish,
                ProcessBillingRefund, RecoverReadyEarning, tables

\* Every step keeps it.
LEMMA NextAdj == IInv /\ AdjCommitted /\ [Next]_vars => AdjCommitted'
  <1>. SUFFICES ASSUME IInv, AdjCommitted, [Next]_vars PROVE AdjCommitted'
     OBVIOUS
  <1>1. ASSUME NEW r \in Requests, Frame(r), Decision(r), Step(r) \/ Recover(r) \/ Crash(r)
        PROVE  AdjCommitted'
     <2>1. Committed(r) => Committed(r)'
        BY <1>1 DEF Decision, SameDecision, Committed
     <2>2. adj'[r].status # "none" => Committed(r)'
        BY <1>1, <2>1, AdjStep
     <2>. QED  BY <1>1, <2>2 DEF Frame, AdjCommitted, Committed
  <1>2. CASE UNCHANGED <<sess, earning, refund, adj, taken, fee>>
     BY <1>2 DEF AdjCommitted, Committed
  <1>. QED  BY <1>1, <1>2, NextDecision

\* A step of r leaves the place of the other requests alone.
LEMMA NextApart ==
    ASSUME IInv, NEW r \in Requests, Step(r) \/ Recover(r) \/ Crash(r)
    PROVE  \A q \in Requests \ {r} : pc'[q] = pc[q] /\ slip'[q] = slip[q]
  <1>. DEFINE P == \A q \in Requests \ {r} : pc'[q] = pc[q]
              L == \A q \in Requests \ {r} : slip'[q] = slip[q]
  <1>1. ASSUME NEW l, Goto(r, l) PROVE P
     BY <1>1 DEF Goto, IInv, TypeOK
  <1>2. UNCHANGED slip \/ Lost(r) => L
     BY DEF Lost, IInv, TypeOK
  <1>3. UNCHANGED pc => P
     OBVIOUS
  <1>. SUFFICES P /\ L
     OBVIOUS
  <1>. HIDE DEF P, L
  <1>4. CASE Step(r)
     BY <1>1, <1>2, <1>4
     DEF Step, Begin, ReserveFunding, PreConsumeLate, UpstreamSucceeds, TryWallet,
         TrySubscription, PreConsumeToken, PreConsumeFunding, UndoToken, ReserveToken,
         RollbackReserve, UpstreamFails, PrepareEarning, SettleEven, SettleFunding,
         SettleOverflow, SettleToken, PersistAdjustment, MarkReady, SettleEarning,
         CancelEarning, Refund, ChargeViolationFee, Finish, OpenSession, NextSource, ReserveFailed,
         FundingSettled, SettleFailed
  <1>5. CASE Recover(r) \/ Crash(r)
     BY <1>1, <1>2, <1>3, <1>5
     DEF Recover, Crash, ProcessBillingRefund, RecoverReadyEarning, ProcessTokenAdjustment
  <1>. QED  BY <1>4, <1>5

\* No step of r moves the money of a completed refund; the fee comes on top.
LEMMA RefundClosed ==
    ASSUME IInv, AdjCommitted, NEW r \in Requests, Step(r) \/ Recover(r) \/ Crash(r),
           refund[r].status = "complete"
    PROVE  /\ refund'[r] = refund[r] /\ earning'[r] = earning[r]
           /\ Paid(r)' = Paid(r) /\ PaidByToken(r)' = PaidByToken(r)
  <1>1. /\ pc[r] \in {"fee", "done", "dead"} /\ ~Committed(r) /\ ~Ready(r) /\ adj[r].status = "none"
        /\ TypeOK
     BY DEF IInv, Ctl, Committed, Payable, AdjCommitted
  <1>2. CASE \E n \in Quotas[r] : ChargeViolationFee(r, n)
     BY <1>1, <1>2, FeeFacts, SettleSourceFacts, QuotasAssumption DEF ChargeViolationFee, tables
  <1>3. CASE Crash(r)
     BY <1>3 DEF Crash, tables, money, Paid, PaidByToken
  <1>4. Step(r) => \E n \in Quotas[r] : ChargeViolationFee(r, n)
     BY <1>1 DEF Step, Begin, ReserveFunding, PreConsumeLate, UpstreamSucceeds, TryWallet,
        TrySubscription, PreConsumeToken, PreConsumeFunding, UndoToken, ReserveToken,
        RollbackReserve, UpstreamFails, PrepareEarning, SettleEven, SettleFunding,
        SettleOverflow, SettleToken, PersistAdjustment, MarkReady, SettleEarning,
        CancelEarning, Refund, Finish
  <1>5. ~Recover(r)
     BY <1>1 DEF Recover, ProcessBillingRefund, RefundDue, RecoverReadyEarning,
        ProcessTokenAdjustment
  <1>. QED  BY <1>2, <1>3, <1>4, <1>5

\* The goroutine ends with the fee, if there is one.
FeeLast == \A r \in Requests : fee[r] > 0 => pc[r] = "done"

\* Only the fee transaction moves the fee, and a goroutine that is done stays so.
LEMMA FeeStep ==
    ASSUME IInv, NEW r \in Requests, Step(r) \/ Recover(r) \/ Crash(r)
    PROVE  /\ fee'[r] = fee[r] \/ (pc[r] = "fee" /\ pc'[r] = "done")
           /\ pc[r] = "done" => pc'[r] = "done"
  <1>. DEFINE F == fee' = fee
  <1>0. TypeOK
     BY DEF IInv
  <1>1. \A a, n : Charge(r, a, n) \/ Credit(r, a, n) \/ Apply(r, a, n) \/ TokenStep(r, n) => F
     BY DEF Charge, Credit, Apply, TokenStep, money
  <1>2. UNCHANGED money => F
     BY DEF money
  <1>. HIDE DEF F
  <1>3. CASE \E n \in Quotas[r] : ChargeViolationFee(r, n)
     BY <1>0, <1>3 DEF ChargeViolationFee, Goto, TypeOK
  <1>4. CASE Step(r) /\ ~\E n \in Quotas[r] : ChargeViolationFee(r, n)
    <2>1. F
       BY <1>1, <1>2, <1>4
       DEF Step, Begin, ReserveFunding, PreConsumeLate, UpstreamSucceeds, TryWallet,
           TrySubscription, PreConsumeToken, PreConsumeFunding, UndoToken, ReserveToken,
           RollbackReserve, UpstreamFails, PrepareEarning, SettleEven, SettleFunding,
           SettleOverflow, SettleToken, PersistAdjustment, MarkReady, SettleEarning,
           CancelEarning, Refund, Finish, SettleFailed
    <2>2. pc[r] # "done"
       BY <1>4
       DEF Step, Begin, ReserveFunding, PreConsumeLate, UpstreamSucceeds, TryWallet,
           TrySubscription, PreConsumeToken, PreConsumeFunding, UndoToken, ReserveToken,
           RollbackReserve, UpstreamFails, PrepareEarning, SettleEven, SettleFunding,
           SettleOverflow, SettleToken, PersistAdjustment, MarkReady, SettleEarning,
           CancelEarning, Refund, Finish
    <2>. QED  BY <2>1, <2>2 DEF F
  <1>5. CASE Recover(r) \/ Crash(r)
    <2>1. F
       BY <1>1, <1>2, <1>5 DEF Recover, Crash, ProcessBillingRefund, RecoverReadyEarning,
          ProcessTokenAdjustment, F
    <2>2. pc[r] = "done" => pc'[r] = "done"
       BY <1>5 DEF Recover, Crash, ProcessBillingRefund, RecoverReadyEarning,
          ProcessTokenAdjustment
    <2>. QED  BY <2>1, <2>2 DEF F
  <1>. QED  BY <1>3, <1>4, <1>5

\* No step of r touches a settled earning or what was paid for it.
LEMMA EarningClosed ==
    ASSUME IInv, NEW r \in Requests, Step(r) \/ Recover(r) \/ Crash(r),
           earning[r].status = "settled"
    PROVE  earning'[r] = earning[r] /\ Paid(r)' = Paid(r)
  <1>1. /\ pc[r] \notin Early \cup Reserving \cup Serving /\ ~Pending(r) /\ TypeOK
        /\ Delta(r) \in Int /\ adj[r].delta \in Int
     <2>1. pc[r] \notin Early \cup Reserving \cup Serving /\ ~Pending(r) /\ TypeOK
        BY DEF IInv, Ctl, Committed, Payable, Pending
     <2>2. sess[r] \in Sessions /\ adj[r] \in Adjs
        BY <2>1 DEF TypeOK
     <2>3. sess[r].act \in Nat /\ sess[r].pre \in Nat /\ adj[r].delta \in Int
        BY <2>2 DEF Sessions, Adjs
     <2>. QED  BY <2>1, <2>3 DEF Delta
  <1>2. UNCHANGED <<tables, money>> => earning'[r] = earning[r] /\ Paid(r)' = Paid(r)
     BY DEF tables, money, Paid
  <1>3. CASE SettleToken(r)
     BY <1>1, <1>3, TokenFacts, SameMoney DEF SettleToken, tables
  <1>4. CASE PersistAdjustment(r) \/ MarkReady(r) \/ SettleEarning(r) \/ Refund(r)
     BY <1>1, <1>4, SameMoney DEF PersistAdjustment, MarkReady, SettleEarning, Refund, Ready
  <1>5. CASE Finish(r) \/ Crash(r) \/ \E n \in Quotas[r] : ChargeViolationFee(r, n)
     BY <1>1, <1>2, <1>5, FeeFacts, SettleSourceFacts, QuotasAssumption
     DEF Finish, Crash, ChargeViolationFee, tables
  <1>6. CASE Recover(r)
     <2>1. ProcessTokenAdjustment(r)
        BY <1>1, <1>6 DEF Recover, ProcessBillingRefund, RefundDue, RecoverReadyEarning, Ready
     <2>. QED  BY <1>1, <2>1, TokenFacts DEF ProcessTokenAdjustment
  <1>7. ASSUME Step(r)
        PROVE  SettleToken(r) \/ PersistAdjustment(r) \/ MarkReady(r) \/ SettleEarning(r)
               \/ Refund(r) \/ Finish(r) \/ \E n \in Quotas[r] : ChargeViolationFee(r, n)
     BY <1>1, <1>7 DEF Early, Reserving, Serving, Step, Begin, ReserveFunding,
        PreConsumeLate, UpstreamSucceeds, TryWallet, TrySubscription, PreConsumeToken,
        PreConsumeFunding, UndoToken, ReserveToken, RollbackReserve, UpstreamFails,
        PrepareEarning, SettleEven, SettleFunding, SettleOverflow, CancelEarning
  <1>. QED  BY <1>3, <1>4, <1>5, <1>6, <1>7

\* BooksClosed for every instance: a completed refund and a settled earning
\* are final, whatever a late goroutine or a recovery worker still does.
THEOREM BooksStayClosed == Spec => BooksClosed
  <1>. DEFINE Kept(q) ==
          /\ refund[q].status = "complete" =>
                /\ refund'[q] = refund[q] /\ ~Payable(q)'
                /\ Paid(q)' = Paid(q) /\ PaidByToken(q)' = PaidByToken(q)
          /\ earning[q].status = "settled" =>
                earning'[q] = earning[q] /\ Paid(q)' = Paid(q)
          /\ fee[q] > 0 => fee'[q] = fee[q]
  <1>1. Init => AdjCommitted /\ FeeLast
     BY DEF Init, AdjCommitted, NoAdj, FeeLast
  <1>2. IInv /\ AdjCommitted /\ FeeLast /\ [Next]_vars => \A q \in Requests : Kept(q)
     <2>. SUFFICES ASSUME IInv, AdjCommitted, FeeLast, [Next]_vars, NEW q \in Requests
                   PROVE  Kept(q)
        OBVIOUS
     <2>1. refund[q].status = "complete" => ~Payable(q)
        BY DEF IInv, Ctl, Committed
     <2>2. CASE UNCHANGED <<sess, earning, refund, adj, taken, fee>>
        BY <2>1, <2>2 DEF Payable, Ready, Pending, Paid, PaidByToken
     <2>3. ASSUME NEW r \in Requests, Frame(r), Step(r) \/ Recover(r) \/ Crash(r)
           PROVE  Kept(q)
        <3>1. CASE q = r
          <4>1. fee[r] > 0 => fee'[r] = fee[r]
             BY <2>3, FeeStep DEF FeeLast
          <4>2. refund[r].status = "complete" =>
                   /\ refund'[r] = refund[r] /\ ~Payable(r)'
                   /\ Paid(r)' = Paid(r) /\ PaidByToken(r)' = PaidByToken(r)
             BY <2>1, <2>3, <3>1, RefundClosed DEF Payable, Ready, Pending
          <4>. QED  BY <2>3, <3>1, <4>1, <4>2, EarningClosed
        <3>2. CASE q # r
           BY <2>1, <2>3, <3>2 DEF Frame, Payable, Ready, Pending, Paid, PaidByToken
        <3>. QED  BY <3>1, <3>2
     <2>. QED  BY <2>2, <2>3, NextDecision
  <1>3. IInv /\ AdjCommitted /\ FeeLast /\ [Next]_vars =>
           [\A r \in Requests :
              /\ refund[r].status = "complete" =>
                    /\ refund'[r] = refund[r] /\ ~Payable(r)'
                    /\ Paid(r)' = Paid(r) /\ PaidByToken(r)' = PaidByToken(r)
              /\ earning[r].status = "settled" =>
                    earning'[r] = earning[r] /\ Paid(r)' = Paid(r)
              /\ fee[r] > 0 => fee'[r] = fee[r]]_vars
     BY <1>2
  <1>4. IInv /\ FeeLast /\ [Next]_vars => FeeLast'
     <2>. SUFFICES ASSUME IInv, FeeLast, [Next]_vars, NEW q \in Requests, fee'[q] > 0
                   PROVE  pc'[q] = "done"
        BY DEF FeeLast
     <2>1. ASSUME NEW r \in Requests, Frame(r), Step(r) \/ Recover(r) \/ Crash(r)
           PROVE  pc'[q] = "done"
        <3>1. CASE q = r
           BY <2>1, <3>1, FeeStep DEF FeeLast
        <3>2. CASE q # r
           BY <2>1, <3>2, NextApart DEF Frame, FeeLast
        <3>. QED  BY <3>1, <3>2
     <2>2. CASE ResetSubscription \/ UNCHANGED vars
        BY <2>2 DEF ResetSubscription, vars, FeeLast
     <2>. QED  BY <2>1, <2>2, StepFrame, RecoverFrame DEF Next
  <1>. QED  BY <1>1, <1>3, <1>4, NextAdj, InductiveInvariant, PTL DEF Spec, BooksClosed

----------------------------------------------------------------------------
\* Every account agrees

\* What a refund of the session gives back, and what was paid but is not yet
\* part of the pre-charge.
Returned(s) == s.held + (IF s.src = "subscription" THEN s.extra ELSE 0)
TopUp(p, s) == IF p \in Reserving /\ s.src = "wallet" THEN s.amt ELSE 0

\* The rows a request at p with session s may have: token and funding were
\* charged the same, an adjustment waits only after the settlement, and a
\* handler that ends undecided returns an error or never had a source.
Shape(r, p, s, f, j) ==
    /\ p \notin {"fund", "undo", "dead"} => s.tok = s.pre
    /\ p = "fund" => s.tok = s.amt
    /\ s.src = "none" => s.held = 0 /\ s.extra = 0
    /\ s.state = "funded" => p \in {"settleToken", "adjust", "dead"}
    /\ s.state # "settled" => j.status = "none"
    /\ j.status # "none" \/ p = "adjust" => r \notin Playground
    /\ p = "cancel" => s.err
    /\ p = "closing" /\ s.state = "open" => s.err \/ s.src = "none"
    /\ f.status # "none" => f.src \in Sources

\* What the token has been charged.
TokenAgrees(r, s, f, j, tok) ==
    /\ s.state \in {"open", "funded"} => tok = Share(r, s.tok)
    /\ s.state = "retained" => tok = Share(r, s.com)
    /\ s.state = "settled" =>
          tok + (IF j.status = "pending" THEN j.delta ELSE 0) = Share(r, s.com)
    /\ f.status = "pending" => tok = f.token
    /\ f.status = "complete" => tok = 0

\* What the funding source has been charged and a refund would return.
FundingAgrees(p, s, f, paid) ==
    /\ s.state = "open" /\ p \notin Early \cup {"dead"} => Returned(s) = s.pre + TopUp(p, s)
    /\ s.state = "open" /\ p \in {"closing", "fee", "done"} => paid = s.pre
    /\ s.state = "open" /\ p \in {"fee", "done"} => s.pre = 0
    /\ f.status = "pending" => paid = f.fund + f.extra
    /\ f.status = "complete" => paid = 0

\* Both, unless a compensation of the request was lost.
BooksAt(r, p, s, f, j, paid, tok, lost) ==
    /\ Shape(r, p, s, f, j)
    /\ ~lost => TokenAgrees(r, s, f, j, tok) /\ FundingAgrees(p, s, f, paid)
Books(r) ==
    BooksAt(r, pc[r], sess[r], refund[r], adj[r], Paid(r), PaidByToken(r), slip[r])
AllBooks == \A r \in Requests : Books(r)

\* What the token has been charged moves with its own steps only.
LEMMA TokenMoves ==
    ASSUME TypeOK, NEW r \in Requests, NEW n \in Int
    PROVE  /\ TokenStep(r, n) => PaidByToken(r)' = PaidByToken(r) + Share(r, n)
           /\ Apply(r, "token", n) => PaidByToken(r)' = PaidByToken(r) + n
           /\ \A a \in Sources :
                 Charge(r, a, n) \/ Credit(r, a, n) \/ Apply(r, a, n) => PaidByToken(r)' = PaidByToken(r)
           /\ UNCHANGED money => PaidByToken(r)' = PaidByToken(r)
           /\ PaidByToken(r) \in Int
  <1>1. "token" \in Accounts /\ -n \in Int /\ PaidByToken(r) \in Int
        /\ \A a \in Sources : a \in Accounts /\ "token" \in Accounts \ {a}
     BY DEF Accounts, Sources, PaidByToken, Share, TypeOK
  <1>2. UNCHANGED money => PaidByToken(r)' = PaidByToken(r)
     BY DEF money, PaidByToken, Share
  <1>3. Apply(r, "token", n) => PaidByToken(r)' = PaidByToken(r) + n
    <2>0. taken[r]["token"] \in Int /\ fee[r] \in Nat
       BY <1>1 DEF TypeOK
    <2>1. ASSUME Charge(r, "token", n)
          PROVE  fee' = fee /\ taken'[r]["token"] = taken[r]["token"] + n
       BY <1>1, <2>1, ChargeFacts
    <2>2. ASSUME Credit(r, "token", -n)
          PROVE  fee' = fee /\ taken'[r]["token"] = taken[r]["token"] - (-n)
       BY <1>1, <2>2, CreditFacts
    <2>. QED  BY <2>0, <2>1, <2>2 DEF Apply, PaidByToken, Share
  <1>4. TokenStep(r, n) => PaidByToken(r)' = PaidByToken(r) + Share(r, n)
     BY <1>1, <1>2, <1>3 DEF TokenStep, Share
  <1>5. ASSUME NEW a \in Sources, Charge(r, a, n) \/ Credit(r, a, n) \/ Apply(r, a, n)
        PROVE  PaidByToken(r)' = PaidByToken(r)
    <2>1. ASSUME NEW m \in Int, Charge(r, a, m) \/ Credit(r, a, m) PROVE PaidByToken(r)' = PaidByToken(r)
       BY <1>1, <2>1, ChargeFacts, CreditFacts DEF PaidByToken, Share
    <2>. QED  BY <1>1, <1>5, <2>1 DEF Apply
  <1>. QED  BY <1>1, <1>2, <1>3, <1>4, <1>5

\* A step that leaves the refund and the adjustment alone leaves the books of
\* r as its new session, place and payments say.
LEMMA After ==
    ASSUME IInv, NEW r \in Requests, NEW s, NEW l, NEW paid, NEW tok,
           Become(r, s), Goto(r, l), Paid(r)' = paid, PaidByToken(r)' = tok,
           UNCHANGED <<refund, adj, slip>>,
           BooksAt(r, l, s, refund[r], adj[r], paid, tok, slip[r])
    PROVE  Books(r)'
  <1>1. sess'[r] = s /\ pc'[r] = l
     BY Moved
  <1>. QED  BY <1>1 DEF Books

\* And one that moves no money.
LEMMA AfterQuiet ==
    ASSUME IInv, NEW r \in Requests, NEW s, NEW l, Become(r, s), Goto(r, l),
           UNCHANGED <<money, refund, adj, slip>>,
           BooksAt(r, l, s, refund[r], adj[r], Paid(r), PaidByToken(r), slip[r])
    PROVE  Books(r)'
  <1>1. Paid(r)' = Paid(r) /\ PaidByToken(r)' = PaidByToken(r)
     BY DEF money, Paid, PaidByToken, Share
  <1>. QED  BY <1>1, After

\* A lost compensation leaves the shape of the rows.
LEMMA AfterLost ==
    ASSUME IInv, NEW r \in Requests, NEW s, NEW l, Become(r, s), Goto(r, l), Lost(r),
           UNCHANGED <<refund, adj>>, Shape(r, l, s, refund[r], adj[r])
    PROVE  Books(r)'
  <1>1. sess'[r] = s /\ pc'[r] = l
     BY Moved
  <1>2. slip'[r] = TRUE
     BY DEF Lost, IInv, TypeOK
  <1>. QED  BY <1>1, <1>2 DEF Books, BooksAt

\* What a step knows of r before it.
LEMMA Before ==
    ASSUME IInv, AllBooks, NEW r \in Requests
    PROVE  /\ TypeOK /\ Ctl(r) /\ Funds(r) /\ Books(r) /\ Paid(r) \in Int /\ PaidByToken(r) \in Int
           /\ sess[r] \in Sessions
           /\ sess[r].amt \in Nat /\ sess[r].pre \in Nat /\ sess[r].tok \in Nat
           /\ sess[r].extra \in Nat /\ sess[r].held \in Nat /\ sess[r].act \in Nat
           /\ sess[r].com \in Nat
  <1>1. Paid(r) \in Int
     BY PaidInt
  <1>2. PaidByToken(r) \in Int
     BY DEF PaidByToken, Share, IInv, TypeOK, Accounts
  <1>. QED  BY <1>1, <1>2, SessionOf DEF IInv, AllBooks

----------------------------------------------------------------------------
\* Pre-charge

\* A session without a source has charged nothing but, perhaps, the token.
LEMMA Sourceless ==
    ASSUME IInv, AllBooks, NEW r \in Requests, sess[r].state = "open", sess[r].src = "none"
    PROVE  /\ sess[r].pre = 0 /\ Paid(r) = 0 /\ refund[r].status = "none" /\ adj[r].status = "none"
           /\ sess[r].held = 0 /\ sess[r].extra = 0
           /\ ~slip[r] => PaidByToken(r) = Share(r, sess[r].tok)
           /\ pc[r] \notin {"fund", "undo", "dead"} => sess[r].tok = 0
  <1>1. Ctl(r) /\ Funds(r) /\ Books(r)
     BY Before
  <1>. QED  BY <1>1 DEF Ctl, Funds, Books, BooksAt, Shape, TokenAgrees

\* A new session starts with clean books.
LEMMA NewSession ==
    ASSUME NEW r \in Requests, NEW s, NEW l, NEW tok,
           s.tok = 0, s.pre = 0, s.held = 0, s.extra = 0, s.src = "none", s.state = "open",
           refund[r].status = "none", adj[r].status = "none", ~slip[r] => tok = 0,
           l \in {"open", "done"}
    PROVE  BooksAt(r, l, s, refund[r], adj[r], 0, tok, slip[r])
  BY DEF BooksAt, Shape, TokenAgrees, FundingAgrees, Share, Returned, TopUp, Early, Reserving

\* A session that is opened, early or late.
LEMMA OpenBooks ==
    ASSUME IInv, AllBooks, NEW r \in Requests, NEW want \in Nat, OpenSession(r, want),
           sess[r].state = "open", sess[r].src = "none", pc[r] \in {"idle", "serving"},
           UNCHANGED <<money, tables, slip>>
    PROVE  Books(r)'
  <1>. PICK plan \in Plans :
          /\ Become(r, [NoSession EXCEPT !.plan = plan, !.amt = want, !.err = sess[r].err])
          /\ Goto(r, "open")
     BY DEF OpenSession
  <1>. DEFINE s == [NoSession EXCEPT !.plan = plan, !.amt = want, !.err = sess[r].err]
  <1>1. s.tok = 0 /\ s.pre = 0 /\ s.held = 0 /\ s.extra = 0 /\ s.src = "none" /\ s.state = "open"
     BY DEF NoSession
  <1>2. /\ Paid(r) = 0 /\ refund[r].status = "none" /\ adj[r].status = "none"
        /\ ~slip[r] => PaidByToken(r) = 0
     BY Sourceless DEF Share
  <1>. HIDE DEF s
  <1>3. BooksAt(r, "open", s, refund[r], adj[r], Paid(r), PaidByToken(r), slip[r])
     BY <1>1, <1>2, NewSession
  <1>4. Become(r, s)
     BY DEF s
  <1>. QED  BY <1>3, <1>4, AfterQuiet DEF tables

\* A session that is dropped for the next source, its token charge returned.
LEMMA NextSourceBooks ==
    ASSUME IInv, AllBooks, NEW r \in Requests, NEW rest, NextSource(r, rest), pc[r] \in Early,
           UNCHANGED tables,
           \/ UNCHANGED slip /\ Paid(r)' = Paid(r) /\ (~slip[r] => PaidByToken(r)' = 0)
           \/ Lost(r)
    PROVE  Books(r)'
  <1>. DEFINE s == [NoSession EXCEPT !.plan = rest, !.amt = sess[r].amt, !.err = rest = <<>>]
              l == IF rest = <<>> THEN "done" ELSE "open"
  <1>1. s.tok = 0 /\ s.pre = 0 /\ s.held = 0 /\ s.extra = 0 /\ s.src = "none" /\ s.state = "open"
     BY DEF NoSession
  <1>2. Paid(r) = 0 /\ refund[r].status = "none" /\ adj[r].status = "none"
    <2>1. sess[r].state = "open" /\ sess[r].src = "none"
       BY Before DEF Ctl, Funds
    <2>. QED  BY <2>1, Sourceless
  <1>3. Become(r, s) /\ Goto(r, l) /\ l \in {"open", "done"}
     BY DEF NextSource
  <1>. HIDE DEF s, l
  <1>4. CASE Lost(r)
    <2>1. Shape(r, l, s, refund[r], adj[r])
       BY <1>1, <1>2, <1>3 DEF Shape
    <2>. QED  BY <1>3, <1>4, <2>1, AfterLost DEF tables
  <1>5. CASE UNCHANGED slip /\ Paid(r)' = Paid(r) /\ (~slip[r] => PaidByToken(r)' = 0)
    <2>1. BooksAt(r, l, s, refund[r], adj[r], 0, PaidByToken(r)', slip[r])
       BY <1>1, <1>2, <1>3, <1>5, NewSession
    <2>. QED  BY <1>2, <1>3, <1>5, <2>1, After DEF tables
  <1>. QED  BY <1>4, <1>5

\* The same for an early session that has charged the token nothing.
LEMMA NextSourceQuiet ==
    ASSUME IInv, AllBooks, NEW r \in Requests, NEW rest, NextSource(r, rest),
           pc[r] \in {"open", "token"}, UNCHANGED <<money, tables, slip>>
    PROVE  Books(r)'
  <1>1. sess[r].state = "open" /\ sess[r].src = "none" /\ pc[r] \in Early
     BY Before DEF Ctl, Funds, Early
  <1>2. Paid(r)' = Paid(r) /\ (~slip[r] => PaidByToken(r)' = 0)
     BY <1>1, Sourceless DEF money, Paid, PaidByToken, Share
  <1>. QED  BY <1>1, <1>2, NextSourceBooks

\* Begin and the choice of a source.
LEMMA ChooseBooks ==
    ASSUME IInv, AllBooks, NEW r \in Requests,
           \/ \E q \in Quotas[r] : Begin(r, q) \/ PreConsumeLate(r, q)
           \/ TryWallet(r) \/ TrySubscription(r)
    PROVE  Books(r)'
  <1>0. /\ sess[r].state = "open" /\ sess[r].src = "none" /\ pc[r] \in {"idle", "open", "serving"}
        /\ UNCHANGED <<money, tables, slip>>
     BY Before DEF Ctl, Funds, Early, Serving, Begin, PreConsumeLate, TryWallet, TrySubscription
  <1>1. /\ sess[r].pre = 0 /\ sess[r].tok = 0 /\ Paid(r) = 0 /\ refund[r].status = "none"
        /\ sess[r].held = 0 /\ sess[r].extra = 0
        /\ adj[r].status = "none" /\ (~slip[r] => PaidByToken(r) = 0) /\ sess[r] \in Sessions
     BY <1>0, Sourceless, Before DEF Share
  <1>2. ASSUME NEW q \in Quotas[r], OpenSession(r, q), pc[r] \in {"idle", "serving"}
        PROVE  Books(r)'
     BY <1>0, <1>2, OpenBooks, QuotasAssumption
  <1>3. ASSUME NEW rest, NextSource(r, rest), pc[r] = "open" PROVE Books(r)'
     BY <1>0, <1>3, NextSourceQuiet
  <1>4. ASSUME NEW s, NEW l \in {"serving", "token"}, Become(r, s), Goto(r, l),
               s.tok = 0, s.pre = 0, s.held = 0, s.extra = 0, s.state = "open"
        PROVE  Books(r)'
    <2>1. BooksAt(r, l, s, refund[r], adj[r], Paid(r), PaidByToken(r), slip[r])
       BY <1>1, <1>4 DEF BooksAt, Shape, TokenAgrees, FundingAgrees, Share, Returned, TopUp,
          Early, Reserving
    <2>. QED  BY <1>0, <1>4, <2>1, AfterQuiet DEF tables
  <1>5. UNCHANGED sess => Become(r, sess[r])
     BY SameSession
  <1>6. ASSUME NEW q \in Quotas[r], Begin(r, q) \/ PreConsumeLate(r, q) PROVE Books(r)'
     BY <1>0, <1>1, <1>2, <1>4, <1>5, <1>6 DEF Begin, PreConsumeLate
  <1>7. CASE TryWallet(r)
    <2>. DEFINE s == [sess[r] EXCEPT !.src = "wallet", !.amt = 0]
    <2>1. s.tok = 0 /\ s.pre = 0 /\ s.held = 0 /\ s.extra = 0 /\ s.state = "open"
       BY <1>0, <1>1 DEF Sessions
    <2>2. \/ \E rest : NextSource(r, rest)
          \/ Become(r, s) /\ Goto(r, "serving")
          \/ Goto(r, "token") /\ UNCHANGED sess
       BY <1>7 DEF TryWallet
    <2>3. pc[r] = "open"
       BY <1>7 DEF TryWallet
    <2>. HIDE DEF s
    <2>. QED  BY <1>0, <1>1, <1>3, <1>4, <1>5, <2>1, <2>2, <2>3
  <1>8. CASE TrySubscription(r)
    <2>1. PICK n : Become(r, [sess[r] EXCEPT !.amt = n]) /\ Goto(r, "token")
       BY <1>8 DEF TrySubscription
    <2>. DEFINE s == [sess[r] EXCEPT !.amt = n]
    <2>2. s.tok = 0 /\ s.pre = 0 /\ s.held = 0 /\ s.extra = 0 /\ s.state = "open"
       BY <1>0, <1>1 DEF Sessions
    <2>. HIDE DEF s
    <2>3. Become(r, s)
       BY <2>1 DEF s
    <2>. QED  BY <1>4, <2>1, <2>2, <2>3
  <1>. QED  BY <1>6, <1>7, <1>8

\* The token's pre-charge and its return.
LEMMA TokenBooks ==
    ASSUME IInv, AllBooks, NEW r \in Requests, PreConsumeToken(r) \/ UndoToken(r)
    PROVE  Books(r)'
  <1>0. sess[r].state = "open" /\ sess[r].src = "none" /\ pc[r] \in Early /\ UNCHANGED tables
     BY Before DEF Ctl, Funds, Early, PreConsumeToken, UndoToken
  <1>1. /\ sess[r].pre = 0 /\ Paid(r) = 0 /\ refund[r].status = "none"
        /\ sess[r].held = 0 /\ sess[r].extra = 0 /\ adj[r].status = "none"
        /\ ~slip[r] => PaidByToken(r) = Share(r, sess[r].tok)
     BY <1>0, Sourceless
  <1>2. TypeOK /\ sess[r] \in Sessions /\ sess[r].amt \in Int /\ -sess[r].tok \in Int
        /\ sess[r].tok \in Nat /\ PaidByToken(r) \in Int
     BY Before
  <1>3. CASE PreConsumeToken(r)
    <2>0. pc[r] = "token" /\ UNCHANGED slip /\ sess[r].tok = 0
       BY <1>0, <1>3, Sourceless DEF PreConsumeToken
    <2>1. CASE TokenStep(r, sess[r].amt) /\ Become(r, [sess[r] EXCEPT !.tok = sess[r].amt])
               /\ Goto(r, "fund")
      <3>. DEFINE s == [sess[r] EXCEPT !.tok = sess[r].amt]
      <3>1. /\ s.tok = sess[r].amt /\ s.amt = sess[r].amt /\ s.held = 0 /\ s.extra = 0 /\ s.state = "open"
         BY <1>0, <1>1, <1>2 DEF Sessions
      <3>2. PaidByToken(r)' = PaidByToken(r) + Share(r, sess[r].amt) /\ Paid(r)' = 0
         BY <1>1, <1>2, <2>1, TokenMoves, TokenFacts
      <3>3. ~slip[r] => PaidByToken(r)' = Share(r, sess[r].amt)
         BY <1>1, <1>2, <2>0, <3>2 DEF Share
      <3>. HIDE DEF s
      <3>4. BooksAt(r, "fund", s, refund[r], adj[r], 0, PaidByToken(r)', slip[r])
         BY <1>1, <3>1, <3>3 DEF BooksAt, Shape, TokenAgrees, FundingAgrees, Early
      <3>5. Become(r, s) /\ Goto(r, "fund")
         BY <2>1 DEF s
      <3>. QED  BY <1>0, <2>0, <3>2, <3>4, <3>5, After DEF tables
    <2>2. CASE NextSource(r, <<>>) /\ UNCHANGED money
       BY <1>0, <2>0, <2>2, NextSourceQuiet
    <2>. QED  BY <1>3, <2>1, <2>2 DEF PreConsumeToken
  <1>4. CASE UndoToken(r)
    <2>1. CASE TokenStep(r, -sess[r].tok) /\ UNCHANGED slip
      <3>1. PaidByToken(r)' = PaidByToken(r) + Share(r, -sess[r].tok) /\ Paid(r)' = Paid(r)
         BY <1>2, <2>1, TokenMoves, TokenFacts
      <3>2. ~slip[r] => PaidByToken(r)' = 0
         BY <1>1, <1>2, <3>1 DEF Share
      <3>. QED  BY <1>0, <1>4, <2>1, <3>1, <3>2, NextSourceBooks DEF UndoToken
    <2>2. CASE Lost(r)
       BY <1>0, <1>4, <2>2, NextSourceBooks DEF UndoToken
    <2>. QED  BY <1>4, <2>1, <2>2 DEF UndoToken
  <1>. QED  BY <1>3, <1>4

\* The funding source's pre-charge.
LEMMA FundingBooks ==
    ASSUME IInv, AllBooks, NEW r \in Requests, PreConsumeFunding(r)
    PROVE  Books(r)'
  <1>. PICK a : a = Head(sess[r].plan)
     OBVIOUS
  <1>0. /\ sess[r].state = "open" /\ sess[r].src = "none" /\ pc[r] = "fund"
        /\ UNCHANGED <<tables, slip>> /\ a \in Sources
     BY Before, RestFacts DEF Ctl, Funds, Early, PreConsumeFunding, Sessions
  <1>1. /\ sess[r].pre = 0 /\ Paid(r) = 0 /\ refund[r].status = "none"
        /\ sess[r].held = 0 /\ sess[r].extra = 0 /\ adj[r].status = "none"
        /\ ~slip[r] => PaidByToken(r) = Share(r, sess[r].tok)
     BY <1>0, Sourceless
  <1>2. TypeOK /\ sess[r] \in Sessions /\ sess[r].amt \in Nat /\ sess[r].tok \in Nat
     BY Before
  <1>3. sess[r].tok = sess[r].amt
     BY <1>0, Before DEF Books, BooksAt, Shape
  <1>4. CASE /\ Charge(r, a, sess[r].amt)
             /\ Become(r, [sess[r] EXCEPT !.src = a, !.pre = sess[r].amt,
                                          !.held = sess[r].amt, !.amt = 0])
             /\ Goto(r, "serving")
    <2>. DEFINE s == [sess[r] EXCEPT !.src = a, !.pre = sess[r].amt, !.held = sess[r].amt, !.amt = 0]
    <2>1. /\ s.tok = sess[r].tok /\ s.pre = sess[r].amt /\ s.held = sess[r].amt
          /\ s.extra = 0 /\ s.state = "open" /\ s.src = a
       BY <1>0, <1>1, <1>2 DEF Sessions
    <2>. HIDE DEF s
    <2>2. PaidByToken(r)' = PaidByToken(r)
       BY <1>0, <1>2, <1>4, TokenMoves
    <2>3. BooksAt(r, "serving", s, refund[r], adj[r], Paid(r)', PaidByToken(r), slip[r])
       BY <1>0, <1>1, <1>2, <1>3, <2>1 DEF BooksAt, Shape, TokenAgrees, FundingAgrees, Returned,
          TopUp, Early, Reserving, Sources
    <2>4. Become(r, s)
       BY <1>4 DEF s
    <2>. QED  BY <1>0, <1>4, <2>2, <2>3, <2>4, After DEF tables
  <1>5. ASSUME NEW rest, Become(r, [sess[r] EXCEPT !.plan = rest]), Goto(r, "undo"),
               UNCHANGED money
        PROVE  Books(r)'
    <2>. DEFINE s == [sess[r] EXCEPT !.plan = rest]
    <2>1. /\ s.tok = sess[r].tok /\ s.held = 0 /\ s.extra = 0 /\ s.state = "open"
       BY <1>0, <1>1, <1>2 DEF Sessions
    <2>. HIDE DEF s
    <2>2. BooksAt(r, "undo", s, refund[r], adj[r], Paid(r), PaidByToken(r), slip[r])
       BY <1>1, <2>1 DEF BooksAt, Shape, TokenAgrees, FundingAgrees, Early
    <2>3. Become(r, s)
       BY <1>5 DEF s
    <2>. QED  BY <1>0, <1>5, <2>2, <2>3, AfterQuiet DEF tables
  <1>. QED  BY <1>4, <1>5 DEF PreConsumeFunding

----------------------------------------------------------------------------
\* Top-up and upstream

\* The books of an undecided request with a source, or of a free one.
LEMMA OpenFacts ==
    ASSUME IInv, AllBooks, NEW r \in Requests, sess[r].state = "open",
           pc[r] \in Reserving \cup Serving \cup {"closing"}
    PROVE  /\ refund[r].status = "none" /\ adj[r].status = "none" /\ sess[r].tok = sess[r].pre
           /\ sess[r].src = "none" => sess[r].held = 0 /\ sess[r].extra = 0
           /\ ~slip[r] => /\ PaidByToken(r) = Share(r, sess[r].tok)
                          /\ Returned(sess[r]) = sess[r].pre + TopUp(pc[r], sess[r])
                          /\ pc[r] \in Serving \cup {"closing"} => Paid(r) = sess[r].pre
  <1>1. Ctl(r) /\ Funds(r) /\ Books(r)
     BY Before
  <1>. QED  BY <1>1 DEF Ctl, Funds, PaidFor, Books, BooksAt, Shape, TokenAgrees, FundingAgrees,
               Reserving, Serving, Early

\* A session that keeps its amounts and stays open.
LEMMA OpenBooksStay ==
    ASSUME IInv, AllBooks, NEW r \in Requests, NEW s, NEW l, NEW paid, sess[r].state = "open",
           pc[r] \in Reserving \cup Serving \cup {"closing"}, s.state = "open",
           s.tok = sess[r].tok, s.pre = sess[r].pre,
           s.src = "none" => s.held = 0 /\ s.extra = 0,
           ~slip[r] => Returned(s) = s.pre + TopUp(l, s),
           l \in Reserving \cup Serving \cup {"closing"},
           l \in {"cancel", "closing"} => s.err \/ (l = "closing" /\ s.src = "none"),
           l = "closing" /\ ~slip[r] => paid = s.pre
    PROVE  BooksAt(r, l, s, refund[r], adj[r], paid, PaidByToken(r), slip[r])
  <1>1. /\ refund[r].status = "none" /\ adj[r].status = "none" /\ sess[r].tok = sess[r].pre
        /\ ~slip[r] => PaidByToken(r) = Share(r, sess[r].tok)
     BY OpenFacts
  <1>. QED  BY <1>1 DEF BooksAt, Shape, TokenAgrees, FundingAgrees, Reserving, Serving, Early

\* A top-up that failed, its charge returned or never made.
LEMMA ReserveFailedBooks ==
    ASSUME IInv, AllBooks, NEW r \in Requests, NEW h \in Int,
           ReserveFailed(r, [sess[r] EXCEPT !.held = h]),
           pc[r] \in Reserving \cup {"serving"}, sess[r].src # "none", UNCHANGED tables,
           \/ /\ UNCHANGED slip /\ PaidByToken(r)' = PaidByToken(r)
              /\ ~slip[r] => Paid(r)' = sess[r].pre /\ Returned(sess[r]) - sess[r].held + h = sess[r].pre
           \/ Lost(r)
    PROVE  Books(r)'
  <1>. PICK l \in {"serving", "closing"} : Goto(r, l)
     BY DEF ReserveFailed
  <1>. DEFINE s == [sess[r] EXCEPT !.held = h, !.err = TRUE, !.amt = 0]
  <1>1. /\ sess[r].state = "open" /\ sess[r] \in Sessions /\ sess[r].held \in Nat
        /\ sess[r].extra \in Nat /\ sess[r].pre \in Nat
     BY Before DEF Ctl, Reserving, Serving
  <1>2. /\ s.state = "open" /\ s.tok = sess[r].tok /\ s.pre = sess[r].pre /\ s.src = sess[r].src
        /\ s.held = h /\ s.extra = sess[r].extra /\ s.err
     BY <1>1 DEF Sessions
  <1>3. Become(r, s)
     BY <1>1 DEF ReserveFailed, Sessions
  <1>. HIDE DEF s
  <1>4. CASE Lost(r)
    <2>1. /\ refund[r].status = "none" /\ adj[r].status = "none" /\ sess[r].tok = sess[r].pre
       BY <1>1, OpenFacts DEF Serving
    <2>2. Shape(r, l, s, refund[r], adj[r])
       BY <1>2, <2>1 DEF Shape
    <2>. QED  BY <1>3, <1>4, <2>2, AfterLost DEF tables
  <1>5. CASE /\ UNCHANGED slip /\ PaidByToken(r)' = PaidByToken(r)
             /\ ~slip[r] => Paid(r)' = sess[r].pre /\ Returned(sess[r]) - sess[r].held + h = sess[r].pre
    <2>1. ~slip[r] => Returned(s) = s.pre + TopUp(l, s)
       BY <1>1, <1>2, <1>5 DEF Returned, TopUp, Reserving
    <2>2. BooksAt(r, l, s, refund[r], adj[r], Paid(r)', PaidByToken(r), slip[r])
       BY <1>1, <1>2, <1>5, <2>1, OpenBooksStay DEF Serving
    <2>. QED  BY <1>3, <1>5, <2>2, After DEF tables
  <1>. QED  BY <1>4, <1>5

\* The charge of a top-up.
LEMMA ReserveFundingBooks ==
    ASSUME IInv, AllBooks, NEW r \in Requests, NEW q \in Quotas[r], ReserveFunding(r, q)
    PROVE  Books(r)'
  <1>. PICK d, h : d = q - sess[r].pre /\ h = Held(sess[r], d)
     OBVIOUS
  <1>0. /\ pc[r] = "serving" /\ sess[r].src # "none" /\ sess[r].src \in Sources
        /\ UNCHANGED <<tables, slip>> /\ d \in Int /\ sess[r].state = "open"
        /\ TypeOK /\ sess[r] \in Sessions /\ sess[r].held \in Nat /\ sess[r].extra \in Nat
        /\ sess[r].pre \in Nat
     BY Before, QuotasAssumption DEF ReserveFunding, Ctl, Serving, Sessions
  <1>1. ~slip[r] => Returned(sess[r]) = sess[r].pre /\ Paid(r) = sess[r].pre
     BY <1>0, OpenFacts DEF TopUp, Reserving, Serving
  <1>2. CASE /\ Charge(r, sess[r].src, d)
             /\ Become(r, [sess[r] EXCEPT !.amt = d, !.held = h])
             /\ Goto(r, "reserved")
    <2>. DEFINE s == [sess[r] EXCEPT !.amt = d, !.held = h]
    <2>1. /\ s.state = "open" /\ s.tok = sess[r].tok /\ s.pre = sess[r].pre /\ s.src = sess[r].src
          /\ s.held = h /\ s.extra = sess[r].extra /\ s.amt = d
       BY <1>0 DEF Sessions
    <2>2. PaidByToken(r)' = PaidByToken(r) /\ Become(r, s)
       BY <1>0, <1>2, TokenMoves
    <2>. HIDE DEF s
    <2>3. ~slip[r] => Returned(s) = s.pre + TopUp("reserved", s)
       BY <1>0, <1>1, <2>1 DEF Returned, TopUp, Held, Reserving, Sources
    <2>4. BooksAt(r, "reserved", s, refund[r], adj[r], Paid(r)', PaidByToken(r), slip[r])
       BY <1>0, <2>1, <2>3, OpenBooksStay DEF Serving, Reserving
    <2>. QED  BY <1>0, <1>2, <2>2, <2>4, After DEF tables
  <1>3. CASE ReserveFailed(r, sess[r]) /\ UNCHANGED money
    <2>1. sess[r] = [sess[r] EXCEPT !.held = sess[r].held]
       BY <1>0 DEF Sessions
    <2>2. PaidByToken(r)' = PaidByToken(r) /\ Paid(r)' = Paid(r)
       BY <1>3 DEF money, PaidByToken, Share, Paid
    <2>3. ~slip[r] => Paid(r)' = sess[r].pre
                      /\ Returned(sess[r]) - sess[r].held + sess[r].held = sess[r].pre
       BY <1>0, <1>1, <2>2 DEF Returned
    <2>4. sess[r].held \in Int
       BY <1>0
    <2>. QED  BY <1>0, <1>3, <2>1, <2>2, <2>3, <2>4, ReserveFailedBooks
  <1>. QED  BY <1>2, <1>3 DEF ReserveFunding

\* The token's part of a top-up, and the rollback when it fails.
LEMMA ReserveTokenBooks ==
    ASSUME IInv, AllBooks, NEW r \in Requests, ReserveToken(r)
    PROVE  Books(r)'
  <1>0. /\ pc[r] = "reserved" /\ sess[r].src # "none" /\ UNCHANGED <<tables, slip>>
        /\ sess[r].state = "open" /\ TypeOK /\ sess[r] \in Sessions /\ sess[r].held \in Nat
        /\ sess[r].extra \in Nat /\ sess[r].pre \in Nat /\ sess[r].tok \in Nat
        /\ sess[r].amt \in Nat /\ sess[r].src \in Sources /\ PaidByToken(r) \in Int
     BY Before DEF ReserveToken, Ctl, Funds, Reserving, Sessions
  <1>1. /\ refund[r].status = "none" /\ adj[r].status = "none" /\ sess[r].tok = sess[r].pre
        /\ ~slip[r] => /\ PaidByToken(r) = Share(r, sess[r].tok)
                       /\ Returned(sess[r]) = sess[r].pre + TopUp("reserved", sess[r])
     BY <1>0, OpenFacts DEF Reserving
  <1>2. CASE /\ TokenStep(r, sess[r].amt)
             /\ Become(r, [sess[r] EXCEPT !.pre = @ + sess[r].amt, !.tok = @ + sess[r].amt,
                                          !.extra = @ + sess[r].amt, !.amt = 0])
             /\ Goto(r, "serving")
    <2>. DEFINE s == [sess[r] EXCEPT !.pre = @ + sess[r].amt, !.tok = @ + sess[r].amt,
                                     !.extra = @ + sess[r].amt, !.amt = 0]
    <2>1. /\ s.state = "open" /\ s.tok = sess[r].tok + sess[r].amt
          /\ s.pre = sess[r].pre + sess[r].amt /\ s.src = sess[r].src
          /\ s.held = sess[r].held /\ s.extra = sess[r].extra + sess[r].amt
       BY <1>0 DEF Sessions
    <2>2. PaidByToken(r)' = PaidByToken(r) + Share(r, sess[r].amt) /\ Become(r, s)
       BY <1>0, <1>2, TokenMoves
    <2>. HIDE DEF s
    <2>3. ~slip[r] => Returned(s) = s.pre /\ PaidByToken(r)' = Share(r, s.tok)
       BY <1>0, <1>1, <2>1, <2>2 DEF Returned, TopUp, Reserving, Sources, Share
    <2>4. BooksAt(r, "serving", s, refund[r], adj[r], Paid(r)', PaidByToken(r)', slip[r])
       BY <1>0, <1>1, <2>1, <2>3 DEF BooksAt, Shape, TokenAgrees, FundingAgrees, TopUp, Reserving
    <2>. QED  BY <1>0, <1>2, <2>2, <2>4, After DEF tables
  <1>3. CASE Goto(r, "unreserve") /\ UNCHANGED <<money, sess>>
    <2>1. ~slip[r] => Returned(sess[r]) = sess[r].pre + TopUp("unreserve", sess[r])
       BY <1>1 DEF TopUp, Reserving
    <2>2. BooksAt(r, "unreserve", sess[r], refund[r], adj[r], Paid(r), PaidByToken(r), slip[r])
       BY <1>0, <2>1, OpenBooksStay DEF Reserving
    <2>. QED  BY <1>0, <1>3, <2>2, SameSession, AfterQuiet DEF tables
  <1>. QED  BY <1>2, <1>3 DEF ReserveToken

\* The rollback of the funding charge.
LEMMA RollbackBooks ==
    ASSUME IInv, AllBooks, NEW r \in Requests, RollbackReserve(r)
    PROVE  Books(r)'
  <1>. PICK h : h = Held(sess[r], -sess[r].amt)
     OBVIOUS
  <1>0. /\ pc[r] = "unreserve" /\ sess[r].src # "none" /\ UNCHANGED tables
        /\ sess[r].state = "open" /\ TypeOK /\ sess[r] \in Sessions /\ sess[r].held \in Nat
        /\ sess[r].extra \in Nat /\ sess[r].pre \in Nat
        /\ sess[r].amt \in Nat /\ sess[r].src \in Sources /\ Paid(r) \in Int
        /\ PaidFor(r, sess[r].pre + sess[r].amt)
     BY Before DEF RollbackReserve, Ctl, Funds, Reserving, Sessions
  <1>1. h \in Int /\ -sess[r].amt \in Int /\ -(-sess[r].amt) = sess[r].amt
     BY <1>0 DEF Held
  <1>2. ~slip[r] => Returned(sess[r]) = sess[r].pre + TopUp("unreserve", sess[r])
     BY <1>0, OpenFacts DEF Reserving
  <1>3. CASE /\ Credit(r, sess[r].src, sess[r].amt)
             /\ ReserveFailed(r, [sess[r] EXCEPT !.held = h])
             /\ UNCHANGED slip
    <2>1. Paid(r)' = Paid(r) + (-sess[r].amt)
       BY <1>0, <1>1, <1>3, FundingFacts
    <2>2. PaidByToken(r)' = PaidByToken(r)
       BY <1>0, <1>3, TokenMoves
    <2>3. ~slip[r] => Paid(r)' = sess[r].pre
       BY <1>0, <2>1 DEF PaidFor
    <2>4. ~slip[r] => Returned(sess[r]) - sess[r].held + h = sess[r].pre
       BY <1>0, <1>2 DEF Returned, TopUp, Held, Reserving, Sources
    <2>. QED  BY <1>0, <1>1, <1>3, <2>2, <2>3, <2>4, ReserveFailedBooks DEF Reserving
  <1>4. CASE ReserveFailed(r, sess[r]) /\ Lost(r) /\ UNCHANGED money
    <2>1. sess[r] = [sess[r] EXCEPT !.held = sess[r].held] /\ sess[r].held \in Int
       BY <1>0 DEF Sessions
    <2>. QED  BY <1>0, <1>4, <2>1, ReserveFailedBooks DEF Reserving
  <1>. QED  BY <1>3, <1>4 DEF RollbackReserve

\* Upstream and the deferred earning change no amount of the session.
LEMMA UpstreamBooks ==
    ASSUME IInv, AllBooks, NEW r \in Requests,
           UpstreamFails(r) \/ (\E q \in Quotas[r] : UpstreamSucceeds(r, q)) \/ PrepareEarning(r)
    PROVE  Books(r)'
  <1>0. /\ pc[r] \in {"serving", "prepare"} /\ UNCHANGED <<money, refund, adj, slip>>
        /\ sess[r].state = "open" /\ sess[r] \in Sessions
     BY Before DEF UpstreamFails, UpstreamSucceeds, PrepareEarning, tables, Ctl, Serving
  <1>1. /\ ~slip[r] => Returned(sess[r]) = sess[r].pre /\ Paid(r) = sess[r].pre
        /\ sess[r].src = "none" => sess[r].held = 0 /\ sess[r].extra = 0
        /\ sess[r].pre \in Nat
     BY <1>0, OpenFacts, Before DEF TopUp, Reserving, Serving
  <1>2. ASSUME NEW s, NEW l \in {"prepare", "settle", "closing"}, Become(r, s), Goto(r, l),
               s.state = "open", s.tok = sess[r].tok, s.pre = sess[r].pre,
               s.src = sess[r].src, s.held = sess[r].held, s.extra = sess[r].extra,
               l = "closing" => s.err
        PROVE  Books(r)'
    <2>1. ~slip[r] => Returned(s) = s.pre + TopUp(l, s)
       BY <1>1, <1>2 DEF Returned, TopUp, Reserving
    <2>2. BooksAt(r, l, s, refund[r], adj[r], Paid(r), PaidByToken(r), slip[r])
       BY <1>0, <1>1, <1>2, <2>1, OpenBooksStay DEF Serving
    <2>. QED  BY <1>0, <1>2, <2>2, AfterQuiet
  <1>3. ASSUME Become(r, [sess[r] EXCEPT !.err = TRUE]), Goto(r, "closing") PROVE Books(r)'
    <2>. DEFINE s == [sess[r] EXCEPT !.err = TRUE]
    <2>1. /\ s.state = "open" /\ s.tok = sess[r].tok /\ s.pre = sess[r].pre /\ s.src = sess[r].src
          /\ s.held = sess[r].held /\ s.extra = sess[r].extra /\ s.err
       BY <1>0 DEF Sessions
    <2>2. Become(r, s)
       BY <1>3
    <2>. HIDE DEF s
    <2>. QED  BY <1>2, <1>3, <2>1, <2>2
  <1>4. ASSUME NEW q \in Quotas[r], UpstreamSucceeds(r, q) PROVE Books(r)'
    <2>. DEFINE s == [sess[r] EXCEPT !.act = q]
    <2>1. /\ s.state = "open" /\ s.tok = sess[r].tok /\ s.pre = sess[r].pre /\ s.src = sess[r].src
          /\ s.held = sess[r].held /\ s.extra = sess[r].extra
       BY <1>0 DEF Sessions
    <2>2. Become(r, s) /\ Goto(r, "prepare")
       BY <1>4 DEF UpstreamSucceeds
    <2>. HIDE DEF s
    <2>. QED  BY <1>2, <2>1, <2>2
  <1>5. UNCHANGED sess => Become(r, sess[r])
     BY SameSession
  <1>6. Goto(r, "settle") /\ UNCHANGED sess => Books(r)'
     BY <1>0, <1>2, <1>5
  <1>. QED  BY <1>3, <1>4, <1>6 DEF UpstreamFails, PrepareEarning

----------------------------------------------------------------------------
\* Settlement

\* The books of a committed request before its token has been settled.
LEMMA FundedBooks ==
    ASSUME NEW r \in Requests, NEW s, NEW l, NEW paid, NEW tok,
           l \in {"settleToken", "publish"}, s.state \in {"funded", "retained", "settled"},
           s.state = "funded" => l = "settleToken",
           s.tok = s.pre, s.src # "none", refund[r].status = "none", adj[r].status = "none",
           ~slip[r] => tok = Share(r, IF s.state = "funded" THEN s.tok ELSE s.com), tok \in Int
    PROVE  BooksAt(r, l, s, refund[r], adj[r], paid, tok, slip[r])
  <1>1. tok + 0 = tok
     OBVIOUS
  <1>. QED  BY <1>1 DEF BooksAt, Shape, TokenAgrees, FundingAgrees

\* The funding statement went through or failed.
LEMMA SettleBooks ==
    ASSUME IInv, AllBooks, NEW r \in Requests,
           SettleEven(r) \/ SettleFunding(r) \/ SettleOverflow(r)
    PROVE  Books(r)'
  <1>0. /\ pc[r] \in {"settle", "overflow"} /\ UNCHANGED <<tables, slip>>
        /\ sess[r].state = "open" /\ TypeOK /\ sess[r] \in Sessions /\ PaidByToken(r) \in Int
        /\ sess[r].act \in Nat /\ sess[r].pre \in Nat
     BY Before DEF SettleEven, SettleFunding, SettleOverflow, Ctl, Serving
  <1>1. /\ refund[r].status = "none" /\ adj[r].status = "none" /\ sess[r].tok = sess[r].pre
        /\ sess[r].src = "none" => sess[r].held = 0 /\ sess[r].extra = 0 /\ sess[r].pre = 0
        /\ ~slip[r] => /\ PaidByToken(r) = Share(r, sess[r].tok) /\ Paid(r) = sess[r].pre
                       /\ Returned(sess[r]) = sess[r].pre
     BY <1>0, OpenFacts, Before DEF Serving, TopUp, Reserving, Funds
  <1>2. SettleSource(r) \in Sources /\ SettleSource(r) # "none" /\ Delta(r) \in Int
     BY SettleSourceFacts DEF Sources
  <1>3. ASSUME FundingSettled(r), PaidByToken(r)' = PaidByToken(r) PROVE Books(r)'
    <2>. DEFINE s == [sess[r] EXCEPT !.src = SettleSource(r), !.state = "funded",
                                     !.com = sess[r].act]
    <2>1. s.state = "funded" /\ s.tok = sess[r].tok /\ s.pre = sess[r].pre /\ s.src = SettleSource(r)
       BY <1>0 DEF Sessions
    <2>2. Become(r, s) /\ Goto(r, "settleToken")
       BY <1>3 DEF FundingSettled
    <2>. HIDE DEF s
    <2>3. BooksAt(r, "settleToken", s, refund[r], adj[r], Paid(r)', PaidByToken(r), slip[r])
       BY <1>0, <1>1, <1>2, <2>1, FundedBooks
    <2>. QED  BY <1>0, <1>3, <2>2, <2>3, After DEF tables
  <1>4. ASSUME SettleFailed(r) PROVE Books(r)'
    <2>1. CASE sess[r].act > 0 /\ sess[r].pre > 0
      <3>. DEFINE s == [sess[r] EXCEPT !.err = TRUE, !.state = "retained", !.com = sess[r].pre]
      <3>1. /\ s.state = "retained" /\ s.tok = sess[r].tok /\ s.pre = sess[r].pre
            /\ s.src = sess[r].src /\ s.com = sess[r].pre
         BY <1>0 DEF Sessions
      <3>2. Become(r, s) /\ Goto(r, "publish") /\ UNCHANGED money
         BY <1>0, <1>4, <2>1 DEF SettleFailed, Retained, Sessions
      <3>. HIDE DEF s
      <3>3. BooksAt(r, "publish", s, refund[r], adj[r], Paid(r), PaidByToken(r), slip[r])
         BY <1>0, <1>1, <2>1, <3>1, FundedBooks
      <3>. QED  BY <1>0, <3>2, <3>3, AfterQuiet DEF tables
    <2>2. CASE ~(sess[r].act > 0 /\ sess[r].pre > 0)
      <3>. DEFINE s == [sess[r] EXCEPT !.src = SettleSource(r), !.err = TRUE]
      <3>1. /\ s.state = "open" /\ s.tok = sess[r].tok /\ s.pre = sess[r].pre /\ s.err
            /\ s.src = SettleSource(r) /\ s.held = sess[r].held /\ s.extra = sess[r].extra
         BY <1>0 DEF Sessions
      <3>2. Become(r, s) /\ Goto(r, "cancel") /\ UNCHANGED money
         BY <1>0, <1>4, <2>2 DEF SettleFailed, Retained, Sessions
      <3>. HIDE DEF s
      <3>3. ~slip[r] => Returned(s) = s.pre + TopUp("cancel", s)
         BY <1>0, <1>1, <3>1 DEF Returned, TopUp, Reserving, SettleSource
      <3>4. BooksAt(r, "cancel", s, refund[r], adj[r], Paid(r), PaidByToken(r), slip[r])
         BY <1>0, <1>2, <3>1, <3>3, OpenBooksStay DEF Serving
      <3>. QED  BY <1>0, <3>2, <3>4, AfterQuiet DEF tables
    <2>. QED  BY <2>1, <2>2
  <1>5. UNCHANGED sess => Become(r, sess[r])
     BY SameSession
  <1>6. ASSUME UNCHANGED <<money, sess>>, NEW l \in {"overflow", "closing"}, Goto(r, l),
               l = "closing" => sess[r].src = "none"
        PROVE  Books(r)'
    <2>1. ~slip[r] => Returned(sess[r]) = sess[r].pre + TopUp(l, sess[r])
       BY <1>0, <1>1, <1>6 DEF TopUp, Reserving
    <2>2. BooksAt(r, l, sess[r], refund[r], adj[r], Paid(r), PaidByToken(r), slip[r])
       BY <1>0, <1>1, <1>6, <2>1, OpenBooksStay DEF Serving
    <2>. QED  BY <1>0, <1>5, <1>6, <2>2, AfterQuiet DEF tables
  <1>7. CASE SettleEven(r)
    <2>. DEFINE s == [sess[r] EXCEPT !.state = "settled", !.com = sess[r].act]
    <2>1. /\ s.state = "settled" /\ s.tok = sess[r].tok /\ s.pre = sess[r].pre
          /\ s.src = sess[r].src /\ s.com = sess[r].act
       BY <1>0 DEF Sessions
    <2>2. sess[r].act = sess[r].pre /\ UNCHANGED money
       BY <1>0, <1>7 DEF SettleEven, Delta
    <2>3. \/ Become(r, s) /\ Goto(r, "publish") /\ sess[r].src # "none"
          \/ sess[r].src = "none" /\ Goto(r, "closing") /\ UNCHANGED sess
       BY <1>7 DEF SettleEven
    <2>. HIDE DEF s
    <2>4. CASE Become(r, s) /\ Goto(r, "publish") /\ sess[r].src # "none"
      <3>1. BooksAt(r, "publish", s, refund[r], adj[r], Paid(r), PaidByToken(r), slip[r])
         BY <1>0, <1>1, <2>1, <2>2, <2>4, FundedBooks
      <3>. QED  BY <1>0, <2>2, <2>4, <3>1, AfterQuiet DEF tables
    <2>. QED  BY <1>6, <2>2, <2>3, <2>4
  <1>8. CASE SettleFunding(r)
    <2>1. Apply(r, SettleSource(r), Delta(r)) => PaidByToken(r)' = PaidByToken(r)
       BY <1>0, <1>2, TokenMoves
    <2>. QED  BY <1>3, <1>4, <1>6, <1>8, <2>1 DEF SettleFunding
  <1>9. CASE SettleOverflow(r)
    <2>1. Charge(r, "wallet", Delta(r)) => PaidByToken(r)' = PaidByToken(r)
       BY <1>0, <1>2, TokenMoves DEF Sources
    <2>. QED  BY <1>3, <1>4, <1>9, <2>1 DEF SettleOverflow
  <1>. QED  BY <1>7, <1>8, <1>9

\* The token's statement, or the adjustment that stands for it.
LEMMA SettleTokenBooks ==
    ASSUME IInv, AllBooks, NEW r \in Requests, SettleToken(r) \/ PersistAdjustment(r)
    PROVE  Books(r)'
  <1>0. /\ pc[r] \in {"settleToken", "adjust"} /\ sess[r].state = "funded" /\ UNCHANGED refund
        /\ TypeOK /\ sess[r] \in Sessions /\ PaidByToken(r) \in Int /\ sess[r].com = sess[r].act
        /\ sess[r].act \in Nat /\ sess[r].pre \in Nat /\ Books(r)
     BY Before DEF SettleToken, PersistAdjustment, tables, Ctl
  <1>1. /\ refund[r].status = "none" /\ adj[r].status = "none" /\ sess[r].tok = sess[r].pre
        /\ ~slip[r] => PaidByToken(r) = Share(r, sess[r].pre)
        /\ pc[r] = "adjust" => r \notin Playground
        /\ sess[r].src = "none" => sess[r].held = 0 /\ sess[r].extra = 0
     BY <1>0, Before DEF Ctl, Books, BooksAt, Shape, TokenAgrees
  <1>2. Delta(r) \in Int /\ Delta(r) = sess[r].act - sess[r].pre
     BY <1>0 DEF Delta
  <1>. DEFINE s == [sess[r] EXCEPT !.state = "settled"]
              e == [sess[r] EXCEPT !.state = "settled", !.err = TRUE]
  <1>3. /\ s.state = "settled" /\ s.tok = sess[r].tok /\ s.pre = sess[r].pre
        /\ s.com = sess[r].act /\ s.src = sess[r].src /\ s.held = sess[r].held
        /\ s.extra = sess[r].extra
     BY <1>0 DEF Sessions
  <1>4. /\ e.state = "settled" /\ e.tok = sess[r].tok /\ e.pre = sess[r].pre
        /\ e.src = sess[r].src /\ e.held = sess[r].held /\ e.extra = sess[r].extra
     BY <1>0 DEF Sessions
  <1>5. CASE SettleToken(r)
    <2>0. UNCHANGED <<refund, adj, slip>> /\ pc[r] = "settleToken"
       BY <1>5 DEF SettleToken, tables
    <2>1. CASE TokenStep(r, Delta(r)) /\ Become(r, s) /\ Goto(r, "publish")
      <3>1. PaidByToken(r)' = PaidByToken(r) + Share(r, Delta(r))
         BY <1>0, <1>2, <2>1, TokenMoves
      <3>. HIDE DEF s
      <3>2. ~slip[r] => PaidByToken(r)' + 0 = Share(r, s.com)
         BY <1>0, <1>1, <1>2, <1>3, <3>1 DEF Share
      <3>3. BooksAt(r, "publish", s, refund[r], adj[r], Paid(r)', PaidByToken(r)', slip[r])
         BY <1>0, <1>1, <1>3, <3>2 DEF BooksAt, Shape, TokenAgrees, FundingAgrees
      <3>. QED  BY <2>0, <2>1, <3>3, After
    <2>2. CASE r \notin Playground /\ Goto(r, "adjust") /\ UNCHANGED <<money, sess>>
      <3>1. BooksAt(r, "adjust", sess[r], refund[r], adj[r], Paid(r), PaidByToken(r), slip[r])
         BY <1>0, <1>1, <2>2 DEF BooksAt, Shape, TokenAgrees, FundingAgrees
      <3>. QED  BY <2>0, <2>2, <3>1, SameSession, AfterQuiet
    <2>. QED  BY <1>5, <2>1, <2>2 DEF SettleToken
  <1>6. CASE PersistAdjustment(r)
    <2>0. UNCHANGED <<money, refund>> /\ pc[r] = "adjust" /\ Goto(r, "publish")
       BY <1>6 DEF PersistAdjustment
    <2>1. CASE /\ adj' = [adj EXCEPT ![r] = [status |-> "pending", delta |-> Delta(r)]]
               /\ Become(r, s) /\ UNCHANGED slip
      <3>. HIDE DEF s
      <3>1. /\ sess'[r] = s /\ pc'[r] = "publish" /\ PaidByToken(r)' = PaidByToken(r) /\ Paid(r)' = Paid(r)
            /\ adj'[r].status = "pending" /\ adj'[r].delta = Delta(r)
            /\ refund'[r] = refund[r] /\ slip'[r] = slip[r]
         BY <1>0, <2>0, <2>1, Moved DEF money, PaidByToken, Share, Paid, TypeOK
      <3>2. ~slip[r] => PaidByToken(r) + Delta(r) = Share(r, s.com)
         BY <1>0, <1>1, <1>2, <1>3, <2>0 DEF Share
      <3>3. BooksAt(r, "publish", s, refund[r], adj'[r], Paid(r), PaidByToken(r), slip[r])
         BY <1>0, <1>1, <1>3, <2>0, <3>1, <3>2 DEF BooksAt, Shape, TokenAgrees, FundingAgrees
      <3>. QED  BY <3>1, <3>3 DEF Books
    <2>2. CASE Become(r, e) /\ Lost(r) /\ UNCHANGED adj
      <3>. HIDE DEF e
      <3>1. Shape(r, "publish", e, refund[r], adj[r])
         BY <1>0, <1>1, <1>4 DEF Shape
      <3>. QED  BY <2>0, <2>2, <3>1, AfterLost
    <2>. QED  BY <1>6, <2>1, <2>2 DEF PersistAdjustment
  <1>. QED  BY <1>5, <1>6

----------------------------------------------------------------------------
\* The end of a request

\* The provider's earning is none of the consumer's accounts.
LEMMA EarningBooks ==
    ASSUME IInv, AllBooks, NEW r \in Requests,
           MarkReady(r) \/ SettleEarning(r) \/ CancelEarning(r)
    PROVE  Books(r)'
  <1>0. /\ pc[r] \in {"publish", "earn", "cancel"} /\ UNCHANGED <<money, refund, adj, slip>>
        /\ sess[r] \in Sessions /\ Books(r) /\ Ctl(r)
     BY Before DEF MarkReady, SettleEarning, CancelEarning
  <1>1. ASSUME NEW s, NEW l \in {"earn", "closing"}, Become(r, s), Goto(r, l),
               s.state = sess[r].state, s.tok = sess[r].tok, s.pre = sess[r].pre,
               s.src = sess[r].src, s.held = sess[r].held, s.extra = sess[r].extra,
               s.com = sess[r].com, s.err \/ s.err = sess[r].err, l = "earn" => pc[r] = "publish"
        PROVE  Books(r)'
    <2>1. CASE pc[r] = "cancel"
      <3>1. sess[r].state = "open" /\ sess[r].err
         BY <1>0, <2>1 DEF Ctl, Serving, Books, BooksAt, Shape
      <3>2. ~slip[r] => Returned(sess[r]) = sess[r].pre + 0 /\ Paid(r) = sess[r].pre
         BY <1>0, <2>1, <3>1, OpenFacts DEF TopUp, Serving, Reserving
      <3>3. sess[r].src = "none" => sess[r].held = 0 /\ sess[r].extra = 0
         BY <1>0 DEF Books, BooksAt, Shape
      <3>4. ~slip[r] => Returned(s) = s.pre + TopUp(l, s)
         BY <1>1, <3>2 DEF TopUp, Returned, Reserving
      <3>5. BooksAt(r, l, s, refund[r], adj[r], Paid(r), PaidByToken(r), slip[r])
         BY <1>1, <2>1, <3>1, <3>2, <3>3, <3>4, OpenBooksStay DEF Serving
      <3>. QED  BY <1>0, <1>1, <3>5, AfterQuiet
    <2>2. CASE pc[r] \in {"publish", "earn"}
      <3>1. sess[r].state \in {"retained", "settled"}
         BY <1>0, <2>2 DEF Ctl
      <3>2. BooksAt(r, l, s, refund[r], adj[r], Paid(r), PaidByToken(r), slip[r])
         BY <1>0, <1>1, <2>2, <3>1 DEF Books, BooksAt, Shape, TokenAgrees, FundingAgrees
      <3>. QED  BY <1>0, <1>1, <3>2, AfterQuiet
    <2>. QED  BY <1>0, <2>1, <2>2
  <1>2. UNCHANGED sess => Become(r, sess[r])
     BY SameSession
  <1>3. ASSUME Become(r, [sess[r] EXCEPT !.err = TRUE]), Goto(r, "closing") PROVE Books(r)'
    <2>. DEFINE s == [sess[r] EXCEPT !.err = TRUE]
    <2>1. /\ s.state = sess[r].state /\ s.tok = sess[r].tok /\ s.pre = sess[r].pre
          /\ s.src = sess[r].src /\ s.held = sess[r].held /\ s.extra = sess[r].extra
          /\ s.com = sess[r].com /\ s.err
       BY <1>0 DEF Sessions
    <2>2. Become(r, s)
       BY <1>3
    <2>. HIDE DEF s
    <2>. QED  BY <1>1, <1>3, <2>1, <2>2
  <1>4. ASSUME UNCHANGED sess, NEW l \in {"earn", "closing"}, Goto(r, l),
               l = "earn" => pc[r] = "publish"
        PROVE  Books(r)'
     BY <1>1, <1>2, <1>4
  <1>. QED  BY <1>3, <1>4 DEF MarkReady, SettleEarning, CancelEarning

\* The deferred refund, the normal end and a crash.
LEMMA ClosingBooks ==
    ASSUME IInv, AllBooks, NEW r \in Requests, Refund(r) \/ Finish(r) \/ Crash(r)
    PROVE  Books(r)'
  <1>0. /\ TypeOK /\ sess[r] \in Sessions /\ Books(r) /\ Ctl(r) /\ UNCHANGED money
        /\ sess[r].tok \in Nat /\ sess[r].held \in Nat /\ sess[r].extra \in Nat
        /\ UNCHANGED adj
     BY Before DEF Refund, Finish, Crash, tables
  <1>1. UNCHANGED sess => Become(r, sess[r])
     BY SameSession
  <1>2. CASE Crash(r)
    <2>0. UNCHANGED <<sess, refund, slip>> /\ Goto(r, "dead") /\ pc[r] # "done"
       BY <1>2 DEF Crash, tables
    <2>1. BooksAt(r, "dead", sess[r], refund[r], adj[r], Paid(r), PaidByToken(r), slip[r])
       BY <1>0 DEF Books, BooksAt, Shape, TokenAgrees, FundingAgrees, Early
    <2>. QED  BY <1>0, <1>1, <2>0, <2>1, AfterQuiet
  <1>3. ASSUME NEW l \in {"fee", "done"}, Goto(r, l), pc[r] = "closing",
               UNCHANGED <<sess, refund, slip>>, Refundable(sess[r]) => ~sess[r].err
        PROVE  Books(r)'
    <2>1. sess[r].state = "open" => sess[r].tok = 0 /\ sess[r].pre = 0
      <3>. SUFFICES ASSUME sess[r].state = "open" PROVE sess[r].tok = 0 /\ sess[r].pre = 0
         OBVIOUS
      <3>1. sess[r].tok = sess[r].pre /\ (sess[r].err \/ sess[r].src = "none")
         BY <1>0, <1>3 DEF Books, BooksAt, Shape
      <3>2. sess[r].src = "none" => sess[r].pre = 0
         BY Sourceless
      <3>3. ~Refundable(sess[r]) => sess[r].tok = 0
         BY <1>0 DEF Refundable
      <3>. QED  BY <1>3, <3>1, <3>2, <3>3
    <2>2. BooksAt(r, l, sess[r], refund[r], adj[r], Paid(r), PaidByToken(r), slip[r])
       BY <1>0, <1>3, <2>1 DEF Books, BooksAt, Shape, TokenAgrees, FundingAgrees, TopUp, Early,
          Reserving
    <2>. QED  BY <1>0, <1>1, <1>3, <2>2, AfterQuiet
  <1>4. ASSUME NEW l \in {"fee", "done"}, Goto(r, l), pc[r] = "closing",
               Refundable(sess[r]), Lost(r), UNCHANGED <<sess, refund>>
        PROVE  Books(r)'
    <2>1. Shape(r, l, sess[r], refund[r], adj[r])
       BY <1>0, <1>4 DEF Books, BooksAt, Shape
    <2>. QED  BY <1>0, <1>1, <1>4, <2>1, AfterLost
  <1>5. ASSUME NEW l \in {"fee", "done"}, Goto(r, l), pc[r] = "closing",
               Refundable(sess[r]), UNCHANGED slip,
               refund' = [refund EXCEPT ![r] = RefundRow(r)],
               Become(r, [sess[r] EXCEPT !.state = "refunded"])
        PROVE  Books(r)'
    <2>. DEFINE s == [sess[r] EXCEPT !.state = "refunded"]
    <2>0. sess[r].state = "open" /\ (sess[r].src = "none" => sess[r].tok = 0)
       BY <1>5, Sourceless DEF Refundable
    <2>1. sess[r].src \in Sources
       BY <1>0, <1>5, <2>0 DEF Refundable, Sessions
    <2>2. /\ s.state = "refunded" /\ s.tok = sess[r].tok /\ s.pre = sess[r].pre
          /\ s.src = sess[r].src
       BY <1>0 DEF Sessions
    <2>3. /\ sess'[r] = s /\ pc'[r] = l /\ PaidByToken(r)' = PaidByToken(r) /\ Paid(r)' = Paid(r)
          /\ refund'[r] = RefundRow(r) /\ adj'[r] = adj[r] /\ slip'[r] = slip[r]
       BY <1>0, <1>5, Moved DEF money, PaidByToken, Share, Paid, TypeOK
    <2>. HIDE DEF s
    <2>4. /\ RefundRow(r).status = "pending" /\ RefundRow(r).src = sess[r].src
          /\ RefundRow(r).fund + RefundRow(r).extra = Returned(sess[r])
          /\ RefundRow(r).token = Share(r, sess[r].tok)
       BY <1>0 DEF RefundRow, Returned, Share
    <2>5. /\ sess[r].tok = sess[r].pre /\ adj[r].status = "none"
          /\ ~slip[r] => PaidByToken(r) = Share(r, sess[r].tok) /\ Paid(r) = sess[r].pre
                         /\ Returned(sess[r]) = sess[r].pre
       BY <1>5, <2>0, OpenFacts, Before DEF TopUp, Reserving
    <2>6. BooksAt(r, l, s, RefundRow(r), adj[r], Paid(r), PaidByToken(r), slip[r])
       BY <2>1, <2>2, <2>4, <2>5 DEF BooksAt, Shape, TokenAgrees, FundingAgrees, Sources
    <2>. QED  BY <2>3, <2>6 DEF Books
  <1>6. CASE Refund(r)
    <2>. PICK l \in {"fee", "done"} : Goto(r, l)
       BY <1>6 DEF Refund
    <2>. QED  BY <1>3, <1>4, <1>5, <1>6 DEF Refund
  <1>7. CASE Finish(r)
     BY <1>3, <1>7 DEF Finish, tables
  <1>. QED  BY <1>2, <1>6, <1>7

\* The fee comes on top of the books.
LEMMA FeeBooks ==
    ASSUME IInv, AllBooks, NEW r \in Requests, NEW n \in Quotas[r], ChargeViolationFee(r, n)
    PROVE  Books(r)'
  <1>0. /\ TypeOK /\ Books(r) /\ pc[r] = "fee" /\ Goto(r, "done")
        /\ UNCHANGED <<sess, refund, adj, slip>>
     BY Before DEF ChargeViolationFee, tables
  <1>1. Paid(r)' = Paid(r) /\ PaidByToken(r)' = PaidByToken(r)
     BY <1>0, FeeFacts, SettleSourceFacts, QuotasAssumption
  <1>2. Become(r, sess[r])
     BY <1>0, SameSession
  <1>3. BooksAt(r, "done", sess[r], refund[r], adj[r], Paid(r), PaidByToken(r), slip[r])
     BY <1>0 DEF Books, BooksAt, Shape, TokenAgrees, FundingAgrees, TopUp, Early, Reserving
  <1>. QED  BY <1>0, <1>1, <1>2, <1>3, After

----------------------------------------------------------------------------
\* Recovery

\* The refund transaction returns what the row says.
LEMMA RefundBooks ==
    ASSUME IInv, AllBooks, NEW r \in Requests, ProcessBillingRefund(r)
    PROVE  Books(r)'
  <1>. PICK f : f = refund[r]
     OBVIOUS
  <1>0. /\ TypeOK /\ Books(r) /\ f.status = "pending" /\ sess[r].state = "refunded"
        /\ f.fund \in Nat /\ f.extra \in Nat /\ f.token \in Nat /\ f.src \in Sources
        /\ Paid(r) \in Int /\ PaidByToken(r) \in Int /\ UNCHANGED <<pc, sess, adj, fee, slip>>
        /\ f \in Refunds /\ fee[r] \in Nat
     BY Before DEF ProcessBillingRefund, RefundDue, TypeOK, Refunds, Ctl, Books, BooksAt, Shape
  <1>1. taken' = [taken EXCEPT ![r][f.src] = @ - f.fund - f.extra, ![r]["token"] = @ - f.token]
     BY DEF ProcessBillingRefund
  <1>2. Paid(r)' = Paid(r) - f.fund - f.extra /\ PaidByToken(r)' = PaidByToken(r) - f.token
    <2>1. taken[r] \in [Accounts -> Int] /\ f.src \in Accounts /\ f.src # "token"
       BY <1>0 DEF TypeOK, Accounts, Sources
    <2>2. /\ taken'[r]["token"] = taken[r]["token"] - f.token
          /\ taken'[r][f.src] = taken[r][f.src] - f.fund - f.extra
          /\ \A a \in Accounts \ {"token", f.src} : taken'[r][a] = taken[r][a]
       BY <1>0, <1>1, <2>1 DEF TypeOK, Accounts
    <2>. QED  BY <1>0, <2>1, <2>2 DEF Paid, PaidByToken, Share, Accounts, Sources
  <1>3. refund'[r].status = "complete" /\ refund'[r].src = f.src
     BY <1>0 DEF ProcessBillingRefund, TypeOK, Refunds
  <1>4. ~slip[r] => Paid(r)' = 0 /\ PaidByToken(r)' = 0
     BY <1>0, <1>2 DEF Books, BooksAt, TokenAgrees, FundingAgrees
  <1>5. BooksAt(r, pc[r], sess[r], refund'[r], adj[r], Paid(r)', PaidByToken(r)', slip[r])
     BY <1>0, <1>3, <1>4 DEF Books, BooksAt, Shape, TokenAgrees, FundingAgrees
  <1>. QED  BY <1>0, <1>5 DEF Books

\* The adjustment settles the token as the request would have.
LEMMA AdjustmentBooks ==
    ASSUME IInv, AllBooks, NEW r \in Requests, ProcessTokenAdjustment(r)
    PROVE  Books(r)'
  <1>0. /\ TypeOK /\ Books(r) /\ adj[r].status = "pending" /\ adj[r].delta \in Int
        /\ Paid(r) \in Int /\ PaidByToken(r) \in Int /\ UNCHANGED <<pc, sess, refund, slip>>
        /\ Apply(r, "token", adj[r].delta) /\ Ctl(r)
     BY Before DEF ProcessTokenAdjustment, TypeOK, Adjs
  <1>1. PaidByToken(r)' = PaidByToken(r) + adj[r].delta /\ Paid(r)' = Paid(r)
     BY <1>0, TokenMoves, TokenFacts
  <1>2. adj'[r].status = "complete"
     BY <1>0 DEF ProcessTokenAdjustment, TypeOK, Adjs
  <1>3. sess[r].state = "settled" /\ refund[r].status = "none"
     BY <1>0 DEF Books, BooksAt, Shape, Ctl
  <1>4. ~slip[r] => PaidByToken(r)' + 0 = Share(r, sess[r].com)
     BY <1>0, <1>1, <1>3 DEF Books, BooksAt, TokenAgrees, TypeOK
  <1>5. BooksAt(r, pc[r], sess[r], refund[r], adj'[r], Paid(r), PaidByToken(r)', slip[r])
     BY <1>0, <1>2, <1>3, <1>4 DEF Books, BooksAt, Shape, TokenAgrees, FundingAgrees
  <1>. QED  BY <1>0, <1>1, <1>5 DEF Books

\* Every step keeps the books.
LEMMA NextBooks == IInv /\ AllBooks /\ [Next]_vars => AllBooks'
  <1>. SUFFICES ASSUME IInv, AllBooks, [Next]_vars, NEW q \in Requests PROVE Books(q)'
     BY DEF AllBooks
  <1>1. UNCHANGED <<pc, sess, refund, adj, taken, fee, slip>> => Books(q)'
     BY DEF AllBooks, Books, Paid, PaidByToken, Share
  <1>2. ASSUME NEW r \in Requests, Step(r) \/ Recover(r) \/ Crash(r) PROVE Books(q)'
    <2>1. CASE q = r
      <3>1. CASE RecoverReadyEarning(r)
         BY <1>1, <3>1 DEF RecoverReadyEarning
      <3>2. CASE Step(r)
         BY <2>1, <3>2, ChooseBooks, TokenBooks, FundingBooks, ReserveFundingBooks,
            ReserveTokenBooks, RollbackBooks, UpstreamBooks, SettleBooks, SettleTokenBooks,
            EarningBooks, ClosingBooks, FeeBooks DEF Step
      <3>. QED  BY <1>2, <2>1, <3>1, <3>2, RefundBooks, AdjustmentBooks, ClosingBooks DEF Recover
    <2>2. CASE q # r
      <3>1. /\ pc'[q] = pc[q] /\ slip'[q] = slip[q] /\ sess'[q] = sess[q]
            /\ refund'[q] = refund[q] /\ adj'[q] = adj[q] /\ taken'[q] = taken[q]
            /\ fee'[q] = fee[q]
         BY <1>2, <2>2, NextApart, StepFrame, RecoverFrame DEF Frame
      <3>2. Books(q)
         BY DEF AllBooks
      <3>. QED  BY <3>1, <3>2 DEF Books, Paid, PaidByToken, Share
    <2>. QED  BY <2>1, <2>2
  <1>3. CASE ResetSubscription \/ UNCHANGED vars
     BY <1>1, <1>3 DEF ResetSubscription, vars
  <1>. QED  BY <1>2, <1>3 DEF Next

\* AccountsAgree for every instance: when a request is over, the funding
\* source and the token were charged the same committed quota or nothing,
\* however pre-charge, top-up, settlement, refund and recovery interleaved.
THEOREM AccountsDoAgree == Spec => []AccountsAgree
  <1>1. Init => AllBooks
    <2>. SUFFICES ASSUME Init, NEW r \in Requests PROVE Books(r)
       BY DEF AllBooks
    <2>1. /\ pc[r] = "idle" /\ sess[r] = NoSession /\ refund[r] = NoRefund /\ adj[r] = NoAdj
          /\ PaidByToken(r) = 0
       BY DEF Init, PaidByToken, Share, Accounts
    <2>. QED  BY <2>1 DEF Books, BooksAt, Shape, TokenAgrees, FundingAgrees, NoSession, NoRefund,
                 NoAdj, Share, Early
  <1>2. IInv /\ AllBooks => AccountsAgree
    <2>. SUFFICES ASSUME IInv, AllBooks, NEW r \in Requests, pc[r] = "done", ~slip[r],
                         refund[r].status # "pending"
                  PROVE  /\ Paid(r) = Cost(r)
                         /\ adj[r].status # "pending" => PaidByToken(r) = Share(r, Cost(r))
      <3>1. ASSUME IInv, NEW r \in Requests
            PROVE  /\ taken[r]["wallet"] \in Int /\ taken[r]["subscription"] \in Int
                   /\ taken[r]["token"] \in Int /\ fee[r] \in Nat /\ Cost(r) \in Nat
         BY <3>1, SessionOf DEF IInv, TypeOK, Accounts, Sources, Cost
      <3>2. ASSUME IInv, NEW r \in Requests,
                   /\ Paid(r) = Cost(r)
                   /\ adj[r].status # "pending" => PaidByToken(r) = Share(r, Cost(r))
            PROVE  /\ taken[r]["wallet"] + taken[r]["subscription"] = Cost(r) + fee[r]
                   /\ adj[r].status # "pending" =>
                         taken[r]["token"] = Share(r, Cost(r)) + Share(r, fee[r])
        <4>1. /\ taken[r]["wallet"] \in Int /\ taken[r]["subscription"] \in Int
              /\ taken[r]["token"] \in Int /\ fee[r] \in Nat /\ Cost(r) \in Nat
           BY <3>1, <3>2
        <4>2. taken[r]["wallet"] + taken[r]["subscription"] = Cost(r) + fee[r]
           BY <3>2, <4>1 DEF Paid
        <4>3. adj[r].status # "pending" =>
                 taken[r]["token"] = Share(r, Cost(r)) + Share(r, fee[r])
           BY <3>2, <4>1 DEF PaidByToken, Share
        <4>. QED  BY <4>2, <4>3
      <3>. QED  BY <3>2 DEF AccountsAgree
    <2>1. Ctl(r) /\ Funds(r) /\ Books(r) /\ sess[r].state \in States /\ PaidByToken(r) \in Int
       BY Before DEF Sessions
    <2>2. CASE Committed(r)
      <3>1. Paid(r) = sess[r].com
         BY <2>1, <2>2 DEF Funds, PaidFor
      <3>2. sess[r].state # "funded"
         BY <2>1 DEF Books, BooksAt, Shape
      <3>. QED  BY <2>1, <2>2, <3>1, <3>2 DEF Committed, Cost, Books, BooksAt, TokenAgrees
    <2>3. CASE sess[r].state = "open"
       BY <2>1, <2>3 DEF Committed, Cost, Books, BooksAt, TokenAgrees, FundingAgrees, Share, Shape
    <2>4. CASE sess[r].state = "refunded"
       BY <2>1, <2>4 DEF Committed, Cost, Books, BooksAt, TokenAgrees, FundingAgrees, Share, Ctl,
          IInv, TypeOK, Refunds
    <2>. QED  BY <2>1, <2>2, <2>3, <2>4 DEF States, Committed
  <1>. QED  BY <1>1, <1>2, NextBooks, InductiveInvariant, PTL DEF Spec
============================================================================
