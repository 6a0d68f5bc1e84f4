----------------------- MODULE TaskSettlement_proofs -----------------------
(***************************************************************************)
(* Asynchronous billing for any number of tasks, workers and amounts.      *)
(*                                                                         *)
(* The inductive invariant has two halves.  Good(t) relates the row of a   *)
(* task to its settlement, refund and earning rows and to what the user    *)
(* has paid; Fits(w) relates what a worker holds in memory to the rows of  *)
(* the task it works on.  A worker acts on a copy that is out of date by   *)
(* then, so every step must also leave the copies of the other workers of  *)
(* that task fitting: Stable(t) is what all steps guarantee them.          *)
(***************************************************************************)
EXTENDS TaskSettlement, TLAPS

\* The rows of a task that no status query has revived.
Ordered(t) ==
    /\ stl[t].status # "none" <=> row[t].st = "success"
    /\ rfd[t].status # "none" => row[t].st \in {"gone", "failure"}
    /\ row[t].st = "failure" => rfd[t].status # "none" \/ row[t].kind = "legacy"
    /\ row[t].st = "new" => paid[t] = 0
    /\ row[t].st \in {"charged"} \cup Unfinished => row[t].quota > 0
    /\ row[t].st \in {"charged", "gone"} \cup Unfinished => paid[t] = row[t].quota
    /\ stl[t].status = "pending" => paid[t] = row[t].quota
    /\ stl[t].status = "complete" => paid[t] = stl[t].act /\ row[t].quota = stl[t].act
    /\ rfd[t].status = "pending" => paid[t] = rfd[t].amount /\ paid[t] = row[t].quota
    /\ rfd[t].status = "complete" => paid[t] = 0 /\ row[t].quota = 0
    /\ Payable(t) => /\ stl[t].status = "complete" /\ stl[t].marked
                     /\ earn[t].gross = stl[t].act

Good(t) ==
    /\ row[t].st = "new" => earn[t].status = "none"
    /\ row[t].st \in {"new", "charged"} => stl[t].status = "none" /\ rfd[t].status = "none"
    /\ row[t].st \in {"new", "charged", "gone"} => ~revived[t].yes
    /\ stl[t].status = "none" => stl[t] = NoStl
    /\ rfd[t].status = "complete" => earn[t].status \in {"none", "cancelled"}
    /\ ~revived[t].yes => Ordered(t)

\* What the memory of worker w says of task t.
Fits(w) ==
    LET t == work[w].task
    IN  /\ ~At(w, "idle") => row[t].st \notin {"new", "charged"}
        /\ At(w, "commit") => work[w].st \in Unfinished
        /\ At(w, "display") => work[w].st \in Unfinished \cup Terminal
        /\ work[w].pc \in {"commit", "display"} /\ work[w].st \in Unfinished
              /\ row[t].st \in Unfinished /\ ~revived[t].yes
              => work[w].quota = row[t].quota
        /\ At(w, "settle") => stl[t].status # "none"
        /\ work[w].pc \in {"mark", "ready", "earn", "release"} => stl[t].status = "complete"
        /\ work[w].pc \in {"mark", "ready", "earn"} => work[w].quota = stl[t].act
        /\ work[w].pc \in {"ready", "earn"} => stl[t].marked
        /\ At(w, "refund") /\ rfd[t].status = "none" =>
              row[t].st = "gone" /\ work[w].quota = row[t].quota
        /\ At(w, "process") => rfd[t].status # "none"
        /\ At(w, "cancel") /\ ~revived[t].yes => rfd[t].status = "complete"

IInv ==
    /\ TypeOK
    /\ \A t \in Tasks : Good(t)
    /\ \A w \in Workers : Fits(w)

----------------------------------------------------------------------------
\* The proof obligation of a step is about one task and one worker

\* A step leaves the rows of every task but t alone.
Frame(t) ==
    \A u \in Tasks \ {t} :
       /\ row'[u] = row[u] /\ stl'[u] = stl[u] /\ rfd'[u] = rfd[u]
       /\ earn'[u] = earn[u] /\ paid'[u] = paid[u] /\ revived'[u] = revived[u]

\* What a step may do to the rows of t under the other workers of t.
Stable(t) ==
    /\ row[t].st \notin {"new", "charged"} => row'[t].st \notin {"new", "charged"}
    /\ revived[t].yes => revived'[t] = revived[t]
    /\ revived'[t].yes /\ ~revived[t].yes => revived'[t] = View(t)
    /\ row[t].st \notin {"new", "charged"} /\ row'[t].st \in Unfinished
          /\ ~revived'[t].yes
          => row[t].st \in Unfinished /\ row'[t].quota = row[t].quota
    /\ stl[t].status # "none" => stl'[t].status # "none" /\ stl'[t].act = stl[t].act
    /\ stl[t].status = "complete" => stl'[t].status = "complete"
    /\ stl[t].marked => stl'[t].marked
    /\ stl[t].status = "none" => stl'[t].status # "complete"
    /\ Payable(t) /\ ~revived'[t].yes => Payable(t)'
    /\ rfd[t].status # "none" => rfd'[t].status # "none"
    /\ rfd[t].status = "complete" => rfd'[t].status = "complete"
    /\ row[t].st = "gone" /\ rfd'[t].status = "none" =>
          row'[t].st = "gone" /\ row'[t].quota = row[t].quota

\* What is proved of every step.
Kept == IInv' /\ \E t \in Tasks : Frame(t) /\ Stable(t)

\* A worker whose memory is untouched still fits after a stable step.
LEMMA StillFits ==
    ASSUME TypeOK, NEW w \in Workers, Fits(w), Stable(work[w].task), work'[w] = work[w]
    PROVE  Fits(w)'
  <1>. DEFINE t == work[w].task
  <1>1. /\ work'[w].task = t /\ work'[w].pc = work[w].pc
        /\ work'[w].st = work[w].st /\ work'[w].quota = work[w].quota
     OBVIOUS
  <1>2. /\ stl[t].status \in {"none", "pending", "complete"}
        /\ work[w].st \in Statuses
     BY DEF TypeOK, Stls, Works
  <1>. HIDE DEF t
  <1>. QED  BY <1>1, <1>2 DEF Fits, Stable, At, t

\* A step about one task keeps the invariant when it keeps it for that task.
LEMMA OneTask ==
    ASSUME IInv, TypeOK', NEW t \in Tasks, Frame(t), Good(t)', Stable(t),
           \A w \in Workers : work'[w] = work[w] \/ Fits(w)'
    PROVE  Kept
  <1>1. ASSUME NEW u \in Tasks PROVE Good(u)'
    <2>1. CASE u = t  BY <2>1
    <2>2. CASE u # t
      <3>1. /\ row'[u] = row[u] /\ stl'[u] = stl[u] /\ rfd'[u] = rfd[u]
            /\ earn'[u] = earn[u] /\ paid'[u] = paid[u] /\ revived'[u] = revived[u]
         BY <2>2 DEF Frame
      <3>2. Good(u)
         BY DEF IInv
      <3>. QED  BY <3>1, <3>2 DEF Good, Ordered, Payable
    <2>. QED  BY <2>1, <2>2
  <1>2. ASSUME NEW w \in Workers PROVE Fits(w)'
    <2>1. Stable(work[w].task)
      <3>1. work[w].task \in Tasks
         BY DEF IInv, TypeOK, Works
      <3>2. ASSUME NEW u \in Tasks \ {t} PROVE Stable(u)
        <4>1. /\ row'[u] = row[u] /\ stl'[u] = stl[u] /\ rfd'[u] = rfd[u]
              /\ earn'[u] = earn[u] /\ revived'[u] = revived[u]
           BY DEF Frame
        <4>. QED  BY <4>1 DEF Stable, Payable
      <3>. QED  BY <3>1, <3>2
    <2>. QED  BY <2>1, StillFits DEF IInv
  <1>. QED  BY <1>1, <1>2 DEF IInv, Kept

----------------------------------------------------------------------------
\* The pieces the actions are made of

RowType == [st : Statuses, quota : Nat, kind : Kinds]

\* A worker and the rows of its task, as the actions read them.
LEMMA Reads ==
    ASSUME IInv, NEW w \in Workers
    PROVE  /\ work[w] \in Works /\ work[w].task \in Tasks /\ work[w].quota \in Nat
           /\ work[w].st \in Statuses /\ work[w].pc \in PCs
           /\ Fits(w) /\ Good(work[w].task)
  <1>1. work[w] \in Works
     BY DEF IInv, TypeOK
  <1>2. work[w].task \in Tasks /\ work[w].quota \in Nat /\ work[w].st \in Statuses
        /\ work[w].pc \in PCs
     BY <1>1 DEF Works
  <1>. QED  BY <1>1, <1>2 DEF IInv

\* The rows of a task have their types.
LEMMA TaskReads ==
    ASSUME TypeOK, NEW t \in Tasks
    PROVE  /\ row[t] \in RowType /\ row[t].quota \in Nat /\ row[t].st \in Statuses
           /\ stl[t] \in Stls /\ stl[t].pre \in Nat /\ stl[t].act \in Nat
           /\ stl[t].status \in {"none", "pending", "complete"}
           /\ rfd[t] \in Rfds /\ rfd[t].amount \in Nat
           /\ rfd[t].status \in {"none", "pending", "complete"}
           /\ earn[t] \in Earns /\ earn[t].gross \in Nat
           /\ earn[t].status \in {"none", "pending", "settled", "cancelled"}
           /\ paid[t] \in Int /\ up[t].cost \in Nat
  <1>1. /\ row[t] \in RowType /\ stl[t] \in Stls /\ rfd[t] \in Rfds /\ earn[t] \in Earns
        /\ paid[t] \in Int /\ up[t] \in [st : Unfinished \cup Terminal, cost : Nat]
     BY DEF TypeOK, RowType
  <1>. QED  BY <1>1 DEF RowType, Stls, Rfds, Earns

\* A worker that stops or never started fits whatever the rows are.
LEMMA IdleFits ==
    ASSUME NEW w, work'[w].pc = "idle"
    PROVE  Fits(w)'
  BY DEF Fits, At

\* A worker that ends its turn.
LEMMA StopFacts ==
    ASSUME TypeOK, NEW w \in Workers, Stop(w)
    PROVE  /\ work' \in [Workers -> Works]
           /\ \A v \in Workers : work'[v] = work[v] \/ Fits(v)'
  <1>1. AtRest \in Works /\ AtRest.pc = "idle"
     BY TaskAssumption DEF AtRest, Works, PCs, Statuses
  <1>2. work'[w] = AtRest /\ \A v \in Workers \ {w} : work'[v] = work[v]
     BY DEF Stop, TypeOK
  <1>. QED  BY <1>1, <1>2, IdleFits DEF Stop, TypeOK

\* A worker that goes on with the same copy.
LEMMA GotoFacts ==
    ASSUME TypeOK, NEW w \in Workers, NEW p \in PCs, Goto(w, p)
    PROVE  /\ work' \in [Workers -> Works]
           /\ \A v \in Workers \ {w} : work'[v] = work[v]
           /\ work'[w].pc = p /\ work'[w].task = work[w].task
           /\ work'[w].st = work[w].st /\ work'[w].quota = work[w].quota
  <1>1. work[w] \in Works
     BY DEF TypeOK
  <1>2. /\ [work[w] EXCEPT !.pc = p] \in Works
        /\ [work[w] EXCEPT !.pc = p].pc = p
        /\ [work[w] EXCEPT !.pc = p].task = work[w].task
        /\ [work[w] EXCEPT !.pc = p].st = work[w].st
        /\ [work[w] EXCEPT !.pc = p].quota = work[w].quota
     BY <1>1 DEF Works
  <1>3. work' = [work EXCEPT ![w] = [work[w] EXCEPT !.pc = p]]
     BY DEF Goto
  <1>. QED  BY <1>2, <1>3 DEF TypeOK

\* A worker that starts on a task with a fresh copy.
LEMMA TakeFacts ==
    ASSUME TypeOK, NEW w \in Workers, NEW t \in Tasks, NEW p \in PCs, Take(w, t, p)
    PROVE  /\ work' \in [Workers -> Works]
           /\ \A v \in Workers \ {w} : work'[v] = work[v]
           /\ work'[w].pc = p /\ work'[w].task = t
           /\ work'[w].st = row[t].st /\ work'[w].quota = row[t].quota
  <1>. DEFINE x == [pc |-> p, task |-> t, st |-> row[t].st, quota |-> row[t].quota]
  <1>1. x \in Works /\ work' = [work EXCEPT ![w] = x]
     BY TaskReads DEF Take, Works
  <1>2. x.pc = p /\ x.task = t /\ x.st = row[t].st /\ x.quota = row[t].quota
     OBVIOUS
  <1>. HIDE DEF x
  <1>. QED  BY <1>1, <1>2 DEF TypeOK

\* The row as a worker's compare-and-set writes it.
LEMMA WrittenFacts ==
    ASSUME IInv, NEW w \in Workers, NEW s \in Statuses, NEW q \in Nat,
           row' = Written(w, s, q)
    PROVE  LET t == work[w].task
           IN  /\ row' \in [Tasks -> RowType]
               /\ \A u \in Tasks \ {t} : row'[u] = row[u]
               /\ row'[t].st = s /\ row'[t].quota = q /\ row'[t].kind = row[t].kind
  <1>. DEFINE t == work[w].task
              x == [row[t] EXCEPT !.st = s, !.quota = q]
  <1>0. t \in Tasks /\ row[t] \in RowType
     BY Reads, TaskReads DEF IInv
  <1>1. x \in RowType /\ x.st = s /\ x.quota = q /\ x.kind = row[t].kind
     BY <1>0 DEF RowType
  <1>2. row' = [row EXCEPT ![t] = x]
     BY <1>0 DEF Written, IInv, TypeOK, RowType
  <1>. HIDE DEF x, t
  <1>3. row \in [Tasks -> RowType]
     BY DEF IInv, TypeOK, RowType
  <1>. QED  BY <1>0, <1>1, <1>2, <1>3 DEF t

\* Money moves between the user and one task.
LEMMA MoveFacts ==
    ASSUME TypeOK, NEW t \in Tasks, NEW n \in Int, Move(t, n)
    PROVE  /\ funds' = funds - n /\ paid' \in [Tasks -> Int]
           /\ paid'[t] = paid[t] + n
           /\ \A u \in Tasks \ {t} : paid'[u] = paid[u]
  BY DEF Move, TypeOK

\* A bound that is used up stays a natural number.
LEMMA SpendFacts ==
    ASSUME TypeOK, NEW k \in {"aborts", "referrals", "spends", "visits"}, Spend(k)
    PROVE  left' \in BudgetType
  BY DEF Spend, TypeOK, BudgetType

----------------------------------------------------------------------------
\* Submission, the upstream and the other spenders

\* A step that changes no row of any task.
LEMMA QuietStep ==
    ASSUME IInv, TypeOK', UNCHANGED <<row, tables, paid, revived>>,
           \A w \in Workers : work'[w] = work[w] \/ Fits(w)'
    PROVE  Kept
  <1>1. PICK t \in Tasks : TRUE
     BY TaskAssumption
  <1>. QED  BY <1>1, OneTask DEF Frame, Stable, Payable, Good, Ordered, Payable, IInv, tables

\* The referral provider is enabled or disabled.
LEMMA ReferralStep ==
    ASSUME IInv, ReferralChanges
    PROVE  Kept
  <1>1. TypeOK'
     BY SpendFacts DEF ReferralChanges, IInv, TypeOK, tables, money
  <1>. QED  BY <1>1, QuietStep DEF ReferralChanges, money

\* The user's other requests spend.
LEMMA OthersStep ==
    ASSUME IInv, NEW n \in Quotas, OthersSpend(n)
    PROVE  Kept
  <1>1. left' \in BudgetType /\ funds' \in Nat
     BY SpendFacts, QuotaAssumption DEF OthersSpend, IInv, TypeOK
  <1>2. TypeOK'
     BY <1>1 DEF OthersSpend, IInv, TypeOK, tables
  <1>. QED  BY <1>2, QuietStep DEF OthersSpend

\* The upstream goes on with a task.
LEMMA UpstreamStep ==
    ASSUME IInv, NEW t \in Tasks, UpstreamMoves(t)
    PROVE  Kept
  <1>. DEFINE Ups == [st : Unfinished \cup Terminal, cost : Nat]
  <1>1. up \in [Tasks -> Ups] /\ up[t] \in Ups
     BY DEF IInv, TypeOK
  <1>2. /\ [up[t] EXCEPT !.st = "running"] \in Ups
        /\ [up[t] EXCEPT !.st = "failure"] \in Ups
        /\ \A c \in Quotas \cup {0} : [st |-> "success", cost |-> c] \in Ups
     BY <1>1, QuotaAssumption DEF Unfinished, Terminal
  <1>3. PICK x \in Ups : up' = [up EXCEPT ![t] = x]
     BY <1>2 DEF UpstreamMoves
  <1>4. up' \in [Tasks -> Ups]
     BY <1>1, <1>3
  <1>5. TypeOK'
     BY <1>4 DEF UpstreamMoves, IInv, TypeOK, tables, money, rest
  <1>. QED  BY <1>5, QuietStep DEF UpstreamMoves, money, rest

\* The charge of a new task: nothing is decided yet.
LEMMA SubmitChargeStep ==
    ASSUME IInv, NEW t \in Tasks, SubmitCharge(t)
    PROVE  Kept
  <1>1. PICK q \in Quotas, k \in Kinds :
          /\ q <= funds
          /\ Move(t, q)
          /\ row' = [row EXCEPT ![t] = [st |-> "charged", quota |-> q, kind |-> k]]
          /\ earn' = IF k = "supply"
                     THEN [earn EXCEPT ![t] = [status |-> "pending", deferred |-> TRUE,
                                               gross |-> q, split |-> ref]]
                     ELSE earn
     BY DEF SubmitCharge
  <1>. USE QuotaAssumption
  <1>2. row[t].st = "new" /\ UNCHANGED <<up, work, stl, rfd, ref, rest>>
     BY DEF SubmitCharge
  <1>3. /\ row' \in [Tasks -> RowType] /\ row'[t].st = "charged" /\ row'[t].quota = q
        /\ \A u \in Tasks \ {t} : row'[u] = row[u]
     BY <1>1 DEF IInv, TypeOK, RowType, Statuses
  <1>4. /\ earn' \in [Tasks -> Earns] /\ \A u \in Tasks \ {t} : earn'[u] = earn[u]
        /\ earn'[t].status \in {"none", "pending", "settled", "cancelled"}
        /\ ~Payable(t) /\ ~Payable(t)'
    <2>1. Good(t) /\ earn[t].status = "none"
       BY <1>2 DEF IInv, Good
    <2>. QED  BY <1>1, <2>1 DEF IInv, TypeOK, Earns, Payable
  <1>5. /\ funds' \in Nat /\ paid' \in [Tasks -> Int] /\ paid'[t] = paid[t] + q
        /\ \A u \in Tasks \ {t} : paid'[u] = paid[u]
     BY <1>1, MoveFacts DEF IInv, TypeOK
  <1>6. TypeOK'
     BY <1>2, <1>3, <1>4, <1>5 DEF IInv, TypeOK, RowType, rest
  <1>7. Frame(t) /\ Stable(t)
     BY <1>2, <1>3, <1>4, <1>5 DEF Frame, Stable, rest, Unfinished
  <1>8. Good(t)'
    <2>1. Good(t) /\ stl[t].status = "none" /\ rfd[t].status = "none" /\ ~revived[t].yes
       BY <1>2 DEF IInv, Good
    <2>2. ~revived[t].yes => paid[t] = 0
       BY <1>2 DEF IInv, Good, Ordered
    <2>3. /\ stl'[t] = stl[t] /\ rfd'[t] = rfd[t] /\ revived'[t] = revived[t]
          /\ q \in Nat /\ q > 0
       BY <1>2 DEF rest
    <2>. QED  BY <1>3, <1>4, <1>5, <2>1, <2>2, <2>3 DEF Good, Ordered, Unfinished
  <1>. QED  BY <1>2, <1>6, <1>7, <1>8, OneTask

\* The charged task is inserted.
LEMMA InsertStep ==
    ASSUME IInv, NEW t \in Tasks, Insert(t)
    PROVE  Kept
  <1>1. row[t].st = "charged" /\ UNCHANGED <<up, work, tables, ref, money, rest>>
     BY DEF Insert
  <1>2. /\ row' \in [Tasks -> RowType] /\ \A u \in Tasks \ {t} : row'[u] = row[u]
        /\ row'[t].st = "queued" /\ row'[t].quota = row[t].quota
    <2>1. row[t] \in RowType /\ row \in [Tasks -> RowType]
       BY DEF IInv, TypeOK, RowType
    <2>2. /\ [row[t] EXCEPT !.st = "queued"] \in RowType
          /\ [row[t] EXCEPT !.st = "queued"].st = "queued"
          /\ [row[t] EXCEPT !.st = "queued"].quota = row[t].quota
       BY <2>1 DEF RowType, Statuses, Unfinished
    <2>3. row' = [row EXCEPT ![t] = [row[t] EXCEPT !.st = "queued"]]
       BY DEF Insert
    <2>. QED  BY <2>1, <2>2, <2>3
  <1>3. TypeOK'
     BY <1>1, <1>2 DEF IInv, TypeOK, RowType, tables, money, rest
  <1>4. Frame(t) /\ Stable(t)
     BY <1>1, <1>2 DEF Frame, Stable, Payable, tables, money, rest
  <1>5. Good(t)'
    <2>1. Good(t) /\ /\ stl'[t] = stl[t] /\ rfd'[t] = rfd[t] /\ earn'[t] = earn[t]
                     /\ paid'[t] = paid[t] /\ revived'[t] = revived[t]
       BY <1>1 DEF IInv, tables, money, rest
    <2>. QED  BY <1>1, <1>2, <2>1 DEF Good, Ordered, Payable, Unfinished
  <1>. QED  BY <1>1, <1>3, <1>4, <1>5, OneTask

\* The insert fails: the row is gone and the request's goroutine refunds.
LEMMA InsertFailsStep ==
    ASSUME IInv, NEW t \in Tasks, NEW w \in Workers, InsertFails(t, w)
    PROVE  Kept
  <1>1. row[t].st = "charged" /\ UNCHANGED <<up, tables, ref, money, rest>>
     BY DEF InsertFails
  <1>2. /\ row' \in [Tasks -> RowType] /\ \A u \in Tasks \ {t} : row'[u] = row[u]
        /\ row'[t].st = "gone" /\ row'[t].quota = row[t].quota
    <2>1. row[t] \in RowType /\ row \in [Tasks -> RowType]
       BY DEF IInv, TypeOK, RowType
    <2>2. /\ [row[t] EXCEPT !.st = "gone"] \in RowType
          /\ [row[t] EXCEPT !.st = "gone"].st = "gone"
          /\ [row[t] EXCEPT !.st = "gone"].quota = row[t].quota
       BY <2>1 DEF RowType, Statuses
    <2>3. row' = [row EXCEPT ![t] = [row[t] EXCEPT !.st = "gone"]]
       BY DEF InsertFails
    <2>. QED  BY <2>1, <2>2, <2>3
  <1>3. /\ work' \in [Workers -> Works] /\ \A v \in Workers \ {w} : work'[v] = work[v]
        /\ work'[w].pc = "refund" /\ work'[w].task = t /\ work'[w].quota = row[t].quota
     BY TakeFacts DEF InsertFails, IInv, PCs
  <1>4. TypeOK'
     BY <1>1, <1>2, <1>3 DEF IInv, TypeOK, RowType, tables, money, rest
  <1>5. Frame(t) /\ Stable(t)
     BY <1>1, <1>2 DEF Frame, Stable, Payable, tables, money, rest, Unfinished
  <1>6. Good(t)'
    <2>1. Good(t) /\ /\ stl'[t] = stl[t] /\ rfd'[t] = rfd[t] /\ earn'[t] = earn[t]
                     /\ paid'[t] = paid[t] /\ revived'[t] = revived[t]
       BY <1>1 DEF IInv, tables, money, rest
    <2>. QED  BY <1>1, <1>2, <2>1 DEF Good, Ordered, Payable, Unfinished
  <1>7. Fits(w)'
     BY <1>2, <1>3 DEF Fits, At
  <1>. QED  BY <1>3, <1>4, <1>5, <1>6, <1>7, OneTask

----------------------------------------------------------------------------
\* Workers that take a task or let go of one

\* A pass, a recovery or a status query reads its task.
LEMMA TakeStep ==
    ASSUME IInv, NEW t \in Tasks, NEW w \in Workers,
           ReadUnfinished(w, t) \/ RecoverRefund(w, t) \/ Visit(w, t)
    PROVE  Kept
  <1>1. PICK p \in {"commit", "process", "display"} :
          /\ Take(w, t, p)
          /\ p = "commit" => row[t].st \in Unfinished
          /\ p = "display" => row[t].st \in Unfinished \cup Terminal
          /\ p = "process" => rfd[t].status = "pending"
     BY DEF ReadUnfinished, RecoverRefund, Visit
  <1>2. UNCHANGED <<row, up, tables, ref, money, revived>> /\ left' \in BudgetType
     BY SpendFacts DEF ReadUnfinished, RecoverRefund, Visit, rest, IInv, TypeOK
  <1>3. /\ work' \in [Workers -> Works] /\ \A v \in Workers \ {w} : work'[v] = work[v]
        /\ work'[w].pc = p /\ work'[w].task = t
        /\ work'[w].st = row[t].st /\ work'[w].quota = row[t].quota
     BY <1>1, TakeFacts DEF IInv, PCs
  <1>4. TypeOK'
     BY <1>2, <1>3 DEF IInv, TypeOK, tables, money
  <1>5. row[t].st \notin {"new", "charged"}
     BY <1>1 DEF IInv, Good, Ordered, Unfinished, Terminal
  <1>6. Fits(w)'
     BY <1>1, <1>2, <1>3, <1>5 DEF Fits, At, tables
  <1>. QED  BY <1>2, <1>3, <1>4, <1>6, QuietStep DEF money

\* A recovery pass takes a settlement where it was left.
LEMMA RecoverSettlementStep ==
    ASSUME IInv, NEW t \in Tasks, NEW w \in Workers, RecoverSettlement(w, t)
    PROVE  Kept
  <1>. DEFINE p == IF stl[t].status = "pending" THEN "settle"
                   ELSE IF stl[t].marked THEN "ready" ELSE "mark"
              x == [pc |-> p, task |-> t, st |-> row[t].st, quota |-> stl[t].act]
  <1>1. UNCHANGED <<row, up, tables, ref, money, rest>> /\ work' = [work EXCEPT ![w] = x]
     BY DEF RecoverSettlement
  <1>2. stl[t].status = "pending" \/ stl[t].status = "complete"
     BY DEF RecoverSettlement, Recoverable
  <1>3. x \in Works /\ x.pc = p /\ x.task = t /\ x.quota = stl[t].act
     BY TaskReads DEF Works, PCs, IInv
  <1>4. /\ p \in {"settle", "mark", "ready"}
        /\ p = "settle" \/ stl[t].status = "complete"
        /\ p = "ready" => stl[t].marked
     BY <1>2
  <1>. HIDE DEF p, x
  <1>5. /\ work' \in [Workers -> Works] /\ \A v \in Workers \ {w} : work'[v] = work[v]
        /\ work'[w] = x
     BY <1>1, <1>3 DEF IInv, TypeOK
  <1>6. TypeOK'
     BY <1>1, <1>5 DEF IInv, TypeOK, tables, money, rest
  <1>7. row[t].st \notin {"new", "charged"}
     BY <1>2 DEF IInv, Good, Ordered
  <1>8. Fits(w)'
     BY <1>1, <1>2, <1>3, <1>4, <1>5, <1>7 DEF Fits, At, tables
  <1>. QED  BY <1>1, <1>5, <1>6, <1>8, QuietStep DEF money, rest

\* A worker loses the compare-and-set, fails or crashes.
LEMMA LetGoStep ==
    ASSUME IInv, NEW w \in Workers, Abort(w) \/ CasLost(w)
    PROVE  Kept
  <1>1. Stop(w) /\ UNCHANGED <<row, up, tables, ref, money, revived>> /\ left' \in BudgetType
     BY SpendFacts DEF Abort, CasLost, rest, IInv, TypeOK
  <1>2. /\ work' \in [Workers -> Works]
        /\ \A v \in Workers : work'[v] = work[v] \/ Fits(v)'
     BY <1>1, StopFacts DEF IInv
  <1>3. TypeOK'
     BY <1>1, <1>2 DEF IInv, TypeOK, tables, money
  <1>. QED  BY <1>1, <1>2, <1>3, QuietStep DEF money

----------------------------------------------------------------------------
\* Commits of a pass

\* What a worker knows when its compare-and-set succeeds: the row is as it read
\* it, and unless the task was revived nothing has been decided.
LEMMA CommitReads ==
    ASSUME IInv, NEW w \in Workers, At(w, "commit"), Unmoved(w)
    PROVE  LET t == work[w].task
           IN  /\ row[t].st \in Unfinished /\ row[t].st = work[w].st
               /\ ~revived[t].yes =>
                    /\ work[w].quota = row[t].quota /\ row[t].quota > 0
                    /\ paid[t] = row[t].quota
                    /\ stl[t].status = "none" /\ rfd[t].status = "none" /\ ~Payable(t)
  <1>. DEFINE t == work[w].task
  <1>1. /\ t \in Tasks /\ Fits(w) /\ Good(t)
        /\ stl[t].status \in {"none", "pending", "complete"}
        /\ rfd[t].status \in {"none", "pending", "complete"}
     BY Reads, TaskReads DEF IInv
  <1>2. row[t].st \in Unfinished /\ row[t].st = work[w].st
     BY <1>1 DEF Fits, Unmoved
  <1>3. ASSUME ~revived[t].yes
        PROVE  /\ work[w].quota = row[t].quota /\ row[t].quota > 0
               /\ paid[t] = row[t].quota
               /\ stl[t].status = "none" /\ rfd[t].status = "none" /\ ~Payable(t)
    <2>1. Ordered(t)
       BY <1>1, <1>3 DEF Good
    <2>2. work[w].quota = row[t].quota
       BY <1>1, <1>2, <1>3 DEF Fits, At
    <2>. QED  BY <1>1, <1>2, <2>1, <2>2 DEF Ordered, Unfinished
  <1>. QED  BY <1>2, <1>3

\* What the settlement row of a success is.
LEMMA StlForFacts ==
    ASSUME TypeOK, NEW t \in Tasks, NEW q \in Nat, StlMatches(t, q)
    PROVE  /\ StlFor(t, q) \in Stls /\ StlFor(t, q).act = ActualQuota(t, q)
           /\ ActualQuota(t, q) \in Nat
           /\ StlFor(t, q).status # "none"
           /\ stl[t].status = "none" => StlFor(t, q).status = "pending"
           /\ stl[t].status # "none" => StlFor(t, q) = stl[t]
  <1>1. ActualQuota(t, q) \in Nat
     BY TaskReads DEF ActualQuota
  <1>2. CASE stl[t].status = "none"
     BY <1>1, <1>2 DEF StlFor, NoStl, Stls
  <1>3. CASE stl[t].status # "none"
     BY <1>1, <1>3, TaskReads DEF StlFor, StlMatches
  <1>. QED  BY <1>1, <1>2, <1>3

\* The commit of a success, or its rollback on a conflicting row.
LEMMA CommitSuccessStep ==
    ASSUME IInv, NEW w \in Workers, CommitSuccess(w)
    PROVE  Kept
  <1>. PICK t \in Tasks : t = work[w].task
     BY Reads
  <1>. DEFINE q == work[w].quota
              x == [work[w] EXCEPT !.pc = "settle", !.quota = ActualQuota(t, q)]
  <1>0. /\ t \in Tasks /\ q \in Nat /\ work[w] \in Works /\ Good(t)
        /\ At(w, "commit") /\ Unmoved(w)
        /\ UNCHANGED <<up, rfd, earn, ref, money, rest>>
     BY Reads DEF CommitSuccess
  <1>1. CASE ~StlMatches(t, q)
    <2>1. StlFor(t, q) = stl[t]
       BY <1>1 DEF StlMatches, StlFor
    <2>2. stl' = stl /\ row' = row /\ work' = [work EXCEPT ![w] = AtRest]
       BY <1>0, <1>1, <2>1 DEF CommitSuccess, IInv, TypeOK
    <2>3. /\ work' \in [Workers -> Works]
          /\ \A v \in Workers : work'[v] = work[v] \/ Fits(v)'
       BY <2>2, StopFacts DEF Stop, IInv
    <2>4. TypeOK'
       BY <1>0, <2>2, <2>3 DEF IInv, TypeOK, money, rest
    <2>. QED  BY <1>0, <2>2, <2>3, <2>4, QuietStep DEF tables, money, rest
  <1>2. CASE StlMatches(t, q)
    <2>1. /\ row' = Written(w, "success", q)
          /\ stl' = [stl EXCEPT ![t] = StlFor(t, q)]
          /\ work' = [work EXCEPT ![w] = x]
       BY <1>2 DEF CommitSuccess, AfterSuccess
    <2>2. /\ row' \in [Tasks -> RowType]
          /\ \A u \in Tasks \ {t} : row'[u] = row[u]
          /\ row'[t].st = "success" /\ row'[t].quota = q
       BY <1>0, <2>1, WrittenFacts DEF Statuses, Terminal
    <2>3. /\ StlFor(t, q) \in Stls /\ StlFor(t, q).act = ActualQuota(t, q)
          /\ ActualQuota(t, q) \in Nat /\ StlFor(t, q).status # "none"
          /\ stl[t].status = "none" => StlFor(t, q).status = "pending"
          /\ stl[t].status # "none" => StlFor(t, q) = stl[t]
       BY <1>0, <1>2, StlForFacts DEF IInv
    <2>4. /\ stl' \in [Tasks -> Stls] /\ stl'[t] = StlFor(t, q)
          /\ \A u \in Tasks \ {t} : stl'[u] = stl[u]
       BY <1>0, <2>1, <2>3 DEF IInv, TypeOK
    <2>5. x \in Works /\ x.pc = "settle" /\ x.task = t
       BY <1>0, <2>3 DEF Works, PCs
    <2>. HIDE DEF x
    <2>6. /\ work' \in [Workers -> Works] /\ work'[w] = x
          /\ \A v \in Workers \ {w} : work'[v] = work[v]
       BY <2>1, <2>5 DEF IInv, TypeOK
    <2>7. TypeOK'
       BY <1>0, <2>2, <2>4, <2>6 DEF IInv, TypeOK, RowType, money, rest
    <2>8. Frame(t)
       BY <1>0, <2>2, <2>4 DEF Frame, money, rest
    <2>9. row[t].st \in Unfinished
       BY <1>0, CommitReads
    <2>10. Stable(t)
       BY <1>0, <2>2, <2>3, <2>4, <2>9 DEF Stable, Payable, rest, Unfinished, Good, NoStl
    <2>11. Good(t)'
      <3>1. /\ rfd'[t] = rfd[t] /\ earn'[t] = earn[t] /\ paid'[t] = paid[t]
            /\ revived'[t] = revived[t]
         BY <1>0 DEF money, rest
      <3>2. ASSUME ~revived[t].yes PROVE Ordered(t)'
        <4>1. /\ q = row[t].quota /\ paid[t] = row[t].quota
              /\ stl[t].status = "none" /\ rfd[t].status = "none" /\ ~Payable(t)
           BY <1>0, <3>2, CommitReads
        <4>. QED  BY <2>2, <2>3, <2>4, <3>1, <4>1 DEF Ordered, Payable, Unfinished
      <3>. QED  BY <1>0, <2>2, <2>3, <2>4, <3>1, <3>2 DEF Good
    <2>12. Fits(w)'
       BY <2>2, <2>3, <2>4, <2>5, <2>6 DEF Fits, At
    <2>. QED  BY <1>0, <2>6, <2>7, <2>8, <2>10, <2>11, <2>12, OneTask
  <1>. QED  BY <1>1, <1>2

\* What the refund row of a failure is.
LEMMA RfdForFacts ==
    ASSUME TypeOK, NEW t \in Tasks, NEW q \in Nat
    PROVE  /\ RfdFor(t, q) \in Rfds /\ RfdFor(t, q).status # "none"
           /\ rfd[t].status = "none" =>
                 RfdFor(t, q).status = "pending" /\ RfdFor(t, q).amount = q
           /\ rfd[t].status # "none" => RfdFor(t, q) = rfd[t]
           /\ [rfd EXCEPT ![t] = RfdFor(t, q)] \in [Tasks -> Rfds]
  <1>1. CASE rfd[t].status = "none"
     BY <1>1 DEF RfdFor, Rfds, TypeOK
  <1>2. CASE rfd[t].status # "none"
     BY <1>2 DEF RfdFor, Rfds, TypeOK
  <1>. QED  BY <1>1, <1>2

\* The commit of a failure, or its rollback on a conflicting row.
LEMMA CommitFailureStep ==
    ASSUME IInv, NEW w \in Workers, CommitFailure(w)
    PROVE  Kept
  <1>. PICK t \in Tasks : t = work[w].task
     BY Reads
  <1>. DEFINE q == work[w].quota
              x == [work[w] EXCEPT !.pc = "refund"]
  <1>0. /\ t \in Tasks /\ q \in Nat /\ work[w] \in Works /\ Good(t)
        /\ At(w, "commit") /\ Unmoved(w)
        /\ UNCHANGED <<up, stl, earn, ref, money, rest>>
        /\ rfd' = [rfd EXCEPT ![t] = RfdFor(t, q)]
     BY Reads DEF CommitFailure
  <1>3. /\ RfdFor(t, q) \in Rfds /\ RfdFor(t, q).status # "none"
        /\ rfd[t].status = "none" =>
                 RfdFor(t, q).status = "pending" /\ RfdFor(t, q).amount = q
        /\ rfd[t].status # "none" => RfdFor(t, q) = rfd[t]
     BY <1>0, RfdForFacts DEF IInv
  <1>1. CASE ~RfdMatches(t, q)
    <2>2. rfd' = rfd /\ row' = row /\ work' = [work EXCEPT ![w] = AtRest]
       BY <1>0, <1>1, <1>3 DEF CommitFailure, IInv, TypeOK, RfdMatches
    <2>3. /\ work' \in [Workers -> Works]
          /\ \A v \in Workers : work'[v] = work[v] \/ Fits(v)'
       BY <2>2, StopFacts DEF Stop, IInv
    <2>4. TypeOK'
       BY <1>0, <2>2, <2>3 DEF IInv, TypeOK, money, rest
    <2>. QED  BY <1>0, <2>2, <2>3, <2>4, QuietStep DEF tables, money, rest
  <1>2. CASE RfdMatches(t, q)
    <2>1. row' = Written(w, "failure", q) /\ work' = [work EXCEPT ![w] = x]
       BY <1>2 DEF CommitFailure
    <2>2. /\ row' \in [Tasks -> RowType]
          /\ \A u \in Tasks \ {t} : row'[u] = row[u]
          /\ row'[t].st = "failure" /\ row'[t].quota = q
       BY <1>0, <2>1, WrittenFacts DEF Statuses, Terminal
    <2>4. /\ rfd' \in [Tasks -> Rfds] /\ rfd'[t] = RfdFor(t, q)
          /\ \A u \in Tasks \ {t} : rfd'[u] = rfd[u]
       BY <1>0, <1>3 DEF IInv, TypeOK
    <2>5. x \in Works /\ x.pc = "refund" /\ x.task = t
       BY <1>0 DEF Works, PCs
    <2>. HIDE DEF x
    <2>6. /\ work' \in [Workers -> Works] /\ work'[w] = x
          /\ \A v \in Workers \ {w} : work'[v] = work[v]
       BY <2>1, <2>5 DEF IInv, TypeOK
    <2>7. TypeOK'
       BY <1>0, <2>2, <2>4, <2>6 DEF IInv, TypeOK, RowType, money, rest
    <2>8. Frame(t)
       BY <1>0, <2>2, <2>4 DEF Frame, money, rest
    <2>9. row[t].st \in Unfinished
       BY <1>0, CommitReads
    <2>10. Stable(t)
       BY <1>0, <1>3, <2>2, <2>4, <2>9 DEF Stable, Payable, rest, Unfinished
    <2>11. Good(t)'
      <3>1. /\ stl'[t] = stl[t] /\ earn'[t] = earn[t] /\ paid'[t] = paid[t]
            /\ revived'[t] = revived[t]
         BY <1>0 DEF money, rest
      <3>2. ASSUME ~revived[t].yes PROVE Ordered(t)'
        <4>1. /\ q = row[t].quota /\ paid[t] = row[t].quota
              /\ stl[t].status = "none" /\ rfd[t].status = "none" /\ ~Payable(t)
           BY <1>0, <3>2, CommitReads
        <4>. QED  BY <1>3, <2>2, <2>4, <3>1, <4>1 DEF Ordered, Payable, Unfinished
      <3>. QED  BY <1>0, <1>3, <2>2, <2>4, <3>1, <3>2 DEF Good
    <2>12. Fits(w)'
       BY <1>3, <2>2, <2>4, <2>5, <2>6 DEF Fits, At
    <2>. QED  BY <1>0, <2>6, <2>7, <2>8, <2>10, <2>11, <2>12, OneTask
  <1>. QED  BY <1>1, <1>2

\* Commits that write the task's row alone.
LEMMA RowStep ==
    ASSUME IInv, NEW w \in Workers, At(w, "commit"), Unmoved(w),
           NEW s \in Unfinished \cup {"failure"}, NEW q \in Nat,
           row' = Written(w, s, q), UNCHANGED <<up, tables, ref, money, rest>>,
           Stop(w) \/ (Goto(w, "cancel") /\ work[w].quota = 0),
           \/ s \in Unfinished /\ q = work[w].quota
           \/ s = "failure" /\ (work[w].quota = 0 \/ row[work[w].task].kind = "legacy")
    PROVE  Kept
  <1>. PICK t \in Tasks : t = work[w].task
     BY Reads
  <1>0. t \in Tasks /\ Good(t) /\ row[t].st \in Unfinished
     BY Reads, CommitReads
  <1>1. /\ row' \in [Tasks -> RowType] /\ \A u \in Tasks \ {t} : row'[u] = row[u]
        /\ row'[t].st = s /\ row'[t].quota = q /\ row'[t].kind = row[t].kind
     BY WrittenFacts DEF Statuses, Terminal
  <1>2. /\ ~revived[t].yes =>
              /\ work[w].quota = row[t].quota /\ row[t].quota > 0
              /\ paid[t] = row[t].quota
              /\ stl[t].status = "none" /\ rfd[t].status = "none" /\ ~Payable(t)
     BY CommitReads
  <1>3. Frame(t) /\ Stable(t)
     BY <1>0, <1>1, <1>2 DEF Frame, Stable, Payable, tables, money, rest, Unfinished
  <1>4. /\ work' \in [Workers -> Works]
        /\ \A v \in Workers : work'[v] = work[v] \/ Fits(v)'
    <2>1. CASE Stop(w)
       BY <2>1, StopFacts DEF IInv
    <2>2. CASE Goto(w, "cancel") /\ work[w].quota = 0
      <3>1. /\ work' \in [Workers -> Works] /\ \A v \in Workers \ {w} : work'[v] = work[v]
            /\ work'[w].pc = "cancel" /\ work'[w].task = t
         BY <2>2, GotoFacts DEF IInv, PCs
      <3>2. revived'[t].yes
         BY <1>2, <2>2 DEF rest
      <3>3. Fits(w)'
         BY <1>1, <3>1, <3>2 DEF Fits, At, Unfinished
      <3>. QED  BY <3>1, <3>3
    <2>. QED  BY <2>1, <2>2
  <1>5. TypeOK'
     BY <1>1, <1>4 DEF IInv, TypeOK, RowType, tables, money, rest
  <1>6. Good(t)'
    <2>1. /\ stl'[t] = stl[t] /\ rfd'[t] = rfd[t] /\ earn'[t] = earn[t]
          /\ paid'[t] = paid[t] /\ revived'[t] = revived[t]
       BY DEF tables, money, rest
    <2>2. ASSUME ~revived[t].yes PROVE Ordered(t)'
       BY <1>1, <1>2, <2>1, <2>2 DEF Ordered, Payable, Unfinished
    <2>. QED  BY <1>0, <1>1, <2>1, <2>2 DEF Good, Unfinished
  <1>. QED  BY <1>0, <1>3, <1>4, <1>5, <1>6, OneTask

\* A failure without a refund, a legacy task, and progress.
LEMMA CommitRowStep ==
    ASSUME IInv, NEW w \in Workers,
           CommitFreeFailure(w) \/ SweepLegacy(w) \/ CommitProgress(w)
    PROVE  Kept
  <1>0. work[w].quota \in Nat
     BY Reads
  <1>1. CASE CommitFreeFailure(w)
     BY <1>1, RowStep DEF CommitFreeFailure
  <1>2. CASE SweepLegacy(w)
     BY <1>2, RowStep DEF SweepLegacy
  <1>3. CASE CommitProgress(w)
     BY <1>0, <1>3, RowStep DEF CommitProgress
  <1>. QED  BY <1>1, <1>2, <1>3

----------------------------------------------------------------------------
\* Settlement of a finished task

\* A worker that goes on with another quota.
GotoWith(w, p, q) == work' = [work EXCEPT ![w].pc = p, ![w].quota = q]

\* A worker that goes on with the settled quota.
LEMMA GotoWithFacts ==
    ASSUME TypeOK, NEW w \in Workers, NEW p \in PCs, NEW q \in Nat, GotoWith(w, p, q)
    PROVE  /\ work' \in [Workers -> Works]
           /\ \A v \in Workers \ {w} : work'[v] = work[v]
           /\ work'[w].pc = p /\ work'[w].task = work[w].task /\ work'[w].quota = q
  <1>. DEFINE x == [work[w] EXCEPT !.pc = p, !.quota = q]
  <1>1. work[w] \in Works
     BY DEF TypeOK
  <1>2. x \in Works /\ x.pc = p /\ x.task = work[w].task /\ x.quota = q
     BY <1>1 DEF Works
  <1>3. work' = [work EXCEPT ![w] = x]
     BY <1>1 DEF GotoWith, TypeOK, Works
  <1>. HIDE DEF x
  <1>. QED  BY <1>2, <1>3 DEF TypeOK

\* The charge of the difference: done once, however many workers try.
LEMMA ProcessSettlementStep ==
    ASSUME IInv, NEW w \in Workers, ProcessSettlement(w)
    PROVE  Kept
  <1>. PICK t \in Tasks : t = work[w].task
     BY Reads
  <1>0. /\ Fits(w) /\ Good(t) /\ At(w, "settle") /\ stl[t].status # "none"
        /\ UNCHANGED <<up, rfd, earn, ref, rest>>
        /\ row[t].st \notin {"new", "charged"}
     BY Reads DEF ProcessSettlement, Fits, At
  <1>a. /\ stl[t] \in Stls /\ stl[t].act \in Nat /\ stl[t].pre \in Nat
        /\ stl[t].status \in {"none", "pending", "complete"}
        /\ row[t] \in RowType /\ row[t].quota \in Nat /\ paid[t] \in Int
        /\ rfd[t].status \in {"none", "pending", "complete"}
     BY TaskReads DEF IInv
  <1>b. TypeOK /\ "mark" \in PCs
     BY DEF IInv, PCs
  <1>1. CASE /\ Chargeable(t) /\ CanCharge(t)
             /\ Move(t, Delta(t))
             /\ row' = [row EXCEPT ![t].quota = stl[t].act]
             /\ stl' = [stl EXCEPT ![t].status = "complete"]
             /\ work' = [work EXCEPT ![w].pc = "mark", ![w].quota = stl[t].act]
    <2>1. /\ stl[t].status = "pending" /\ row[t].quota = stl[t].pre
          /\ stl[t].act - stl[t].pre <= funds /\ Delta(t) = stl[t].act - stl[t].pre
       BY <1>1 DEF Chargeable, CanCharge, Delta
    <2>2. /\ row' \in [Tasks -> RowType] /\ \A u \in Tasks \ {t} : row'[u] = row[u]
          /\ row'[t].st = row[t].st /\ row'[t].quota = stl[t].act
          /\ row'[t].kind = row[t].kind
      <3>1. /\ [row[t] EXCEPT !.quota = stl[t].act] \in RowType
            /\ [row[t] EXCEPT !.quota = stl[t].act].st = row[t].st
            /\ [row[t] EXCEPT !.quota = stl[t].act].kind = row[t].kind
            /\ [row[t] EXCEPT !.quota = stl[t].act].quota = stl[t].act
         BY <1>a DEF RowType
      <3>2. row' = [row EXCEPT ![t] = [row[t] EXCEPT !.quota = stl[t].act]]
         BY <1>1
      <3>. QED  BY <3>1, <3>2 DEF IInv, TypeOK, RowType
    <2>3. /\ stl' \in [Tasks -> Stls] /\ \A u \in Tasks \ {t} : stl'[u] = stl[u]
          /\ stl'[t].status = "complete" /\ stl'[t].act = stl[t].act
          /\ stl'[t].marked = stl[t].marked
      <3>1. /\ [stl[t] EXCEPT !.status = "complete"] \in Stls
            /\ [stl[t] EXCEPT !.status = "complete"].status = "complete"
            /\ [stl[t] EXCEPT !.status = "complete"].act = stl[t].act
            /\ [stl[t] EXCEPT !.status = "complete"].marked = stl[t].marked
         BY <1>a DEF Stls
      <3>2. stl' = [stl EXCEPT ![t] = [stl[t] EXCEPT !.status = "complete"]]
         BY <1>1
      <3>. QED  BY <3>1, <3>2 DEF IInv, TypeOK
    <2>4. /\ funds' \in Nat /\ paid' \in [Tasks -> Int]
          /\ paid'[t] = paid[t] + (stl[t].act - stl[t].pre)
          /\ \A u \in Tasks \ {t} : paid'[u] = paid[u]
       BY <1>1, <1>a, <2>1, MoveFacts DEF IInv, TypeOK
    <2>5. /\ work' \in [Workers -> Works] /\ \A v \in Workers \ {w} : work'[v] = work[v]
          /\ work'[w].pc = "mark" /\ work'[w].task = t /\ work'[w].quota = stl[t].act
      <3>1. GotoWith(w, "mark", stl[t].act)
         BY <1>1 DEF GotoWith
      <3>. QED  BY <1>a, <1>b, <3>1, GotoWithFacts
    <2>6. TypeOK'
       BY <1>0, <2>2, <2>3, <2>4, <2>5 DEF IInv, TypeOK, RowType, rest
    <2>7. ~revived[t].yes => Ordered(t) /\ row[t].st = "success" /\ rfd[t].status = "none"
       BY <1>0, <1>a DEF Good, Ordered
    <2>8. Frame(t)
       BY <1>0, <2>2, <2>3, <2>4 DEF Frame, rest
    <2>9. Stable(t)
       BY <1>0, <2>2, <2>3, <2>7 DEF Stable, Payable, rest, Unfinished, Good
    <2>10. Good(t)'
      <3>1. rfd'[t] = rfd[t] /\ earn'[t] = earn[t] /\ revived'[t] = revived[t]
         BY <1>0 DEF rest
      <3>2. ASSUME ~revived[t].yes PROVE Ordered(t)'
        <4>1. row[t].st = "success" /\ rfd[t].status = "none"
           BY <2>7, <3>2
        <4>2. ~Payable(t)'
           BY <2>1, <2>7, <3>1, <3>2 DEF Ordered, Payable
        <4>3. paid'[t] = stl[t].act
           BY <1>a, <2>1, <2>4, <2>7, <3>2 DEF Ordered
        <4>. QED  BY <2>2, <2>3, <3>1, <4>1, <4>2, <4>3 DEF Ordered, Unfinished
      <3>. QED  BY <1>0, <2>2, <2>3, <3>1, <3>2 DEF Good
    <2>11. Fits(w)'
       BY <1>0, <2>2, <2>3, <2>5 DEF Fits, At
    <2>. QED  BY <2>5, <2>6, <2>8, <2>9, <2>10, <2>11, OneTask
  <1>2. CASE Stop(w) /\ UNCHANGED <<row, stl, money>>
    <2>1. /\ work' \in [Workers -> Works]
          /\ \A v \in Workers : work'[v] = work[v] \/ Fits(v)'
       BY <1>2, StopFacts DEF IInv
    <2>2. TypeOK'
       BY <1>0, <1>2, <2>1 DEF IInv, TypeOK, money, rest
    <2>. QED  BY <1>0, <1>2, <2>1, <2>2, QuietStep DEF tables, money, rest
  <1>3. CASE /\ ~Chargeable(t)
             /\ work' = [work EXCEPT ![w].pc = "mark", ![w].quota = stl[t].act]
             /\ UNCHANGED <<row, stl, money>>
    <2>1. stl[t].status = "complete"
       BY <1>0, <1>a, <1>3 DEF Chargeable
    <2>2. /\ work' \in [Workers -> Works] /\ \A v \in Workers \ {w} : work'[v] = work[v]
          /\ work'[w].pc = "mark" /\ work'[w].task = t /\ work'[w].quota = stl[t].act
      <3>1. GotoWith(w, "mark", stl[t].act)
         BY <1>3 DEF GotoWith
      <3>. QED  BY <1>a, <1>b, <3>1, GotoWithFacts
    <2>3. TypeOK'
       BY <1>0, <1>3, <2>2 DEF IInv, TypeOK, money, rest
    <2>4. Fits(w)'
       BY <1>0, <1>3, <2>1, <2>2 DEF Fits, At
    <2>. QED  BY <1>0, <1>3, <2>2, <2>3, <2>4, QuietStep DEF tables, money, rest
  <1>. QED  BY <1>1, <1>2, <1>3 DEF ProcessSettlement

\* A flag of the settlement row is set by worker w, which goes on to p.
LEMMA FlagStep ==
    ASSUME IInv, NEW w \in Workers, NEW t \in Tasks, t = work[w].task,
           stl[t].status = "complete",
           NEW s \in Stls, stl' = [stl EXCEPT ![t] = s],
           s.status = stl[t].status, s.act = stl[t].act, stl[t].marked => s.marked,
           UNCHANGED <<row, up, rfd, earn, ref, money, rest>>,
           work' \in [Workers -> Works],
           \A v \in Workers : work'[v] = work[v] \/ Fits(v)'
    PROVE  Kept
  <1>1. /\ stl' \in [Tasks -> Stls] /\ stl'[t] = s
        /\ \A u \in Tasks \ {t} : stl'[u] = stl[u]
     BY DEF IInv, TypeOK
  <1>2. TypeOK'
     BY <1>1 DEF IInv, TypeOK, money, rest
  <1>3. Frame(t) /\ Stable(t)
     BY <1>1 DEF Frame, Stable, Payable, money, rest
  <1>4. Good(t)'
    <2>1. /\ Good(t) /\ row'[t] = row[t] /\ rfd'[t] = rfd[t] /\ earn'[t] = earn[t]
          /\ paid'[t] = paid[t] /\ revived'[t] = revived[t]
       BY DEF IInv, money, rest
    <2>. QED  BY <1>1, <2>1 DEF Good, Ordered, Payable
  <1>. QED  BY <1>2, <1>3, <1>4, OneTask

\* The accounting of the charge is recorded.
LEMMA MarkAccountingStep ==
    ASSUME IInv, NEW w \in Workers, MarkAccounting(w)
    PROVE  Kept
  <1>. PICK t \in Tasks : t = work[w].task
     BY Reads
  <1>. DEFINE s == [stl[t] EXCEPT !.marked = TRUE]
  <1>1. /\ Fits(w) /\ At(w, "mark") /\ Goto(w, "ready") /\ stl[t] \in Stls
        /\ UNCHANGED <<row, up, rfd, earn, ref, money, rest>>
        /\ stl' = [stl EXCEPT ![t] = s]
     BY Reads, TaskReads DEF MarkAccounting, IInv
  <1>2. /\ stl[t].status = "complete" /\ work[w].quota = stl[t].act
        /\ row[t].st \notin {"new", "charged"}
     BY <1>1 DEF Fits, At
  <1>3. s \in Stls /\ s.status = stl[t].status /\ s.act = stl[t].act /\ s.marked
     BY <1>1 DEF Stls
  <1>. HIDE DEF s
  <1>4. /\ work' \in [Workers -> Works] /\ \A v \in Workers \ {w} : work'[v] = work[v]
        /\ work'[w].pc = "ready" /\ work'[w].task = t /\ work'[w].quota = work[w].quota
     BY <1>1, GotoFacts DEF IInv, PCs
  <1>5. stl'[t] = s /\ row'[t] = row[t]
     BY <1>1 DEF IInv, TypeOK
  <1>6. Fits(w)'
     BY <1>2, <1>3, <1>4, <1>5 DEF Fits, At
  <1>. QED  BY <1>1, <1>2, <1>3, <1>4, <1>6, FlagStep

\* The settlement is done with.
LEMMA ReleaseStep ==
    ASSUME IInv, NEW w \in Workers, Release(w)
    PROVE  Kept
  <1>. PICK t \in Tasks : t = work[w].task
     BY Reads
  <1>. DEFINE s == [stl[t] EXCEPT !.released = TRUE]
  <1>1. /\ Fits(w) /\ At(w, "release") /\ Stop(w) /\ stl[t] \in Stls
        /\ UNCHANGED <<row, up, rfd, earn, ref, money, rest>>
     BY Reads, TaskReads DEF Release, IInv
  <1>2. stl[t].status = "complete"
     BY <1>1 DEF Fits, At
  <1>3. /\ s \in Stls /\ s.status = stl[t].status /\ s.act = stl[t].act
        /\ s.marked = stl[t].marked
     BY <1>1 DEF Stls
  <1>4. stl' = [stl EXCEPT ![t] = s]
     BY <1>2 DEF Release
  <1>. HIDE DEF s
  <1>5. /\ work' \in [Workers -> Works]
        /\ \A v \in Workers : work'[v] = work[v] \/ Fits(v)'
     BY <1>1, StopFacts DEF IInv
  <1>. QED  BY <1>1, <1>2, <1>3, <1>4, <1>5, FlagStep

----------------------------------------------------------------------------
\* The provider's earning

\* A step that writes the earning row of t alone.
LEMMA EarnStep ==
    ASSUME IInv, NEW t \in Tasks, NEW e \in Earns, earn' = [earn EXCEPT ![t] = e],
           UNCHANGED <<row, up, stl, rfd, ref, money, rest>>,
           row[t].st # "new",
           rfd[t].status = "complete" => e.status \in {"none", "cancelled"},
           ~revived[t].yes /\ (e.status = "settled" \/ (e.status = "pending" /\ ~e.deferred))
              => stl[t].status = "complete" /\ stl[t].marked /\ e.gross = stl[t].act,
           Payable(t) => e.status = "settled" \/ (e.status = "pending" /\ ~e.deferred),
           work' \in [Workers -> Works],
           \A v \in Workers : work'[v] = work[v] \/ Fits(v)'
    PROVE  Kept
  <1>1. /\ earn' \in [Tasks -> Earns] /\ earn'[t] = e
        /\ \A u \in Tasks \ {t} : earn'[u] = earn[u]
     BY DEF IInv, TypeOK
  <1>2. TypeOK'
     BY <1>1 DEF IInv, TypeOK, money, rest
  <1>3. Frame(t) /\ Stable(t)
    <2>1. Payable(t) => Payable(t)'
       BY <1>1 DEF Payable
    <2>. QED  BY <1>1, <2>1 DEF Frame, Stable, money, rest
  <1>4. Good(t)'
    <2>1. /\ Good(t) /\ row'[t] = row[t] /\ stl'[t] = stl[t] /\ rfd'[t] = rfd[t]
          /\ paid'[t] = paid[t] /\ revived'[t] = revived[t]
       BY DEF IInv, money, rest
    <2>. QED  BY <1>1, <2>1 DEF Good, Ordered, Payable
  <1>. QED  BY <1>2, <1>3, <1>4, OneTask

\* A step that only moves a worker.
LEMMA WorkerStep ==
    ASSUME IInv, UNCHANGED <<row, up, tables, ref, money, rest>>,
           work' \in [Workers -> Works],
           \A v \in Workers : work'[v] = work[v] \/ Fits(v)'
    PROVE  Kept
  <1>1. TypeOK'
     BY DEF IInv, TypeOK, tables, money, rest
  <1>. QED  BY <1>1, QuietStep DEF money, rest

\* Where a worker that has charged and marked the settlement goes on.
LEMMA EarnerMoves ==
    ASSUME IInv, NEW w \in Workers, NEW p \in {"earn", "release"},
           work[w].pc \in {"ready", "earn"}, Stop(w) \/ Goto(w, p), UNCHANGED <<row, stl>>
    PROVE  /\ work' \in [Workers -> Works]
           /\ \A v \in Workers : work'[v] = work[v] \/ Fits(v)'
  <1>1. CASE Stop(w)
     BY <1>1, StopFacts DEF IInv
  <1>2. CASE Goto(w, p)
    <2>1. TypeOK /\ p \in PCs /\ Fits(w)
       BY DEF IInv, PCs
    <2>2. /\ work' \in [Workers -> Works] /\ \A v \in Workers \ {w} : work'[v] = work[v]
          /\ work'[w].pc = p /\ work'[w].task = work[w].task
          /\ work'[w].quota = work[w].quota
       BY <1>2, <2>1, GotoFacts
    <2>3. Fits(w)'
       BY <2>1, <2>2 DEF Fits, At
    <2>. QED  BY <2>2, <2>3
  <1>. QED  BY <1>1, <1>2

\* The earning is released at the amount charged.
LEMMA MarkReadyStep ==
    ASSUME IInv, NEW w \in Workers, MarkReady(w)
    PROVE  Kept
  <1>. PICK t \in Tasks : t = work[w].task
     BY Reads
  <1>. DEFINE q == work[w].quota
              e == [earn[t] EXCEPT !.deferred = FALSE, !.gross = q, !.split = ref]
  <1>1. /\ Fits(w) /\ Good(t) /\ At(w, "ready") /\ q \in Nat
        /\ UNCHANGED <<row, up, stl, rfd, ref, money, rest>>
        /\ earn[t] \in Earns /\ ref \in BOOLEAN
     BY Reads, TaskReads DEF MarkReady, IInv, TypeOK
  <1>2. /\ stl[t].status = "complete" /\ stl[t].marked /\ q = stl[t].act
        /\ row[t].st \notin {"new", "charged"}
     BY <1>1 DEF Fits, At
  <1>3. /\ work' \in [Workers -> Works]
        /\ \A v \in Workers : work'[v] = work[v] \/ Fits(v)'
     BY <1>1, EarnerMoves DEF MarkReady, At
  <1>4. e \in Earns /\ e.status = earn[t].status /\ e.gross = q /\ ~e.deferred
     BY <1>1 DEF Earns
  <1>5. UNCHANGED earn \/ (earn[t].status = "pending" /\ earn' = [earn EXCEPT ![t] = e])
     BY DEF MarkReady
  <1>. HIDE DEF e
  <1>6. CASE UNCHANGED earn
     BY <1>1, <1>3, <1>6, WorkerStep DEF tables
  <1>7. CASE earn[t].status = "pending" /\ earn' = [earn EXCEPT ![t] = e]
    <2>1. rfd[t].status # "complete"
       BY <1>1, <1>7 DEF Good
    <2>. QED  BY <1>1, <1>2, <1>3, <1>4, <1>7, <2>1, EarnStep
  <1>. QED  BY <1>5, <1>6, <1>7

\* The earning is settled at the amount charged.
LEMMA SettleEarningStep ==
    ASSUME IInv, NEW w \in Workers, SettleEarning(w)
    PROVE  Kept
  <1>. PICK t \in Tasks : t = work[w].task
     BY Reads
  <1>. DEFINE q == work[w].quota
              e == [earn[t] EXCEPT !.status = "settled", !.gross = q, !.split = ref]
  <1>1. /\ Fits(w) /\ Good(t) /\ At(w, "earn") /\ q \in Nat
        /\ UNCHANGED <<row, up, stl, rfd, ref, money, rest>>
        /\ earn[t] \in Earns /\ ref \in BOOLEAN
     BY Reads, TaskReads DEF SettleEarning, IInv, TypeOK
  <1>2. /\ stl[t].status = "complete" /\ stl[t].marked /\ q = stl[t].act
        /\ row[t].st \notin {"new", "charged"}
     BY <1>1 DEF Fits, At
  <1>3. /\ work' \in [Workers -> Works]
        /\ \A v \in Workers : work'[v] = work[v] \/ Fits(v)'
     BY <1>1, EarnerMoves DEF SettleEarning, At
  <1>4. e \in Earns /\ e.status = "settled" /\ e.gross = q
     BY <1>1 DEF Earns
  <1>5. UNCHANGED earn \/ (earn[t].status = "pending" /\ earn' = [earn EXCEPT ![t] = e])
     BY DEF SettleEarning, Settled
  <1>. HIDE DEF e
  <1>6. CASE UNCHANGED earn
     BY <1>1, <1>3, <1>6, WorkerStep DEF tables
  <1>7. CASE earn[t].status = "pending" /\ earn' = [earn EXCEPT ![t] = e]
    <2>1. rfd[t].status # "complete"
       BY <1>1, <1>7 DEF Good
    <2>. QED  BY <1>1, <1>2, <1>3, <1>4, <1>7, <2>1, EarnStep
  <1>. QED  BY <1>5, <1>6, <1>7

\* The recovery settles what was already payable, at the same amount.
LEMMA RecoverEarningStep ==
    ASSUME IInv, NEW t \in Tasks, RecoverEarning(t)
    PROVE  Kept
  <1>. DEFINE e == [earn[t] EXCEPT !.status = "settled", !.gross = earn[t].gross,
                                   !.split = ref]
  <1>1. /\ Good(t) /\ earn[t].status = "pending" /\ ~earn[t].deferred
        /\ UNCHANGED <<row, up, work, stl, rfd, ref, money, rest>>
        /\ earn' = [earn EXCEPT ![t] = e]
        /\ earn[t] \in Earns /\ earn[t].gross \in Nat /\ ref \in BOOLEAN
     BY TaskReads DEF RecoverEarning, Settled, IInv, TypeOK
  <1>2. e \in Earns /\ e.status = "settled" /\ e.gross = earn[t].gross
     BY <1>1 DEF Earns
  <1>. HIDE DEF e
  <1>3. row[t].st # "new" /\ rfd[t].status # "complete"
     BY <1>1 DEF Good
  <1>4. ~revived[t].yes =>
           stl[t].status = "complete" /\ stl[t].marked /\ e.gross = stl[t].act
     BY <1>1, <1>2 DEF Good, Ordered, Payable
  <1>5. /\ work' \in [Workers -> Works] /\ \A v \in Workers : work'[v] = work[v]
     BY <1>1 DEF IInv, TypeOK
  <1>. QED  BY <1>1, <1>2, <1>3, <1>4, <1>5, EarnStep

----------------------------------------------------------------------------
\* Refund of a failed task

\* Cancelling writes at most the earning row, and leaves nothing payable that
\* was not.
LEMMA CancelledFacts ==
    ASSUME TypeOK, NEW t \in Tasks, earn' = Cancelled(t)
    PROVE  /\ earn' \in [Tasks -> Earns]
           /\ \A u \in Tasks \ {t} : earn'[u] = earn[u]
           /\ earn[t].status = "pending" => earn'[t].status = "cancelled"
           /\ earn[t].status # "pending" => earn'[t] = earn[t]
  <1>1. CASE earn[t].status = "pending"
    <2>1. earn[t] \in Earns
       BY DEF TypeOK
    <2>2. /\ [earn[t] EXCEPT !.status = "cancelled"] \in Earns
          /\ [earn[t] EXCEPT !.status = "cancelled"].status = "cancelled"
       BY <2>1 DEF Earns
    <2>3. earn' = [earn EXCEPT ![t] = [earn[t] EXCEPT !.status = "cancelled"]]
       BY <1>1 DEF Cancelled
    <2>. QED  BY <1>1, <2>2, <2>3 DEF TypeOK
  <1>2. CASE earn[t].status # "pending"
     BY <1>2 DEF Cancelled, TypeOK
  <1>. QED  BY <1>1, <1>2

\* The cancellation after a refund finds nothing payable, or a revived task.
LEMMA CancelEarningStep ==
    ASSUME IInv, NEW w \in Workers, CancelEarning(w)
    PROVE  Kept
  <1>. PICK t \in Tasks : t = work[w].task
     BY Reads
  <1>1. /\ Fits(w) /\ Good(t) /\ At(w, "cancel") /\ Stop(w) /\ earn' = Cancelled(t)
        /\ UNCHANGED <<row, up, stl, rfd, ref, money, rest>> /\ TypeOK
     BY Reads DEF CancelEarning, IInv
  <1>2. row[t].st # "new"
     BY <1>1 DEF Fits, At
  <1>3. /\ work' \in [Workers -> Works]
        /\ \A v \in Workers : work'[v] = work[v] \/ Fits(v)'
     BY <1>1, StopFacts
  <1>4. /\ earn' \in [Tasks -> Earns] /\ \A u \in Tasks \ {t} : earn'[u] = earn[u]
        /\ earn[t].status = "pending" => earn'[t].status = "cancelled"
        /\ earn[t].status # "pending" => earn'[t] = earn[t]
     BY <1>1, CancelledFacts
  <1>5. TypeOK'
     BY <1>1, <1>3, <1>4 DEF TypeOK, money, rest
  <1>6. Frame(t) /\ Stable(t)
    <2>1. ~revived[t].yes => ~Payable(t)
       BY <1>1 DEF Fits, At, Good, Payable
    <2>. QED  BY <1>1, <1>4, <2>1 DEF Frame, Stable, money, rest
  <1>7. Good(t)'
    <2>1. /\ row'[t] = row[t] /\ stl'[t] = stl[t] /\ rfd'[t] = rfd[t]
          /\ paid'[t] = paid[t] /\ revived'[t] = revived[t] /\ Good(t)
       BY <1>1 DEF money, rest
    <2>2. Payable(t)' => earn'[t] = earn[t] /\ Payable(t)
       BY <1>4 DEF Payable
    <2>3. earn'[t].status \in {earn[t].status, "cancelled"}
       BY <1>4
    <2>. QED  BY <1>2, <2>1, <2>2, <2>3 DEF Good, Ordered
  <1>. QED  BY <1>3, <1>5, <1>6, <1>7, OneTask

\* The refund intent is found, or made for a task never inserted.
LEMMA CreateRefundStep ==
    ASSUME IInv, NEW w \in Workers, CreateRefund(w)
    PROVE  Kept
  <1>. PICK t \in Tasks : t = work[w].task
     BY Reads
  <1>. DEFINE q == work[w].quota
  <1>1. /\ Fits(w) /\ Good(t) /\ At(w, "refund") /\ q \in Nat /\ TypeOK
        /\ rfd' = [rfd EXCEPT ![t] = RfdFor(t, q)]
        /\ UNCHANGED <<row, up, stl, earn, ref, money, rest>>
        /\ rfd[t].status \in {"none", "pending", "complete"}
     BY Reads, TaskReads DEF CreateRefund, IInv
  <1>2. /\ RfdFor(t, q) \in Rfds /\ RfdFor(t, q).status # "none"
        /\ rfd[t].status = "none" =>
                 RfdFor(t, q).status = "pending" /\ RfdFor(t, q).amount = q
        /\ rfd[t].status # "none" => RfdFor(t, q) = rfd[t]
     BY <1>1, RfdForFacts
  <1>3. /\ rfd' \in [Tasks -> Rfds] /\ rfd'[t] = RfdFor(t, q)
        /\ \A u \in Tasks \ {t} : rfd'[u] = rfd[u]
     BY <1>1, <1>2 DEF TypeOK
  <1>4. \/ Stop(w) \/ Goto(w, "process")
        \/ Goto(w, "cancel") /\ rfd[t].status = "complete"
     BY DEF CreateRefund
  <1>5. /\ work' \in [Workers -> Works]
        /\ \A v \in Workers : work'[v] = work[v] \/ Fits(v)'
    <2>1. CASE Stop(w)
       BY <1>1, <2>1, StopFacts
    <2>2. ASSUME NEW p \in {"process", "cancel"}, Goto(w, p),
                 p = "cancel" => rfd[t].status = "complete"
          PROVE  /\ work' \in [Workers -> Works]
                 /\ \A v \in Workers : work'[v] = work[v] \/ Fits(v)'
      <3>1. /\ work' \in [Workers -> Works] /\ \A v \in Workers \ {w} : work'[v] = work[v]
            /\ work'[w].pc = p /\ work'[w].task = t
         BY <1>1, <2>2, GotoFacts DEF PCs
      <3>2. Fits(w)'
         BY <1>1, <1>2, <1>3, <2>2, <3>1 DEF Fits, At
      <3>. QED  BY <3>1, <3>2
    <2>. QED  BY <1>4, <2>1, <2>2
  <1>6. TypeOK'
     BY <1>1, <1>3, <1>5 DEF TypeOK, money, rest
  <1>7. rfd[t].status = "none" => row[t].st = "gone" /\ q = row[t].quota
     BY <1>1 DEF Fits, At
  <1>8. Frame(t) /\ Stable(t)
     BY <1>1, <1>2, <1>3 DEF Frame, Stable, Payable, money, rest
  <1>9. Good(t)'
    <2>1. /\ row'[t] = row[t] /\ stl'[t] = stl[t] /\ earn'[t] = earn[t]
          /\ paid'[t] = paid[t] /\ revived'[t] = revived[t]
       BY <1>1 DEF money, rest
    <2>2. CASE rfd[t].status = "none"
      <3>1. /\ rfd'[t].status = "pending" /\ rfd'[t].amount = row[t].quota
            /\ row[t].st = "gone" /\ Good(t)
         BY <1>1, <1>2, <1>3, <1>7, <2>2
      <3>. QED  BY <2>1, <2>2, <3>1 DEF Good, Ordered, Payable, Unfinished
    <2>3. CASE rfd[t].status # "none"
      <3>1. rfd'[t] = rfd[t] /\ Good(t)
         BY <1>1, <1>2, <1>3, <2>3
      <3>. QED  BY <2>1, <3>1 DEF Good, Ordered, Payable
    <2>. QED  BY <2>2, <2>3
  <1>. QED  BY <1>5, <1>6, <1>8, <1>9, OneTask

\* The refund: done once, and never beside a settled earning.
LEMMA ProcessRefundStep ==
    ASSUME IInv, NEW w \in Workers, ProcessRefund(w)
    PROVE  Kept
  <1>. PICK t \in Tasks : t = work[w].task
     BY Reads
  <1>1. /\ Fits(w) /\ Good(t) /\ At(w, "process") /\ TypeOK /\ "cancel" \in PCs
        /\ UNCHANGED <<up, stl, ref, rest>>
     BY Reads DEF ProcessRefund, IInv, PCs
  <1>2. /\ row[t] \in RowType /\ row[t].quota \in Nat /\ paid[t] \in Int
        /\ rfd[t] \in Rfds /\ rfd[t].amount \in Nat
        /\ rfd[t].status \in {"none", "pending", "complete"}
        /\ stl[t].status \in {"none", "pending", "complete"}
        /\ earn[t].status \in {"none", "pending", "settled", "cancelled"}
     BY <1>1, TaskReads
  <1>3. row[t].st \notin {"new", "charged"} /\ rfd[t].status # "none"
     BY <1>1 DEF Fits, At
  <1>4. CASE /\ Returnable(t) /\ ~Payout(t)
             /\ earn' = Cancelled(t)
             /\ Move(t, -rfd[t].amount)
             /\ row' = [row EXCEPT ![t].quota = 0]
             /\ rfd' = [rfd EXCEPT ![t].status = "complete"]
             /\ Goto(w, "cancel")
    <2>1. rfd[t].status = "pending" /\ earn[t].status # "settled"
       BY <1>4 DEF Returnable, Payout
    <2>2. /\ row' \in [Tasks -> RowType] /\ \A u \in Tasks \ {t} : row'[u] = row[u]
          /\ row'[t].st = row[t].st /\ row'[t].quota = 0 /\ row'[t].kind = row[t].kind
      <3>1. /\ [row[t] EXCEPT !.quota = 0] \in RowType
            /\ [row[t] EXCEPT !.quota = 0].st = row[t].st
            /\ [row[t] EXCEPT !.quota = 0].kind = row[t].kind
            /\ [row[t] EXCEPT !.quota = 0].quota = 0
         BY <1>2 DEF RowType
      <3>2. row' = [row EXCEPT ![t] = [row[t] EXCEPT !.quota = 0]]
         BY <1>4
      <3>. QED  BY <1>1, <3>1, <3>2 DEF TypeOK, RowType
    <2>3. /\ rfd' \in [Tasks -> Rfds] /\ \A u \in Tasks \ {t} : rfd'[u] = rfd[u]
          /\ rfd'[t].status = "complete"
      <3>1. /\ [rfd[t] EXCEPT !.status = "complete"] \in Rfds
            /\ [rfd[t] EXCEPT !.status = "complete"].status = "complete"
         BY <1>2 DEF Rfds
      <3>2. rfd' = [rfd EXCEPT ![t] = [rfd[t] EXCEPT !.status = "complete"]]
         BY <1>4
      <3>. QED  BY <1>1, <3>1, <3>2 DEF TypeOK
    <2>4. /\ funds' \in Nat /\ paid' \in [Tasks -> Int]
          /\ paid'[t] = paid[t] - rfd[t].amount
          /\ \A u \in Tasks \ {t} : paid'[u] = paid[u]
      <3>1. funds \in Nat /\ -rfd[t].amount \in Int
         BY <1>1, <1>2 DEF TypeOK
      <3>2. /\ funds' = funds - (-rfd[t].amount) /\ paid' \in [Tasks -> Int]
            /\ paid'[t] = paid[t] + (-rfd[t].amount)
            /\ \A u \in Tasks \ {t} : paid'[u] = paid[u]
         BY <1>1, <1>4, <3>1, MoveFacts
      <3>. QED  BY <1>2, <3>1, <3>2
    <2>5. /\ earn' \in [Tasks -> Earns] /\ \A u \in Tasks \ {t} : earn'[u] = earn[u]
          /\ earn'[t].status \in {"none", "cancelled"}
      <3>1. /\ earn' \in [Tasks -> Earns] /\ \A u \in Tasks \ {t} : earn'[u] = earn[u]
            /\ earn[t].status = "pending" => earn'[t].status = "cancelled"
            /\ earn[t].status # "pending" => earn'[t] = earn[t]
         BY <1>1, <1>4, CancelledFacts
      <3>. QED  BY <1>2, <2>1, <3>1
    <2>6. /\ work' \in [Workers -> Works] /\ \A v \in Workers \ {w} : work'[v] = work[v]
          /\ work'[w].pc = "cancel" /\ work'[w].task = t
       BY <1>1, <1>4, GotoFacts
    <2>7. TypeOK'
       BY <1>1, <2>2, <2>3, <2>4, <2>5, <2>6 DEF TypeOK, RowType, rest
    <2>8. Frame(t)
       BY <1>1, <2>2, <2>3, <2>4, <2>5 DEF Frame, rest
    <2>9. ~revived[t].yes => Ordered(t) /\ row[t].st \in {"gone", "failure"} /\ ~Payable(t)
       BY <1>1, <1>3 DEF Good, Ordered
    <2>10. Stable(t)
       BY <1>1, <1>3, <2>1, <2>2, <2>3, <2>9 DEF Stable, rest, Unfinished
    <2>11. Good(t)'
      <3>1. stl'[t] = stl[t] /\ revived'[t] = revived[t]
         BY <1>1 DEF rest
      <3>2. ASSUME ~revived[t].yes PROVE Ordered(t)'
        <4>1. /\ Ordered(t) /\ row[t].st \in {"gone", "failure"} /\ ~Payable(t)'
           BY <2>5, <2>9, <3>2 DEF Payable
        <4>2. stl[t].status = "none" /\ paid'[t] = 0
           BY <1>2, <2>1, <2>4, <4>1 DEF Ordered
        <4>. QED  BY <1>2, <2>1, <2>2, <2>3, <3>1, <4>1, <4>2 DEF Ordered, Unfinished
      <3>. QED  BY <1>1, <1>3, <2>2, <2>3, <2>5, <3>1, <3>2 DEF Good
    <2>12. Fits(w)'
       BY <1>3, <2>2, <2>3, <2>6 DEF Fits, At
    <2>. QED  BY <2>6, <2>7, <2>8, <2>10, <2>11, <2>12, OneTask
  <1>5. CASE Stop(w) /\ UNCHANGED <<row, rfd, earn, money>>
    <2>1. /\ work' \in [Workers -> Works]
          /\ \A v \in Workers : work'[v] = work[v] \/ Fits(v)'
       BY <1>1, <1>5, StopFacts
    <2>. QED  BY <1>1, <1>5, <2>1, WorkerStep DEF tables
  <1>6. CASE ~Returnable(t) /\ Goto(w, "cancel") /\ UNCHANGED <<row, rfd, earn, money>>
    <2>1. /\ work' \in [Workers -> Works] /\ \A v \in Workers \ {w} : work'[v] = work[v]
          /\ work'[w].pc = "cancel" /\ work'[w].task = t
       BY <1>1, <1>6, GotoFacts
    <2>2. rfd[t].status = "complete"
       BY <1>2, <1>3, <1>6 DEF Returnable
    <2>3. Fits(w)'
       BY <1>3, <1>6, <2>1, <2>2 DEF Fits, At
    <2>. QED  BY <1>1, <1>6, <2>1, <2>3, WorkerStep DEF tables
  <1>. QED  BY <1>4, <1>5, <1>6 DEF ProcessRefund

----------------------------------------------------------------------------
\* A status query

\* What a status query writes down has its type.
LEMMA ViewType ==
    ASSUME TypeOK, NEW t \in Tasks
    PROVE  View(t) \in Views /\ View(t).yes
  <1>1. stl[t].act \in Nat /\ earn[t].gross \in Nat
     BY TaskReads
  <1>. DEFINE n == IF Payable(t) THEN earn[t].gross ELSE 0
  <1>2. Outcome(t) \in {"open", "charged", "returned"} /\ n \in Nat
     BY <1>1 DEF Outcome
  <1>. HIDE DEF n
  <1>3. View(t) = [yes |-> TRUE, outcome |-> Outcome(t), price |-> stl[t].act, income |-> n]
     BY DEF View, n
  <1>. QED  BY <1>1, <1>2, <1>3 DEF Views

\* A query that writes over a final status takes the task out of Ordered; one
\* that reports progress writes a row nothing has been decided for.
LEMMA DisplayStep ==
    ASSUME IInv, NEW w \in Workers, Display(w)
    PROVE  Kept
  <1>. PICK t \in Tasks : t = work[w].task
     BY Reads
  <1>. DEFINE q == work[w].quota
              s == up[t].st
              writes == /\ shouldPersist(work[w].st, s) /\ Unmoved(w)
                        /\ row' = Written(w, s, q) /\ row' # row
              revives == row[t].st \in Terminal /\ row' # row
  <1>1. /\ Fits(w) /\ Good(t) /\ At(w, "display") /\ q \in Nat /\ TypeOK
        /\ writes \/ row' = row
        /\ revived' = IF revives /\ ~revived[t].yes
                      THEN [revived EXCEPT ![t] = View(t)] ELSE revived
        /\ Stop(w) /\ UNCHANGED <<up, tables, ref, money, left>>
     BY Reads DEF Display, IInv
  <1>2. /\ work' \in [Workers -> Works]
        /\ \A v \in Workers : work'[v] = work[v] \/ Fits(v)'
     BY <1>1, StopFacts
  <1>3. s \in Unfinished \cup Terminal
    <2>1. up[t] \in [st : Unfinished \cup Terminal, cost : Nat]
       BY <1>1 DEF TypeOK
    <2>. QED  BY <2>1
  <1>4. /\ revived' \in [Tasks -> Views] /\ \A u \in Tasks \ {t} : revived'[u] = revived[u]
        /\ revived[t].yes => revived'[t].yes
        /\ revives => revived'[t].yes
        /\ ~revives => revived' = revived
     BY <1>1, ViewType DEF TypeOK
  <1>5. CASE ~writes
    <2>1. row' = row /\ revived' = revived
       BY <1>1, <1>4, <1>5
    <2>. QED  BY <1>1, <1>2, <2>1, WorkerStep DEF rest
  <1>6. CASE writes
    <2>1. /\ row' \in [Tasks -> RowType] /\ \A u \in Tasks \ {t} : row'[u] = row[u]
          /\ row'[t].st = s /\ row'[t].quota = q /\ row'[t].kind = row[t].kind
      <3>1. row' = Written(w, s, q) /\ s \in Statuses
         BY <1>1, <1>3, <1>6 DEF Statuses
      <3>. HIDE DEF s, writes, revives
      <3>. QED  BY <1>1, <3>1, WrittenFacts
    <2>2. /\ row[t].st = work[w].st /\ row[t].st \in Unfinished \cup Terminal
          /\ row[t].st \in Unfinished => s \in Unfinished
       BY <1>1, <1>6 DEF Unmoved, Fits, shouldPersist, Unfinished, Terminal
    <2>3. row[t].st \in Unfinished /\ ~revived[t].yes => q = row[t].quota
       BY <1>1, <2>2 DEF Fits, At
    <2>4. row[t].st \in Terminal => revived'[t].yes
       BY <1>4, <1>6, <2>2
    <2>. HIDE DEF s, q, writes, revives
    <2>5. TypeOK'
       BY <1>1, <1>2, <1>4, <2>1 DEF TypeOK, RowType, tables, money
    <2>6. Frame(t)
       BY <1>1, <1>4, <2>1 DEF Frame, tables, money
    <2>7. Stable(t)
       BY <1>1, <1>3, <1>4, <2>1, <2>2, <2>3, <2>4
          DEF Stable, Payable, tables, Unfinished, Terminal
    <2>8. Good(t)'
      <3>1. /\ stl'[t] = stl[t] /\ rfd'[t] = rfd[t] /\ earn'[t] = earn[t]
            /\ paid'[t] = paid[t]
         BY <1>1 DEF tables, money
      <3>2. ASSUME ~revived'[t].yes PROVE Ordered(t)'
        <4>1. /\ row[t].st \in Unfinished /\ row'[t].st \in Unfinished
              /\ ~revived[t].yes /\ row'[t].quota = row[t].quota /\ Ordered(t)
           BY <1>1, <1>4, <2>1, <2>2, <2>3, <2>4, <3>2 DEF Good
        <4>. QED  BY <2>1, <3>1, <4>1 DEF Ordered, Payable, Unfinished
      <3>3. s \notin {"new", "charged", "gone"}
         BY <1>3 DEF Unfinished, Terminal
      <3>. QED  BY <1>1, <2>1, <3>1, <3>2, <3>3 DEF Good
    <2>. QED  BY <1>2, <2>5, <2>6, <2>7, <2>8, OneTask
  <1>. QED  BY <1>5, <1>6

----------------------------------------------------------------------------
\* The invariant

\* The invariant holds at the start.
LEMMA InitIInv == Init => IInv
  <1>. SUFFICES ASSUME Init PROVE IInv
     OBVIOUS
  <1>1. AtRest \in Works /\ AtRest.pc = "idle"
     BY TaskAssumption DEF AtRest, Works, PCs, Statuses
  <1>2. TypeOK
    <2>1. /\ row \in [Tasks -> [st : Statuses, quota : Nat, kind : Kinds]]
          /\ up \in [Tasks -> [st : Unfinished \cup Terminal, cost : Nat]]
       BY DEF Init, Statuses, Kinds, Unfinished
    <2>2. stl \in [Tasks -> Stls] /\ rfd \in [Tasks -> Rfds] /\ earn \in [Tasks -> Earns]
       BY DEF Init, NoStl, Stls, NoRfd, Rfds, NoEarn, Earns
    <2>3. work \in [Workers -> Works] /\ revived \in [Tasks -> Views]
       BY <1>1 DEF Init, NotRevived, Views
    <2>. QED  BY <2>1, <2>2, <2>3, QuotaAssumption, BoundAssumption DEF Init, TypeOK
  <1>3. \A t \in Tasks : Good(t)
     BY DEF Init, Good, Ordered, Payable, NoStl, NoRfd, NoEarn, NotRevived, Unfinished
  <1>4. \A w \in Workers : Fits(w)
     BY <1>1 DEF Init, Fits, At
  <1>. QED  BY <1>2, <1>3, <1>4 DEF IInv

\* Every step keeps it, is about one task, and is stable for that task.
LEMMA NextKept == IInv /\ [Next]_vars => Kept
  <1>. SUFFICES ASSUME IInv, [Next]_vars PROVE Kept
     OBVIOUS
  <1>1. ASSUME NEW t \in Tasks,
               \/ SubmitCharge(t) \/ Insert(t) \/ UpstreamMoves(t) \/ RecoverEarning(t)
               \/ \E w \in Pollers : InsertFails(t, w) \/ ReadUnfinished(w, t)
               \/ \E w \in Recoverers : RecoverSettlement(w, t) \/ RecoverRefund(w, t)
               \/ \E w \in Visitors : Visit(w, t)
        PROVE  Kept
    <2>1. CASE UpstreamMoves(t)
       BY <2>1, UpstreamStep
    <2>2. CASE \E w \in Pollers : InsertFails(t, w) \/ ReadUnfinished(w, t)
       BY <2>2, InsertFailsStep, TakeStep DEF Workers
    <2>3. CASE \E w \in Recoverers : RecoverSettlement(w, t) \/ RecoverRefund(w, t)
       BY <2>3, RecoverSettlementStep, TakeStep DEF Workers
    <2>4. CASE \E w \in Visitors : Visit(w, t)
       BY <2>4, TakeStep DEF Workers
    <2>. QED  BY <1>1, <2>1, <2>2, <2>3, <2>4, SubmitChargeStep, InsertStep, RecoverEarningStep
  <1>2. ASSUME NEW w \in Workers, Step(w) \/ Abort(w)
        PROVE  Kept
    <2>1. CASE Abort(w) \/ CasLost(w)
       BY <2>1, LetGoStep
    <2>2. CASE CommitSuccess(w) \/ CommitFailure(w) \/ CommitFreeFailure(w)
                \/ SweepLegacy(w) \/ CommitProgress(w)
       BY <2>2, CommitSuccessStep, CommitFailureStep, CommitRowStep
    <2>3. CASE ProcessSettlement(w) \/ MarkAccounting(w) \/ MarkReady(w)
                \/ SettleEarning(w) \/ Release(w)
       BY <2>3, ProcessSettlementStep, MarkAccountingStep, MarkReadyStep,
          SettleEarningStep, ReleaseStep
    <2>4. CASE CreateRefund(w) \/ ProcessRefund(w) \/ CancelEarning(w) \/ Display(w)
       BY <2>4, CreateRefundStep, ProcessRefundStep, CancelEarningStep, DisplayStep
    <2>. QED  BY <1>2, <2>1, <2>2, <2>3, <2>4 DEF Step
  <1>3. CASE ReferralChanges
     BY <1>3, ReferralStep
  <1>4. CASE \E n \in Quotas : OthersSpend(n)
     BY <1>4, OthersStep
  <1>5. CASE UNCHANGED vars
    <2>1. TypeOK'
       BY <1>5 DEF vars, IInv, TypeOK
    <2>. QED  BY <1>5, <2>1, QuietStep DEF vars, tables
  <1>. QED  BY <1>1, <1>2, <1>3, <1>4, <1>5 DEF Next

\* However the passes, sweeps, recoveries and status queries interleave and
\* wherever they stop, the rows and the workers' copies fit each other.
THEOREM InductiveInvariant == Spec => []IInv
  <1>1. IInv /\ [Next]_vars => IInv'
     BY NextKept DEF Kept
  <1>. QED  BY <1>1, InitIInv, PTL DEF Spec

\* No step leaves a row, a worker's copy or the user's funding outside its
\* type: the funding never becomes negative.
THEOREM TypeCorrect == Spec => []TypeOK
  <1>1. IInv => TypeOK
     BY DEF IInv
  <1>. QED  BY <1>1, InductiveInvariant, PTL

\* A task is never billed twice: the quota of its row is what the user paid
\* (ProcessBillingTaskSettlement, ProcessBillingRefund).
THEOREM BooksAlwaysAgree == Spec => []BooksAgree
  <1>1. IInv => BooksAgree
    <2>. SUFFICES ASSUME IInv, NEW t \in Tasks, ~revived[t].yes
                  PROVE  /\ Persisted(t) /\ row[t].kind # "legacy" => paid[t] = row[t].quota
                         /\ stl[t].status = "complete" => paid[t] = stl[t].act
                         /\ rfd[t].status = "complete" => paid[t] = 0
       BY DEF BooksAgree
    <2>1. Ordered(t)
       BY DEF IInv, Good
    <2>2. /\ stl[t].status \in {"none", "pending", "complete"}
          /\ rfd[t].status \in {"none", "pending", "complete"}
       BY TaskReads DEF IInv
    <2>. QED  BY <2>1, <2>2 DEF Ordered, Persisted, Unfinished, Terminal
  <1>. QED  BY <1>1, InductiveInvariant, PTL

\* The provider's earning becomes payable only after the user was charged its
\* gross amount (MarkHubProviderEarningReady, SettleHubProviderEarning).
THEOREM EarningsFollowSettlements == Spec => []EarningFollowsSettlement
  <1>1. IInv => EarningFollowsSettlement
     BY DEF IInv, EarningFollowsSettlement, Good, Ordered
  <1>. QED  BY <1>1, InductiveInvariant, PTL

\* The provider is never paid for a task that was refunded, revived or not
\* (cancelHubProviderEarningTx in the transaction of the refund).
THEOREM RefundsAreNeverPaid == Spec => []NoPaidRefund
  <1>1. IInv => NoPaidRefund
     BY DEF IInv, NoPaidRefund, Good, Payable
  <1>. QED  BY <1>1, InductiveInvariant, PTL

----------------------------------------------------------------------------
\* Refinement

\* What a step means for the abstract view of t, as long as t is not revived.
LEMMA ViewStep ==
    ASSUME IInv, IInv', NEW t \in Tasks, Stable(t), ~revived[t].yes, ~revived'[t].yes
    PROVE  \/ View(t)' = View(t)
           \/ /\ View(t).outcome = "open" /\ View(t)'.outcome = "charged"
              /\ View(t)'.price \in Nat /\ View(t)'.income = View(t).income
           \/ /\ View(t).outcome = "open" /\ View(t)'.outcome = "returned"
              /\ View(t)'.price = View(t).price /\ View(t)'.income = View(t).income
           \/ /\ View(t).outcome = "charged" /\ View(t).income = 0 /\ View(t).price > 0
              /\ View(t)'.outcome = "charged" /\ View(t)'.price = View(t).price
              /\ View(t)'.income = View(t).price
  <1>. DEFINE n == IF Payable(t) THEN earn[t].gross ELSE 0
              m == IF Payable(t)' THEN earn'[t].gross ELSE 0
  <1>1. /\ View(t) = [yes |-> TRUE, outcome |-> Outcome(t), price |-> stl[t].act,
                      income |-> n]
        /\ View(t)' = [yes |-> TRUE, outcome |-> Outcome(t)', price |-> stl'[t].act,
                       income |-> m]
     BY DEF View
  <1>2. /\ Ordered(t) /\ Ordered(t)' /\ (stl[t].status = "none" => stl[t] = NoStl)
        /\ (stl'[t].status = "none" => stl'[t] = NoStl)
     BY DEF IInv, Good
  <1>3. /\ stl[t].act \in Nat /\ stl'[t].act \in Nat /\ earn[t].gross \in Nat
        /\ earn'[t].gross \in Nat
    <2>1. TypeOK /\ TypeOK'
       BY DEF IInv
    <2>2. stl[t] \in Stls /\ stl'[t] \in Stls /\ earn[t] \in Earns /\ earn'[t] \in Earns
       BY <2>1 DEF TypeOK
    <2>. QED  BY <2>2 DEF Stls, Earns
  <1>4. NoStl.act = 0
     BY DEF NoStl
  <1>5. /\ stl[t].status # "none" => rfd[t].status = "none"
        /\ stl'[t].status # "none" => rfd'[t].status = "none"
        /\ Payable(t) => stl[t].status = "complete" /\ n = stl[t].act
        /\ Payable(t)' => stl'[t].status = "complete" /\ m = stl'[t].act
        /\ ~Payable(t) => n = 0
        /\ ~Payable(t)' => m = 0
     BY <1>2 DEF Ordered
  <1>. HIDE DEF n, m
  <1>6. CASE rfd[t].status # "none"
    <2>1. rfd'[t].status # "none" /\ stl[t] = NoStl /\ stl'[t] = NoStl /\ n = m
       BY <1>2, <1>5, <1>6 DEF Stable
    <2>. QED  BY <1>1, <1>6, <2>1 DEF Outcome
  <1>7. CASE rfd[t].status = "none" /\ stl[t].status # "none"
    <2>1. /\ stl'[t].status # "none" /\ stl'[t].act = stl[t].act /\ rfd'[t].status = "none"
          /\ Payable(t) => Payable(t)'
       BY <1>5, <1>7 DEF Stable
    <2>2. Outcome(t) = "charged" /\ Outcome(t)' = "charged"
       BY <1>7, <2>1 DEF Outcome
    <2>3. n = m \/ (n = 0 /\ m = stl[t].act /\ stl[t].act > 0)
       BY <1>3, <1>5, <2>1
    <2>4. CASE n = m
       BY <1>1, <2>1, <2>2, <2>4
    <2>5. CASE n = 0 /\ m = stl[t].act /\ stl[t].act > 0
       BY <1>1, <2>1, <2>2, <2>5
    <2>. QED  BY <2>3, <2>4, <2>5
  <1>8. CASE rfd[t].status = "none" /\ stl[t].status = "none"
    <2>1. Outcome(t) = "open" /\ n = 0 /\ stl[t].act = 0 /\ m = 0
       BY <1>2, <1>4, <1>5, <1>8 DEF Outcome, Stable
    <2>2. CASE rfd'[t].status # "none"
      <3>1. Outcome(t)' = "returned" /\ stl'[t].act = 0
         BY <1>2, <1>4, <1>5, <2>2 DEF Outcome
      <3>. QED  BY <1>1, <2>1, <3>1
    <2>3. CASE rfd'[t].status = "none" /\ stl'[t].status # "none"
      <3>1. Outcome(t)' = "charged"
         BY <2>3 DEF Outcome
      <3>. QED  BY <1>1, <1>3, <2>1, <3>1
    <2>4. CASE rfd'[t].status = "none" /\ stl'[t].status = "none"
      <3>1. Outcome(t)' = "open" /\ stl'[t].act = 0
         BY <1>2, <1>4, <2>4 DEF Outcome
      <3>. QED  BY <1>1, <2>1, <3>1
    <2>. QED  BY <2>2, <2>3, <2>4
  <1>. QED  BY <1>6, <1>7, <1>8

\* The abstract view of a task, written down when a query revived it.
LEMMA SeenStep ==
    ASSUME IInv, IInv', NEW t \in Tasks, Stable(t)
    PROVE  \/ /\ Seen(t)'.outcome = Seen(t).outcome /\ Seen(t)'.price = Seen(t).price
              /\ Seen(t)'.income = Seen(t).income
           \/ /\ Seen(t).outcome = "open" /\ Seen(t)'.outcome = "charged"
              /\ Seen(t)'.price \in Nat /\ Seen(t)'.income = Seen(t).income
           \/ /\ Seen(t).outcome = "open" /\ Seen(t)'.outcome = "returned"
              /\ Seen(t)'.price = Seen(t).price /\ Seen(t)'.income = Seen(t).income
           \/ /\ Seen(t).outcome = "charged" /\ Seen(t).income = 0 /\ Seen(t).price > 0
              /\ Seen(t)'.outcome = "charged" /\ Seen(t)'.price = Seen(t).price
              /\ Seen(t)'.income = Seen(t).price
  <1>1. CASE revived[t].yes
     BY <1>1 DEF Stable, Seen
  <1>2. CASE ~revived[t].yes /\ revived'[t].yes
     BY <1>2 DEF Stable, Seen
  <1>3. CASE ~revived[t].yes /\ ~revived'[t].yes
    <2>1. Seen(t) = View(t) /\ Seen(t)' = View(t)'
       BY <1>3 DEF Seen
    <2>. QED  BY <1>3, <2>1, ViewStep
  <1>. QED  BY <1>1, <1>2, <1>3

\* The other tasks do not move.
LEMMA SeenElsewhere ==
    ASSUME NEW t \in Tasks, Frame(t)
    PROVE  \A u \in Tasks \ {t} : Seen(u)' = Seen(u)
  BY DEF Frame, Seen, View, Outcome, Payable

\* A step of the code is a step of RequestOutcome or a stutter.
LEMMA AbstractStep ==
    ASSUME IInv, [Next]_vars
    PROVE  [Abstract!Next]_(Abstract!ovars)
  <1>. IInv' /\ \E t \in Tasks : Frame(t) /\ Stable(t)
     BY NextKept DEF Kept
  <1>. PICK t \in Tasks : Frame(t) /\ Stable(t)
     OBVIOUS
  <1>1. \A u \in Tasks \ {t} : Seen(u)' = Seen(u)
     BY SeenElsewhere
  <1>. DEFINE out == [u \in Tasks |-> Seen(u).outcome]
              pri == [u \in Tasks |-> Seen(u).price]
              inc == [u \in Tasks |-> Seen(u).income]
  <1>2. CASE /\ Seen(t)'.outcome = Seen(t).outcome /\ Seen(t)'.price = Seen(t).price
             /\ Seen(t)'.income = Seen(t).income
     BY <1>1, <1>2 DEF Abstract!ovars
  <1>3. CASE /\ Seen(t).outcome = "open" /\ Seen(t)'.outcome = "charged"
             /\ Seen(t)'.price \in Nat /\ Seen(t)'.income = Seen(t).income
    <2>1. Abstract!Commit(t)
      <3>1. out[t] = "open" /\ pri'[t] \in Nat /\ inc' = inc
         BY <1>1, <1>3
      <3>0. \A u \in Tasks : out'[u] = IF u = t THEN "charged" ELSE out[u]
         BY <1>1, <1>3
      <3>2. out' = [out EXCEPT ![t] = "charged"]
         BY <3>0
      <3>3. pri' = [pri EXCEPT ![t] = pri'[t]]
         BY <1>1
      <3>. QED  BY <3>1, <3>2, <3>3 DEF Abstract!Commit
    <2>. QED  BY <2>1 DEF Abstract!Next
  <1>4. CASE /\ Seen(t).outcome = "open" /\ Seen(t)'.outcome = "returned"
             /\ Seen(t)'.price = Seen(t).price /\ Seen(t)'.income = Seen(t).income
    <2>1. Abstract!Return(t)
      <3>1. out[t] = "open" /\ pri' = pri /\ inc' = inc
         BY <1>1, <1>4
      <3>0. \A u \in Tasks : out'[u] = IF u = t THEN "returned" ELSE out[u]
         BY <1>1, <1>4
      <3>2. out' = [out EXCEPT ![t] = "returned"]
         BY <3>0
      <3>. QED  BY <3>1, <3>2 DEF Abstract!Return
    <2>. QED  BY <2>1 DEF Abstract!Next
  <1>5. CASE /\ Seen(t).outcome = "charged" /\ Seen(t).income = 0 /\ Seen(t).price > 0
             /\ Seen(t)'.outcome = "charged" /\ Seen(t)'.price = Seen(t).price
             /\ Seen(t)'.income = Seen(t).price
    <2>1. Abstract!Release(t)
      <3>1. /\ out[t] = "charged" /\ inc[t] = 0 /\ pri[t] > 0 /\ out' = out /\ pri' = pri
         BY <1>1, <1>5
      <3>2. inc' = [inc EXCEPT ![t] = pri[t]]
         BY <1>1, <1>5
      <3>. QED  BY <3>1, <3>2 DEF Abstract!Release
    <2>. QED  BY <2>1 DEF Abstract!Next
  <1>. QED  BY <1>2, <1>3, <1>4, <1>5, SeenStep

\* Asynchronous billing implements RequestOutcome: each commit, refund intent
\* and release is one of its steps, every other step of a worker is a stutter.
THEOREM OutcomeRefined == Spec => ImplementsOutcome
  <1>1. Init => Abstract!Init
    <2>. SUFFICES ASSUME Init PROVE Abstract!Init
       OBVIOUS
    <2>1. ASSUME NEW t \in Tasks
          PROVE  Seen(t).outcome = "open" /\ Seen(t).price = 0 /\ Seen(t).income = 0
       BY DEF Init, Seen, View, Outcome, Payable, NotRevived, NoStl, NoRfd, NoEarn
    <2>. QED  BY <2>1 DEF Abstract!Init
  <1>2. IInv /\ [Next]_vars => [Abstract!Next]_(Abstract!ovars)
     BY AbstractStep
  <1>. QED  BY <1>1, <1>2, InductiveInvariant, PTL DEF Spec, ImplementsOutcome, Abstract!Spec
=============================================================================
