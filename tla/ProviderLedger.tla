--------------------------- MODULE ProviderLedger ---------------------------
(***************************************************************************)
(* What a provider does with its settled income: withdrawals that an       *)
(* administrator approves, pays or rejects, and transfers to the owner's   *)
(* balance (model/hub_provider_settlement.go).  A call reads several sums  *)
(* and then writes; the calls of one provider are kept apart only by the   *)
(* row lock on hub_providers, which neither settlements, adjustments nor   *)
(* the administrator's updates take.  Each statement is a step; what a     *)
(* transaction writes is visible when it commits, with its last step.      *)
(***************************************************************************)
EXTENDS Integers, FiniteSets, FiniteSetsExt

CONSTANTS
    Transfers,    \* calls of CreateHubProviderBalanceTransfer
    Withdrawals,  \* calls of CreateHubProviderWithdrawal, and their rows
    Keys,         \* idempotency keys
    KeyOf,        \* the key each transfer call is made with
    Amounts,      \* amounts asked for and earned
    Minimum,      \* MinimumWithdrawalQuota
    MaxIncome,    \* bound: income that is settled
    MaxClawback,  \* bound: negative manual adjustments
    Nobody

Calls == Transfers \cup Withdrawals

ASSUME CallAssumption ==
    /\ Transfers \cap Withdrawals = {} /\ Nobody \notin Calls
    /\ KeyOf \in [Transfers -> Keys]
    /\ IsFiniteSet(Withdrawals) /\ IsFiniteSet(Keys)
ASSUME AmountAssumption ==
    /\ Amounts \subseteq Nat \ {0}
    /\ {Minimum, MaxIncome, MaxClawback} \subseteq Nat

VARIABLES
    income,   \* settled entries of the ledger other than transfers, summed
    clawed,   \* history: the negative adjustments among them
    moved,    \* balance_transfer entry of each key, 0 if there is none
    credit,   \* what the owner's user row was credited
    wd,       \* hub_provider_withdrawals rows
    lock,     \* the call that holds the provider's row lock
    call      \* progress, amount and sum read of each call

vars == <<income, clawed, moved, credit, wd, lock, call>>

Open == {"pending", "approved"}
NoWd == [status |-> "none", amount |-> 0]
Wds == [status : Open \cup {"none", "paid", "rejected"}, amount : Nat]
Fresh == [pc |-> "start", amount |-> 0, earned |-> 0]
PCs == {"start", "lock", "check", "earned", "reserved", "write", "done", "refused"}

TypeOK ==
    /\ income \in Int /\ clawed \in Nat /\ credit \in Nat
    /\ moved \in [Keys -> Nat]
    /\ wd \in [Withdrawals -> Wds]
    /\ lock \in Calls \cup {Nobody}
    /\ call \in [Calls -> [pc : PCs, amount : Nat, earned : Int]]

Init ==
    /\ income = 0 /\ clawed = 0 /\ credit = 0
    /\ moved = [k \in Keys |-> 0]
    /\ wd = [w \in Withdrawals |-> NoWd]
    /\ lock = Nobody
    /\ call = [c \in Calls |-> Fresh]

----------------------------------------------------------------------------
\* Sums the calls read

Transferred == SumFunction(moved)

\* status <> rejected.
Held == {w \in Withdrawals : wd[w].status \notin {"none", "rejected"}}
Reserved == SumFunction([w \in Withdrawals |-> IF w \in Held THEN wd[w].amount ELSE 0])

----------------------------------------------------------------------------
\* The ledger moves on its own

\* A usage earning or a referral share is settled, or an administrator adds a
\* positive adjustment.
Earn(n) ==
    /\ income + clawed + n <= MaxIncome
    /\ income' = income + n
    /\ UNCHANGED <<clawed, moved, credit, wd, lock, call>>

\* CreateHubProviderManualAdjustment with a negative amount: no balance is
\* checked and no lock taken.
ClawBack(n) ==
    /\ clawed + n <= MaxClawback
    /\ income' = income - n
    /\ clawed' = clawed + n
    /\ UNCHANGED <<moved, credit, wd, lock, call>>

----------------------------------------------------------------------------
\* The steps both calls share

At(c, p) == call[c].pc = p
Goto(c, p) == call' = [call EXCEPT ![c].pc = p]
others == <<income, clawed, moved, credit, wd>>

\* A withdrawal below the minimum is refused under the lock, with nothing read.
Start(c, a) ==
    /\ At(c, "start")
    /\ c \in Withdrawals => a >= Minimum
    /\ call' = [call EXCEPT ![c].pc = "lock", ![c].amount = a]
    /\ UNCHANGED <<others, lock>>

\* Mutant of Free: the provider row is read without FOR UPDATE.
FreeAlways(c) == TRUE

Free(c) == lock = Nobody

Lock(c) ==
    /\ At(c, "lock")
    /\ Free(c)
    /\ lock' = c
    /\ Goto(c, "check")
    /\ UNCHANGED others

\* The transaction ends: committed or rolled back, the lock is gone.
End(c, p) ==
    /\ lock' = IF lock = c THEN Nobody ELSE lock
    /\ Goto(c, p)

ReadEarned(c) ==
    /\ At(c, "earned")
    /\ call' = [call EXCEPT ![c].pc = "reserved", ![c].earned = income - Transferred]
    /\ UNCHANGED <<others, lock>>

CheckAvailable(c) ==
    /\ At(c, "reserved")
    /\ IF call[c].amount > call[c].earned - Reserved
       THEN End(c, "refused")
       ELSE Goto(c, "write") /\ UNCHANGED lock
    /\ UNCHANGED others

\* An error or a crash before the commit rolls the transaction back; the
\* client may make the call again.
RollBack(c) ==
    /\ call[c].pc \in {"check", "earned", "reserved", "write"}
    /\ End(c, "start")
    /\ UNCHANGED others

----------------------------------------------------------------------------
\* CreateHubProviderBalanceTransfer

\* Mutant of Known: every call is a new transfer.
KnownNever(c) == FALSE

Known(c) == moved[KeyOf[c]] > 0

CheckKey(c) ==
    /\ At(c, "check")
    /\ \/ /\ Known(c)
          /\ End(c, IF moved[KeyOf[c]] = call[c].amount THEN "done" ELSE "refused")
       \/ /\ ~Known(c)
          /\ Goto(c, "earned")
          /\ UNCHANGED lock
    /\ UNCHANGED others

\* Mutant of Credited: the owner's row is updated with the ledger's amount.
CreditedEntry(n) == credit - n

Credited(n) == credit + n

WriteTransfer(c) ==
    /\ At(c, "write")
    /\ moved' = [moved EXCEPT ![KeyOf[c]] = call[c].amount]
    /\ credit' = Credited(call[c].amount)
    /\ End(c, "done")
    /\ UNCHANGED <<income, clawed, wd>>

----------------------------------------------------------------------------
\* CreateHubProviderWithdrawal and UpdateHubProviderWithdrawalStatus

CheckOpen(c) ==
    /\ At(c, "check")
    /\ IF \E w \in Withdrawals : wd[w].status \in Open
       THEN End(c, "refused")
       ELSE Goto(c, "earned") /\ UNCHANGED lock
    /\ UNCHANGED others

WriteWithdrawal(c) ==
    /\ At(c, "write")
    /\ wd' = [wd EXCEPT ![c] = [status |-> "pending", amount |-> call[c].amount]]
    /\ End(c, "done")
    /\ UNCHANGED <<income, clawed, moved, credit>>

ValidTransition(from, to) ==
    \/ from = "pending" /\ to \in {"approved", "paid", "rejected"}
    \/ from = "approved" /\ to \in {"paid", "rejected"}

\* The administrator's update holds the lock of the withdrawal alone.
UpdateStatus(w, to) ==
    /\ ValidTransition(wd[w].status, to)
    /\ wd' = [wd EXCEPT ![w].status = to]
    /\ UNCHANGED <<income, clawed, moved, credit, lock, call>>

----------------------------------------------------------------------------
Next ==
    \/ \E n \in Amounts : Earn(n) \/ ClawBack(n)
    \/ \E c \in Calls :
          \/ \E a \in Amounts : Start(c, a)
          \/ Lock(c) \/ ReadEarned(c) \/ CheckAvailable(c) \/ RollBack(c)
    \/ \E c \in Transfers : CheckKey(c) \/ WriteTransfer(c)
    \/ \E c \in Withdrawals : CheckOpen(c) \/ WriteWithdrawal(c)
    \/ \E w \in Withdrawals, to \in {"approved", "paid", "rejected"} : UpdateStatus(w, to)

Spec == Init /\ [][Next]_vars

----------------------------------------------------------------------------
\* Properties

\* "Amounts already requested for withdrawal, paid out or moved to the balance
\* cannot be used again" (docs/llmhub/service-tier-routing-hardening.md:74):
\* whatever calls interleave, what left the ledger was once earned.  Only a
\* negative adjustment made afterwards can leave the provider overdrawn.
NeverSpentTwice == Reserved + Transferred <= income + clawed

\* A repeated transfer call credits the owner once: the balance and the ledger
\* tell the same story at every moment.
CreditMatchesLedger == credit = Transferred
============================================================================
