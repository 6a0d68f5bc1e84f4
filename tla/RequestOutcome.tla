--------------------------- MODULE RequestOutcome ---------------------------
(***************************************************************************)
(* What billing promises about a request, whatever order its statements,   *)
(* the recovery workers and crashes come in: the request is charged once   *)
(* or its pre-charge is returned, never both; a provider is paid only for  *)
(* a charged request, once, and exactly the amount charged.                *)
(***************************************************************************)
EXTENDS Naturals

CONSTANTS Requests

VARIABLES
    outcome,  \* "open", "charged" or "returned"
    price,    \* the amount charged
    income    \* the amount owed to the provider

ovars == <<outcome, price, income>>

Init ==
    /\ outcome = [r \in Requests |-> "open"]
    /\ price = [r \in Requests |-> 0]
    /\ income = [r \in Requests |-> 0]

\* The final charge becomes durable.
Commit(r) ==
    /\ outcome[r] = "open"
    /\ outcome' = [outcome EXCEPT ![r] = "charged"]
    /\ price'[r] \in Nat
    /\ price' = [price EXCEPT ![r] = price'[r]]
    /\ UNCHANGED income

\* The return of the pre-charge is decided.
Return(r) ==
    /\ outcome[r] = "open"
    /\ outcome' = [outcome EXCEPT ![r] = "returned"]
    /\ UNCHANGED <<price, income>>

\* The provider's share of the charge is released.
Release(r) ==
    /\ outcome[r] = "charged" /\ income[r] = 0 /\ price[r] > 0
    /\ income' = [income EXCEPT ![r] = price[r]]
    /\ UNCHANGED <<outcome, price>>

Next == \E r \in Requests : Commit(r) \/ Return(r) \/ Release(r)

Spec == Init /\ [][Next]_ovars
============================================================================
