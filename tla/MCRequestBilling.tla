-------------------------- MODULE MCRequestBilling --------------------------
EXTENDS RequestBilling

CONSTANTS r1, r2

\* A supplier's request with several amounts, and one from the playground that
\* competes with it for the same accounts.
TwoRequests == {r1, r2}
Amounts == [r \in TwoRequests |-> IF r = r1 THEN {0, 1, 2} ELSE {1}]
Balances2 == [wallet |-> 2, subscription |-> 2, token |-> 2]
SubscriptionFirst == {<<"subscription", "wallet">>}
=============================================================================
