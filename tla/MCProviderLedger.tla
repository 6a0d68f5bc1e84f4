-------------------------- MODULE MCProviderLedger --------------------------
EXTENDS ProviderLedger, TLC

\* Every transfer call repeats the same idempotency key.
SameKey == [c \in Transfers |-> CHOOSE k \in Keys : TRUE]
Symmetry == Permutations(Transfers) \cup Permutations(Withdrawals)
============================================================================
