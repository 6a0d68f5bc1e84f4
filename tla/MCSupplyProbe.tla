--------------------------- MODULE MCSupplyProbe ---------------------------
(* One model, one runner and one tester, for TLC: an edited channel with an *)
(* administrator at work, and a busier one with a fault; and a channel that *)
(* is disabled by hand while a check of its balance is running.             *)
EXTENDS SupplyProbe

TwoBudgets == {[edits |-> 1, admin |-> 1, faults |-> 0],
               [edits |-> 0, admin |-> 2, faults |-> 1]}
OneFault == {[edits |-> 0, admin |-> 1, faults |-> 1]}
============================================================================
