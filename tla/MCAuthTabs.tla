----------------------------- MODULE MCAuthTabs -----------------------------
(* Two tabs of one browser, for TLC: one login that is refreshed, kept       *)
(* through password changes and either reloaded or cut off from an answer,   *)
(* and two logins under every hazard at once.                                *)
EXTENDS AuthTabs

CONSTANTS s1, s2

OneLogin == [locks |-> TRUE, grace |-> FALSE, lookup |-> FALSE, rotations |-> TRUE,
             logins |-> {s1}, ops |-> 5, reloads |-> 0, faults |-> 0]
TwoLogins == [locks |-> FALSE, grace |-> TRUE, lookup |-> TRUE, rotations |-> TRUE,
              logins |-> {s1, s2}, ops |-> 5, reloads |-> 0, faults |-> 0]
ThreeEnvironments ==
    {[OneLogin EXCEPT !.reloads = 1], [OneLogin EXCEPT !.faults = 1], TwoLogins}
=============================================================================
