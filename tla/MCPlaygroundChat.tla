------------------------- MODULE MCPlaygroundChat --------------------------
(* Replies of two tokens, the first of which repeats itself; visits that     *)
(* interrupt a generation, and editors that stay open during one.            *)
EXTENDS PlaygroundChat

Replies == <<<<"a", "a">>, <<"a", "b">>>>

TwoScenarios == {[editor |-> FALSE, clicks |-> 1, visits |-> 1],
                 [editor |-> TRUE, clicks |-> 2, visits |-> 0]}
=============================================================================
