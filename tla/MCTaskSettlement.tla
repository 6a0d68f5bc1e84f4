-------------------------- MODULE MCTaskSettlement --------------------------
(***************************************************************************)
(* One task, two passes, a recovery worker and a user who asks for the     *)
(* status: in each behaviour one thing goes wrong on top of the races.     *)
(***************************************************************************)
EXTENDS TaskSettlement

None == [aborts |-> 0, referrals |-> 0, spends |-> 0, visits |-> 0]
OneFault == {[None EXCEPT !.aborts = 1], [None EXCEPT !.referrals = 1],
             [None EXCEPT !.spends = 1], [None EXCEPT !.visits = 1]}
============================================================================
