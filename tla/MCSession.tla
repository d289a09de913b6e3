------------------------------ MODULE MCSession ------------------------------
(* Instances of Session small enough for TLC: up to three tasks, of which   *)
(* one or two open and close the session.                                   *)
EXTENDS Session

CONSTANTS o, p, r          \* tasks

OneOwner   == {o}
TwoOwners  == {o, p}
TwoTasks   == {o, p}
ThreeTasks == {o, p, r}

\* the two owners are alike
Symmetry == Permutations(TwoOwners)
==============================================================================
