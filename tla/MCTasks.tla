------------------------------ MODULE MCTasks ------------------------------
(* Tasks and their calls for TLC: the tasks but the first are alike.       *)
EXTENDS TasksCalls

Alike == Permutations(Task \ {First})
=============================================================================
