--------------------------- MODULE MCSystemQueue ---------------------------
(* The system queue for TLC: its tasks are alike.                          *)
EXTENDS SystemQueue

Get(kinds) == [remove |-> TRUE, wait |-> TRUE, kinds |-> kinds]
Peek(kinds) == [remove |-> FALSE, wait |-> FALSE, kinds |-> kinds]
Mouse == {"press", "move"}

JustGet == {Get(AllKinds)}
GetOrPeek == {Get(AllKinds), Peek(Mouse)}

Alike == Permutations(Task)
=============================================================================
