------------------------------- MODULE MCOwn --------------------------------
(* What a task keeps of its own, its messages posted, its timers and its    *)
(* local heap, in one run of TLC: they share no state, and each goes on     *)
(* alone, the others as they began.  BOUND: of the heap's handles only one  *)
(* is locked, and each is given no discard level but its number.            *)
EXTENDS MessageRing, Timers, LocalHeap

VARIABLE part  \* the one that goes on

OwnInit == part \in {"ring", "timers", "heap"} /\ Init /\ TimersInit /\ HeapInit

FewHandles ==
  \A e \in DOMAIN entries' :
    entries'[e].level \in {0, e} /\ (e # 1 => entries'[e].locks = 0)

OwnNext ==
  /\ UNCHANGED part
  /\ \/ part = "ring" /\ Next /\ UNCHANGED <<timersVars, heapVars>>
     \/ part = "timers" /\ TimersNext /\ UNCHANGED <<vars, heapVars>>
     \/ part = "heap" /\ HeapNext /\ FewHandles /\ UNCHANGED <<vars, timersVars>>

OwnSpec == OwnInit /\ [][OwnNext]_<<part, vars, timersVars, heapVars>>

\* The types of the timers' and of the heap's state: its arenas, as roundings and
\* thresholds leave them, have room for their words (local.rs: alloc, compact, cut).
OwnTypeOK == TimersTypeOK /\ HeapTypeOK
=============================================================================
