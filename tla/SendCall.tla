------------------------------ MODULE SendCall ------------------------------
(***************************************************************************)
(* What SendMessage to another task's window promises, with no processor,  *)
(* no line and no waits: a task's calls and the messages it handles nest;  *)
(* what is sent to a task is taken by it in the order it was sent; the     *)
(* latest message taken is the one answered, once, by ReplyMessage or as   *)
(* its procedure returns; and a call returns once it is answered and all   *)
(* that was begun within it is over.                                       *)
(***************************************************************************)
EXTENDS Naturals, Sequences

CONSTANTS Task, Depth   \* the tasks, and how deep what they do nests

VARIABLES
  ended,      \* the tasks that have ended
  call,       \* the state of each task's call at each depth
  queue,      \* what was sent to each task and is yet to be taken
  handling    \* what each task has taken and not done with, each at a depth

calls == <<ended, call, queue, handling>>

Init ==
  /\ ended = {}
  /\ call = [t \in Task |-> [d \in Depth |-> "none"]]
  /\ queue = [t \in Task |-> <<>>]
  /\ handling = [t \in Task |-> {}]

\* Nothing that t calls or handles is at d or deeper.
Clear(t, d) == /\ \A e \in Depth : e >= d => call[t][e] = "none"
               /\ \A m \in handling[t] : m.at < d

Ask(t, u, d) ==
  /\ t # u /\ {t, u} \cap ended = {}
  /\ Clear(t, d)
  /\ call' = [call EXCEPT ![t][d] = "open"]
  /\ queue' = [queue EXCEPT ![u] = Append(@, [from |-> t, depth |-> d])]
  /\ UNCHANGED <<ended, handling>>

Take(u, d) ==
  /\ u \notin ended
  /\ queue[u] # <<>>
  /\ Clear(u, d)
  /\ queue' = [queue EXCEPT ![u] = Tail(@)]
  /\ handling' = [handling EXCEPT ![u] = @ \cup
                    {[at |-> d, from |-> Head(queue[u]).from,
                      depth |-> Head(queue[u]).depth, replied |-> FALSE]}]
  /\ UNCHANGED <<ended, call>>

\* The answer to a message: nothing where its sender has ended.
Answers(m) ==
  /\ ~m.replied
  /\ \/ m.from \in ended /\ UNCHANGED call
     \/ /\ m.from \notin ended
        /\ call[m.from][m.depth] = "open"
        /\ call' = [call EXCEPT ![m.from][m.depth] = "answered"]

\* The latest message u took, with all that was begun within it over.
Latest(u, m) == m \in handling[u] /\ Clear(u, m.at + 1)

Reply(u, m) ==
  /\ Latest(u, m)
  /\ Answers(m)
  /\ handling' = [handling EXCEPT ![u] =
                    (@ \ {m}) \cup {[m EXCEPT !.replied = TRUE]}]
  /\ UNCHANGED <<ended, queue>>

Finish(u, m) ==
  /\ Latest(u, m)
  /\ Answers(m) \/ (m.replied /\ UNCHANGED call)
  /\ handling' = [handling EXCEPT ![u] = @ \ {m}]
  /\ UNCHANGED <<ended, queue>>

Return(t, d) ==
  /\ call[t][d] = "answered" /\ Clear(t, d + 1)
  /\ call' = [call EXCEPT ![t][d] = "none"]
  /\ UNCHANGED <<ended, queue, handling>>

\* A task that ends answers nothing more, and awaits nothing.
End(t) ==
  /\ t \notin ended
  /\ ended' = ended \cup {t}
  /\ call' = [call EXCEPT ![t] = [d \in Depth |-> "none"]]
  /\ handling' = [handling EXCEPT ![t] = {}]
  /\ UNCHANGED queue

Next == \E t \in Task :
  \/ \E u \in Task, d \in Depth : Ask(t, u, d)
  \/ \E d \in Depth : Take(t, d) \/ Return(t, d)
  \/ \E m \in handling[t] : Reply(t, m) \/ Finish(t, m)
  \/ End(t)

Spec == Init /\ [][Next]_calls
=============================================================================
