----------------------------- MODULE TasksCalls -----------------------------
(* The tasks implement the calls they make of each other (SendCall).       *)
EXTENDS Tasks

\* How deep a task's frames go: a message is taken above all it may call.
Depths == 1 .. MaxDepth + 1

CallAt(s, t, d) ==
  IF d \notin DOMAIN s[t] \/ s[t][d].at # "send" THEN "none"
  ELSE IF s[t][d].done THEN "answered" ELSE "open"
CallsOn(s) == [t \in Task |-> [d \in Depths |-> CallAt(s, t, d)]]

AnswerAt(s, t, i) == [at |-> i, from |-> s[t][i].peer,
                      depth |-> s[t][i].depth, replied |-> s[t][i].done]
AnswersOn(s) == [t \in Task |->
  {AnswerAt(s, t, i) : i \in {j \in DOMAIN s[t] : s[t][j].at = "answer"}}]

Across == INSTANCE SendCall WITH
  Depth <- Depths,
  ended <- {t \in Task : life[t] = "ended"},
  call <- CallsOn(stack),
  queue <- sent,
  handling <- AnswersOn(stack)

\* The scheduler's tasks, whatever they interleave, keep what SendMessage
\* promises: each call taken in order, answered once, by the task it was sent
\* to, as the latest that task took, and returned innermost first (tasks.rs:
\* send_across, take_sent; reply_message.rs).
SendsAsCalls == Across!Spec
=============================================================================
