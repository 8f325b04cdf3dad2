------------------------------- MODULE Tasks -------------------------------
(***************************************************************************)
(* The tasks of a Windows 3.x machine and the processor they hand each     *)
(* other: the scheduler (scheduler.rs), the calls that give the processor  *)
(* up (tasks.rs: Yield, DirectedYield, WinExec, SendMessage to another     *)
(* task's window; reply_message.rs: ReplyMessage), the wait of GetMessage  *)
(* (queue.rs: look; engine.rs: wait_for_wake), a task's end (exit_slot)    *)
(* and what the host does between two of their steps (engine.rs: round).   *)
(*                                                                         *)
(* Each task is a future that goes on only while it has the processor, so  *)
(* an action here is what one task does from one point at which it may     *)
(* lose the processor to the next.  Where a future waits is its stack of   *)
(* frames, the innermost last; the program's own code runs while the stack *)
(* is empty or its last frame is a procedure that the machine called.      *)
(***************************************************************************)
EXTENDS Integers, FiniteSets, Functions, SequencesExt

CONSTANTS
  Task,       \* the scheduler's slots that a run may come to make
  First,      \* the slot of the program the run begins with
  None,       \* no task
  Calls,      \* the calls and events an instance makes (see CallNames)
  MaxDepth,   \* BOUND: frames on a task's stack when its program calls
  RingSize    \* the places of a queue's ring of posted messages

CallNames ==
  {"send", "reply", "modal", "yield", "exec", "launch", "post", "timer",
   "input", "hotkey", "hook", "paint", "lock", "exit", "terminate"}

ASSUME TaskAssumption == /\ IsFiniteSet(Task)
                         /\ First \in Task
                         /\ None \notin Task
ASSUME CallsAssumption == Calls \subseteq CallNames
ASSUME BoundAssumption == MaxDepth \in Nat /\ RingSize \in Nat

VARIABLES
  life,     \* whether each slot is unmade, live or ended (Slot.ended)
  current,  \* the task that has the processor (Scheduler.current)
  line,     \* those in line for it (Scheduler.waiting)
  wait,     \* Slot.wait; "Timed" is Waiting with a wait_timer set
  locked,   \* the task LockCurrentTask locked (Scheduler.locked)
  stack,    \* where each task's future is, the innermost frame last
  sent,     \* what other tasks sent each, to be taken in order (Slot.sent)
  posted,   \* how many messages lie in each queue's ring
  paint,    \* whether a window of the task's is due to be painted
  input     \* whether the system queue holds an event for a window of it

vars == <<life, current, line, wait, locked, stack, sent, posted, paint,
          input>>

sched == <<current, line, wait>>
queues == <<posted, paint, input>>

-----------------------------------------------------------------------------
(* State.                                                                  *)

Waits == {"Running", "Waiting", "Timed", "Woken"}

\* Where a future can be: not yet begun; in yield_turn; in send_across; in
\* take_sent, the procedure a message was sent to running; in look, at the
\* head of its loop or past the posted messages; in a hook's procedure, or a
\* window's, that the read of the input calls.
Places == {"start", "yield", "send", "answer", "look", "reading", "hook"}

\* peer is the task sent to (send) or answered (answer), depth the place of
\* the answered call on the sender's stack, done whether the answer is given.
Frame ==
  {f \in [at : Places, peer : Task \cup {None}, depth : Nat, done : BOOLEAN] :
     f.peer # None <=> f.at \in {"send", "answer"}}

Message == [from : Task, depth : Nat]

\* The type of the state: the one type invariant of this module.
TypeOK ==
  /\ life \in [Task -> {"unmade", "live", "ended"}]
  /\ current \in Task \cup {None}
  /\ line \in Seq(Task)
  /\ wait \in [Task -> Waits]
  /\ locked \in Task \cup {None}
  /\ stack \in [Task -> Seq(Frame)]
  /\ sent \in [Task -> Seq(Message)]
  /\ posted \in [Task -> Nat]
  /\ paint \in [Task -> BOOLEAN]
  /\ input \in [Task -> BOOLEAN]

Live == {u \in Task : life[u] = "live"}

Plain(place) == [at |-> place, peer |-> None, depth |-> 0, done |-> FALSE]
SendTo(u) == [at |-> "send", peer |-> u, depth |-> 0, done |-> FALSE]
AnswerTo(m) == [at |-> "answer", peer |-> m.from, depth |-> m.depth,
                done |-> FALSE]

Top(t) == stack[t][Len(stack[t])]
Push(s, t, f) == [s EXCEPT ![t] = Append(@, f)]
Pop(s, t) == [s EXCEPT ![t] = SubSeq(@, 1, Len(@) - 1)]

\* The machine's code of a task's, at a place, with the processor.
At(t, places) == /\ current = t
                 /\ wait[t] = "Running"
                 /\ stack[t] # <<>>
                 /\ Top(t).at \in places

\* The task's program's own code, with the processor.
InGuest(t) == /\ current = t
              /\ wait[t] = "Running"
              /\ stack[t] # <<>> => Top(t).at \in {"answer", "hook"}

\* A call a program makes, where the instance makes it.
Makes(t, call) == call \in Calls /\ InGuest(t)

Deeper(t) == Len(stack[t]) < MaxDepth

\* A live task that has begun to run, and may have made windows.
HasRun(u) == u \in Live /\ (stack[u] # <<>> => stack[u][1].at # "start")

\* The host acts between two slices of a program's instructions, with no
\* task to go on, or after a round that left the processor where it was
\* with nothing run: senders woken to no answer, passing it round.
HostTurn == current # None =>
              \/ InGuest(current)
              \/ wait[current] = "Woken"

-----------------------------------------------------------------------------
(* The scheduler.                                                          *)

Asleep(w, u) == w[u] \in {"Waiting", "Timed"}

\* The place of a task in the line, which holds it once.
PlaceOf(l, u) == CHOOSE i \in DOMAIN l : l[i] = u
Without(l, u) == IF Contains(l, u) THEN RemoveAt(l, PlaceOf(l, u)) ELSE l
\* Mutant: a task named keeps its place.
KeepPlace(l, u) == l
MoveFirst(l, u) == IF Contains(l, u) THEN <<u>> \o Without(l, u) ELSE l

\* What signal_slot makes of the waits and of the line.
Woken(w, S) == [u \in Task |-> IF u \in S /\ Asleep(w, u) THEN "Woken"
                                                          ELSE w[u]]
Enter(w, l, u) ==
  IF Asleep(w, u) /\ ~Contains(l, u) /\ u # current THEN Append(l, u) ELSE l

\* The first alive in the line l switched to, those ended before it dropped.
PassOver(l, alive) ==
  \/ /\ \A i \in DOMAIN l : l[i] \notin alive
     /\ current' = None
     /\ line' = <<>>
  \/ \E i \in DOMAIN l :
       /\ l[i] \in alive
       /\ \A j \in 1 .. i - 1 : l[j] \notin alive
       /\ current' = l[i]
       /\ line' = SubSeq(l, i + 1, Len(l))

\* Mutant: the lock forgotten.
GrantAnyone(l, alive) == PassOver(l, alive)

\* The processor, nobody's, granted: to the task locked alone, or to nobody
\* while that one is not in line; with none locked, to the first in line.
Grant(l, alive) ==
  \/ /\ locked \in alive
     /\ current' = IF Contains(l, locked) THEN locked ELSE None
     /\ line' = Without(l, locked)
  \/ locked \notin alive /\ PassOver(l, alive)

\* Mutant: the line changed and nobody granted the processor.
SettleLine(l, alive) == line' = l /\ UNCHANGED current

\* The processor granted where nobody has it; else the line changed alone.
Settle(l, alive) ==
  \/ current = None /\ Grant(l, alive)
  \/ current # None /\ line' = l /\ UNCHANGED current

\* Mutant: nobody woken to paint.
DueNone(t, w) == {}

\* The tasks asleep with a window due, but t, and the orders (the windows'
\* own, from the top) they can be woken in.
Due(t, w) == {u \in Live \ {t} : paint[u] /\ Asleep(w, u)}

Orders(S) == Bijection(1 .. Cardinality(S), S)

\* The processor given up by t, the waits being w and the line l: those
\* with a window due woken behind the line, and the next granted it.
Release(t, w, l, alive) ==
  \E order \in Orders(Due(t, w)) :
    /\ wait' = Woken(w, Due(t, w))
    /\ Grant(l \o order, alive)

-----------------------------------------------------------------------------
(* A task with the processor goes on.                                      *)

\* A task made is run once it is granted the processor.
Start(t) ==
  /\ At(t, {"start"})
  /\ stack' = Pop(stack, t)
  /\ UNCHANGED <<life, sched, locked, sent, queues>>

\* A task woken has the processor again: a sender answered goes on with its
\* answer before it takes anything sent to it.
Resume(t) ==
  /\ current = t
  /\ wait[t] = "Woken"
  /\ wait' = [wait EXCEPT ![t] = "Running"]
  /\ stack' = IF Top(t).at = "send" /\ Top(t).done THEN Pop(stack, t)
                                                   ELSE stack
  /\ UNCHANGED <<life, current, line, locked, sent, queues>>

\* Mutants: a sender takes nothing while it waits; the newest taken first.
TakeUnlessSending(t) ==
  /\ At(t, {"yield", "look"})
  /\ sent[t] # <<>>
  /\ sent' = [sent EXCEPT ![t] = Tail(@)]
  /\ stack' = Push(stack, t, AnswerTo(Head(sent[t])))
  /\ UNCHANGED <<life, sched, locked, queues>>
TakeNewest(t) ==
  /\ At(t, {"yield", "send", "look"})
  /\ sent[t] # <<>>
  /\ sent' = [sent EXCEPT ![t] = Front(@)]
  /\ stack' = Push(stack, t, AnswerTo(Last(sent[t])))
  /\ UNCHANGED <<life, sched, locked, queues>>

\* The oldest message sent the task is taken, and its procedure called.
TakeNext(t) ==
  /\ At(t, {"yield", "send", "look"})
  /\ sent[t] # <<>>
  /\ sent' = [sent EXCEPT ![t] = Tail(@)]
  /\ stack' = Push(stack, t, AnswerTo(Head(sent[t])))
  /\ UNCHANGED <<life, sched, locked, queues>>

\* With nothing sent left, a yield is over.
YieldDone(t) ==
  /\ At(t, {"yield"})
  /\ sent[t] = <<>>
  /\ stack' = Pop(stack, t)
  /\ UNCHANGED <<life, sched, locked, sent, queues>>

\* With nothing sent left, a sender goes on with the answer that came
\* meanwhile, or waits again for it.
SendDone(t) ==
  /\ At(t, {"send"})
  /\ sent[t] = <<>>
  /\ \/ /\ Top(t).done
        /\ stack' = Pop(stack, t)
        /\ UNCHANGED sched
     \/ /\ ~Top(t).done
        /\ Release(t, [wait EXCEPT ![t] = "Waiting"], line, Live)
        /\ UNCHANGED stack
  /\ UNCHANGED <<life, locked, sent, queues>>

-----------------------------------------------------------------------------
(* What a look finds, in its order: what was sent (TakeNext), what was     *)
(* posted, the input, a window to paint, a timer; else the task waits.     *)

\* Mutant: read without looking whether the ring holds a message.
ReadUnseen(t) ==
  /\ At(t, {"look"})
  /\ sent[t] = <<>>
  /\ posted' = [posted EXCEPT ![t] = @ - 1]
  /\ stack' = Pop(stack, t)
  /\ UNCHANGED <<life, sched, locked, sent, paint, input>>

ReadPosted(t) ==
  /\ At(t, {"look"})
  /\ sent[t] = <<>>
  /\ posted[t] > 0
  /\ posted' = [posted EXCEPT ![t] = @ - 1]
  /\ stack' = Pop(stack, t)
  /\ UNCHANGED <<life, sched, locked, sent, paint, input>>

Reading(t) == \/ At(t, {"look"}) /\ sent[t] = <<>> /\ posted[t] = 0
              \/ At(t, {"reading"})

ReadInput(t) ==
  /\ Reading(t)
  /\ input[t]
  /\ input' = [input EXCEPT ![t] = FALSE]
  /\ stack' = Pop(stack, t)
  /\ UNCHANGED <<life, sched, locked, sent, posted, paint>>

\* Mutant: a message posted with its task left asleep.
PostQuietly(u) ==
  /\ posted' = [posted EXCEPT ![u] = IF @ < RingSize THEN @ + 1 ELSE @]
  /\ UNCHANGED sched

\* A message posted, where the ring has room, and its task woken.
PostTo(u) ==
  IF posted[u] < RingSize
  THEN /\ posted' = [posted EXCEPT ![u] = @ + 1]
       /\ wait' = Woken(wait, {u})
       /\ line' = Enter(wait, line, u)
       /\ UNCHANGED current
  ELSE UNCHANGED <<posted, sched>>

\* The stack of a look that has come past the posted messages.
PastPosted(t) == [stack EXCEPT ![t][Len(stack[t])] = Plain("reading")]

\* Control and Escape, or a hot key, read: the queue takes the key for
\* itself, posts to the active window and reads on.
ReadHotKey(t, u) ==
  /\ "hotkey" \in Calls
  /\ Reading(t)
  /\ input[t]
  /\ HasRun(u)
  /\ input' = [input EXCEPT ![t] = FALSE]
  /\ stack' = PastPosted(t)
  /\ PostTo(u)
  /\ UNCHANGED <<life, locked, sent, paint>>

\* The event handed to a hook, or to the window it is for, on its way.
ReadThroughHook(t) ==
  /\ "hook" \in Calls
  /\ Reading(t)
  /\ input[t]
  /\ Deeper(t)
  /\ input' = [input EXCEPT ![t] = FALSE]
  /\ stack' = Push(PastPosted(t), t, Plain("hook"))
  /\ UNCHANGED <<life, sched, locked, sent, posted, paint>>

\* The hook returns: the event is taken, or thrown away and the read goes on.
HookReturn(t) ==
  /\ At(t, {"hook"})
  /\ \/ stack' = Pop(stack, t)
     \/ stack' = Pop(Pop(stack, t), t)
  /\ UNCHANGED <<life, sched, locked, sent, queues>>

\* Past the input -- none, or another task holding it: a window to paint, a
\* timer due; or to wait, as long as the next timer's time where it has one,
\* and look again from the head of the loop.
LookFurther(t) ==
  /\ Reading(t)
  /\ \/ /\ paint[t] \/ "timer" \in Calls
        /\ stack' = Pop(stack, t)
        /\ UNCHANGED sched
     \/ /\ ~paint[t]
        /\ stack' = [stack EXCEPT ![t][Len(stack[t])] = Plain("look")]
        /\ \E w \in {"Waiting"} \cup {x \in {"Timed"} : "timer" \in Calls} :
             Release(t, [wait EXCEPT ![t] = w], line, Live)
  /\ UNCHANGED <<life, locked, sent, queues>>

-----------------------------------------------------------------------------
(* The calls a program makes.                                              *)

\* GetMessage: the program's own loop's, or a modal one's in a procedure.
GetMessage(t) ==
  /\ InGuest(t)
  /\ stack[t] # <<>> => "modal" \in Calls
  /\ Deeper(t)
  /\ stack' = Push(stack, t, Plain("look"))
  /\ UNCHANGED <<life, sched, locked, sent, queues>>

\* SendMessage to a window of another task's: queued for it, that task woken
\* and put first in line, and the sender waiting for its answer.
Send(t, u) ==
  /\ Makes(t, "send")
  /\ u # t
  /\ HasRun(u)
  /\ Deeper(t)
  /\ sent' = [sent EXCEPT
                ![u] = Append(@, [from |-> t, depth |-> Len(stack[t]) + 1])]
  /\ stack' = Push(stack, t, SendTo(u))
  /\ Release(t, [Woken(wait, {u}) EXCEPT ![t] = "Waiting"],
             MoveFirst(Enter(wait, line, u), u), Live)
  /\ UNCHANGED <<life, locked, queues>>

\* The answer put where the sender finds it, unless the sender has ended.
GiveAnswer(s, f) ==
  IF f.depth \in DOMAIN s[f.peer]
  THEN [s EXCEPT ![f.peer][f.depth].done = TRUE]
  ELSE s

\* Mutants: the sender handed the processor and this task left out of the
\* line; the sender woken and no more.
HandBackForgotten(t, to) ==
  LET w == Woken(wait, {to})
      l == Enter(wait, line, to)
  IN IF Contains(l, to)
     THEN Release(t, w, MoveFirst(l, to), Live)
     ELSE wait' = w /\ line' = l /\ UNCHANGED current
SignalOnly(t, to) ==
  wait' = Woken(wait, {to}) /\ line' = Enter(wait, line, to)
    /\ UNCHANGED current

\* The sender woken, and where it then waits for the processor, it goes on
\* at once and t is in line behind every other.
HandBack(t, to) ==
  LET w == Woken(wait, {to})
      l == Enter(wait, line, to)
  IN IF Contains(l, to)
     THEN Release(t, w, Append(MoveFirst(l, to), t), Live)
     ELSE wait' = w /\ line' = l /\ UNCHANGED current

\* Mutant: what a procedure returns taken after ReplyMessage too.
AnswerAgain(t) ==
  /\ At(t, {"answer"})
  /\ stack' = GiveAnswer(Pop(stack, t), Top(t))
  /\ HandBack(t, Top(t).peer)
  /\ UNCHANGED <<life, locked, sent, queues>>

\* The procedure a sent message called returns, which answers it, unless
\* ReplyMessage has.
ReturnAnswer(t) ==
  /\ At(t, {"answer"})
  /\ IF Top(t).done
     THEN stack' = Pop(stack, t) /\ UNCHANGED sched
     ELSE /\ stack' = GiveAnswer(Pop(stack, t), Top(t))
          /\ HandBack(t, Top(t).peer)
  /\ UNCHANGED <<life, locked, sent, queues>>

\* ReplyMessage: the message being answered, the latest taken, answered now.
Reply(t) ==
  /\ Makes(t, "reply")
  /\ \E i \in DOMAIN stack[t] :
       /\ stack[t][i].at = "answer"
       /\ \A j \in DOMAIN stack[t] : j > i => stack[t][j].at # "answer"
       /\ ~stack[t][i].done
       /\ stack' = GiveAnswer([stack EXCEPT ![t][i].done = TRUE],
                              stack[t][i])
       /\ HandBack(t, stack[t][i].peer)
  /\ UNCHANGED <<life, locked, sent, queues>>

\* Yield, and PeekMessage with nothing to take: behind every task in line,
\* those with a window to paint among them; with none, it keeps its turn.
Yield(t) ==
  /\ Makes(t, "yield")
  /\ Deeper(t)
  /\ stack' = Push(stack, t, Plain("yield"))
  /\ \/ /\ line # <<>>
        /\ Release(t, wait, Append(line, t), Live)
     \/ /\ line = <<>>
        /\ Due(t, wait) # {}
        /\ \E order \in Orders(Due(t, wait)) :
             /\ wait' = Woken(wait, Due(t, wait))
             /\ Grant(Append(order, t), Live)
     \/ /\ line = <<>>
        /\ Due(t, wait) = {}
        /\ UNCHANGED sched
  /\ UNCHANGED <<life, locked, sent, queues>>

\* DirectedYield: the task named first, where it is in line.
DirectedYield(t, u) ==
  /\ Makes(t, "yield")
  /\ Deeper(t)
  /\ u # t
  /\ stack' = Push(stack, t, Plain("yield"))
  /\ Release(t, wait, Append(IF u \in Live THEN MoveFirst(line, u) ELSE line,
                             t), Live)
  /\ UNCHANGED <<life, locked, sent, queues>>

\* A task made: its state as it begins.
Made(u) ==
  /\ life[u] = "unmade"
  /\ life' = [life EXCEPT ![u] = "live"]

\* WinExec: a task made, first in line, and the processor yielded to it.
Exec(t, u) ==
  /\ Makes(t, "exec")
  /\ Deeper(t)
  /\ Made(u)
  /\ stack' = Push(Push(stack, u, Plain("start")), t, Plain("yield"))
  /\ Release(t, wait, Append(<<u>> \o line, t), Live \cup {u})
  /\ UNCHANGED <<locked, sent, queues>>

\* PostMessage to a window of any task's.
Post(t, u) ==
  /\ Makes(t, "post")
  /\ HasRun(u)
  /\ PostTo(u)
  /\ UNCHANGED <<life, locked, stack, sent, paint, input>>

\* A window of any task's made due to be painted: nobody is woken for it
\* until the processor is given up.
Invalidate(t, u) ==
  /\ Makes(t, "paint")
  /\ HasRun(u)
  /\ paint' = [paint EXCEPT ![u] = TRUE]
  /\ UNCHANGED <<life, sched, locked, stack, sent, posted, input>>

\* A task paints its own.
BeginPaint(t) ==
  /\ InGuest(t)
  /\ paint[t]
  /\ paint' = [paint EXCEPT ![t] = FALSE]
  /\ UNCHANGED <<life, sched, locked, stack, sent, posted, input>>

\* LockCurrentTask, and the task unlocked.
Lock(t) ==
  /\ Makes(t, "lock")
  /\ \E l \in {t, None} : locked' = l
  /\ UNCHANGED <<life, sched, stack, sent, queues>>

\* What a task's end leaves of it: its windows and its queue gone.
Gone(u) ==
  /\ life' = [life EXCEPT ![u] = "ended"]
  /\ stack' = [stack EXCEPT ![u] = <<>>]
  /\ posted' = [posted EXCEPT ![u] = 0]
  /\ paint' = [paint EXCEPT ![u] = FALSE]
  /\ input' = [input EXCEPT ![u] = FALSE]
  /\ UNCHANGED <<locked, sent, wait>>

\* The running task ends itself, in a procedure it was sent a message in
\* too: the next in line is granted the processor.
Exit(t) ==
  /\ Makes(t, "exit")
  /\ Gone(t)
  /\ Grant(Without(line, t), Live \ {t})

\* TerminateApp of another task.
Terminate(t, u) ==
  /\ Makes(t, "terminate")
  /\ u \in Live \ {t}
  /\ Gone(u)
  /\ line' = Without(line, u)
  /\ UNCHANGED current

-----------------------------------------------------------------------------
(* The host.                                                               *)

\* The host, or time, wakes a task that sleeps, which has the processor if
\* nobody has.
WakeUp(u) ==
  /\ wait' = Woken(wait, {u})
  /\ IF Asleep(wait, u) THEN Settle(Enter(wait, line, u), Live)
                        ELSE UNCHANGED <<current, line>>

\* A wait's time comes, a task's that has ended meanwhile too.
TimeComes(u) ==
  /\ HostTurn
  /\ wait[u] = "Timed"
  /\ WakeUp(u)
  /\ UNCHANGED <<life, locked, stack, sent, queues>>

\* A key or the mouse, for a window of a task's.
HostInput(u) ==
  /\ "input" \in Calls
  /\ HostTurn
  /\ HasRun(u)
  /\ input' = [input EXCEPT ![u] = TRUE]
  /\ WakeUp(u)
  /\ UNCHANGED <<life, locked, stack, sent, posted, paint>>

\* A program launched beside those running: last in line.
Launch(u) ==
  /\ "launch" \in Calls
  /\ HostTurn
  /\ Made(u)
  /\ stack' = Push(stack, u, Plain("start"))
  /\ Settle(Append(line, u), Live \cup {u})
  /\ UNCHANGED <<wait, locked, sent, queues>>

-----------------------------------------------------------------------------
(* The specification.                                                      *)

Init ==
  /\ life = [u \in Task |-> IF u = First THEN "live" ELSE "unmade"]
  /\ current = First
  /\ line = <<>>
  /\ wait = [u \in Task |-> "Running"]
  /\ locked = None
  /\ stack = [u \in Task |-> <<>>]
  /\ sent = [u \in Task |-> <<>>]
  /\ posted = [u \in Task |-> 0]
  /\ paint = [u \in Task |-> FALSE]
  /\ input = [u \in Task |-> FALSE]

\* What the machine itself does of a task that has the processor.
Engine(t) ==
  \/ Start(t) \/ Resume(t)
  \/ TakeNext(t) \/ YieldDone(t) \/ SendDone(t)
  \/ ReadPosted(t) \/ ReadInput(t) \/ ReadThroughHook(t) \/ LookFurther(t)
  \/ \E u \in Task : ReadHotKey(t, u)

\* What its program does.
Program(t) ==
  \/ GetMessage(t) \/ ReturnAnswer(t) \/ HookReturn(t)
  \/ Reply(t) \/ Yield(t) \/ BeginPaint(t) \/ Lock(t) \/ Exit(t)
  \/ \E u \in Task : \/ Send(t, u) \/ DirectedYield(t, u) \/ Exec(t, u)
                     \/ Post(t, u) \/ Invalidate(t, u) \/ Terminate(t, u)

Host == \E u \in Task : TimeComes(u) \/ HostInput(u) \/ Launch(u)

Next == Host \/ \E t \in Task : Engine(t) \/ Program(t)

Spec == Init /\ [][Next]_vars

\* What is assumed where something must come about: the engine polls the
\* task that has the processor (round), a program comes back to its loop
\* from whatever it does meanwhile, and each procedure, however deep, returns.
ProgramsGoOn ==
  \A t \in Task :
    /\ SF_vars(stack[t] = <<>> /\ GetMessage(t))
    /\ \A d \in 2 .. MaxDepth + 1 :
         SF_vars(Len(stack[t]) = d /\ (ReturnAnswer(t) \/ HookReturn(t)))

LiveSpec == Spec /\ (\A t \in Task : WF_vars(Engine(t))) /\ ProgramsGoOn

-----------------------------------------------------------------------------
(* Properties.                                                             *)

\* Every live task has its turn in one way: it has the processor, or is in
\* the line once, or sleeps and will be woken -- never two of these, and
\* never none, a task that nothing would come back to (scheduler.rs:
\* signal_slot, queue_for_processor, release, grant).
OneTurnEach ==
  /\ IsInjective(line)
  /\ ~Contains(line, current)
  /\ \A u \in Live : Contains(line, u) \/ u = current <=> ~Asleep(wait, u)
  /\ current # None => current \in Live

\* The processor is not nobody's while a live task is in line for it and
\* none is locked (scheduler.rs: grant after every change of the line).
NoIdleProcessor ==
  current = None /\ locked \notin Live => \A u \in Live : ~Contains(line, u)

\* Where a message that a live task sent and waits for an answer to may be.
Queued(t, d, u) == {i \in DOMAIN sent[u] :
                      sent[u][i] = [from |-> t, depth |-> d]}
Handled(t, d, u) == {i \in DOMAIN stack[u] :
                       /\ stack[u][i].at = "answer"
                       /\ stack[u][i].peer = t
                       /\ stack[u][i].depth = d
                       /\ ~stack[u][i].done}

\* A message sent is in one place until it is answered: in its target's
\* queue once, or in one procedure of the target's that has not answered it
\* -- and in neither once answered.  So none is lost while its target lives,
\* and none answered twice, whatever replies, nested sends, ends of senders
\* and yields come between (tasks.rs: send_across, take_sent; ReplyMessage).
CallsHeld ==
  \A t \in Live : \A d \in DOMAIN stack[t] :
    LET f == stack[t][d] IN
    f.at = "send" /\ f.peer \in Live =>
      Cardinality(Queued(t, d, f.peer)) + Cardinality(Handled(t, d, f.peer))
        = IF f.done THEN 0 ELSE 1

\* No task sleeps over a message sent to it, nor over the answer to the one
\* it sent (tasks.rs: send_across looks at both before it waits again).
NoSleepOverSent ==
  \A u \in Live : Asleep(wait, u) =>
    sent[u] = <<>> /\ (Top(u).at = "send" => ~Top(u).done)

\* No task sleeps in GetMessage over a message posted to it: "waits to be
\* woken -- by a message posted or sent" (engine.rs: wait_for_wake).
NoSleepOverPosted ==
  \A u \in Live : Asleep(wait, u) /\ Top(u).at = "look" => posted[u] = 0

\* With nobody running, no task sleeps in GetMessage over a window due to be
\* painted: each giving up of the processor wakes the others that have one
\* (raster_input.rs: wake_except).
NoSleepOverPaint ==
  current = None =>
    \A u \in Live : Asleep(wait, u) /\ Top(u).at = "look" => ~paint[u]

\* Two tasks never have a message each queued for the other: the task sent
\* to runs next (tasks.rs: send_across, "never cross").
NeverCross ==
  \A t, u \in Live :
    ~ /\ \E i \in DOMAIN sent[t] : sent[t][i].from = u
      /\ \E i \in DOMAIN sent[u] : sent[u][i].from = t

\* A send gives the processor to the task sent to, and an answer to a sender
\* that waits gives it back, whoever else is in line, unless a locked task
\* is to have it (tasks.rs: send_across, hand_back).
HandedOver ==
  [][locked \notin Live =>
       \A u \in Task :
         /\ (\E t \in Task : Send(t, u)) => current' = u
         /\ \A i \in DOMAIN stack[u] \cap DOMAIN stack'[u] :
              stack[u][i].at = "send" /\ ~stack[u][i].done
                /\ stack'[u][i].done => current' = u]_vars

\* Every call comes back to its sender, which comes out of all it is in: with
\* programs that go on, and neither wait in a procedure, nor end, nor lock
\* the processor, no ring of senders waits on itself and none is overtaken
\* for ever (tasks.rs: send_across takes what it is sent while it waits).
Calling(t, d) == d \in DOMAIN stack[t] /\ stack[t][d].at = "send"
CallsReturn ==
  \A t \in Task : (\E d \in DOMAIN stack[t] : Calling(t, d))
                    ~> (\A d \in DOMAIN stack[t] : ~Calling(t, d))

\* While a locked task lives on, no other is switched to (scheduler.rs:
\* grant).
LockHolds ==
  [][locked' = locked /\ locked \in Live /\ life'[locked] = "live"
       => current' \in {current, locked, None}]_vars
=============================================================================
