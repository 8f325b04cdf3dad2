------------------------------ MODULE TaskList ------------------------------
(***************************************************************************)
(* KERNEL's list of tasks: their handles by priority, the lowest first,    *)
(* with each one's record (task_order.rs), the events that PostEvent gives *)
(* a task and WaitEvent takes (kernel_calls/tasks.rs), and what the        *)
(* scheduler does with both as it makes a task and as it grants one the    *)
(* processor (scheduler.rs).                                               *)
(*                                                                         *)
(* A task's handle is a selector, given back as the task ends and given to *)
(* a later one; the slot is the task's alone.  Which of those in line has  *)
(* the processor next is left open: Tasks says.                            *)
(***************************************************************************)
EXTENDS Integers, FiniteSets, SequencesExt

CONSTANTS
  Handle,     \* the handles there are, as numbers
  Delta,      \* what SetPriority adds: a signed byte, as 0 to 255
  MaxSlots,   \* BOUND: tasks made, one after another
  MaxEvents,  \* BOUND: events of one task that PostEvent adds to
  MaxWaiters  \* BOUND: registered waits with which a task begins another

ASSUME ListAssumption == /\ Handle \subseteq Nat
                         /\ Delta \subseteq 0 .. 255
                         /\ MaxSlots \in Nat \ {0}
                         /\ {MaxEvents, MaxWaiters} \subseteq Nat \ {0}

VARIABLES
  slots,    \* the tasks, as they were made (Scheduler.slots)
  order,    \* the list (TaskOrder.order), ended tasks' handles not cleared
  records,  \* a record for each handle that was ever a task's
  lastRan,  \* the slot's handle granted the processor last, if any
  waiters   \* who is woken by whose events (event_waiters)

listVars == <<slots, order, records, lastRan, waiters>>

-----------------------------------------------------------------------------
(* State.                                                                  *)

\* on is the slot whose event the task waits for in WaitEvent, nought else.
Slots == [handle : Handle,
          state : {"ready", "running", "waiting", "ended"}, on : Nat]
Priority == -32 .. 15
WordSize == 65536
Events == 0 .. WordSize - 1
Record == [priority : Priority, events : Events]

\* Before a task has had the handle, a record is one of noughts.
NewRecord == [priority |-> 0, events |-> 0]

LiveIn(ss) == {s \in DOMAIN ss : ss[s].state # "ended"}
HandlesIn(ss) == {ss[s].handle : s \in LiveIn(ss)}

\* The type of the state: no two live tasks have one handle, no two have the
\* processor, and a priority stays in its range whatever was added.
ListTypeOK ==
  /\ slots \in Seq(Slots)
  /\ \A s, u \in LiveIn(slots) :
       s # u => /\ slots[s].handle # slots[u].handle
                /\ ~(slots[s].state = "running" /\ slots[u].state = "running")
  /\ \A s \in DOMAIN slots : slots[s].on \in {0} \cup DOMAIN slots
  /\ order \in Seq(Handle)
  /\ records \in [Handle -> Record]
  /\ lastRan \in {<<>>} \cup {<<h>> : h \in Handle}
  /\ waiters \subseteq Handle \X DOMAIN slots

-----------------------------------------------------------------------------
(* The list.                                                               *)

Apart(l, h) ==
  IF Contains(l, h) THEN RemoveAt(l, CHOOSE i \in DOMAIN l : l[i] = h) ELSE l

\* A handle put before the first of a live task with a priority as high.
Goes(l, i, p, live, rec) ==
  /\ i \in 1 .. Len(l) + 1
  /\ i <= Len(l) => l[i] \in live /\ rec[l[i]].priority >= p
  /\ \A j \in 1 .. i - 1 : l[j] \in live => rec[l[j]].priority < p
Insert(l, h, p, live, rec) ==
  LET rest == Apart(l, h)
  IN InsertAt(rest, CHOOSE i \in 1 .. Len(rest) + 1 :
                      Goes(rest, i, p, live, rec), h)

\* What the list is once a task has been granted the processor.
Ran(l, h, live, rec) ==
  IF lastRan = <<h>> THEN l ELSE Insert(l, h, rec[h].priority + 1, live, rec)

\* The processor, if nobody has it, to one of those in line for it.
HandOn(ss, l, rec) ==
  LET Has(state) == {s \in DOMAIN ss : ss[s].state = state}
  IN \/ /\ Has("running") # {} \/ Has("ready") = {}
        /\ slots' = ss /\ order' = l /\ UNCHANGED lastRan
     \/ /\ Has("running") = {}
        /\ \E s \in Has("ready") :
             /\ slots' = [ss EXCEPT ![s].state = "running"]
             /\ order' = Ran(l, ss[s].handle, HandlesIn(ss), rec)
             /\ lastRan' = <<ss[s].handle>>

-----------------------------------------------------------------------------
(* Tasks made, switched and ended.                                         *)

Runs(s) == s \in DOMAIN slots /\ slots[s].state = "running"

\* The task's program with the processor, in no wait of WaitEvent.
InProgram(s) == Runs(s) /\ slots[s].on = 0

NewSlot(h, state) == [handle |-> h, state |-> state, on |-> 0]

\* The first task has the processor from the start, as no grant gave it.
ListInit ==
  /\ \E h \in Handle :
       /\ \A k \in Handle : h <= k
       /\ slots = <<NewSlot(h, "running")>>
       /\ order = <<h>>
       /\ records = [k \in Handle |-> IF k = h THEN [NewRecord EXCEPT !.events = 1]
                                             ELSE NewRecord]
  /\ lastRan = <<>>
  /\ waiters = {}

\* The handles never given are taken in their order, and one given back may
\* be taken again.
MayTake(h) ==
  /\ h \notin HandlesIn(slots)
  /\ \A k \in Handle : k < h => \E s \in DOMAIN slots : slots[s].handle = k

\* A task made: its record is its handle's, whoever had that before.
MakeTask(h) ==
  LET ss == Append(slots, NewSlot(h, "ready"))
      rec == [records EXCEPT ![h].events = 1]
  IN /\ LiveIn(slots) # {}
     /\ Len(slots) < MaxSlots
     /\ MayTake(h)
     /\ records' = rec
     /\ HandOn(ss, Insert(order, h, rec[h].priority, HandlesIn(ss), rec), rec)
     /\ UNCHANGED waiters

\* The processor given up; one that waits for what is no event is in line here.
GiveUp(s) ==
  /\ InProgram(s)
  /\ HandOn([slots EXCEPT ![s].state = "ready"], order, records)
  /\ UNCHANGED <<records, waiters>>

\* A task waiting for an event is woken by a message or another task.
Signal(s) ==
  /\ slots[s].state = "waiting"
  /\ HandOn([slots EXCEPT ![s].state = "ready"], order, records)
  /\ UNCHANGED <<records, waiters>>

\* A task ends, or is ended: neither its record nor what waits on it goes.
EndTask(s) ==
  /\ s \in LiveIn(slots)
  /\ \/ InProgram(s)
     \/ \E u \in DOMAIN slots : InProgram(u)
  /\ HandOn([slots EXCEPT ![s].state = "ended"], order, records)
  /\ UNCHANGED <<records, waiters>>

\* Every task has ended, and the machine has.
AllEnded == LiveIn(slots) = {} /\ UNCHANGED listVars

-----------------------------------------------------------------------------
(* Calls.                                                                  *)

\* The list cleared to the live tasks', in the order they were (task_list).
GetCurrentTask(s) ==
  /\ InProgram(s)
  /\ \E n \in 0 .. Len(order) : \E left \in [1 .. n -> DOMAIN order] :
       /\ \A i, j \in 1 .. n : i < j => left[i] < left[j]
       /\ {left[i] : i \in 1 .. n}
            = {i \in DOMAIN order : order[i] \in HandlesIn(slots)}
       /\ order' = [i \in 1 .. n |-> order[left[i]]]
  /\ UNCHANGED <<slots, records, lastRan, waiters>>

\* An event for a live task, and those waiting for it woken, once.
PostEvent(s, h) ==
  /\ InProgram(s)
  /\ h \in HandlesIn(slots)
  /\ records[h].events < MaxEvents
  /\ records' = [records EXCEPT ![h].events = (@ + 1) % WordSize]
  /\ waiters' = {w \in waiters : w[1] # h}
  /\ slots' = [u \in DOMAIN slots |->
                 IF <<h, u>> \in waiters /\ slots[u].state = "waiting"
                 THEN [slots[u] EXCEPT !.state = "ready"] ELSE slots[u]]
  /\ UNCHANGED <<order, lastRan>>

\* Mutant: a task already waiting for an event is not put down again.
PutDownOnce(s, t) ==
  IF slots[s].on = t THEN waiters ELSE waiters \cup {<<slots[t].handle, s>>}

\* The waiters with a task that is to wait for another's event.
PutDown(s, t) == waiters \cup {<<slots[t].handle, s>>}

\* A turn of WaitEvent's loop: no task of the handle any more, an event of it
\* taken, or the wait for one.
Turn(s, t) ==
  LET h == slots[t].handle
  IN \/ /\ h \notin HandlesIn(slots)
        /\ slots' = [slots EXCEPT ![s].on = 0]
        /\ UNCHANGED <<order, records, lastRan, waiters>>
     \/ /\ h \in HandlesIn(slots) /\ records[h].events > 0
        /\ records' = [records EXCEPT ![h].events = @ - 1]
        /\ slots' = [slots EXCEPT ![s].on = 0]
        /\ UNCHANGED <<order, lastRan, waiters>>
     \/ /\ h \in HandlesIn(slots) /\ records[h].events = 0
        /\ waiters' = PutDown(s, t)
        /\ HandOn([slots EXCEPT ![s].state = "waiting", ![s].on = t],
                  order, records)
        /\ UNCHANGED records

WaitEvent(s, t) == /\ InProgram(s)
                   /\ t \in LiveIn(slots)
                   /\ Cardinality(waiters) < MaxWaiters
                   /\ Turn(s, t)
WaitAgain(s) == Runs(s) /\ slots[s].on # 0 /\ Turn(s, slots[s].on)

\* Mutant: a signed byte added, and not held to the range.
MovedUnheld(p, d) == ((p + d + 128) % 256) - 128

\* A signed byte added as bytes are, then held to the range.
Moved(p, d) ==
  LET sum == ((p + d + 128) % 256) - 128
  IN IF sum < -32 THEN -32 ELSE IF sum > 15 THEN 15 ELSE sum

\* Mutant: the running task keeps its place whatever its priority becomes.
RunningStays(s, t, same) == s = t

\* The running task stays where it is, its priority as it was.
Stays(s, t, same) == same /\ s = t

\* A task's priority moved: after those of the new one; before them where it
\* is as it was, unless the task is the one running.
SetPriority(s, t, d) ==
  LET h == slots[t].handle
      p == Moved(records[h].priority, d)
      same == p = records[h].priority
      rec == [records EXCEPT ![h].priority = p]
  IN /\ InProgram(s)
     /\ t \in LiveIn(slots)
     /\ records' = rec
     /\ order' = IF Stays(s, t, same) THEN order
                 ELSE Insert(order, h, IF same THEN p ELSE p + 1,
                             HandlesIn(slots), rec)
     /\ UNCHANGED <<slots, lastRan, waiters>>

ListNext ==
  \/ \E h \in Handle : MakeTask(h)
  \/ \E s \in DOMAIN slots :
       \/ GiveUp(s) \/ Signal(s) \/ EndTask(s) \/ GetCurrentTask(s) \/ WaitAgain(s)
       \/ \E h \in Handle : PostEvent(s, h)
       \/ \E t \in DOMAIN slots :
            WaitEvent(s, t) \/ \E d \in Delta : SetPriority(s, t, d)
  \/ AllEnded

ListSpec == ListInit /\ [][ListNext]_listVars

-----------------------------------------------------------------------------
(* Properties.                                                             *)

\* Whatever tasks are made, switched, moved and ended, each live one is in the
\* list once and the live ones are by priority, though the handles of ended
\* tasks lie between them and are given to new ones (task_order.rs:
\* insert_task, which looks only at live tasks).
ListOrdered ==
  LET live == HandlesIn(slots)
  IN /\ \A h \in live : \E i \in DOMAIN order : order[i] = h
     /\ \A i, j \in DOMAIN order :
          i < j => /\ order[i] # order[j]
                   /\ order[i] \in live /\ order[j] \in live
                        => records[order[i]].priority <= records[order[j]].priority

\* A task waiting in WaitEvent for a task that still lives waits while that one
\* has no event, however many others take its events and whatever else wakes
\* it (kernel_calls/tasks.rs: wait_event, post_event).
NoSleepOverEvent ==
  \A s \in DOMAIN slots :
    LET t == slots[s].on
    IN (slots[s].state = "waiting" /\ t # 0 /\ t \in LiveIn(slots))
         => records[slots[t].handle].events = 0
=============================================================================
