---------------------------- MODULE SystemQueue ----------------------------
(***************************************************************************)
(* USER's system queue: the keyboard's and the mouse's events, one queue   *)
(* for every task, each given its window only as a look comes to it        *)
(* (system_queue.rs: take_input, read_input, consider; queue.rs: look).    *)
(* One task at a time is to read it, the holder of the input's lock.       *)
(*                                                                         *)
(* There is no scheduler here (Tasks has it): a task with its program's    *)
(* own code to run may do so at any time, since a program may give the     *)
(* processor up anywhere in it; but what the machine does for a task, from *)
(* one such point to the next, nothing comes between.                      *)
(***************************************************************************)
EXTENDS Integers, FiniteSets, Functions, SequencesExt

CONSTANTS
  Task,       \* the tasks
  None,       \* no task
  Kinds,      \* the kinds of input an instance puts in (see InputKinds)
  Ways,       \* how the programs of an instance look (see Way)
  Features,   \* what else its programs do (see FeatureNames)
  MaxEvents,  \* BOUND: events put in
  MaxPosts,   \* BOUND: messages posted
  MaxDepth    \* BOUND: frames on a task's stack, looks and what they answer

InputKinds == {"key", "press", "move"}
AllKinds == InputKinds \cup {"posted"}

\* A look: whether it takes what it finds, whether it waits, what it asks for.
Way == [remove : BOOLEAN, wait : BOOLEAN, kinds : SUBSET AllKinds]
FeatureNames == {"keyhook", "mousehook", "meanwhile", "sent", "end"}

ASSUME TasksAssumption == IsFiniteSet(Task) /\ None \notin Task
ASSUME KindsAssumption == /\ Kinds \subseteq InputKinds
                          /\ Ways \subseteq Way
                          /\ Features \subseteq FeatureNames
ASSUME LimitsAssumption == /\ MaxEvents \in Nat \ {0}
                           /\ {MaxPosts, MaxDepth} \subseteq Nat

VARIABLES
  live,      \* the tasks that have not ended
  queue,     \* the events not yet taken, the oldest first (System.input)
  serials,   \* the events put in (message_serials)
  focus,     \* whose window keys are for (System.focus)
  lock,      \* who holds the input (input_lock)
  first,     \* whether the holder's look only looked (input_first)
  mark,      \* the mark of what came last for the holder (input_mark)
  taken,     \* the mark of what each task took last (Queue.taken_mark)
  posted,    \* the marks of the messages posted to each (Queue.messages)
  posts,     \* how many marks were given out (post_mark)
  stack,     \* each task's looks and the procedures they call, inmost last
  given      \* the events handed over, in order

vars == <<live, queue, serials, focus, lock, first, mark, taken, posted,
          posts, stack, given>>

-----------------------------------------------------------------------------
(* State.                                                                  *)

INPUT_MARK == 1

\* over is the task whose window is under the mouse there.
Event == [serial : 1 .. MaxEvents, kind : InputKinds, over : Task \cup {None}]
NoEvent == [serial |-> 0, kind |-> "key", over |-> None]

\* Where a look can be: at the head of its loop; past the input that is read
\* first; reading; asleep, or woken and waiting for the processor; or in a
\* procedure it calls: the window asked what the mouse is on, the hook asked
\* about the mouse's event, the window told of it, the hook of a key.
Machine == {"loop", "posted", "read"}
Procedures == {"hit", "asked", "told", "key"}
Places == Machine \cup Procedures \cup {"asleep", "woken", "sent"}

\* A look under way: whether it reads before what was posted, where in the
\* queue it is, and the event it considers, with the place it was taken from.
\* A "sent" frame is the procedure of a message another task sent.
Frame == [at : Places, way : Way, early : BOOLEAN, index : 1 .. MaxEvents + 1,
          back : 1 .. MaxEvents, one : Event \cup {NoEvent}]

\* The type of the state: the one type invariant of this module.  A posted
\* message's mark is one given out, and never the input's.
TypeOK ==
  /\ live \subseteq Task
  /\ queue \in Seq(Event)
  /\ serials \in 0 .. MaxEvents
  /\ focus \in Task \cup {None}
  /\ lock \in Task \cup {None}
  /\ first \in BOOLEAN
  /\ posts \in 0 .. MaxPosts
  /\ {mark} \cup Range(taken) \subseteq 0 .. INPUT_MARK + posts
  /\ posted \in [Task -> Seq(INPUT_MARK + 1 .. INPUT_MARK + posts)]
  /\ taken \in [Task -> Nat]
  /\ stack \in [Task -> Seq(Frame)]
  /\ given \in Seq(1 .. MaxEvents)

LookFrame(place, way) == [at |-> place, way |-> way, early |-> FALSE,
                          index |-> 1, back |-> 1, one |-> NoEvent]
SentFrame ==
  LookFrame("sent", [remove |-> FALSE, wait |-> FALSE, kinds |-> {}])

Top(t) == stack[t][Len(stack[t])]
At(t, places) == stack[t] # <<>> /\ Top(t).at \in places
Replace(s, t, f) == [s EXCEPT ![t] = Append(Front(@), f)]
Change(t, f) == Replace(stack, t, f)
Leave(t) == [stack EXCEPT ![t] = Front(@)]

\* Nothing comes between what the machine does for another task.
Quiet(t) == \A u \in Task \ {t} : ~At(u, Machine)

\* The machine goes on for a task; the task's program's own code does.
Runs(t, place) == At(t, {place}) /\ Quiet(t)
InGuest(t) == /\ t \in live
              /\ stack[t] # <<>> => At(t, Procedures \cup {"sent"})
              /\ Quiet(t)
Returns(t, place) == InGuest(t) /\ At(t, {place})

\* A task that waits woken (signal_slot).
Signal(s, u) ==
  IF u \in live /\ s[u] # <<>> /\ Last(s[u]).at = "asleep"
  THEN Replace(s, u, [Last(s[u]) EXCEPT !.at = "woken"])
  ELSE s

InSent(t) == \E i \in DOMAIN stack[t] : stack[t][i].at = "sent"

-----------------------------------------------------------------------------
(* The lock on the input.                                                  *)

\* Mutant: the lock let go by any look of its holder's.
LetGoAlways(t) == IF InSent(t) \/ lock = t THEN None ELSE lock

\* What a look, as it begins, leaves of the lock: let go by a task that
\* answers a message sent to it, whoever holds it, and by its holder where
\* what that took last is what was marked last for it.
LetGo(t) == IF InSent(t) \/ (lock = t /\ mark = taken[t]) THEN None ELSE lock

\* Mutant: the lock not looked at.
MayHoldAnyway(t) == TRUE

\* Whether a look of a task's may hold the input.
MayHold(t) == lock \in {None, t} \/ lock \notin live

\* Whether the queue holds what a look asks for.
LooksAtInput(kinds) == \E e \in Range(queue) : e.kind \in kinds

\* The lock once a look of t's has found no input.
Unheld(t) == IF lock = t THEN None ELSE lock

-----------------------------------------------------------------------------
(* What comes in.                                                          *)

\* The queue with an event put in: a move over a move at the end of it takes
\* that one's place.
Put(e) ==
  IF e.kind = "move" /\ queue # <<>> /\ Last(queue).kind = "move"
  THEN Append(Front(queue), e)
  ELSE Append(queue, e)

\* The host puts an event in, and the task it would be for now is woken.
HostInput(kind, u) ==
  /\ \A t \in Task : Quiet(t)
  /\ serials < MaxEvents
  /\ kind = "key" \/ u \in live
  /\ kind = "key" => u = None
  /\ serials' = serials + 1
  /\ queue' = Put([serial |-> serials + 1, kind |-> kind, over |-> u])
  /\ stack' = Signal(stack, IF kind = "key" THEN focus ELSE u)
  /\ UNCHANGED <<live, focus, lock, first, mark, taken, posted, posts, given>>

\* Mutant: the first mark given out is the input's.
NextMarkFromNought == posts + 1

NextMark == INPUT_MARK + posts + 1

\* PostMessage: where its task holds the input, the message is marked as the
\* last for it.  (Meanwhile: to a task in a procedure that its look calls.)
Post(t, u) ==
  /\ InGuest(t)
  /\ u \in live
  /\ posts < MaxPosts
  /\ At(u, Procedures) => "meanwhile" \in Features
  /\ posts' = posts + 1
  /\ posted' = [posted EXCEPT ![u] = Append(@, NextMark)]
  /\ mark' = IF lock = u THEN NextMark ELSE mark
  /\ stack' = Signal(stack, u)
  /\ UNCHANGED <<live, queue, serials, focus, lock, first, taken, given>>

\* SetFocus, and the windows made active or destroyed that move the focus.
SetFocus(t, u) ==
  /\ InGuest(t)
  /\ u \in live \cup {None}
  /\ focus' = u
  /\ UNCHANGED <<live, queue, serials, lock, first, mark, taken, posted,
                 posts, stack, given>>

-----------------------------------------------------------------------------
(* A look.                                                                 *)

\* Whether a look that does not wait has anything to look at.
Something(t, kinds) ==
  (posted[t] # <<>> /\ "posted" \in kinds) \/ LooksAtInput(kinds)

\* GetMessage, PeekMessage, and the looks of USER's own loops.
Look(t, way) ==
  /\ InGuest(t)
  /\ Len(stack[t]) < MaxDepth
  /\ way.wait \/ Something(t, way.kinds)
  /\ lock' = LetGo(t)
  /\ stack' = [stack EXCEPT ![t] = Append(@, LookFrame("loop", way))]
  /\ UNCHANGED <<live, queue, serials, focus, first, mark, taken, posted,
                 posts, given>>

\* A task that waited has the processor again.
Wake(t) ==
  /\ Runs(t, "woken")
  /\ stack' = Change(t, [Top(t) EXCEPT !.at = "loop"])
  /\ UNCHANGED <<live, queue, serials, focus, lock, first, mark, taken,
                 posted, posts, given>>

\* The input comes first after a look of the holder's that only looked.
InputFirst(t) == lock = t /\ first /\ LooksAtInput(Top(t).way.kinds)

\* The read begins, where the look may hold the input.
Begin(t, early) ==
  /\ lock' = t
  /\ first' = ~Top(t).way.remove
  /\ stack' = Change(t, [Top(t) EXCEPT !.at = "read", !.early = early,
                                       !.index = 1])
  /\ UNCHANGED <<live, queue, serials, focus, mark, taken, posted, posts,
                 given>>

BeginEarly(t) == Runs(t, "loop") /\ InputFirst(t) /\ Begin(t, TRUE)

\* What was posted is what the look comes to.
AtPosted(t) == \/ Runs(t, "loop") /\ ~InputFirst(t)
               \/ Runs(t, "posted")
FindsPosted(t) == "posted" \in Top(t).way.kinds /\ posted[t] # <<>>

\* The oldest message posted taken, or only looked at.
TakePosted(t) ==
  /\ AtPosted(t)
  /\ FindsPosted(t)
  /\ IF Top(t).way.remove
     THEN /\ posted' = [posted EXCEPT ![t] = Tail(@)]
          /\ taken' = [taken EXCEPT ![t] = Head(posted[t])]
     ELSE taken' = [taken EXCEPT ![t] = INPUT_MARK] /\ UNCHANGED posted
  /\ stack' = Leave(t)
  /\ UNCHANGED <<live, queue, serials, focus, lock, first, mark, posts, given>>

BeginRead(t) ==
  /\ AtPosted(t)
  /\ ~FindsPosted(t)
  /\ LooksAtInput(Top(t).way.kinds) /\ MayHold(t)
  /\ Begin(t, FALSE)

\* No input for the look: the lock let go, it goes on to what was posted, or
\* waits, or is over.
NoInput(t, s) ==
  /\ lock' = Unheld(t)
  /\ \/ /\ Top(t).early
        /\ stack' = Replace(s, t, [Top(t) EXCEPT !.at = "posted",
                                                !.early = FALSE])
     \/ /\ ~Top(t).early /\ Top(t).way.wait
        /\ stack' = Replace(s, t, LookFrame("asleep", Top(t).way))
     \/ /\ ~Top(t).early /\ ~Top(t).way.wait
        /\ stack' = [s EXCEPT ![t] = Front(@)]

\* Another task holding the input, or none of it asked for.
ReadNone(t) ==
  /\ AtPosted(t)
  /\ ~FindsPosted(t)
  /\ ~(LooksAtInput(Top(t).way.kinds) /\ MayHold(t))
  /\ NoInput(t, stack)
  /\ UNCHANGED <<live, queue, serials, focus, first, mark, taken, posted,
                 posts, given>>

\* The queue come to its end.
ReadEnd(t) ==
  /\ Runs(t, "read")
  /\ Top(t).index > Len(queue)
  /\ NoInput(t, stack)
  /\ UNCHANGED <<live, queue, serials, focus, first, mark, taken, posted,
                 posts, given>>

-----------------------------------------------------------------------------
(* An event considered.                                                    *)

Place(e) == CHOOSE i \in DOMAIN queue : queue[i] = e
Queued(e) == e \in Range(queue)
Less(e) == IF Queued(e) THEN RemoveAt(queue, Place(e)) ELSE queue

\* The read goes on: past an event not asked for; from where an event thrown
\* away was, or is.
After(e, index) == IF Queued(e) THEN Place(e) + 1 ELSE index
From(q, index) == IF index <= Len(q) THEN index ELSE Len(q) + 1
ReadOn(t, index) ==
  Change(t, [Top(t) EXCEPT !.at = "read", !.index = index, !.one = NoEvent])

\* In a procedure the look calls about an event.
Call(t, place, e) == Change(t, [Top(t) EXCEPT !.at = place, !.one = e])

\* The event handed over, taken or only looked at.
HandOver(t, e) ==
  /\ mark' = INPUT_MARK
  /\ taken' = [taken EXCEPT ![t] = INPUT_MARK]
  /\ given' = IF Top(t).way.remove THEN Append(given, e.serial) ELSE given
  /\ stack' = Leave(t)

Target(e) == IF e.kind = "key" THEN focus ELSE e.over

Considers(t, e) ==
  /\ Runs(t, "read")
  /\ Top(t).index \in DOMAIN queue
  /\ e = queue[Top(t).index]

\* For no window: thrown away.
ForNobody(t) ==
  \E e \in Range(queue) :
    /\ Considers(t, e)
    /\ Target(e) \notin live
    /\ queue' = Less(e)
    /\ stack' = ReadOn(t, From(Less(e), Top(t).index))
    /\ UNCHANGED <<live, serials, focus, lock, first, mark, taken, posted,
                   posts, given>>

\* Mutant: the other's event passed over.
Overlook(t) ==
  \E e \in Range(queue) :
    /\ Considers(t, e)
    /\ Target(e) \in live \ {t}
    /\ stack' = Replace(Signal(stack, Target(e)), t,
         [Top(t) EXCEPT !.index = After(e, Top(t).index)])
    /\ UNCHANGED <<live, queue, serials, focus, lock, first, mark, taken,
                   posted, posts, given>>

\* Mutant: the other not woken.
StopQuietly(t) ==
  \E e \in Range(queue) :
    /\ Considers(t, e)
    /\ Target(e) \in live \ {t}
    /\ NoInput(t, stack)
    /\ UNCHANGED <<live, queue, serials, focus, first, mark, taken, posted,
                   posts, given>>

\* For another task's window: that task is woken, and the read ends.
Elsewhere(t) ==
  \E e \in Range(queue) :
    /\ Considers(t, e)
    /\ Target(e) \in live \ {t}
    /\ NoInput(t, Signal(stack, Target(e)))
    /\ UNCHANGED <<live, queue, serials, focus, first, mark, taken, posted,
                   posts, given>>

\* A key for this task's window that the look does not ask for: passed over.
PassOver(t) ==
  \E e \in Range(queue) :
    /\ Considers(t, e)
    /\ e.kind = "key" /\ Target(e) = t
    /\ "key" \notin Top(t).way.kinds
    /\ stack' = ReadOn(t, After(e, Top(t).index))
    /\ UNCHANGED <<live, queue, serials, focus, lock, first, mark, taken,
                   posted, posts, given>>

\* A key it asks for: out of the queue where the look takes it, and then the
\* hooks asked.
ReadKey(t) ==
  \E e \in Range(queue) :
    /\ Considers(t, e)
    /\ e.kind = "key" /\ Target(e) = t
    /\ "key" \in Top(t).way.kinds
    /\ queue' = IF Top(t).way.remove THEN Less(e) ELSE queue
    /\ \/ /\ "keyhook" \in Features
          /\ stack' = Call(t, "key", e)
          /\ UNCHANGED <<mark, taken, given>>
       \/ HandOver(t, e)
    /\ UNCHANGED <<live, serials, focus, lock, first, posted, posts>>

\* The hook of a key returns: the key is handed over, or thrown away.
KeyReturn(t) ==
  LET e == Top(t).one IN
  /\ Returns(t, "key")
  /\ \/ HandOver(t, e) /\ UNCHANGED queue
     \/ /\ queue' = Less(e)
        /\ stack' = ReadOn(t, From(Less(e), Top(t).index))
        /\ UNCHANGED <<mark, taken, given>>
  /\ UNCHANGED <<live, serials, focus, lock, first, posted, posts>>

\* The mouse's over this task's window, which is asked what it is on.
ReadMouse(t) ==
  \E e \in Range(queue) :
    /\ Considers(t, e)
    /\ e.kind # "key" /\ Target(e) = t
    /\ stack' = Call(t, "hit", e)
    /\ UNCHANGED <<live, queue, serials, focus, lock, first, mark, taken,
                   posted, posts, given>>

\* The mouse's event that the look asks for, past the hooks: out of the queue
\* where the look takes it, and the window told of it.
Resolved(t, e) ==
  \/ /\ Top(t).way.remove
     /\ queue' = Less(e)
     /\ stack' = Change(t, [Top(t) EXCEPT !.at = "told", !.one = e,
                              !.back = IF Queued(e) THEN Place(e) ELSE 1])
     /\ UNCHANGED <<mark, taken, given>>
  \/ /\ ~Top(t).way.remove
     /\ HandOver(t, e)
     /\ UNCHANGED queue

Thrown(t, e) ==
  /\ queue' = Less(e)
  /\ stack' = ReadOn(t, From(Less(e), Top(t).index))
  /\ UNCHANGED <<mark, taken, given>>

\* Mutant: the event not looked for again.
HitReturnBlind(t) ==
  LET e == Top(t).one IN
  /\ Returns(t, "hit")
  /\ \/ e.kind \in Top(t).way.kinds /\ Resolved(t, e)
     \/ Thrown(t, e)
  /\ UNCHANGED <<live, serials, focus, lock, first, posted, posts>>

\* The window has answered.  Another look of its own may have taken the event
\* meanwhile, or another move its place, and the read begins again; not asked
\* for, it is passed over; on no part of a window, thrown away.
HitReturn(t) ==
  LET e == Top(t).one IN
  /\ Returns(t, "hit")
  /\ \/ /\ ~Queued(e)
        /\ stack' = ReadOn(t, 1)
        /\ UNCHANGED <<queue, mark, taken, given>>
     \/ /\ Queued(e) /\ e.kind \notin Top(t).way.kinds
        /\ stack' = ReadOn(t, After(e, Top(t).index))
        /\ UNCHANGED <<queue, mark, taken, given>>
     \/ /\ Queued(e) /\ e.kind \in Top(t).way.kinds
        /\ \/ /\ "mousehook" \in Features
              /\ stack' = Call(t, "asked", e)
              /\ UNCHANGED <<queue, mark, taken, given>>
           \/ Resolved(t, e)
           \/ Thrown(t, e)
  /\ UNCHANGED <<live, serials, focus, lock, first, posted, posts>>

\* The mouse's hook returns: the event goes on, or is thrown away.
AskedReturn(t) ==
  LET e == Top(t).one IN
  /\ Returns(t, "asked")
  /\ Resolved(t, e) \/ Thrown(t, e)
  /\ UNCHANGED <<live, serials, focus, lock, first, posted, posts>>

\* The window told of the event taken has made itself active and shown its
\* cursor: the event is handed over, or thrown away, or -- the window
\* disabled -- put back and looked at again.
ToldReturn(t) ==
  LET e == Top(t).one
      back == From(queue, Top(t).back)
  IN
  /\ Returns(t, "told")
  /\ \/ HandOver(t, e) /\ UNCHANGED queue
     \/ /\ stack' = ReadOn(t, IF Queued(e) THEN Place(e)
                              ELSE From(queue, Top(t).index))
        /\ UNCHANGED <<queue, mark, taken, given>>
     \/ /\ queue' = InsertAt(queue, back, e)
        /\ stack' = Call(t, "hit", e)
        /\ UNCHANGED <<mark, taken, given>>
  /\ UNCHANGED <<live, serials, focus, lock, first, posted, posts>>

-----------------------------------------------------------------------------
(* What other tasks send, and a task's end.                                *)

\* A task that waits, or gives the processor up in its own code, answers a
\* message another sent it.
TakeSent(t) ==
  /\ "sent" \in Features
  /\ InGuest(t) \/ (Quiet(t) /\ At(t, {"asleep", "woken", "loop"}))
  /\ Len(stack[t]) < MaxDepth
  /\ stack' = [Signal(stack, t) EXCEPT ![t] = Append(@, SentFrame)]
  /\ UNCHANGED <<live, queue, serials, focus, lock, first, mark, taken,
                 posted, posts, given>>

SentReturn(t) ==
  /\ Returns(t, "sent")
  /\ stack' = Leave(t)
  /\ UNCHANGED <<live, queue, serials, focus, lock, first, mark, taken,
                 posted, posts, given>>

\* A task ends: its lock is nobody's from then, as a look finds.
End(t) ==
  /\ "end" \in Features
  /\ InGuest(t)
  /\ live' = live \ {t}
  /\ stack' = [stack EXCEPT ![t] = <<>>]
  /\ posted' = [posted EXCEPT ![t] = <<>>]
  /\ IF focus = t THEN focus' \in (live \ {t}) \cup {None}
                  ELSE UNCHANGED focus
  /\ UNCHANGED <<queue, serials, lock, first, mark, taken, posts, given>>

-----------------------------------------------------------------------------
(* The specification.                                                      *)

Init ==
  /\ live = Task
  /\ queue = <<>>
  /\ serials = 0
  /\ focus = None
  /\ lock = None
  /\ first = FALSE
  /\ mark = 0
  /\ taken = [t \in Task |-> 0]
  /\ posted = [t \in Task |-> <<>>]
  /\ posts = 0
  /\ stack = [t \in Task |-> <<>>]
  /\ given = <<>>

\* What the machine does of a look.
Machines(t) ==
  \/ Wake(t) \/ BeginEarly(t) \/ TakePosted(t) \/ BeginRead(t)
  \/ ReadNone(t) \/ ReadEnd(t) \/ ForNobody(t) \/ Elsewhere(t)
  \/ PassOver(t) \/ ReadKey(t) \/ ReadMouse(t)

\* What the tasks' programs do, in their loops and procedures.
Programs(t) ==
  \/ \E way \in Ways : Look(t, way)
  \/ \E u \in Task : Post(t, u)
  \/ \E u \in Task \cup {None} : SetFocus(t, u)
  \/ KeyReturn(t) \/ HitReturn(t) \/ AskedReturn(t) \/ ToldReturn(t)
  \/ TakeSent(t) \/ SentReturn(t) \/ End(t)

Next ==
  \/ \E kind \in Kinds, u \in Task \cup {None} : HostInput(kind, u)
  \/ \E t \in Task : Machines(t) \/ Programs(t)

Spec == Init /\ [][Next]_vars

-----------------------------------------------------------------------------
(* Properties.                                                             *)

\* Every task asleep, none of them sleeps over an event that is its own: an
\* event it was turned away from, or that another's look came to, or whose
\* window the focus left, has woken it by then (system_queue.rs: elsewhere,
\* holds_input; queue.rs: look).
NoSleepOverInput ==
  (\A t \in live : At(t, {"asleep"}))
    => \A e \in Range(queue) : Target(e) \notin live

\* "One task at a time reads the input": while the look of one is in the middle
\* of it, in a procedure it calls too, another's finds none.  So where no
\* procedure of a look's looks of its own (system_queue.rs: holds_input).
Reading(t) ==
  \E i \in DOMAIN stack[t] : stack[t][i].at \in {"read"} \cup Procedures
OneReader == \A t, u \in live : Reading(t) /\ Reading(u) => t = u

\* Events are handed over in the order they were put in, whatever tasks they
\* are for: what was typed ahead waits for the event before it
\* (system_queue.rs: take_input).
InOrder == \A i, j \in DOMAIN given : i < j => given[i] < given[j]

\* No event is handed over twice, whatever looks the procedures that one look
\* calls make of their own (system_queue.rs: consider, queued).
EventOnce == IsInjective(given)

\* A task keeps the input while what was posted to it last, as it held it,
\* waits for it: no other reads ahead of its answer to that.  So where each
\* look takes what it finds, and nothing is posted to a task in the middle of
\* its look (queue.rs: post_to, look).
KeptWhilePosted == \A t \in live : mark \in Range(posted[t]) => lock = t
=============================================================================
