------------------------------- MODULE Timers -------------------------------
(***************************************************************************)
(* Timers as looks take them (queue.rs: set_timer_as, kill_timer_as,       *)
(* own_timer, due_timer, look_further): one list for all tasks, of which a *)
(* look takes the one of its own that has been due longest, and waits no   *)
(* longer than until the next of them is due.  Times are counted from now, *)
(* in units of the least interval, 55 milliseconds; the clock may go on    *)
(* between any two steps.                                                  *)
(***************************************************************************)
EXTENDS Integers, FiniteSets, SequencesExt

CONSTANTS
  TimerTask,   \* tasks, each with a window, which it is named by here
  NoWindow,    \* a timer of no window's has this
  Intervals,   \* the intervals a program asks for
  MaxLate,     \* BOUND: how long a timer waits to be taken once it is due
  Never        \* the wait of a look by a task with no timer

ASSUME TimersAssumption == /\ NoWindow \notin TimerTask
                           /\ Intervals \subseteq Nat
                           /\ MaxLate \in Nat
                           /\ Never \notin Int

VARIABLES
  timers,   \* the timers, in the order they were first set (System.timers)
  tasks,    \* the tasks that have not ended
  sleep     \* how long each task has to sleep in its look; nought, awake

timersVars == <<timers, tasks, sleep>>

-----------------------------------------------------------------------------
(* State.                                                                  *)

Owner == TimerTask \cup {NoWindow}

\* A timer: its window, interval, time due and the task that set it; and, for
\* the properties alone, the timers taken in its stead since it was due, and
\* whether one of them was taken twice.
Entry == [hwnd : Owner, every : Nat, due : Int, task : TimerTask,
          passed : SUBSET Owner, twice : BOOLEAN]

\* The type of the state: a window's timer is in the list once.
TimersTypeOK ==
  /\ timers \in Seq(Entry)
  /\ \A i, j \in DOMAIN timers : i # j => timers[i].hwnd # timers[j].hwnd
  /\ tasks \subseteq TimerTask
  /\ sleep \in [TimerTask -> Nat \cup {Never}]

TimersInit ==
  /\ timers = <<>>
  /\ tasks = TimerTask
  /\ sleep = [t \in TimerTask |-> 0]

Awake(t) == t \in tasks /\ sleep[t] = 0

-----------------------------------------------------------------------------
(* Set and killed.                                                         *)

\* Mutant: a timer as quick as it was asked for.
AsAsked(n) == n

\* No timer is quicker than the clock's tick.
Every(n) == IF n < 1 THEN 1 ELSE n

\* The timer that is set again, if there is one.
Same(t, h) == {i \in DOMAIN timers : timers[i].hwnd = h}

\* A program's own timer set, in its place if it was there; of no window's, it
\* may have been another task's.
SetTimer(t, h, n) ==
  LET entry == [hwnd |-> h, every |-> Every(n), due |-> Every(n), task |-> t,
                passed |-> {}, twice |-> FALSE]
      is == Same(t, h)
  IN /\ Awake(t)
     /\ h \in {t, NoWindow}
     /\ timers' = IF is = {} THEN Append(timers, entry)
                  ELSE [i \in DOMAIN timers |-> IF i \in is THEN entry ELSE timers[i]]
     /\ UNCHANGED <<tasks, sleep>>

\* The list without a window's timer: it is known by that, and there once.
Without(h) ==
  IF \E i \in DOMAIN timers : timers[i].hwnd = h
  THEN RemoveAt(timers, CHOOSE i \in DOMAIN timers : timers[i].hwnd = h)
  ELSE timers

\* By a program, or as its window is destroyed.
KillTimer(t, h) ==
  /\ Awake(t)
  /\ \E i \in DOMAIN timers : timers[i].hwnd = h
  /\ timers' = Without(h)
  /\ UNCHANGED <<tasks, sleep>>

\* A task ended: its window's timer goes with the window, and one it set of no
\* window's stays.
TaskEnds(t) ==
  /\ t \in tasks
  /\ tasks # {t}
  /\ tasks' = tasks \ {t}
  /\ timers' = Without(t)
  /\ sleep' = [sleep EXCEPT ![t] = 0]

-----------------------------------------------------------------------------
(* Looked for.                                                             *)

\* A window's timer is its task's; one of no window's the task's that set it,
\* or the last task's that is left.
OwnTimer(t, each) ==
  IF each.hwnd \in tasks THEN each.hwnd = t \/ tasks = {t}
                         ELSE tasks = {t} \/ each.task = t

\* The task's timers that a look asks for.
Asked(t, asked) ==
  {i \in DOMAIN timers : OwnTimer(t, timers[i]) /\ timers[i].hwnd \in asked}

\* Mutant: the first of them set is the first taken.
FirstSet(is, i) == i \in is /\ \A j \in is : i <= j

\* The one due first, of those due together the first set.
DueFirst(is, i) ==
  /\ i \in is
  /\ \A j \in is : \/ timers[i].due < timers[j].due
                   \/ timers[i].due = timers[j].due /\ i <= j

Due(i) == timers[i].due <= 0

\* A look takes a timer that is due, and sets it going again.
TakeTimer(t, asked) ==
  \E i \in Asked(t, asked) :
    /\ Awake(t)
    /\ DueFirst(Asked(t, asked), i)
    /\ Due(i)
    /\ timers' = [j \in DOMAIN timers |->
         IF j = i THEN [timers[i] EXCEPT !.due = timers[i].every,
                                         !.passed = {}]
         ELSE IF j \in Asked(t, asked) /\ Due(j)
         THEN [timers[j] EXCEPT !.passed = @ \cup {timers[i].hwnd},
                                !.twice = @ \/ timers[i].hwnd \in timers[j].passed]
         ELSE timers[j]]
    /\ UNCHANGED <<tasks, sleep>>

\* Mutant: until one that the look asks for is due.
UntilAsked(t, asked) == Asked(t, asked)

\* The timers a look waits for: all its task's, whatever it asks for.
Until(t, asked) == Asked(t, Owner)

\* With none due, it waits until the next is; not at all, where one is due that
\* it does not ask for.
Wait(t, asked) ==
  LET dues == {timers[i].due : i \in Until(t, asked)}
  IN /\ Awake(t)
     /\ \A i \in Asked(t, asked) : ~Due(i)
     /\ sleep' = [sleep EXCEPT ![t] =
          IF dues = {} THEN Never ELSE LET least == CHOOSE d \in dues : \A e \in dues : d <= e
                                       IN IF least > 0 THEN least ELSE 0]
     /\ UNCHANGED <<timers, tasks>>

\* Woken by anything else.
WakeUp(t) ==
  /\ sleep[t] # 0
  /\ sleep' = [sleep EXCEPT ![t] = 0]
  /\ UNCHANGED <<timers, tasks>>

\* The clock goes on, and wakes those whose wait is over.
ClockTick ==
  /\ \A i \in DOMAIN timers : timers[i].due > -MaxLate
  /\ timers' = [i \in DOMAIN timers |-> [timers[i] EXCEPT !.due = @ - 1]]
  /\ sleep' = [t \in TimerTask |-> IF sleep[t] \in {0, Never} THEN sleep[t]
                                                            ELSE sleep[t] - 1]
  /\ UNCHANGED tasks

TimersNext ==
  \/ \E t \in TimerTask :
       \/ TaskEnds(t) \/ WakeUp(t)
       \/ \E h \in Owner : KillTimer(t, h) \/ \E n \in Intervals : SetTimer(t, h, n)
       \/ \E asked \in SUBSET Owner : TakeTimer(t, asked) \/ Wait(t, asked)
  \/ ClockTick

TimersSpec == TimersInit /\ [][TimersNext]_timersVars

-----------------------------------------------------------------------------
(* Properties.                                                             *)

\* However slow a task's looks, and though each timer taken is due again from
\* then on, no timer is taken twice by looks that ask for another of the task's,
\* due all that while: one with a short interval starves no other (queue.rs:
\* due_timer).
TakenInTurn == \A i \in DOMAIN timers : ~timers[i].twice

\* No task sleeps on past the time that a timer of its window's or its own is
\* due, whatever its look asked for, while others set theirs, kill them and end
\* (queue.rs: look_further).
NoSleepOverTimer ==
  \A t \in tasks : \A i \in DOMAIN timers :
    (timers[i].hwnd = t \/ (timers[i].hwnd = NoWindow /\ timers[i].task = t))
      => sleep[t] # Never /\ (sleep[t] > 0 => sleep[t] <= timers[i].due)
=============================================================================
