---------------------------- MODULE DdeCallbacks ----------------------------
(***************************************************************************)
(* DDEML's calls to a program (ddeml/instance.rs: queue_callback,          *)
(* run_queue, callback, enable_callback, modal_loop) and the end of its    *)
(* conversations (ddeml/conv.rs: terminate, on_terminate, disconnect), for *)
(* one instance.  Nothing is called back as it comes in: it waits in a     *)
(* list, and a message 4CCh to the instance's own window has the list run. *)
(* The procedure called may wait for a transaction, which dispatches       *)
(* messages, and what comes in meanwhile meets the run it came in under.   *)
(***************************************************************************)
EXTENDS Integers, FiniteSets, SequencesExt

CONSTANTS
  Conv,          \* conversations, each with its window
  Ends,          \* those that come to an end
  NoConv,        \* no conversation is waited on
  Room,          \* BOUND: messages 4CCh in the program's queue
  MaxCallbacks   \* BOUND: callbacks that come in

ASSUME CallbacksAssumption == /\ NoConv \notin Conv
                              /\ IsFiniteSet(Conv) /\ Ends \subseteq Conv
                              /\ Room \in Nat
                              /\ MaxCallbacks \in Nat

VARIABLES
  callbacks,   \* waiting, oldest first (the instance's list 16h)
  windows,     \* conversations whose windows are
  status,      \* each one's flags (its word 20h)
  count,       \* terminations posted and not answered (the instance's word 2)
  waited,      \* whose transaction is waited for (its word 28h)
  looped,      \* that wait is over (its word 3Ah)
  stack,       \* what DDEML has under way, the innermost first
  runs,        \* messages 4CCh posted
  endings,     \* conversations with a message 4CEh posted: to be terminated
  coming,      \* those with WM_DDE_TERMINATE from the partner posted
  partner,     \* each one's partner
  came,        \* history: how many callbacks have come in
  made,        \* history: of each conversation, the last that was made
  refused,     \* history: a run of the list was refused, and none has begun since
  misused      \* history: what a program did that DDEML's promises do not outlast

callbacksVars == <<callbacks, windows, status, count, waited, looped, stack, runs,
                   endings, coming, partner, came, made, refused, misused>>

-----------------------------------------------------------------------------
(* State.                                                                  *)

\* The bits 1, 20h, 2000h, 8000h, 8 and 80h.
Flag == {"connected", "terminated", "destroy", "awaited", "blocked", "single"}

Serial == 1 .. MaxCallbacks

\* A callback is known by the order it came in; nought is the end of the list.
Callback == [conv : Conv, n : Serial]

\* A run at a callback it is to make or (called) has under way, the next known; the
\* partner's termination before XTYP_DISCONNECT and in it; a transaction waited
\* for.
Frame == [at : {"run", "called"}, item : Serial \cup {0}, next : Serial \cup {0}]
         \cup [at : {"end", "told", "wait"}, conv : Conv]

\* The type of the state: a list in order of coming, and no wait within a wait.
CallbacksTypeOK ==
  /\ callbacks \in Seq(Callback)
  /\ \A i, j \in DOMAIN callbacks : i < j => callbacks[i].n < callbacks[j].n
  /\ windows \subseteq Conv
  /\ status \in [Conv -> SUBSET Flag]
  /\ count \in Nat
  /\ waited \in Conv \cup {NoConv} /\ looped \in BOOLEAN
  /\ stack \in Seq(Frame)
  /\ Cardinality({i \in DOMAIN stack : stack[i].at = "wait"}) = (IF waited = NoConv THEN 0 ELSE 1)
  /\ runs \in 0 .. Room
  /\ endings \subseteq Conv /\ coming \subseteq Conv
  /\ partner \in [Conv -> {"open", "ended", "gone"}]
  /\ came \in 0 .. MaxCallbacks /\ made \in [Conv -> Serial \cup {0}]
  /\ refused \in BOOLEAN /\ misused \subseteq {"enabled", "ended"}

CallbacksInit ==
  /\ callbacks = <<>> /\ windows = Conv
  /\ status = [c \in Conv |-> {"connected"}] /\ count = 0
  /\ waited = NoConv /\ looped = FALSE
  /\ stack = <<>> /\ runs = 0 /\ endings = {} /\ coming = {}
  /\ partner = [c \in Conv |-> "open"]
  /\ came = 0 /\ made = [c \in Conv |-> 0]
  /\ refused = FALSE /\ misused = {}

Top(a) == stack # <<>> /\ Head(stack).at = a

\* Messages are dispatched: by the program, or by the wait for a transaction.
Dispatching == stack = <<>> \/ Top("wait")

\* The program's own code runs.
Running == Dispatching \/ Top("called") \/ Top("told")

\* A callback is under way (the instance's word 2Eh).
UnderWay == \E i \in DOMAIN stack : stack[i].at \in {"called", "told"}

\* The partner's termination of a conversation is being followed.
BeingEnded(c) == \E i \in DOMAIN stack : stack[i].at \in {"end", "told"} /\ stack[i].conv = c

First(list) == IF list = <<>> THEN 0 ELSE Head(list).n
Place(n) == CHOOSE i \in DOMAIN callbacks : callbacks[i].n = n
Waiting(n) == callbacks[Place(n)]
NextAfter(n) == IF Place(n) = Len(callbacks) THEN 0 ELSE callbacks[Place(n) + 1].n
LeftWithout(n) == RemoveAt(callbacks, Place(n))

ToRun == [at |-> "run", item |-> First(callbacks), next |-> 0]
Xor(s, flags) == (s \ flags) \cup (flags \ s)

\* A message 4CCh posted, or refused by a queue that is full, of these or of others:
\* whoever posts it goes on all the same.
PostRun == \/ runs < Room /\ runs' = runs + 1 /\ UNCHANGED refused
           \/ refused' = TRUE /\ UNCHANGED runs

\* A run put on the stack goes over the whole list, but under a callback over none.
RunBegins == refused' = (refused /\ UnderWay)

-----------------------------------------------------------------------------
(* The list.                                                               *)

convs == <<windows, status, count, partner, coming, endings>>

\* A message of the partner's, or an answer, makes a callback wait. Of a
\* conversation blocked nothing is posted: who unblocks it runs the list.
Arrive(c) ==
  /\ Dispatching
  /\ c \in windows /\ "connected" \in status[c] /\ ~BeingEnded(c)
  /\ came < MaxCallbacks
  /\ came' = came + 1
  /\ callbacks' = Append(callbacks, [conv |-> c, n |-> came + 1])
  /\ IF "blocked" \in status[c] THEN UNCHANGED <<runs, refused>> ELSE PostRun
  /\ UNCHANGED <<convs, waited, looped, stack, made, misused>>

\* 4CCh dispatched.
DispatchRun ==
  /\ Dispatching
  /\ runs > 0 /\ runs' = runs - 1
  /\ stack' = <<ToRun>> \o stack /\ RunBegins
  /\ UNCHANGED <<convs, callbacks, waited, looped, came, made, misused>>

\* A run is over at the end of the list, and at once under a callback.
AtEnd == Head(stack).item = 0 \/ UnderWay

RunDone ==
  /\ Top("run") /\ AtEnd
  /\ stack' = Tail(stack)
  /\ UNCHANGED <<convs, callbacks, waited, looped, runs, came, made, refused, misused>>

Dropped(c) == c \notin windows \/ "connected" \notin status[c]

\* Mutant: CBR_BLOCK puts the callback off and leaves its conversation as it is.
BlockedOpen(s) == s

\* A conversation with CBR_BLOCK answered.
Blocked(s) == s \cup {"blocked"}

\* The next callback of a run: dropped, passed over, or made; a conversation
\* that is to be called back once is blocked with it.
RunNext ==
  LET n == Head(stack).item
      c == Waiting(n).conv
      next == NextAfter(n)
      on == [at |-> "run", item |-> next, next |-> 0]
  IN /\ Top("run") /\ ~AtEnd
     /\ \/ /\ Dropped(c)
           /\ callbacks' = LeftWithout(n)
           /\ stack' = <<on>> \o Tail(stack)
           /\ UNCHANGED <<status, made>>
        \/ /\ ~Dropped(c) /\ "blocked" \in status[c]
           /\ stack' = <<on>> \o Tail(stack)
           /\ UNCHANGED <<callbacks, status, made>>
        \/ /\ ~Dropped(c) /\ "blocked" \notin status[c]
           /\ IF "single" \in status[c]
              THEN status' = [status EXCEPT ![c] = (@ \cup {"blocked"}) \ {"single"}]
              ELSE UNCHANGED status
           /\ stack' = <<[at |-> "called", item |-> n, next |-> next]>> \o Tail(stack)
           /\ made' = [made EXCEPT ![c] = n]
           /\ UNCHANGED callbacks
     /\ UNCHANGED <<windows, count, partner, coming, endings, waited, looped, runs, came,
                    refused, misused>>

\* The callback returns: done with, or (CBR_BLOCK) blocked and kept where it is. The
\* run goes on to what was next when it was called.
CallbackReturns(block) ==
  LET n == Head(stack).item
      c == Waiting(n).conv
  IN /\ Top("called")
     /\ IF block THEN status' = [status EXCEPT ![c] = Blocked(@)] /\ UNCHANGED callbacks
        ELSE callbacks' = LeftWithout(n) /\ UNCHANGED status
     /\ stack' = <<[at |-> "run", item |-> Head(stack).next, next |-> 0]>> \o Tail(stack)
     /\ UNCHANGED <<windows, count, partner, coming, endings, waited, looped, runs, came,
                    made, refused, misused>>

\* DdeEnableCallback, for one conversation or all: the list is run at once, but
\* under a callback (DMLERR_REENTRANCY) it is not.
EnableCallback(C, command) ==
  /\ Running
  /\ status' = [c \in Conv |->
       IF c \in C THEN (status[c] \ {"blocked", "single"}) \cup command ELSE status[c]]
  /\ IF "blocked" \in command THEN UNCHANGED <<stack, refused, misused>>
     ELSE IF UnderWay
     THEN refused' = TRUE /\ misused' = misused \cup {"enabled"} /\ UNCHANGED stack
     ELSE stack' = <<ToRun>> \o stack /\ RunBegins /\ UNCHANGED misused
  /\ UNCHANGED <<windows, count, partner, coming, endings, callbacks, waited, looped, runs,
                 came, made>>

-----------------------------------------------------------------------------
(* Waiting within a callback.                                              *)

\* Mutant: a wait within a wait is let through.
AnyWait == TRUE

\* One wait of a task's at a time (otherwise DMLERR_REENTRANCY).
MayWait == waited = NoConv

\* A transaction waited for.
WaitFor(c) ==
  /\ Running
  /\ c \in windows /\ "connected" \in status[c]
  /\ MayWait
  /\ waited' = c /\ looped' = FALSE
  /\ stack' = <<[at |-> "wait", conv |-> c]>> \o stack
  /\ UNCHANGED <<convs, callbacks, runs, came, made, refused, misused>>

\* Its answer or its time-out is dispatched.
WaitOver ==
  /\ Dispatching /\ waited # NoConv
  /\ looped' = TRUE
  /\ UNCHANGED <<convs, callbacks, waited, stack, runs, came, made, refused, misused>>

\* Mutant: the list is not run for what came in during the wait.
PostNothing == UNCHANGED <<runs, refused>>

\* What came in while a callback waited is run when the callback is over.
PostAfterWait == PostRun

WaitDone ==
  /\ Top("wait") /\ looped
  /\ waited' = NoConv /\ looped' = FALSE
  /\ stack' = Tail(stack)
  /\ PostAfterWait
  /\ UNCHANGED <<convs, callbacks, came, made, misused>>

-----------------------------------------------------------------------------
(* Ends.                                                                   *)

\* Mutant: nobody's wait puts a termination off.
NeverLater(c) == FALSE

\* A conversation whose transaction is waited for is terminated when that is over.
Later(c) == waited = c

\* Mutant: each termination is counted, also of one the partner has ended.
CountedAnyhow(c) == TRUE

\* A termination to be answered is counted.
Counted(c) == "connected" \in status[c] /\ partner[c] # "gone"

\* The flags terminate leaves, by exclusive or.
Terminated(c) ==
  LET s == status[c] \cup {"destroy"}
      posted == IF "connected" \in s /\ partner[c] # "gone"
                THEN Xor(s, {"awaited", "connected"}) ELSE s
  IN IF partner[c] = "gone" THEN Xor(posted, {"connected", "terminated"}) ELSE posted

\* terminate, asked to destroy, where it is not put off.
Terminate(c) ==
  LET s == Terminated(c)
  IN /\ status' = [status EXCEPT ![c] = s]
     /\ count' = count + (IF Counted(c) THEN 1 ELSE 0)
     /\ windows' = IF {"terminated", "destroy"} \subseteq s /\ "connected" \notin s
                   THEN windows \ {c} ELSE windows

\* DdeDisconnect, once for each conversation: posted where a callback is under
\* way or the wait is for this one.
Disconnect(c) ==
  /\ Running
  /\ c \in windows \ endings /\ "destroy" \notin status[c]
  /\ IF UnderWay \/ Later(c)
     THEN /\ endings' = endings \cup {c}
          /\ looped' = (looped \/ (~UnderWay /\ Later(c)))
          /\ UNCHANGED <<status, count, windows>>
     ELSE Terminate(c) /\ UNCHANGED <<endings, looped>>
  /\ UNCHANGED <<partner, coming, callbacks, waited, stack, runs, came, made, refused,
                 misused>>

\* 4CEh dispatched.
DispatchEnding(c) ==
  /\ Dispatching /\ c \in endings \cap windows
  /\ IF Later(c)
     THEN looped' = TRUE /\ UNCHANGED <<endings, status, count, windows, misused>>
     ELSE /\ Terminate(c)
          /\ endings' = endings \ {c}
          /\ misused' = IF BeingEnded(c) THEN misused \cup {"ended"} ELSE misused
          /\ UNCHANGED looped
  /\ UNCHANGED <<partner, coming, callbacks, waited, stack, runs, came, made, refused>>

\* WM_DDE_TERMINATE dispatched (on_terminate): put off; or the callbacks waiting are
\* made first; or it is the answer to this side's own.
DispatchTerminate(c) ==
  LET s == IF "awaited" \in status[c] THEN Xor(status[c], {"awaited", "terminated"})
           ELSE status[c]
  IN /\ Dispatching /\ c \in coming \cap windows
     /\ IF Later(c)
        THEN looped' = TRUE /\ UNCHANGED <<coming, status, count, windows, stack, refused>>
        ELSE /\ coming' = coming \ {c} /\ UNCHANGED looped
             /\ IF "connected" \in status[c]
                THEN /\ stack' = <<ToRun, [at |-> "end", conv |-> c]>> \o stack /\ RunBegins
                     /\ UNCHANGED <<status, count, windows>>
                ELSE /\ status' = [status EXCEPT ![c] = s]
                     /\ count' = count - (IF "awaited" \in status[c] THEN 1 ELSE 0)
                     /\ windows' = IF {"terminated", "destroy"} \subseteq s
                                   THEN windows \ {c} ELSE windows
                     /\ UNCHANGED <<stack, refused>>
     /\ UNCHANGED <<partner, endings, callbacks, waited, runs, came, made, misused>>

\* The callbacks made, the conversation is over and the program told so. Where one of
\* them has had the window destroyed, the flags changed are a freed record's.
TellEnd ==
  LET c == Head(stack).conv
  IN /\ Top("end")
     /\ status' = [status EXCEPT ![c] = Xor(@, {"connected", "terminated", "destroy"})]
     /\ stack' = <<[at |-> "told", conv |-> c]>> \o Tail(stack)
     /\ UNCHANGED <<windows, count, partner, coming, endings, callbacks, waited, looped,
                    runs, came, made, refused, misused>>

\* Mutant: the window stays, as the partner's answer has still to come.
StayWindow(c) == windows

\* The window goes with a conversation both sides have ended.
GoneWindow(c) == IF {"terminated", "destroy"} \subseteq status[c] THEN windows \ {c} ELSE windows

EndTold ==
  /\ Top("told")
  /\ windows' = GoneWindow(Head(stack).conv)
  /\ stack' = Tail(stack)
  /\ UNCHANGED <<status, count, partner, coming, endings, callbacks, waited, looped, runs,
                 came, made, refused, misused>>

\* The partner terminates, of itself or as its answer; or its window goes.
PartnerEnds(c) ==
  /\ partner[c] = "open"
  /\ partner' = [partner EXCEPT ![c] = "ended"] /\ coming' = coming \cup {c}
  /\ UNCHANGED <<windows, status, count, endings, callbacks, waited, looped, stack, runs,
                 came, made, refused, misused>>

PartnerGone(c) ==
  /\ partner[c] # "gone"
  /\ partner' = [partner EXCEPT ![c] = "gone"]
  /\ UNCHANGED <<windows, status, count, coming, endings, callbacks, waited, looped, stack,
                 runs, came, made, refused, misused>>

CallbacksNext ==
  \/ DispatchRun \/ RunDone \/ RunNext
  \/ \E block \in BOOLEAN : CallbackReturns(block)
  \/ \E C \in {{c} : c \in windows} \cup {windows}, command \in {{}, {"blocked"}, {"single"}} :
       EnableCallback(C, command)
  \/ WaitOver \/ WaitDone \/ TellEnd \/ EndTold
  \/ \E c \in Conv : Arrive(c) \/ WaitFor(c)
  \/ \E c \in Ends : \/ Disconnect(c) \/ DispatchEnding(c) \/ DispatchTerminate(c)
                     \/ PartnerEnds(c) \/ PartnerGone(c)

CallbacksSpec == CallbacksInit /\ [][CallbacksNext]_callbacksVars

-----------------------------------------------------------------------------
(* Properties.                                                             *)

\* The callbacks of a conversation are made in the order they came in, blocked and
\* unblocked as it may be (run_queue, "oldest first"), unless the program unblocks
\* one in a callback: the run under way is past what it has kept.
MadeInOrder ==
  "enabled" \in misused \/
    \A i \in DOMAIN callbacks : callbacks[i].n >= made[callbacks[i].conv]

\* No callback of a conversation that may be called back is left waiting with no
\* message to have it made, also of those that came in while a callback waited for
\* a transaction. A run that was refused, by the program's queue (DMLERR_SYS_ERROR) or
\* as it was asked for in a callback (DMLERR_REENTRANCY), leaves it so, but no longer
\* than to the next run that begins, whatever had that one posted.
NoCallbackStranded ==
  Dispatching /\ ~UnderWay /\ runs = 0 /\ ~refused =>
    \A i \in DOMAIN callbacks :
      LET c == callbacks[i].conv
      IN Dropped(c) \/ "blocked" \in status[c] \/ BeingEnded(c)

\* The conversation whose transaction is waited for stands while it is: neither side's
\* termination ends it under the wait, which uses its window and record after.
WaitedStands ==
  waited # NoConv => waited \in windows /\ "connected" \in status[waited]

\* The terminations DdeUninitialize waits for are those that are yet to be answered.
TerminationsCounted ==
  "ended" \in misused \/ count = Cardinality({c \in Conv : "awaited" \in status[c]})

\* A conversation whose partner's termination has been followed is gone with its
\* window, unless the program's own is dispatched while that is followed: the
\* flags, which both change by exclusive or, then say it is connected again.
EndedGone ==
  \A c \in windows :
    partner[c] = "ended" /\ c \notin coming /\ ~BeingEnded(c) => "ended" \in misused
=============================================================================
