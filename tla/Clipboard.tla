----------------------------- MODULE Clipboard -----------------------------
(***************************************************************************)
(* The clipboard: who has it open, who put on it what it holds, and a      *)
(* block, or the promise of one, for each format (clipboard.rs).  Emptying *)
(* it and rendering a format send the owner a message and wait for its     *)
(* answer; meanwhile any program may close it, open it, empty it, put      *)
(* something on or ask for it, as the code asks no call who makes it.      *)
(***************************************************************************)
EXTENDS Naturals, FiniteSets, Functions, Sequences

CONSTANTS
  Window,       \* windows that open it
  Block,        \* BOUND: blocks of memory, each one's handle used again
  NoHandle,     \* nought: no window, and no block
  Call,         \* BOUND: calls that wait for an owner at one time
  MaxRenders    \* BOUND: renderings that one call waits for, one in another

Format == {"text", "oemtext", "bitmap"}
Other(f) == IF f = "text" THEN "oemtext" ELSE "text"

ASSUME ClipAssumption == /\ NoHandle \notin Window \cup Block
                         /\ MaxRenders \in Nat \ {0}

VARIABLES
  open,     \* the window that has it open; "task" for a task with none
  owner,    \* the window that emptied it last
  changed,  \* whether anything was put on or taken off since it was closed
  formats,  \* what each format holds
  alive,    \* the blocks allocated
  calls     \* what each call that waits has asked for: see Waits

clipVars == <<open, owner, changed, formats, alive, calls>>

-----------------------------------------------------------------------------
(* State.                                                                  *)

\* What a format holds: a block, or nought where none could be made; nothing
\* until its owner renders it; nothing until it is made from the other text.
Data(b) == [is |-> "data", block |-> b]
Rendered == [is |-> "rendered", block |-> NoHandle]
Made == [is |-> "made", block |-> NoHandle]
Absent == [is |-> "absent", block |-> NoHandle]
Held == {Data(b) : b \in Block \cup {NoHandle}} \cup {Rendered, Made, Absent}

\* A call waits in EmptyClipboard, in Print Screen as it empties the clipboard
\* or has closed it, or for the last of some formats to be rendered, each one
\* before it to be made from the next; or there is none.
Waits == [for : {"none", "emptied", "copying", "copied"}, get : {<<>>}]
         \cup [for : {"rendered"}, get : Seq(Format)]
Idle == [for |-> "none", get |-> <<>>]

\* The type of the state.
ClipTypeOK ==
  /\ open \in Window \cup {NoHandle, "desktop", "task"}
  /\ owner \in Window \cup {NoHandle, "desktop"}
  /\ changed \in BOOLEAN
  /\ formats \in [Format -> Held]
  /\ alive \subseteq Block
  /\ calls \in [Call -> Waits]

ClipInit ==
  /\ open = NoHandle
  /\ owner = NoHandle
  /\ changed = FALSE
  /\ formats = [f \in Format |-> Absent]
  /\ alive = {}
  /\ calls = [c \in Call |-> Idle]

-----------------------------------------------------------------------------
(* Opened, filled and closed.                                              *)

OpenClipboard(w) ==
  /\ open = NoHandle
  /\ open' = w
  /\ UNCHANGED <<owner, changed, formats, alive, calls>>

\* A block of the program's put on, or none: to be rendered.  The block that
\* the format held is not freed.
SetClipboardData(f) ==
  /\ open # NoHandle
  /\ \/ \E b \in Block \ alive :
          alive' = alive \cup {b} /\ formats' = [formats EXCEPT ![f] = Data(b)]
     \/ UNCHANGED alive /\ formats' = [formats EXCEPT ![f] = Rendered]
  /\ changed' = TRUE
  /\ UNCHANGED <<open, owner, calls>>

Has(f) == formats[f] # Absent

\* The text that is to be made from the other, not being there itself.
Lacks(f) == f # "bitmap" /\ Has(Other(f)) /\ ~Has(f)

CloseClipboard ==
  /\ open # NoHandle
  /\ open' = NoHandle
  /\ changed' = FALSE
  /\ formats' = IF changed THEN [f \in Format |-> IF Lacks(f) THEN Made ELSE formats[f]]
                           ELSE formats
  /\ UNCHANGED <<owner, alive, calls>>

-----------------------------------------------------------------------------
(* Emptied.                                                                *)

\* Mutant: what was on it is freed, and left on it but for the texts.
LeftAfter(f) == IF f = "bitmap" THEN formats[f] ELSE Absent

\* What a format holds once the clipboard is emptied.
After(f) == Absent

\* The owner there is with one that has it open.
Owning(o) == IF o = "task" THEN NoHandle ELSE o

\* What is on it freed, and whoever has it open by now, if anybody, its owner.
Emptied ==
  /\ formats' = [f \in Format |-> After(f)]
  /\ alive' = alive \ {formats[f].block : f \in Format}
  /\ owner' = Owning(open)
  /\ changed' = TRUE
  /\ UNCHANGED open

\* The owner before is sent WM_DESTROYCLIPBOARD first.
EmptyClipboard(c) ==
  /\ open # NoHandle
  /\ IF owner # NoHandle
     THEN /\ calls[c] = Idle
          /\ calls' = [calls EXCEPT ![c].for = "emptied"]
          /\ UNCHANGED <<open, owner, changed, formats, alive>>
     ELSE Emptied /\ UNCHANGED calls

EmptyDone(c) ==
  /\ calls[c].for = "emptied"
  /\ Emptied
  /\ calls' = [calls EXCEPT ![c] = Idle]

-----------------------------------------------------------------------------
(* Asked for.                                                              *)

\* What asking for a format comes to, with no one to wait for.
BlockOf(f) == IF open = NoHandle THEN NoHandle ELSE formats[f].block

\* The formats of get but the last are each made from the next, whose block
\* is got: a block of its own, if there is one to copy and memory for it.
MakeUp(get, got) ==
  LET n == Len(get) - 1
  IN \E made \in [1 .. n -> (Block \ alive) \cup {NoHandle}] :
       /\ \A i \in 1 .. n : made[i] # NoHandle =>
            /\ IF i = n THEN got # NoHandle ELSE made[i + 1] # NoHandle
            /\ \A j \in 1 .. i - 1 : made[j] # made[i]
       /\ formats' = [f \in Format |->
            IF \E i \in 1 .. n : get[i] = f
            THEN Data(made[CHOOSE i \in 1 .. n :
                             get[i] = f /\ \A j \in 1 .. i - 1 : get[j] # f])
            ELSE formats[f]]
       /\ alive' = alive \cup (Range(made) \ {NoHandle})

\* The last of get looked at, its owner done if it was waited for: to be made,
\* the other text is asked for, and its owner waited for if it has to be.
AskOn(c, get) ==
  LET f == get[Len(get)]
      source == Other(f)
  IN IF formats[f] # Made
     THEN MakeUp(get, formats[f].block) /\ calls' = [calls EXCEPT ![c] = Idle]
     ELSE IF open # NoHandle /\ formats[source] = Rendered /\ owner # NoHandle
     THEN /\ Len(get) <= MaxRenders
          /\ calls' = [calls EXCEPT ![c] = [for |-> "rendered",
                                            get |-> Append(get, source)]]
          /\ UNCHANGED <<formats, alive>>
     ELSE /\ MakeUp(Append(get, source), BlockOf(source))
          /\ calls' = [calls EXCEPT ![c] = Idle]

GetClipboardData(c, f) ==
  /\ open # NoHandle
  /\ Has(f)
  /\ calls[c] = Idle
  /\ IF formats[f] = Rendered /\ owner # NoHandle
     THEN /\ calls' = [calls EXCEPT ![c] = [for |-> "rendered", get |-> <<f>>]]
          /\ UNCHANGED <<formats, alive>>
     ELSE AskOn(c, <<f>>)
  /\ UNCHANGED <<open, owner, changed>>

\* The owner is done with WM_RENDERFORMAT, whatever it did.
RenderDone(c) ==
  /\ calls[c].for = "rendered"
  /\ AskOn(c, calls[c].get)
  /\ UNCHANGED <<open, owner, changed>>

-----------------------------------------------------------------------------
(* Print Screen: opened for the desktop, emptied, filled, closed, and left  *)
(* with no owner (task_list.rs: print_screen).                             *)

\* Emptied, a copy of the screen put on if it is still open, and closed.
Copied(c, opened) ==
  LET left == alive \ {formats[f].block : f \in Format}
  IN /\ \E b \in (Block \ left) \cup {NoHandle} :
          /\ opened = NoHandle => b = NoHandle
          /\ alive' = left \cup ({b} \ {NoHandle})
          /\ formats' = [f \in Format |-> IF f = "bitmap" /\ b # NoHandle
                                         THEN Data(b) ELSE After(f)]
     /\ owner' = Owning(opened)
     /\ open' = NoHandle
     /\ changed' = (opened = NoHandle)
     /\ calls' = [calls EXCEPT ![c] = [for |-> "copied", get |-> <<>>]]

PrintScreen(c) ==
  /\ open = NoHandle
  /\ calls[c] = Idle
  /\ IF owner # NoHandle
     THEN /\ open' = "desktop"
          /\ calls' = [calls EXCEPT ![c].for = "copying"]
          /\ UNCHANGED <<owner, changed, formats, alive>>
     ELSE Copied(c, "desktop")

PrintScreenGoesOn(c) ==
  \/ calls[c].for = "copying" /\ Copied(c, open)
  \/ /\ calls[c].for = "copied"
     /\ owner' = NoHandle
     /\ calls' = [calls EXCEPT ![c] = Idle]
     /\ UNCHANGED <<open, changed, formats, alive>>

ClipNext ==
  \/ \E w \in Window \cup {"task"} : OpenClipboard(w)
  \/ \E f \in Format : SetClipboardData(f)
  \/ CloseClipboard
  \/ \E c \in Call :
       \/ EmptyClipboard(c) \/ EmptyDone(c) \/ RenderDone(c)
       \/ \E f \in Format : GetClipboardData(c, f)
       \/ PrintScreen(c) \/ PrintScreenGoesOn(c)

ClipSpec == ClipInit /\ [][ClipNext]_clipVars

-----------------------------------------------------------------------------
(* Properties.                                                             *)

\* However its calls cross, each block on the clipboard is allocated and there
\* once: none is freed while it is on, and so none twice (clipboard.rs:
\* empty_clipboard, which takes what is on it only after the owner's answer).
HeldAlive ==
  \A f, g \in Format :
    formats[f].block # NoHandle =>
      /\ formats[f].block \in alive
      /\ formats[g].block = formats[f].block => f = g

\* A text to be made always has the other to be made from, which is not to be
\* made from it in turn: made_text, which asks for the other, comes to an end
\* (clipboard.rs: made_text, get_clipboard_data).
MadeHasSource ==
  \A f \in Format :
    formats[f] = Made => f # "bitmap" /\ formats[Other(f)] \notin {Made, Absent}

\* What the clipboard says it has, it can give (get_clipboard_data).
CanBeGiven == HeldAlive /\ MadeHasSource
=============================================================================
