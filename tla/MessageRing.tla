---------------------------- MODULE MessageRing ----------------------------
(***************************************************************************)
(* The messages posted to one task as winbox.js keeps them: a queue, and   *)
(* beside it where USER's ring would have its oldest message, from which   *)
(* the place of each is reckoned (queue.rs: Queue, post_to).  It is to     *)
(* answer the places of a ring that was never there: UserRing.             *)
(***************************************************************************)
EXTENDS Integers, Sequences

CONSTANTS
  Hwnd,    \* the windows posted to
  Number,  \* the messages' numbers
  Merged,  \* those from 390h to 3B0h: a later takes the place of the last
  Word,    \* what else a message says
  Sizes,   \* the sizes a program asks SetMessageQueue for
  Size,    \* the size before it asks: eight
  Empty    \* no message

Message == [hwnd : Hwnd, message : Number, lparam : Word]

\* What a look may ask for: some windows' messages, of some numbers.
Filters ==
  {{m \in Message : m.hwnd \in windows /\ m.message \in numbers} :
     windows \in SUBSET Hwnd, numbers \in SUBSET Number}

RING_START == 110
RING_ENTRY == 22

\* How many words there are: a place in the segment is one.
Words == 65536

\* A ring that is longer than its segment is beyond this module.
ASSUME SizesAssumption ==
  /\ Size \in Sizes
  /\ Sizes \subseteq {n \in Nat : RING_START + n * RING_ENTRY <= Words}
ASSUME EmptyAssumption == Empty \notin Message

VARIABLES
  messages,   \* what was posted, the oldest first
  ring_size,  \* how many messages there is room for
  ring_read,  \* the place of the oldest
  quit,       \* whether the quit waits to be taken (quit_code)
  place       \* what PostMessage answered last

vars == <<messages, ring_size, ring_read, quit, place>>

\* Where the oldest message lies, counted in entries.
First == (ring_read - RING_START) \div RING_ENTRY
Entries == IF ring_size = 0 THEN 1 ELSE ring_size

\* The type of the state: no more messages than there is room for, and the
\* oldest's place that of an entry of the ring.
TypeOK ==
  /\ ring_size \in Sizes
  /\ messages \in Seq(Message)
  /\ Len(messages) <= ring_size
  /\ \E c \in 0 .. Entries - 1 : ring_read = RING_START + c * RING_ENTRY
  /\ quit \in BOOLEAN
  /\ place = 0 \/ place \in RING_START .. Words - 1

-----------------------------------------------------------------------------
(* Places (ring_at, ring_place, ring_taken).                               *)

\* The place of the message index entries on from the oldest.
RingAt(index) == RING_START + ((First + index) % Entries) * RING_ENTRY

\* Mutant: room for one more.
RingPlaceOver(n) == IF n > ring_size THEN 0 ELSE RingAt(n)

\* The place of the next message, with n waiting; nought, the ring full.
RingPlace(n) == IF n >= ring_size THEN 0 ELSE RingAt(n)

\* Mutant: the oldest's place moves whatever message is taken.
RingTakenUp(index) == RingAt(1)

\* The oldest's place once the message index entries on is taken.
RingTaken(index) == IF RingAt(index) >= ring_read THEN RingAt(1) ELSE ring_read

-----------------------------------------------------------------------------
(* Operations.                                                             *)

Init ==
  /\ messages = <<>>
  /\ ring_size = Size
  /\ ring_read = RING_START
  /\ quit = FALSE
  /\ place = 0

\* The queue without the message at its end that a message posted merges into.
MergesInto(m, last) ==
  m.message \in Merged /\ last.hwnd = m.hwnd /\ last.message = m.message
Kept(m) ==
  IF messages # <<>> /\ MergesInto(m, messages[Len(messages)])
  THEN SubSeq(messages, 1, Len(messages) - 1) ELSE messages

\* A message posted, by its own task or another.
Post(m) ==
  /\ place' = RingPlace(Len(Kept(m)))
  /\ messages' = IF place' = 0 THEN Kept(m) ELSE Append(Kept(m), m)
  /\ UNCHANGED <<ring_size, ring_read, quit>>

Finds(i, asked) ==
  /\ messages[i] \in asked
  /\ \A j \in 1 .. i - 1 : messages[j] \notin asked

\* The oldest message posted that a look asks for, taken.
Take(asked) ==
  \E i \in 1 .. Len(messages) :
    /\ Finds(i, asked)
    /\ messages' = SubSeq(messages, 1, i - 1)
                     \o SubSeq(messages, i + 1, Len(messages))
    /\ ring_read' = RingTaken(i - 1)
    /\ UNCHANGED <<ring_size, quit, place>>

\* With no message that it asks for, the quit.
TakeQuit(asked) ==
  /\ \A i \in 1 .. Len(messages) : messages[i] \notin asked
  /\ quit
  /\ quit' = FALSE
  /\ UNCHANGED <<messages, ring_size, ring_read, place>>

PostQuitMessage ==
  /\ quit' = TRUE
  /\ UNCHANGED <<messages, ring_size, ring_read, place>>

\* A ring of another size, what was posted lost with the old one.
SetMessageQueue(n) ==
  /\ messages' = <<>>
  /\ ring_size' = n
  /\ ring_read' = RING_START
  /\ UNCHANGED <<quit, place>>

Next ==
  \/ \E m \in Message : Post(m)
  \/ \E asked \in Filters : Take(asked) \/ TakeQuit(asked)
  \/ PostQuitMessage
  \/ \E n \in Sizes : SetMessageQueue(n)

Spec == Init /\ [][Next]_vars

-----------------------------------------------------------------------------
(* The ring that is not there.                                             *)

\* A message's cell, and the message in a cell.
Wrap(n) == IF n < ring_size THEN n ELSE n - ring_size
Index(c) == IF c >= First THEN c - First ELSE c - First + ring_size
RingCells ==
  [c \in 0 .. ring_size - 1 |->
     IF Index(c) < Len(messages) THEN messages[Index(c) + 1] ELSE Empty]

Ring == INSTANCE UserRing
          WITH size <- ring_size, cells <- RingCells, read <- First,
               write <- Wrap(First + Len(messages))

\* Whatever is posted, taken out of the middle, merged or lost, the places
\* answered are those of USER's own ring, whose messages move from cell to cell
\* (queue.rs: ring_place, ring_taken; post_to).
AsUserRing == Ring!Spec
=============================================================================
