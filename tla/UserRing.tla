----------------------------- MODULE UserRing -----------------------------
(***************************************************************************)
(* The ring in which Windows' own USER keeps the messages posted to a      *)
(* task, cell by cell: what the code says of USER.EXE where it follows it  *)
(* (queue.rs: ring_place, ring_taken; kb/user/postmessage.md).  A message  *)
(* lies in a cell, and taking one out of the middle moves others so that   *)
(* no gap stays.                                                           *)
(***************************************************************************)
EXTENDS Integers

CONSTANTS
  Message,     \* the messages: records with an hwnd and a message
  Merged,      \* the numbers of messages of which a later takes the place
  Filters,     \* the sets of messages that a look may ask for
  Sizes,       \* the sizes a program may ask for
  Size,        \* the size at first
  RING_START,  \* where the first cell lies in the queue's segment
  RING_ENTRY,  \* how long a cell is
  Empty        \* no message

VARIABLES
  size,   \* how many cells there are
  cells,  \* what is in each
  read,   \* the cell of the oldest message
  write,  \* the cell of the next
  place   \* the place PostMessage answered last, nought for none

vars == <<size, cells, read, write, place>>

Cells == 0 .. size - 1
Place(c) == RING_START + c * RING_ENTRY
Next(c) == IF c + 1 < size THEN c + 1 ELSE 0
Before(c) == IF c > 0 THEN c - 1 ELSE size - 1

\* How far behind the oldest message a cell is.
Behind(c) == IF c >= read THEN c - read ELSE c - read + size

Full == size = 0 \/ cells[write] # Empty
Merges(m) ==
  /\ m.message \in Merged
  /\ size > 0
  /\ cells[Before(write)] # Empty
  /\ cells[Before(write)].hwnd = m.hwnd
  /\ cells[Before(write)].message = m.message

Init ==
  /\ size = Size
  /\ cells = [c \in 0 .. Size - 1 |-> Empty]
  /\ read = 0 /\ write = 0 /\ place = 0

\* A message put over the last one waiting.
PostOver(m) ==
  /\ Merges(m)
  /\ cells' = [cells EXCEPT ![Before(write)] = m]
  /\ place' = Place(Before(write))
  /\ UNCHANGED <<size, read, write>>

PostNext(m) ==
  /\ ~Merges(m) /\ ~Full
  /\ cells' = [cells EXCEPT ![write] = m]
  /\ write' = Next(write)
  /\ place' = Place(write)
  /\ UNCHANGED <<size, read>>

PostLost(m) ==
  /\ ~Merges(m) /\ Full
  /\ place' = 0
  /\ UNCHANGED <<size, cells, read, write>>

\* The oldest message asked for taken out of cell c.  From the oldest on, the
\* ones before it move up, and the oldest's cell with them; past the end of
\* the ring, the ones after it move down.
Take(c, asked) ==
  /\ cells[c] \in asked
  /\ \A d \in Cells : cells[d] \in asked => Behind(c) <= Behind(d)
  /\ \/ /\ c >= read
        /\ cells' = [d \in Cells |-> IF d = read THEN Empty
                                     ELSE IF read < d /\ d <= c
                                     THEN cells[d - 1] ELSE cells[d]]
        /\ read' = Next(read)
        /\ UNCHANGED write
     \/ /\ c < read
        /\ cells' = [d \in Cells |-> IF d = write - 1 THEN Empty
                                     ELSE IF c <= d /\ d < write
                                     THEN cells[d + 1] ELSE cells[d]]
        /\ write' = write - 1
        /\ UNCHANGED read
  /\ UNCHANGED <<size, place>>

\* A ring made anew, what was posted lost.
Make(n) ==
  /\ size' = n
  /\ cells' = [c \in 0 .. n - 1 |-> Empty]
  /\ read' = 0 /\ write' = 0
  /\ UNCHANGED place

Step ==
  \/ \E n \in Sizes : Make(n)
  \/ \E m \in Message : PostOver(m) \/ PostNext(m) \/ PostLost(m)
  \/ \E asked \in Filters : \E c \in Cells : Take(c, asked)

Spec == Init /\ [][Step]_vars
=============================================================================
