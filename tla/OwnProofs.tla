----------------------------- MODULE OwnProofs ------------------------------
(* Theorems about what a task keeps of its own (MCOwn): the queue of posted *)
(* messages implements USER's ring, whatever the sizes, the messages and    *)
(* the looks; timers are taken in turn and slept for, whatever tasks there  *)
(* are and the intervals they ask for; and, from HeapProofs, the types of   *)
(* the run that has them and the local heap together.                       *)
EXTENDS MCOwn, HeapProofs

-----------------------------------------------------------------------------
(* The ring: places.                                                       *)

\* The remainder of what is less than twice its divisor.
LEMMA Modulo ==
  ASSUME NEW s \in Nat \ {0}, NEW n \in Nat, n < s + s
  PROVE  /\ n < s => n % s = n
         /\ n >= s => n % s = n - s
OBVIOUS

LEMMA WordsNumber == Words \in Nat
BY DEF Words

\* An entry's number from its place.
LEMMA EntryOf ==
  ASSUME NEW c \in Nat
  PROVE  ((RING_START + c * RING_ENTRY) - RING_START) \div RING_ENTRY = c
BY DEF RING_START, RING_ENTRY

\* What the type says of the numbers.
LEMMA Numbers ==
  ASSUME TypeOK
  PROVE  /\ ring_size \in Nat
         /\ Len(messages) \in 0 .. ring_size
         /\ First \in Nat
         /\ ring_size > 0 => First < ring_size
         /\ ring_size = 0 => First = 0
         /\ ring_read = RING_START + First * RING_ENTRY
<1>1. ring_size \in Nat /\ Len(messages) \in 0 .. ring_size
  BY SizesAssumption DEF TypeOK
<1>2. PICK c \in 0 .. Entries - 1 : ring_read = RING_START + c * RING_ENTRY
  BY DEF TypeOK
<1>3. First = c
  BY <1>1, <1>2, EntryOf DEF First, Entries
<1> QED BY <1>1, <1>2, <1>3 DEF Entries

\* The entry i on from entry f of a ring of s, and that its place is a word's.
LEMMA EntryOn ==
  ASSUME NEW s \in Nat \ {0},
         RING_START + s * RING_ENTRY <= Words, Words \in Nat,
         NEW f \in 0 .. s - 1, NEW i \in 0 .. s,
         NEW w, w = IF f + i < s THEN f + i ELSE (f + i) - s
  PROVE  /\ w \in 0 .. s - 1
         /\ (f + i) % s = w
         /\ RING_START + w * RING_ENTRY \in RING_START .. Words - 1
<1>1. w \in 0 .. s - 1
  OBVIOUS
<1>2. f + i \in Nat /\ f + i < s + s
  OBVIOUS
<1>3. (f + i) % s = w
  <2>1. CASE f + i < s
    <3>1. (f + i) % s = f + i
      BY <1>2, <2>1, Modulo, Zenon
    <3> QED BY <2>1, <3>1
  <2>2. CASE f + i >= s
    <3>1. (f + i) % s = (f + i) - s
      BY <1>2, <2>2, Modulo, Zenon
    <3>2. w = (f + i) - s
      BY <2>2
    <3> QED BY <3>1, <3>2
  <2> QED BY <2>1, <2>2
<1>4. RING_START + w * RING_ENTRY \in RING_START .. Words - 1
  BY <1>1 DEF RING_START, RING_ENTRY
<1> QED BY <1>1, <1>3, <1>4

\* The same of the ring as it is.
LEMMA PlaceOf ==
  ASSUME TypeOK, ring_size > 0, NEW i \in 0 .. ring_size
  PROVE  /\ Wrap(First + i) \in 0 .. ring_size - 1
         /\ RingAt(i) = RING_START + Wrap(First + i) * RING_ENTRY
         /\ RingAt(i) \in RING_START .. Words - 1
<1>1. /\ ring_size \in Nat \ {0} /\ First \in 0 .. ring_size - 1
      /\ RING_START + ring_size * RING_ENTRY <= Words
      /\ Words \in Nat
  BY Numbers, WordsNumber, SizesAssumption DEF TypeOK
<1>2. Wrap(First + i)
        = IF First + i < ring_size THEN First + i ELSE (First + i) - ring_size
  BY DEF Wrap
<1>3. /\ Wrap(First + i) \in 0 .. ring_size - 1
      /\ (First + i) % ring_size = Wrap(First + i)
      /\ RING_START + Wrap(First + i) * RING_ENTRY \in RING_START .. Words - 1
  BY <1>1, <1>2, EntryOn, Zenon
<1>4. RingAt(i) = RING_START + Wrap(First + i) * RING_ENTRY
  <2>1. Entries = ring_size
    BY <1>1 DEF Entries
  <2> QED BY <1>3, <2>1, Zenon DEF RingAt
<1> QED BY <1>3, <1>4, Zenon

\* A message's cell and a cell's message.
LEMMA CellOf ==
  ASSUME TypeOK
  PROVE  /\ \A i \in 0 .. ring_size - 1 :
              /\ Wrap(First + i) \in 0 .. ring_size - 1
              /\ Index(Wrap(First + i)) = i
         /\ \A c \in 0 .. ring_size - 1 :
              Index(c) \in 0 .. ring_size - 1 /\ Wrap(First + Index(c)) = c
<1>1. ring_size \in Nat /\ First \in Nat
      /\ (ring_size > 0 => First \in 0 .. ring_size - 1)
  BY Numbers
<1> HIDE DEF First
<1>2. ASSUME NEW i \in 0 .. ring_size - 1
      PROVE  /\ Wrap(First + i) \in 0 .. ring_size - 1
             /\ Index(Wrap(First + i)) = i
  BY <1>1 DEF Wrap, Index
<1>3. ASSUME NEW c \in 0 .. ring_size - 1
      PROVE  Index(c) \in 0 .. ring_size - 1 /\ Wrap(First + Index(c)) = c
  BY <1>1 DEF Wrap, Index
<1> QED BY <1>2, <1>3

-----------------------------------------------------------------------------
(* Types.                                                                  *)

\* The messages before one of a sequence.
LEMMA Prefix ==
  ASSUME NEW s \in Seq(Message), NEW i \in 1 .. Len(s)
  PROVE  /\ SubSeq(s, 1, i - 1) \in Seq(Message)
         /\ Len(SubSeq(s, 1, i - 1)) = i - 1
         /\ \A j \in 1 .. i - 1 : SubSeq(s, 1, i - 1)[j] = s[j]
OBVIOUS

\* A message taken out of a sequence.
LEMMA Removed ==
  ASSUME NEW s \in Seq(Message), NEW i \in 1 .. Len(s)
  PROVE  LET r == SubSeq(s, 1, i - 1) \o SubSeq(s, i + 1, Len(s)) IN
         /\ r \in Seq(Message)
         /\ Len(r) = Len(s) - 1
         /\ \A j \in 1 .. Len(s) - 1 : r[j] = IF j < i THEN s[j] ELSE s[j + 1]
<1> DEFINE a == SubSeq(s, 1, i - 1)
           b == SubSeq(s, i + 1, Len(s))
<1>1. /\ a \in Seq(Message) /\ Len(a) = i - 1
      /\ \A j \in 1 .. i - 1 : a[j] = s[j]
  BY Prefix
<1>2. /\ b \in Seq(Message) /\ Len(b) = Len(s) - i
      /\ \A j \in 1 .. Len(s) - i : b[j] = s[j + i]
  OBVIOUS
<1> HIDE DEF a, b
<1>3. /\ a \o b \in Seq(Message)
      /\ Len(a \o b) = Len(a) + Len(b)
      /\ \A j \in 1 .. Len(a) + Len(b) :
           (a \o b)[j] = IF j <= Len(a) THEN a[j] ELSE b[j - Len(a)]
  BY <1>1, <1>2, ConcatProperties, Zenon
<1>4. Len(a \o b) = Len(s) - 1
  BY <1>1, <1>2, <1>3
<1>5. ASSUME NEW j \in 1 .. Len(s) - 1
      PROVE  (a \o b)[j] = IF j < i THEN s[j] ELSE s[j + 1]
  <2>1. CASE j < i
    BY <1>1, <1>3, <2>1
  <2>2. CASE j >= i
    <3>1. j - Len(a) \in 1 .. Len(s) - i /\ (j - Len(a)) + i = j + 1
      BY <1>1, <2>2
    <3>2. j \in 1 .. Len(a) + Len(b) /\ ~(j <= Len(a)) /\ ~(j < i)
      BY <1>1, <1>2, <2>2
    <3>3. (a \o b)[j] = b[j - Len(a)]
      BY <1>3, <3>2, Zenon
    <3>4. b[j - Len(a)] = s[(j - Len(a)) + i]
      BY <1>2, <3>1, Zenon
    <3> QED BY <3>1, <3>2, <3>3, <3>4, Zenon
  <2>3. j < i \/ j >= i
    OBVIOUS
  <2> QED BY <2>1, <2>2, <2>3, Zenon
<1> QED BY <1>3, <1>4, <1>5 DEF a, b

\* What is kept of the messages as one is posted, and the room there is.
LEMMA KeptIs ==
  ASSUME TypeOK, NEW m \in Message
  PROVE  /\ Kept(m) \in Seq(Message)
         /\ Len(Kept(m)) <= Len(messages)
         /\ Len(Kept(m)) < ring_size
              => RingPlace(Len(Kept(m))) = RingAt(Len(Kept(m)))
                 /\ RingAt(Len(Kept(m))) \in RING_START .. Words - 1
<1>1. Kept(m) \in Seq(Message) /\ Len(Kept(m)) <= Len(messages)
  BY DEF TypeOK, Kept
<1>2. ASSUME Len(Kept(m)) < ring_size
      PROVE  RingPlace(Len(Kept(m))) = RingAt(Len(Kept(m)))
             /\ RingAt(Len(Kept(m))) \in RING_START .. Words - 1
  BY <1>1, <1>2, Numbers, PlaceOf DEF RingPlace
<1> QED BY <1>1, <1>2

LEMMA TypeStep ==
  ASSUME TypeOK, [Next]_vars
  PROVE  TypeOK'
<1> USE Numbers
<1>1. CASE UNCHANGED vars
  BY <1>1 DEF TypeOK, Entries, vars
<1>2. ASSUME NEW m \in Message, Post(m)
      PROVE  TypeOK'
  <2>1. CASE Len(Kept(m)) < ring_size
    <3>1. place' \in RING_START .. Words - 1 /\ place' # 0
      BY <1>2, <2>1, KeptIs DEF Post, RING_START
    <3>2. messages' \in Seq(Message) /\ Len(messages') <= ring_size
      BY <1>2, <2>1, <3>1, KeptIs DEF Post
    <3> QED BY <1>2, <3>1, <3>2 DEF TypeOK, Post, Entries
  <2>2. CASE Len(Kept(m)) >= ring_size
    <3>1. place' = 0 /\ messages' = Kept(m)
      BY <1>2, <2>2 DEF Post, RingPlace
    <3> QED BY <1>2, <3>1, KeptIs DEF TypeOK, Post, Entries
  <2> QED BY <2>1, <2>2, KeptIs
<1>3. ASSUME NEW asked \in Filters, Take(asked)
      PROVE  TypeOK'
  <2>1. PICK i \in 1 .. Len(messages) :
          /\ messages' = SubSeq(messages, 1, i - 1)
                           \o SubSeq(messages, i + 1, Len(messages))
          /\ ring_read' = RingTaken(i - 1)
          /\ UNCHANGED <<ring_size, quit, place>>
    BY <1>3 DEF Take
  <2>2. messages' \in Seq(Message) /\ Len(messages') = Len(messages) - 1
    BY <2>1, Removed DEF TypeOK
  <2>3. ring_size > 0 /\ 1 \in 0 .. ring_size
    BY <2>1
  <2>4. \E c \in 0 .. ring_size - 1 : ring_read' = RING_START + c * RING_ENTRY
    BY <2>1, <2>3, PlaceOf DEF RingTaken
  <2>5. \E c \in 0 .. Entries' - 1 : ring_read' = RING_START + c * RING_ENTRY
    <3>1. Entries' = ring_size
      BY <2>1, <2>3 DEF Entries
    <3> QED BY <2>4, <3>1
  <2>6. Len(messages') <= ring_size'
    <3>1. Len(messages) \in 0 .. ring_size /\ ring_size \in Nat
      BY Numbers
    <3>2. Len(messages') <= ring_size
      BY <2>2, <3>1
    <3>3. ring_size' = ring_size
      BY <2>1
    <3> QED BY <3>2, <3>3, Zenon
  <2> QED BY <2>1, <2>2, <2>5, <2>6 DEF TypeOK
<1>4. ASSUME NEW n \in Sizes, SetMessageQueue(n)
      PROVE  TypeOK'
  <2>1. n \in Nat /\ RING_START = RING_START + 0 * RING_ENTRY
    BY SizesAssumption DEF RING_START, RING_ENTRY
  <2>2. 0 \in 0 .. Entries' - 1
    BY <1>4, <2>1 DEF SetMessageQueue, Entries
  <2> QED BY <1>4, <2>1, <2>2 DEF TypeOK, SetMessageQueue
<1>5. ASSUME NEW asked \in Filters, TakeQuit(asked) PROVE TypeOK'
  BY <1>5 DEF TypeOK, TakeQuit, Entries
<1>6. CASE PostQuitMessage
  BY <1>6 DEF TypeOK, PostQuitMessage, Entries
<1> QED BY <1>1, <1>2, <1>3, <1>4, <1>5, <1>6 DEF Next

LEMMA TypeInit == Init => TypeOK
<1> SUFFICES ASSUME Init PROVE TypeOK
  OBVIOUS
<1>1. Size \in Nat /\ RING_START = RING_START + 0 * RING_ENTRY
  BY SizesAssumption DEF RING_START, RING_ENTRY
<1>2. 0 \in 0 .. Entries - 1
  BY <1>1 DEF Init, Entries
<1>3. \E c \in 0 .. Entries - 1 : ring_read = RING_START + c * RING_ENTRY
  BY <1>1, <1>2 DEF Init
<1>4. messages \in Seq(Message) /\ Len(messages) <= ring_size
  BY <1>1 DEF Init
<1> QED BY <1>3, <1>4, SizesAssumption DEF Init, TypeOK

\* Every reachable state is of its type: no more messages wait than there is
\* room for, and the oldest's place is an entry's (queue.rs: Queue).
THEOREM TypeCorrect == Spec => []TypeOK
<1>1. Init => TypeOK
  BY TypeInit
<1>2. TypeOK /\ [Next]_vars => TypeOK'
  BY TypeStep
<1> QED BY <1>1, <1>2, PTL DEF Spec

-----------------------------------------------------------------------------
(* The ring.  What a step does to the messages it does to the cells.       *)

\* The cell before the next message's is the last one's, and the one after it
\* the next message's after that.
LEMMA Neighbours ==
  ASSUME TypeOK, ring_size > 0
  PROVE  /\ \A i \in 1 .. ring_size :
              Ring!Before(Wrap(First + i)) = Wrap(First + (i - 1))
         /\ \A i \in 0 .. ring_size - 1 :
              Ring!Next(Wrap(First + i)) = Wrap(First + (i + 1))
<1>1. ring_size \in Nat /\ First \in 0 .. ring_size - 1
  BY Numbers
<1> HIDE DEF First
<1>2. ASSUME NEW i \in 1 .. ring_size
      PROVE  Ring!Before(Wrap(First + i)) = Wrap(First + (i - 1))
  BY <1>1 DEF Ring!Before, Wrap
<1>3. ASSUME NEW i \in 0 .. ring_size - 1
      PROVE  Ring!Next(Wrap(First + i)) = Wrap(First + (i + 1))
  BY <1>1 DEF Ring!Next, Wrap
<1> QED BY <1>2, <1>3

\* What is in the cell of a message, and in a cell of none.
LEMMA InCell ==
  ASSUME TypeOK
  PROVE  /\ RingCells = [c \in 0 .. ring_size - 1 |-> RingCells[c]]
         /\ \A i \in 0 .. ring_size - 1 :
              RingCells[Wrap(First + i)]
                = IF i < Len(messages) THEN messages[i + 1] ELSE Empty
BY CellOf DEF RingCells

\* The ring's next cell is full just where the queue is.
LEMMA FullIs ==
  ASSUME TypeOK
  PROVE  Ring!Full <=> Len(messages) = ring_size
<1>1. CASE ring_size = 0
  BY <1>1, Numbers DEF Ring!Full
<1>2. CASE ring_size > 0 /\ Len(messages) < ring_size
  <2>1. Len(messages) \in 0 .. ring_size - 1
    BY <1>2, Numbers
  <2>2. RingCells[Wrap(First + Len(messages))] = Empty
    BY <2>1, InCell
  <2> QED BY <1>2, <2>2 DEF Ring!Full
<1>3. CASE ring_size > 0 /\ Len(messages) = ring_size
  <2>1. Wrap(First + ring_size) = Wrap(First + 0) /\ 0 \in 0 .. ring_size - 1
    BY <1>3, Numbers DEF Wrap
  <2>2. RingCells[Wrap(First + Len(messages))] = messages[1]
    BY <1>3, <2>1, InCell
  <2>3. messages[1] \in Message
    BY <1>3, Numbers DEF TypeOK
  <2> QED BY <1>3, <2>2, <2>3, EmptyAssumption DEF Ring!Full
<1> QED BY <1>1, <1>2, <1>3, Numbers

\* A message merges into the one in the last cell just where it does into the
\* last of the queue.
LEMMA MergesIs ==
  ASSUME TypeOK, NEW m \in Message
  PROVE  Ring!Merges(m)
           <=> messages # <<>> /\ MergesInto(m, messages[Len(messages)])
<1>1. CASE messages = <<>>
  <2>1. CASE ring_size = 0
    BY <1>1, <2>1 DEF Ring!Merges
  <2>2. CASE ring_size > 0
    <3>1. Wrap(First + Len(messages)) = Wrap(First + ring_size)
      BY <1>1, <2>2, Numbers DEF Wrap
    <3>2. Ring!Before(Wrap(First + ring_size)) = Wrap(First + (ring_size - 1))
      BY <2>2, Numbers, Neighbours
    <3>3. RingCells[Wrap(First + (ring_size - 1))] = Empty
      BY <1>1, <2>2, Numbers, InCell
    <3> QED BY <1>1, <3>1, <3>2, <3>3 DEF Ring!Merges
  <2> QED BY <2>1, <2>2, Numbers
<1>2. CASE messages # <<>>
  <2>1. Len(messages) \in 1 .. ring_size
    BY <1>2, Numbers DEF TypeOK
  <2>2. /\ Ring!Before(Wrap(First + Len(messages)))
             = Wrap(First + (Len(messages) - 1))
        /\ RingCells[Wrap(First + (Len(messages) - 1))]
             = messages[Len(messages)]
    <3> DEFINE l == Len(messages)
    <3>1. /\ ring_size > 0 /\ l \in 1 .. ring_size
          /\ l - 1 \in 0 .. ring_size - 1
          /\ l - 1 < l /\ (l - 1) + 1 = l
      BY <2>1, Numbers
    <3> HIDE DEF l
    <3>2. Ring!Before(Wrap(First + l)) = Wrap(First + (l - 1))
      BY <3>1, Neighbours
    <3>3. RingCells[Wrap(First + (l - 1))] = messages[l]
      BY <3>1, InCell DEF l
    <3> QED BY <3>2, <3>3 DEF l
  <2>3. messages[Len(messages)] \in Message
    <3>1. Len(messages) \in 1 .. Len(messages)
      BY <2>1, Numbers
    <3>2. messages \in Seq(Message)
      BY DEF TypeOK
    <3> QED BY <3>1, <3>2, ElementOfSeq
  <2>4. ring_size > 0 /\ messages[Len(messages)] # Empty
    BY <2>1, <2>3, EmptyAssumption, Numbers
  <2> QED BY <1>2, <2>2, <2>4 DEF Ring!Merges, MergesInto
<1> QED BY <1>1, <1>2

\* A message posted.
LEMMA PostStep ==
  ASSUME TypeOK, NEW m \in Message, Post(m)
  PROVE  Ring!PostOver(m) \/ Ring!PostNext(m) \/ Ring!PostLost(m)
<1> DEFINE L == Len(messages)
<1>1. /\ ring_size' = ring_size /\ First' = First
      /\ \A n : (Wrap(n))' = Wrap(n) /\ (Index(n))' = Index(n)
  BY DEF Post, First, Wrap, Index
<1>2. messages \in Seq(Message) /\ L \in 0 .. ring_size /\ ring_size \in Nat
  BY Numbers DEF TypeOK
<1>3. RingCells' = [c \in 0 .. ring_size - 1 |->
                      IF Index(c) < Len(messages')
                      THEN messages'[Index(c) + 1] ELSE Empty]
  BY <1>1 DEF RingCells
<1>4. RingCells = [c \in 0 .. ring_size - 1 |->
                      IF Index(c) < L THEN messages[Index(c) + 1] ELSE Empty]
  BY DEF RingCells
<1>5. \A i \in 0 .. ring_size - 1 :
        /\ RingAt(i) = Ring!Place(Wrap(First + i)) /\ RingAt(i) # 0
  <2> TAKE i \in 0 .. ring_size - 1
  <2>1. ring_size > 0 /\ i \in 0 .. ring_size
    BY <1>2
  <2>2. /\ RingAt(i) = RING_START + Wrap(First + i) * RING_ENTRY
        /\ RingAt(i) \in RING_START .. Words - 1
    BY <2>1, PlaceOf, Zenon
  <2> QED BY <2>2 DEF Ring!Place, RING_START
<1>6. CASE messages # <<>> /\ MergesInto(m, messages[L])
  <2> DEFINE front == SubSeq(messages, 1, L - 1)
             b == Wrap(First + (L - 1))
  <2>1. /\ L \in 1 .. ring_size /\ L - 1 \in 0 .. ring_size - 1
        /\ L - 1 < ring_size /\ ring_size > 0 /\ L \in Nat
    BY <1>2, <1>6
  <2>2. /\ front \in Seq(Message) /\ Len(front) = L - 1
        /\ \A j \in 1 .. L - 1 : front[j] = messages[j]
    <3>1. L \in 1 .. Len(messages)
      BY <2>1
    <3> QED BY <1>2, <3>1, Prefix
  <2>3. Kept(m) = front
    BY <1>6 DEF Kept
  <2>4. place' = RingAt(L - 1) /\ messages' = Append(front, m)
    <3>1. Len(Kept(m)) = L - 1 /\ ~(L - 1 >= ring_size)
      BY <2>1, <2>2, <2>3, <1>2
    <3>2. place' = RingAt(L - 1)
      BY <3>1 DEF Post, RingPlace
    <3> QED BY <1>5, <2>1, <2>3, <3>2 DEF Post
  <2>5. /\ Len(messages') = L
        /\ messages'[L] = m
        /\ \A j \in 1 .. L - 1 : messages'[j] = messages[j]
    BY <2>1, <2>2, <2>4
  <2>6. b \in 0 .. ring_size - 1 /\ Index(b) = L - 1
    BY <2>1, CellOf
  <2>7. \A c \in 0 .. ring_size - 1 :
          /\ Index(c) \in 0 .. ring_size - 1
          /\ c # b => Index(c) # L - 1
    BY CellOf
  <2> HIDE DEF b
  <2>8. RingCells' = [RingCells EXCEPT ![b] = m]
    <3>1. RingCells' = [c \in 0 .. ring_size - 1 |->
                          IF c = b THEN m ELSE RingCells[c]]
      <4>1. ASSUME NEW c \in 0 .. ring_size - 1
            PROVE  (IF Index(c) < L THEN messages'[Index(c) + 1] ELSE Empty)
                     = IF c = b THEN m
                       ELSE IF Index(c) < L THEN messages[Index(c) + 1]
                       ELSE Empty
        <5>1. CASE c = b
          <6>1. Index(c) = L - 1 /\ L - 1 < L /\ (L - 1) + 1 = L
            BY <2>1, <2>6, <5>1
          <6> HIDE DEF L
          <6> QED BY <2>5, <5>1, <6>1
        <5>2. CASE c # b /\ Index(c) < L
          <6>1. Index(c) + 1 \in 1 .. L - 1
            BY <2>1, <2>7, <5>2
          <6> QED BY <2>5, <5>2, <6>1
        <5>3. CASE c # b /\ ~(Index(c) < L)
          BY <5>3
        <5> QED BY <5>1, <5>2, <5>3
      <4> QED BY <1>3, <1>4, <2>5, <4>1, Zenon
    <3> QED BY <1>4, <3>1
  <2>9. Ring!Before(Wrap(First + L)) = b
    BY <2>1, Neighbours, Zenon DEF b
  <2>10. Ring!Merges(m)
    BY <1>6, MergesIs
  <2> QED BY <1>1, <1>5, <2>1, <2>4, <2>5, <2>8, <2>9, <2>10
          DEF Ring!PostOver, Wrap, b
<1>7. CASE ~(messages # <<>> /\ MergesInto(m, messages[L]))
  <2>1. Kept(m) = messages /\ ~Ring!Merges(m)
    BY <1>7, MergesIs DEF Kept
  <2>2. CASE L = ring_size
    <3>1. place' = 0 /\ messages' = messages
      BY <1>2, <2>1, <2>2 DEF Post, RingPlace
    <3>2. RingCells' = RingCells
      BY <1>3, <1>4, <3>1
    <3>3. Ring!Full
      BY <2>2, FullIs
    <3> QED BY <1>1, <2>1, <3>1, <3>2, <3>3 DEF Ring!PostLost, Wrap
  <2>3. CASE L < ring_size
    <3> DEFINE b == Wrap(First + L)
    <3>1. L \in 0 .. ring_size - 1
      BY <1>2, <2>3
    <3>2. place' = RingAt(L) /\ messages' = Append(messages, m)
      BY <1>2, <1>5, <2>1, <3>1 DEF Post, RingPlace
    <3>3. /\ Len(messages') = L + 1
          /\ messages'[L + 1] = m
          /\ \A j \in 1 .. L : messages'[j] = messages[j]
      BY <1>2, <3>2
    <3>4. b \in 0 .. ring_size - 1 /\ Index(b) = L
      BY <3>1, CellOf
    <3>5. \A c \in 0 .. ring_size - 1 :
            Index(c) \in 0 .. ring_size - 1 /\ (c # b => Index(c) # L)
      BY CellOf
    <3> HIDE DEF b
    <3>6. RingCells' = [RingCells EXCEPT ![b] = m]
      <4>1. RingCells' = [c \in 0 .. ring_size - 1 |->
                            IF c = b THEN m ELSE RingCells[c]]
        <5>1. ASSUME NEW c \in 0 .. ring_size - 1
              PROVE  (IF Index(c) < L + 1 THEN messages'[Index(c) + 1]
                                          ELSE Empty)
                       = IF c = b THEN m
                         ELSE IF Index(c) < L THEN messages[Index(c) + 1]
                         ELSE Empty
          <6>1. CASE c = b
            BY <1>2, <3>3, <3>4, <6>1
          <6>2. CASE c # b /\ Index(c) < L
            <7>1. Index(c) + 1 \in 1 .. L /\ Index(c) < L + 1
              BY <1>2, <3>5, <6>2
            <7> QED BY <3>3, <6>2, <7>1
          <6>3. CASE c # b /\ ~(Index(c) < L)
            <7>1. ~(Index(c) < L + 1)
              BY <1>2, <3>5, <6>3
            <7> QED BY <6>3, <7>1
          <6> QED BY <6>1, <6>2, <6>3
        <5> QED BY <1>3, <1>4, <3>3, <5>1, Zenon
      <4> QED BY <1>4, <4>1
    <3>7. (Wrap(First + Len(messages)))' = Ring!Next(b)
      BY <1>1, <1>2, <3>1, <3>3, Neighbours DEF Wrap, b
    <3>8. ~Ring!Full
      BY <1>2, <2>3, FullIs
    <3>9. place' = Ring!Place(b)
      BY <1>5, <3>1, <3>2 DEF b
    <3> QED BY <1>1, <2>1, <3>6, <3>7, <3>8, <3>9 DEF Ring!PostNext, b
  <2> QED BY <1>2, <2>2, <2>3
<1> QED BY <1>6, <1>7

\* The cell n on from the first of s cells, and how far on from cell f one is:
\* Wrap and Index with their numbers named.
On(s, n) == IF n < s THEN n ELSE n - s
Off(s, f, c) == IF c >= f THEN c - f ELSE (c - f) + s

\* The oldest message asked for, as the ring knows it: the cell of message i.
LEMMA OldestIs ==
  ASSUME TypeOK, NEW asked \in Filters, NEW i \in 1 .. Len(messages),
         Finds(i, asked), NEW c, c = Wrap(First + (i - 1))
  PROVE  /\ c \in 0 .. ring_size - 1
         /\ RingCells[c] \in asked
         /\ \A d \in 0 .. ring_size - 1 :
              RingCells[d] \in asked => Ring!Behind(c) <= Ring!Behind(d)
<1>1. /\ i - 1 \in 0 .. ring_size - 1 /\ i - 1 < Len(messages) /\ (i - 1) + 1 = i
      /\ Len(messages) \in Nat /\ i \in Nat
  BY Numbers
<1>2. c \in 0 .. ring_size - 1 /\ Index(c) = i - 1 /\ RingCells[c] = messages[i]
  BY <1>1, CellOf, InCell
<1>3. \A d : Ring!Behind(d) = Index(d)
  BY DEF Ring!Behind, Index
<1>4. ASSUME NEW d \in 0 .. ring_size - 1, RingCells[d] \in asked
      PROVE  i - 1 <= Index(d)
  <2>1. RingCells[d] # Empty
    BY <1>4, EmptyAssumption DEF Filters
  <2>2. /\ Index(d) \in 0 .. ring_size - 1 /\ Index(d) < Len(messages)
        /\ RingCells[d] = messages[Index(d) + 1]
    BY <2>1, CellOf DEF RingCells
  <2>3. ~(Index(d) + 1 \in 1 .. i - 1)
    BY <1>4, <2>2 DEF Finds
  <2> QED BY <1>1, <2>2, <2>3
<1> QED BY <1>2, <1>3, <1>4 DEF Finds

\* A message taken.
LEMMA TakeStep ==
  ASSUME TypeOK, NEW asked \in Filters, Take(asked)
  PROVE  \E c \in 0 .. ring_size - 1 : Ring!Take(c, asked)
<1> DEFINE s == ring_size
           f == First
           l == Len(messages)
           g == First'
<1>1. PICK i \in 1 .. l :
        /\ Finds(i, asked)
        /\ messages' = SubSeq(messages, 1, i - 1)
                         \o SubSeq(messages, i + 1, l)
        /\ ring_read' = RingTaken(i - 1)
        /\ UNCHANGED <<ring_size, quit, place>>
  BY DEF Take
<1>2. /\ s \in Nat \ {0} /\ f \in 0 .. s - 1 /\ l \in 1 .. s /\ i \in 1 .. l
      /\ i - 1 \in 0 .. s - 1 /\ 1 \in 0 .. s
  BY Numbers
<1> DEFINE c == Wrap(First + (i - 1))
<1>3. /\ c \in 0 .. s - 1
      /\ RingCells[c] \in asked
      /\ \A d \in 0 .. s - 1 :
           RingCells[d] \in asked => Ring!Behind(c) <= Ring!Behind(d)
  BY <1>1, OldestIs
<1>4. /\ Len(messages') = l - 1
      /\ \A j \in 1 .. l - 1 :
           messages'[j] = IF j < i THEN messages[j] ELSE messages[j + 1]
  BY <1>1, Removed DEF TypeOK
<1>5. /\ c = On(s, f + (i - 1))
      /\ Wrap(First + l) = On(s, f + l)
      /\ RingCells = [d \in 0 .. s - 1 |->
                        IF Off(s, f, d) < l THEN messages[Off(s, f, d) + 1]
                        ELSE Empty]
  BY DEF On, Off, Wrap, RingCells, Index
<1>6. /\ (Wrap(First + Len(messages)))' = On(s, g + (l - 1))
      /\ RingCells' = [d \in 0 .. s - 1 |->
                         IF Off(s, g, d) < l - 1 THEN messages'[Off(s, g, d) + 1]
                         ELSE Empty]
  BY <1>1, <1>4 DEF On, Off, Wrap, RingCells, Index
<1>7. /\ RingAt(i - 1) = RING_START + c * RING_ENTRY
      /\ RingAt(1) = RING_START + On(s, f + 1) * RING_ENTRY
      /\ On(s, f + 1) \in 0 .. s - 1
      /\ ring_read = RING_START + f * RING_ENTRY
  BY <1>2, PlaceOf, Numbers DEF On, Wrap
<1>8. CASE c >= f
  <2>1. RingAt(i - 1) >= ring_read
    BY <1>2, <1>3, <1>7, <1>8 DEF RING_START, RING_ENTRY
  <2>2. g = On(s, f + 1)
    BY <1>1, <1>7, <2>1, EntryOf DEF RingTaken, First
  <2> HIDE DEF s, f, l, g, c
  <2>3. /\ g = IF f + 1 < s THEN f + 1 ELSE 0
        /\ On(s, g + (l - 1)) = On(s, f + l)
        /\ \A d \in 0 .. s - 1 :
             /\ d = f => Off(s, g, d) >= l - 1
             /\ f < d /\ d <= c => /\ Off(s, g, d) + 1 < i
                                   /\ Off(s, f, d - 1) = Off(s, g, d)
                                   /\ Off(s, f, d - 1) < l
             /\ d # f /\ ~(f < d /\ d <= c) =>
                  /\ Off(s, f, d) = Off(s, g, d) + 1
                  /\ Off(s, g, d) + 1 >= i
    <3>1. c = On(s, f + (i - 1))
      BY <1>5
    <3> QED BY <1>2, <1>8, <2>2, <3>1 DEF On, Off
  <2>4. ASSUME NEW d \in 0 .. s - 1
        PROVE  RingCells'[d] = IF d = f THEN Empty
                               ELSE IF f < d /\ d <= c
                               THEN RingCells[d - 1] ELSE RingCells[d]
    <3> DEFINE o == Off(s, g, d)
    <3>1. o \in Nat /\ g \in 0 .. s - 1
      BY <1>2, <2>3 DEF Off
    <3>2. RingCells'[d] = IF o < l - 1 THEN messages'[o + 1] ELSE Empty
      BY <1>6
    <3>3. CASE d = f
      BY <1>2, <2>3, <3>1, <3>2, <3>3
    <3>4. CASE f < d /\ d <= c
      <4>1. /\ d # f /\ d - 1 \in 0 .. s - 1 /\ o < l - 1
            /\ o + 1 \in 1 .. l - 1 /\ o + 1 < i
        BY <1>2, <2>3, <3>1, <3>4
      <4>2. RingCells[d - 1] = messages[o + 1]
        BY <1>5, <2>3, <3>4, <4>1
      <4>3. messages'[o + 1] = messages[o + 1]
        BY <1>4, <4>1
      <4> QED BY <3>2, <3>4, <4>1, <4>2, <4>3
    <3>5. CASE d # f /\ ~(f < d /\ d <= c)
      <4>1. /\ Off(s, f, d) = o + 1 /\ o + 1 >= i
        BY <2>3, <3>5
      <4>2. RingCells[d] = IF o + 1 < l THEN messages[o + 1 + 1] ELSE Empty
        BY <1>5, <4>1
      <4>3. CASE o < l - 1
        <5>1. o + 1 < l /\ o + 1 \in 1 .. l - 1 /\ ~(o + 1 < i)
          BY <1>2, <3>1, <4>1, <4>3
        <5>2. messages'[o + 1] = messages[o + 1 + 1]
          BY <1>4, <5>1
        <5> QED BY <3>2, <3>5, <4>2, <4>3, <5>1, <5>2
      <4>4. CASE ~(o < l - 1)
        <5>1. ~(o + 1 < l)
          BY <1>2, <3>1, <4>4
        <5> QED BY <3>2, <3>5, <4>2, <4>4, <5>1
      <4> QED BY <4>3, <4>4
    <3> QED BY <3>3, <3>4, <3>5
  <2>5. RingCells' = [d \in 0 .. s - 1 |->
                        IF d = f THEN Empty
                        ELSE IF f < d /\ d <= c
                        THEN RingCells[d - 1] ELSE RingCells[d]]
    BY <1>6, <2>4
  <2>6. (Wrap(First + Len(messages)))' = Wrap(First + Len(messages))
    BY <1>5, <1>6, <2>3 DEF l
  <2>7. First' = Ring!Next(First)
    BY <2>3 DEF g, f, s, Ring!Next
  <2>8. Ring!Take(c, asked)
    BY <1>1, <1>3, <1>8, <2>5, <2>6, <2>7 DEF Ring!Take, Ring!Cells, s, f
  <2> QED BY <1>3, <2>8 DEF s
<1>9. CASE c < f
  <2> DEFINE w == On(s, f + l)
  <2>1. ~(RingAt(i - 1) >= ring_read)
    BY <1>2, <1>3, <1>7, <1>9 DEF RING_START, RING_ENTRY
  <2>2. g = f
    BY <1>1, <2>1 DEF RingTaken, First
  <2> HIDE DEF s, f, l, g, c, w
  <2>3. /\ w \in 1 .. s - 1
        /\ On(s, f + (l - 1)) = w - 1
        /\ \A d \in 0 .. s - 1 :
             /\ d = w - 1 => Off(s, f, d) = l - 1
             /\ d # w - 1 /\ c <= d /\ d < w =>
                  /\ Off(s, f, d) + 1 >= i /\ Off(s, f, d) < l - 1
                  /\ Off(s, f, d + 1) = Off(s, f, d) + 1
                  /\ d + 1 \in 0 .. s - 1
             /\ ~(c <= d /\ d < w) => \/ Off(s, f, d) + 1 < i
                                      \/ Off(s, f, d) >= l
    <3>1. c = On(s, f + (i - 1))
      BY <1>5
    <3> QED BY <1>2, <1>9, <3>1 DEF On, Off, w
  <2>4. ASSUME NEW d \in 0 .. s - 1
        PROVE  RingCells'[d] = IF d = w - 1 THEN Empty
                               ELSE IF c <= d /\ d < w
                               THEN RingCells[d + 1] ELSE RingCells[d]
    <3> DEFINE o == Off(s, f, d)
    <3>1. o \in Nat
      BY <1>2 DEF Off
    <3>2. RingCells'[d] = IF o < l - 1 THEN messages'[o + 1] ELSE Empty
      BY <1>6, <2>2
    <3>3. RingCells[d] = IF o < l THEN messages[o + 1] ELSE Empty
      BY <1>5
    <3>4. CASE d = w - 1
      <4>1. ~(o < l - 1)
        BY <1>2, <2>3, <3>1, <3>4
      <4> QED BY <3>2, <3>4, <4>1
    <3>5. CASE d # w - 1 /\ c <= d /\ d < w
      <4>1. /\ d + 1 \in 0 .. s - 1 /\ Off(s, f, d + 1) = o + 1 /\ o + 1 < l
            /\ o < l - 1 /\ o + 1 \in 1 .. l - 1 /\ ~(o + 1 < i)
        BY <1>2, <2>3, <3>1, <3>5
      <4>2. RingCells[d + 1] = messages[o + 1 + 1]
        BY <1>5, <4>1
      <4>3. messages'[o + 1] = messages[o + 1 + 1]
        BY <1>4, <4>1
      <4> QED BY <3>2, <3>5, <4>1, <4>2, <4>3
    <3>6. CASE d # w - 1 /\ ~(c <= d /\ d < w)
      <4>1. CASE o + 1 < i
        <5>1. o < l - 1 /\ o < l /\ o + 1 \in 1 .. l - 1
          BY <1>2, <3>1, <4>1
        <5>2. messages'[o + 1] = messages[o + 1]
          BY <1>4, <4>1, <5>1
        <5> QED BY <3>2, <3>3, <3>6, <5>1, <5>2
      <4>2. CASE o >= l
        <5>1. ~(o < l - 1) /\ ~(o < l)
          BY <1>2, <3>1, <4>2
        <5> QED BY <3>2, <3>3, <3>6, <5>1
      <4> QED BY <2>3, <3>6, <4>1, <4>2
    <3> QED BY <3>4, <3>5, <3>6
  <2>5. RingCells' = [d \in 0 .. s - 1 |->
                        IF d = w - 1 THEN Empty
                        ELSE IF c <= d /\ d < w
                        THEN RingCells[d + 1] ELSE RingCells[d]]
    BY <1>6, <2>4
  <2>6. w = Wrap(First + Len(messages))
    BY <1>5 DEF w, l
  <2>7. (Wrap(First + Len(messages)))' = w - 1
    BY <1>6, <2>2, <2>3
  <2>8. First' = First /\ c < First
    BY <1>9, <2>2 DEF g, f
  <2>9. Ring!Take(c, asked)
    BY <1>1, <1>3, <2>5, <2>6, <2>7, <2>8 DEF Ring!Take, Ring!Cells, s
  <2> QED BY <1>3, <2>9 DEF s
<1>10. c >= f \/ c < f
  BY <1>2, <1>3
<1> QED BY <1>8, <1>9, <1>10

\* A ring made anew.
LEMMA MakeStep ==
  ASSUME TypeOK, NEW n \in Sizes, SetMessageQueue(n)
  PROVE  Ring!Make(n)
<1>1. n \in Nat /\ RING_START = RING_START + 0 * RING_ENTRY
  BY SizesAssumption DEF RING_START, RING_ENTRY
<1>2. First' = 0 /\ Len(messages') = 0
  BY <1>1, EntryOf DEF SetMessageQueue, First
<1>3. RingCells' = [c \in 0 .. n - 1 |-> Empty]
  BY <1>1, <1>2 DEF SetMessageQueue, RingCells, Index
<1>4. (Wrap(First + Len(messages)))' = 0
  BY <1>1, <1>2 DEF SetMessageQueue, Wrap
<1> QED BY <1>2, <1>3, <1>4 DEF SetMessageQueue, Ring!Make

LEMMA RingInit == Init => Ring!Init
<1> SUFFICES ASSUME Init PROVE Ring!Init
  OBVIOUS
<1>1. Size \in Nat /\ RING_START = RING_START + 0 * RING_ENTRY
  BY SizesAssumption DEF RING_START, RING_ENTRY
<1>2. First = 0 /\ Len(messages) = 0
  BY <1>1, EntryOf DEF Init, First
<1>3. RingCells = [c \in 0 .. Size - 1 |-> Empty]
  BY <1>1, <1>2 DEF Init, RingCells, Index
<1>4. Wrap(First + Len(messages)) = 0
  BY <1>1, <1>2 DEF Init, Wrap
<1> QED BY <1>2, <1>3, <1>4 DEF Init, Ring!Init

\* What leaves the messages and the oldest's place alone leaves the ring alone.
LEMMA RingStill ==
  ASSUME UNCHANGED <<messages, ring_size, ring_read, place>>
  PROVE  UNCHANGED Ring!vars
BY DEF Ring!vars, RingCells, Index, Wrap, First

LEMMA RingStep ==
  ASSUME TypeOK, [Next]_vars
  PROVE  [Ring!Step]_(Ring!vars)
<1>1. CASE UNCHANGED vars
  BY <1>1, RingStill DEF vars
<1>2. ASSUME NEW m \in Message, Post(m) PROVE Ring!Step
  BY <1>2, PostStep DEF Ring!Step
<1>3. ASSUME NEW asked \in Filters, Take(asked) PROVE Ring!Step
  BY <1>3, TakeStep DEF Ring!Step, Ring!Cells
<1>4. ASSUME NEW asked \in Filters, TakeQuit(asked) PROVE UNCHANGED Ring!vars
  BY <1>4, RingStill DEF TakeQuit
<1>5. CASE PostQuitMessage
  BY <1>5, RingStill DEF PostQuitMessage
<1>6. ASSUME NEW n \in Sizes, SetMessageQueue(n) PROVE Ring!Step
  BY <1>6, MakeStep DEF Ring!Step
<1> QED BY <1>1, <1>2, <1>3, <1>4, <1>5, <1>6 DEF Next

\* However the ring is sized, filled and read, winbox.js' queue answers the
\* places of USER's own ring and hands over the messages that one would
\* (queue.rs: ring_place, ring_taken, post_to).
THEOREM PlacesAsUserRing == Spec => AsUserRing
<1>1. Init => Ring!Init
  BY RingInit
<1>2. TypeOK /\ [Next]_vars => [Ring!Step]_(Ring!vars)
  BY RingStep
<1>3. Spec => []TypeOK
  BY TypeCorrect
<1> QED BY <1>1, <1>2, <1>3, PTL DEF Spec, AsUserRing, Ring!Spec

-----------------------------------------------------------------------------
(* The timers: the invariant.                                              *)

\* What passed remembers: timers taken since this one was due are due later,
\* unless it is not due.  No timer is set to be due at once, nor left for ever.
SinceDue ==
  \A j \in DOMAIN timers :
    /\ timers[j].every > 0
    /\ timers[j].due >= -MaxLate
    /\ timers[j].passed # {} => timers[j].due <= 0
    /\ \A i \in DOMAIN timers :
         timers[i].hwnd \in timers[j].passed => timers[j].due < timers[i].due

\* The inductive invariant of the timers.
TimersInv == TimersTypeOK /\ SinceDue /\ TakenInTurn /\ NoSleepOverTimer

\* The timers that a task is not to sleep over.
Mine(t, each) == each.hwnd = t \/ (each.hwnd = NoWindow /\ each.task = t)

\* A task does not sleep over a timer.
InTime(s, each) == s # Never /\ (s > 0 => s <= each.due)

LEMMA NoSleepMeans ==
  NoSleepOverTimer <=>
    \A t \in tasks : \A i \in DOMAIN timers :
      Mine(t, timers[i]) => InTime(sleep[t], timers[i])
BY DEF NoSleepOverTimer, Mine, InTime

\* A task awake sleeps over none.
LEMMA AwakeInTime == ASSUME NEW each PROVE InTime(0, each)
BY TimersAssumption DEF InTime

LEMMA TimersSeq ==
  ASSUME TimersTypeOK
  PROVE  /\ timers \in Seq(Entry)
         /\ Len(timers) \in Nat
         /\ DOMAIN timers = 1 .. Len(timers)
         /\ \A i \in DOMAIN timers : timers[i] \in Entry
         /\ \A i \in DOMAIN timers : i \in Int
<1>1. timers \in Seq(Entry) BY DEF TimersTypeOK
<1> QED BY <1>1

\* What an entry holds.
LEMMA EntryFields ==
  ASSUME NEW e \in Entry
  PROVE  /\ e.hwnd \in Owner /\ e.every \in Nat /\ e.due \in Int
         /\ e.task \in TimerTask /\ e.passed \subseteq Owner /\ e.twice \in BOOLEAN
BY DEF Entry

\* The type of the state, of timers as many as there were, at the same places.
LEMMA SamePlacesTyped ==
  ASSUME TimersTypeOK, timers' \in [DOMAIN timers -> Entry],
         \A i \in DOMAIN timers : timers'[i].hwnd = timers[i].hwnd,
         UNCHANGED tasks, sleep' \in [TimerTask -> Nat \cup {Never}]
  PROVE  TimersTypeOK' /\ DOMAIN timers' = DOMAIN timers
<1>1. timers' \in Seq(Entry) /\ DOMAIN timers' = DOMAIN timers
  BY TimersSeq, SeqOfFcn
<1> QED BY <1>1 DEF TimersTypeOK

-----------------------------------------------------------------------------
(* Timers killed, by the program or as their window goes.                  *)

\* What is left are timers that were there, each there once.
LEMMA WithoutParts ==
  ASSUME TimersTypeOK, NEW h
  PROVE  /\ Without(h) \in Seq(Entry)
         /\ \A k \in DOMAIN Without(h) :
              \E i \in DOMAIN timers : Without(h)[k] = timers[i]
         /\ \A k, l \in DOMAIN Without(h) :
              k # l => Without(h)[k].hwnd # Without(h)[l].hwnd
<1>1. \A i, j \in DOMAIN timers : i # j => timers[i].hwnd # timers[j].hwnd
  BY DEF TimersTypeOK
<1>2. CASE ~ \E i \in DOMAIN timers : timers[i].hwnd = h
  BY <1>1, <1>2, TimersSeq DEF Without
<1>3. CASE \E i \in DOMAIN timers : timers[i].hwnd = h
  <2> DEFINE i == CHOOSE i \in DOMAIN timers : timers[i].hwnd = h
             n == Len(timers)
             left == RemoveAt(timers, i)
             at(k) == IF k < i THEN k ELSE k + 1
  <2>1. Without(h) = left BY <1>3 DEF Without
  <2>2. i \in DOMAIN timers BY <1>3
  <2>3. n \in Nat /\ DOMAIN timers = 1 .. n /\ timers \in Seq(Entry) BY TimersSeq
  <2> HIDE DEF i
  <2>4. /\ left \in Seq(Entry) /\ Len(left) = n - 1
        /\ \A j \in 1 .. i - 1 : left[j] = timers[j]
        /\ \A j \in i .. n - 1 : left[j] = timers[j + 1]
    <3>1. i \in 1 .. Len(timers) BY <2>2, <2>3
    <3> QED BY <2>3, <3>1, RemoveAtParts
  <2> HIDE DEF left, n
  <2>5. DOMAIN left = 1 .. n - 1 BY <2>4
  <2>6. \A k \in DOMAIN left : left[k] = timers[at(k)] /\ at(k) \in DOMAIN timers
    <3> TAKE k \in DOMAIN left
    <3>1. k \in 1 .. n - 1 /\ i \in 1 .. n BY <2>2, <2>3, <2>5
    <3>2. CASE k < i BY <3>1, <3>2, <2>3, <2>4
    <3>3. CASE ~(k < i) BY <3>1, <3>3, <2>3, <2>4
    <3> QED BY <3>2, <3>3
  <2>7. \A k, l \in DOMAIN left : k # l => at(k) # at(l)
    BY <2>2, <2>3, <2>5
  <2> HIDE DEF at
  <2>8. \A k, l \in DOMAIN left : k # l => left[k].hwnd # left[l].hwnd
    BY <1>1, <2>6, <2>7
  <2> QED BY <2>1, <2>4, <2>6, <2>8
<1> QED BY <1>2, <1>3

\* Fewer timers and fewer tasks, and none asleep that was awake.
LEMMA FewerKeeps ==
  ASSUME TimersInv, NEW h, timers' = Without(h), tasks' \subseteq tasks,
         sleep' \in [TimerTask -> Nat \cup {Never}],
         \A t \in TimerTask : sleep'[t] \in {0, sleep[t]}
  PROVE  TimersInv'
<1>1. TimersTypeOK /\ SinceDue /\ TakenInTurn /\ NoSleepOverTimer BY DEF TimersInv
<1>2. /\ timers' \in Seq(Entry)
      /\ \A k \in DOMAIN timers' : \E i \in DOMAIN timers : timers'[k] = timers[i]
      /\ \A k, l \in DOMAIN timers' : k # l => timers'[k].hwnd # timers'[l].hwnd
  BY <1>1, WithoutParts
<1>3. TimersTypeOK' BY <1>1, <1>2 DEF TimersTypeOK
<1>4. SinceDue' BY <1>1, <1>2 DEF SinceDue
<1>5. TakenInTurn' BY <1>1, <1>2 DEF TakenInTurn
<1>6. NoSleepOverTimer'
  <2> SUFFICES ASSUME NEW t \in tasks', NEW k \in DOMAIN timers', Mine(t, timers'[k])
               PROVE  InTime(sleep'[t], timers'[k])
    BY DEF NoSleepOverTimer, Mine, InTime
  <2>1. PICK i \in DOMAIN timers : timers'[k] = timers[i] BY <1>2
  <2>2. t \in tasks /\ t \in TimerTask BY <1>1 DEF TimersTypeOK
  <2>3. InTime(sleep[t], timers[i]) BY <1>1, <2>1, <2>2, NoSleepMeans
  <2>4. sleep'[t] = 0 \/ sleep'[t] = sleep[t] BY <2>2
  <2> QED BY <2>1, <2>3, <2>4, AwakeInTime
<1> QED BY <1>3, <1>4, <1>5, <1>6 DEF TimersInv

LEMMA KillKeeps ==
  ASSUME TimersInv, NEW t \in TimerTask, NEW h, KillTimer(t, h)
  PROVE  TimersInv'
BY FewerKeeps DEF KillTimer, TimersInv, TimersTypeOK

LEMMA EndKeeps ==
  ASSUME TimersInv, NEW t \in TimerTask, TaskEnds(t)
  PROVE  TimersInv'
<1>1. sleep \in [TimerTask -> Nat \cup {Never}] BY DEF TimersInv, TimersTypeOK
<1>2. sleep' \in [TimerTask -> Nat \cup {Never}]
      /\ \A u \in TimerTask : sleep'[u] \in {0, sleep[u]}
  BY <1>1 DEF TaskEnds
<1>3. timers' = Without(t) /\ tasks' \subseteq tasks BY DEF TaskEnds
<1> QED BY <1>2, <1>3, FewerKeeps

-----------------------------------------------------------------------------
(* A timer set.                                                            *)

\* A timer set anew is not due, and whoever sets it is awake.
LEMMA SetKeepsTimers ==
  ASSUME TimersInv, NEW t \in TimerTask, NEW h \in Owner, NEW n \in Intervals,
         SetTimer(t, h, n)
  PROVE  TimersInv'
<1> DEFINE entry == [hwnd |-> h, every |-> Every(n), due |-> Every(n), task |-> t,
                     passed |-> {}, twice |-> FALSE]
           is == Same(t, h)
<1>1. TimersTypeOK /\ SinceDue /\ TakenInTurn /\ NoSleepOverTimer BY DEF TimersInv
<1>2. Every(n) \in Nat /\ Every(n) > 0 BY TimersAssumption DEF Every
<1>3. /\ entry \in Entry /\ entry.hwnd = h /\ entry.every > 0 /\ entry.due > 0
      /\ entry.due >= -MaxLate /\ entry.passed = {} /\ ~entry.twice /\ entry.task = t
  BY <1>2, TimersAssumption DEF Entry
<1>4. /\ t \in tasks /\ sleep[t] = 0 /\ h \in {t, NoWindow}
      /\ UNCHANGED <<tasks, sleep>>
      /\ timers' = IF is = {} THEN Append(timers, entry)
                   ELSE [i \in DOMAIN timers |-> IF i \in is THEN entry ELSE timers[i]]
  BY DEF SetTimer, Awake
<1> HIDE DEF entry
<1>5. \A u \in tasks : Mine(u, entry) => u = t
  BY <1>1, <1>3, <1>4, TimersAssumption DEF Mine, TimersTypeOK
\* Each is the one set, or one that was there, of another window's.
<1>6. ASSUME timers' \in Seq(Entry),
             \A k, l \in DOMAIN timers' : k # l => timers'[k].hwnd # timers'[l].hwnd,
             \A k \in DOMAIN timers' :
               \/ timers'[k] = entry
               \/ \E i \in DOMAIN timers : timers'[k] = timers[i]
      PROVE  TimersInv'
  <2>1. TimersTypeOK' BY <1>1, <1>4, <1>6 DEF TimersTypeOK
  <2>2. TakenInTurn' BY <1>1, <1>3, <1>6 DEF TakenInTurn
  <2>3. SinceDue'
    <3> SUFFICES ASSUME NEW k \in DOMAIN timers'
                 PROVE  /\ timers'[k].every > 0
                        /\ timers'[k].due >= -MaxLate
                        /\ timers'[k].passed # {} => timers'[k].due <= 0
                        /\ \A l \in DOMAIN timers' :
                             timers'[l].hwnd \in timers'[k].passed
                               => timers'[k].due < timers'[l].due
      BY DEF SinceDue
    <3>1. CASE timers'[k] = entry BY <3>1, <1>3
    <3>2. ASSUME NEW i \in DOMAIN timers, timers'[k] = timers[i]
          PROVE  /\ timers'[k].every > 0
                 /\ timers'[k].due >= -MaxLate
                 /\ timers'[k].passed # {} => timers'[k].due <= 0
                 /\ \A l \in DOMAIN timers' :
                      timers'[l].hwnd \in timers'[k].passed
                        => timers'[k].due < timers'[l].due
      <4>1. /\ timers[i].every > 0 /\ timers[i].due >= -MaxLate
            /\ timers[i].passed # {} => timers[i].due <= 0
            /\ \A j \in DOMAIN timers :
                 timers[j].hwnd \in timers[i].passed => timers[i].due < timers[j].due
        BY <1>1 DEF SinceDue
      <4>2. timers[i].due \in Int /\ entry.due \in Int
        BY <1>1, <1>3, TimersSeq, EntryFields
      <4>3. ASSUME NEW l \in DOMAIN timers', timers'[l].hwnd \in timers'[k].passed
            PROVE  timers'[k].due < timers'[l].due
        <5>1. CASE timers'[l] = entry
          <6>1. timers[i].due <= 0 BY <3>2, <4>1, <4>3
          <6> QED BY <3>2, <4>2, <5>1, <6>1, <1>3
        <5>2. CASE \E j \in DOMAIN timers : timers'[l] = timers[j]
          BY <3>2, <4>1, <4>3, <5>2
        <5> QED BY <5>1, <5>2, <1>6
      <4> QED BY <3>2, <4>1, <4>3
    <3> QED BY <3>1, <3>2, <1>6
  <2>4. NoSleepOverTimer'
    <3> SUFFICES ASSUME NEW u \in tasks', NEW k \in DOMAIN timers',
                        Mine(u, timers'[k])
                 PROVE  InTime(sleep'[u], timers'[k])
      BY DEF NoSleepOverTimer, Mine, InTime
    <3>1. CASE timers'[k] = entry BY <3>1, <1>4, <1>5, AwakeInTime
    <3>2. CASE \E i \in DOMAIN timers : timers'[k] = timers[i]
      BY <3>2, <1>1, <1>4, NoSleepMeans
    <3> QED BY <3>1, <3>2, <1>6
  <2> QED BY <2>1, <2>2, <2>3, <2>4 DEF TimersInv
<1>7. CASE is = {}
  <2> DEFINE m == Len(timers)
  <2>1. timers' = Append(timers, entry) BY <1>4, <1>7
  <2>2. /\ timers \in Seq(Entry) /\ m \in Nat /\ DOMAIN timers = 1 .. m
    BY <1>1, TimersSeq
  <2>3. /\ timers' \in Seq(Entry) /\ DOMAIN timers' = 1 .. m + 1
        /\ timers'[m + 1] = entry /\ \A i \in 1 .. m : timers'[i] = timers[i]
    BY <2>1, <2>2, <1>3
  <2>4. \A i \in 1 .. m : timers[i].hwnd # h BY <1>7, <2>2 DEF Same
  <2> HIDE DEF m
  <2>5. \A k \in DOMAIN timers' : k = m + 1 \/ k \in 1 .. m BY <2>2, <2>3
  <2>6. \A k, l \in DOMAIN timers' : k # l => timers'[k].hwnd # timers'[l].hwnd
    <3> TAKE k, l \in DOMAIN timers'
    <3> HAVE k # l
    <3>1. CASE k \in 1 .. m /\ l \in 1 .. m
      BY <3>1, <1>1, <2>2, <2>3 DEF TimersTypeOK
    <3>2. CASE k = m + 1 /\ l \in 1 .. m BY <3>2, <1>3, <2>3, <2>4
    <3>3. CASE l = m + 1 /\ k \in 1 .. m BY <3>3, <1>3, <2>3, <2>4
    <3> QED BY <3>1, <3>2, <3>3, <2>5
  <2>7. \A k \in DOMAIN timers' :
          timers'[k] = entry \/ \E i \in DOMAIN timers : timers'[k] = timers[i]
    BY <2>2, <2>3, <2>5
  <2> QED BY <1>6, <2>3, <2>6, <2>7
<1>8. CASE is # {}
  <2>1. timers' = [i \in DOMAIN timers |-> IF i \in is THEN entry ELSE timers[i]]
    BY <1>4, <1>8
  <2>2. timers' \in [DOMAIN timers -> Entry] BY <2>1, <1>1, <1>3, TimersSeq
  <2>3. \A i \in DOMAIN timers : timers'[i].hwnd = timers[i].hwnd
    BY <2>1, <1>3 DEF Same
  <2>4. timers' \in Seq(Entry) /\ DOMAIN timers' = DOMAIN timers
    BY <2>2, <1>1, TimersSeq, SeqOfFcn
  <2>5. \A k, l \in DOMAIN timers' : k # l => timers'[k].hwnd # timers'[l].hwnd
    BY <2>3, <2>4, <1>1 DEF TimersTypeOK
  <2> HIDE DEF is
  <2>6. \A k \in DOMAIN timers' :
          timers'[k] = entry \/ \E i \in DOMAIN timers : timers'[k] = timers[i]
    BY <2>1
  <2> QED BY <1>6, <2>4, <2>5, <2>6
<1> QED BY <1>7, <1>8

-----------------------------------------------------------------------------
(* A timer taken.                                                          *)

\* The timer taken was due first; those passed over are due as they were, and
\* the one taken later than they.
LEMMA TakeKeeps ==
  ASSUME TimersInv, NEW t \in TimerTask, NEW asked, TakeTimer(t, asked)
  PROVE  TimersInv'
<1> DEFINE is == Asked(t, asked)
<1>1. TimersTypeOK /\ SinceDue /\ TakenInTurn /\ NoSleepOverTimer BY DEF TimersInv
<1>2. PICK i \in is :
        /\ DueFirst(is, i) /\ Due(i)
        /\ timers' = [j \in DOMAIN timers |->
             IF j = i THEN [timers[i] EXCEPT !.due = timers[i].every, !.passed = {}]
             ELSE IF j \in is /\ Due(j)
             THEN [timers[j] EXCEPT !.passed = @ \cup {timers[i].hwnd},
                                    !.twice = @ \/ timers[i].hwnd \in timers[j].passed]
             ELSE timers[j]]
  BY DEF TakeTimer
<1>3. t \in tasks /\ sleep[t] = 0 /\ UNCHANGED <<tasks, sleep>>
  BY DEF TakeTimer, Awake
<1>4. /\ \A j \in is : j \in DOMAIN timers /\ OwnTimer(t, timers[j])
      /\ \A j \in is : timers[i].due <= timers[j].due
      /\ timers[i].due <= 0
      /\ i \in DOMAIN timers
  <2>1. \A j \in is : j \in DOMAIN timers /\ OwnTimer(t, timers[j]) BY DEF Asked
  <2>2. i \in DOMAIN timers /\ timers[i].due <= 0 BY <2>1, <1>2 DEF Due
  <2>3. ASSUME NEW j \in is PROVE timers[i].due <= timers[j].due
    <3>1. timers[i].due < timers[j].due \/ timers[i].due = timers[j].due
      BY <1>2, <2>3 DEF DueFirst
    <3>2. timers[i].due \in Int /\ timers[j].due \in Int
      BY <1>1, <2>1, <2>2, <2>3, TimersSeq, EntryFields
    <3> QED BY <3>1, <3>2
  <2> QED BY <2>1, <2>2, <2>3
<1> HIDE DEF is
<1>5. \A j \in DOMAIN timers : timers[j] \in Entry
  BY <1>1, TimersSeq
<1>6. /\ timers'[i] \in Entry /\ timers'[i].due = timers[i].every
      /\ timers'[i].every = timers[i].every /\ timers'[i].hwnd = timers[i].hwnd
      /\ timers'[i].task = timers[i].task
      /\ timers'[i].passed = {} /\ timers'[i].twice = timers[i].twice
  <2>1. timers[i] \in Entry BY <1>4, <1>5
  <2> DEFINE one == timers[i]
             every == timers[i].every
  <2>2. timers'[i] = [one EXCEPT !.due = every, !.passed = {}]
    BY <1>2, <1>4
  <2>3. one \in Entry /\ every \in Int /\ {} \in SUBSET Owner /\ one.every = every
    BY <2>1, EntryFields
  <2> HIDE DEF one, every
  <2>4. /\ timers'[i] \in Entry /\ timers'[i].due = every
        /\ timers'[i].every = one.every /\ timers'[i].hwnd = one.hwnd
        /\ timers'[i].task = one.task
        /\ timers'[i].passed = {} /\ timers'[i].twice = one.twice
    BY <2>2, <2>3 DEF Entry
  <2> QED BY <2>4 DEF one, every
\* A timer passed over that had been so before, for the same one, was due
\* before it.
<1>7. ASSUME NEW j \in DOMAIN timers, j # i
      PROVE  /\ timers'[j] \in Entry
             /\ timers'[j].due = timers[j].due /\ timers'[j].every = timers[j].every
             /\ timers'[j].hwnd = timers[j].hwnd /\ timers'[j].task = timers[j].task
             /\ timers'[j].twice = timers[j].twice
             /\ \/ timers'[j].passed = timers[j].passed
                \/ /\ timers'[j].passed = timers[j].passed \cup {timers[i].hwnd}
                   /\ timers[j].due <= 0
  <2>1. timers[j] \in Entry /\ timers[i] \in Entry BY <1>4, <1>5
  <2>2. CASE j \in is /\ Due(j)
    <3>1. timers'[j] = [timers[j] EXCEPT !.passed = @ \cup {timers[i].hwnd},
                          !.twice = @ \/ timers[i].hwnd \in timers[j].passed]
      BY <1>2, <1>7, <2>2
    <3>2. timers[i].hwnd \notin timers[j].passed
      <4>1. timers[i].due <= timers[j].due BY <1>4, <2>2
      <4>2. timers[i].hwnd \in timers[j].passed => timers[j].due < timers[i].due
        BY <1>1, <1>4 DEF SinceDue
      <4>3. timers[i].due \in Int /\ timers[j].due \in Int BY <2>1, EntryFields
      <4> QED BY <4>1, <4>2, <4>3
    <3> DEFINE passed == timers[j].passed \cup {timers[i].hwnd}
               twice == timers[j].twice \/ timers[i].hwnd \in timers[j].passed
    <3>3. passed \in SUBSET Owner /\ twice = timers[j].twice /\ twice \in BOOLEAN
      BY <2>1, <3>2, EntryFields
    <3>4. timers'[j] = [timers[j] EXCEPT !.passed = passed, !.twice = twice]
      BY <3>1
    <3> HIDE DEF twice
    <3>5. /\ timers'[j] \in Entry
          /\ timers'[j].due = timers[j].due /\ timers'[j].every = timers[j].every
          /\ timers'[j].hwnd = timers[j].hwnd /\ timers'[j].task = timers[j].task
          /\ timers'[j].twice = twice /\ timers'[j].passed = passed
      BY <2>1, <3>3, <3>4 DEF Entry
    <3> QED BY <2>2, <3>3, <3>5 DEF Due
  <2>3. CASE ~(j \in is /\ Due(j))
    <3>1. timers'[j] = timers[j] BY <1>2, <1>7, <2>3
    <3> QED BY <2>1, <3>1
  <2> QED BY <2>2, <2>3
<1>8. TimersTypeOK' /\ DOMAIN timers' = DOMAIN timers
  <2>1. \A j \in DOMAIN timers : timers'[j] \in Entry
                                 /\ timers'[j].hwnd = timers[j].hwnd
    BY <1>6, <1>7
  <2>2. timers' \in [DOMAIN timers -> Entry] BY <1>2, <2>1
  <2> QED BY <1>1, <1>3, <2>1, <2>2, SamePlacesTyped DEF TimersTypeOK
<1>9. TakenInTurn' BY <1>1, <1>4, <1>6, <1>7, <1>8 DEF TakenInTurn
<1>10. NoSleepOverTimer'
  <2> SUFFICES ASSUME NEW u \in tasks, NEW j \in DOMAIN timers, Mine(u, timers'[j])
               PROVE  InTime(sleep[u], timers'[j])
    BY <1>3, <1>8 DEF NoSleepOverTimer, Mine, InTime
  <2>1. CASE j = i
    <3>1. Mine(u, timers[i]) BY <2>1, <1>6 DEF Mine
    <3>2. OwnTimer(t, timers[i]) BY <1>2, <1>4
    <3>3. NoWindow \notin tasks BY <1>1, TimersAssumption DEF TimersTypeOK
    <3>4. u = t BY <3>1, <3>2, <3>3, <1>3 DEF Mine, OwnTimer
    <3> QED BY <3>4, <1>3, AwakeInTime
  <2>2. CASE j # i
    <3>1. Mine(u, timers[j]) BY <2>2, <1>7 DEF Mine
    <3>2. InTime(sleep[u], timers[j]) BY <3>1, <1>1, NoSleepMeans
    <3> QED BY <2>2, <3>2, <1>7 DEF InTime
  <2> QED BY <2>1, <2>2
<1>11. SinceDue'
  <2> SUFFICES ASSUME NEW k \in DOMAIN timers
               PROVE  /\ timers'[k].every > 0
                      /\ timers'[k].due >= -MaxLate
                      /\ timers'[k].passed # {} => timers'[k].due <= 0
                      /\ \A l \in DOMAIN timers :
                           timers'[l].hwnd \in timers'[k].passed
                             => timers'[k].due < timers'[l].due
    BY <1>8 DEF SinceDue
  <2>1. /\ timers[k].every > 0 /\ timers[k].due >= -MaxLate
        /\ timers[k].passed # {} => timers[k].due <= 0
        /\ \A l \in DOMAIN timers :
             timers[l].hwnd \in timers[k].passed => timers[k].due < timers[l].due
        /\ timers[i].every > 0
    BY <1>1, <1>4 DEF SinceDue
  <2>2. \A j \in DOMAIN timers : timers[j].due \in Int /\ timers[j].every \in Nat
    BY <1>5, EntryFields
  <2>3. CASE k = i
    <3>1. timers[i].every > 0 /\ timers[i].every \in Nat BY <2>1, <2>2, <1>4
    <3> QED BY <2>3, <3>1, <1>6, TimersAssumption
  <2>4. CASE k # i
    <3>1. /\ timers'[k].due = timers[k].due /\ timers'[k].every = timers[k].every
          /\ \/ timers'[k].passed = timers[k].passed
             \/ /\ timers'[k].passed = timers[k].passed \cup {timers[i].hwnd}
                /\ timers[k].due <= 0
      BY <2>4, <1>7
    <3>2. timers'[k].passed # {} => timers'[k].due <= 0 BY <2>1, <3>1
    <3>3. ASSUME NEW l \in DOMAIN timers, timers'[l].hwnd \in timers'[k].passed
          PROVE  timers'[k].due < timers'[l].due
      <4>1. timers[k].due <= 0 BY <3>1, <3>2, <3>3
      <4>2. CASE l = i
        <5>1. timers'[l].due > 0 /\ timers'[l].due \in Int
          BY <4>2, <1>6, <1>4, <2>1, <2>2
        <5> QED BY <4>1, <5>1, <3>1, <2>2
      <4>3. CASE l # i
        <5>1. timers'[l].due = timers[l].due /\ timers'[l].hwnd = timers[l].hwnd
          BY <4>3, <1>7
        <5>2. timers[l].hwnd # timers[i].hwnd
          BY <4>3, <1>1, <1>4 DEF TimersTypeOK
        <5>3. timers[l].hwnd \in timers[k].passed BY <3>1, <3>3, <5>1, <5>2
        <5> QED BY <2>1, <3>1, <5>1, <5>3
      <4> QED BY <4>2, <4>3
    <3> QED BY <2>1, <3>1, <3>2, <3>3
  <2> QED BY <2>3, <2>4
<1> QED BY <1>8, <1>9, <1>10, <1>11 DEF TimersInv

-----------------------------------------------------------------------------
(* A look that waits, and the clock.                                       *)

\* The times due have a least: none is further back than a timer may wait.
LEMMA LeastDue ==
  ASSUME TimersTypeOK, SinceDue, NEW is, is \subseteq DOMAIN timers, is # {}
  PROVE  \E i \in is : \A j \in is : timers[i].due <= timers[j].due
<1> DEFINE late(i) == timers[i].due + MaxLate
           T == {late(i) : i \in is}
<1>1. \A i \in is : timers[i].due \in Int /\ timers[i].due >= -MaxLate
  BY TimersSeq, EntryFields DEF SinceDue
<1>2. MaxLate \in Nat BY TimersAssumption
<1>3. \A i \in is : late(i) \in Nat BY <1>1, <1>2
<1>4. T \subseteq Nat /\ T # {} BY <1>3
<1>5. PICK n \in T : \A k \in T : n <= k
  <2> HIDE DEF T
  <2> QED BY <1>4, Least
<1>6. PICK i \in is : n = late(i) BY <1>5
<1>7. ASSUME NEW j \in is PROVE timers[i].due <= timers[j].due
  <2>1. late(i) <= late(j) BY <1>5, <1>6
  <2> QED BY <2>1, <1>1, <1>2, <1>6
<1> QED BY <1>7

\* The look waits until the first of its task's timers is due.
LEMMA WaitKeeps ==
  ASSUME TimersInv, NEW t \in TimerTask, NEW asked, Wait(t, asked)
  PROVE  TimersInv'
<1> DEFINE is == Asked(t, Owner)
           dues == {timers[i].due : i \in is}
           least == CHOOSE d \in dues : \A e \in dues : d <= e
           s == IF dues = {} THEN Never ELSE IF least > 0 THEN least ELSE 0
<1>1. TimersTypeOK /\ SinceDue /\ TakenInTurn /\ NoSleepOverTimer BY DEF TimersInv
<1>2. /\ t \in tasks /\ UNCHANGED <<timers, tasks>>
      /\ sleep' = [sleep EXCEPT ![t] = s]
  BY DEF Wait, Until, Awake
<1>3. is \subseteq DOMAIN timers BY DEF Asked
<1> HIDE DEF is
<1>4. dues # {} => least \in dues /\ \A e \in dues : least <= e
  <2> SUFFICES ASSUME dues # {} PROVE least \in dues /\ \A e \in dues : least <= e
    OBVIOUS
  <2>1. is # {} OBVIOUS
  <2>2. PICK i \in is : \A j \in is : timers[i].due <= timers[j].due
    BY <1>1, <1>3, <2>1, LeastDue
  <2>3. timers[i].due \in dues /\ \A e \in dues : timers[i].due <= e BY <2>2
  <2> HIDE DEF dues
  <2> QED BY <2>3
<1>5. dues \subseteq Int BY <1>1, <1>3, TimersSeq, EntryFields
<1>6. /\ s \in Nat \cup {Never}
      /\ dues # {} => s # Never /\ \A e \in dues : s > 0 => s <= e
  <2> HIDE DEF dues, least
  <2>1. CASE dues = {} BY <2>1
  <2>2. CASE dues # {}
    <3>1. least \in Int /\ \A e \in dues : least <= e BY <1>4, <1>5, <2>2
    <3> QED BY <2>2, <3>1, TimersAssumption
  <2> QED BY <2>1, <2>2
<1> HIDE DEF s
<1>7. TimersTypeOK' BY <1>1, <1>2, <1>6 DEF TimersTypeOK
<1>8. SinceDue' /\ TakenInTurn' BY <1>1, <1>2 DEF SinceDue, TakenInTurn
<1>9. NoSleepOverTimer'
  <2> SUFFICES ASSUME NEW u \in tasks, NEW i \in DOMAIN timers, Mine(u, timers[i])
               PROVE  InTime(sleep'[u], timers[i])
    BY <1>2 DEF NoSleepOverTimer, Mine, InTime
  <2>1. sleep \in [TimerTask -> Nat \cup {Never}] /\ u \in TimerTask
    BY <1>1 DEF TimersTypeOK
  <2>2. CASE u = t
    <3>1. sleep'[u] = s BY <1>2, <2>1, <2>2
    <3>2. i \in is
      <4>1. NoWindow \notin tasks BY <1>1, TimersAssumption DEF TimersTypeOK
      <4>2. timers[i].hwnd \in Owner BY <1>1, TimersSeq, EntryFields
      <4> QED BY <4>1, <4>2, <2>2, <1>2 DEF is, Asked, OwnTimer, Mine
    <3>3. timers[i].due \in dues BY <3>2
    <3> HIDE DEF dues
    <3> QED BY <3>1, <3>3, <1>6 DEF InTime
  <2>3. CASE u # t
    <3>1. sleep'[u] = sleep[u] BY <1>2, <2>1, <2>3
    <3> QED BY <3>1, <1>1, NoSleepMeans
  <2> QED BY <2>2, <2>3
<1> QED BY <1>7, <1>8, <1>9 DEF TimersInv

LEMMA WakeKeeps ==
  ASSUME TimersInv, NEW t \in TimerTask, WakeUp(t)
  PROVE  TimersInv'
<1>1. TimersTypeOK /\ SinceDue /\ TakenInTurn /\ NoSleepOverTimer BY DEF TimersInv
<1>2. sleep' = [sleep EXCEPT ![t] = 0] /\ UNCHANGED <<timers, tasks>> BY DEF WakeUp
<1>3. sleep \in [TimerTask -> Nat \cup {Never}] /\ tasks \subseteq TimerTask
  BY <1>1 DEF TimersTypeOK
<1>4. TimersTypeOK' BY <1>1, <1>2, <1>3 DEF TimersTypeOK
<1>5. SinceDue' /\ TakenInTurn' BY <1>1, <1>2 DEF SinceDue, TakenInTurn
<1>6. NoSleepOverTimer'
  <2> SUFFICES ASSUME NEW u \in tasks, NEW i \in DOMAIN timers, Mine(u, timers[i])
               PROVE  InTime(sleep'[u], timers[i])
    BY <1>2 DEF NoSleepOverTimer, Mine, InTime
  <2>1. sleep'[u] = 0 \/ sleep'[u] = sleep[u] BY <1>2, <1>3
  <2>2. InTime(sleep[u], timers[i]) BY <1>1, NoSleepMeans
  <2> QED BY <2>1, <2>2, AwakeInTime
<1> QED BY <1>4, <1>5, <1>6 DEF TimersInv

\* The clock goes on alike for those due and for those that sleep.
LEMMA TickKeeps ==
  ASSUME TimersInv, ClockTick
  PROVE  TimersInv'
<1>1. TimersTypeOK /\ SinceDue /\ TakenInTurn /\ NoSleepOverTimer BY DEF TimersInv
<1>2. /\ \A i \in DOMAIN timers : timers[i].due > -MaxLate
      /\ timers' = [i \in DOMAIN timers |-> [timers[i] EXCEPT !.due = @ - 1]]
      /\ sleep' = [t \in TimerTask |-> IF sleep[t] \in {0, Never} THEN sleep[t]
                                                                  ELSE sleep[t] - 1]
      /\ UNCHANGED tasks
  BY DEF ClockTick
<1>3. \A i \in DOMAIN timers : timers[i] \in Entry BY <1>1, TimersSeq
<1>4. ASSUME NEW i \in DOMAIN timers
      PROVE  /\ timers'[i] \in Entry
             /\ timers'[i].due = timers[i].due - 1
             /\ timers'[i].every = timers[i].every
             /\ timers'[i].hwnd = timers[i].hwnd
             /\ timers'[i].task = timers[i].task
             /\ timers'[i].passed = timers[i].passed
             /\ timers'[i].twice = timers[i].twice
             /\ timers[i].due \in Int
  <2>1. timers[i] \in Entry BY <1>3
  <2>2. timers'[i] = [timers[i] EXCEPT !.due = timers[i].due - 1] BY <1>2
  <2> QED BY <2>1, <2>2 DEF Entry
<1>5. sleep \in [TimerTask -> Nat \cup {Never}] /\ tasks \subseteq TimerTask
  BY <1>1 DEF TimersTypeOK
<1>6. \A t \in TimerTask : /\ sleep'[t] \in Nat \cup {Never}
                           /\ sleep[t] \in {0, Never} => sleep'[t] = sleep[t]
                           /\ sleep[t] \notin {0, Never} => sleep'[t] = sleep[t] - 1
  BY <1>2, <1>5
<1>7. TimersTypeOK' /\ DOMAIN timers' = DOMAIN timers
  <2>1. timers' \in [DOMAIN timers -> Entry] BY <1>2, <1>4
  <2>2. sleep' \in [TimerTask -> Nat \cup {Never}] BY <1>2, <1>6
  <2> QED BY <1>1, <1>2, <1>4, <2>1, <2>2, SamePlacesTyped
<1>8. TakenInTurn' BY <1>1, <1>4, <1>7 DEF TakenInTurn
<1>9. SinceDue'
  <2> SUFFICES ASSUME NEW k \in DOMAIN timers
               PROVE  /\ timers'[k].every > 0
                      /\ timers'[k].due >= -MaxLate
                      /\ timers'[k].passed # {} => timers'[k].due <= 0
                      /\ \A l \in DOMAIN timers :
                           timers'[l].hwnd \in timers'[k].passed
                             => timers'[k].due < timers'[l].due
    BY <1>7 DEF SinceDue
  <2>1. /\ timers[k].every > 0 /\ timers[k].due > -MaxLate
        /\ timers[k].passed # {} => timers[k].due <= 0
        /\ \A l \in DOMAIN timers :
             timers[l].hwnd \in timers[k].passed => timers[k].due < timers[l].due
    BY <1>1, <1>2 DEF SinceDue
  <2>2. ASSUME NEW l \in DOMAIN timers, timers'[l].hwnd \in timers'[k].passed
        PROVE  timers'[k].due < timers'[l].due
    <3>1. timers[k].due < timers[l].due BY <2>1, <2>2, <1>4
    <3> QED BY <3>1, <1>4
  <2>3. timers'[k].due >= -MaxLate BY <2>1, <1>4, TimersAssumption
  <2>4. timers'[k].passed # {} => timers'[k].due <= 0 BY <2>1, <1>4
  <2> QED BY <2>1, <2>2, <2>3, <2>4, <1>4
<1>10. NoSleepOverTimer'
  <2> SUFFICES ASSUME NEW t \in tasks, NEW i \in DOMAIN timers, Mine(t, timers'[i])
               PROVE  InTime(sleep'[t], timers'[i])
    BY <1>2, <1>7 DEF NoSleepOverTimer, Mine, InTime
  <2>1. Mine(t, timers[i]) BY <1>4 DEF Mine
  <2>2. sleep[t] # Never /\ (sleep[t] > 0 => sleep[t] <= timers[i].due)
    BY <1>1, <2>1, NoSleepMeans DEF InTime
  <2>3. t \in TimerTask /\ sleep[t] \in Nat BY <1>5, <2>2
  <2>4. CASE sleep[t] = 0 BY <2>3, <2>4, <1>6, AwakeInTime
  <2>5. CASE sleep[t] # 0
    <3>1. sleep'[t] = sleep[t] - 1 /\ sleep[t] <= timers[i].due
      BY <2>2, <2>3, <2>5, <1>6
    <3>2. timers'[i].due = timers[i].due - 1 /\ timers[i].due \in Int BY <1>4
    <3>3. sleep'[t] <= timers'[i].due /\ sleep'[t] \in Int BY <2>3, <3>1, <3>2
    <3> QED BY <3>3, TimersAssumption DEF InTime
  <2> QED BY <2>4, <2>5
<1> QED BY <1>7, <1>8, <1>9, <1>10 DEF TimersInv

-----------------------------------------------------------------------------
(* The theorems.                                                           *)

LEMMA InitTimersInv == TimersInit => TimersInv
BY DEF TimersInit, TimersInv, TimersTypeOK, SinceDue, TakenInTurn, NoSleepOverTimer

LEMMA NextTimersInv == TimersInv /\ [TimersNext]_timersVars => TimersInv'
<1> SUFFICES ASSUME TimersInv, [TimersNext]_timersVars PROVE TimersInv' OBVIOUS
<1>1. ASSUME NEW t \in TimerTask, TaskEnds(t) PROVE TimersInv' BY <1>1, EndKeeps
<1>2. ASSUME NEW t \in TimerTask, WakeUp(t) PROVE TimersInv' BY <1>2, WakeKeeps
<1>3. ASSUME NEW t \in TimerTask, NEW h \in Owner, KillTimer(t, h) PROVE TimersInv'
  BY <1>3, KillKeeps
<1>4. ASSUME NEW t \in TimerTask, NEW h \in Owner, NEW n \in Intervals,
             SetTimer(t, h, n)
      PROVE  TimersInv'
  BY <1>4, SetKeepsTimers
<1>5. ASSUME NEW t \in TimerTask, NEW asked \in SUBSET Owner, TakeTimer(t, asked)
      PROVE  TimersInv'
  BY <1>5, TakeKeeps
<1>6. ASSUME NEW t \in TimerTask, NEW asked \in SUBSET Owner, Wait(t, asked)
      PROVE  TimersInv'
  BY <1>6, WaitKeeps
<1>7. CASE ClockTick BY <1>7, TickKeeps
<1>8. CASE UNCHANGED timersVars
  BY <1>8 DEF timersVars, TimersInv, TimersTypeOK, SinceDue, TakenInTurn,
              NoSleepOverTimer
<1> QED BY <1>1, <1>2, <1>3, <1>4, <1>5, <1>6, <1>7, <1>8 DEF TimersNext

\* An interval is never nothing; and of a timer that is due and waits, those
\* taken meanwhile are due after it, having been set going again when taken: the
\* invariant of the timers (timers.rs: set_timer; queue.rs: due_timer).
THEOREM TimersInvariant == TimersSpec => []TimersInv
BY InitTimersInv, NextTimersInv, PTL DEF TimersSpec

\* The timers' state is of its type (timers.rs; queue.rs: due_timer).
THEOREM TimersTyped == TimersSpec => []TimersTypeOK
<1>1. TimersInv => TimersTypeOK BY DEF TimersInv
<1> QED BY <1>1, TimersInvariant, PTL

\* No timer is taken twice while another that the same looks ask for is due:
\* one with a short interval starves no other (queue.rs: due_timer).
THEOREM TimersInTurn == TimersSpec => []TakenInTurn
<1>1. TimersInv => TakenInTurn BY DEF TimersInv
<1> QED BY <1>1, TimersInvariant, PTL

\* No task sleeps on past the time one of its timers is due (queue.rs:
\* look_further).
THEOREM TimersSeen == TimersSpec => []NoSleepOverTimer
<1>1. TimersInv => NoSleepOverTimer BY DEF TimersInv
<1> QED BY <1>1, TimersInvariant, PTL

-----------------------------------------------------------------------------
(* The run that has them together.                                         *)

\* Timers and heap keep to their invariants, whichever goes on: the invariant of the
\* run (timers.rs: set_timer; queue.rs: due_timer; local.rs: alloc, compact, cut).
THEOREM OwnInvariant == OwnSpec => [](TimersInv /\ HeapInv)
<1>1. OwnInit => TimersInv /\ HeapInv
  BY InitTimersInv, HeapInitInv DEF OwnInit
<1>2. TimersInv /\ HeapInv /\ [OwnNext]_<<part, vars, timersVars, heapVars>>
        => (TimersInv /\ HeapInv)'
  <2> SUFFICES ASSUME TimersInv, HeapInv, [OwnNext]_<<part, vars, timersVars, heapVars>>
               PROVE  [TimersNext]_timersVars /\ [HeapNext]_heapVars
    BY NextTimersInv, HeapNextInv
  <2>1. CASE OwnNext
    BY <2>1 DEF OwnNext
  <2>2. CASE UNCHANGED <<part, vars, timersVars, heapVars>>
    BY <2>2
  <2> QED BY <2>1, <2>2
<1> QED BY <1>1, <1>2, PTL DEF OwnSpec

\* The timers' and the heap's state is of its type: the arenas cover the heap in order,
\* each with room for its words, whatever is rounded, split, joined, slid, grown or cut
\* (timers.rs; local.rs: alloc, compact, cut).
THEOREM OwnTyped == OwnSpec => []OwnTypeOK
<1>1. TimersInv /\ HeapInv => OwnTypeOK
  BY HeapInvTyped DEF TimersInv, OwnTypeOK
<1> QED BY <1>1, OwnInvariant, PTL
=============================================================================
