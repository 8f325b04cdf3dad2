--------------------------- MODULE BetweenProofs ---------------------------
(* Theorems about the clipboard, for any number of windows, of blocks, of   *)
(* calls that wait at one time and of renderings that one call waits for;   *)
(* about DDEML's callbacks, for any conversations, any of which may be      *)
(* ended by either side, and any number of callbacks and messages posted;   *)
(* about DDEML's transactions, for any number of them, any items, any       *)
(* places in a task's queue and any tries of a post; and about the run that *)
(* has the clipboard, the callbacks and the transactions together.          *)
EXTENDS MCBetween, FiniteSetTheorems, SequenceLemmas

-----------------------------------------------------------------------------
(* The clipboard: the invariant.                                           *)

Texts == {"text", "oemtext"}

\* A call asks for one format; where it waits for more to make that one from,
\* they are the texts by turns.
ByTurns(get) ==
  /\ get \in Seq(Format)
  /\ Len(get) > 0
  /\ Len(get) > 1 => /\ get[2] = Other(get[1])
                     /\ \A i \in DOMAIN get : get[i] \in Texts
TextsByTurns == \A c \in Call : calls[c].for = "rendered" => ByTurns(calls[c].get)

\* The inductive invariant of the clipboard.
ClipInv == ClipTypeOK /\ TextsByTurns /\ HeldAlive /\ MadeHasSource

-----------------------------------------------------------------------------
(* The clipboard: what the formats hold.                                   *)

\* Which kind of thing a format holds tells the four apart.
LEMMA HeldApart ==
  ASSUME NEW b, NEW d
  PROVE  /\ Data(b) # Made /\ Data(b) # Absent /\ Data(b) # Rendered
         /\ Data(b).block = b
         /\ (Data(b) = Data(d)) => b = d
         /\ Made # Absent /\ Made # Rendered /\ Rendered # Absent
         /\ Made.block = NoHandle /\ Absent.block = NoHandle
         /\ Rendered.block = NoHandle
BY DEF Data, Made, Absent, Rendered

\* The other of a text is the other text, and the other's other the text.
LEMMA OtherText ==
  ASSUME NEW f \in Format
  PROVE  /\ Other(f) \in Texts
         /\ Other(f) # f
         /\ Texts \subseteq Format
         /\ f # "bitmap" => f \in Texts
         /\ \A g \in Texts : f \in Texts => g = f \/ g = Other(f)
BY DEF Format, Texts, Other

\* A thing held is a block's, or one of the three that are nobody's.
LEMMA HeldIs ==
  ASSUME NEW h \in Held
  PROVE  /\ h.block \in Block \cup {NoHandle}
         /\ h.block # NoHandle => h = Data(h.block)
BY HeldApart DEF Held, Data, Rendered, Made, Absent

\* All but the format named still to be made from the other keep the rule, if
\* none that is held becomes absent or is to be made.
LEMMA FilledKeepsSource ==
  ASSUME MadeHasSource, formats \in [Format -> Held],
         \A f \in Format : formats'[f] = formats[f]
                           \/ formats'[f] \notin {Made, Absent}
  PROVE  MadeHasSource'
<1> SUFFICES ASSUME NEW f \in Format, formats'[f] = Made
             PROVE  f # "bitmap" /\ formats'[Other(f)] \notin {Made, Absent}
  BY DEF MadeHasSource
<1>1. formats[f] = Made OBVIOUS
<1>2. Other(f) \in Format BY OtherText
<1> QED BY <1>1, <1>2 DEF MadeHasSource

-----------------------------------------------------------------------------
(* The clipboard: one text made from the other.                            *)

\* Making what was asked for leaves each block on the clipboard allocated and
\* there once, and each text to be made with the other to be made from.
LEMMA MakeUpKeeps ==
  ASSUME ClipTypeOK, HeldAlive, MadeHasSource, NEW get, NEW got,
         ByTurns(get), MakeUp(get, got)
  PROVE  /\ formats' \in [Format -> Held]
         /\ alive' \subseteq Block
         /\ HeldAlive'
         /\ MadeHasSource'
<1> DEFINE n == Len(get) - 1
           S == {f \in Format : \E i \in 1 .. n : get[i] = f}
           at(f) == CHOOSE i \in 1 .. n : get[i] = f /\ \A j \in 1 .. i - 1 : get[j] # f
<1>0. n \in Nat /\ n < Len(get) BY DEF ByTurns
<1>1. PICK blocks \in [1 .. n -> (Block \ alive) \cup {NoHandle}] :
        /\ \A i \in 1 .. n : blocks[i] # NoHandle =>
             \A j \in 1 .. i - 1 : blocks[j] # blocks[i]
        /\ formats' = [f \in Format |->
             IF \E i \in 1 .. n : get[i] = f THEN Data(blocks[at(f)]) ELSE formats[f]]
        /\ alive' = alive \cup (Range(blocks) \ {NoHandle})
  BY DEF MakeUp
<1>2. \A f \in S : at(f) \in 1 .. n /\ get[at(f)] = f
  <2> TAKE f \in S
  <2>1. get \in Seq(Format) /\ Len(get) \in Nat BY DEF ByTurns
  <2>2. PICK k \in 1 .. n : get[k] = f OBVIOUS
  <2>3. \E i \in 1 .. n : get[i] = f /\ \A j \in 1 .. i - 1 : get[j] # f
    <3>1. CASE get[1] = f
      <4>1. 1 \in 1 .. n /\ 1 .. 1 - 1 = {} BY <2>2
      <4> QED BY <4>1, <3>1
    <3>2. CASE get[1] # f
      <4>1. k # 1 BY <2>2, <3>2
      <4>2. 2 \in 1 .. n /\ k \in 1 .. Len(get) /\ 1 \in 1 .. Len(get)
            /\ Len(get) > 1
        BY <2>1, <2>2, <4>1
      <4>3. DOMAIN get = 1 .. Len(get) BY <2>1
      <4>4. get[2] = Other(get[1]) /\ get[k] \in Texts /\ get[1] \in Texts
        BY <4>2, <4>3 DEF ByTurns
      <4>5. get[2] = f BY <4>4, <2>2, <3>2, OtherText DEF Texts, Other, Format
      <4>6. \A j \in 1 .. 2 - 1 : j = 1 OBVIOUS
      <4> QED BY <4>2, <4>5, <4>6, <3>2
    <3> QED BY <3>1, <3>2
  <2> HIDE DEF n
  <2> QED BY <2>3
<1> DEFINE blockOf(f) == blocks[at(f)]
<1>3. /\ \A f \in S : formats'[f] = Data(blockOf(f))
      /\ \A f \in Format \ S : formats'[f] = formats[f]
      /\ DOMAIN formats' = Format
  BY <1>1
<1>4. \A f \in S : /\ blockOf(f) \in (Block \ alive) \cup {NoHandle}
                   /\ blockOf(f) # NoHandle => blockOf(f) \in alive'
  <2> TAKE f \in S
  <2>1. at(f) \in 1 .. n BY <1>2
  <2> HIDE DEF at
  <2>2. blocks[at(f)] \in Range(blocks) BY <2>1 DEF Range
  <2> QED BY <2>1, <2>2, <1>1
<1>5. \A f, g \in S : blockOf(f) # NoHandle /\ blockOf(f) = blockOf(g) => f = g
  <2> TAKE f, g \in S
  <2> HAVE blockOf(f) # NoHandle /\ blockOf(f) = blockOf(g)
  <2>1. at(f) \in 1 .. n /\ at(g) \in 1 .. n /\ get[at(f)] = f /\ get[at(g)] = g
    BY <1>2
  <2>2. n \in Nat BY <1>0
  <2> HIDE DEF at, n
  <2>3. ~ at(f) < at(g) BY <2>1, <2>2, <1>1
  <2>4. ~ at(g) < at(f) BY <2>1, <2>2, <1>1
  <2>5. at(f) = at(g) BY <2>1, <2>2, <2>3, <2>4
  <2> QED BY <2>1, <2>5
<1>6. formats \in [Format -> Held] /\ alive \subseteq Block BY DEF ClipTypeOK
<1>7. alive' \subseteq Block /\ alive \subseteq alive'
  BY <1>1, <1>6 DEF Range
<1>8. formats' = [f \in Format |-> formats'[f]] BY <1>1
<1> HIDE DEF S, at, n, blockOf
<1>9. \A f \in S : formats'[f].block = blockOf(f) /\ formats'[f] \in Held
                   /\ formats'[f] \notin {Made, Absent}
  <2> TAKE f \in S
  <2>1. formats'[f] = Data(blockOf(f)) BY <1>3
  <2>2. blockOf(f) \in Block \cup {NoHandle} BY <1>4
  <2>3. Data(blockOf(f)) \in Held BY <2>2 DEF Held
  <2> QED BY <2>1, <2>3, HeldApart
<1>10. S \subseteq Format BY DEF S
<1>11. formats' \in [Format -> Held] BY <1>3, <1>6, <1>8, <1>9, <1>10
<1>12. MadeHasSource' BY <1>3, <1>6, <1>9, <1>10, FilledKeepsSource
<1>13. HeldAlive'
  <2> SUFFICES ASSUME NEW f \in Format, NEW g \in Format,
                      formats'[f].block # NoHandle
               PROVE  /\ formats'[f].block \in alive'
                      /\ formats'[g].block = formats'[f].block => f = g
    BY DEF HeldAlive
  <2>1. \A h \in Format \ S : /\ formats'[h].block = formats[h].block
                              /\ formats[h].block # NoHandle => formats[h].block \in alive
    BY <1>3 DEF HeldAlive
  <2>2. \A h \in S : formats'[h].block = blockOf(h) BY <1>9
  <2>3. CASE f \in S /\ g \in S BY <2>2, <2>3, <1>4, <1>5
  <2>4. CASE f \in S /\ g \notin S BY <2>1, <2>2, <2>4, <1>4
  <2>5. CASE f \notin S /\ g \in S BY <2>1, <2>2, <2>5, <1>4, <1>7
  <2>6. CASE f \notin S /\ g \notin S BY <2>1, <2>6, <1>7 DEF HeldAlive
  <2> QED BY <2>3, <2>4, <2>5, <2>6
<1> QED BY <1>7, <1>11, <1>12, <1>13

-----------------------------------------------------------------------------
(* The clipboard: a call's rendering done, or a format asked for.          *)

\* The texts by turns, one more asked for.
LEMMA TurnOn ==
  ASSUME NEW get, ByTurns(get), get[Len(get)] \in Texts
  PROVE  ByTurns(Append(get, Other(get[Len(get)])))
<1> DEFINE n == Len(get)
           source == Other(get[n])
           on == Append(get, source)
<1>1. get \in Seq(Format) /\ n \in Nat /\ n > 0 BY DEF ByTurns
<1>2. source \in Texts /\ source \in Format
  BY OtherText DEF Texts, Format
<1>3. on \in Seq(Format) /\ Len(on) = n + 1 /\ DOMAIN on = 1 .. n + 1
      /\ on[n + 1] = source /\ \A i \in 1 .. n : on[i] = get[i]
  <2> HIDE DEF source
  <2> QED BY <1>1, <1>2
<1>4. DOMAIN get = 1 .. n BY <1>1
<1> HIDE DEF on
<1>5. on[2] = Other(on[1])
  <2>1. CASE n = 1
    <3>1. on[n + 1] = source /\ on[n] = get[n] BY <1>1, <1>3
    <3>2. on[1 + 1] = source /\ on[1] = get[1] /\ source = Other(get[1])
      BY <2>1, <3>1
    <3> QED BY <3>2
  <2>2. CASE n > 1
    <3>1. 1 \in 1 .. n /\ 2 \in 1 .. n BY <1>1, <2>2
    <3>2. on[1] = get[1] /\ on[2] = get[2] BY <3>1, <1>3
    <3> QED BY <2>2, <3>2 DEF ByTurns
  <2>3. n = 1 \/ n > 1
    <3> HIDE DEF n
    <3> QED BY <1>1
  <2> QED BY <2>1, <2>2, <2>3
<1>6. \A i \in 1 .. n : get[i] \in Texts
  <2> TAKE i \in 1 .. n
  <2>1. CASE n = 1
    <3>1. i = n BY <2>1
    <3> QED BY <3>1
  <2>2. CASE n > 1 BY <2>2, <1>4 DEF ByTurns
  <2> QED BY <1>1, <2>1, <2>2
<1>7. \A i \in DOMAIN on : on[i] \in Texts
  <2> HIDE DEF n, source
  <2> SUFFICES ASSUME NEW i \in 1 .. n + 1 PROVE on[i] \in Texts BY <1>3
  <2>1. CASE i = n + 1 BY <2>1, <1>2, <1>3
  <2>2. CASE i \in 1 .. n BY <2>2, <1>3, <1>6
  <2> QED BY <1>1, <2>1, <2>2
<1>8. Len(on) > 0 BY <1>1, <1>3
<1> QED BY <1>3, <1>5, <1>7, <1>8 DEF ByTurns, on, source, n

\* What asking on leaves, of the call that asks and of the clipboard.
LEMMA AskOnKeeps ==
  ASSUME ClipInv, NEW c \in Call, NEW get, ByTurns(get), AskOn(c, get),
         UNCHANGED <<open, owner, changed>>
  PROVE  ClipInv'
<1> DEFINE f == get[Len(get)]
           source == Other(f)
<1>0. ClipTypeOK /\ HeldAlive /\ MadeHasSource /\ TextsByTurns BY DEF ClipInv
<1>1. get \in Seq(Format) /\ Len(get) \in Nat /\ Len(get) > 0 /\ f \in Format
  <2>1. get \in Seq(Format) /\ Len(get) \in Nat /\ Len(get) > 0 BY DEF ByTurns
  <2>2. Len(get) \in 1 .. Len(get) BY <2>1
  <2> QED BY <2>1, <2>2
<1>2. calls \in [Call -> Waits] BY <1>0 DEF ClipTypeOK
<1>3. formats[f] = Made => ByTurns(Append(get, source))
  <2> SUFFICES ASSUME formats[f] = Made PROVE ByTurns(Append(get, source))
    OBVIOUS
  <2>1. f \in Texts BY <1>0, <1>1, OtherText DEF MadeHasSource
  <2> QED BY <2>1, TurnOn
<1>4. ASSUME NEW asked, NEW got, ByTurns(asked), MakeUp(asked, got),
             calls' = [calls EXCEPT ![c] = Idle]
      PROVE  ClipInv'
  <2>1. /\ formats' \in [Format -> Held] /\ alive' \subseteq Block
        /\ HeldAlive' /\ MadeHasSource'
    BY <1>0, <1>4, MakeUpKeeps
  <2>2. Idle \in Waits /\ Idle.for # "rendered" BY DEF Idle, Waits
  <2>3. calls' \in [Call -> Waits] BY <1>2, <1>4, <2>2
  <2>4. TextsByTurns' BY <1>0, <1>2, <1>4, <2>2 DEF TextsByTurns
  <2>5. ClipTypeOK' BY <1>0, <2>1, <2>3 DEF ClipTypeOK
  <2> QED BY <2>1, <2>4, <2>5 DEF ClipInv
<1>5. CASE formats[f] # Made
  <2>1. MakeUp(get, formats[f].block) /\ calls' = [calls EXCEPT ![c] = Idle]
    BY <1>5 DEF AskOn
  <2> QED BY <2>1, <1>4
<1>6. ASSUME formats[f] = Made, NEW asked, asked = Append(get, source),
             calls' = [calls EXCEPT ![c] = [for |-> "rendered", get |-> asked]],
             UNCHANGED <<formats, alive>>
      PROVE  ClipInv'
  <2>1. ByTurns(asked) BY <1>3, <1>6
  <2> DEFINE waits == [for |-> "rendered", get |-> asked]
  <2>2. waits \in Waits /\ waits.get = asked BY <2>1 DEF Waits, ByTurns
  <2>3. calls' = [calls EXCEPT ![c] = waits] BY <1>6
  <2> HIDE DEF waits
  <2>4. calls' \in [Call -> Waits] BY <1>2, <2>2, <2>3
  <2>5. TextsByTurns' BY <1>0, <1>2, <2>1, <2>2, <2>3 DEF TextsByTurns
  <2>6. ClipTypeOK' BY <1>0, <1>6, <2>4 DEF ClipTypeOK
  <2>7. HeldAlive' /\ MadeHasSource' BY <1>0, <1>6 DEF HeldAlive, MadeHasSource
  <2> QED BY <2>5, <2>6, <2>7 DEF ClipInv
<1>7. CASE formats[f] = Made
  <2>1. CASE open # NoHandle /\ formats[source] = Rendered /\ owner # NoHandle
    <3>1. /\ calls' = [calls EXCEPT ![c] = [for |-> "rendered",
                                             get |-> Append(get, source)]]
          /\ UNCHANGED <<formats, alive>>
      BY <1>7, <2>1 DEF AskOn
    <3> QED BY <3>1, <1>6, <1>7
  <2>2. CASE ~(open # NoHandle /\ formats[source] = Rendered /\ owner # NoHandle)
    <3>1. /\ MakeUp(Append(get, source), BlockOf(source))
          /\ calls' = [calls EXCEPT ![c] = Idle]
      BY <1>7, <2>2 DEF AskOn
    <3> QED BY <3>1, <1>3, <1>4, <1>7
  <2> QED BY <2>1, <2>2
<1> QED BY <1>5, <1>7

\* A format asked for on its own is asked for by turns.
LEMMA OneByTurns ==
  ASSUME NEW f \in Format
  PROVE  ByTurns(<<f>>)
BY DEF ByTurns

-----------------------------------------------------------------------------
(* The clipboard: each operation keeps the invariant.                      *)

\* A call that waits for something other than a rendering, or for nothing.
LEMMA CallWaits ==
  ASSUME ClipInv, NEW c \in Call, NEW for \in {"none", "emptied", "copying", "copied"},
         calls' = [calls EXCEPT ![c] = [for |-> for, get |-> <<>>]]
  PROVE  calls' \in [Call -> Waits] /\ TextsByTurns'
<1> DEFINE waits == [for |-> for, get |-> <<>>]
<1>1. waits \in Waits /\ waits.for # "rendered" BY DEF Waits
<1>2. calls' = [calls EXCEPT ![c] = waits] OBVIOUS
<1> HIDE DEF waits
<1>3. calls \in [Call -> Waits] /\ TextsByTurns BY DEF ClipInv, ClipTypeOK
<1> QED BY <1>1, <1>2, <1>3 DEF TextsByTurns

\* A call that had nothing to wait for waits, with nothing asked for yet.
LEMMA IdleWaits ==
  ASSUME ClipInv, NEW c \in Call, NEW for, calls[c] = Idle,
         calls' = [calls EXCEPT ![c].for = for]
  PROVE  calls' = [calls EXCEPT ![c] = [for |-> for, get |-> <<>>]]
<1>1. calls \in [Call -> Waits] BY DEF ClipInv, ClipTypeOK
<1>2. [calls[c] EXCEPT !.for = for] = [for |-> for, get |-> <<>>] BY DEF Idle
<1> QED BY <1>1, <1>2

\* A clipboard emptied has nothing on it that could be freed.
LEMMA EmptiedKeeps ==
  ASSUME ClipInv, Emptied
  PROVE  /\ open' \in Window \cup {NoHandle, "desktop", "task"}
         /\ owner' \in Window \cup {NoHandle, "desktop"}
         /\ changed' \in BOOLEAN
         /\ formats' \in [Format -> Held]
         /\ alive' \subseteq Block
         /\ HeldAlive' /\ MadeHasSource'
<1>1. ClipTypeOK BY DEF ClipInv
<1>2. formats' = [f \in Format |-> Absent] BY DEF Emptied, After
<1>3. Absent \in Held BY DEF Held
<1>4. owner' \in Window \cup {NoHandle, "desktop"}
  BY <1>1 DEF Emptied, Owning, ClipTypeOK
<1>5. HeldAlive' BY <1>2, HeldApart DEF HeldAlive
<1>6. MadeHasSource' BY <1>2, HeldApart DEF MadeHasSource
<1> QED BY <1>1, <1>2, <1>3, <1>4, <1>5, <1>6 DEF Emptied, ClipTypeOK

\* A picture of the screen put on keeps the invariant, as does none for want of memory.
LEMMA CopiedKeeps ==
  ASSUME ClipInv, NEW c \in Call,
         NEW opened \in Window \cup {NoHandle, "desktop", "task"},
         Copied(c, opened)
  PROVE  ClipInv'
<1> DEFINE left == alive \ {formats[f].block : f \in Format}
<1>1. ClipTypeOK BY DEF ClipInv
<1>2. PICK b \in (Block \ left) \cup {NoHandle} :
        /\ alive' = left \cup ({b} \ {NoHandle})
        /\ formats' = [f \in Format |-> IF f = "bitmap" /\ b # NoHandle
                                        THEN Data(b) ELSE Absent]
  BY DEF Copied, After
<1>3. left \subseteq Block BY <1>1 DEF ClipTypeOK
<1> HIDE DEF left
<1>4. Absent \in Held /\ Data(b) \in Held BY <1>2 DEF Held
<1>5. alive' \subseteq Block BY <1>2, <1>3
<1>6. formats' \in [Format -> Held] BY <1>2, <1>4
<1>7. \A f \in Format : formats'[f].block # NoHandle =>
                          f = "bitmap" /\ formats'[f].block \in alive'
  <2> TAKE f \in Format
  <2>1. CASE f = "bitmap" /\ b # NoHandle BY <2>1, <1>2, HeldApart
  <2>2. CASE ~(f = "bitmap" /\ b # NoHandle) BY <2>2, <1>2, HeldApart
  <2> QED BY <2>1, <2>2
<1>8. HeldAlive' BY <1>7 DEF HeldAlive
<1>9. MadeHasSource' BY <1>2, HeldApart DEF MadeHasSource
<1>10. calls' \in [Call -> Waits] /\ TextsByTurns'
  BY CallWaits DEF Copied
<1>11. open' = NoHandle /\ owner' = Owning(opened) /\ changed' = (opened = NoHandle)
  BY DEF Copied
<1>12. owner' \in Window \cup {NoHandle, "desktop"} BY <1>11 DEF Owning
<1> QED BY <1>5, <1>6, <1>8, <1>9, <1>10, <1>11, <1>12 DEF ClipInv, ClipTypeOK

\* A block of the program's put on is one that no format holds.
LEMMA SetKeeps ==
  ASSUME ClipInv, NEW f \in Format, SetClipboardData(f)
  PROVE  ClipInv'
<1>1. ClipTypeOK /\ HeldAlive /\ MadeHasSource /\ TextsByTurns BY DEF ClipInv
<1>2. formats \in [Format -> Held] /\ alive \subseteq Block BY <1>1 DEF ClipTypeOK
<1>3. /\ changed' = TRUE /\ UNCHANGED <<open, owner, calls>> BY DEF SetClipboardData
<1>4. TextsByTurns' BY <1>1, <1>3 DEF TextsByTurns
<1>5. ASSUME NEW h \in Held, h \notin {Made, Absent},
             formats' = [formats EXCEPT ![f] = h]
      PROVE  formats' \in [Format -> Held] /\ MadeHasSource'
  BY <1>1, <1>2, <1>5, FilledKeepsSource
<1>6. ASSUME formats' \in [Format -> Held], alive' \subseteq Block, MadeHasSource',
             HeldAlive'
      PROVE  ClipInv'
  BY <1>1, <1>3, <1>4, <1>6 DEF ClipInv, ClipTypeOK
<1>7. CASE UNCHANGED alive /\ formats' = [formats EXCEPT ![f] = Rendered]
  <2>1. Rendered \in Held /\ Rendered \notin {Made, Absent}
    BY HeldApart DEF Held
  <2>2. formats' \in [Format -> Held] /\ MadeHasSource' BY <1>5, <1>7, <2>1
  <2>3. HeldAlive' BY <1>1, <1>2, <1>7, HeldApart DEF HeldAlive
  <2> QED BY <1>2, <1>6, <1>7, <2>2, <2>3
<1>8. ASSUME NEW b \in Block \ alive, alive' = alive \cup {b},
             formats' = [formats EXCEPT ![f] = Data(b)]
      PROVE  ClipInv'
  <2>1. Data(b) \in Held /\ Data(b) \notin {Made, Absent} /\ Data(b).block = b
    BY <1>8, HeldApart DEF Held
  <2>2. formats' \in [Format -> Held] /\ MadeHasSource' BY <1>5, <1>8, <2>1
  <2>3. HeldAlive'
    <3> SUFFICES ASSUME NEW g \in Format, NEW h \in Format,
                        formats'[g].block # NoHandle
                 PROVE  /\ formats'[g].block \in alive'
                        /\ formats'[h].block = formats'[g].block => g = h
      BY DEF HeldAlive
    <3>1. formats'[f].block = b /\ \A k \in Format \ {f} :
            /\ formats'[k].block = formats[k].block
            /\ formats[k].block # NoHandle => formats[k].block \in alive
      BY <1>1, <1>2, <1>8, <2>1 DEF HeldAlive
    <3>2. b # NoHandle BY ClipAssumption
    <3>3. CASE g = f BY <3>3, <3>1, <3>2, <1>8
    <3>4. CASE g # f BY <3>4, <3>1, <3>2, <1>8, <1>1 DEF HeldAlive
    <3> QED BY <3>3, <3>4
  <2> QED BY <1>2, <1>6, <1>8, <2>2, <2>3
<1> QED BY <1>7, <1>8 DEF SetClipboardData

\* The text made from the other as the clipboard is closed was not there, and
\* the other is, and is not to be made itself.
LEMMA CloseKeeps ==
  ASSUME ClipInv, CloseClipboard
  PROVE  ClipInv'
<1>1. ClipTypeOK /\ HeldAlive /\ MadeHasSource /\ TextsByTurns BY DEF ClipInv
<1>2. formats \in [Format -> Held] BY <1>1 DEF ClipTypeOK
<1>3. open' = NoHandle /\ changed' = FALSE /\ UNCHANGED <<owner, alive, calls>>
  BY DEF CloseClipboard
<1>4. TextsByTurns' BY <1>1, <1>3 DEF TextsByTurns
<1>5. CASE ~changed
  <2>1. formats' = formats BY <1>5 DEF CloseClipboard
  <2> QED BY <1>1, <1>3, <1>4, <2>1
        DEF ClipInv, ClipTypeOK, HeldAlive, MadeHasSource
<1>6. CASE changed
  <2>1. formats' = [f \in Format |-> IF Lacks(f) THEN Made ELSE formats[f]]
    BY <1>6 DEF CloseClipboard
  <2>2. Made \in Held BY DEF Held
  <2>3. formats' \in [Format -> Held] BY <1>2, <2>1, <2>2
  <2>4. HeldAlive' BY <1>1, <1>3, <2>1, HeldApart DEF HeldAlive
  <2>5. MadeHasSource'
    <3> SUFFICES ASSUME NEW f \in Format, formats'[f] = Made
                 PROVE  f # "bitmap" /\ formats'[Other(f)] \notin {Made, Absent}
      BY DEF MadeHasSource
    <3> DEFINE g == Other(f)
    <3>1. g \in Format /\ g # "bitmap" BY OtherText DEF Texts, Format, Other
    <3>2. f # "bitmap" => Other(g) = f BY DEF Other, Format
    <3>3. CASE Lacks(f)
      <4>1. f # "bitmap" /\ formats[g] # Absent /\ formats[f] = Absent
        BY <3>3 DEF Lacks, Has
      <4>2. formats[g] # Made
        BY <1>1, <3>1, <3>2, <4>1 DEF MadeHasSource
      <4>3. ~Lacks(g) BY <4>1 DEF Lacks, Has
      <4>4. formats'[g] = formats[g] BY <2>1, <3>1, <4>3
      <4> QED BY <4>1, <4>2, <4>4
    <3>4. CASE ~Lacks(f)
      <4>1. formats[f] = Made BY <2>1, <3>4
      <4>2. f # "bitmap" /\ formats[g] \notin {Made, Absent}
        BY <1>1, <4>1 DEF MadeHasSource
      <4>3. ~Lacks(g) BY <4>2 DEF Lacks, Has
      <4>4. formats'[g] = formats[g] BY <2>1, <3>1, <4>3
      <4> QED BY <4>2, <4>4
    <3> QED BY <3>3, <3>4
  <2> QED BY <1>1, <1>3, <1>4, <2>3, <2>4, <2>5 DEF ClipInv, ClipTypeOK
<1> QED BY <1>1, <1>5, <1>6 DEF ClipTypeOK

\* Emptying it keeps the invariant, at once or when the owner has answered.
LEMMA EmptyKeeps ==
  ASSUME ClipInv, NEW c \in Call, EmptyClipboard(c) \/ EmptyDone(c)
  PROVE  ClipInv'
<1>1. ClipTypeOK /\ HeldAlive /\ MadeHasSource /\ TextsByTurns BY DEF ClipInv
<1>2. CASE Emptied /\ UNCHANGED calls
  <2>1. TextsByTurns' /\ calls' \in [Call -> Waits]
    BY <1>1, <1>2 DEF TextsByTurns, ClipTypeOK
  <2> QED BY <1>2, <2>1, EmptiedKeeps DEF ClipInv, ClipTypeOK
<1>3. CASE Emptied /\ calls' = [calls EXCEPT ![c] = Idle]
  <2>1. TextsByTurns' /\ calls' \in [Call -> Waits]
    BY <1>3, CallWaits DEF Idle
  <2> QED BY <1>3, <2>1, EmptiedKeeps DEF ClipInv, ClipTypeOK
<1>4. CASE /\ calls[c] = Idle /\ calls' = [calls EXCEPT ![c].for = "emptied"]
           /\ UNCHANGED <<open, owner, changed, formats, alive>>
  <2>1. TextsByTurns' /\ calls' \in [Call -> Waits]
    BY <1>4, CallWaits, IdleWaits
  <2> QED BY <1>1, <1>4, <2>1
        DEF ClipInv, ClipTypeOK, HeldAlive, MadeHasSource
<1> QED BY <1>2, <1>3, <1>4 DEF EmptyClipboard, EmptyDone

\* A format asked for keeps the invariant: there, to be rendered or to be made.
LEMMA GetKeeps ==
  ASSUME ClipInv, NEW c \in Call, NEW f \in Format, GetClipboardData(c, f)
  PROVE  ClipInv'
<1>1. ClipTypeOK /\ HeldAlive /\ MadeHasSource /\ TextsByTurns BY DEF ClipInv
<1>2. UNCHANGED <<open, owner, changed>> BY DEF GetClipboardData
<1>3. CASE AskOn(c, <<f>>) BY <1>2, <1>3, AskOnKeeps, OneByTurns
<1>4. CASE /\ calls' = [calls EXCEPT ![c] = [for |-> "rendered", get |-> <<f>>]]
           /\ UNCHANGED <<formats, alive>>
  <2> DEFINE waits == [for |-> "rendered", get |-> <<f>>]
  <2>1. waits \in Waits /\ ByTurns(waits.get) BY OneByTurns DEF Waits
  <2>2. calls' = [calls EXCEPT ![c] = waits] BY <1>4
  <2>3. calls \in [Call -> Waits] BY <1>1 DEF ClipTypeOK
  <2> HIDE DEF waits
  <2>4. calls' \in [Call -> Waits] /\ TextsByTurns'
    BY <1>1, <2>1, <2>2, <2>3 DEF TextsByTurns
  <2> QED BY <1>1, <1>2, <1>4, <2>4
        DEF ClipInv, ClipTypeOK, HeldAlive, MadeHasSource
<1> QED BY <1>3, <1>4 DEF GetClipboardData

\* Print Screen keeps the invariant, in each of its parts.
LEMMA PrintScreenKeeps ==
  ASSUME ClipInv, NEW c \in Call, PrintScreen(c) \/ PrintScreenGoesOn(c)
  PROVE  ClipInv'
<1>1. ClipTypeOK /\ HeldAlive /\ MadeHasSource /\ TextsByTurns BY DEF ClipInv
<1>2. CASE Copied(c, "desktop") BY <1>2, CopiedKeeps
<1>3. CASE Copied(c, open) BY <1>1, <1>3, CopiedKeeps DEF ClipTypeOK
<1>4. CASE /\ calls[c] = Idle /\ open' = "desktop"
           /\ calls' = [calls EXCEPT ![c].for = "copying"]
           /\ UNCHANGED <<owner, changed, formats, alive>>
  <2>1. TextsByTurns' /\ calls' \in [Call -> Waits]
    BY <1>4, CallWaits, IdleWaits
  <2> QED BY <1>1, <1>4, <2>1
        DEF ClipInv, ClipTypeOK, HeldAlive, MadeHasSource
<1>5. CASE /\ owner' = NoHandle /\ calls' = [calls EXCEPT ![c] = Idle]
           /\ UNCHANGED <<open, changed, formats, alive>>
  <2>1. TextsByTurns' /\ calls' \in [Call -> Waits]
    BY <1>5, CallWaits DEF Idle
  <2> QED BY <1>1, <1>5, <2>1
        DEF ClipInv, ClipTypeOK, HeldAlive, MadeHasSource
<1> QED BY <1>2, <1>3, <1>4, <1>5 DEF PrintScreen, PrintScreenGoesOn

-----------------------------------------------------------------------------
(* The clipboard: the theorems.                                            *)

\* A clipboard that nobody has opened yet meets it.
LEMMA InitClipInv == ClipInit => ClipInv
<1> SUFFICES ASSUME ClipInit PROVE ClipInv OBVIOUS
<1>1. Absent \in Held /\ Idle \in Waits /\ Idle.for # "rendered"
  BY DEF Held, Idle, Waits
<1>2. formats = [f \in Format |-> Absent] /\ calls = [c \in Call |-> Idle]
  BY DEF ClipInit
<1>3. ClipTypeOK BY <1>1 DEF ClipInit, ClipTypeOK
<1>4. TextsByTurns BY <1>1, <1>2 DEF TextsByTurns
<1>5. HeldAlive /\ MadeHasSource
  BY <1>2, HeldApart DEF HeldAlive, MadeHasSource
<1> QED BY <1>3, <1>4, <1>5 DEF ClipInv

\* Every step of the clipboard keeps it.
LEMMA NextClipInv == ClipInv /\ [ClipNext]_clipVars => ClipInv'
<1> SUFFICES ASSUME ClipInv, [ClipNext]_clipVars PROVE ClipInv' OBVIOUS
<1>1. ClipTypeOK /\ HeldAlive /\ MadeHasSource /\ TextsByTurns BY DEF ClipInv
<1>2. ASSUME NEW w \in Window \cup {"task"}, OpenClipboard(w) PROVE ClipInv'
  BY <1>1, <1>2
     DEF OpenClipboard, ClipInv, ClipTypeOK, HeldAlive, MadeHasSource, TextsByTurns
<1>3. ASSUME NEW f \in Format, SetClipboardData(f) PROVE ClipInv'
  BY <1>3, SetKeeps
<1>4. CASE CloseClipboard BY <1>4, CloseKeeps
<1>5. ASSUME NEW c \in Call, EmptyClipboard(c) \/ EmptyDone(c) PROVE ClipInv'
  BY <1>5, EmptyKeeps
<1>6. ASSUME NEW c \in Call, RenderDone(c) PROVE ClipInv'
  <2>1. ByTurns(calls[c].get) BY <1>1, <1>6 DEF RenderDone, TextsByTurns
  <2> QED BY <1>6, <2>1, AskOnKeeps DEF RenderDone
<1>7. ASSUME NEW c \in Call, NEW f \in Format, GetClipboardData(c, f)
      PROVE  ClipInv'
  BY <1>7, GetKeeps
<1>8. ASSUME NEW c \in Call, PrintScreen(c) \/ PrintScreenGoesOn(c) PROVE ClipInv'
  BY <1>8, PrintScreenKeeps
<1>9. CASE UNCHANGED clipVars
  BY <1>1, <1>9
     DEF clipVars, ClipInv, ClipTypeOK, HeldAlive, MadeHasSource, TextsByTurns
<1> QED BY <1>2, <1>3, <1>4, <1>5, <1>6, <1>7, <1>8, <1>9 DEF ClipNext

\* The state is of its type, a call asks for the texts by turns, and what the
\* clipboard says it has it can give, however its calls cross.
THEOREM ClipboardInvariant == ClipSpec => []ClipInv
BY InitClipInv, NextClipInv, PTL DEF ClipSpec

\* No block is freed while it is on the clipboard, none is on it twice, and a
\* text to be made always has the other to be made from (clipboard.rs:
\* empty_clipboard, made_text, get_clipboard_data).
THEOREM ClipboardGives == ClipSpec => []CanBeGiven
<1>1. ClipInv => CanBeGiven BY DEF ClipInv, CanBeGiven
<1> QED BY <1>1, ClipboardInvariant, PTL

-----------------------------------------------------------------------------
(* The callbacks: the invariants.                                          *)

Follows(f) == f.at \in {"end", "told"}
Makes(f) == f.at \in {"called", "told"}

\* A run is never under anything; the partner's termination is under the run
\* that goes before it, or a callback of that run's; and no callback is made
\* under another, but that of a termination's end.
Nested ==
  \A i \in DOMAIN stack :
    /\ stack[i].at = "run" => i = 1
    /\ stack[i].at = "end" /\ i > 1 => stack[i - 1].at \in {"run", "called"}
    /\ \A j \in DOMAIN stack : i < j /\ stack[i].at = "called" => ~Makes(stack[j])

\* One wait at a time, for the conversation that is waited for.
OneWait ==
  /\ \A i, j \in DOMAIN stack : stack[i].at = "wait" /\ stack[j].at = "wait" => i = j
  /\ \A i \in DOMAIN stack : stack[i].at = "wait" => stack[i].conv = waited
  /\ waited # NoConv => \E i \in DOMAIN stack : stack[i].at = "wait"

\* A partner's termination is followed once, and not over a wait for the
\* conversation it ends.
PairApart(s) ==
  \A i, j \in DOMAIN s :
    /\ Follows(s[i]) /\ Follows(s[j]) /\ s[i].conv = s[j].conv => i = j
    /\ i < j /\ Follows(s[i]) /\ s[j].at = "wait" => s[i].conv # s[j].conv
EndsApart ==
  /\ PairApart(stack)
  /\ \A i \in DOMAIN stack :
       Follows(stack[i]) => stack[i].conv \notin coming /\ partner[stack[i].conv] # "open"
  /\ \A c \in coming : partner[c] # "open"

\* There is such a frame, for a conversation.
There(s, c, at) == \E i \in DOMAIN s : s[i].at = at /\ s[i].conv = c
Followed(c) == There(stack, c, "end") \/ There(stack, c, "told")

\* The flags of a conversation with a window: whatever a program does.
AccordOf(c) ==
  c \in windows =>
    /\ "connected" \notin status[c] =>
         /\ "destroy" \in status[c]
         /\ c \in endings => "terminated" \in status[c] /\ There(stack, c, "told")
    /\ (There(stack, c, "end") \/ c \in coming \/ partner[c] = "open") /\ "connected" \in status[c]
         => "terminated" \notin status[c] /\ "destroy" \notin status[c]
    /\ There(stack, c, "end") => "terminated" \notin status[c]
Accord == \A c \in Conv : AccordOf(c)

\* And where its own termination is not dispatched while the partner's is
\* followed.
CleanOf(c) ==
  /\ Followed(c) => c \in windows
  /\ c \in windows =>
       /\ There(stack, c, "end") => "connected" \in status[c]
       /\ There(stack, c, "told") => /\ "terminated" \in status[c] /\ "destroy" \in status[c]
                                  /\ "connected" \notin status[c]
       /\ "connected" \in status[c] => /\ "terminated" \notin status[c]
                                       /\ "destroy" \notin status[c]
                                       /\ "awaited" \notin status[c]
       /\ ~Followed(c) =>
            /\ "terminated" \notin status[c]
            /\ "connected" \notin status[c] => "awaited" \in status[c] /\ c \notin endings
            /\ partner[c] = "ended" => c \in coming
Clean == "ended" \in misused \/ \A c \in Conv : CleanOf(c)

Awaited == {c \in Conv : "awaited" \in status[c]}
Counts == /\ count \in Nat /\ Cardinality(Awaited) <= count
          /\ TerminationsCounted

\* The callbacks that frames speak of are in the list.
In(n) == \E i \in DOMAIN callbacks : callbacks[i].n = n
Listed ==
  \A i \in DOMAIN stack :
    /\ stack[i].at = "run" => stack[i].item = 0 \/ In(stack[i].item)
    /\ stack[i].at = "called" => /\ In(stack[i].item)
                                 /\ stack[i].next = 0 \/ In(stack[i].next)
                                 /\ stack[i].next # 0 => stack[i].item < stack[i].next

\* What a run is past is blocked.
Passed(l, s, f) ==
  \A j \in DOMAIN l :
    /\ f.at = "run" /\ l[j].n < f.item => "blocked" \in s[l[j].conv]
    /\ f.at = "called" /\ l[j].n # f.item /\ l[j].n < f.next => "blocked" \in s[l[j].conv]
InTurn == "enabled" \in misused \/ \A i \in DOMAIN stack : Passed(callbacks, status, stack[i])

\* The list is to be run for a callback: by a message posted, after a wait in a
\* callback, or by a run that has not come to it.
WaitInCall(s) == \E i, j \in DOMAIN s : i < j /\ s[i].at = "wait" /\ Makes(s[j])
RunComes(s, n) ==
  /\ \A i \in DOMAIN s : ~Makes(s[i])
  /\ \E i \in DOMAIN s : s[i].at = "run" /\ s[i].item # 0 /\ s[i].item <= n
CallCovers(s, n) ==
  \E i \in DOMAIN s : /\ s[i].at = "called"
                      /\ s[i].item = n \/ (s[i].next # 0 /\ s[i].next <= n)
Awake(s, r, n) == r > 0 \/ WaitInCall(s) \/ RunComes(s, n) \/ CallCovers(s, n)
\* Or it is not to be made.
Excused(c) == "blocked" \in status[c] \/ (Dropped(c) /\ ~Followed(c))
Reached ==
  refused \/
    \A i \in DOMAIN callbacks :
      Awake(stack, runs, callbacks[i].n) \/ Excused(callbacks[i].conv)

Histories == \A c \in Conv : made[c] <= came
ArrivedOnce == \A i \in DOMAIN callbacks : callbacks[i].n <= came

\* The types; what the waits have to do with the stack is OneWait's.
CallbacksTyped ==
  /\ callbacks \in Seq(Callback)
  /\ \A i, j \in DOMAIN callbacks : i < j => callbacks[i].n < callbacks[j].n
  /\ windows \subseteq Conv
  /\ status \in [Conv -> SUBSET Flag]
  /\ waited \in Conv \cup {NoConv} /\ looped \in BOOLEAN
  /\ stack \in Seq(Frame)
  /\ runs \in 0 .. Room
  /\ endings \subseteq Conv /\ coming \subseteq Conv
  /\ partner \in [Conv -> {"open", "ended", "gone"}]
  /\ came \in 0 .. MaxCallbacks /\ made \in [Conv -> Serial \cup {0}]
  /\ refused \in BOOLEAN /\ misused \subseteq {"enabled", "ended"}

\* The inductive invariant of the callbacks.
CallbacksInv ==
  /\ CallbacksTyped /\ Nested /\ OneWait /\ EndsApart /\ WaitedStands
  /\ Accord /\ Clean /\ Counts
  /\ Listed /\ ArrivedOnce /\ Histories /\ InTurn /\ MadeInOrder /\ Reached

-----------------------------------------------------------------------------
(* The callbacks: what a step makes of a stack.                            *)

\* A stack with a frame put on, taken off, or put in the uppermost's place.
Over(s, t, f) ==
  /\ DOMAIN t = 1 .. Len(s) + 1 /\ DOMAIN s = 1 .. Len(s) /\ Len(s) \in Nat
  /\ t[1] = f
  /\ \A i \in DOMAIN s : i + 1 \in DOMAIN t /\ t[i + 1] = s[i]
  /\ \A i \in DOMAIN t : i # 1 => i - 1 \in DOMAIN s /\ t[i] = s[i - 1]
Under(s, t) ==
  /\ DOMAIN t = 1 .. Len(s) - 1 /\ DOMAIN s = 1 .. Len(s) /\ Len(s) \in Nat \ {0}
  /\ Head(s) = s[1] /\ 1 \in DOMAIN s
  /\ \A i \in DOMAIN s : i # 1 => i - 1 \in DOMAIN t /\ t[i - 1] = s[i]
  /\ \A i \in DOMAIN t : i + 1 \in DOMAIN s /\ t[i] = s[i + 1]
InPlace(s, t, f) ==
  /\ DOMAIN t = 1 .. Len(s) /\ DOMAIN s = 1 .. Len(s) /\ Len(s) \in Nat \ {0}
  /\ Head(s) = s[1] /\ 1 \in DOMAIN s
  /\ t[1] = f
  /\ \A i \in DOMAIN s : i # 1 => t[i] = s[i]

\* A frame before a sequence.
LEMMA PutOn ==
  ASSUME NEW S, NEW s \in Seq(S), NEW f \in S
  PROVE  <<f>> \o s \in Seq(S) /\ Over(s, <<f>> \o s, f)
<1> DEFINE o == <<f>>
           t == o \o s
<1>1. o \in Seq(S) /\ Len(o) = 1 /\ o[1] = f
  OBVIOUS
<1> HIDE DEF o
<1>2. /\ t \in Seq(S) /\ Len(t) = 1 + Len(s) /\ t[1] = f
      /\ \A j \in 2 .. 1 + Len(s) : t[j] = s[j - 1]
  <2>1. /\ t \in Seq(S) /\ Len(t) = Len(o) + Len(s)
        /\ \A j \in 1 .. Len(o) : t[j] = o[j]
        /\ \A j \in Len(o) + 1 .. Len(o) + Len(s) : t[j] = s[j - Len(o)]
    BY <1>1, Joined
  <2> QED BY <1>1, <2>1
<1>3. Len(s) \in Nat /\ DOMAIN s = 1 .. Len(s) /\ DOMAIN t = 1 .. Len(t)
  BY <1>2
<1> HIDE DEF t
<1>4. \A i \in DOMAIN s : i + 1 \in 2 .. 1 + Len(s) /\ (i + 1) - 1 = i
  BY <1>3
<1>5. Over(s, t, f)
  BY <1>2, <1>3, <1>4 DEF Over
<1> QED BY <1>2, <1>5 DEF t, o

\* The rest of a sequence.
LEMMA TakenOff ==
  ASSUME NEW S, NEW s \in Seq(S), s # <<>>
  PROVE  Tail(s) \in Seq(S) /\ Under(s, Tail(s)) /\ s[1] \in S
<1>1. /\ Tail(s) \in Seq(S) /\ Len(Tail(s)) = Len(s) - 1
      /\ Len(s) \in Nat \ {0} /\ DOMAIN s = 1 .. Len(s)
      /\ Head(s) = s[1]
  OBVIOUS
<1>2. DOMAIN Tail(s) = 1 .. Len(s) - 1
  BY <1>1
<1>3. \A i \in 1 .. Len(s) - 1 : Tail(s)[i] = s[i + 1]
  BY <1>1
<1>4. \A i \in DOMAIN s : i # 1 => i - 1 \in 1 .. Len(s) - 1 /\ (i - 1) + 1 = i
  BY <1>1
<1>5. Under(s, Tail(s))
  BY <1>1, <1>2, <1>3, <1>4 DEF Under
<1> QED BY <1>1, <1>5

\* A frame in place of the first.
LEMMA PutInPlace ==
  ASSUME NEW S, NEW s \in Seq(S), s # <<>>, NEW f \in S
  PROVE  <<f>> \o Tail(s) \in Seq(S) /\ InPlace(s, <<f>> \o Tail(s), f)
<1>1. Tail(s) \in Seq(S) /\ Under(s, Tail(s))
  BY TakenOff
<1> DEFINE r == Tail(s)
           t == <<f>> \o r
<1> HIDE DEF r
<1>2. t \in Seq(S) /\ Over(r, t, f)
  BY <1>1, PutOn DEF r
<1> HIDE DEF t
<1>3. Len(r) = Len(s) - 1
  BY <1>1, <1>2 DEF r, Under, Over
<1>4. InPlace(s, t, f)
  BY <1>1, <1>2, <1>3 DEF r, Under, Over, InPlace
<1> QED BY <1>2, <1>4 DEF t, r

\* What a frame holds.
LEMMA FrameParts ==
  ASSUME NEW f \in Frame
  PROVE  /\ f.at \in {"run", "called", "end", "told", "wait"}
         /\ f.at \in {"run", "called"} => /\ f.item \in Serial \cup {0}
                                          /\ f.next \in Serial \cup {0}
         /\ f.at \in {"end", "told", "wait"} => f.conv \in Conv
BY DEF Frame

\* The frames that steps put on the stack.
LEMMA FramesMade ==
  /\ \A i, j \in Serial \cup {0} : /\ [at |-> "run", item |-> i, next |-> j] \in Frame
                                   /\ [at |-> "called", item |-> i, next |-> j] \in Frame
  /\ \A c \in Conv : /\ [at |-> "end", conv |-> c] \in Frame
                     /\ [at |-> "told", conv |-> c] \in Frame
                     /\ [at |-> "wait", conv |-> c] \in Frame
BY DEF Frame

-----------------------------------------------------------------------------
(* The callbacks: the list.                                                *)

\* What the list holds.
LEMMA ListParts ==
  ASSUME CallbacksTyped
  PROVE  /\ Len(callbacks) \in Nat /\ DOMAIN callbacks = 1 .. Len(callbacks)
         /\ \A i \in DOMAIN callbacks : /\ callbacks[i] \in Callback
                                        /\ callbacks[i].n \in Serial /\ callbacks[i].n \in Nat
                                        /\ callbacks[i].conv \in Conv
         /\ MaxCallbacks \in Nat /\ Serial \subseteq Nat \ {0}
         /\ callbacks = <<>> <=> DOMAIN callbacks = {}
<1>1. Len(callbacks) \in Nat /\ DOMAIN callbacks = 1 .. Len(callbacks)
  BY DEF CallbacksTyped
<1>2. MaxCallbacks \in Nat /\ Serial \subseteq Nat \ {0}
  BY CallbacksAssumption DEF Serial
<1>3. \A i \in DOMAIN callbacks : callbacks[i] \in Callback
  BY <1>1 DEF CallbacksTyped
<1>4. callbacks = <<>> <=> DOMAIN callbacks = {}
  BY <1>1 DEF CallbacksTyped
<1> QED BY <1>1, <1>2, <1>3, <1>4 DEF Callback

\* The place of a callback in the list.
LEMMA PlaceIs ==
  ASSUME CallbacksTyped, NEW n, In(n)
  PROVE  /\ Place(n) \in DOMAIN callbacks /\ callbacks[Place(n)].n = n
         /\ \A i \in DOMAIN callbacks : callbacks[i].n = n => i = Place(n)
         /\ \A i \in DOMAIN callbacks : i < Place(n) => callbacks[i].n < n
         /\ \A i \in DOMAIN callbacks : i > Place(n) => callbacks[i].n > n
         /\ Waiting(n) = callbacks[Place(n)] /\ Waiting(n).conv \in Conv
         /\ n \in Serial
<1>1. /\ Place(n) \in DOMAIN callbacks /\ callbacks[Place(n)].n = n
  BY DEF In, Place
<1> DEFINE p == Place(n)
<1> HIDE DEF p
<1>2. p \in DOMAIN callbacks /\ callbacks[p].n = n
  BY <1>1 DEF p
<1>3. \A i, j \in DOMAIN callbacks : i < j => callbacks[i].n < callbacks[j].n
  BY DEF CallbacksTyped
<1>4. /\ \A i \in DOMAIN callbacks : i < p => callbacks[i].n < n
      /\ \A i \in DOMAIN callbacks : i > p => callbacks[i].n > n
      /\ \A i \in DOMAIN callbacks : callbacks[i].n = n => i = p
  BY <1>2, <1>3, ListParts
<1>5. Waiting(n) = callbacks[p] /\ Waiting(n).conv \in Conv /\ n \in Serial
  BY <1>2, ListParts DEF Waiting, p
<1> QED BY <1>2, <1>4, <1>5 DEF p

\* The callback that is next in the list.
LEMMA NextIs ==
  ASSUME CallbacksTyped, NEW n, In(n)
  PROVE  /\ NextAfter(n) \in Serial \cup {0}
         /\ NextAfter(n) # 0 => In(NextAfter(n)) /\ n < NextAfter(n)
         /\ \A i \in DOMAIN callbacks :
              callbacks[i].n > n => NextAfter(n) # 0 /\ NextAfter(n) <= callbacks[i].n
<1> DEFINE p == Place(n)
<1>1. /\ p \in DOMAIN callbacks
      /\ \A i \in DOMAIN callbacks : callbacks[i].n = n => i = p
      /\ \A i \in DOMAIN callbacks : i < p => callbacks[i].n < n
      /\ \A i \in DOMAIN callbacks : i > p => callbacks[i].n > n
  BY PlaceIs
<1>2. \A i, j \in DOMAIN callbacks : i < j => callbacks[i].n < callbacks[j].n
  BY DEF CallbacksTyped
<1>3. NextAfter(n) = IF p = Len(callbacks) THEN 0 ELSE callbacks[p + 1].n
  BY DEF NextAfter
<1> HIDE DEF p
<1>4. CASE p = Len(callbacks)
  <2>1. NextAfter(n) = 0
    BY <1>3, <1>4
  <2>2. \A i \in DOMAIN callbacks : i <= p
    BY <1>4, ListParts
  <2>3. \A i \in DOMAIN callbacks : ~(callbacks[i].n > n)
    BY <1>1, <2>2, ListParts, PlaceIs
  <2> QED BY <2>1, <2>3
<1>5. CASE p # Len(callbacks)
  <2>1. p + 1 \in DOMAIN callbacks /\ p + 1 > p
    BY <1>1, <1>5, ListParts
  <2>2. NextAfter(n) = callbacks[p + 1].n /\ NextAfter(n) \in Serial
    BY <1>3, <1>5, <2>1, ListParts
  <2>3. n < NextAfter(n) /\ In(NextAfter(n)) /\ NextAfter(n) # 0
    BY <1>1, <2>1, <2>2, ListParts, PlaceIs DEF In
  <2>4. ASSUME NEW i \in DOMAIN callbacks, callbacks[i].n > n
        PROVE  NextAfter(n) <= callbacks[i].n
    <3>1. ~(i < p) /\ i # p
      BY <1>1, <2>4, ListParts, PlaceIs
    <3>2. i = p + 1 \/ p + 1 < i
      BY <1>1, <3>1, ListParts
    <3> QED BY <1>2, <2>1, <2>2, <3>2, ListParts
  <2> QED BY <2>2, <2>3, <2>4
<1> QED BY <1>4, <1>5

\* The first of the list.
LEMMA FirstIs ==
  ASSUME CallbacksTyped
  PROVE  /\ First(callbacks) \in Serial \cup {0}
         /\ First(callbacks) # 0 => In(First(callbacks))
         /\ \A i \in DOMAIN callbacks :
              First(callbacks) # 0 /\ First(callbacks) <= callbacks[i].n
<1>1. CASE callbacks = <<>>
  <2>1. First(callbacks) = 0
    BY <1>1 DEF First
  <2> QED BY <1>1, <2>1, ListParts
<1>2. CASE callbacks # <<>>
  <2>1. 1 \in DOMAIN callbacks /\ Head(callbacks) = callbacks[1]
    BY <1>2, ListParts DEF CallbacksTyped
  <2>2. First(callbacks) = callbacks[1].n
    BY <1>2, <2>1 DEF First
  <2>3. \A i \in DOMAIN callbacks : i = 1 \/ 1 < i
    BY ListParts
  <2>4. \A i, j \in DOMAIN callbacks : i < j => callbacks[i].n < callbacks[j].n
    BY DEF CallbacksTyped
  <2>5. \A i \in DOMAIN callbacks : First(callbacks) <= callbacks[i].n
    BY <2>1, <2>2, <2>3, <2>4, ListParts
  <2>6. First(callbacks) \in Serial /\ First(callbacks) # 0 /\ In(First(callbacks))
    BY <2>1, <2>2, ListParts DEF In
  <2> QED BY <2>5, <2>6
<1> QED BY <1>1, <1>2

\* The list without one: the others, as they were.
Kept(l, m, n) ==
  /\ \A j \in DOMAIN m : \E i \in DOMAIN l : m[j] = l[i] /\ l[i].n # n
  /\ \A i \in DOMAIN l : l[i].n # n => \E j \in DOMAIN m : m[j] = l[i]

\* The list without one callback: the others, in order.
LEMMA WithoutIs ==
  ASSUME CallbacksTyped, NEW n, In(n)
  PROVE  /\ LeftWithout(n) \in Seq(Callback)
         /\ \A i, j \in DOMAIN LeftWithout(n) :
              i < j => LeftWithout(n)[i].n < LeftWithout(n)[j].n
         /\ Kept(callbacks, LeftWithout(n), n)
<1> DEFINE p == Place(n)
           l == callbacks
           m == LeftWithout(n)
<1>1. /\ p \in DOMAIN l
      /\ \A i \in DOMAIN l : l[i].n = n => i = p
      /\ l[p].n = n
  BY PlaceIs
<1>2. \A i, j \in DOMAIN l : i < j => l[i].n < l[j].n
  BY DEF CallbacksTyped
<1>3. l \in Seq(Callback) /\ DOMAIN l = 1 .. Len(l) /\ Len(l) \in Nat
  BY ListParts DEF CallbacksTyped
<1>4. m = RemoveAt(l, p)
  BY DEF LeftWithout
<1> HIDE DEF p, l, m
<1>5. /\ m \in Seq(Callback) /\ Len(m) = Len(l) - 1
      /\ \A j \in 1 .. p - 1 : m[j] = l[j]
      /\ \A j \in p .. Len(l) - 1 : m[j] = l[j + 1]
  BY <1>1, <1>3, <1>4, RemoveAtParts
<1>6. DOMAIN m = 1 .. Len(l) - 1 /\ p \in 1 .. Len(l)
  BY <1>1, <1>3, <1>5
<1>7. ASSUME NEW i \in DOMAIN m, NEW j \in DOMAIN m, i < j
      PROVE  m[i].n < m[j].n
  <2>1. CASE j < p
    BY <1>2, <1>3, <1>5, <1>6, <1>7, <2>1
  <2>2. CASE i < p /\ p <= j
    <3>1. m[i] = l[i] /\ m[j] = l[j + 1] /\ i \in DOMAIN l /\ j + 1 \in DOMAIN l /\ i < j + 1
      BY <1>3, <1>5, <1>6, <1>7, <2>2
    <3> QED BY <3>1, <1>2
  <2>3. CASE p <= i
    <3>1. /\ m[i] = l[i + 1] /\ m[j] = l[j + 1]
          /\ i + 1 \in DOMAIN l /\ j + 1 \in DOMAIN l /\ i + 1 < j + 1
      BY <1>3, <1>5, <1>6, <1>7, <2>3
    <3> QED BY <3>1, <1>2
  <2> QED BY <1>3, <1>6, <1>7, <2>1, <2>2, <2>3
<1>8. ASSUME NEW j \in DOMAIN m PROVE \E i \in DOMAIN l : m[j] = l[i] /\ l[i].n # n
  <2>1. CASE j < p
    <3>1. m[j] = l[j] /\ j \in DOMAIN l /\ j # p
      BY <1>3, <1>5, <1>6, <2>1
    <3> QED BY <1>1, <3>1
  <2>2. CASE p <= j
    <3>1. m[j] = l[j + 1] /\ j + 1 \in DOMAIN l /\ j + 1 # p
      BY <1>3, <1>5, <1>6, <2>2
    <3> QED BY <1>1, <3>1
  <2> QED BY <1>3, <1>6, <2>1, <2>2
<1>9. ASSUME NEW i \in DOMAIN l, l[i].n # n PROVE \E j \in DOMAIN m : m[j] = l[i]
  <2>1. i # p
    BY <1>1, <1>9
  <2>2. CASE i < p
    BY <1>3, <1>5, <1>6, <2>2
  <2>3. CASE p < i
    <3>1. i - 1 \in DOMAIN m /\ i - 1 \in p .. Len(l) - 1 /\ (i - 1) + 1 = i
      BY <1>3, <1>6, <2>3
    <3> QED BY <1>5, <3>1
  <2> QED BY <1>3, <1>6, <2>1, <2>2, <2>3
<1> QED BY <1>5, <1>7, <1>8, <1>9 DEF Kept, l, m

-----------------------------------------------------------------------------
(* The callbacks: the stack.                                               *)

\* Two frames put on.
Twice(s, t, f, g) ==
  /\ DOMAIN t = 1 .. Len(s) + 2 /\ DOMAIN s = 1 .. Len(s) /\ Len(s) \in Nat
  /\ t[1] = f /\ t[2] = g
  /\ \A i \in DOMAIN s : i + 2 \in DOMAIN t /\ t[i + 2] = s[i]
  /\ \A i \in DOMAIN t : i > 2 => i - 2 \in DOMAIN s /\ t[i] = s[i - 2]

\* Two frames before a sequence.
LEMMA PutOnTwice ==
  ASSUME NEW S, NEW s \in Seq(S), NEW f \in S, NEW g \in S
  PROVE  <<f, g>> \o s \in Seq(S) /\ Twice(s, <<f, g>> \o s, f, g)
<1> DEFINE o == <<f, g>>
           t == o \o s
<1>1. o \in Seq(S) /\ Len(o) = 2 /\ o[1] = f /\ o[2] = g
  OBVIOUS
<1> HIDE DEF o
<1>2. /\ t \in Seq(S) /\ Len(t) = 2 + Len(s) /\ t[1] = f /\ t[2] = g
      /\ \A j \in 3 .. 2 + Len(s) : t[j] = s[j - 2]
  <2>1. /\ t \in Seq(S) /\ Len(t) = Len(o) + Len(s)
        /\ \A j \in 1 .. Len(o) : t[j] = o[j]
        /\ \A j \in Len(o) + 1 .. Len(o) + Len(s) : t[j] = s[j - Len(o)]
    BY <1>1, Joined
  <2> QED BY <1>1, <2>1
<1>3. Len(s) \in Nat /\ DOMAIN s = 1 .. Len(s) /\ DOMAIN t = 1 .. Len(t)
  BY <1>2
<1> HIDE DEF t
<1>4. \A i \in DOMAIN s : i + 2 \in 3 .. 2 + Len(s) /\ (i + 2) - 2 = i
  BY <1>3
<1>5. Twice(s, t, f, g)
  BY <1>2, <1>3, <1>4 DEF Twice
<1> QED BY <1>2, <1>5 DEF t, o

\* What the stack holds.
LEMMA StackParts ==
  ASSUME CallbacksTyped
  PROVE  /\ stack \in Seq(Frame) /\ DOMAIN stack = 1 .. Len(stack) /\ Len(stack) \in Nat
         /\ \A i \in DOMAIN stack : stack[i] \in Frame
         /\ stack # <<>> => 1 \in DOMAIN stack /\ Head(stack) = stack[1]
         /\ stack = <<>> => DOMAIN stack = {}
BY DEF CallbacksTyped

\* A run begins at the first of the list.
LEMMA RunIs ==
  ASSUME CallbacksTyped
  PROVE  ToRun \in Frame /\ ToRun.at = "run" /\ ToRun.item = First(callbacks)
BY FirstIs, FramesMade DEF ToRun

\* While a program's code runs no run is under way but those that it was called
\* by, and a termination being followed is under one of those.
LEMMA RunningMeans ==
  ASSUME CallbacksTyped, Nested, Running
  PROVE  /\ \A i \in DOMAIN stack : stack[i].at # "run"
         /\ \A i \in DOMAIN stack : Follows(stack[i]) => UnderWay
         /\ stack # <<>> => stack[1].at \in {"wait", "called", "told"}
<1>1. stack # <<>> => stack[1].at \in {"wait", "called", "told"}
  BY StackParts DEF Running, Dispatching, Top
<1>2. \A i \in DOMAIN stack : stack[i].at # "run"
  BY <1>1, StackParts DEF Nested
<1>3. ASSUME NEW i \in DOMAIN stack, Follows(stack[i]) PROVE UnderWay
  <2>1. CASE stack[i].at = "told"
    BY <2>1 DEF UnderWay
  <2>2. CASE stack[i].at = "end"
    <3>1. i > 1 /\ i - 1 \in DOMAIN stack
      BY <1>1, <2>2, StackParts
    <3>2. stack[i - 1].at = "called"
      BY <1>2, <2>2, <3>1 DEF Nested
    <3> QED BY <3>1, <3>2 DEF UnderWay
  <2> QED BY <1>3, <2>1, <2>2 DEF Follows
<1> QED BY <1>1, <1>2, <1>3

\* Where messages are dispatched the uppermost frame, if any, is a wait.
LEMMA DispatchingMeans ==
  ASSUME CallbacksTyped, Dispatching
  PROVE  Running /\ (stack # <<>> => stack[1].at = "wait")
BY StackParts DEF Running, Dispatching, Top

\* What each step makes of the stack.
RunPut == Over(stack, stack', ToRun) /\ Running
NewFrame(f) == InPlace(stack, stack', f)

\* A message 4CCh puts a run on the stack.
LEMMA DispatchRunStack ==
  ASSUME CallbacksTyped, DispatchRun
  PROVE  stack' \in Seq(Frame) /\ Over(stack, stack', ToRun) /\ Dispatching
BY RunIs, PutOn DEF DispatchRun, CallbacksTyped

\* So does an unblocking, where no callback is under way.
LEMMA EnableStack ==
  ASSUME CallbacksTyped, NEW C, NEW command, EnableCallback(C, command)
  PROVE  /\ Running
         /\ \/ stack' = stack /\ ("blocked" \in command \/ ("enabled" \in misused' /\ refused'))
            \/ stack' \in Seq(Frame) /\ Over(stack, stack', ToRun) /\ ~UnderWay
<1>1. stack \in Seq(Frame) /\ ToRun \in Frame
  BY RunIs DEF CallbacksTyped
<1>2. /\ Running
      /\ \/ stack' = stack /\ ("blocked" \in command \/ ("enabled" \in misused' /\ refused'))
         \/ stack' = <<ToRun>> \o stack /\ ~UnderWay
  BY DEF EnableCallback
<1>3. <<ToRun>> \o stack \in Seq(Frame) /\ Over(stack, <<ToRun>> \o stack, ToRun)
  BY <1>1, PutOn
<1> QED BY <1>2, <1>3

\* A transaction waited for puts a wait on.
LEMMA WaitForStack ==
  ASSUME CallbacksTyped, NEW c \in Conv, WaitFor(c)
  PROVE  /\ stack' \in Seq(Frame) /\ Over(stack, stack', [at |-> "wait", conv |-> c])
         /\ Running
BY FramesMade, PutOn DEF WaitFor, CallbacksTyped

\* The partner's termination followed puts a run over the end it goes before.
LEMMA TerminateStack ==
  ASSUME CallbacksTyped, NEW c \in Conv, DispatchTerminate(c)
  PROVE  /\ Dispatching
         /\ \/ stack' = stack /\ refused' = refused
            \/ /\ stack' \in Seq(Frame) /\ Twice(stack, stack', ToRun, [at |-> "end", conv |-> c])
               /\ ~Later(c) /\ "connected" \in status[c] /\ c \in coming
               /\ coming' = coming \ {c}
<1> DEFINE f == [at |-> "end", conv |-> c]
           s == <<ToRun, f>> \o stack
<1>1. stack \in Seq(Frame) /\ ToRun \in Frame /\ f \in Frame
  BY RunIs, FramesMade DEF CallbacksTyped
<1>2. /\ Dispatching
      /\ \/ stack' = stack /\ refused' = refused
         \/ /\ stack' = s
            /\ ~Later(c) /\ "connected" \in status[c] /\ c \in coming
            /\ coming' = coming \ {c}
  BY DEF DispatchTerminate
<1> HIDE DEF f
<1>3. s \in Seq(Frame) /\ Twice(stack, s, ToRun, f)
  BY <1>1, PutOnTwice
<1> HIDE DEF s
<1> QED BY <1>2, <1>3 DEF f

\* What is over is taken off.
LEMMA TakenOffStack ==
  ASSUME CallbacksTyped, RunDone \/ WaitDone \/ EndTold
  PROVE  stack' \in Seq(Frame) /\ Under(stack, stack')
<1>1. stack # <<>> /\ stack' = Tail(stack)
  BY DEF RunDone, WaitDone, EndTold, Top
<1> QED BY <1>1, TakenOff DEF CallbacksTyped

\* A run goes on to the next callback, or calls the one it is at.
LEMMA RunNextStack ==
  ASSUME CallbacksTyped, Listed, RunNext
  PROVE  LET n == stack[1].item
             next == NextAfter(n)
             called == [at |-> "called", item |-> n, next |-> next]
             on == [at |-> "run", item |-> next, next |-> 0]
         IN /\ 1 \in DOMAIN stack /\ stack[1].at = "run" /\ n # 0 /\ In(n) /\ ~UnderWay
            /\ stack' \in Seq(Frame)
            /\ \/ InPlace(stack, stack', on)
               \/ InPlace(stack, stack', called)
<1> DEFINE n == stack[1].item
           next == NextAfter(n)
<1>1. stack # <<>> /\ 1 \in DOMAIN stack /\ Head(stack) = stack[1] /\ stack[1].at = "run"
  BY StackParts DEF RunNext, Top
<1>2. n # 0 /\ ~UnderWay /\ In(n)
  BY <1>1 DEF RunNext, AtEnd, Listed
<1>3. next \in Serial \cup {0} /\ n \in Serial \cup {0}
  BY <1>2, NextIs, PlaceIs
<1>4. \/ stack' = <<[at |-> "run", item |-> next, next |-> 0]>> \o Tail(stack)
      \/ stack' = <<[at |-> "called", item |-> n, next |-> next]>> \o Tail(stack)
  BY <1>1 DEF RunNext
<1> HIDE DEF n, next
<1>5. /\ [at |-> "run", item |-> next, next |-> 0] \in Frame
      /\ [at |-> "called", item |-> n, next |-> next] \in Frame
  BY <1>3, FramesMade
<1>6. /\ stack' \in Seq(Frame)
      /\ \/ InPlace(stack, stack', [at |-> "run", item |-> next, next |-> 0])
         \/ InPlace(stack, stack', [at |-> "called", item |-> n, next |-> next])
  <2>1. stack \in Seq(Frame)
    BY DEF CallbacksTyped
  <2>2. \A f \in Frame : /\ <<f>> \o Tail(stack) \in Seq(Frame)
                         /\ InPlace(stack, <<f>> \o Tail(stack), f)
    BY <1>1, <2>1, PutInPlace
  <2> QED BY <1>4, <1>5, <2>2
<1> QED BY <1>1, <1>2, <1>6 DEF n, next

\* A callback that returns becomes the run it was called by.
LEMMA ReturnsStack ==
  ASSUME CallbacksTyped, Listed, NEW block \in BOOLEAN, CallbackReturns(block)
  PROVE  /\ 1 \in DOMAIN stack /\ stack[1].at = "called" /\ In(stack[1].item)
         /\ stack' \in Seq(Frame)
         /\ InPlace(stack, stack', [at |-> "run", item |-> stack[1].next, next |-> 0])
<1>1. /\ stack # <<>> /\ 1 \in DOMAIN stack /\ Head(stack) = stack[1]
      /\ stack[1].at = "called" /\ stack[1] \in Frame
  BY StackParts DEF CallbackReturns, Top
<1>2. In(stack[1].item)
  BY <1>1 DEF Listed
<1>3. stack[1].next \in Serial \cup {0}
  BY <1>1, FrameParts
<1>4. stack' = <<[at |-> "run", item |-> stack[1].next, next |-> 0]>> \o Tail(stack)
  BY <1>1 DEF CallbackReturns
<1> DEFINE f == [at |-> "run", item |-> stack[1].next, next |-> 0]
<1>5. f \in Frame
  BY <1>3, FramesMade
<1> HIDE DEF f
<1>6. stack' \in Seq(Frame) /\ InPlace(stack, stack', f)
  <2>1. stack' = <<f>> \o Tail(stack)
    BY <1>4 DEF f
  <2> QED BY <1>1, <1>5, <2>1, PutInPlace DEF CallbacksTyped
<1> QED BY <1>1, <1>2, <1>6 DEF f

\* An end goes on to be told.
LEMMA TellStack ==
  ASSUME CallbacksTyped, TellEnd
  PROVE  /\ 1 \in DOMAIN stack /\ stack[1].at = "end" /\ stack[1].conv \in Conv
         /\ stack' \in Seq(Frame)
         /\ InPlace(stack, stack', [at |-> "told", conv |-> stack[1].conv])
<1>1. /\ stack # <<>> /\ 1 \in DOMAIN stack /\ Head(stack) = stack[1]
      /\ stack[1].at = "end" /\ stack[1] \in Frame
  BY StackParts DEF TellEnd, Top
<1>2. stack[1].conv \in Conv
  BY <1>1, FrameParts
<1> DEFINE f == [at |-> "told", conv |-> stack[1].conv]
<1>3. stack' = <<f>> \o Tail(stack)
  BY <1>1 DEF TellEnd
<1>4. f \in Frame
  BY <1>2, FramesMade
<1> HIDE DEF f
<1>5. stack' \in Seq(Frame) /\ InPlace(stack, stack', f)
  BY <1>1, <1>3, <1>4, PutInPlace DEF CallbacksTyped
<1> QED BY <1>1, <1>2, <1>5 DEF f

-----------------------------------------------------------------------------
(* The callbacks: types.                                                   *)

\* What the list becomes: one more, or one less, or as it was.
Arrived(c) ==
  /\ callbacks' = Append(callbacks, [conv |-> c, n |-> came + 1])
  /\ came' = came + 1 /\ came < MaxCallbacks

\* One that comes in is the last of the list.
LEMMA ArriveList ==
  ASSUME CallbacksTyped, ArrivedOnce, NEW c \in Conv, Arrived(c)
  PROVE  /\ callbacks' \in Seq(Callback)
         /\ \A i, j \in DOMAIN callbacks' : i < j => callbacks'[i].n < callbacks'[j].n
         /\ \A i \in DOMAIN callbacks : i \in DOMAIN callbacks' /\ callbacks'[i] = callbacks[i]
         /\ \A j \in DOMAIN callbacks' :
              \/ j \in DOMAIN callbacks /\ callbacks'[j] = callbacks[j]
              \/ callbacks'[j].conv = c /\ callbacks'[j].n = came + 1
<1> DEFINE x == [conv |-> c, n |-> came + 1]
<1>1. came + 1 \in Serial /\ came \in Nat
  BY CallbacksAssumption DEF Arrived, CallbacksTyped, Serial
<1>2. x \in Callback /\ x.conv = c /\ x.n = came + 1
  BY <1>1 DEF Callback
<1>3. callbacks' = Append(callbacks, x)
  BY DEF Arrived
<1> HIDE DEF x
<1>4. callbacks \in Seq(Callback)
  BY DEF CallbacksTyped
<1>5. /\ callbacks' \in Seq(Callback)
      /\ DOMAIN callbacks' = 1 .. Len(callbacks) + 1
      /\ \A j \in 1 .. Len(callbacks) : callbacks'[j] = callbacks[j]
      /\ callbacks'[Len(callbacks) + 1] = x
      /\ Len(callbacks) \in Nat /\ DOMAIN callbacks = 1 .. Len(callbacks)
  BY <1>2, <1>3, <1>4, AppendParts
<1>6. \A i \in DOMAIN callbacks : i \in DOMAIN callbacks' /\ callbacks'[i] = callbacks[i]
  BY <1>5
<1>7. \A j \in DOMAIN callbacks' : \/ j \in DOMAIN callbacks /\ callbacks'[j] = callbacks[j]
                                   \/ j = Len(callbacks) + 1 /\ callbacks'[j] = x
  BY <1>5
<1>8. ASSUME NEW i \in DOMAIN callbacks', NEW j \in DOMAIN callbacks', i < j
      PROVE  callbacks'[i].n < callbacks'[j].n
  <2>1. i \in DOMAIN callbacks /\ callbacks'[i] = callbacks[i]
    BY <1>5, <1>7, <1>8
  <2>2. CASE j \in DOMAIN callbacks /\ callbacks'[j] = callbacks[j]
    BY <1>8, <2>1, <2>2 DEF CallbacksTyped
  <2>3. CASE callbacks'[j] = x
    <3>1. callbacks[i].n <= came /\ callbacks[i].n \in Nat
      BY <2>1, ListParts DEF ArrivedOnce
    <3> QED BY <1>1, <1>2, <2>1, <2>3, <3>1
  <2> QED BY <1>7, <2>2, <2>3
<1> QED BY <1>2, <1>5, <1>6, <1>7, <1>8

ListIs(l) == l \in Seq(Callback) /\ \A i, j \in DOMAIN l : i < j => l[i].n < l[j].n

\* The list stays of its type and in order, whatever is done.
LEMMA ListTyped ==
  ASSUME CallbacksTyped, ArrivedOnce, Listed, CallbacksNext
  PROVE  ListIs(callbacks')
<1>1. CASE callbacks' = callbacks
  BY <1>1 DEF CallbacksTyped, ListIs
<1>2. ASSUME NEW c \in Conv, Arrived(c) PROVE ListIs(callbacks')
  BY <1>2, ArriveList DEF ListIs
<1>3. ASSUME NEW n, In(n), callbacks' = LeftWithout(n) PROVE ListIs(callbacks')
  BY <1>3, WithoutIs DEF ListIs
<1>4. CASE RunNext
  <2>1. stack # <<>> /\ Head(stack) = stack[1] /\ In(stack[1].item)
    BY <1>4, RunNextStack, StackParts DEF RunNext, Top
  <2>2. callbacks' = callbacks \/ callbacks' = LeftWithout(stack[1].item)
    BY <1>4, <2>1 DEF RunNext
  <2> QED BY <1>1, <1>3, <2>1, <2>2
<1>5. ASSUME NEW block \in BOOLEAN, CallbackReturns(block) PROVE ListIs(callbacks')
  <2>1. stack # <<>> /\ Head(stack) = stack[1] /\ In(stack[1].item)
    BY <1>5, ReturnsStack, StackParts DEF CallbackReturns, Top
  <2>2. callbacks' = callbacks \/ callbacks' = LeftWithout(stack[1].item)
    BY <1>5, <2>1 DEF CallbackReturns
  <2> QED BY <1>1, <1>3, <2>1, <2>2
<1>6. \/ callbacks' = callbacks \/ RunNext
      \/ \E c \in Conv : Arrived(c)
      \/ \E block \in BOOLEAN : CallbackReturns(block)
  BY DEF CallbacksNext, DispatchRun, RunDone, EnableCallback, WaitOver, WaitDone, TellEnd,
         EndTold, Arrive, WaitFor, Disconnect, DispatchEnding, DispatchTerminate,
         PartnerEnds, PartnerGone, Arrived
<1> QED BY <1>1, <1>2, <1>4, <1>5, <1>6

\* The stack stays of its type.
LEMMA StackTyped ==
  ASSUME CallbacksTyped, Listed, CallbacksNext
  PROVE  stack' \in Seq(Frame)
<1>1. CASE stack' = stack
  BY <1>1 DEF CallbacksTyped
<1>2. CASE DispatchRun
  BY <1>2, DispatchRunStack
<1>3. ASSUME NEW C, NEW command, EnableCallback(C, command) PROVE stack' \in Seq(Frame)
  BY <1>1, <1>3, EnableStack
<1>4. ASSUME NEW c \in Conv, WaitFor(c) PROVE stack' \in Seq(Frame)
  BY <1>4, WaitForStack
<1>5. ASSUME NEW c \in Conv, DispatchTerminate(c) PROVE stack' \in Seq(Frame)
  BY <1>1, <1>5, TerminateStack
<1>6. CASE RunDone \/ WaitDone \/ EndTold
  BY <1>6, TakenOffStack
<1>7. CASE RunNext
  BY <1>7, RunNextStack
<1>8. ASSUME NEW block \in BOOLEAN, CallbackReturns(block) PROVE stack' \in Seq(Frame)
  BY <1>8, ReturnsStack
<1>9. CASE TellEnd
  BY <1>9, TellStack
<1>10. \A c \in Conv : Arrive(c) \/ Disconnect(c) \/ DispatchEnding(c) \/ PartnerEnds(c)
                         \/ PartnerGone(c) => stack' = stack
  BY DEF Arrive, Disconnect, DispatchEnding, PartnerEnds, PartnerGone
<1>11. WaitOver => stack' = stack
  BY DEF WaitOver
<1>12. Ends \subseteq Conv
  BY CallbacksAssumption
<1> QED BY <1>1, <1>2, <1>3, <1>4, <1>5, <1>6, <1>7, <1>8, <1>9, <1>10, <1>11, <1>12
        DEF CallbacksNext

\* The flags stay flags.
LEMMA FlagsTyped ==
  ASSUME CallbacksTyped, Listed, CallbacksNext
  PROVE  status' \in [Conv -> SUBSET Flag]
<1>1. status \in [Conv -> SUBSET Flag]
  BY DEF CallbacksTyped
<1>2. CASE status' = status
  BY <1>1, <1>2
<1>3. ASSUME NEW c \in Conv, NEW s \in SUBSET Flag, status' = [status EXCEPT ![c] = s]
      PROVE  status' \in [Conv -> SUBSET Flag]
  BY <1>1, <1>3
<1>4. \A s, f \in SUBSET Flag : Xor(s, f) \in SUBSET Flag
  BY DEF Xor
<1>5. \A c \in Conv : status[c] \in SUBSET Flag /\ Terminated(c) \in SUBSET Flag
  BY <1>1, <1>4 DEF Terminated, Flag
<1>6. ASSUME NEW C, NEW command \in {{}, {"blocked"}, {"single"}}, EnableCallback(C, command)
      PROVE  status' \in [Conv -> SUBSET Flag]
  BY <1>1, <1>6 DEF EnableCallback, Flag
<1>7. ASSUME NEW c \in Conv, Disconnect(c) \/ DispatchEnding(c)
      PROVE  status' \in [Conv -> SUBSET Flag]
  BY <1>2, <1>3, <1>5, <1>7 DEF Disconnect, DispatchEnding, Terminate
<1>8. ASSUME NEW c \in Conv, DispatchTerminate(c)
      PROVE  status' \in [Conv -> SUBSET Flag]
  <2>1. /\ Xor(status[c], {"awaited", "terminated"}) \in SUBSET Flag
        /\ status[c] \in SUBSET Flag
    BY <1>4, <1>5 DEF Flag
  <2> QED BY <1>2, <1>3, <1>8, <2>1 DEF DispatchTerminate
<1>9. ASSUME RunNext PROVE status' \in [Conv -> SUBSET Flag]
  <2> DEFINE c == Waiting(stack[1].item).conv
  <2>1. stack # <<>> /\ Head(stack) = stack[1] /\ In(stack[1].item)
    BY <1>9, RunNextStack, StackParts DEF RunNext, Top
  <2>2. c \in Conv
    BY <2>1, PlaceIs
  <2>3. status' = status \/ status' = [status EXCEPT ![c] = (@ \cup {"blocked"}) \ {"single"}]
    BY <1>9, <2>1 DEF RunNext
  <2> HIDE DEF c
  <2> QED BY <1>1, <2>2, <2>3 DEF Flag
<1>10. ASSUME NEW block \in BOOLEAN, CallbackReturns(block)
       PROVE  status' \in [Conv -> SUBSET Flag]
  <2> DEFINE c == Waiting(stack[1].item).conv
  <2>1. stack # <<>> /\ Head(stack) = stack[1] /\ In(stack[1].item)
    BY <1>10, ReturnsStack, StackParts DEF CallbackReturns, Top
  <2>2. c \in Conv
    BY <2>1, PlaceIs
  <2>3. status' = status \/ status' = [status EXCEPT ![c] = Blocked(@)]
    BY <1>10, <2>1 DEF CallbackReturns
  <2> HIDE DEF c
  <2> QED BY <1>1, <2>2, <2>3 DEF Flag, Blocked
<1>11. CASE TellEnd
  <2> DEFINE c == stack[1].conv
  <2>1. c \in Conv /\ status' = [status EXCEPT ![c] = Xor(@, {"connected", "terminated", "destroy"})]
    BY <1>11, TellStack, StackParts DEF TellEnd, Top
  <2> HIDE DEF c
  <2> QED BY <1>1, <2>1 DEF Xor, Flag
<1>12. \A c \in Conv : Arrive(c) \/ WaitFor(c) \/ PartnerEnds(c) \/ PartnerGone(c) => status' = status
  BY DEF Arrive, WaitFor, PartnerEnds, PartnerGone, convs
<1>13. DispatchRun \/ RunDone \/ WaitOver \/ WaitDone \/ EndTold => status' = status
  BY DEF DispatchRun, RunDone, WaitOver, WaitDone, EndTold, convs
<1>14. Ends \subseteq Conv
  BY CallbacksAssumption
<1> QED BY <1>2, <1>6, <1>7, <1>8, <1>9, <1>10, <1>11, <1>12, <1>13, <1>14 DEF CallbacksNext

\* So do the rest but the flags and the history of what was made.
LEMMA OthersTyped ==
  ASSUME CallbacksTyped, Listed, CallbacksNext
  PROVE  /\ windows' \subseteq windows
         /\ waited' \in Conv \cup {NoConv} /\ looped' \in BOOLEAN
         /\ runs' \in 0 .. Room
         /\ endings' \subseteq Conv /\ coming' \subseteq Conv
         /\ partner' \in [Conv -> {"open", "ended", "gone"}]
         /\ came' \in 0 .. MaxCallbacks
         /\ misused' \subseteq {"enabled", "ended"}
<1> DEFINE Goal ==
         /\ windows' \subseteq windows
         /\ waited' \in Conv \cup {NoConv} /\ looped' \in BOOLEAN
         /\ runs' \in 0 .. Room
         /\ endings' \subseteq Conv /\ coming' \subseteq Conv
         /\ partner' \in [Conv -> {"open", "ended", "gone"}]
         /\ came' \in 0 .. MaxCallbacks
         /\ misused' \subseteq {"enabled", "ended"}
<1>1. /\ windows \subseteq Conv /\ waited \in Conv \cup {NoConv} /\ looped \in BOOLEAN
      /\ runs \in 0 .. Room /\ endings \subseteq Conv /\ coming \subseteq Conv
      /\ partner \in [Conv -> {"open", "ended", "gone"}] /\ came \in 0 .. MaxCallbacks
      /\ misused \subseteq {"enabled", "ended"} /\ Room \in Nat /\ MaxCallbacks \in Nat
  BY CallbacksAssumption DEF CallbacksTyped
<1>2. CASE DispatchRun
  BY <1>1, <1>2 DEF DispatchRun, convs
<1>3. CASE RunDone \/ WaitOver \/ EndTold \/ TellEnd \/ RunNext
  BY <1>1, <1>3 DEF RunDone, WaitOver, EndTold, TellEnd, RunNext, convs, GoneWindow
<1>4. ASSUME NEW block \in BOOLEAN, CallbackReturns(block) PROVE Goal
  BY <1>1, <1>4 DEF CallbackReturns
<1>5. ASSUME NEW C, NEW command, EnableCallback(C, command) PROVE Goal
  BY <1>1, <1>5 DEF EnableCallback
<1>12. PostRun => runs' \in 0 .. Room
  BY <1>1 DEF PostRun
<1>6. CASE WaitDone
  BY <1>1, <1>6, <1>12 DEF WaitDone, PostAfterWait, convs
<1>13. came < MaxCallbacks /\ came' = came + 1 => came' \in 0 .. MaxCallbacks
  BY <1>1
<1>7. ASSUME NEW c \in Conv, Arrive(c) \/ WaitFor(c) PROVE Goal
  BY <1>1, <1>7, <1>12, <1>13 DEF Arrive, WaitFor, convs
<1>8. ASSUME NEW c \in Conv, Disconnect(c) \/ DispatchEnding(c) PROVE Goal
  BY <1>1, <1>8 DEF Disconnect, DispatchEnding, Terminate, Later
<1>9. ASSUME NEW c \in Conv, DispatchTerminate(c) PROVE Goal
  BY <1>1, <1>9 DEF DispatchTerminate
<1>10. ASSUME NEW c \in Conv, PartnerEnds(c) \/ PartnerGone(c) PROVE Goal
  BY <1>1, <1>10 DEF PartnerEnds, PartnerGone
<1>11. Ends \subseteq Conv
  BY CallbacksAssumption
<1> QED BY <1>2, <1>3, <1>4, <1>5, <1>6, <1>7, <1>8, <1>9, <1>10, <1>11 DEF CallbacksNext

\* And the history of refusals.
LEMMA RefusedTyped ==
  ASSUME CallbacksTyped, CallbacksNext
  PROVE  refused' \in BOOLEAN
<1>1. refused \in BOOLEAN
  BY DEF CallbacksTyped
<1>2. refused' = refused \/ refused' = TRUE \/ RunBegins
  BY DEF CallbacksNext, DispatchRun, RunDone, RunNext, CallbackReturns, EnableCallback, WaitOver,
         WaitDone, TellEnd, EndTold, Arrive, WaitFor, Disconnect, DispatchEnding,
         DispatchTerminate, PartnerEnds, PartnerGone, PostAfterWait, PostRun
<1> QED BY <1>1, <1>2 DEF RunBegins

\* And that of what was made.
LEMMA MadeTyped ==
  ASSUME CallbacksTyped, Listed, CallbacksNext
  PROVE  made' \in [Conv -> Serial \cup {0}]
<1>1. made \in [Conv -> Serial \cup {0}] /\ Ends \subseteq Conv
  BY CallbacksAssumption DEF CallbacksTyped
<1>2. CASE made' = made
  BY <1>1, <1>2
<1>3. CASE RunNext
  <2>1. stack # <<>> /\ Head(stack) = stack[1] /\ In(stack[1].item)
    BY <1>3, RunNextStack, StackParts DEF RunNext, Top
  <2>2. \/ made' = made
        \/ made' = [made EXCEPT ![Waiting(stack[1].item).conv] = stack[1].item]
    BY <1>3, <2>1 DEF RunNext
  <2>3. stack[1].item \in Serial
    BY <2>1, PlaceIs
  <2> QED BY <1>1, <2>2, <2>3
<1>4. \/ made' = made \/ RunNext
  BY DEF CallbacksNext, DispatchRun, RunDone, EnableCallback, WaitOver, WaitDone, TellEnd,
         EndTold, Arrive, WaitFor, Disconnect, DispatchEnding, DispatchTerminate,
         PartnerEnds, PartnerGone, CallbackReturns
<1> QED BY <1>2, <1>3, <1>4

\* Every step keeps the types.
LEMMA TypedKept ==
  ASSUME CallbacksTyped, ArrivedOnce, Listed, CallbacksNext
  PROVE  CallbacksTyped'
<1>1. windows \subseteq Conv
  BY DEF CallbacksTyped
<1> QED BY <1>1, ListTyped, StackTyped, FlagsTyped, OthersTyped, MadeTyped, RefusedTyped
        DEF CallbacksTyped, ListIs

-----------------------------------------------------------------------------
(* The callbacks: the ways the stack changes.                              *)

RunOn == /\ Over(stack, stack', ToRun) /\ ToRun.at = "run" /\ waited' = waited
         /\ Running /\ (Dispatching \/ ~UnderWay)
WaitOn(c) == /\ Over(stack, stack', [at |-> "wait", conv |-> c])
             /\ Running /\ waited = NoConv /\ waited' = c
EndOn(c) == /\ Twice(stack, stack', ToRun, [at |-> "end", conv |-> c]) /\ ToRun.at = "run"
            /\ Dispatching /\ waited # c /\ c \in coming /\ coming' = coming \ {c}
            /\ waited' = waited
Off(at) == /\ Under(stack, stack') /\ stack[1].at = at
           /\ waited' = IF at = "wait" THEN NoConv ELSE waited
Onward(f) == /\ InPlace(stack, stack', f) /\ waited' = waited
             /\ \/ stack[1].at = "run" /\ ~UnderWay /\ f.at \in {"run", "called"}
                \/ stack[1].at = "called" /\ f.at = "run"
Telling == /\ InPlace(stack, stack', [at |-> "told", conv |-> stack[1].conv])
           /\ stack[1].at = "end" /\ waited' = waited

\* Which frames are taken off.
LEMMA OffCases ==
  ASSUME CallbacksTyped
  PROVE  /\ RunDone => Off("run")
         /\ WaitDone => Off("wait")
         /\ EndTold => Off("told")
<1>1. RunDone \/ WaitDone \/ EndTold => Under(stack, stack')
  BY TakenOffStack
<1>2. \A at : Top(at) => stack[1].at = at
  BY StackParts DEF Top
<1> QED BY <1>1, <1>2 DEF RunDone, WaitDone, EndTold, Off

\* Each step does one of a few things to the stack.
LEMMA StackStep ==
  ASSUME CallbacksTyped, Listed, CallbacksNext
  PROVE  \/ stack' = stack /\ waited' = waited
         \/ RunOn
         \/ \E c \in Conv : WaitOn(c) \/ EndOn(c)
         \/ \E at \in {"run", "wait", "told"} : Off(at)
         \/ /\ RunNext \/ \E block \in BOOLEAN : CallbackReturns(block)
            /\ \E f \in Frame : Onward(f)
         \/ Telling
<1> DEFINE Goal ==
         \/ stack' = stack /\ waited' = waited
         \/ RunOn
         \/ \E c \in Conv : WaitOn(c) \/ EndOn(c)
         \/ \E at \in {"run", "wait", "told"} : Off(at)
         \/ /\ RunNext \/ \E block \in BOOLEAN : CallbackReturns(block)
            /\ \E f \in Frame : Onward(f)
         \/ Telling
<1> SUFFICES Goal
  OBVIOUS
<1>1. CASE DispatchRun
  <2>1. Running /\ Dispatching /\ waited' = waited
    BY <1>1, DispatchingMeans DEF DispatchRun
  <2> QED BY <1>1, <2>1, DispatchRunStack, RunIs DEF RunOn
<1>2. ASSUME NEW C, NEW command, EnableCallback(C, command) PROVE Goal
  <2>1. waited' = waited
    BY <1>2 DEF EnableCallback
  <2> QED BY <1>2, <2>1, EnableStack, RunIs DEF RunOn
<1>3. ASSUME NEW c \in Conv, WaitFor(c) PROVE Goal
  <2>1. waited = NoConv /\ waited' = c
    BY <1>3 DEF WaitFor, MayWait
  <2>2. WaitOn(c)
    BY <1>3, <2>1, WaitForStack DEF WaitOn
  <2> QED BY <2>2
<1>4. ASSUME NEW c \in Conv, DispatchTerminate(c) PROVE Goal
  <2>1. waited' = waited
    BY <1>4 DEF DispatchTerminate
  <2>2. stack' = stack \/ EndOn(c)
    BY <1>4, <2>1, TerminateStack, RunIs DEF EndOn, Later
  <2> QED BY <2>1, <2>2
<1>5. CASE RunDone \/ WaitDone \/ EndTold
  <2>1. Off("run") \/ Off("wait") \/ Off("told")
    BY <1>5, OffCases
  <2> QED BY <2>1
<1>6. CASE RunNext
  <2> DEFINE on == [at |-> "run", item |-> NextAfter(stack[1].item), next |-> 0]
             called == [at |-> "called", item |-> stack[1].item, next |-> NextAfter(stack[1].item)]
  <2>1. stack[1].at = "run" /\ ~UnderWay /\ waited' = waited
    BY <1>6, RunNextStack DEF RunNext
  <2>2. InPlace(stack, stack', on) \/ InPlace(stack, stack', called)
    BY <1>6, RunNextStack
  <2>3. on.at = "run" /\ called.at = "called"
    OBVIOUS
  <2>4. on \in Frame /\ called \in Frame
    <3>1. In(stack[1].item)
      BY <1>6, RunNextStack
    <3>2. stack[1].item \in Serial /\ NextAfter(stack[1].item) \in Serial \cup {0}
      BY <3>1, PlaceIs, NextIs
    <3> QED BY <3>2, FramesMade
  <2> HIDE DEF on, called
  <2>5. \E f \in Frame : Onward(f)
    BY <2>1, <2>2, <2>3, <2>4 DEF Onward
  <2> QED BY <1>6, <2>5
<1>7. ASSUME NEW block \in BOOLEAN, CallbackReturns(block) PROVE Goal
  <2> DEFINE on == [at |-> "run", item |-> stack[1].next, next |-> 0]
  <2>1. stack[1].at = "called" /\ InPlace(stack, stack', on) /\ stack[1] \in Frame
    BY <1>7, ReturnsStack, StackParts
  <2>2. waited' = waited
    BY <1>7 DEF CallbackReturns
  <2>3. on.at = "run" /\ on \in Frame
    BY <2>1, FrameParts, FramesMade
  <2> HIDE DEF on
  <2>4. \E f \in Frame : Onward(f)
    BY <2>1, <2>2, <2>3 DEF Onward
  <2> QED BY <1>7, <2>4
<1>8. CASE TellEnd
  <2>1. waited' = waited
    BY <1>8 DEF TellEnd
  <2> QED BY <1>8, <2>1, TellStack DEF Telling
<1>9. \A c \in Conv : Arrive(c) \/ Disconnect(c) \/ DispatchEnding(c) \/ PartnerEnds(c)
                         \/ PartnerGone(c) => stack' = stack /\ waited' = waited
  BY DEF Arrive, Disconnect, DispatchEnding, PartnerEnds, PartnerGone
<1>10. WaitOver => stack' = stack /\ waited' = waited
  BY DEF WaitOver
<1>11. Ends \subseteq Conv
  BY CallbacksAssumption
<1>12. stack' = stack /\ waited' = waited => Goal
  OBVIOUS
<1> HIDE DEF Goal
<1> QED BY <1>1, <1>2, <1>3, <1>4, <1>5, <1>6, <1>7, <1>8, <1>9, <1>10, <1>11, <1>12
        DEF CallbacksNext

\* Every step keeps what is over what on the stack.
LEMMA NestedKept ==
  ASSUME CallbacksTyped, Listed, Nested, CallbacksNext
  PROVE  Nested'
<1>1. CASE stack' = stack
  BY <1>1 DEF Nested, Makes
<1>2. ASSUME NEW f, Over(stack, stack', f), f.at \in {"run", "wait"}, Running PROVE Nested'
  <2>1. /\ \A i \in DOMAIN stack : stack[i].at # "run"
        /\ stack # <<>> => stack[1].at \in {"wait", "called", "told"}
    BY <1>2, RunningMeans
  <2>2. /\ DOMAIN stack' = 1 .. Len(stack) + 1 /\ Len(stack) \in Nat
        /\ stack'[1] = f
        /\ \A i \in DOMAIN stack' : i # 1 => i - 1 \in DOMAIN stack /\ stack'[i] = stack[i - 1]
        /\ DOMAIN stack = 1 .. Len(stack)
    BY <1>2 DEF Over
  <2>3. ASSUME NEW i \in DOMAIN stack' PROVE stack'[i].at = "run" => i = 1
    BY <2>1, <2>2
  <2>4. ASSUME NEW i \in DOMAIN stack', stack'[i].at = "end", i > 1
        PROVE  stack'[i - 1].at \in {"run", "called"}
    <3>1. i - 1 \in DOMAIN stack /\ stack[i - 1].at = "end" /\ i - 1 \in DOMAIN stack'
      BY <2>2, <2>4
    <3>2. i - 1 > 1
      <4>1. stack # <<>>
        BY <3>1, StackParts
      <4>2. i - 1 # 1
        BY <2>1, <3>1, <4>1
      <4> QED BY <2>2, <3>1, <4>2
    <3>3. stack[(i - 1) - 1].at \in {"run", "called"}
      BY <3>1, <3>2 DEF Nested
    <3>4. i - 1 # 1 /\ stack'[i - 1] = stack[(i - 1) - 1]
      BY <2>2, <3>1, <3>2
    <3> QED BY <3>3, <3>4
  <2>5. ASSUME NEW i \in DOMAIN stack', NEW j \in DOMAIN stack', i < j, stack'[i].at = "called"
        PROVE  ~Makes(stack'[j])
    <3>1. i # 1 /\ j # 1
      BY <1>2, <2>2, <2>5
    <3>2. /\ i - 1 \in DOMAIN stack /\ stack'[i] = stack[i - 1]
          /\ j - 1 \in DOMAIN stack /\ stack'[j] = stack[j - 1] /\ i - 1 < j - 1
      BY <2>2, <2>5, <3>1
    <3> QED BY <2>5, <3>2 DEF Nested
  <2> QED BY <2>3, <2>4, <2>5 DEF Nested, Makes
<1>3. ASSUME NEW c \in Conv, WaitOn(c) PROVE Nested'
  <2> DEFINE f == [at |-> "wait", conv |-> c]
  <2>1. f.at = "wait"
    OBVIOUS
  <2> HIDE DEF f
  <2> QED BY <1>2, <1>3, <2>1 DEF WaitOn, f
<1>4. ASSUME NEW c \in Conv, EndOn(c) PROVE Nested'
  <2> DEFINE f == [at |-> "end", conv |-> c]
  <2>1. f.at = "end"
    OBVIOUS
  <2>2. /\ DOMAIN stack' = 1 .. Len(stack) + 2 /\ Len(stack) \in Nat
        /\ stack'[1] = ToRun /\ stack'[2] = f
        /\ \A i \in DOMAIN stack' : i > 2 => i - 2 \in DOMAIN stack /\ stack'[i] = stack[i - 2]
        /\ DOMAIN stack = 1 .. Len(stack) /\ ToRun.at = "run" /\ Dispatching
    BY <1>4 DEF Twice, EndOn
  <2> HIDE DEF f
  <2>3. /\ \A i \in DOMAIN stack : stack[i].at # "run"
        /\ stack # <<>> => stack[1].at = "wait"
    BY <2>2, RunningMeans, DispatchingMeans
  <2>4. \A i \in DOMAIN stack' : i = 1 \/ i = 2 \/ (i > 2 /\ i - 2 \in DOMAIN stack /\ stack'[i] = stack[i - 2])
    BY <2>2
  <2>5. ASSUME NEW i \in DOMAIN stack' PROVE stack'[i].at = "run" => i = 1
    BY <2>1, <2>2, <2>3, <2>4
  <2>6. ASSUME NEW i \in DOMAIN stack', stack'[i].at = "end", i > 1
        PROVE  stack'[i - 1].at \in {"run", "called"}
    <3>1. CASE i = 2
      BY <2>2, <3>1
    <3>2. CASE i > 2
      <4>1. i - 2 \in DOMAIN stack /\ stack[i - 2].at = "end"
        BY <2>2, <2>6, <3>2
      <4>2. i - 2 > 1
        <5>1. i - 2 # 1
          BY <2>3, <4>1, StackParts
        <5> QED BY <2>2, <4>1, <5>1
      <4>3. stack[(i - 2) - 1].at \in {"run", "called"}
        BY <4>1, <4>2 DEF Nested
      <4>4. i - 1 > 2 /\ i - 1 \in DOMAIN stack' /\ (i - 1) - 2 = (i - 2) - 1
        BY <2>2, <2>6, <4>2
      <4> QED BY <2>2, <4>3, <4>4
    <3> QED BY <2>4, <2>6, <3>1, <3>2
  <2>7. ASSUME NEW i \in DOMAIN stack', NEW j \in DOMAIN stack', i < j, stack'[i].at = "called"
        PROVE  ~Makes(stack'[j])
    <3>1. i > 2 /\ j > 2
      BY <2>1, <2>2, <2>4, <2>7
    <3>2. /\ i - 2 \in DOMAIN stack /\ stack'[i] = stack[i - 2]
          /\ j - 2 \in DOMAIN stack /\ stack'[j] = stack[j - 2] /\ i - 2 < j - 2
      BY <2>2, <2>7, <3>1
    <3> QED BY <2>7, <3>2 DEF Nested
  <2> QED BY <2>5, <2>6, <2>7 DEF Nested, Makes
<1>5. ASSUME NEW at \in {"run", "wait", "told"}, Off(at) PROVE Nested'
  BY <1>5 DEF Off, Nested, Under, Makes
<1>6. ASSUME NEW f \in Frame, Onward(f) PROVE Nested'
  BY <1>6 DEF Onward, Nested, InPlace, Makes, UnderWay
<1>7. CASE Telling
  BY <1>7 DEF Telling, Nested, InPlace, Makes
<1>8. CASE RunOn
  BY <1>2, <1>8 DEF RunOn
<1> QED BY <1>1, <1>3, <1>4, <1>5, <1>6, <1>7, <1>8, StackStep

\* Every step keeps to one wait.
LEMMA OneWaitKept ==
  ASSUME CallbacksTyped, Listed, Nested, OneWait, CallbacksNext
  PROVE  OneWait'
<1>1. CASE stack' = stack /\ waited' = waited
  BY <1>1 DEF OneWait
<1>2. CASE RunOn
  <2>1. /\ stack'[1].at = "run" /\ waited' = waited
        /\ \A i \in DOMAIN stack : i + 1 \in DOMAIN stack' /\ stack'[i + 1] = stack[i]
        /\ \A i \in DOMAIN stack' : i # 1 => i - 1 \in DOMAIN stack /\ stack'[i] = stack[i - 1]
        /\ DOMAIN stack' \subseteq Int /\ DOMAIN stack \subseteq Int
    BY <1>2 DEF RunOn, Over
  <2>2. \A i \in DOMAIN stack' : stack'[i].at = "wait" => i - 1 \in DOMAIN stack /\ stack'[i] = stack[i - 1]
    BY <2>1
  <2>3. \A i, j \in DOMAIN stack' : stack'[i].at = "wait" /\ stack'[j].at = "wait" => i - 1 = j - 1
    BY <2>2 DEF OneWait
  <2>4. \A i, j \in DOMAIN stack' : i - 1 = j - 1 => i = j
    BY <2>1
  <2>5. waited # NoConv => \E i \in DOMAIN stack' : stack'[i].at = "wait"
    BY <2>1 DEF OneWait
  <2> QED BY <2>1, <2>2, <2>3, <2>4, <2>5 DEF OneWait
<1>3. ASSUME NEW c \in Conv, WaitOn(c) PROVE OneWait'
  <2> DEFINE f == [at |-> "wait", conv |-> c]
  <2>1. f.at = "wait" /\ f.conv = c
    OBVIOUS
  <2>2. /\ stack'[1] = f /\ waited' = c /\ waited = NoConv /\ 1 \in DOMAIN stack'
        /\ \A i \in DOMAIN stack' : i # 1 => i - 1 \in DOMAIN stack /\ stack'[i] = stack[i - 1]
    BY <1>3 DEF WaitOn, Over
  <2> HIDE DEF f
  <2>3. ASSUME NEW i \in DOMAIN stack PROVE stack[i].at # "wait"
    <3>1. stack[i].at = "wait" => stack[i].conv = NoConv /\ stack[i].conv \in Conv
      BY <2>2, FrameParts, StackParts DEF OneWait
    <3> QED BY <3>1, CallbacksAssumption
  <2>4. \A i \in DOMAIN stack' : stack'[i].at = "wait" => i = 1
    BY <2>2, <2>3
  <2> QED BY <2>1, <2>2, <2>4 DEF OneWait
<1>4. ASSUME NEW c \in Conv, EndOn(c) PROVE OneWait'
  <2> DEFINE f == [at |-> "end", conv |-> c]
  <2>1. f.at = "end"
    OBVIOUS
  <2>2. /\ stack'[1].at = "run" /\ stack'[2] = f /\ waited' = waited
        /\ \A i \in DOMAIN stack : i + 2 \in DOMAIN stack' /\ stack'[i + 2] = stack[i]
        /\ \A i \in DOMAIN stack' : i = 1 \/ i = 2 \/ (i - 2 \in DOMAIN stack /\ stack'[i] = stack[i - 2])
        /\ DOMAIN stack' \subseteq Int /\ DOMAIN stack \subseteq Int
    BY <1>4 DEF EndOn, Twice
  <2> HIDE DEF f
  <2>3. \A i \in DOMAIN stack' : stack'[i].at = "wait" => i - 2 \in DOMAIN stack /\ stack'[i] = stack[i - 2]
    BY <2>1, <2>2
  <2>4. \A i, j \in DOMAIN stack' : stack'[i].at = "wait" /\ stack'[j].at = "wait" => i - 2 = j - 2
    BY <2>3 DEF OneWait
  <2>5. \A i, j \in DOMAIN stack' : i - 2 = j - 2 => i = j
    BY <2>2
  <2>6. waited # NoConv => \E i \in DOMAIN stack' : stack'[i].at = "wait"
    BY <2>2 DEF OneWait
  <2> QED BY <2>2, <2>3, <2>4, <2>5, <2>6 DEF OneWait
<1>5. ASSUME NEW at \in {"run", "wait", "told"}, Off(at) PROVE OneWait'
  BY <1>5 DEF Off, OneWait, Under
<1>6. ASSUME NEW f \in Frame, Onward(f) PROVE OneWait'
  BY <1>6 DEF Onward, OneWait, InPlace
<1>7. CASE Telling
  BY <1>7 DEF Telling, OneWait, InPlace
<1> QED BY <1>1, <1>2, <1>3, <1>4, <1>5, <1>6, <1>7, StackStep

\* The frames below the k uppermost, where they were d places further down.
Shifted(s, t, d, k) ==
  /\ d \in Int /\ k \in Nat
  /\ DOMAIN s \subseteq Nat \ {0} /\ DOMAIN t \subseteq Nat \ {0}
  /\ \A i \in DOMAIN t : i > k => i + d \in DOMAIN s /\ t[i] = s[i + d]
  /\ \A i \in DOMAIN s : i > k + d => i - d \in DOMAIN t /\ t[i - d] = s[i]

\* What each change of the stack shifts.
LEMMA Shifts ==
  ASSUME NEW s, NEW t, NEW f, NEW g
  PROVE  /\ Over(s, t, f) => Shifted(s, t, -1, 1)
         /\ Under(s, t) => Shifted(s, t, 1, 0)
         /\ InPlace(s, t, f) => Shifted(s, t, 0, 1)
         /\ Twice(s, t, f, g) => Shifted(s, t, -2, 2)
<1>1. ASSUME Over(s, t, f) PROVE Shifted(s, t, -1, 1)
  BY <1>1 DEF Over, Shifted
<1>2. ASSUME Under(s, t) PROVE Shifted(s, t, 1, 0)
  BY <1>2 DEF Under, Shifted
<1>3. ASSUME InPlace(s, t, f) PROVE Shifted(s, t, 0, 1)
  BY <1>3 DEF InPlace, Shifted
<1>4. ASSUME Twice(s, t, f, g) PROVE Shifted(s, t, -2, 2)
  BY <1>4 DEF Twice, Shifted
<1> QED BY <1>1, <1>2, <1>3, <1>4

\* What a shift leaves of the terminations followed.
LEMMA ApartShifted ==
  ASSUME NEW s, NEW t, NEW d, NEW k, Shifted(s, t, d, k), PairApart(s),
         \A i \in DOMAIN t : i <= k => ~Follows(t[i])
  PROVE  PairApart(t)
<1>1. ASSUME NEW i \in DOMAIN t, NEW j \in DOMAIN t,
             Follows(t[i]), Follows(t[j]), t[i].conv = t[j].conv
      PROVE  i = j
  <2>1. i > k /\ j > k
    BY <1>1 DEF Shifted
  <2>2. /\ i + d \in DOMAIN s /\ t[i] = s[i + d]
        /\ j + d \in DOMAIN s /\ t[j] = s[j + d]
    BY <2>1 DEF Shifted
  <2>3. i + d = j + d
    BY <1>1, <2>2 DEF PairApart
  <2> QED BY <2>3 DEF Shifted
<1>2. ASSUME NEW i \in DOMAIN t, NEW j \in DOMAIN t, i < j,
             Follows(t[i]), t[j].at = "wait"
      PROVE  t[i].conv # t[j].conv
  <2>1. i > k /\ j > k
    BY <1>2 DEF Shifted
  <2>2. /\ i + d \in DOMAIN s /\ t[i] = s[i + d]
        /\ j + d \in DOMAIN s /\ t[j] = s[j + d]
    BY <2>1 DEF Shifted
  <2>3. i + d < j + d
    BY <1>2 DEF Shifted
  <2> QED BY <1>2, <2>2, <2>3 DEF PairApart
<1> QED BY <1>1, <1>2 DEF PairApart

\* A partner that has ended has; and what it has posted is dispatched once.
LEMMA PartnersKept ==
  ASSUME CallbacksTyped, EndsApart, CallbacksNext
  PROVE  /\ \A c \in Conv : partner[c] # "open" =>
              partner'[c] # "open" /\ (c \notin coming => c \notin coming')
         /\ \A c \in coming' : partner'[c] # "open"
<1> DEFINE Goal == /\ \A c \in Conv : partner[c] # "open" =>
                        partner'[c] # "open" /\ (c \notin coming => c \notin coming')
                   /\ \A c \in coming' : partner'[c] # "open"
<1>1. /\ partner \in [Conv -> {"open", "ended", "gone"}] /\ coming \subseteq Conv
      /\ \A c \in coming : partner[c] # "open"
  BY DEF CallbacksTyped, EndsApart
<1>2. CASE partner' = partner /\ coming' \subseteq coming
  BY <1>1, <1>2
<1>3. ASSUME NEW c \in Conv, PartnerEnds(c) PROVE Goal
  BY <1>1, <1>3 DEF PartnerEnds
<1>4. ASSUME NEW c \in Conv, PartnerGone(c) PROVE Goal
  BY <1>1, <1>4 DEF PartnerGone
<1>5. \/ partner' = partner /\ coming' \subseteq coming
      \/ \E c \in Conv : PartnerEnds(c) \/ PartnerGone(c)
  BY CallbacksAssumption
     DEF CallbacksNext, DispatchRun, RunDone, RunNext, EnableCallback, WaitOver, WaitDone, TellEnd,
         EndTold, Arrive, WaitFor, Disconnect, DispatchEnding, DispatchTerminate,
         CallbackReturns, convs
<1> QED BY <1>2, <1>3, <1>4, <1>5

\* Every step keeps each termination followed once, and not over its own wait.
LEMMA EndsApartKept ==
  ASSUME CallbacksTyped, Listed, Nested, OneWait, EndsApart, CallbacksNext
  PROVE  EndsApart'
<1> DEFINE Done(s) == \A i \in DOMAIN s : Follows(s[i]) =>
                        s[i].conv \notin coming' /\ partner'[s[i].conv] # "open"
<1>1. /\ \A c \in Conv : partner[c] # "open" =>
              partner'[c] # "open" /\ (c \notin coming => c \notin coming')
      /\ \A c \in coming' : partner'[c] # "open"
  BY PartnersKept
<1>2. PairApart(stack) /\ Done(stack)
  BY <1>1, StackParts, FrameParts DEF EndsApart, Follows
<1>3. ASSUME NEW d, NEW k, Shifted(stack, stack', d, k),
             \A i \in DOMAIN stack' : i <= k => ~Follows(stack'[i])
      PROVE  PairApart(stack') /\ Done(stack')
  <2>1. PairApart(stack')
    BY <1>2, <1>3, ApartShifted
  <2>2. ASSUME NEW i \in DOMAIN stack', Follows(stack'[i])
        PROVE  stack'[i].conv \notin coming' /\ partner'[stack'[i].conv] # "open"
    <3>1. i > k
      BY <1>3, <2>2 DEF Shifted
    <3>2. i + d \in DOMAIN stack /\ stack'[i] = stack[i + d]
      BY <1>3, <3>1 DEF Shifted
    <3> QED BY <1>2, <2>2, <3>2
  <2> QED BY <2>1, <2>2
<1> SUFFICES PairApart(stack') /\ Done(stack')
  BY <1>1 DEF EndsApart, PairApart, Follows
<1>4. CASE stack' = stack
  BY <1>2, <1>4
<1>5. CASE RunOn
  <2>0. Shifted(stack, stack', -1, 1)
    BY <1>5, Shifts DEF RunOn
  <2>1. Shifted(stack, stack', -1, 1) /\ stack'[1].at = "run" /\ DOMAIN stack' \subseteq Nat \ {0}
    BY <1>5, <2>0 DEF RunOn, Over
  <2>2. \A i \in DOMAIN stack' : i <= 1 => ~Follows(stack'[i])
    BY <2>1 DEF Follows
  <2> QED BY <1>3, <2>1, <2>2
<1>6. ASSUME NEW c \in Conv, WaitOn(c) PROVE PairApart(stack') /\ Done(stack')
  <2>0. Shifted(stack, stack', -1, 1)
    BY <1>6, Shifts DEF WaitOn
  <2>1. Shifted(stack, stack', -1, 1) /\ stack'[1].at = "wait" /\ DOMAIN stack' \subseteq Nat \ {0}
    BY <1>6, <2>0 DEF WaitOn, Over
  <2>2. \A i \in DOMAIN stack' : i <= 1 => ~Follows(stack'[i])
    BY <2>1 DEF Follows
  <2> QED BY <1>3, <2>1, <2>2
<1>7. ASSUME NEW at \in {"run", "wait", "told"}, Off(at) PROVE PairApart(stack') /\ Done(stack')
  <2>1. Shifted(stack, stack', 1, 0)
    BY <1>7, Shifts DEF Off
  <2>2. \A i \in DOMAIN stack' : i <= 0 => ~Follows(stack'[i])
    BY <2>1 DEF Shifted
  <2> QED BY <1>3, <2>1, <2>2
<1>8. ASSUME NEW f \in Frame, Onward(f) PROVE PairApart(stack') /\ Done(stack')
  <2>0. Shifted(stack, stack', 0, 1)
    BY <1>8, Shifts DEF Onward
  <2>1. Shifted(stack, stack', 0, 1) /\ stack'[1].at \in {"run", "called"} /\ DOMAIN stack' \subseteq Nat \ {0}
    BY <1>8, <2>0 DEF Onward, InPlace
  <2>2. \A i \in DOMAIN stack' : i <= 1 => ~Follows(stack'[i])
    BY <2>1 DEF Follows
  <2> QED BY <1>3, <2>1, <2>2
<1>9. CASE Telling
  <2>1. /\ DOMAIN stack' = DOMAIN stack /\ 1 \in DOMAIN stack
        /\ stack'[1].at = "told" /\ stack'[1].conv = stack[1].conv
        /\ Follows(stack[1])
        /\ \A i \in DOMAIN stack : i # 1 => stack'[i] = stack[i]
    BY <1>9 DEF Telling, InPlace, Follows
  <2>2. \A i \in DOMAIN stack : /\ Follows(stack'[i]) => Follows(stack[i]) /\ stack'[i].conv = stack[i].conv
                                /\ stack'[i].at = "wait" => stack'[i] = stack[i]
    BY <2>1
  <2>3. PairApart(stack')
    BY <1>2, <2>1, <2>2 DEF PairApart
  <2>4. Done(stack')
    BY <1>2, <2>1, <2>2
  <2> QED BY <2>3, <2>4
<1>10. ASSUME NEW c \in Conv, EndOn(c) PROVE PairApart(stack') /\ Done(stack')
  <2>0. Shifted(stack, stack', -2, 2)
    BY <1>10, Shifts DEF EndOn
  <2>1. /\ Shifted(stack, stack', -2, 2) /\ DOMAIN stack' \subseteq Nat \ {0}
        /\ stack'[1].at = "run" /\ stack'[2].at = "end" /\ stack'[2].conv = c
        /\ waited # c /\ c \in coming /\ coming' = coming \ {c}
    BY <1>10, <2>0 DEF EndOn, Twice
  <2>2. partner[c] # "open" /\ partner'[c] # "open"
    BY <1>1, <2>1 DEF EndsApart
  <2>3. \A i \in DOMAIN stack' : \/ i = 1 \/ i = 2
                                 \/ i > 2 /\ i - 2 \in DOMAIN stack /\ stack'[i] = stack[i - 2]
    BY <2>1 DEF Shifted
  <2>4. \A i \in DOMAIN stack' : i > 2 /\ Follows(stack'[i]) => stack'[i].conv # c
    BY <2>1, <2>3 DEF EndsApart
  <2>5. \A i \in DOMAIN stack' : i > 2 /\ stack'[i].at = "wait" => stack'[i].conv # c
    BY <2>1, <2>3 DEF OneWait
  <2>6. ~Follows(stack'[1])
    BY <2>1 DEF Follows
  <2>7. ASSUME NEW i \in DOMAIN stack', NEW j \in DOMAIN stack',
               Follows(stack'[i]), Follows(stack'[j]), stack'[i].conv = stack'[j].conv
        PROVE  i = j
    <3>1. CASE i > 2 /\ j > 2
      <4>1. i - 2 = j - 2
        BY <1>2, <2>3, <2>7, <3>1 DEF PairApart
      <4> QED BY <2>1, <4>1
    <3> QED BY <2>1, <2>3, <2>4, <2>6, <2>7, <3>1
  <2>8. ASSUME NEW i \in DOMAIN stack', NEW j \in DOMAIN stack', i < j,
               Follows(stack'[i]), stack'[j].at = "wait"
        PROVE  stack'[i].conv # stack'[j].conv
    <3>1. CASE i > 2 /\ j > 2
      <4>1. i - 2 < j - 2
        BY <2>1, <2>8
      <4> QED BY <1>2, <2>3, <2>8, <3>1, <4>1 DEF PairApart
    <3>2. CASE i = 2 /\ j > 2
      BY <2>1, <2>5, <2>8, <3>2
    <3>3. (i > 2 /\ j > 2) \/ (i = 2 /\ j > 2)
      BY <2>1, <2>3, <2>6, <2>8
    <3> QED BY <3>1, <3>2, <3>3
  <2>9. PairApart(stack')
    BY <2>7, <2>8 DEF PairApart
  <2>10. Done(stack')
    BY <1>2, <2>1, <2>2, <2>3, <2>6
  <2> QED BY <2>9, <2>10
<1> QED BY <1>4, <1>5, <1>6, <1>7, <1>8, <1>9, <1>10, StackStep

-----------------------------------------------------------------------------
(* The callbacks: the ways the flags change.                               *)

Core == {"connected", "terminated", "destroy", "awaited"}

\* What a conversation's flags are judged by is as it was.
Unmoved(x) ==
  /\ x \in windows' <=> x \in windows
  /\ x \in endings' <=> x \in endings
  /\ x \in coming' <=> x \in coming
  /\ partner'[x] = partner[x]
  /\ \A f \in Core : f \in status'[x] <=> f \in status[x]
  /\ \A at \in {"end", "told"} : There(stack', x, at) <=> There(stack, x, at)

\* A conversation nothing happens to keeps its flags' rules.
LEMMA UnmovedKeeps ==
  ASSUME NEW x, Unmoved(x)
  PROVE  /\ AccordOf(x) => AccordOf(x)'
         /\ CleanOf(x) => CleanOf(x)'
         /\ (x \in Awaited' /\ x \in Conv) <=> (x \in Awaited /\ x \in Conv)
BY DEF Unmoved, Core, AccordOf, CleanOf, Followed, Awaited

\* Followed, by one frame or the other.
LEMMA FollowedIs ==
  \A c : Followed(c) <=> BeingEnded(c)
BY DEF Followed, BeingEnded, There

\* Frames that follow are moved by no shift.
LEMMA ThereShifted ==
  ASSUME NEW s, NEW t, NEW d, NEW k, Shifted(s, t, d, k),
         \A i \in DOMAIN t : i <= k => ~Follows(t[i]),
         \A i \in DOMAIN s : i <= k + d => ~Follows(s[i]),
         NEW x, NEW at \in {"end", "told"}
  PROVE  There(t, x, at) <=> There(s, x, at)
<1>1. ASSUME There(t, x, at) PROVE There(s, x, at)
  <2>1. PICK i \in DOMAIN t : t[i].at = at /\ t[i].conv = x
    BY <1>1 DEF There
  <2>2. i > k
    BY <2>1 DEF Follows, Shifted
  <2>3. i + d \in DOMAIN s /\ t[i] = s[i + d]
    BY <2>2 DEF Shifted
  <2> QED BY <2>1, <2>3 DEF There
<1>2. ASSUME There(s, x, at) PROVE There(t, x, at)
  <2>1. PICK i \in DOMAIN s : s[i].at = at /\ s[i].conv = x
    BY <1>2 DEF There
  <2>2. i > k + d
    BY <2>1 DEF Follows, Shifted
  <2>3. i - d \in DOMAIN t /\ t[i - d] = s[i]
    BY <2>2 DEF Shifted
  <2> QED BY <2>1, <2>3 DEF There
<1> QED BY <1>1, <1>2

\* The frames of terminations, where no termination begins, is told or ends.
SameFollows == \A x \in Conv, at \in {"end", "told"} : There(stack', x, at) <=> There(stack, x, at)

\* Runs and waits leave what is followed as it is.
LEMMA FollowsKept ==
  ASSUME CallbacksTyped, Nested, Listed
  PROVE  /\ stack' = stack => SameFollows
         /\ RunOn => SameFollows
         /\ \A c \in Conv : WaitOn(c) => SameFollows
         /\ Off("run") \/ Off("wait") => SameFollows
         /\ \A f \in Frame : Onward(f) => SameFollows
<1>1. stack' = stack => SameFollows
  BY DEF SameFollows
<1>2. ASSUME NEW f, Over(stack, stack', f), f.at \in {"run", "wait"} PROVE SameFollows
  <2>1. Shifted(stack, stack', -1, 1)
    BY <1>2, Shifts
  <2>2. /\ \A i \in DOMAIN stack' : i <= 1 => ~Follows(stack'[i])
        /\ \A i \in DOMAIN stack : ~(i <= 1 + -1)
    BY <1>2, <2>1 DEF Over, Follows, Shifted
  <2> QED BY <2>1, <2>2, ThereShifted DEF SameFollows
<1>3. ASSUME NEW at, Off(at), at \in {"run", "wait"} PROVE SameFollows
  <2>1. Shifted(stack, stack', 1, 0)
    BY <1>3, Shifts DEF Off
  <2>2. /\ \A i \in DOMAIN stack' : ~(i <= 0)
        /\ \A i \in DOMAIN stack : i <= 0 + 1 => ~Follows(stack[i])
    BY <1>3, <2>1 DEF Off, Follows, Shifted
  <2> QED BY <2>1, <2>2, ThereShifted DEF SameFollows
<1>4. ASSUME NEW f, Onward(f) PROVE SameFollows
  <2>1. Shifted(stack, stack', 0, 1)
    BY <1>4, Shifts DEF Onward
  <2>2. stack'[1].at \in {"run", "called"} /\ stack[1].at \in {"run", "called"}
    BY <1>4 DEF Onward, InPlace
  <2>3. /\ \A i \in DOMAIN stack' : i <= 1 => ~Follows(stack'[i])
        /\ \A i \in DOMAIN stack : i <= 1 + 0 => ~Follows(stack[i])
    BY <2>1, <2>2 DEF Follows, Shifted
  <2> QED BY <2>1, <2>3, ThereShifted DEF SameFollows
<1>5. RunOn => SameFollows
  BY <1>2 DEF RunOn
<1>6. ASSUME NEW c \in Conv, WaitOn(c) PROVE SameFollows
  <2> DEFINE f == [at |-> "wait", conv |-> c]
  <2>1. f.at = "wait"
    OBVIOUS
  <2> HIDE DEF f
  <2> QED BY <1>2, <1>6, <2>1 DEF WaitOn, f
<1>7. Off("run") \/ Off("wait") => SameFollows
  BY <1>3
<1> QED BY <1>1, <1>4, <1>5, <1>6, <1>7

Quiet == /\ \A x \in Conv : Unmoved(x)
         /\ count' = count
         /\ "ended" \in misused' <=> "ended" \in misused

\* Steps that leave all flags but those of blocking.
LEMMA QuietSteps ==
  ASSUME CallbacksTyped, Nested, Listed, CallbacksNext
  PROVE  \/ Quiet
         \/ \E c \in Conv : \/ PartnerEnds(c) \/ PartnerGone(c)
                            \/ Disconnect(c) \/ DispatchEnding(c) \/ DispatchTerminate(c)
         \/ TellEnd \/ EndTold
<1> DEFINE SameOthers == /\ windows' = windows /\ endings' = endings /\ coming' = coming
                         /\ partner' = partner /\ count' = count
                         /\ "ended" \in misused' <=> "ended" \in misused
           SameFlags == \A x \in Conv : \A f \in Core : f \in status'[x] <=> f \in status[x]
<1>1. SameOthers /\ SameFlags /\ SameFollows => Quiet
  BY DEF Quiet, Unmoved, SameFollows
<1>2. status' = status => SameFlags
  OBVIOUS
<1>3. status \in [Conv -> SUBSET Flag]
  BY DEF CallbacksTyped
<1> HIDE DEF SameFlags
<1>4. CASE DispatchRun
  <2>1. SameOthers /\ status' = status
    BY <1>4 DEF DispatchRun, convs
  <2>2. SameFollows
    <3>1. RunOn
      BY <1>4, DispatchRunStack, DispatchingMeans, RunIs DEF RunOn, DispatchRun
    <3> QED BY <3>1, FollowsKept
  <2> QED BY <1>1, <1>2, <2>1, <2>2
<1>5. CASE RunDone \/ WaitDone
  <2>1. SameOthers /\ status' = status
    BY <1>5 DEF RunDone, WaitDone, convs
  <2>2. SameFollows
    BY <1>5, OffCases, FollowsKept
  <2> QED BY <1>1, <1>2, <2>1, <2>2
<1>6. CASE RunNext
  <2> DEFINE c == Waiting(stack[1].item).conv
             on == [at |-> "run", item |-> NextAfter(stack[1].item), next |-> 0]
             called == [at |-> "called", item |-> stack[1].item, next |-> NextAfter(stack[1].item)]
  <2>1. stack # <<>> /\ Head(stack) = stack[1] /\ In(stack[1].item) /\ stack[1].at = "run" /\ ~UnderWay
    BY <1>6, RunNextStack, StackParts DEF RunNext, Top
  <2>2. c \in Conv /\ stack[1].item \in Serial /\ NextAfter(stack[1].item) \in Serial \cup {0}
    BY <2>1, PlaceIs, NextIs
  <2>3. status' = status \/ status' = [status EXCEPT ![c] = (@ \cup {"blocked"}) \ {"single"}]
    BY <1>6, <2>1 DEF RunNext
  <2>4. SameOthers
    BY <1>6 DEF RunNext
  <2>5. /\ InPlace(stack, stack', on) \/ InPlace(stack, stack', called)
        /\ on.at = "run" /\ called.at = "called" /\ waited' = waited
    BY <1>6, RunNextStack DEF RunNext
  <2>6. on \in Frame /\ called \in Frame
    BY <2>2, FramesMade
  <2> HIDE DEF c, on, called
  <2>7. Onward(on) \/ Onward(called)
    BY <2>1, <2>5 DEF Onward
  <2>8. SameFollows
    BY <2>6, <2>7, FollowsKept
  <2>9. SameFlags
    BY <1>2, <1>3, <2>2, <2>3 DEF SameFlags, Core
  <2> QED BY <1>1, <2>4, <2>8, <2>9
<1>7. ASSUME NEW block \in BOOLEAN, CallbackReturns(block) PROVE Quiet
  <2> DEFINE c == Waiting(stack[1].item).conv
             on == [at |-> "run", item |-> stack[1].next, next |-> 0]
  <2>1. /\ stack # <<>> /\ Head(stack) = stack[1] /\ In(stack[1].item)
        /\ stack[1].at = "called" /\ stack[1] \in Frame
    BY <1>7, ReturnsStack, StackParts DEF CallbackReturns, Top
  <2>2. c \in Conv /\ stack[1].next \in Serial \cup {0}
    BY <2>1, PlaceIs, FrameParts
  <2>3. status' = status \/ status' = [status EXCEPT ![c] = Blocked(@)]
    BY <1>7, <2>1 DEF CallbackReturns
  <2>4. SameOthers
    BY <1>7 DEF CallbackReturns
  <2>5. InPlace(stack, stack', on) /\ on.at = "run" /\ waited' = waited
    BY <1>7, ReturnsStack DEF CallbackReturns
  <2>6. on \in Frame
    BY <2>2, FramesMade
  <2> HIDE DEF c, on
  <2>7. Onward(on)
    BY <2>1, <2>5 DEF Onward
  <2>8. SameFollows
    BY <2>6, <2>7, FollowsKept
  <2>9. SameFlags
    BY <1>2, <1>3, <2>2, <2>3 DEF SameFlags, Core, Blocked
  <2> QED BY <1>1, <2>4, <2>8, <2>9
<1>8. ASSUME NEW C, NEW command \in {{}, {"blocked"}, {"single"}}, EnableCallback(C, command)
      PROVE  Quiet
  <2>1. SameOthers
    BY <1>8 DEF EnableCallback
  <2>2. SameFlags
    BY <1>8, <1>3 DEF EnableCallback, SameFlags, Core
  <2>3. SameFollows
    <3>1. waited' = waited
      BY <1>8 DEF EnableCallback
    <3>2. stack' = stack \/ RunOn
      BY <1>8, <3>1, EnableStack, RunIs DEF RunOn
    <3> QED BY <3>2, FollowsKept
  <2> QED BY <1>1, <2>1, <2>2, <2>3
<1>9. CASE WaitOver
  <2>1. SameOthers /\ status' = status /\ stack' = stack
    BY <1>9 DEF WaitOver, convs
  <2> QED BY <1>1, <1>2, <2>1, FollowsKept
<1>10. ASSUME NEW c \in Conv, Arrive(c) PROVE Quiet
  <2>1. SameOthers /\ status' = status /\ stack' = stack
    BY <1>10 DEF Arrive, convs
  <2> QED BY <1>1, <1>2, <2>1, FollowsKept
<1>11. ASSUME NEW c \in Conv, WaitFor(c) PROVE Quiet
  <2>1. SameOthers /\ status' = status /\ waited = NoConv /\ waited' = c
    BY <1>11 DEF WaitFor, convs, MayWait
  <2>2. WaitOn(c)
    BY <1>11, <2>1, WaitForStack DEF WaitOn
  <2> QED BY <1>1, <1>2, <2>1, <2>2, FollowsKept
<1>12. Ends \subseteq Conv
  BY CallbacksAssumption
<1> QED BY <1>4, <1>5, <1>6, <1>7, <1>8, <1>9, <1>10, <1>11, <1>12 DEF CallbacksNext

-----------------------------------------------------------------------------
(* The callbacks: the steps of the ends of a conversation.                 *)

\* The flags terminate leaves.
LEMMA TerminatedIs ==
  ASSUME CallbacksTyped, NEW c \in Conv
  PROVE  LET k == "connected" \in status[c]
             g == partner[c] = "gone"
             s == Terminated(c)
         IN /\ "connected" \in s <=> (g /\ ~k)
            /\ "terminated" \in s <=> (IF g THEN "terminated" \notin status[c] ELSE "terminated" \in status[c])
            /\ "destroy" \in s
            /\ "awaited" \in s <=> (IF Counted(c) THEN "awaited" \notin status[c] ELSE "awaited" \in status[c])
BY DEF Terminated, Xor, Counted

\* Only this one's own moves.
Others(c) == \A x \in Conv : x # c => Unmoved(x)

\* A conversation that is terminated, here of this side.
Ending(c) ==
  /\ Others(c)
  /\ \A at \in {"end", "told"} : There(stack', c, at) <=> There(stack, c, at)
  /\ partner'[c] = partner[c]
  /\ c \in coming' <=> c \in coming
  /\ c \in windows /\ c \notin endings'
  /\ status'[c] = Terminated(c)
  /\ c \in windows' => ~({"terminated", "destroy"} \subseteq Terminated(c) /\ "connected" \notin Terminated(c))
  /\ count' = count + (IF Counted(c) THEN 1 ELSE 0)

\* What terminate does to the conversation it ends.
LEMMA TerminateMoves ==
  ASSUME CallbacksTyped, NEW c \in Conv, Terminate(c), c \in windows, c \notin endings',
         endings' \ {c} = endings \ {c}, partner' = partner, coming' = coming, stack' = stack
  PROVE  Ending(c)
<1>1. status \in [Conv -> SUBSET Flag]
  BY DEF CallbacksTyped
<1>2. \A x \in Conv : x # c => status'[x] = status[x]
  BY <1>1 DEF Terminate
<1>3. status'[c] = Terminated(c)
  BY <1>1 DEF Terminate
<1>4. /\ \A x \in Conv : x # c => (x \in windows' <=> x \in windows)
      /\ c \in windows' => ~({"terminated", "destroy"} \subseteq Terminated(c) /\ "connected" \notin Terminated(c))
  BY DEF Terminate
<1>5. \A x \in Conv : x # c => (x \in endings' <=> x \in endings)
  OBVIOUS
<1>6. Others(c)
  BY <1>2, <1>4, <1>5 DEF Others, Unmoved
<1>7. count' = count + (IF Counted(c) THEN 1 ELSE 0)
  BY DEF Terminate
<1> QED BY <1>3, <1>4, <1>6, <1>7 DEF Ending

\* DdeDisconnect: put off, or the conversation terminated where no partner's
\* termination is followed.
LEMMA DisconnectMoves ==
  ASSUME CallbacksTyped, Nested, NEW c \in Conv, Disconnect(c)
  PROVE  /\ "destroy" \notin status[c] /\ c \in windows /\ c \notin endings
         /\ misused' = misused
         /\ \/ /\ Others(c) /\ count' = count
               /\ status'[c] = status[c] /\ c \in windows' /\ partner'[c] = partner[c]
               /\ c \in coming' <=> c \in coming
               /\ \A at \in {"end", "told"} : There(stack', c, at) <=> There(stack, c, at)
            \/ Ending(c) /\ ~Followed(c)
<1>1. /\ Running /\ c \in windows /\ c \notin endings /\ "destroy" \notin status[c]
      /\ partner' = partner /\ coming' = coming /\ stack' = stack /\ misused' = misused
  BY DEF Disconnect
<1>2. CASE UnderWay \/ Later(c)
  <2>1. endings' = endings \cup {c} /\ status' = status /\ count' = count /\ windows' = windows
    BY <1>2 DEF Disconnect
  <2>2. Others(c)
    BY <1>1, <2>1 DEF Others, Unmoved
  <2> QED BY <1>1, <2>1, <2>2
<1>3. CASE ~(UnderWay \/ Later(c))
  <2>1. Terminate(c) /\ endings' = endings
    BY <1>3 DEF Disconnect
  <2>2. Ending(c)
    BY <1>1, <2>1, TerminateMoves
  <2>3. ~Followed(c)
    <3>1. \A i \in DOMAIN stack : ~Follows(stack[i])
      BY <1>1, <1>3, RunningMeans
    <3> QED BY <3>1 DEF Followed, There, Follows
  <2> QED BY <1>1, <2>2, <2>3
<1> QED BY <1>2, <1>3

\* 4CEh: nothing yet, or the conversation terminated.
LEMMA EndingMoves ==
  ASSUME CallbacksTyped, NEW c \in Conv, DispatchEnding(c)
  PROVE  \/ Quiet
         \/ /\ Ending(c) /\ c \in endings
            /\ "ended" \in misused => "ended" \in misused'
            /\ "ended" \in misused' \/ ~Followed(c)
<1>1. /\ c \in endings /\ c \in windows
      /\ partner' = partner /\ coming' = coming /\ stack' = stack
  BY DEF DispatchEnding
<1>2. CASE Later(c)
  <2>1. endings' = endings /\ status' = status /\ count' = count /\ windows' = windows /\ misused' = misused
    BY <1>2 DEF DispatchEnding
  <2> QED BY <1>1, <2>1 DEF Quiet, Unmoved
<1>3. CASE ~Later(c)
  <2>1. /\ Terminate(c) /\ endings' = endings \ {c}
        /\ misused' = IF BeingEnded(c) THEN misused \cup {"ended"} ELSE misused
    BY <1>3 DEF DispatchEnding
  <2>2. Ending(c)
    BY <1>1, <2>1, TerminateMoves
  <2>3. /\ "ended" \in misused => "ended" \in misused'
        /\ "ended" \in misused' \/ ~Followed(c)
    BY <2>1, FollowedIs
  <2> QED BY <1>1, <2>2, <2>3
<1> QED BY <1>2, <1>3

\* WM_DDE_TERMINATE: nothing yet, its callbacks made first, or an answer.
Concluded(c) ==
  /\ Others(c)
  /\ c \in windows /\ c \in coming /\ c \notin coming' /\ "connected" \notin status[c]
  /\ \A at \in {"end", "told"} : There(stack', c, at) <=> There(stack, c, at)
  /\ partner'[c] = partner[c]
  /\ c \in endings' <=> c \in endings
  /\ "connected" \notin status'[c]
  /\ "destroy" \in status'[c] <=> "destroy" \in status[c]
  /\ IF "awaited" \in status[c]
     THEN /\ "awaited" \notin status'[c] /\ count' = count - 1
          /\ "terminated" \in status'[c] <=> "terminated" \notin status[c]
     ELSE /\ "awaited" \notin status'[c] /\ count' = count
          /\ "terminated" \in status'[c] <=> "terminated" \in status[c]
  /\ c \in windows' => ~({"terminated", "destroy"} \subseteq status'[c])
Beginning(c) ==
  /\ Others(c)
  /\ c \in windows /\ c \in windows' /\ c \in coming /\ c \notin coming' /\ "connected" \in status[c]
  /\ status'[c] = status[c] /\ count' = count
  /\ There(stack', c, "end") /\ (There(stack', c, "told") <=> There(stack, c, "told"))
  /\ partner'[c] = partner[c]
  /\ c \in endings' <=> c \in endings

\* The partner's WM_DDE_TERMINATE is put off, an answer, or the beginning of an end.
LEMMA TerminateAnswered ==
  ASSUME CallbacksTyped, count \in Nat, NEW c \in Conv, DispatchTerminate(c)
  PROVE  /\ misused' = misused
         /\ Quiet \/ Concluded(c) \/ Beginning(c)
<1>1. /\ c \in coming /\ c \in windows /\ misused' = misused
      /\ partner' = partner /\ endings' = endings /\ waited' = waited
  BY DEF DispatchTerminate
<1>2. status \in [Conv -> SUBSET Flag]
  BY DEF CallbacksTyped
<1>3. CASE Later(c)
  <2>1. coming' = coming /\ status' = status /\ count' = count /\ windows' = windows /\ stack' = stack
    BY <1>3 DEF DispatchTerminate
  <2> QED BY <1>1, <2>1 DEF Quiet, Unmoved
<1>4. CASE ~Later(c) /\ "connected" \in status[c]
  <2> DEFINE f == [at |-> "end", conv |-> c]
  <2>1. /\ coming' = coming \ {c} /\ status' = status /\ count' = count /\ windows' = windows
        /\ stack' = <<ToRun, f>> \o stack
    BY <1>4 DEF DispatchTerminate
  <2>2. f.at = "end" /\ f.conv = c /\ ToRun.at = "run"
    BY RunIs
  <2>3. f \in Frame /\ ToRun \in Frame /\ stack \in Seq(Frame)
    BY FramesMade, RunIs DEF CallbacksTyped
  <2> HIDE DEF f
  <2>4. Twice(stack, stack', ToRun, f)
    BY <2>1, <2>3, PutOnTwice
  <2>5. ASSUME NEW x \in Conv, NEW at \in {"end", "told"}
        PROVE  There(stack', x, at) <=> There(stack, x, at) \/ (x = c /\ at = "end")
    <3>1. ASSUME There(stack', x, at) PROVE There(stack, x, at) \/ (x = c /\ at = "end")
      <4>1. PICK i \in DOMAIN stack' : stack'[i].at = at /\ stack'[i].conv = x
        BY <3>1 DEF There
      <4>2. i = 1 \/ i = 2 \/ (i - 2 \in DOMAIN stack /\ stack'[i] = stack[i - 2])
        BY <2>4 DEF Twice
      <4>3. stack'[1] = ToRun /\ stack'[2] = f
        BY <2>4 DEF Twice
      <4> QED BY <2>2, <4>1, <4>2, <4>3 DEF There
    <3>2. ASSUME There(stack, x, at) PROVE There(stack', x, at)
      <4>1. PICK i \in DOMAIN stack : stack[i].at = at /\ stack[i].conv = x
        BY <3>2 DEF There
      <4>2. i + 2 \in DOMAIN stack' /\ stack'[i + 2] = stack[i]
        BY <2>4 DEF Twice
      <4> QED BY <4>1, <4>2 DEF There
    <3>3. 2 \in DOMAIN stack' /\ stack'[2] = f
      BY <2>4 DEF Twice
    <3> QED BY <2>2, <3>1, <3>2, <3>3 DEF There
  <2>6. Others(c)
    BY <1>1, <2>1, <2>5 DEF Others, Unmoved
  <2> QED BY <1>1, <1>4, <2>1, <2>5, <2>6 DEF Beginning
<1>5. CASE ~Later(c) /\ "connected" \notin status[c]
  <2> DEFINE s == IF "awaited" \in status[c] THEN Xor(status[c], {"awaited", "terminated"})
                  ELSE status[c]
  <2>1. /\ coming' = coming \ {c} /\ stack' = stack
        /\ status' = [status EXCEPT ![c] = s]
        /\ count' = count - (IF "awaited" \in status[c] THEN 1 ELSE 0)
        /\ windows' = IF {"terminated", "destroy"} \subseteq s THEN windows \ {c} ELSE windows
    BY <1>5 DEF DispatchTerminate
  <2>2. /\ "connected" \notin s
        /\ "destroy" \in s <=> "destroy" \in status[c]
        /\ "awaited" \notin s
        /\ "terminated" \in s <=> (IF "awaited" \in status[c] THEN "terminated" \notin status[c]
                                   ELSE "terminated" \in status[c])
    BY <1>5 DEF Xor
  <2> HIDE DEF s
  <2>3. status'[c] = s /\ \A x \in Conv : x # c => status'[x] = status[x]
    BY <1>2, <2>1
  <2>4. /\ c \in windows' => ~({"terminated", "destroy"} \subseteq s)
        /\ \A x \in Conv : x # c => (x \in windows' <=> x \in windows)
    BY <2>1
  <2>5. Others(c)
    BY <1>1, <2>1, <2>3, <2>4 DEF Others, Unmoved
  <2>6. IF "awaited" \in status[c] THEN count' = count - 1 ELSE count' = count
    BY <2>1
  <2> QED BY <1>1, <1>5, <2>1, <2>2, <2>3, <2>4, <2>5, <2>6 DEF Concluded
<1> QED BY <1>1, <1>3, <1>4, <1>5

\* The program told that the conversation is over.
Told(c) ==
  /\ Others(c)
  /\ c \in windows' <=> c \in windows
  /\ c \in endings' <=> c \in endings
  /\ c \in coming' <=> c \in coming
  /\ partner'[c] = partner[c] /\ count' = count /\ misused' = misused
  /\ \A f \in {"connected", "terminated", "destroy"} : f \in status'[c] <=> f \notin status[c]
  /\ "awaited" \in status'[c] <=> "awaited" \in status[c]
  /\ There(stack, c, "end") /\ ~There(stack, c, "told")
  /\ There(stack', c, "told") /\ ~There(stack', c, "end")

\* What the program's being told does to the conversation.
LEMMA TellMoves ==
  ASSUME CallbacksTyped, EndsApart, TellEnd
  PROVE  \E c \in Conv : c = stack[1].conv /\ stack[1].at = "end" /\ Told(c)
<1> DEFINE c == stack[1].conv
           f == [at |-> "told", conv |-> c]
<1>1. /\ 1 \in DOMAIN stack /\ stack[1].at = "end" /\ c \in Conv
      /\ InPlace(stack, stack', f)
  BY TellStack
<1>2. f.at = "told" /\ f.conv = c
  OBVIOUS
<1>3. status' = [status EXCEPT ![c] = Xor(@, {"connected", "terminated", "destroy"})]
  BY StackParts DEF TellEnd, Top
<1>4. c = stack[1].conv
  OBVIOUS
<1> HIDE DEF c, f
<1>5. /\ DOMAIN stack' = DOMAIN stack /\ stack'[1] = f
      /\ \A i \in DOMAIN stack : i # 1 => stack'[i] = stack[i]
  BY <1>1 DEF InPlace
<1>6. ASSUME NEW i \in DOMAIN stack, Follows(stack[i]), stack[i].conv = c PROVE i = 1
  BY <1>1, <1>4, <1>6 DEF EndsApart, PairApart, Follows
<1>7. /\ There(stack, c, "end") /\ ~There(stack, c, "told")
      /\ There(stack', c, "told") /\ ~There(stack', c, "end")
  BY <1>1, <1>2, <1>4, <1>5, <1>6 DEF There, Follows
<1>8. \A x \in Conv, at \in {"end", "told"} : x # c => (There(stack', x, at) <=> There(stack, x, at))
  BY <1>1, <1>2, <1>4, <1>5 DEF There
<1>9. /\ status'[c] = Xor(status[c], {"connected", "terminated", "destroy"})
      /\ \A x \in Conv : x # c => status'[x] = status[x]
  BY <1>1, <1>3 DEF CallbacksTyped
<1>10. /\ windows' = windows /\ count' = count /\ endings' = endings /\ coming' = coming
       /\ partner' = partner /\ misused' = misused
  BY DEF TellEnd
<1>11. Others(c)
  BY <1>8, <1>9, <1>10 DEF Others, Unmoved
<1>12. /\ \A g \in {"connected", "terminated", "destroy"} : g \in status'[c] <=> g \notin status[c]
       /\ "awaited" \in status'[c] <=> "awaited" \in status[c]
  BY <1>9 DEF Xor
<1> QED BY <1>1, <1>4, <1>7, <1>10, <1>11, <1>12 DEF Told

\* And its window gone.
Closed(c) ==
  /\ Others(c)
  /\ c \in windows' <=> (c \in windows /\ ~({"terminated", "destroy"} \subseteq status[c]))
  /\ c \in endings' <=> c \in endings
  /\ c \in coming' <=> c \in coming
  /\ partner'[c] = partner[c] /\ count' = count /\ misused' = misused
  /\ status'[c] = status[c]
  /\ There(stack, c, "told") /\ ~There(stack, c, "end")
  /\ ~There(stack', c, "told") /\ ~There(stack', c, "end")

\* What its having been told does.
LEMMA ToldMoves ==
  ASSUME CallbacksTyped, EndsApart, EndTold
  PROVE  \E c \in Conv : c = stack[1].conv /\ stack[1].at = "told" /\ Closed(c)
<1> DEFINE c == stack[1].conv
<1>1. Under(stack, stack')
  BY TakenOffStack
<1>2. /\ 1 \in DOMAIN stack /\ stack[1].at = "told" /\ Head(stack) = stack[1]
      /\ windows' = GoneWindow(c) /\ status' = status /\ count' = count
      /\ endings' = endings /\ coming' = coming /\ partner' = partner /\ misused' = misused
  BY StackParts DEF EndTold, Top
<1>3. c \in Conv /\ c = stack[1].conv
  BY <1>2, StackParts, FrameParts
<1> HIDE DEF c
<1>4. /\ \A i \in DOMAIN stack : i # 1 => i - 1 \in DOMAIN stack' /\ stack'[i - 1] = stack[i]
      /\ \A i \in DOMAIN stack' : i + 1 \in DOMAIN stack /\ i + 1 # 1 /\ stack'[i] = stack[i + 1]
  BY <1>1 DEF Under
<1>5. ASSUME NEW i \in DOMAIN stack, Follows(stack[i]), stack[i].conv = c PROVE i = 1
  BY <1>2, <1>3, <1>5 DEF EndsApart, PairApart, Follows
<1>6. /\ There(stack, c, "told") /\ ~There(stack, c, "end")
  BY <1>2, <1>3, <1>5 DEF There, Follows
<1>7. ~There(stack', c, "told") /\ ~There(stack', c, "end")
  BY <1>4, <1>5 DEF There, Follows
<1>8. ASSUME NEW x \in Conv, x # c, NEW at \in {"end", "told"}
      PROVE  There(stack', x, at) <=> There(stack, x, at)
  <2>1. ASSUME There(stack, x, at) PROVE There(stack', x, at)
    <3>1. PICK i \in DOMAIN stack : stack[i].at = at /\ stack[i].conv = x
      BY <2>1 DEF There
    <3>2. i # 1
      BY <1>3, <1>8, <3>1
    <3> QED BY <1>4, <3>1, <3>2 DEF There
  <2>2. ASSUME There(stack', x, at) PROVE There(stack, x, at)
    BY <1>4, <2>2 DEF There
  <2> QED BY <2>1, <2>2
<1>9. Others(c)
  BY <1>2, <1>8 DEF Others, Unmoved, GoneWindow
<1>10. c \in windows' <=> (c \in windows /\ ~({"terminated", "destroy"} \subseteq status[c]))
  BY <1>2 DEF GoneWindow
<1> QED BY <1>2, <1>3, <1>6, <1>7, <1>9, <1>10 DEF Closed

\* The partner's end.
LEMMA PartnerMoves ==
  ASSUME CallbacksTyped, NEW c \in Conv, PartnerEnds(c) \/ PartnerGone(c)
  PROVE  /\ Others(c)
         /\ windows' = windows /\ endings' = endings /\ count' = count
         /\ misused' = misused /\ status' = status /\ stack' = stack
         /\ \/ partner[c] = "open" /\ partner'[c] = "ended" /\ c \in coming'
            \/ partner'[c] = "gone" /\ coming' = coming
<1>1. /\ windows' = windows /\ endings' = endings /\ count' = count
      /\ misused' = misused /\ status' = status /\ stack' = stack
  BY DEF PartnerEnds, PartnerGone
<1>2. /\ \A x \in Conv : x # c => partner'[x] = partner[x]
      /\ \/ partner[c] = "open" /\ partner'[c] = "ended" /\ coming' = coming \cup {c}
         \/ partner'[c] = "gone" /\ coming' = coming
  BY DEF CallbacksTyped, PartnerEnds, PartnerGone
<1>3. Others(c)
  BY <1>1, <1>2 DEF Others, Unmoved
<1> QED BY <1>1, <1>2, <1>3

\* Whose end comes is not followed; whose end is followed is followed once.
LEMMA FollowedOnce ==
  ASSUME CallbacksTyped, EndsApart, NEW c \in Conv
  PROVE  /\ Followed(c) => c \notin coming /\ partner[c] # "open"
         /\ ~(There(stack, c, "end") /\ There(stack, c, "told"))
<1>1. Followed(c) => \E i \in DOMAIN stack : Follows(stack[i]) /\ stack[i].conv = c
  BY DEF Followed, There, Follows
<1>2. Followed(c) => c \notin coming /\ partner[c] # "open"
  BY <1>1 DEF EndsApart
<1>3. ~(There(stack, c, "end") /\ There(stack, c, "told"))
  BY DEF There, EndsApart, PairApart, Follows
<1> QED BY <1>2, <1>3

\* Every step keeps the flags in accord, whatever a program does.
LEMMA AccordKept ==
  ASSUME CallbacksTyped, Listed, Nested, EndsApart, Accord, count \in Nat, CallbacksNext
  PROVE  Accord'
<1>1. ASSUME NEW c \in Conv, Others(c), AccordOf(c)' PROVE Accord'
  BY <1>1, UnmovedKeeps DEF Accord, Others
<1>2. CASE Quiet
  BY <1>2, UnmovedKeeps DEF Quiet, Accord
<1>3. ASSUME NEW c \in Conv, Ending(c), "destroy" \notin status[c] \/ c \in endings PROVE Accord'
  <2>1. AccordOf(c)
    BY DEF Accord
  <2>2. AccordOf(c)'
    BY <1>3, <2>1, TerminatedIs, FollowedOnce DEF Ending, AccordOf, Followed
  <2> QED BY <1>1, <1>3, <2>2 DEF Ending
<1>4. ASSUME NEW c \in Conv, PartnerEnds(c) \/ PartnerGone(c) PROVE Accord'
  <2>1. AccordOf(c)
    BY DEF Accord
  <2>2. AccordOf(c)'
    BY <1>4, <2>1, PartnerMoves DEF AccordOf
  <2> QED BY <1>1, <1>4, <2>2, PartnerMoves
<1>5. ASSUME NEW c \in Conv, Disconnect(c) PROVE Accord'
  <2>1. AccordOf(c)
    BY DEF Accord
  <2>2. CASE Ending(c)
    BY <1>3, <1>5, <2>2, DisconnectMoves
  <2>3. CASE ~Ending(c)
    <3>1. /\ "destroy" \notin status[c] /\ c \in windows /\ Others(c)
          /\ status'[c] = status[c] /\ c \in windows' /\ partner'[c] = partner[c]
          /\ c \in coming' <=> c \in coming
          /\ \A at \in {"end", "told"} : There(stack', c, at) <=> There(stack, c, at)
      BY <1>5, <2>3, DisconnectMoves
    <3>2. AccordOf(c)'
      BY <2>1, <3>1 DEF AccordOf
    <3> QED BY <1>1, <3>1, <3>2
  <2> QED BY <2>2, <2>3
<1>6. ASSUME NEW c \in Conv, DispatchEnding(c) PROVE Accord'
  BY <1>2, <1>3, <1>6, EndingMoves
<1>7. ASSUME NEW c \in Conv, DispatchTerminate(c) PROVE Accord'
  <2>1. AccordOf(c)
    BY DEF Accord
  <2>2. Quiet \/ Concluded(c) \/ Beginning(c)
    BY <1>7, TerminateAnswered
  <2>3. CASE Concluded(c)
    <3>1. ~Followed(c)
      BY <2>3, FollowedOnce DEF Concluded
    <3>2. AccordOf(c)'
      BY <2>1, <2>3, <3>1 DEF Concluded, AccordOf, Followed
    <3> QED BY <1>1, <2>3, <3>2 DEF Concluded
  <2>4. CASE Beginning(c)
    <3>1. AccordOf(c)'
      BY <2>1, <2>4 DEF Beginning, AccordOf
    <3> QED BY <1>1, <2>4, <3>1 DEF Beginning
  <2> QED BY <1>2, <2>2, <2>3, <2>4
<1>8. CASE TellEnd
  <2>1. PICK c \in Conv : Told(c)
    BY <1>8, TellMoves
  <2>2. AccordOf(c) /\ (Followed(c) => c \notin coming /\ partner[c] # "open")
    BY FollowedOnce DEF Accord
  <2>3. AccordOf(c)'
    BY <2>1, <2>2 DEF Told, AccordOf, Followed
  <2> QED BY <1>1, <2>1, <2>3 DEF Told
<1>9. CASE EndTold
  <2>1. PICK c \in Conv : Closed(c)
    BY <1>9, ToldMoves
  <2>2. AccordOf(c) /\ (Followed(c) => c \notin coming /\ partner[c] # "open")
    BY FollowedOnce DEF Accord
  <2>3. AccordOf(c)'
    BY <2>1, <2>2 DEF Closed, AccordOf, Followed
  <2> QED BY <1>1, <2>1, <2>3 DEF Closed
<1> QED BY <1>2, <1>4, <1>5, <1>6, <1>7, <1>8, <1>9, QuietSteps

\* Every step keeps the flags clean, but for an end in an end.
LEMMA CleanKept ==
  ASSUME CallbacksTyped, Listed, Nested, EndsApart, Accord, Clean, count \in Nat, CallbacksNext
  PROVE  Clean'
<1>1. ASSUME NEW c \in Conv, Others(c), \A x \in Conv : CleanOf(x), CleanOf(c)' PROVE Clean'
  BY <1>1, UnmovedKeeps DEF Clean, Others
<1>2. CASE Quiet
  <2>1. "ended" \in misused => Clean'
    BY <1>2 DEF Quiet, Clean
  <2> QED BY <1>2, <2>1, UnmovedKeeps DEF Quiet, Clean
<1>3. ASSUME NEW c \in Conv, Ending(c), "destroy" \notin status[c] \/ c \in endings,
             \A x \in Conv : CleanOf(x), ~Followed(c)
      PROVE  Clean'
  <2>1. AccordOf(c) /\ CleanOf(c)
    BY <1>3 DEF Accord
  <2>2. "connected" \in status[c] /\ "awaited" \notin status[c] /\ "terminated" \notin status[c]
    BY <1>3, <2>1 DEF Ending, CleanOf, AccordOf
  <2>3. CleanOf(c)'
    BY <1>3, <2>1, <2>2, TerminatedIs DEF Ending, CleanOf, Followed, Counted
  <2> QED BY <1>1, <1>3, <2>3 DEF Ending
<1>4. ASSUME NEW c \in Conv, PartnerEnds(c) \/ PartnerGone(c) PROVE Clean'
  <2>1. CleanOf(c) => CleanOf(c)'
    BY <1>4, PartnerMoves DEF CleanOf, Followed
  <2>2. "ended" \in misused => Clean'
    BY <1>4, PartnerMoves DEF Clean
  <2> QED BY <1>1, <1>4, <2>1, <2>2, PartnerMoves DEF Clean
<1>5. ASSUME NEW c \in Conv, Disconnect(c) PROVE Clean'
  <2>1. "ended" \in misused => Clean'
    BY <1>5, DisconnectMoves DEF Clean
  <2>2. CASE Ending(c) /\ ~Followed(c)
    BY <1>3, <1>5, <2>1, <2>2, DisconnectMoves DEF Clean
  <2>3. CASE ~(Ending(c) /\ ~Followed(c))
    <3>1. /\ "destroy" \notin status[c] /\ c \in windows /\ Others(c)
          /\ status'[c] = status[c] /\ c \in windows' /\ partner'[c] = partner[c]
          /\ c \in coming' <=> c \in coming
          /\ \A at \in {"end", "told"} : There(stack', c, at) <=> There(stack, c, at)
      BY <1>5, <2>3, DisconnectMoves
    <3>2. AccordOf(c)
      BY DEF Accord
    <3>3. CleanOf(c) => CleanOf(c)'
      BY <3>1, <3>2 DEF AccordOf, CleanOf, Followed
    <3> QED BY <1>1, <2>1, <3>1, <3>3 DEF Clean
  <2> QED BY <2>2, <2>3
<1>6. ASSUME NEW c \in Conv, DispatchEnding(c) PROVE Clean'
  <2>1. CASE Quiet
    BY <1>2, <2>1
  <2>2. CASE ~Quiet
    <3>1. /\ Ending(c) /\ c \in endings
          /\ "ended" \in misused => "ended" \in misused'
          /\ "ended" \in misused' \/ ~Followed(c)
      BY <1>6, <2>2, EndingMoves
    <3>2. "ended" \in misused' => Clean'
      BY DEF Clean
    <3> QED BY <1>3, <3>1, <3>2 DEF Clean
  <2> QED BY <2>1, <2>2
<1>7. ASSUME NEW c \in Conv, DispatchTerminate(c) PROVE Clean'
  <2>1. AccordOf(c) /\ misused' = misused
    BY <1>7, TerminateAnswered DEF Accord
  <2>2. Quiet \/ Concluded(c) \/ Beginning(c)
    BY <1>7, TerminateAnswered
  <2>3. "ended" \in misused => Clean'
    BY <2>1 DEF Clean
  <2>4. c \in coming => ~Followed(c)
    BY FollowedOnce
  <2>5. CASE Concluded(c)
    <3>1. CleanOf(c) => CleanOf(c)'
      BY <2>1, <2>4, <2>5 DEF Concluded, AccordOf, CleanOf, Followed
    <3> QED BY <1>1, <2>3, <2>5, <3>1 DEF Concluded, Clean
  <2>6. CASE Beginning(c)
    <3>1. CleanOf(c) => CleanOf(c)'
      BY <2>1, <2>4, <2>6 DEF Beginning, CleanOf, Followed
    <3> QED BY <1>1, <2>3, <2>6, <3>1 DEF Beginning, Clean
  <2> QED BY <1>2, <2>2, <2>5, <2>6
<1>8. CASE TellEnd
  <2>1. PICK c \in Conv : Told(c)
    BY <1>8, TellMoves
  <2>2. CleanOf(c) => CleanOf(c)'
    BY <2>1 DEF Told, CleanOf, Followed
  <2> QED BY <1>1, <2>1, <2>2 DEF Told, Clean
<1>9. CASE EndTold
  <2>1. PICK c \in Conv : Closed(c)
    BY <1>9, ToldMoves
  <2>2. CleanOf(c) => CleanOf(c)'
    BY <2>1 DEF Closed, CleanOf, Followed
  <2> QED BY <1>1, <2>1, <2>2 DEF Closed, Clean
<1> QED BY <1>2, <1>4, <1>5, <1>6, <1>7, <1>8, <1>9, QuietSteps

\* The awaited where one flag changes.
LEMMA AwaitedMoves ==
  ASSUME NEW c \in Conv, Others(c)
  PROVE  Awaited' = IF "awaited" \in status'[c] THEN Awaited \cup {c} ELSE Awaited \ {c}
<1>1. \A x \in Conv : x # c => (x \in Awaited' <=> x \in Awaited)
  BY DEF Others, Unmoved, Core, Awaited
<1>2. c \in Awaited' <=> "awaited" \in status'[c]
  BY DEF Awaited
<1>3. Awaited \subseteq Conv /\ Awaited' \subseteq Conv
  BY DEF Awaited
<1> QED BY <1>1, <1>2, <1>3

\* Every step keeps the terminations counted.
LEMMA CountsKept ==
  ASSUME CallbacksTyped, Listed, Nested, EndsApart, Accord, Clean, Counts, CallbacksNext
  PROVE  Counts'
<1> DEFINE n == Cardinality(Awaited)
           m == Cardinality(Awaited')
<1>1. IsFiniteSet(Awaited) /\ n \in Nat
  BY CallbacksAssumption, FS_Subset, FS_CardinalityType DEF Awaited
<1>2. /\ count \in Nat /\ n <= count
      /\ "ended" \in misused \/ count = n
  BY DEF Counts, TerminationsCounted, Awaited
<1>3. ASSUME NEW k, count' = k, k \in Nat, m <= k, "ended" \in misused' \/ k = m PROVE Counts'
  BY <1>3 DEF Counts, TerminationsCounted, Awaited
<1>4. \A c \in Awaited : /\ Cardinality(Awaited \ {c}) = n - 1 /\ n - 1 \in Nat
                         /\ Awaited \cup {c} = Awaited
  <2>1. \A c \in Awaited : Cardinality(Awaited \ {c}) = n - 1
    BY <1>1, FS_RemoveElement
  <2>2. \A c \in Awaited : IsFiniteSet(Awaited \ {c})
    BY <1>1, FS_Subset
  <2>3. \A c \in Awaited : n - 1 \in Nat
    BY <2>1, <2>2, FS_CardinalityType
  <2> QED BY <2>1, <2>3
<1>5. \A c : c \notin Awaited => /\ Cardinality(Awaited \cup {c}) = n + 1
                                 /\ Awaited \ {c} = Awaited
  BY <1>1, FS_AddElement
<1> HIDE DEF n
<1>6. ASSUME Awaited' = Awaited, count' = count, "ended" \in misused => "ended" \in misused'
      PROVE  Counts'
  <2>1. m = n
    BY <1>6 DEF n
  <2> QED BY <1>2, <1>3, <1>6, <2>1
<1>7. CASE Quiet
  <2>1. Awaited' = Awaited
    BY <1>7 DEF Quiet, Unmoved, Core, Awaited
  <2> QED BY <1>6, <1>7, <2>1 DEF Quiet
<1>8. ASSUME NEW c \in Conv, Ending(c), "ended" \in misused => "ended" \in misused' PROVE Counts'
  <2>1. Awaited' = IF "awaited" \in status'[c] THEN Awaited \cup {c} ELSE Awaited \ {c}
    BY <1>8, AwaitedMoves DEF Ending
  <2>2. /\ "awaited" \in status[c] <=> c \in Awaited
        /\ count' = count + (IF Counted(c) THEN 1 ELSE 0)
        /\ "awaited" \in status'[c] <=> (IF Counted(c) THEN c \notin Awaited ELSE c \in Awaited)
    BY <1>8, TerminatedIs DEF Ending, Awaited
  <2>3. CASE ~Counted(c)
    <3>1. Awaited' = Awaited
      BY <1>5, <2>1, <2>2, <2>3, <1>4
    <3>2. count' = count
      BY <1>2, <2>2, <2>3
    <3> QED BY <1>6, <1>8, <3>1, <3>2
  <2>4. CASE Counted(c) /\ c \notin Awaited
    <3>1. Awaited' = Awaited \cup {c} /\ count' = count + 1
      BY <2>1, <2>2, <2>4
    <3>2. m = n + 1
      BY <1>5, <2>4, <3>1
    <3> HIDE DEF m
    <3>3. count + 1 \in Nat /\ m <= count + 1 /\ ("ended" \in misused' \/ count + 1 = m)
      BY <1>1, <1>2, <1>8, <3>2
    <3> QED BY <1>3, <3>1, <3>3
  <2>5. CASE Counted(c) /\ c \in Awaited
    <3>1. Awaited' = Awaited \ {c} /\ count' = count + 1
      BY <2>1, <2>2, <2>5
    <3>2. m = n - 1
      BY <1>4, <2>5, <3>1
    <3>3. "ended" \in misused
      BY <1>8, <2>2, <2>5 DEF Clean, CleanOf, Counted, Ending
    <3> HIDE DEF m
    <3>4. count + 1 \in Nat /\ m <= count + 1 /\ "ended" \in misused'
      BY <1>1, <1>2, <1>8, <3>2, <3>3
    <3> QED BY <1>3, <3>1, <3>4
  <2> QED BY <2>3, <2>4, <2>5
<1>9. ASSUME NEW c \in Conv, Others(c), count' = count, misused' = misused,
             "awaited" \in status'[c] <=> "awaited" \in status[c]
      PROVE  Counts'
  <2>1. "awaited" \in status[c] <=> c \in Awaited
    BY DEF Awaited
  <2>2. Awaited' = Awaited
    BY <1>4, <1>5, <1>9, <2>1, AwaitedMoves
  <2> QED BY <1>6, <1>9, <2>2
<1>10. ASSUME NEW c \in Conv, PartnerEnds(c) \/ PartnerGone(c) PROVE Counts'
  BY <1>9, <1>10, PartnerMoves
<1>11. ASSUME NEW c \in Conv, Disconnect(c) PROVE Counts'
  BY <1>8, <1>9, <1>11, DisconnectMoves
<1>12. ASSUME NEW c \in Conv, DispatchEnding(c) PROVE Counts'
  BY <1>7, <1>8, <1>12, EndingMoves
<1>13. ASSUME NEW c \in Conv, DispatchTerminate(c) PROVE Counts'
  <2>1. misused' = misused /\ (Quiet \/ Concluded(c) \/ Beginning(c))
    BY <1>2, <1>13, TerminateAnswered
  <2>2. CASE Concluded(c)
    <3>1. "awaited" \in status[c] <=> c \in Awaited
      BY DEF Awaited
    <3>2. Awaited' = Awaited \ {c}
      BY <2>2, AwaitedMoves DEF Concluded
    <3>3. CASE c \in Awaited
      <4>1. count' = count - 1
        BY <2>2, <3>1, <3>3 DEF Concluded
      <4>2. m = n - 1 /\ n - 1 \in Nat
        BY <1>4, <3>2, <3>3
      <4> HIDE DEF m
      <4>3. count - 1 \in Nat /\ m <= count - 1 /\ ("ended" \in misused' \/ count - 1 = m)
        BY <1>1, <1>2, <2>1, <4>2
      <4> QED BY <1>3, <4>1, <4>3
    <3>4. CASE c \notin Awaited
      <4>1. count' = count
        BY <2>2, <3>1, <3>4 DEF Concluded
      <4> QED BY <1>5, <1>6, <2>1, <3>2, <3>4, <4>1
    <3> QED BY <3>3, <3>4
  <2>3. CASE Beginning(c)
    BY <1>9, <2>1, <2>3 DEF Beginning
  <2> QED BY <1>7, <2>1, <2>2, <2>3
<1>14. CASE TellEnd
  <2>1. PICK c \in Conv : Told(c)
    BY <1>14, TellMoves
  <2> QED BY <1>9, <2>1 DEF Told
<1>15. CASE EndTold
  <2>1. PICK c \in Conv : Closed(c)
    BY <1>15, ToldMoves
  <2> QED BY <1>9, <2>1 DEF Closed
<1> QED BY <1>7, <1>10, <1>11, <1>12, <1>13, <1>14, <1>15, QuietSteps

\* No step ends the conversation waited for.
LEMMA WaitedStandsKept ==
  ASSUME CallbacksTyped, Listed, Nested, OneWait, EndsApart, WaitedStands, count \in Nat,
         CallbacksNext
  PROVE  WaitedStands'
<1> DEFINE Stands(c) == c \in windows /\ "connected" \in status[c]
<1>1. ASSUME NEW c \in Conv, Others(c), waited # c, waited' = waited PROVE WaitedStands'
  <2>1. CASE waited # NoConv
    <3>1. waited \in Conv /\ Unmoved(waited)
      BY <1>1, <2>1 DEF CallbacksTyped, Others
    <3> QED BY <1>1, <2>1, <3>1 DEF WaitedStands, Unmoved, Core
  <2> QED BY <1>1, <2>1 DEF WaitedStands
<1>2. ASSUME Quiet, waited' = waited PROVE WaitedStands'
  <2>1. CASE waited # NoConv
    <3>1. waited \in Conv /\ Unmoved(waited)
      BY <1>2, <2>1 DEF CallbacksTyped, Quiet
    <3> QED BY <1>2, <2>1, <3>1 DEF WaitedStands, Unmoved, Core
  <2> QED BY <1>2, <2>1 DEF WaitedStands
<1>3. ASSUME status' = status, windows' = windows, waited' = waited \/ waited' = NoConv
      PROVE  WaitedStands'
  BY <1>3 DEF WaitedStands
<1>4. \A i \in DOMAIN stack : Follows(stack[i]) /\ i = 1 /\ waited # NoConv => waited # stack[i].conv
  <2>1. waited # NoConv => \E j \in DOMAIN stack : stack[j].at = "wait" /\ stack[j].conv = waited
    BY DEF OneWait
  <2>2. \A j \in DOMAIN stack : stack[j].at = "wait" => ~Follows(stack[j])
    BY DEF Follows
  <2>3. \A j \in DOMAIN stack : j = 1 \/ 1 < j
    BY StackParts
  <2> QED BY <2>1, <2>2, <2>3 DEF EndsApart, PairApart
<1>5. ASSUME NEW c \in Conv, Disconnect(c) \/ DispatchEnding(c) \/ DispatchTerminate(c)
      PROVE  WaitedStands'
  <2>1. waited' = waited
    BY <1>5 DEF Disconnect, DispatchEnding, DispatchTerminate
  <2>2. CASE Later(c)
    <3>1. status' = status /\ windows' = windows
      BY <1>5, <2>2 DEF Disconnect, DispatchEnding, DispatchTerminate
    <3> QED BY <1>3, <2>1, <3>1
  <2>3. CASE ~Later(c)
    <3>1. Quiet \/ Others(c)
      BY <1>5, DisconnectMoves, EndingMoves, TerminateAnswered DEF Ending, Concluded, Beginning
    <3>2. waited # c
      BY <2>3 DEF Later
    <3> QED BY <1>1, <1>2, <2>1, <3>1, <3>2
  <2> QED BY <2>2, <2>3
<1>6. CASE TellEnd
  <2>1. PICK c \in Conv : c = stack[1].conv /\ stack[1].at = "end" /\ Told(c)
    BY <1>6, TellMoves
  <2>2. 1 \in DOMAIN stack /\ waited' = waited
    BY <1>6, TellStack DEF TellEnd
  <2>3. waited = NoConv \/ waited # c
    BY <1>4, <2>1, <2>2 DEF Follows
  <2>4. waited # c
    BY <2>3, CallbacksAssumption
  <2> QED BY <1>1, <2>1, <2>2, <2>4 DEF Told
<1>7. CASE EndTold
  <2>1. PICK c \in Conv : c = stack[1].conv /\ stack[1].at = "told" /\ Closed(c)
    BY <1>7, ToldMoves
  <2>2. 1 \in DOMAIN stack /\ waited' = waited
    BY <1>7, StackParts DEF EndTold, Top
  <2>3. waited = NoConv \/ waited # c
    BY <1>4, <2>1, <2>2 DEF Follows
  <2>4. waited # c
    BY <2>3, CallbacksAssumption
  <2> QED BY <1>1, <2>1, <2>2, <2>4 DEF Closed
<1>8. ASSUME NEW c \in Conv, PartnerEnds(c) \/ PartnerGone(c) PROVE WaitedStands'
  BY <1>3, <1>8 DEF PartnerEnds, PartnerGone
<1>9. ASSUME NEW c \in Conv, WaitFor(c) PROVE WaitedStands'
  BY <1>9 DEF WaitFor, WaitedStands, convs
<1>10. CASE WaitDone
  BY <1>3, <1>10 DEF WaitDone, convs
<1>11. \/ waited' = waited \/ WaitDone \/ \E c \in Conv : WaitFor(c)
  BY DEF CallbacksNext, DispatchRun, RunDone, RunNext, CallbackReturns, EnableCallback, WaitOver,
         TellEnd, EndTold, Arrive, Disconnect, DispatchEnding, DispatchTerminate,
         PartnerEnds, PartnerGone
<1> QED BY <1>2, <1>5, <1>6, <1>7, <1>8, <1>9, <1>10, <1>11, QuietSteps

-----------------------------------------------------------------------------
(* The callbacks: the ways the list changes.                               *)

\* The callback done with is out of the list.
Without(n) == In(n) /\ callbacks' = LeftWithout(n) /\ came' = came

\* The list stays as it is, gets one more, or loses the one a run is at.
LEMMA ListStep ==
  ASSUME CallbacksTyped, Listed, CallbacksNext
  PROVE  \/ callbacks' = callbacks /\ came' = came
         \/ \E c \in Conv : Arrive(c) /\ Arrived(c)
         \/ Without(stack[1].item) /\ (RunNext \/ CallbackReturns(FALSE))
<1>1. CASE RunNext
  <2>1. stack # <<>> /\ Head(stack) = stack[1] /\ In(stack[1].item)
    BY <1>1, RunNextStack, StackParts DEF RunNext, Top
  <2>2. came' = came /\ (callbacks' = callbacks \/ callbacks' = LeftWithout(stack[1].item))
    BY <1>1, <2>1 DEF RunNext
  <2> QED BY <1>1, <2>1, <2>2 DEF Without
<1>2. CASE CallbackReturns(TRUE)
  BY <1>2 DEF CallbackReturns
<1>3. CASE CallbackReturns(FALSE)
  <2>1. stack # <<>> /\ Head(stack) = stack[1] /\ In(stack[1].item)
    BY <1>3, ReturnsStack, StackParts DEF CallbackReturns, Top
  <2> QED BY <1>3, <2>1 DEF CallbackReturns, Without
<1>4. \A c \in Conv : Arrive(c) => Arrived(c)
  BY DEF Arrive, Arrived
<1>5. \/ callbacks' = callbacks /\ came' = came
      \/ RunNext \/ (\E c \in Conv : Arrive(c))
      \/ CallbackReturns(TRUE) \/ CallbackReturns(FALSE)
  BY DEF CallbacksNext, DispatchRun, RunDone, EnableCallback, WaitOver, WaitDone, TellEnd,
         EndTold, WaitFor, Disconnect, DispatchEnding, DispatchTerminate,
         PartnerEnds, PartnerGone
<1> QED BY <1>1, <1>2, <1>3, <1>4, <1>5

\* What is in the list was, or has come in.
LEMMA ListFrom ==
  ASSUME CallbacksTyped, ArrivedOnce, Listed, CallbacksNext
  PROVE  /\ \A j \in DOMAIN callbacks' :
              \/ \E i \in DOMAIN callbacks : callbacks'[j] = callbacks[i]
              \/ \E c \in Conv : /\ Arrive(c) /\ callbacks'[j].conv = c
                                 /\ callbacks'[j].n = came + 1 /\ came' = came + 1
         /\ came \in Nat /\ came' \in Nat /\ came <= came'
<1>1. came \in Nat /\ came' \in Nat
  BY OthersTyped, CallbacksAssumption DEF CallbacksTyped
<1>2. CASE callbacks' = callbacks /\ came' = came
  BY <1>1, <1>2
<1>3. ASSUME NEW c \in Conv, Arrive(c), Arrived(c)
      PROVE  /\ \A j \in DOMAIN callbacks' :
                  \/ \E i \in DOMAIN callbacks : callbacks'[j] = callbacks[i]
                  \/ callbacks'[j].conv = c /\ callbacks'[j].n = came + 1
             /\ came' = came + 1
  BY <1>3, ArriveList DEF Arrived
<1>4. ASSUME NEW n, Without(n)
      PROVE  /\ \A j \in DOMAIN callbacks' : \E i \in DOMAIN callbacks : callbacks'[j] = callbacks[i]
             /\ came' = came
  BY <1>4, WithoutIs DEF Without, Kept
<1>5. came <= came' /\ \A j \in DOMAIN callbacks' :
           \/ \E i \in DOMAIN callbacks : callbacks'[j] = callbacks[i]
           \/ \E c \in Conv : /\ Arrive(c) /\ callbacks'[j].conv = c
                              /\ callbacks'[j].n = came + 1 /\ came' = came + 1
  <2>1. CASE \E c \in Conv : Arrive(c) /\ Arrived(c)
    <3>1. PICK c \in Conv : Arrive(c) /\ Arrived(c)
      BY <2>1
    <3>2. came <= came'
      BY <1>1, <1>3, <3>1
    <3>3. ASSUME NEW j \in DOMAIN callbacks', ~\E i \in DOMAIN callbacks : callbacks'[j] = callbacks[i]
          PROVE  callbacks'[j].conv = c /\ callbacks'[j].n = came + 1 /\ came' = came + 1
      BY <1>3, <3>1, <3>3
    <3> QED BY <3>1, <3>2, <3>3
  <2>2. CASE Without(stack[1].item)
    BY <1>1, <1>4, <2>2
  <2> QED BY <1>1, <1>2, <2>1, <2>2, ListStep
<1> QED BY <1>1, <1>5

\* Every step keeps each callback among those that have come in.
LEMMA ArrivedOnceKept ==
  ASSUME CallbacksTyped, ArrivedOnce, Listed, CallbacksNext
  PROVE  ArrivedOnce'
BY ListFrom, ListParts DEF ArrivedOnce

\* And each one made.
LEMMA HistoriesKept ==
  ASSUME CallbacksTyped, ArrivedOnce, Listed, Histories, CallbacksNext
  PROVE  Histories'
<1>1. came \in Nat /\ came' \in Nat /\ came <= came'
  BY ListFrom
<1>2. made \in [Conv -> Nat]
  <2>1. Serial \cup {0} \subseteq Nat
    BY CallbacksAssumption DEF Serial
  <2>2. made \in [Conv -> Serial \cup {0}]
    BY DEF CallbacksTyped
  <2> QED BY <2>1, <2>2
<1>3. CASE made' = made
  <2>1. \A c \in Conv : made[c] \in Nat /\ made[c] <= came
    BY <1>2 DEF Histories
  <2> QED BY <1>1, <1>3, <2>1 DEF Histories
<1>4. CASE RunNext /\ made' # made
  <2>1. stack # <<>> /\ Head(stack) = stack[1] /\ In(stack[1].item)
    BY <1>4, RunNextStack, StackParts DEF RunNext, Top
  <2> DEFINE n == stack[1].item
             c == Waiting(n).conv
  <2>2. made' = [made EXCEPT ![c] = n]
    BY <1>4, <2>1 DEF RunNext
  <2>3. n <= came /\ n \in Nat /\ c \in Conv
    BY <2>1, PlaceIs, ListParts DEF ArrivedOnce
  <2> HIDE DEF n, c
  <2>4. \A x \in Conv : made'[x] \in Nat /\ made'[x] <= came
    BY <1>2, <2>2, <2>3 DEF Histories
  <2> QED BY <1>1, <2>4 DEF Histories
<1>5. \/ made' = made \/ RunNext
  BY DEF CallbacksNext, DispatchRun, RunDone, EnableCallback, WaitOver, WaitDone, TellEnd,
         EndTold, Arrive, WaitFor, Disconnect, DispatchEnding, DispatchTerminate,
         PartnerEnds, PartnerGone, CallbackReturns
<1> QED BY <1>3, <1>4, <1>5

\* What stays in the list.
Lasts(n) == \E j \in DOMAIN callbacks' : callbacks'[j].n = n

\* A callback stays in the list but where a step takes it out.
LEMMA InKept ==
  ASSUME CallbacksTyped, ArrivedOnce, Listed, CallbacksNext, NEW n, In(n),
         ~(Without(n) /\ stack[1].item = n)
  PROVE  Lasts(n)
<1>1. PICK i \in DOMAIN callbacks : callbacks[i].n = n
  BY DEF In
<1>2. CASE callbacks' = callbacks
  BY <1>1, <1>2 DEF Lasts
<1>3. ASSUME NEW c \in Conv, Arrived(c) PROVE Lasts(n)
  BY <1>1, <1>3, ArriveList DEF Lasts
<1>4. CASE Without(stack[1].item) /\ stack[1].item # n
  <2>1. \E j \in DOMAIN callbacks' : callbacks'[j] = callbacks[i]
    BY <1>1, <1>4, WithoutIs DEF Without, Kept
  <2> QED BY <1>1, <2>1 DEF Lasts
<1> QED BY <1>2, <1>3, <1>4, ListStep

\* Every step keeps what frames speak of in the list.
LEMMA ListedKept ==
  ASSUME CallbacksTyped, ArrivedOnce, Listed, Nested, CallbacksNext
  PROVE  Listed'
<1> DEFINE Good(f) == /\ f.at = "run" => f.item = 0 \/ Lasts(f.item)
                      /\ f.at = "called" => /\ Lasts(f.item)
                                            /\ f.next = 0 \/ Lasts(f.next)
                                            /\ f.next # 0 => f.item < f.next
<1> SUFFICES \A i \in DOMAIN stack' : Good(stack'[i])
  BY DEF Listed, In, Lasts
<1>1. ASSUME ~(RunNext \/ CallbackReturns(FALSE)), NEW i \in DOMAIN stack PROVE Good(stack[i])
  <2>1. \A n : In(n) => Lasts(n)
    <3>1. CASE callbacks' = callbacks
      BY <3>1 DEF In, Lasts
    <3>2. ASSUME NEW c \in Conv, Arrived(c), NEW n, In(n) PROVE Lasts(n)
      BY <3>2, ArriveList DEF In, Lasts
    <3> QED BY <1>1, <3>1, <3>2, ListStep
  <2> QED BY <2>1 DEF Listed
<1>2. First(callbacks) # 0 /\ callbacks' = callbacks => Lasts(First(callbacks))
  BY FirstIs DEF In, Lasts
<1> HIDE DEF Good
<1>3. CASE RunNext
  <2> DEFINE n == stack[1].item
             next == NextAfter(n)
             called == [at |-> "called", item |-> n, next |-> next]
             on == [at |-> "run", item |-> next, next |-> 0]
  <2>1. /\ 1 \in DOMAIN stack /\ stack[1].at = "run" /\ In(n) /\ ~UnderWay
        /\ InPlace(stack, stack', on) \/ InPlace(stack, stack', called)
    BY <1>3, RunNextStack
  <2>2. next # 0 => In(next) /\ n < next
    BY <2>1, NextIs
  <2>3. n \in Nat /\ next \in Nat
    BY <2>1, NextIs, PlaceIs, ListParts
  <2>4. next = 0 \/ Lasts(next)
    BY <2>2, <2>3, InKept
  <2>5. Good(on)
    BY <2>4 DEF Good
  <2>6. InPlace(stack, stack', called) => Lasts(n)
    <3>1. InPlace(stack, stack', called) => stack'[1].at = "called"
      BY DEF InPlace
    <3>2. stack # <<>> /\ Head(stack) = stack[1]
      BY <1>3, StackParts DEF RunNext, Top
    <3>3. \/ /\ stack' = <<on>> \o Tail(stack)
          \/ callbacks' = callbacks
      BY <1>3, <3>2 DEF RunNext
    <3>4. stack' = <<on>> \o Tail(stack) => stack'[1].at = "run"
      <4>1. on \in Frame
        BY <2>1, NextIs, FramesMade
      <4>2. on.at = "run"
        OBVIOUS
      <4> HIDE DEF on
      <4>3. InPlace(stack, <<on>> \o Tail(stack), on)
        BY <3>2, <4>1, PutInPlace DEF CallbacksTyped
      <4> QED BY <4>2, <4>3 DEF InPlace
    <3>5. callbacks' = callbacks => Lasts(n)
      BY <2>1 DEF In, Lasts
    <3> QED BY <3>1, <3>3, <3>4, <3>5
  <2>7. InPlace(stack, stack', called) => Good(called)
    BY <2>2, <2>4, <2>6 DEF Good
  <2> HIDE DEF on, called, n, next
  <2>8. \A i \in DOMAIN stack' : i # 1 => stack'[i] = stack[i] /\ i \in DOMAIN stack
    BY <2>1 DEF InPlace
  <2>9. \A i \in DOMAIN stack : i # 1 => stack[i].at # "run" /\ stack[i].at # "called"
    BY <2>1 DEF Nested, UnderWay
  <2>10. \A i \in DOMAIN stack' : i # 1 => Good(stack'[i])
    BY <2>8, <2>9 DEF Good
  <2>11. Good(stack'[1])
    BY <2>1, <2>5, <2>7 DEF InPlace
  <2> QED BY <2>10, <2>11
<1>4. ASSUME NEW block \in BOOLEAN, CallbackReturns(block) PROVE \A i \in DOMAIN stack' : Good(stack'[i])
  <2> DEFINE n == stack[1].item
             next == stack[1].next
             on == [at |-> "run", item |-> next, next |-> 0]
  <2>1. /\ 1 \in DOMAIN stack /\ stack[1].at = "called" /\ In(n)
        /\ InPlace(stack, stack', on)
    BY <1>4, ReturnsStack
  <2>2. next # 0 => In(next) /\ n < next
    BY <2>1 DEF Listed
  <2>3. n \in Nat /\ (next # 0 => next \in Nat)
    BY <2>1, <2>2, PlaceIs, ListParts
  <2>4. next = 0 \/ Lasts(next)
    BY <2>2, <2>3, InKept
  <2>5. Good(on)
    BY <2>4 DEF Good
  <2> HIDE DEF on, n, next
  <2>6. \A i \in DOMAIN stack' : i # 1 => stack'[i] = stack[i] /\ i \in DOMAIN stack
    BY <2>1 DEF InPlace
  <2>7. \A i \in DOMAIN stack : i # 1 => stack[i].at # "run" /\ stack[i].at # "called"
    <3>1. \A i \in DOMAIN stack : i # 1 => 1 < i
      BY StackParts
    <3>2. \A i \in DOMAIN stack : 1 < i => ~Makes(stack[i])
      BY <2>1 DEF Nested
    <3>3. \A i \in DOMAIN stack : i # 1 => stack[i].at # "run"
      BY DEF Nested
    <3> QED BY <3>1, <3>2, <3>3 DEF Makes
  <2>8. \A i \in DOMAIN stack' : i # 1 => Good(stack'[i])
    BY <2>6, <2>7 DEF Good
  <2>9. Good(stack'[1])
    BY <2>1, <2>5 DEF InPlace
  <2> QED BY <2>8, <2>9
<1>5. CASE ~(RunNext \/ \E block \in BOOLEAN : CallbackReturns(block))
  <2>1. \A i \in DOMAIN stack : Good(stack[i])
    BY <1>1, <1>5
  <2>2. CASE stack' = stack
    BY <2>1, <2>2
  <2>3. CASE RunOn
    <3>1. /\ stack'[1] = ToRun
          /\ \A i \in DOMAIN stack' : i # 1 => i - 1 \in DOMAIN stack /\ stack'[i] = stack[i - 1]
      BY <2>3 DEF RunOn, Over
    <3>2. Good(ToRun)
      <4>1. callbacks' = callbacks \/ \E c \in Conv : Arrived(c)
        BY <1>5, ListStep
      <4>2. First(callbacks) = 0 \/ Lasts(First(callbacks))
        BY <1>2, <4>1, FirstIs, ArriveList DEF In, Lasts
      <4> QED BY <4>2, RunIs DEF Good
    <3> QED BY <2>1, <3>1, <3>2
  <2>4. ASSUME NEW c \in Conv, WaitOn(c) PROVE \A i \in DOMAIN stack' : Good(stack'[i])
    <3>1. /\ stack'[1].at = "wait"
          /\ \A i \in DOMAIN stack' : i # 1 => i - 1 \in DOMAIN stack /\ stack'[i] = stack[i - 1]
      BY <2>4 DEF WaitOn, Over
    <3>2. Good(stack'[1])
      BY <3>1 DEF Good
    <3> QED BY <2>1, <3>1, <3>2
  <2>5. ASSUME NEW c \in Conv, EndOn(c) PROVE \A i \in DOMAIN stack' : Good(stack'[i])
    <3>1. /\ stack'[1] = ToRun /\ stack'[2].at = "end"
          /\ \A i \in DOMAIN stack' : i = 1 \/ i = 2 \/ (i - 2 \in DOMAIN stack /\ stack'[i] = stack[i - 2])
      BY <2>5 DEF EndOn, Twice
    <3>2. Good(ToRun)
      <4>1. callbacks' = callbacks \/ \E d \in Conv : Arrived(d)
        BY <1>5, ListStep
      <4>2. First(callbacks) = 0 \/ Lasts(First(callbacks))
        BY <1>2, <4>1, FirstIs, ArriveList DEF In, Lasts
      <4> QED BY <4>2, RunIs DEF Good
    <3>3. Good(stack'[2])
      BY <3>1 DEF Good
    <3> QED BY <2>1, <3>1, <3>2, <3>3
  <2>6. ASSUME NEW at, Off(at) PROVE \A i \in DOMAIN stack' : Good(stack'[i])
    <3>1. \A i \in DOMAIN stack' : i + 1 \in DOMAIN stack /\ stack'[i] = stack[i + 1]
      BY <2>6 DEF Off, Under
    <3> QED BY <2>1, <3>1
  <2>7. CASE Telling
    <3>1. /\ stack'[1].at = "told"
          /\ \A i \in DOMAIN stack' : i # 1 => i \in DOMAIN stack /\ stack'[i] = stack[i]
      BY <2>7 DEF Telling, InPlace
    <3>2. Good(stack'[1])
      BY <3>1 DEF Good
    <3> QED BY <2>1, <3>1, <3>2
  <2> QED BY <1>5, <2>2, <2>3, <2>4, <2>5, <2>6, <2>7, StackStep
<1> QED BY <1>3, <1>4, <1>5

-----------------------------------------------------------------------------
(* The callbacks: their order.                                             *)

\* The three ways a run goes on, and the two a callback returns.
OnTo(n) == [at |-> "run", item |-> n, next |-> 0]
Calls(n, m) == [at |-> "called", item |-> n, next |-> m]
Dropping(n) == /\ Without(n) /\ InPlace(stack, stack', OnTo(NextAfter(n)))
               /\ status' = status /\ made' = made
Passing(n) == /\ callbacks' = callbacks /\ came' = came
              /\ InPlace(stack, stack', OnTo(NextAfter(n)))
              /\ "blocked" \in status[Waiting(n).conv]
              /\ status' = status /\ made' = made
Making(n) == /\ callbacks' = callbacks /\ came' = came
             /\ InPlace(stack, stack', Calls(n, NextAfter(n)))
             /\ "blocked" \notin status[Waiting(n).conv]
             /\ made' = [made EXCEPT ![Waiting(n).conv] = n]

\* A run drops a callback, passes it over or makes it.
LEMMA RunNextWays ==
  ASSUME CallbacksTyped, Listed, RunNext
  PROVE  /\ 1 \in DOMAIN stack /\ stack[1].at = "run" /\ In(stack[1].item) /\ ~UnderWay
         /\ stack[1].item # 0 /\ runs' = runs /\ misused' = misused
         /\ Dropping(stack[1].item) \/ Passing(stack[1].item) \/ Making(stack[1].item)
<1> DEFINE n == stack[1].item
           on == OnTo(NextAfter(n))
           called == Calls(n, NextAfter(n))
<1>1. /\ stack # <<>> /\ Head(stack) = stack[1] /\ In(n) /\ ~UnderWay /\ n # 0
      /\ 1 \in DOMAIN stack /\ stack[1].at = "run"
  BY RunNextStack, StackParts DEF RunNext, Top
<1>2. n \in Serial /\ NextAfter(n) \in Serial \cup {0}
  BY <1>1, PlaceIs, NextIs
<1>3. on \in Frame /\ called \in Frame
  BY <1>2, FramesMade DEF OnTo, Calls
<1>4. runs' = runs /\ misused' = misused /\ came' = came
  BY DEF RunNext
<1>5. \/ /\ callbacks' = LeftWithout(n) /\ stack' = <<on>> \o Tail(stack)
         /\ status' = status /\ made' = made
      \/ /\ callbacks' = callbacks /\ stack' = <<on>> \o Tail(stack)
         /\ "blocked" \in status[Waiting(n).conv]
         /\ status' = status /\ made' = made
      \/ /\ callbacks' = callbacks /\ stack' = <<called>> \o Tail(stack)
         /\ "blocked" \notin status[Waiting(n).conv]
         /\ made' = [made EXCEPT ![Waiting(n).conv] = n]
  BY <1>1 DEF RunNext, OnTo, Calls
<1> HIDE DEF on, called, n
<1>6. ASSUME NEW f \in Frame PROVE InPlace(stack, <<f>> \o Tail(stack), f)
  <2>1. stack \in Seq(Frame) /\ stack # <<>>
    BY <1>1 DEF CallbacksTyped
  <2> QED BY <2>1, PutInPlace
<1>7. InPlace(stack, <<on>> \o Tail(stack), on) /\ InPlace(stack, <<called>> \o Tail(stack), called)
  BY <1>3, <1>6
<1>8. Dropping(n) \/ Passing(n) \/ Making(n)
  BY <1>1, <1>4, <1>5, <1>7 DEF Dropping, Passing, Making, Without, on, called
<1> QED BY <1>1, <1>4, <1>8 DEF n

\* A callback that returns is done with, or blocked and kept.
LEMMA ReturnsWays ==
  ASSUME CallbacksTyped, Listed, NEW block \in BOOLEAN, CallbackReturns(block)
  PROVE  /\ 1 \in DOMAIN stack /\ stack[1].at = "called" /\ In(stack[1].item)
         /\ InPlace(stack, stack', OnTo(stack[1].next))
         /\ made' = made /\ runs' = runs /\ misused' = misused /\ came' = came
         /\ \/ Without(stack[1].item) /\ status' = status
            \/ /\ callbacks' = callbacks
               /\ status' = [status EXCEPT ![Waiting(stack[1].item).conv] = Blocked(@)]
<1>1. /\ stack # <<>> /\ Head(stack) = stack[1] /\ In(stack[1].item)
      /\ 1 \in DOMAIN stack /\ stack[1].at = "called"
      /\ InPlace(stack, stack', OnTo(stack[1].next))
  BY ReturnsStack, StackParts DEF CallbackReturns, Top, OnTo
<1>2. made' = made /\ runs' = runs /\ misused' = misused /\ came' = came
  BY DEF CallbackReturns
<1>3. \/ callbacks' = LeftWithout(stack[1].item) /\ status' = status
      \/ /\ callbacks' = callbacks
         /\ status' = [status EXCEPT ![Waiting(stack[1].item).conv] = Blocked(@)]
  BY <1>1 DEF CallbackReturns
<1> QED BY <1>1, <1>2, <1>3 DEF Without

\* A conversation is unblocked by DdeEnableCallback alone.
StayBlocked == \A x \in Conv : "blocked" \in status[x] => "blocked" \in status'[x]

\* What is blocked stays so but where the program unblocks.
LEMMA BlockedKept ==
  ASSUME CallbacksTyped, Listed, CallbacksNext
  PROVE  StayBlocked \/ \E C : \E command \in {{}, {"blocked"}, {"single"}} :
                          EnableCallback(C, command) /\ "blocked" \notin command
<1>1. status \in [Conv -> SUBSET Flag]
  BY DEF CallbacksTyped
<1>2. status' = status => StayBlocked
  BY DEF StayBlocked
<1>3. ASSUME NEW c \in Conv, NEW s, status' = [status EXCEPT ![c] = s],
             "blocked" \in status[c] => "blocked" \in s
      PROVE  StayBlocked
  BY <1>1, <1>3 DEF StayBlocked
<1>4. ASSUME NEW C, NEW command \in {{}, {"blocked"}, {"single"}}, EnableCallback(C, command),
             "blocked" \in command
      PROVE  StayBlocked
  BY <1>4, <1>1 DEF EnableCallback, StayBlocked
<1>5. \A c \in Conv : "blocked" \in status[c] => "blocked" \in Terminated(c)
  BY DEF Terminated, Xor
<1>6. ASSUME NEW c \in Conv, Disconnect(c) \/ DispatchEnding(c) PROVE StayBlocked
  BY <1>2, <1>3, <1>5, <1>6 DEF Disconnect, DispatchEnding, Terminate
<1>7. ASSUME NEW c \in Conv, DispatchTerminate(c) PROVE StayBlocked
  <2>1. "blocked" \in status[c] => "blocked" \in Xor(status[c], {"awaited", "terminated"})
    BY DEF Xor
  <2>2. \/ status' = status
        \/ status' = [status EXCEPT ![c] = Xor(status[c], {"awaited", "terminated"})]
        \/ status' = [status EXCEPT ![c] = status[c]]
    BY <1>7 DEF DispatchTerminate
  <2> QED BY <1>2, <1>3, <2>1, <2>2
<1>8. CASE RunNext
  <2> DEFINE c == Waiting(stack[1].item).conv
  <2>1. stack # <<>> /\ Head(stack) = stack[1] /\ In(stack[1].item)
    BY <1>8, RunNextStack, StackParts DEF RunNext, Top
  <2>2. c \in Conv
    BY <2>1, PlaceIs
  <2>3. status' = status \/ status' = [status EXCEPT ![c] = (status[c] \cup {"blocked"}) \ {"single"}]
    BY <1>8, <2>1 DEF RunNext
  <2> HIDE DEF c
  <2>4. "blocked" \in (status[c] \cup {"blocked"}) \ {"single"}
    OBVIOUS
  <2> QED BY <1>2, <1>3, <2>2, <2>3, <2>4
<1>9. ASSUME NEW block \in BOOLEAN, CallbackReturns(block) PROVE StayBlocked
  <2> DEFINE c == Waiting(stack[1].item).conv
  <2>1. In(stack[1].item)
    BY <1>9, ReturnsWays
  <2>2. c \in Conv
    BY <2>1, PlaceIs
  <2>3. status' = status \/ status' = [status EXCEPT ![c] = Blocked(status[c])]
    BY <1>9, ReturnsWays
  <2> HIDE DEF c
  <2>4. "blocked" \in Blocked(status[c])
    BY DEF Blocked
  <2> QED BY <1>2, <1>3, <2>2, <2>3, <2>4
<1>10. CASE TellEnd
  <2> DEFINE c == stack[1].conv
  <2>1. c \in Conv /\ status' = [status EXCEPT ![c] = Xor(status[c], {"connected", "terminated", "destroy"})]
    BY <1>10, TellStack, StackParts DEF TellEnd, Top
  <2> HIDE DEF c
  <2>2. "blocked" \in status[c] => "blocked" \in Xor(status[c], {"connected", "terminated", "destroy"})
    BY DEF Xor
  <2> QED BY <1>3, <2>1, <2>2
<1>11. \A c \in Conv : Arrive(c) \/ WaitFor(c) \/ PartnerEnds(c) \/ PartnerGone(c) => status' = status
  BY DEF Arrive, WaitFor, PartnerEnds, PartnerGone, convs
<1>12. DispatchRun \/ RunDone \/ WaitOver \/ WaitDone \/ EndTold => status' = status
  BY DEF DispatchRun, RunDone, WaitOver, WaitDone, EndTold, convs
<1>13. Ends \subseteq Conv
  BY CallbacksAssumption
<1> QED BY <1>2, <1>4, <1>6, <1>7, <1>8, <1>9, <1>10, <1>11, <1>12, <1>13 DEF CallbacksNext

\* What was done to the promises is not forgotten.
LEMMA MisusedKept ==
  ASSUME CallbacksNext
  PROVE  misused \subseteq misused'
BY DEF CallbacksNext, DispatchRun, RunDone, RunNext, CallbackReturns, EnableCallback, WaitOver,
       WaitDone, TellEnd, EndTold, Arrive, WaitFor, Disconnect, DispatchEnding,
       DispatchTerminate, PartnerEnds, PartnerGone

\* A frame's turn outlasts what comes in and what is done with.
LEMMA PassedKept ==
  ASSUME CallbacksTyped, ArrivedOnce, Listed, Nested, CallbacksNext, StayBlocked,
         NEW i \in DOMAIN stack, Passed(callbacks, status, stack[i])
  PROVE  Passed(callbacks', status', stack[i])
<1> SUFFICES ASSUME NEW j \in DOMAIN callbacks'
             PROVE  /\ stack[i].at = "run" /\ callbacks'[j].n < stack[i].item
                         => "blocked" \in status'[callbacks'[j].conv]
                    /\ stack[i].at = "called" /\ callbacks'[j].n # stack[i].item
                            /\ callbacks'[j].n < stack[i].next
                         => "blocked" \in status'[callbacks'[j].conv]
  BY DEF Passed
<1>1. CASE \E k \in DOMAIN callbacks : callbacks'[j] = callbacks[k]
  <2>1. PICK k \in DOMAIN callbacks : callbacks'[j] = callbacks[k]
    BY <1>1
  <2>2. callbacks[k].conv \in Conv
    BY <2>1, ListParts
  <2> QED BY <2>1, <2>2 DEF Passed, StayBlocked
<1>2. ASSUME NEW c \in Conv, Arrive(c), callbacks'[j].n = came + 1
      PROVE  /\ stack[i].at # "run"
             /\ stack[i].at = "called" => ~(callbacks'[j].n < stack[i].next)
  <2>1. Dispatching
    BY <1>2 DEF Arrive
  <2>2. stack[i].at # "run"
    <3>1. stack # <<>> /\ stack[1].at = "wait"
      BY <2>1, DispatchingMeans, StackParts
    <3> QED BY <3>1 DEF Nested
  <2>3. came \in Nat /\ \A n : In(n) => n \in Nat /\ n <= came
    BY ListFrom, ListParts DEF In, ArrivedOnce
  <2>4. stack[i].at = "called" => stack[i].next = 0 \/ In(stack[i].next)
    BY DEF Listed
  <2> QED BY <1>2, <2>2, <2>3, <2>4
<1> QED BY <1>1, <1>2, ListFrom

\* A run begins at the oldest, and is past nothing.
LEMMA BegunPassed ==
  ASSUME CallbacksTyped, ArrivedOnce, Listed, CallbacksNext
  PROVE  Passed(callbacks', status', ToRun)
<1>1. ToRun.at = "run" /\ ToRun.item = First(callbacks)
  BY RunIs
<1>2. \A i \in DOMAIN callbacks : First(callbacks) <= callbacks[i].n /\ callbacks[i].n \in Nat
  BY FirstIs, ListParts
<1>3. First(callbacks) \in Nat /\ First(callbacks) <= came /\ came \in Nat
  <2>1. First(callbacks) = 0 \/ \E i \in DOMAIN callbacks : callbacks[i].n = First(callbacks)
    BY FirstIs DEF In
  <2>2. came \in Nat
    BY ListFrom
  <2> QED BY <2>1, <2>2, ListParts DEF ArrivedOnce
<1>4. \A j \in DOMAIN callbacks' : ~(callbacks'[j].n < ToRun.item)
  BY <1>1, <1>2, <1>3, ListFrom
<1> QED BY <1>1, <1>4 DEF Passed

\* Every step keeps blocked what a run is past.
LEMMA InTurnKept ==
  ASSUME CallbacksTyped, ArrivedOnce, Listed, Nested, OneWait, InTurn, CallbacksNext
  PROVE  InTurn'
<1> DEFINE Good(f) == Passed(callbacks', status', f)
<1> SUFFICES ASSUME "enabled" \notin misused'
             PROVE  \A i \in DOMAIN stack' : Good(stack'[i])
  BY DEF InTurn, Passed
<1>1. \A i \in DOMAIN stack : Passed(callbacks, status, stack[i])
  BY MisusedKept DEF InTurn
<1>2. \A f : f.at \notin {"run", "called"} => Good(f)
  BY DEF Passed
<1>3. Good(ToRun)
  BY BegunPassed
<1> HIDE DEF Good
<1>4. ASSUME NEW C, NEW command \in {{}, {"blocked"}, {"single"}}, EnableCallback(C, command),
             "blocked" \notin command
      PROVE  \A i \in DOMAIN stack' : Good(stack'[i])
  <2>1. Running /\ Over(stack, stack', ToRun) /\ ~UnderWay
    BY <1>4, EnableStack
  <2>2. \A i \in DOMAIN stack : stack[i].at \notin {"run", "called"}
    BY <2>1, RunningMeans DEF UnderWay
  <2> QED BY <1>2, <1>3, <2>1, <2>2 DEF Over
<1>5. CASE RunNext
  <2> DEFINE n == stack[1].item
             m == NextAfter(n)
  <2>1. /\ 1 \in DOMAIN stack /\ stack[1].at = "run" /\ In(n) /\ ~UnderWay
        /\ Dropping(n) \/ Passing(n) \/ Making(n)
    BY <1>5, RunNextWays
  <2>2. Passed(callbacks, status, stack[1])
    BY <1>1, <2>1
  <2>3. /\ m \in Serial \cup {0} /\ n \in Serial
        /\ \A i \in DOMAIN callbacks : callbacks[i].n > n => m # 0 /\ m <= callbacks[i].n
        /\ \A i \in DOMAIN callbacks : callbacks[i].n = n => callbacks[i] = Waiting(n)
    BY <2>1, NextIs, PlaceIs
  <2>4. stack[1].item = n
    OBVIOUS
  <2>5. OnTo(m).at = "run" /\ OnTo(m).item = m
    BY DEF OnTo
  <2>6. Calls(n, m).at = "called" /\ Calls(n, m).item = n /\ Calls(n, m).next = m
    BY DEF Calls
  <2> HIDE DEF n, m
  <2>7. \A i \in DOMAIN stack : i # 1 => stack[i].at \notin {"run", "called"}
    BY <2>1 DEF Nested, UnderWay
  <2>8. \A i \in DOMAIN callbacks : callbacks[i].n < n => "blocked" \in status[callbacks[i].conv]
    BY <2>1, <2>2, <2>4 DEF Passed
  <2>9. /\ m \in Nat /\ n \in Nat /\ \A i \in DOMAIN callbacks : callbacks[i].n \in Nat
    BY <2>3, ListParts
  <2>10. CASE Dropping(n)
    <3>1. \A j \in DOMAIN callbacks' : \E i \in DOMAIN callbacks : callbacks'[j] = callbacks[i] /\ callbacks[i].n # n
      BY <2>1, <2>10, WithoutIs DEF Dropping, Without, Kept
    <3>2. \A i \in DOMAIN callbacks : callbacks[i].n # n /\ callbacks[i].n < m => callbacks[i].n < n
      BY <2>3, <2>9
    <3>3. status' = status
      BY <2>10 DEF Dropping
    <3>4. Good(OnTo(m))
      BY <2>5, <2>8, <3>1, <3>2, <3>3 DEF Good, Passed
    <3>5. InPlace(stack, stack', OnTo(m))
      BY <2>10 DEF Dropping, m
    <3> QED BY <1>2, <2>7, <3>4, <3>5 DEF InPlace
  <2>11. CASE Passing(n)
    <3>1. \A i \in DOMAIN callbacks : callbacks[i].n < m => callbacks[i].n < n \/ callbacks[i].n = n
      BY <2>3, <2>9
    <3>2. status' = status /\ callbacks' = callbacks /\ "blocked" \in status[Waiting(n).conv]
      BY <2>11 DEF Passing
    <3>3. Good(OnTo(m))
      BY <2>3, <2>5, <2>8, <3>1, <3>2 DEF Good, Passed
    <3>4. InPlace(stack, stack', OnTo(m))
      BY <2>11 DEF Passing, m
    <3> QED BY <1>2, <2>7, <3>3, <3>4 DEF InPlace
  <2>12. CASE Making(n)
    <3>1. \A i \in DOMAIN callbacks : callbacks[i].n # n /\ callbacks[i].n < m => callbacks[i].n < n
      BY <2>3, <2>9
    <3>2. callbacks' = callbacks
      BY <2>12 DEF Making
    <3>3. \A i \in DOMAIN callbacks : "blocked" \in status[callbacks[i].conv] => "blocked" \in status'[callbacks[i].conv]
      <4>1. StayBlocked
        <5>1. ~\E C : \E command \in {{}, {"blocked"}, {"single"}} : EnableCallback(C, command) /\ "blocked" \notin command
          BY <2>1, RunningMeans DEF EnableCallback
        <5> QED BY <5>1, BlockedKept
      <4> QED BY <4>1, ListParts DEF StayBlocked
    <3>4. Good(Calls(n, m))
      BY <2>6, <2>8, <3>1, <3>2, <3>3 DEF Good, Passed
    <3>5. InPlace(stack, stack', Calls(n, m))
      BY <2>12 DEF Making, m
    <3> QED BY <1>2, <2>7, <3>4, <3>5 DEF InPlace
  <2> QED BY <2>1, <2>10, <2>11, <2>12
<1>6. ASSUME NEW block \in BOOLEAN, CallbackReturns(block) PROVE \A i \in DOMAIN stack' : Good(stack'[i])
  <2> DEFINE n == stack[1].item
             m == stack[1].next
             c == Waiting(n).conv
  <2>1. /\ 1 \in DOMAIN stack /\ stack[1].at = "called" /\ In(n)
        /\ InPlace(stack, stack', OnTo(m))
        /\ \/ Without(n) /\ status' = status
           \/ callbacks' = callbacks /\ status' = [status EXCEPT ![c] = Blocked(@)]
    BY <1>6, ReturnsWays
  <2>2. Passed(callbacks, status, stack[1])
    BY <1>1, <2>1
  <2>3. /\ c \in Conv
        /\ \A i \in DOMAIN callbacks : callbacks[i].n = n => callbacks[i].conv = c
    BY <2>1, PlaceIs
  <2>4. \A i \in DOMAIN callbacks : callbacks[i].n # n /\ callbacks[i].n < m => "blocked" \in status[callbacks[i].conv]
    BY <2>1, <2>2 DEF Passed
  <2>5. OnTo(m).at = "run" /\ OnTo(m).item = m
    BY DEF OnTo
  <2> HIDE DEF n, m, c
  <2>6. \A i \in DOMAIN stack : i # 1 => stack[i].at \notin {"run", "called"}
    <3>1. \A i \in DOMAIN stack : i # 1 => 1 < i
      BY StackParts
    <3>2. \A i \in DOMAIN stack : 1 < i => ~Makes(stack[i])
      BY <2>1 DEF Nested
    <3>3. \A i \in DOMAIN stack : i # 1 => stack[i].at # "run"
      BY DEF Nested
    <3> QED BY <3>1, <3>2, <3>3 DEF Makes
  <2>7. CASE Without(n) /\ status' = status
    <3>1. \A j \in DOMAIN callbacks' : \E i \in DOMAIN callbacks : callbacks'[j] = callbacks[i] /\ callbacks[i].n # n
      BY <2>1, <2>7, WithoutIs DEF Without, Kept
    <3>2. Good(OnTo(m))
      BY <2>4, <2>5, <2>7, <3>1 DEF Good, Passed
    <3> QED BY <1>2, <2>1, <2>6, <3>2 DEF InPlace
  <2>8. CASE callbacks' = callbacks /\ status' = [status EXCEPT ![c] = Blocked(@)]
    <3>1. \A i \in DOMAIN callbacks : callbacks[i].conv \in Conv
      BY ListParts
    <3>2. \A x \in Conv : "blocked" \in status[x] \/ x = c => "blocked" \in status'[x]
      BY <2>3, <2>8 DEF CallbacksTyped, Blocked
    <3>3. \A i \in DOMAIN callbacks : callbacks[i].n < m => "blocked" \in status'[callbacks[i].conv]
      BY <2>3, <2>4, <3>1, <3>2
    <3>4. Good(OnTo(m))
      BY <2>5, <2>8, <3>3 DEF Good, Passed
    <3> QED BY <1>2, <2>1, <2>6, <3>4 DEF InPlace
  <2> QED BY <2>1, <2>7, <2>8
<1>7. CASE StayBlocked /\ ~RunNext /\ ~\E block \in BOOLEAN : CallbackReturns(block)
  <2>1. \A i \in DOMAIN stack : Good(stack[i])
    BY <1>1, <1>7, PassedKept DEF Good
  <2>2. CASE stack' = stack
    BY <2>1, <2>2
  <2>3. CASE RunOn
    BY <1>3, <2>1, <2>3 DEF RunOn, Over
  <2>4. ASSUME NEW c \in Conv, WaitOn(c) PROVE \A i \in DOMAIN stack' : Good(stack'[i])
    <3>1. /\ stack'[1].at = "wait"
          /\ \A i \in DOMAIN stack' : i # 1 => i - 1 \in DOMAIN stack /\ stack'[i] = stack[i - 1]
      BY <2>4 DEF WaitOn, Over
    <3> QED BY <1>2, <2>1, <3>1
  <2>5. ASSUME NEW c \in Conv, EndOn(c) PROVE \A i \in DOMAIN stack' : Good(stack'[i])
    <3>1. /\ stack'[1] = ToRun /\ stack'[2].at = "end"
          /\ \A i \in DOMAIN stack' : i = 1 \/ i = 2 \/ (i - 2 \in DOMAIN stack /\ stack'[i] = stack[i - 2])
      BY <2>5 DEF EndOn, Twice
    <3> QED BY <1>2, <1>3, <2>1, <3>1
  <2>6. ASSUME NEW at, Off(at) PROVE \A i \in DOMAIN stack' : Good(stack'[i])
    BY <2>1, <2>6 DEF Off, Under
  <2>7. CASE Telling
    <3>1. /\ stack'[1].at = "told"
          /\ \A i \in DOMAIN stack' : i # 1 => i \in DOMAIN stack /\ stack'[i] = stack[i]
      BY <2>7 DEF Telling, InPlace
    <3> QED BY <1>2, <2>1, <3>1
  <2> QED BY <1>7, <2>2, <2>3, <2>4, <2>5, <2>6, <2>7, StackStep
<1> QED BY <1>4, <1>5, <1>6, <1>7, BlockedKept

\* Every step keeps what waits no older than what was made.
LEMMA MadeInOrderKept ==
  ASSUME CallbacksTyped, ArrivedOnce, Listed, Nested, Histories, InTurn, MadeInOrder, CallbacksNext
  PROVE  MadeInOrder'
<1> SUFFICES ASSUME "enabled" \notin misused', NEW j \in DOMAIN callbacks'
             PROVE  callbacks'[j].n >= made'[callbacks'[j].conv]
  BY DEF MadeInOrder
<1>1. /\ \A i \in DOMAIN callbacks : callbacks[i].n >= made[callbacks[i].conv]
      /\ \A i \in DOMAIN stack : Passed(callbacks, status, stack[i])
  BY MisusedKept DEF MadeInOrder, InTurn
<1>2. CASE made' = made
  <2>1. CASE \E i \in DOMAIN callbacks : callbacks'[j] = callbacks[i]
    BY <1>1, <1>2, <2>1
  <2>2. ASSUME NEW c \in Conv, callbacks'[j].conv = c, callbacks'[j].n = came + 1
        PROVE  callbacks'[j].n >= made'[callbacks'[j].conv]
    <3>1. made[c] <= came /\ came \in Nat /\ made[c] \in Nat
      BY CallbacksAssumption, ListFrom DEF Histories, CallbacksTyped, Serial
    <3> QED BY <1>2, <2>2, <3>1
  <2> QED BY <2>1, <2>2, ListFrom
<1>3. CASE RunNext /\ made' # made
  <2> DEFINE n == stack[1].item
             c == Waiting(n).conv
  <2>1. 1 \in DOMAIN stack /\ stack[1].at = "run" /\ In(n) /\ Making(n)
    BY <1>3, RunNextWays DEF Dropping, Passing
  <2>2. c \in Conv /\ n \in Nat
    BY <2>1, PlaceIs, ListParts
  <2>3. callbacks' = callbacks /\ "blocked" \notin status[c] /\ made' = [made EXCEPT ![c] = n]
    BY <2>1 DEF Making
  <2>4. \A i \in DOMAIN callbacks : callbacks[i].n < n => "blocked" \in status[callbacks[i].conv]
    BY <1>1, <2>1 DEF Passed
  <2>5. \A i \in DOMAIN callbacks : callbacks[i].n \in Nat /\ callbacks[i].conv \in Conv
    BY ListParts
  <2> HIDE DEF n, c
  <2>6. CASE callbacks[j].conv = c
    <3>1. ~(callbacks[j].n < n)
      BY <2>3, <2>4, <2>6
    <3>2. made'[c] = n
      BY <2>2, <2>3 DEF CallbacksTyped
    <3> QED BY <2>2, <2>3, <2>5, <2>6, <3>1, <3>2
  <2>7. CASE callbacks[j].conv # c
    <3>1. made'[callbacks[j].conv] = made[callbacks[j].conv]
      BY <2>3, <2>5, <2>7 DEF CallbacksTyped
    <3> QED BY <1>1, <2>3, <3>1
  <2> QED BY <2>6, <2>7
<1>4. \/ made' = made \/ RunNext
  BY DEF CallbacksNext, DispatchRun, RunDone, EnableCallback, WaitOver, WaitDone, TellEnd,
         EndTold, Arrive, WaitFor, Disconnect, DispatchEnding, DispatchTerminate,
         PartnerEnds, PartnerGone, CallbackReturns
<1> QED BY <1>2, <1>3, <1>4

-----------------------------------------------------------------------------
(* The callbacks: none is left.                                            *)

\* Frames put on or taken off above waits and calls leave these where they count.
LEMMA WakesShifted ==
  ASSUME NEW s, NEW t, NEW d, NEW k, Shifted(s, t, d, k),
         \A i \in DOMAIN s : i <= k + d => s[i].at \notin {"wait", "called"}
  PROVE  /\ WaitInCall(s) => WaitInCall(t)
         /\ \A n : CallCovers(s, n) => CallCovers(t, n)
<1>1. ASSUME WaitInCall(s) PROVE WaitInCall(t)
  <2>1. PICK i, j \in DOMAIN s : i < j /\ s[i].at = "wait" /\ Makes(s[j])
    BY <1>1 DEF WaitInCall
  <2>2. i > k + d /\ j > k + d
    BY <2>1 DEF Shifted
  <2>3. /\ i - d \in DOMAIN t /\ t[i - d] = s[i]
        /\ j - d \in DOMAIN t /\ t[j - d] = s[j] /\ i - d < j - d
    BY <2>1, <2>2 DEF Shifted
  <2> QED BY <2>1, <2>3 DEF WaitInCall
<1>2. ASSUME NEW n, CallCovers(s, n) PROVE CallCovers(t, n)
  <2>1. PICK i \in DOMAIN s : /\ s[i].at = "called"
                              /\ s[i].item = n \/ (s[i].next # 0 /\ s[i].next <= n)
    BY <1>2 DEF CallCovers
  <2>2. i > k + d
    BY <2>1 DEF Shifted
  <2>3. i - d \in DOMAIN t /\ t[i - d] = s[i]
    BY <2>2 DEF Shifted
  <2> QED BY <2>1, <2>3 DEF CallCovers
<1> QED BY <1>1, <1>2

\* The way of the list: posted, it stays so until a run is dispatched.
LEMMA RunsKept ==
  ASSUME CallbacksTyped, CallbacksNext, runs > 0, ~DispatchRun
  PROVE  runs' > 0
<1>1. runs \in Nat
  BY CallbacksAssumption DEF CallbacksTyped
<1>2. PostRun => runs' > 0
  BY <1>1 DEF PostRun
<1>3. runs' = runs \/ PostRun
  BY DEF CallbacksNext, RunDone, RunNext, CallbackReturns, EnableCallback, WaitOver,
         WaitDone, TellEnd, EndTold, Arrive, WaitFor, Disconnect, DispatchEnding,
         DispatchTerminate, PartnerEnds, PartnerGone, PostAfterWait
<1> QED BY <1>2, <1>3

\* A callback the list is to be run for stays one, in all but a run's own steps, where
\* the message that is to have it run is not refused; and becomes one where a run begins.
LEMMA AwakeKept ==
  ASSUME CallbacksTyped, Listed, Nested, CallbacksNext, ~refused',
         ~RunNext, ~\E block \in BOOLEAN : CallbackReturns(block),
         NEW j \in DOMAIN callbacks,
         Awake(stack, runs, callbacks[j].n) \/ RunOn \/ \E c \in Conv : EndOn(c)
  PROVE  Awake(stack', runs', callbacks[j].n)
<1> DEFINE n == callbacks[j].n
<1> SUFFICES Awake(stack', runs', n)
  OBVIOUS
<1>1. /\ UnderWay <=> \E i \in DOMAIN stack : Makes(stack[i])
      /\ First(callbacks) # 0 /\ First(callbacks) <= n /\ n \in Nat
      /\ ToRun.at = "run" /\ ToRun.item = First(callbacks)
  BY FirstIs, RunIs, ListParts DEF UnderWay, Makes
<1> HIDE DEF n
<1>2. ASSUME UnderWay, Dispatching PROVE WaitInCall(stack)
  <2>1. stack # <<>>
    BY <1>2, StackParts DEF UnderWay
  <2>2. stack[1].at = "wait" /\ 1 \in DOMAIN stack
    BY <1>2, <2>1, DispatchingMeans, StackParts
  <2>3. PICK i \in DOMAIN stack : Makes(stack[i])
    BY <1>1, <1>2
  <2>4. i # 1
    BY <2>2, <2>3 DEF Makes
  <2>5. 1 < i
    BY <2>4, StackParts
  <2> QED BY <2>2, <2>3, <2>5 DEF WaitInCall
<1>3. CASE RunOn
  <2>1. Over(stack, stack', ToRun) /\ (Dispatching \/ ~UnderWay)
    BY <1>3 DEF RunOn
  <2>2. CASE UnderWay
    <3>1. Shifted(stack, stack', -1, 1)
      BY <2>1, Shifts
    <3>2. \A i \in DOMAIN stack : ~(i <= 1 + -1)
      BY <3>1 DEF Shifted
    <3>3. WaitInCall(stack')
      BY <1>2, <2>1, <2>2, <3>1, <3>2, WakesShifted
    <3> QED BY <3>3 DEF Awake
  <2>3. CASE ~UnderWay
    <3>1. /\ 1 \in DOMAIN stack' /\ stack'[1] = ToRun
          /\ \A i \in DOMAIN stack' : i # 1 => i - 1 \in DOMAIN stack /\ stack'[i] = stack[i - 1]
      BY <2>1 DEF Over
    <3>2. \A i \in DOMAIN stack' : ~Makes(stack'[i])
      BY <1>1, <2>3, <3>1 DEF Makes
    <3>3. RunComes(stack', n)
      BY <1>1, <3>1, <3>2 DEF RunComes
    <3> QED BY <3>3 DEF Awake, n
  <2> QED BY <2>2, <2>3
<1>4. ASSUME NEW c \in Conv, EndOn(c) PROVE Awake(stack', runs', n)
  <2> DEFINE f == [at |-> "end", conv |-> c]
  <2>1. f.at = "end"
    OBVIOUS
  <2>2. Twice(stack, stack', ToRun, f) /\ Dispatching
    BY <1>4 DEF EndOn
  <2> HIDE DEF f
  <2>3. CASE UnderWay
    <3>1. Shifted(stack, stack', -2, 2)
      BY <2>2, Shifts
    <3>2. \A i \in DOMAIN stack : ~(i <= 2 + -2)
      BY <3>1 DEF Shifted
    <3>3. WaitInCall(stack')
      BY <1>2, <2>2, <2>3, <3>1, <3>2, WakesShifted
    <3> QED BY <3>3 DEF Awake
  <2>4. CASE ~UnderWay
    <3>1. /\ 1 \in DOMAIN stack' /\ stack'[1] = ToRun /\ stack'[2] = f
          /\ \A i \in DOMAIN stack' : i = 1 \/ i = 2 \/ (i - 2 \in DOMAIN stack /\ stack'[i] = stack[i - 2])
      BY <2>2 DEF Twice
    <3>2. \A i \in DOMAIN stack' : ~Makes(stack'[i])
      BY <1>1, <2>1, <2>4, <3>1 DEF Makes
    <3>3. RunComes(stack', n)
      BY <1>1, <3>1, <3>2 DEF RunComes
    <3> QED BY <3>3 DEF Awake
  <2> QED BY <2>3, <2>4
<1>5. CASE ~RunOn /\ ~\E c \in Conv : EndOn(c)
  <2>1. Awake(stack, runs, n)
    BY <1>5 DEF n
  <2>2. ASSUME runs > 0 PROVE Awake(stack', runs', n)
    <3>1. ~DispatchRun
      <4>1. DispatchRun => RunOn
        BY DispatchRunStack, DispatchingMeans, RunIs DEF RunOn, DispatchRun
      <4> QED BY <1>5, <4>1
    <3> QED BY <2>2, <3>1, RunsKept DEF Awake
  <2>3. ASSUME NEW d, NEW k, Shifted(stack, stack', d, k),
               \A i \in DOMAIN stack : i <= k + d => stack[i].at \notin {"wait", "called"},
               ~RunComes(stack, n)
        PROVE  Awake(stack', runs', n)
    BY <2>1, <2>2, <2>3, WakesShifted DEF Awake
  <2>4. CASE stack' = stack
    BY <2>1, <2>2, <2>4 DEF Awake
  <2>5. ASSUME NEW c \in Conv, WaitOn(c) PROVE Awake(stack', runs', n)
    <3>1. Shifted(stack, stack', -1, 1) /\ Running
      BY <2>5, Shifts DEF WaitOn
    <3>2. \A i \in DOMAIN stack : ~(i <= 1 + -1)
      BY <3>1 DEF Shifted
    <3>3. ~RunComes(stack, n)
      BY <3>1, RunningMeans DEF RunComes
    <3> QED BY <2>3, <3>1, <3>2, <3>3
  <2>6. CASE RunDone
    <3>1. Off("run") /\ AtEnd
      BY <2>6, OffCases DEF RunDone
    <3>2. Shifted(stack, stack', 1, 0) /\ stack[1].at = "run"
      BY <3>1, Shifts DEF Off
    <3>3. \A i \in DOMAIN stack : i <= 0 + 1 => i = 1
      BY <3>2 DEF Shifted
    <3>4. stack[1].item = 0 \/ UnderWay
      BY <2>6, <3>1, StackParts DEF AtEnd, RunDone, Top
    <3>5. ~RunComes(stack, n)
      <4>1. \A i \in DOMAIN stack : stack[i].at = "run" => i = 1
        BY DEF Nested
      <4> QED BY <1>1, <3>4, <4>1 DEF RunComes
    <3> QED BY <2>3, <3>2, <3>3, <3>5
  <2>7. CASE WaitDone
    <3>1. runs' > 0
      BY <2>7, CallbacksAssumption DEF WaitDone, PostAfterWait, PostRun, CallbacksTyped
    <3> QED BY <3>1 DEF Awake
  <2>8. CASE EndTold
    <3>1. Off("told")
      BY <2>8, OffCases
    <3>2. Shifted(stack, stack', 1, 0) /\ stack[1].at = "told" /\ 1 \in DOMAIN stack
      BY <3>1, Shifts DEF Off, Under
    <3>3. \A i \in DOMAIN stack : i <= 0 + 1 => i = 1
      BY <3>2 DEF Shifted
    <3>4. ~RunComes(stack, n)
      BY <3>2 DEF RunComes, Makes
    <3> QED BY <2>3, <3>2, <3>3, <3>4
  <2>9. CASE TellEnd
    <3> DEFINE f == [at |-> "told", conv |-> stack[1].conv]
    <3>1. InPlace(stack, stack', f) /\ stack[1].at = "end"
      BY <2>9, TellStack
    <3> HIDE DEF f
    <3>2. Shifted(stack, stack', 0, 1)
      BY <3>1, Shifts
    <3>3. \A i \in DOMAIN stack : i <= 1 + 0 => i = 1
      BY <3>2 DEF Shifted
    <3>4. ~RunComes(stack, n)
      BY <3>1 DEF RunComes, Nested
    <3> QED BY <2>3, <3>1, <3>2, <3>3, <3>4
  <2>10. \/ stack' = stack \/ RunDone \/ WaitDone \/ EndTold \/ TellEnd
         \/ \E c \in Conv : WaitOn(c)
    <3>1. DispatchRun => RunOn
      BY DispatchRunStack, DispatchingMeans, RunIs DEF RunOn, DispatchRun
    <3>2. \A C, command : EnableCallback(C, command) => stack' = stack \/ RunOn
      BY EnableStack, RunIs DEF RunOn, EnableCallback
    <3>3. \A c \in Conv : WaitFor(c) => WaitOn(c)
      BY WaitForStack DEF WaitOn, WaitFor, MayWait
    <3>4. \A c \in Conv : DispatchTerminate(c) => stack' = stack \/ EndOn(c)
      <4>1. \A c \in Conv : DispatchTerminate(c) => waited' = waited
        BY DEF DispatchTerminate
      <4> QED BY <4>1, TerminateStack, RunIs DEF EndOn, Later
    <3>5. \A c \in Conv : Arrive(c) \/ Disconnect(c) \/ DispatchEnding(c) \/ PartnerEnds(c)
                           \/ PartnerGone(c) => stack' = stack
      BY DEF Arrive, Disconnect, DispatchEnding, PartnerEnds, PartnerGone
    <3>6. WaitOver => stack' = stack
      BY DEF WaitOver
    <3>7. Ends \subseteq Conv
      BY CallbacksAssumption
    <3> QED BY <1>5, <3>1, <3>2, <3>3, <3>4, <3>5, <3>6, <3>7 DEF CallbacksNext
  <2> QED BY <2>4, <2>5, <2>6, <2>7, <2>8, <2>9, <2>10
<1> QED BY <1>3, <1>4, <1>5 DEF n

\* What is not to be made stays so, unless it is unblocked.
LEMMA ExcusedKept ==
  ASSUME CallbacksTyped, Listed, Nested, EndsApart, Accord, count \in Nat, CallbacksNext,
         StayBlocked, NEW x \in Conv, Excused(x)
  PROVE  Excused(x)'
<1>1. CASE "blocked" \in status[x]
  BY <1>1 DEF Excused, StayBlocked
<1> SUFFICES ASSUME Dropped(x), ~Followed(x)
             PROVE  (Dropped(x) /\ ~Followed(x))'
  BY <1>1 DEF Excused
<1>2. ASSUME Unmoved(x) PROVE (Dropped(x) /\ ~Followed(x))'
  BY <1>2 DEF Unmoved, Core, Dropped, Followed
<1>3. ASSUME NEW c \in Conv, Others(c), x # c PROVE (Dropped(x) /\ ~Followed(x))'
  BY <1>2, <1>3 DEF Others
<1>4. AccordOf(x)
  BY DEF Accord
<1>5. ASSUME NEW c \in Conv, PartnerEnds(c) \/ PartnerGone(c) PROVE (Dropped(x) /\ ~Followed(x))'
  BY <1>5, PartnerMoves DEF Dropped, Followed
<1>6. ASSUME NEW c \in Conv, Disconnect(c) PROVE (Dropped(x) /\ ~Followed(x))'
  <2>1. Others(c) /\ "destroy" \notin status[c] /\ c \in windows
    BY <1>6, DisconnectMoves DEF Ending
  <2>2. x # c
    BY <1>4, <2>1 DEF AccordOf, Dropped
  <2> QED BY <1>3, <2>1, <2>2
<1>7. ASSUME NEW c \in Conv, DispatchEnding(c) PROVE (Dropped(x) /\ ~Followed(x))'
  <2>1. CASE Quiet
    BY <1>2, <2>1 DEF Quiet
  <2>2. CASE Ending(c) /\ c \in endings
    <3>1. x # c
      BY <1>4, <2>2 DEF AccordOf, Dropped, Ending, Followed
    <3> QED BY <1>3, <2>2, <3>1 DEF Ending
  <2> QED BY <1>7, <2>1, <2>2, EndingMoves
<1>8. ASSUME NEW c \in Conv, DispatchTerminate(c) PROVE (Dropped(x) /\ ~Followed(x))'
  <2>1. Quiet \/ Concluded(c) \/ Beginning(c)
    BY <1>8, TerminateAnswered
  <2>2. CASE Concluded(c)
    <3>1. x = c => (Dropped(x) /\ ~Followed(x))'
      BY <2>2 DEF Concluded, Dropped, Followed
    <3> QED BY <1>3, <2>2, <3>1 DEF Concluded
  <2>3. CASE Beginning(c)
    <3>1. x # c
      BY <2>3 DEF Beginning, Dropped
    <3> QED BY <1>3, <2>3, <3>1 DEF Beginning
  <2> QED BY <1>2, <2>1, <2>2, <2>3 DEF Quiet
<1>9. CASE TellEnd
  <2>1. PICK c \in Conv : Told(c)
    BY <1>9, TellMoves
  <2>2. x # c
    BY <2>1 DEF Told, Followed
  <2> QED BY <1>3, <2>1, <2>2 DEF Told
<1>10. CASE EndTold
  <2>1. PICK c \in Conv : Closed(c)
    BY <1>10, ToldMoves
  <2>2. x # c
    BY <2>1 DEF Closed, Followed
  <2> QED BY <1>3, <2>1, <2>2 DEF Closed
<1>11. CASE Quiet
  BY <1>2, <1>11 DEF Quiet
<1> QED BY <1>5, <1>6, <1>7, <1>8, <1>9, <1>10, <1>11, QuietSteps

StillExcused(c) ==
  \/ "blocked" \in status'[c]
  \/ /\ c \notin windows' \/ "connected" \notin status'[c]
     /\ ~There(stack', c, "end") /\ ~There(stack', c, "told")

\* What was refused is made up for by a run that begins, and by nothing else.
LEMMA RunMakesUp ==
  ASSUME CallbacksTyped, CallbacksNext, refused, ~refused'
  PROVE  /\ callbacks' = callbacks
         /\ RunOn \/ \E c \in Conv : EndOn(c)
         /\ ~RunNext /\ ~\E block \in BOOLEAN : CallbackReturns(block)
<1>1. ~RunNext /\ ~\E block \in BOOLEAN : CallbackReturns(block)
  BY DEF RunNext, CallbackReturns
<1>2. CASE DispatchRun
  <2>1. callbacks' = callbacks /\ waited' = waited
    BY <1>2 DEF DispatchRun
  <2> QED BY <1>1, <1>2, <2>1, DispatchRunStack, DispatchingMeans, RunIs DEF RunOn
<1>3. ASSUME NEW C, NEW command, EnableCallback(C, command)
      PROVE  callbacks' = callbacks /\ RunOn
  <2>1. callbacks' = callbacks /\ waited' = waited /\ "blocked" \notin command
    BY <1>3 DEF EnableCallback
  <2> QED BY <1>3, <2>1, EnableStack, RunIs DEF RunOn
<1>4. ASSUME NEW c \in Conv, DispatchTerminate(c)
      PROVE  callbacks' = callbacks /\ EndOn(c)
  <2>1. callbacks' = callbacks /\ waited' = waited
    BY <1>4 DEF DispatchTerminate
  <2> QED BY <1>4, <2>1, TerminateStack, RunIs DEF EndOn, Later
<1>5. \/ DispatchRun \/ \E C, command : EnableCallback(C, command)
      \/ \E c \in Conv : DispatchTerminate(c)
  BY CallbacksAssumption
     DEF CallbacksNext, RunDone, RunNext, CallbackReturns, WaitOver, WaitDone, TellEnd, EndTold,
         Arrive, WaitFor, Disconnect, DispatchEnding, PartnerEnds, PartnerGone, PostAfterWait,
         PostRun
<1> QED BY <1>1, <1>2, <1>3, <1>4, <1>5

\* Where a run begins it comes to every callback there is.
LEMMA ReachedAnew ==
  ASSUME CallbacksTyped, Listed, Nested, CallbacksNext, refused
  PROVE  Reached'
<1> SUFFICES ASSUME ~refused', NEW j \in DOMAIN callbacks'
             PROVE  Awake(stack', runs', callbacks'[j].n)
  BY DEF Reached
<1>1. /\ callbacks' = callbacks
      /\ RunOn \/ \E c \in Conv : EndOn(c)
      /\ ~RunNext /\ ~\E block \in BOOLEAN : CallbackReturns(block)
  BY RunMakesUp
<1> QED BY <1>1, AwakeKept

\* Where none was refused, every step keeps the list to be run for what may be made.
LEMMA ReachedStays ==
  ASSUME CallbacksTyped, ArrivedOnce, Listed, Nested, EndsApart, Accord, count \in Nat, Reached,
         CallbacksNext, ~refused
  PROVE  Reached'
<1> DEFINE Ok(x) == Awake(stack', runs', x.n) \/ StillExcused(x.conv)
<1> SUFFICES ASSUME ~refused', NEW j \in DOMAIN callbacks'
             PROVE  Ok(callbacks'[j])
  BY DEF Reached, Excused, Dropped, Followed, StillExcused
<1>1. \A i \in DOMAIN callbacks : /\ Awake(stack, runs, callbacks[i].n) \/ Excused(callbacks[i].conv)
                                 /\ callbacks[i].n \in Nat /\ callbacks[i].conv \in Conv
  BY ListParts DEF Reached
<1>2. ASSUME StayBlocked, NEW x \in Conv, Excused(x) PROVE StillExcused(x)
  <2>1. Excused(x)'
    BY <1>2, ExcusedKept
  <2> QED BY <2>1 DEF Excused, Dropped, Followed, StillExcused
<1> HIDE DEF Ok
<1>3. ASSUME NEW C, NEW command \in {{}, {"blocked"}, {"single"}}, EnableCallback(C, command),
             "blocked" \notin command
      PROVE  Ok(callbacks'[j])
  <2>1. Running /\ Over(stack, stack', ToRun) /\ ~UnderWay
    BY <1>3, EnableStack
  <2>2. waited' = waited /\ callbacks' = callbacks
    BY <1>3 DEF EnableCallback
  <2>3. RunOn
    BY <2>1, <2>2, RunIs DEF RunOn
  <2>4. ~RunNext /\ ~\E block \in BOOLEAN : CallbackReturns(block)
    <3>1. Len(stack') = Len(stack) + 1 \/ 1 \in DOMAIN stack'
      BY <2>1 DEF Over
    <3>2. ~RunNext
      BY <2>1, RunNextStack, RunningMeans
    <3>3. ASSUME NEW block \in BOOLEAN, CallbackReturns(block) PROVE FALSE
      <4>1. 1 \in DOMAIN stack /\ stack[1].at = "called"
        BY <3>3, ReturnsStack
      <4> QED BY <2>1, <4>1 DEF UnderWay
    <3> QED BY <3>2, <3>3
  <2>5. Awake(stack', runs', callbacks[j].n)
    BY <2>2, <2>3, <2>4, AwakeKept
  <2> QED BY <2>2, <2>5 DEF Ok
<1>4. ASSUME StayBlocked, ~RunNext, ~\E block \in BOOLEAN : CallbackReturns(block)
      PROVE  Ok(callbacks'[j])
  <2>1. CASE \E i \in DOMAIN callbacks : callbacks'[j] = callbacks[i]
    <3>1. PICK i \in DOMAIN callbacks : callbacks'[j] = callbacks[i]
      BY <2>1
    <3>2. Awake(stack, runs, callbacks[i].n) => Awake(stack', runs', callbacks[i].n)
      BY <1>4, AwakeKept
    <3> QED BY <1>1, <1>2, <1>4, <3>1, <3>2 DEF Ok
  <2>2. ASSUME NEW c \in Conv, Arrive(c), callbacks'[j].conv = c PROVE Ok(callbacks'[j])
    <3>1. "blocked" \in status[c] => StillExcused(c)
      BY <1>4 DEF StayBlocked, StillExcused
    <3>2. "blocked" \notin status[c] => runs' > 0
      BY <2>2, CallbacksAssumption DEF Arrive, PostRun, CallbacksTyped
    <3> QED BY <2>2, <3>1, <3>2 DEF Ok, Awake
  <2> QED BY <2>1, <2>2, ListFrom
<1>5. ASSUME RunNext, StayBlocked PROVE Ok(callbacks'[j])
  <2> DEFINE n == stack[1].item
             m == NextAfter(n)
  <2>1. /\ 1 \in DOMAIN stack /\ stack[1].at = "run" /\ In(n) /\ ~UnderWay
        /\ Dropping(n) \/ Passing(n) \/ Making(n)
        /\ runs' = runs /\ n # 0
    BY <1>5, RunNextWays
  <2>2. /\ m \in Serial \cup {0} /\ n \in Serial
        /\ \A i \in DOMAIN callbacks : callbacks[i].n > n => m # 0 /\ m <= callbacks[i].n
        /\ \A i \in DOMAIN callbacks : callbacks[i].n = n => callbacks[i] = Waiting(n)
    BY <2>1, NextIs, PlaceIs
  <2>3. m \in Nat /\ n \in Nat
    BY <2>2, ListParts
  <2>4. stack[1].item = n
    OBVIOUS
  <2>5. OnTo(m).at = "run" /\ OnTo(m).item = m
    BY DEF OnTo
  <2>6. Calls(n, m).at = "called" /\ Calls(n, m).item = n /\ Calls(n, m).next = m
    BY DEF Calls
  <2> HIDE DEF n, m
  <2>7. \A i \in DOMAIN stack : ~Makes(stack[i])
    BY <2>1 DEF UnderWay, Makes
  <2>8. ASSUME NEW i \in DOMAIN callbacks, Awake(stack, runs, callbacks[i].n)
        PROVE  runs > 0 \/ n <= callbacks[i].n
    <3>1. ~WaitInCall(stack) /\ ~CallCovers(stack, callbacks[i].n)
      BY <2>7 DEF WaitInCall, CallCovers, Makes
    <3>2. \A k \in DOMAIN stack : stack[k].at = "run" => k = 1
      BY DEF Nested
    <3> QED BY <2>4, <2>8, <3>1, <3>2 DEF Awake, RunComes
  <2>9. PICK i \in DOMAIN callbacks : callbacks'[j] = callbacks[i] /\ (Dropping(n) => callbacks[i].n # n)
    <3>1. CASE Dropping(n)
      BY <2>1, <3>1, WithoutIs DEF Dropping, Without, Kept
    <3>2. CASE ~Dropping(n)
      <4>1. callbacks' = callbacks
        BY <2>1, <3>2 DEF Passing, Making
      <4> QED BY <3>2, <4>1
    <3> QED BY <3>1, <3>2
  <2>10. Excused(callbacks[i].conv) => Ok(callbacks'[j])
    BY <1>1, <1>2, <1>5, <2>9 DEF Ok
  <2>11. ASSUME runs > 0 PROVE Ok(callbacks'[j])
    BY <2>1, <2>11 DEF Ok, Awake
  <2>12. ASSUME callbacks[i].n > n PROVE Ok(callbacks'[j])
    <3>1. m # 0 /\ m <= callbacks[i].n
      BY <2>2, <2>12
    <3>2. CASE InPlace(stack, stack', OnTo(m))
      <4>1. /\ 1 \in DOMAIN stack' /\ stack'[1] = OnTo(m)
            /\ \A k \in DOMAIN stack' : k # 1 => k \in DOMAIN stack /\ stack'[k] = stack[k]
        BY <3>2 DEF InPlace
      <4>2. \A k \in DOMAIN stack' : ~Makes(stack'[k])
        BY <2>5, <2>7, <4>1 DEF Makes
      <4>3. RunComes(stack', callbacks[i].n)
        BY <2>5, <3>1, <4>1, <4>2 DEF RunComes
      <4> QED BY <2>9, <4>3 DEF Ok, Awake
    <3>3. CASE InPlace(stack, stack', Calls(n, m))
      <4>1. 1 \in DOMAIN stack' /\ stack'[1] = Calls(n, m)
        BY <3>3 DEF InPlace
      <4>2. CallCovers(stack', callbacks[i].n)
        BY <2>6, <3>1, <4>1 DEF CallCovers
      <4> QED BY <2>9, <4>2 DEF Ok, Awake
    <3> QED BY <2>1, <3>2, <3>3 DEF Dropping, Passing, Making, m
  <2>13. ASSUME callbacks[i].n = n PROVE Ok(callbacks'[j])
    <3>1. CASE Passing(n)
      <4>1. Excused(callbacks[i].conv)
        BY <2>2, <2>13, <3>1 DEF Passing, Excused
      <4> QED BY <2>10, <4>1
    <3>2. CASE Making(n)
      <4>1. InPlace(stack, stack', Calls(n, m))
        BY <3>2 DEF Making, m
      <4>2. 1 \in DOMAIN stack' /\ stack'[1] = Calls(n, m)
        BY <4>1 DEF InPlace
      <4>3. CallCovers(stack', callbacks[i].n)
        BY <2>6, <2>13, <4>2 DEF CallCovers
      <4> QED BY <2>9, <4>3 DEF Ok, Awake
    <3> QED BY <2>1, <2>9, <2>13, <3>1, <3>2
  <2>14. n <= callbacks[i].n => callbacks[i].n > n \/ callbacks[i].n = n
    BY <1>1, <2>3
  <2> QED BY <1>1, <2>8, <2>10, <2>11, <2>12, <2>13, <2>14
<1>6. ASSUME NEW block \in BOOLEAN, CallbackReturns(block), StayBlocked PROVE Ok(callbacks'[j])
  <2> DEFINE n == stack[1].item
             m == stack[1].next
             c == Waiting(n).conv
  <2>1. /\ 1 \in DOMAIN stack /\ stack[1].at = "called" /\ In(n)
        /\ InPlace(stack, stack', OnTo(m)) /\ runs' = runs
        /\ \/ Without(n) /\ status' = status
           \/ callbacks' = callbacks /\ status' = [status EXCEPT ![c] = Blocked(@)]
    BY <1>6, ReturnsWays
  <2>2. /\ c \in Conv
        /\ \A i \in DOMAIN callbacks : callbacks[i].n = n => callbacks[i].conv = c
    BY <2>1, PlaceIs
  <2>3. OnTo(m).at = "run" /\ OnTo(m).item = m
    BY DEF OnTo
  <2>4. stack[1].item = n /\ stack[1].next = m
    OBVIOUS
  <2> HIDE DEF n, m, c
  <2>5. \A k \in DOMAIN stack : k # 1 => ~Makes(stack[k])
    <3>1. \A k \in DOMAIN stack : k # 1 => 1 < k
      BY StackParts
    <3> QED BY <2>1, <3>1 DEF Nested
  <2>6. /\ 1 \in DOMAIN stack' /\ stack'[1] = OnTo(m)
        /\ \A k \in DOMAIN stack' : k # 1 => k \in DOMAIN stack /\ stack'[k] = stack[k]
    BY <2>1 DEF InPlace
  <2>7. \A k \in DOMAIN stack' : ~Makes(stack'[k])
    BY <2>3, <2>5, <2>6 DEF Makes
  <2>8. ASSUME NEW i \in DOMAIN callbacks, Awake(stack, runs, callbacks[i].n)
        PROVE  runs > 0 \/ callbacks[i].n = n \/ (m # 0 /\ m <= callbacks[i].n)
    <3>1. ~RunComes(stack, callbacks[i].n)
      BY <2>1 DEF RunComes, Makes
    <3>2. ~WaitInCall(stack)
      <4>1. \A k, l \in DOMAIN stack : k < l => l # 1
        BY StackParts
      <4> QED BY <2>5, <4>1 DEF WaitInCall
    <3>3. \A k \in DOMAIN stack : stack[k].at = "called" => k = 1
      BY <2>5 DEF Makes
    <3> QED BY <2>4, <2>8, <3>1, <3>2, <3>3 DEF Awake, CallCovers
  <2>9. PICK i \in DOMAIN callbacks : callbacks'[j] = callbacks[i] /\ (Without(n) => callbacks[i].n # n)
    <3>1. CASE Without(n)
      BY <2>1, <3>1, WithoutIs DEF Without, Kept
    <3>2. CASE ~Without(n)
      <4>1. callbacks' = callbacks
        BY <2>1, <3>2
      <4> QED BY <3>2, <4>1
    <3> QED BY <3>1, <3>2
  <2>10. Excused(callbacks[i].conv) => Ok(callbacks'[j])
    BY <1>1, <1>2, <1>6, <2>9 DEF Ok
  <2>11. ASSUME runs > 0 PROVE Ok(callbacks'[j])
    BY <2>1, <2>11 DEF Ok, Awake
  <2>12. ASSUME m # 0, m <= callbacks[i].n PROVE Ok(callbacks'[j])
    <3>1. RunComes(stack', callbacks[i].n)
      BY <2>3, <2>6, <2>7, <2>12 DEF RunComes
    <3> QED BY <2>9, <3>1 DEF Ok, Awake
  <2>13. ASSUME callbacks[i].n = n PROVE Ok(callbacks'[j])
    <3>1. status' = [status EXCEPT ![c] = Blocked(@)] /\ callbacks[i].conv = c
      BY <2>1, <2>2, <2>9, <2>13
    <3>2. "blocked" \in status'[c]
      BY <2>2, <3>1 DEF CallbacksTyped, Blocked
    <3> QED BY <2>9, <3>1, <3>2 DEF Ok, StillExcused
  <2> QED BY <1>1, <2>8, <2>10, <2>11, <2>12, <2>13
<1>7. CASE StayBlocked
  BY <1>4, <1>5, <1>6, <1>7
<1> QED BY <1>3, <1>7, BlockedKept

\* Every step keeps the list to be run for what may be made.
LEMMA ReachedKept ==
  ASSUME CallbacksTyped, ArrivedOnce, Listed, Nested, EndsApart, Accord, count \in Nat, Reached,
         CallbacksNext
  PROVE  Reached'
<1>1. CASE refused
  BY <1>1, ReachedAnew
<1>2. CASE ~refused
  BY <1>2, ReachedStays
<1> QED BY <1>1, <1>2

-----------------------------------------------------------------------------
(* The callbacks: the theorems.                                            *)

\* An instance with every conversation connected and nothing waiting meets it.
LEMMA InitCallbacksInv == CallbacksInit => CallbacksInv
<1> SUFFICES ASSUME CallbacksInit PROVE CallbacksInv OBVIOUS
<1>1. /\ callbacks = <<>> /\ windows = Conv /\ status = [c \in Conv |-> {"connected"}]
      /\ count = 0 /\ waited = NoConv /\ looped = FALSE /\ stack = <<>> /\ runs = 0
      /\ endings = {} /\ coming = {} /\ partner = [c \in Conv |-> "open"]
      /\ came = 0 /\ made = [c \in Conv |-> 0]
      /\ refused = FALSE /\ misused = {}
  BY DEF CallbacksInit
<1>2. DOMAIN callbacks = {} /\ DOMAIN stack = {}
  BY <1>1
<1>3. CallbacksTyped
  <2>1. callbacks \in Seq(Callback) /\ stack \in Seq(Frame)
    BY <1>1
  <2>2. runs \in 0 .. Room /\ came \in 0 .. MaxCallbacks
    BY <1>1, CallbacksAssumption
  <2>3. status \in [Conv -> SUBSET Flag]
    BY <1>1 DEF Flag
  <2> QED BY <1>1, <1>2, <2>1, <2>2, <2>3 DEF CallbacksTyped
<1>4. Nested /\ OneWait /\ EndsApart /\ WaitedStands
  BY <1>1, <1>2 DEF Nested, OneWait, EndsApart, PairApart, WaitedStands
<1>5. \A c \in Conv : status[c] = {"connected"} /\ partner[c] = "open" /\ made[c] = 0
  BY <1>1
<1>6. \A c \in Conv : \A at : ~There(stack, c, at)
  BY <1>2 DEF There
<1>7. Accord
  BY <1>1, <1>5, <1>6 DEF Accord, AccordOf
<1>8. Clean
  BY <1>1, <1>5, <1>6 DEF Clean, CleanOf, Followed
<1>9. Counts
  <2>1. Awaited = {}
    BY <1>5 DEF Awaited
  <2>2. Cardinality(Awaited) = 0
    BY <2>1, FS_EmptySet
  <2> QED BY <1>1, <2>2 DEF Counts, TerminationsCounted, Awaited
<1>10. Listed /\ ArrivedOnce /\ InTurn /\ MadeInOrder /\ Reached
  BY <1>2 DEF Listed, ArrivedOnce, InTurn, MadeInOrder, Reached
<1>11. Histories
  BY <1>1, <1>5 DEF Histories
<1> QED BY <1>3, <1>4, <1>7, <1>8, <1>9, <1>10, <1>11 DEF CallbacksInv

\* Where nothing changes it stays met.
LEMMA StillCallbacksInv == CallbacksInv /\ UNCHANGED callbacksVars => CallbacksInv'
<1> SUFFICES ASSUME CallbacksInv, UNCHANGED callbacksVars PROVE CallbacksInv' OBVIOUS
<1>1. /\ callbacks' = callbacks /\ windows' = windows /\ status' = status /\ count' = count
      /\ waited' = waited /\ looped' = looped /\ stack' = stack /\ runs' = runs
      /\ endings' = endings /\ coming' = coming /\ partner' = partner
      /\ came' = came /\ made' = made /\ refused' = refused /\ misused' = misused
  BY DEF callbacksVars
<1>2. CallbacksTyped' /\ Nested' /\ OneWait' /\ EndsApart' /\ WaitedStands'
  BY <1>1 DEF CallbacksInv, CallbacksTyped, Nested, OneWait, EndsApart, WaitedStands
<1>3. Accord' /\ Clean'
  BY <1>1 DEF CallbacksInv, Accord, AccordOf, Clean, CleanOf, Followed
<1>4. Counts'
  BY <1>1 DEF CallbacksInv, Counts, Awaited, TerminationsCounted
<1>5. Listed' /\ ArrivedOnce' /\ Histories' /\ InTurn' /\ MadeInOrder'
  BY <1>1 DEF CallbacksInv, Listed, In, ArrivedOnce, Histories, InTurn, MadeInOrder
<1>6. Reached'
  BY <1>1 DEF CallbacksInv, Reached, Excused, Dropped, Followed
<1> QED BY <1>2, <1>3, <1>4, <1>5, <1>6 DEF CallbacksInv

\* Every step of the callbacks keeps it.
LEMMA NextCallbacksInv == CallbacksInv /\ CallbacksNext => CallbacksInv'
<1> SUFFICES ASSUME CallbacksInv, CallbacksNext PROVE CallbacksInv' OBVIOUS
<1>1. /\ CallbacksTyped /\ Nested /\ OneWait /\ EndsApart /\ WaitedStands
      /\ Accord /\ Clean /\ Counts /\ count \in Nat
      /\ Listed /\ ArrivedOnce /\ Histories /\ InTurn /\ MadeInOrder /\ Reached
  BY DEF CallbacksInv, Counts
<1>2. CallbacksTyped' BY <1>1, TypedKept
<1>3. Nested' BY <1>1, NestedKept
<1>4. OneWait' BY <1>1, OneWaitKept
<1>5. EndsApart' BY <1>1, EndsApartKept
<1>6. WaitedStands' BY <1>1, WaitedStandsKept
<1>7. Accord' BY <1>1, AccordKept
<1>8. Clean' BY <1>1, CleanKept
<1>9. Counts' BY <1>1, CountsKept
<1>10. Listed' BY <1>1, ListedKept
<1>11. ArrivedOnce' BY <1>1, ArrivedOnceKept
<1>12. Histories' BY <1>1, HistoriesKept
<1>13. InTurn' BY <1>1, InTurnKept
<1>14. MadeInOrder' BY <1>1, MadeInOrderKept
<1>15. Reached' BY <1>1, ReachedKept
<1> QED BY <1>2, <1>3, <1>4, <1>5, <1>6, <1>7, <1>8, <1>9, <1>10, <1>11, <1>12, <1>13,
           <1>14, <1>15 DEF CallbacksInv

\* Whatever comes in, is called back, waited for, blocked and ended, the stack of
\* what is under way, the list and the flags keep the invariant.
THEOREM CallbacksInvariant == CallbacksSpec => []CallbacksInv
<1>1. CallbacksInv /\ [CallbacksNext]_callbacksVars => CallbacksInv'
  BY NextCallbacksInv, StillCallbacksInv
<1> QED BY <1>1, InitCallbacksInv, PTL DEF CallbacksSpec

\* The state is of its type, the list is in order of coming, and as many waits are
\* under way as the instance's word 28h says, which is one or none (conv.rs: wait).
THEOREM CallbacksAreTyped == CallbacksSpec => []CallbacksTypeOK
<1>1. CallbacksInv => CallbacksTypeOK
  <2> SUFFICES ASSUME CallbacksInv PROVE CallbacksTypeOK OBVIOUS
  <2> DEFINE W == {i \in DOMAIN stack : stack[i].at = "wait"}
  <2>1. CallbacksTyped /\ OneWait /\ count \in Nat
    BY DEF CallbacksInv, Counts
  <2>2. CASE waited = NoConv
    <3>1. \A i \in DOMAIN stack : stack[i].at # "wait"
      <4> SUFFICES ASSUME NEW i \in DOMAIN stack, stack[i].at = "wait" PROVE FALSE
        OBVIOUS
      <4>1. stack[i].conv = waited
        BY <2>1 DEF OneWait
      <4>2. stack[i] \in Frame
        BY <2>1 DEF CallbacksTyped
      <4>3. stack[i].conv \in Conv
        BY <4>2, FrameParts
      <4> QED BY <2>2, <4>1, <4>3, CallbacksAssumption
    <3>2. Cardinality(W) = 0
      <4>1. W = {}
        BY <3>1
      <4> QED BY <4>1, FS_EmptySet
    <3> QED BY <2>1, <2>2, <3>2 DEF CallbacksTyped, CallbacksTypeOK
  <2>3. CASE waited # NoConv
    <3>1. PICK i \in DOMAIN stack : stack[i].at = "wait"
      BY <2>1, <2>3 DEF OneWait
    <3>2. W = {i}
      BY <2>1, <3>1 DEF OneWait
    <3>3. Cardinality(W) = 1
      BY <3>2, FS_Singleton
    <3> QED BY <2>1, <2>3, <3>3 DEF CallbacksTyped, CallbacksTypeOK
  <2> QED BY <2>2, <2>3
<1> QED BY <1>1, CallbacksInvariant, PTL

\* A conversation whose transaction is waited for is not ended under the wait, by
\* either side (conv.rs: terminate, on_terminate).
THEOREM TheWaitedStands == CallbacksSpec => []WaitedStands
<1>1. CallbacksInv => WaitedStands BY DEF CallbacksInv
<1> QED BY <1>1, CallbacksInvariant, PTL

\* What DdeUninitialize waits for is what is yet to be answered: the count goes up
\* once for each termination posted and down once for each answer, where no
\* termination of the program's own is dispatched in the partner's.
THEOREM TerminationsAreCounted == CallbacksSpec => []TerminationsCounted
<1>1. CallbacksInv => TerminationsCounted BY DEF CallbacksInv, Counts
<1> QED BY <1>1, CallbacksInvariant, PTL

\* On the same condition a conversation whose partner's termination has been
\* followed is gone with its window (conv.rs: on_terminate).
THEOREM TheEndedAreGone == CallbacksSpec => []EndedGone
<1>1. CallbacksInv => EndedGone
  <2> SUFFICES ASSUME CallbacksInv, "ended" \notin misused, NEW c \in windows,
                      partner[c] = "ended", c \notin coming, ~BeingEnded(c)
               PROVE  FALSE
    BY DEF EndedGone
  <2>1. c \in Conv /\ Clean
    BY DEF CallbacksInv, CallbacksTyped
  <2>2. ~Followed(c)
    BY FollowedIs
  <2> QED BY <2>1, <2>2 DEF Clean, CleanOf
<1> QED BY <1>1, CallbacksInvariant, PTL

\* The callbacks of a conversation are made in the order they came in, where no
\* program unblocks one in a callback (instance.rs: run_queue, enable_callback).
THEOREM TheyAreMadeInOrder == CallbacksSpec => []MadeInOrder
<1>1. CallbacksInv => MadeInOrder BY DEF CallbacksInv
<1> QED BY <1>1, CallbacksInvariant, PTL

\* None that may be made waits with no message to have it made, whenever the program's
\* queue is full, but from a run refused to the next that begins (instance.rs:
\* queue_callback, run_queue, enable_callback, modal_loop).
THEOREM NoneIsStranded == CallbacksSpec => []NoCallbackStranded
<1>1. CallbacksInv => NoCallbackStranded
  <2> SUFFICES ASSUME CallbacksInv, Dispatching, ~UnderWay, runs = 0, ~refused,
                      NEW i \in DOMAIN callbacks
               PROVE  \/ Dropped(callbacks[i].conv) \/ "blocked" \in status[callbacks[i].conv]
                      \/ BeingEnded(callbacks[i].conv)
    BY DEF NoCallbackStranded
  <2>1. CallbacksTyped /\ Nested /\ Reached
    BY DEF CallbacksInv
  <2>2. \A k \in DOMAIN stack : ~Makes(stack[k]) /\ stack[k].at # "called"
    BY DEF UnderWay, Makes
  <2>3. \A k \in DOMAIN stack : stack[k].at # "run"
    <3> SUFFICES ASSUME NEW k \in DOMAIN stack, stack[k].at = "run" PROVE FALSE
      OBVIOUS
    <3>1. k = 1
      BY <2>1 DEF Nested
    <3>2. stack # <<>> /\ Head(stack) = stack[1]
      BY <2>1, <3>1 DEF CallbacksTyped
    <3> QED BY <3>1, <3>2 DEF Dispatching, Top
  <2>4. ~Awake(stack, runs, callbacks[i].n)
    BY <2>2, <2>3 DEF Awake, WaitInCall, RunComes, CallCovers
  <2>5. Excused(callbacks[i].conv)
    BY <2>1, <2>4 DEF Reached
  <2> QED BY <2>5 DEF Excused
<1> QED BY <1>1, CallbacksInvariant, PTL

-----------------------------------------------------------------------------
(* The transactions: the invariants.                                       *)

\* Two numbers are in order, or (once) not the same.
Rel(r, x, y) == IF r = "once" THEN x # y ELSE x < y
Rels == {"once", "order"}

\* A list is in order, or has each once; and so has one list before another.
Line(r, l) == \A i, j \in DOMAIN l : i < j => Rel(r, l[i], l[j])
Before(r, a, b) == \A i \in DOMAIN a, j \in DOMAIN b : Rel(r, a[i], b[j])

\* The transactions that a side's messages posted, its posts kept and its posts being
\* tried are about.
NumbersOf(l) == [i \in DOMAIN l |-> l[i].n]
TriedOf(l) == [i \in DOMAIN l |-> l[i].post.n]
OnWire(s) == NumbersOf(wire[s])
OnKept(s) == NumbersOf(kept[s])
Tried(s) == TriedOf(posting[s])

\* One behind the other.
Follow(r, w, k, h) == /\ Line(r, w) /\ Line(r, k) /\ Line(r, h)
                      /\ Before(r, w, k) /\ Before(r, w, h) /\ Before(r, k, h)
All(w, k, h) == ToSet(w) \cup ToSet(k) \cup ToSet(h)
Of(s) == All(OnWire(s), OnKept(s), Tried(s))
Requests == ToSet(requests)

Ordered(r) ==
  /\ \A s \in Side : Follow(r, OnWire(s), OnKept(s), Tried(s))
  /\ Line(r, requests)
  /\ \A x \in Of("server"), y \in Requests : Rel(r, x, y)
  /\ \A x \in Requests, y \in Of("client") : Rel(r, x, y)
  /\ \A x \in Of("server"), y \in Of("client") : Rel(r, x, y)

Way == Of("server") \cup Requests \cup Of("client")

\* A side tries one post at a time, and none while it keeps some.
OneTried(s) == posting[s] = <<>> \/ (Len(posting[s]) = 1 /\ kept[s] = <<>>)
OnePost == \A s \in Side : OneTried(s)
WayOrdered == /\ Ordered("once")
              /\ "within" \in loose \/ (OnePost /\ Ordered("order"))

\* What is spoken of has been begun.
AllSent == /\ Len(begun) <= MaxSent
           /\ Way \subseteq Sent /\ Async \subseteq Sent /\ sync \in Sent \cup {0}
           /\ answered \subseteq Sent
           /\ \A n \in Number \ answered : answerOf[n] = 0

\* The client's lists: its records in order, each completion of an answered one.
Records == /\ Line("order", pool) /\ sync \notin Async
           /\ Line("once", completions) /\ ToSet(completions) \subseteq answered

\* Who waits for an item with a synchronous transaction waits for it no other way, and
\* none on its way that nobody waits for is for an item waited for.
SyncAlone == sync \in Awaiting => \A n \in Awaiting : n # sync => begun[n].item # begun[sync].item
LateApart == \A m \in Way \ Awaiting, n \in Awaiting : begun[m].item # begun[n].item
Matched == loose # {} \/ (SyncAlone /\ LateApart)

\* Whom an answer is waited for is on the way: NoneLost, by the lists one by one.
NoneGone == loose # {} \/ Awaiting \subseteq Way

\* The types.
Try == [post : Post, tries : 1 .. Tries]
PostsTyped ==
  /\ wire \in [Side -> Seq(Post)] /\ kept \in [Side -> Seq(Post)]
  /\ timer \in [Side -> BOOLEAN] /\ posting \in [Side -> Seq(Try)]
  /\ \A s \in Side : Len(wire[s]) <= Places
TransTyped ==
  /\ begun \in Seq([item : Item, kind : {"request", "poke"}])
  /\ pool \in Seq(Number) /\ completions \in Seq(Number) /\ requests \in Seq(Number)
  /\ sync \in Number \cup {0} /\ answered \subseteq Number
  /\ PostsTyped
  /\ answerOf \in [Number -> Number \cup {0}]
  /\ loose \subseteq {"again", "within"}

\* The inductive invariant of the transactions.
TransInv == /\ TransTyped /\ WayOrdered /\ AllSent /\ Records /\ CalledBackOnce
            /\ Matched /\ NoneGone /\ OwnAnswers

-----------------------------------------------------------------------------
(* The transactions: lists one before another.                             *)

\* Two lists with the same at each place are the same.
LEMMA SameLists ==
  ASSUME NEW S, NEW a \in Seq(S), NEW b \in Seq(S), Len(a) = Len(b),
         \A i \in 1 .. Len(a) : a[i] = b[i]
  PROVE  a = b
BY SeqEqual

\* What is so of two lists joined.
LEMMA JoinedLists ==
  ASSUME NEW S, NEW r, NEW a \in Seq(S), NEW b \in Seq(S)
  PROVE  /\ a \o b \in Seq(S)
         /\ ToSet(a \o b) = ToSet(a) \cup ToSet(b)
         /\ Line(r, a \o b) <=> Line(r, a) /\ Line(r, b) /\ Before(r, a, b)
         /\ \A c : Before(r, a \o b, c) <=> Before(r, a, c) /\ Before(r, b, c)
         /\ \A c : Before(r, c, a \o b) <=> Before(r, c, a) /\ Before(r, c, b)
<1> DEFINE t == a \o b
<1>1. /\ t \in Seq(S) /\ Len(t) = Len(a) + Len(b)
      /\ \A j \in 1 .. Len(a) : t[j] = a[j]
      /\ \A j \in Len(a) + 1 .. Len(a) + Len(b) : t[j] = b[j - Len(a)]
  BY Joined
<1> HIDE DEF t
<1>2. /\ Len(a) \in Nat /\ DOMAIN a = 1 .. Len(a) /\ Len(b) \in Nat /\ DOMAIN b = 1 .. Len(b)
      /\ DOMAIN t = 1 .. Len(a) + Len(b)
  BY <1>1
<1>3. \A i \in DOMAIN a : i \in DOMAIN t /\ t[i] = a[i]
  BY <1>1, <1>2
<1>4. \A i \in DOMAIN b : Len(a) + i \in DOMAIN t /\ t[Len(a) + i] = b[i]
  <2> TAKE i \in DOMAIN b
  <2>1. Len(a) + i \in Len(a) + 1 .. Len(a) + Len(b) /\ (Len(a) + i) - Len(a) = i
    BY <1>2
  <2> QED BY <1>1, <1>2, <2>1
<1>5. \A j \in DOMAIN t : \/ j \in DOMAIN a /\ t[j] = a[j]
                          \/ j - Len(a) \in DOMAIN b /\ t[j] = b[j - Len(a)] /\ j > Len(a)
  BY <1>1, <1>2
<1>6. ToSet(t) = ToSet(a) \cup ToSet(b)
  BY <1>3, <1>4, <1>5 DEF ToSet
<1>7. \A c : Before(r, t, c) <=> Before(r, a, c) /\ Before(r, b, c)
  BY <1>3, <1>4, <1>5 DEF Before
<1>8. \A c : Before(r, c, t) <=> Before(r, c, a) /\ Before(r, c, b)
  BY <1>3, <1>4, <1>5 DEF Before
<1>9. ASSUME Line(r, t) PROVE Line(r, a) /\ Line(r, b) /\ Before(r, a, b)
  <2>1. Line(r, a)
    BY <1>2, <1>3, <1>9 DEF Line
  <2>2. ASSUME NEW i \in DOMAIN b, NEW j \in DOMAIN b, i < j PROVE Rel(r, b[i], b[j])
    <3>1. Len(a) + i < Len(a) + j
      BY <1>2, <2>2
    <3> QED BY <1>4, <1>9, <3>1 DEF Line
  <2>3. ASSUME NEW i \in DOMAIN a, NEW j \in DOMAIN b PROVE Rel(r, a[i], b[j])
    <3>1. i < Len(a) + j
      BY <1>2
    <3> QED BY <1>3, <1>4, <1>9, <3>1 DEF Line
  <2> QED BY <2>1, <2>2, <2>3 DEF Line, Before
<1>10. ASSUME Line(r, a), Line(r, b), Before(r, a, b) PROVE Line(r, t)
  <2> SUFFICES ASSUME NEW i \in DOMAIN t, NEW j \in DOMAIN t, i < j PROVE Rel(r, t[i], t[j])
    BY DEF Line
  <2>1. CASE j \in DOMAIN a /\ t[j] = a[j]
    <3>1. i \in DOMAIN a
      BY <1>2, <2>1
    <3> QED BY <1>3, <1>10, <2>1, <3>1 DEF Line
  <2>2. CASE j - Len(a) \in DOMAIN b /\ t[j] = b[j - Len(a)] /\ j > Len(a)
    <3>1. CASE i \in DOMAIN a /\ t[i] = a[i]
      BY <1>10, <2>2, <3>1 DEF Before
    <3>2. CASE i - Len(a) \in DOMAIN b /\ t[i] = b[i - Len(a)] /\ i > Len(a)
      <4>1. i - Len(a) < j - Len(a)
        BY <1>2
      <4> QED BY <1>10, <2>2, <3>2, <4>1 DEF Line
    <3> QED BY <1>5, <3>1, <3>2
  <2> QED BY <1>5, <2>1, <2>2
<1>11. Line(r, t) <=> Line(r, a) /\ Line(r, b) /\ Before(r, a, b)
  BY <1>9, <1>10
<1> QED BY <1>1, <1>6, <1>7, <1>8, <1>11 DEF t

\* What is in two lists joined.
LEMMA JoinedSets ==
  ASSUME NEW S, NEW a \in Seq(S), NEW b \in Seq(S)
  PROVE  ToSet(a \o b) = ToSet(a) \cup ToSet(b)
BY JoinedLists

\* A list of one.
LEMMA OneList ==
  ASSUME NEW S, NEW x \in S, NEW r
  PROVE  <<x>> \in Seq(S) /\ Line(r, <<x>>) /\ ToSet(<<x>>) = {x}
<1> DEFINE o == <<x>>
<1>1. o \in Seq(S) /\ DOMAIN o = {1} /\ o[1] = x
  OBVIOUS
<1> HIDE DEF o
<1>2. Line(r, o)
  BY <1>1 DEF Line
<1>3. ToSet(o) = {x}
  BY <1>1 DEF ToSet
<1> QED BY <1>1, <1>2, <1>3 DEF o

\* What is before what, by members.
LEMMA BeforeIs ==
  ASSUME NEW r, NEW a, NEW b
  PROVE  Before(r, a, b) <=> \A x \in ToSet(a), y \in ToSet(b) : Rel(r, x, y)
BY DEF Before, ToSet

\* A list is its first and the rest.
LEMMA FirstAndRest ==
  ASSUME NEW S, NEW l \in Seq(S), l # <<>>
  PROVE  /\ Tail(l) \in Seq(S) /\ Head(l) \in S /\ l = <<Head(l)>> \o Tail(l)
<1> DEFINE t == Tail(l)
           o == <<Head(l)>>
<1>1. /\ Len(l) \in Nat \ {0} /\ t \in Seq(S) /\ Len(t) = Len(l) - 1
      /\ Head(l) = l[1] /\ Head(l) \in S
      /\ \A i \in 1 .. Len(l) - 1 : t[i] = l[i + 1]
  OBVIOUS
<1>2. o \in Seq(S) /\ Len(o) = 1 /\ o[1] = l[1]
  BY <1>1
<1> HIDE DEF t, o
<1>3. /\ o \o t \in Seq(S) /\ Len(o \o t) = 1 + (Len(l) - 1)
      /\ (o \o t)[1] = l[1]
      /\ \A i \in 2 .. Len(l) : (o \o t)[i] = t[i - 1]
  <2>1. /\ o \o t \in Seq(S)
        /\ Len(o \o t) = Len(o) + Len(t)
        /\ \A j \in 1 .. Len(o) : (o \o t)[j] = o[j]
        /\ \A j \in Len(o) + 1 .. Len(o) + Len(t) : (o \o t)[j] = t[j - Len(o)]
    <3>1. o \in Seq(S) /\ t \in Seq(S)
      BY <1>1, <1>2
    <3> QED BY <3>1, Joined
  <2> QED BY <1>1, <1>2, <2>1
<1>4. \A i \in 1 .. Len(l) : (o \o t)[i] = l[i]
  <2> TAKE i \in 1 .. Len(l)
  <2>1. CASE i = 1
    BY <1>3, <2>1
  <2>2. CASE i # 1
    <3>1. i \in 2 .. Len(l) /\ i - 1 \in 1 .. Len(l) - 1 /\ (i - 1) + 1 = i
      BY <1>1, <2>2
    <3> QED BY <1>1, <1>3, <3>1
  <2> QED BY <2>1, <2>2
<1>5. o \o t = l
  BY <1>1, <1>3, <1>4, SameLists
<1> QED BY <1>1, <1>5 DEF t, o

\* A list with an element behind it.
LEMMA BehindIs ==
  ASSUME NEW S, NEW l \in Seq(S), NEW x \in S
  PROVE  Append(l, x) = l \o <<x>>
<1> DEFINE o == <<x>>
           a == Append(l, x)
<1>1. /\ a \in Seq(S) /\ Len(a) = Len(l) + 1 /\ Len(l) \in Nat
      /\ \A j \in 1 .. Len(l) : a[j] = l[j]
      /\ a[Len(l) + 1] = x
  BY AppendParts
<1>2. o \in Seq(S) /\ Len(o) = 1 /\ o[1] = x
  OBVIOUS
<1> HIDE DEF o, a
<1>3. /\ l \o o \in Seq(S)
      /\ Len(l \o o) = Len(l) + Len(o)
      /\ \A j \in 1 .. Len(l) : (l \o o)[j] = l[j]
      /\ \A j \in Len(l) + 1 .. Len(l) + Len(o) : (l \o o)[j] = o[j - Len(l)]
  BY <1>2, Joined
<1>4. \A j \in 1 .. Len(a) : a[j] = (l \o o)[j]
  BY <1>1, <1>2, <1>3
<1>5. a = l \o o
  BY <1>1, <1>2, <1>3, <1>4, SameLists
<1> QED BY <1>5 DEF o, a

\* A list cut in two.
LEMMA CutInTwo ==
  ASSUME NEW S, NEW l \in Seq(S), NEW n \in 0 .. Len(l)
  PROVE  /\ SubSeq(l, 1, n) \in Seq(S) /\ SubSeq(l, n + 1, Len(l)) \in Seq(S)
         /\ l = SubSeq(l, 1, n) \o SubSeq(l, n + 1, Len(l))
         /\ Len(SubSeq(l, 1, n)) = n
<1>1. Len(l) \in Nat /\ 1 \in 1 .. Len(l) + 1 /\ n \in 1 - 1 .. Len(l) /\ Len(l) \in n .. Len(l)
      /\ n + 1 \in 1 .. Len(l) + 1 /\ (n + 1) - 1 = n
  OBVIOUS
<1>2. SubSeq(l, 1, n) \o SubSeq(l, n + 1, Len(l)) = SubSeq(l, 1, Len(l))
  BY <1>1, ConcatAdjacentSubSeq
<1>3. SubSeq(l, 1, Len(l)) = l
  <2>1. SubSeq(l, 1, Len(l)) \in Seq(S) /\ Len(SubSeq(l, 1, Len(l))) = Len(l)
        /\ \A j \in 1 .. Len(l) : SubSeq(l, 1, Len(l))[j] = l[j]
    OBVIOUS
  <2> QED BY <2>1, SameLists
<1>4. /\ SubSeq(l, 1, n) \in Seq(S) /\ Len(SubSeq(l, 1, n)) = n
      /\ SubSeq(l, n + 1, Len(l)) \in Seq(S)
  OBVIOUS
<1> QED BY <1>2, <1>3, <1>4

-----------------------------------------------------------------------------
(* The transactions: what moves between a side's lists.                    *)

\* What differs, differs either way round.
LEMMA OnceEither ==
  \A x, y : Rel("once", x, y) <=> Rel("once", y, x)
BY DEF Rel

\* The posts kept that find room go behind those on the wire.
LEMMA OntoWire ==
  ASSUME NEW r, NEW S, NEW w \in Seq(S), NEW h \in Seq(S), NEW p \in Seq(S), NEW q \in Seq(S)
  PROVE  Follow(r, w, p \o q, h) => Follow(r, w \o p, q, h)
<1>1. /\ ToSet(w \o p) = ToSet(w) \cup ToSet(p)
      /\ Line(r, w \o p) <=> Line(r, w) /\ Line(r, p) /\ Before(r, w, p)
      /\ \A c : Before(r, w \o p, c) <=> Before(r, w, c) /\ Before(r, p, c)
  BY JoinedLists
<1>2. /\ ToSet(p \o q) = ToSet(p) \cup ToSet(q)
      /\ Line(r, p \o q) <=> Line(r, p) /\ Line(r, q) /\ Before(r, p, q)
      /\ \A c : Before(r, p \o q, c) <=> Before(r, p, c) /\ Before(r, q, c)
      /\ \A c : Before(r, c, p \o q) <=> Before(r, c, p) /\ Before(r, c, q)
  BY JoinedLists
<1> QED BY <1>1, <1>2 DEF Follow

\* The post tried finds room.
LEMMA TriedWithRoom ==
  ASSUME NEW r, NEW S, NEW w \in Seq(S), NEW k \in Seq(S), NEW x \in S, NEW t \in Seq(S)
  PROVE  /\ Follow(r, w, k, <<x>> \o t) /\ Before(r, <<x>>, k) => Follow(r, w \o <<x>>, k, t)
         /\ All(w \o <<x>>, k, t) = All(w, k, <<x>> \o t)
<1> DEFINE o == <<x>>
<1>0. o \in Seq(S)
  BY OneList
<1> HIDE DEF o
<1>1. /\ ToSet(w \o o) = ToSet(w) \cup ToSet(o)
      /\ Line(r, w \o o) <=> Line(r, w) /\ Line(r, o) /\ Before(r, w, o)
      /\ \A c : Before(r, w \o o, c) <=> Before(r, w, c) /\ Before(r, o, c)
  BY <1>0, JoinedLists
<1>2. /\ ToSet(o \o t) = ToSet(o) \cup ToSet(t)
      /\ Line(r, o \o t) <=> Line(r, o) /\ Line(r, t) /\ Before(r, o, t)
      /\ \A c : Before(r, c, o \o t) <=> Before(r, c, o) /\ Before(r, c, t)
  BY <1>0, JoinedLists
<1>3. /\ Follow(r, w, k, o \o t) /\ Before(r, o, k) => Follow(r, w \o o, k, t)
      /\ All(w \o o, k, t) = All(w, k, o \o t)
  BY <1>1, <1>2 DEF Follow, All
<1> QED BY <1>3 DEF o

\* The post tried is kept.
LEMMA TriedThenKept ==
  ASSUME NEW r, NEW S, NEW w \in Seq(S), NEW k \in Seq(S), NEW x \in S, NEW t \in Seq(S)
  PROVE  /\ Follow(r, w, k, <<x>> \o t) => Follow(r, w, k \o <<x>>, t)
         /\ All(w, k \o <<x>>, t) = All(w, k, <<x>> \o t)
<1> DEFINE o == <<x>>
<1>0. o \in Seq(S)
  BY OneList
<1> HIDE DEF o
<1>1. /\ ToSet(k \o o) = ToSet(k) \cup ToSet(o)
      /\ Line(r, k \o o) <=> Line(r, k) /\ Line(r, o) /\ Before(r, k, o)
      /\ \A c : Before(r, k \o o, c) <=> Before(r, k, c) /\ Before(r, o, c)
      /\ \A c : Before(r, c, k \o o) <=> Before(r, c, k) /\ Before(r, c, o)
  BY <1>0, JoinedLists
<1>2. /\ ToSet(o \o t) = ToSet(o) \cup ToSet(t)
      /\ Line(r, o \o t) <=> Line(r, o) /\ Line(r, t) /\ Before(r, o, t)
      /\ \A c : Before(r, c, o \o t) <=> Before(r, c, o) /\ Before(r, c, t)
  BY <1>0, JoinedLists
<1>3. /\ Follow(r, w, k, o \o t) => Follow(r, w, k \o o, t)
      /\ All(w, k \o o, t) = All(w, k, o \o t)
  BY <1>1, <1>2 DEF Follow, All
<1> QED BY <1>3 DEF o

\* A new one, later than all there are: behind those kept, on the wire where none is
\* kept, or tried.
LEMMA NewOne ==
  ASSUME NEW r, NEW S, NEW w \in Seq(S), NEW k \in Seq(S), NEW h \in Seq(S), NEW x \in S,
         Follow(r, w, k, h), \A y \in All(w, k, h) : Rel(r, y, x), Before(r, <<x>>, h)
  PROVE  /\ Follow(r, w, k \o <<x>>, h)
         /\ Follow(r, w, k, <<x>> \o h)
         /\ Before(r, <<x>>, k) => Follow(r, w \o <<x>>, k, h)
<1> DEFINE o == <<x>>
<1>0. o \in Seq(S) /\ Line(r, o) /\ ToSet(o) = {x}
  BY OneList
<1> HIDE DEF o
<1>1. /\ Before(r, w, o) /\ Before(r, k, o) /\ Before(r, h, o) /\ Before(r, o, h)
  BY <1>0, BeforeIs DEF All, o
<1>2. /\ Line(r, k \o o) <=> Line(r, k) /\ Line(r, o) /\ Before(r, k, o)
      /\ \A c : Before(r, k \o o, c) <=> Before(r, k, c) /\ Before(r, o, c)
      /\ \A c : Before(r, c, k \o o) <=> Before(r, c, k) /\ Before(r, c, o)
  BY <1>0, JoinedLists
<1>3. /\ Line(r, o \o h) <=> Line(r, o) /\ Line(r, h) /\ Before(r, o, h)
      /\ \A c : Before(r, c, o \o h) <=> Before(r, c, o) /\ Before(r, c, h)
  BY <1>0, JoinedLists
<1>4. /\ Line(r, w \o o) <=> Line(r, w) /\ Line(r, o) /\ Before(r, w, o)
      /\ \A c : Before(r, w \o o, c) <=> Before(r, w, c) /\ Before(r, o, c)
  BY <1>0, JoinedLists
<1>5. /\ Follow(r, w, k \o o, h)
      /\ Follow(r, w, k, o \o h)
      /\ Before(r, o, k) => Follow(r, w \o o, k, h)
  BY <1>0, <1>1, <1>2, <1>3, <1>4 DEF Follow
<1> QED BY <1>5 DEF o

\* It is one of all then.
LEMMA NewAmongAll ==
  ASSUME NEW S, NEW w \in Seq(S), NEW k \in Seq(S), NEW h \in Seq(S), NEW x \in S
  PROVE  /\ All(w, k \o <<x>>, h) = All(w, k, h) \cup {x}
         /\ All(w, k, <<x>> \o h) = All(w, k, h) \cup {x}
         /\ All(w \o <<x>>, k, h) = All(w, k, h) \cup {x}
<1> DEFINE o == <<x>>
<1>0. o \in Seq(S) /\ ToSet(o) = {x}
  BY OneList
<1> HIDE DEF o
<1>1. /\ ToSet(k \o o) = ToSet(k) \cup ToSet(o) /\ ToSet(o \o h) = ToSet(o) \cup ToSet(h)
      /\ ToSet(w \o o) = ToSet(w) \cup ToSet(o)
  <2>0. o \in Seq(S)
    BY <1>0
  <2>1. ToSet(k \o o) = ToSet(k) \cup ToSet(o)
    BY <2>0, JoinedLists
  <2>2. ToSet(o \o h) = ToSet(o) \cup ToSet(h)
    BY <2>0, JoinedLists
  <2>3. ToSet(w \o o) = ToSet(w) \cup ToSet(o)
    BY <2>0, JoinedLists
  <2> QED BY <2>1, <2>2, <2>3
<1>2. /\ All(w, k \o o, h) = All(w, k, h) \cup {x}
      /\ All(w, k, o \o h) = All(w, k, h) \cup {x}
      /\ All(w \o o, k, h) = All(w, k, h) \cup {x}
  BY <1>0, <1>1 DEF All
<1> QED BY <1>2 DEF o

\* The first on the wire is taken.
LEMMA FirstTaken ==
  ASSUME NEW r, NEW S, NEW t \in Seq(S), NEW k \in Seq(S), NEW h \in Seq(S), NEW x \in S,
         Follow(r, <<x>> \o t, k, h)
  PROVE  /\ Follow(r, t, k, h)
         /\ \A y \in All(t, k, h) : Rel(r, x, y)
         /\ All(<<x>> \o t, k, h) = All(t, k, h) \cup {x}
<1> DEFINE o == <<x>>
<1>0. o \in Seq(S) /\ ToSet(o) = {x}
  BY OneList
<1> HIDE DEF o
<1>1. /\ ToSet(o \o t) = ToSet(o) \cup ToSet(t)
      /\ Line(r, o \o t) <=> Line(r, o) /\ Line(r, t) /\ Before(r, o, t)
      /\ \A c : Before(r, o \o t, c) <=> Before(r, o, c) /\ Before(r, t, c)
  <2>0. o \in Seq(S)
    BY <1>0
  <2> QED BY <2>0, JoinedLists
<1>2. Follow(r, o \o t, k, h)
  BY DEF o
<1>3. Before(r, o, t) /\ Before(r, o, k) /\ Before(r, o, h)
  BY <1>1, <1>2 DEF Follow
<1>4. /\ Follow(r, t, k, h)
      /\ All(o \o t, k, h) = All(t, k, h) \cup {x}
  BY <1>0, <1>1, <1>2 DEF Follow, All
<1>5. \A y \in All(t, k, h) : Rel(r, x, y)
  BY <1>0, <1>3, BeforeIs DEF All
<1> QED BY <1>4, <1>5 DEF o

\* What posts are about.
LEMMA NumbersAre ==
  /\ \A l \in Seq(Post) : /\ NumbersOf(l) \in Seq(Number) /\ Len(NumbersOf(l)) = Len(l)
                          /\ \A i \in 1 .. Len(l) : NumbersOf(l)[i] = l[i].n
  /\ \A l \in Seq(Try) : /\ TriedOf(l) \in Seq(Number) /\ Len(TriedOf(l)) = Len(l)
                         /\ \A i \in 1 .. Len(l) : TriedOf(l)[i] = l[i].post.n
<1>1. ASSUME NEW l \in Seq(Post)
      PROVE  /\ NumbersOf(l) \in Seq(Number) /\ Len(NumbersOf(l)) = Len(l)
             /\ \A i \in 1 .. Len(l) : NumbersOf(l)[i] = l[i].n
  <2>1. DOMAIN l = 1 .. Len(l) /\ Len(l) \in Nat /\ \A i \in 1 .. Len(l) : l[i] \in Post
    OBVIOUS
  <2>2. \A i \in 1 .. Len(l) : l[i].n \in Number
    BY <2>1 DEF Post
  <2>3. NumbersOf(l) \in [1 .. Len(l) -> Number] /\ \A i \in 1 .. Len(l) : NumbersOf(l)[i] = l[i].n
    BY <2>1, <2>2 DEF NumbersOf
  <2> HIDE DEF NumbersOf
  <2>4. NumbersOf(l) \in Seq(Number) /\ DOMAIN NumbersOf(l) = 1 .. Len(l)
    BY <2>1, <2>3, SeqOfFcn
  <2>5. Len(NumbersOf(l)) = Len(l)
    BY <2>1, <2>4
  <2> QED BY <2>3, <2>4, <2>5
<1>2. ASSUME NEW l \in Seq(Try)
      PROVE  /\ TriedOf(l) \in Seq(Number) /\ Len(TriedOf(l)) = Len(l)
             /\ \A i \in 1 .. Len(l) : TriedOf(l)[i] = l[i].post.n
  <2>1. DOMAIN l = 1 .. Len(l) /\ Len(l) \in Nat /\ \A i \in 1 .. Len(l) : l[i] \in Try
    OBVIOUS
  <2>2. \A i \in 1 .. Len(l) : l[i].post.n \in Number
    BY <2>1 DEF Try, Post
  <2>3. TriedOf(l) \in [1 .. Len(l) -> Number] /\ \A i \in 1 .. Len(l) : TriedOf(l)[i] = l[i].post.n
    BY <2>1, <2>2 DEF TriedOf
  <2> HIDE DEF TriedOf
  <2>4. TriedOf(l) \in Seq(Number) /\ DOMAIN TriedOf(l) = 1 .. Len(l)
    BY <2>1, <2>3, SeqOfFcn
  <2>5. Len(TriedOf(l)) = Len(l)
    BY <2>1, <2>4
  <2> QED BY <2>3, <2>4, <2>5
<1> QED BY <1>1, <1>2

\* And those of lists joined.
LEMMA NumbersJoin ==
  /\ \A a, b \in Seq(Post) : NumbersOf(a \o b) = NumbersOf(a) \o NumbersOf(b)
  /\ \A a, b \in Seq(Try) : TriedOf(a \o b) = TriedOf(a) \o TriedOf(b)
  /\ \A x \in Post : NumbersOf(<<x>>) = <<x.n>>
  /\ \A x \in Try : TriedOf(<<x>>) = <<x.post.n>>
  /\ NumbersOf(<<>>) = <<>> /\ TriedOf(<<>>) = <<>>
<1>1. ASSUME NEW a \in Seq(Post), NEW b \in Seq(Post)
      PROVE  NumbersOf(a \o b) = NumbersOf(a) \o NumbersOf(b)
  <2> DEFINE t == a \o b
             x == NumbersOf(a)
             y == NumbersOf(b)
             z == NumbersOf(t)
  <2>1. /\ t \in Seq(Post) /\ Len(t) = Len(a) + Len(b)
        /\ \A j \in 1 .. Len(a) : t[j] = a[j]
        /\ \A j \in Len(a) + 1 .. Len(a) + Len(b) : t[j] = b[j - Len(a)]
    BY Joined
  <2> HIDE DEF t
  <2>2. /\ x \in Seq(Number) /\ Len(x) = Len(a) /\ \A i \in 1 .. Len(a) : x[i] = a[i].n
        /\ y \in Seq(Number) /\ Len(y) = Len(b) /\ \A i \in 1 .. Len(b) : y[i] = b[i].n
        /\ z \in Seq(Number) /\ Len(z) = Len(t) /\ \A i \in 1 .. Len(t) : z[i] = t[i].n
    BY <2>1, NumbersAre
  <2> HIDE DEF x, y, z
  <2>3. /\ x \o y \in Seq(Number) /\ Len(x \o y) = Len(x) + Len(y)
        /\ \A j \in 1 .. Len(x) : (x \o y)[j] = x[j]
        /\ \A j \in Len(x) + 1 .. Len(x) + Len(y) : (x \o y)[j] = y[j - Len(x)]
    <3>1. x \in Seq(Number) /\ y \in Seq(Number)
      BY <2>2
    <3> QED BY <3>1, Joined
  <2>4. ASSUME NEW j \in 1 .. Len(z) PROVE z[j] = (x \o y)[j]
    <3>0. Len(a) \in Nat /\ Len(b) \in Nat
      OBVIOUS
    <3>1. CASE j <= Len(a)
      <4>1. j \in 1 .. Len(a) /\ j \in 1 .. Len(x) /\ j \in 1 .. Len(t)
        BY <2>1, <2>2, <3>0, <3>1
      <4> QED BY <2>1, <2>2, <2>3, <4>1
    <3>2. CASE j > Len(a)
      <4>1. j \in Len(a) + 1 .. Len(a) + Len(b) /\ j - Len(a) \in 1 .. Len(b)
        BY <2>1, <2>2, <3>0, <3>2
      <4> QED BY <2>1, <2>2, <2>3, <4>1
    <3> QED BY <2>1, <2>2, <3>0, <3>1, <3>2
  <2>5. z = x \o y
    BY <2>1, <2>2, <2>3, <2>4, SameLists
  <2> QED BY <2>5 DEF x, y, z, t
<1>2. ASSUME NEW a \in Seq(Try), NEW b \in Seq(Try)
      PROVE  TriedOf(a \o b) = TriedOf(a) \o TriedOf(b)
  <2> DEFINE t == a \o b
             x == TriedOf(a)
             y == TriedOf(b)
             z == TriedOf(t)
  <2>1. /\ t \in Seq(Try) /\ Len(t) = Len(a) + Len(b)
        /\ \A j \in 1 .. Len(a) : t[j] = a[j]
        /\ \A j \in Len(a) + 1 .. Len(a) + Len(b) : t[j] = b[j - Len(a)]
    BY Joined
  <2> HIDE DEF t
  <2>2. /\ x \in Seq(Number) /\ Len(x) = Len(a) /\ \A i \in 1 .. Len(a) : x[i] = a[i].post.n
        /\ y \in Seq(Number) /\ Len(y) = Len(b) /\ \A i \in 1 .. Len(b) : y[i] = b[i].post.n
        /\ z \in Seq(Number) /\ Len(z) = Len(t) /\ \A i \in 1 .. Len(t) : z[i] = t[i].post.n
    BY <2>1, NumbersAre
  <2> HIDE DEF x, y, z
  <2>3. /\ x \o y \in Seq(Number) /\ Len(x \o y) = Len(x) + Len(y)
        /\ \A j \in 1 .. Len(x) : (x \o y)[j] = x[j]
        /\ \A j \in Len(x) + 1 .. Len(x) + Len(y) : (x \o y)[j] = y[j - Len(x)]
    <3>1. x \in Seq(Number) /\ y \in Seq(Number)
      BY <2>2
    <3> QED BY <3>1, Joined
  <2>4. ASSUME NEW j \in 1 .. Len(z) PROVE z[j] = (x \o y)[j]
    <3>0. Len(a) \in Nat /\ Len(b) \in Nat
      OBVIOUS
    <3>1. CASE j <= Len(a)
      <4>1. j \in 1 .. Len(a) /\ j \in 1 .. Len(x) /\ j \in 1 .. Len(t)
        BY <2>1, <2>2, <3>0, <3>1
      <4> QED BY <2>1, <2>2, <2>3, <4>1
    <3>2. CASE j > Len(a)
      <4>1. j \in Len(a) + 1 .. Len(a) + Len(b) /\ j - Len(a) \in 1 .. Len(b)
        BY <2>1, <2>2, <3>0, <3>2
      <4> QED BY <2>1, <2>2, <2>3, <4>1
    <3> QED BY <2>1, <2>2, <3>0, <3>1, <3>2
  <2>5. z = x \o y
    BY <2>1, <2>2, <2>3, <2>4, SameLists
  <2> QED BY <2>5 DEF x, y, z, t
<1>3. \A x \in Post : NumbersOf(<<x>>) = <<x.n>>
  BY DEF NumbersOf
<1>4. \A x \in Try : TriedOf(<<x>>) = <<x.post.n>>
  BY DEF TriedOf
<1>5. NumbersOf(<<>>) = <<>> /\ TriedOf(<<>>) = <<>>
  BY DEF NumbersOf, TriedOf
<1> QED BY <1>1, <1>2, <1>3, <1>4, <1>5

-----------------------------------------------------------------------------
(* The transactions: what a side's step does to its lists.                 *)

\* The other side's lists are as they were.
Elsewhere(s) == \A u \in Side : u # s => /\ wire'[u] = wire[u] /\ kept'[u] = kept[u]
                                         /\ posting'[u] = posting[u]

Following(r, s) == Follow(r, OnWire(s), OnKept(s), Tried(s))

\* What a side has goes on in it; or a new one comes to it.
Moving(s) ==
  /\ PostsTyped' /\ Elsewhere(s)
  /\ Of(s)' = Of(s)
  /\ \A r \in Rels : Following(r, s) /\ (r = "once" \/ OneTried(s)) => Following(r, s)'
  /\ OneTried(s) => OneTried(s)'
Growing(s, n) ==
  /\ PostsTyped' /\ Elsewhere(s)
  /\ Of(s)' = Of(s) \cup {n}
  /\ \A r \in Rels : Following(r, s) /\ (r = "once" \/ Free(s)) /\ (\A y \in Of(s) : Rel(r, y, n))
       => Following(r, s)'
  /\ Free(s) => OneTried(s)'

\* The lists are lists of numbers.
LEMMA ListsAre ==
  ASSUME PostsTyped, NEW s \in Side
  PROVE  /\ wire[s] \in Seq(Post) /\ kept[s] \in Seq(Post) /\ posting[s] \in Seq(Try)
         /\ OnWire(s) \in Seq(Number) /\ OnKept(s) \in Seq(Number) /\ Tried(s) \in Seq(Number)
<1>1. wire[s] \in Seq(Post) /\ kept[s] \in Seq(Post) /\ posting[s] \in Seq(Try)
  BY DEF PostsTyped
<1> QED BY <1>1, NumbersAre DEF OnWire, OnKept, Tried

\* What repost does to a list of posts.
LEMMA RepostIs ==
  ASSUME PostsTyped, NEW s \in Side, NEW list \in Seq(Post), NEW set \in BOOLEAN,
         Repost(s, list, set)
  PROVE  /\ \E p, q \in Seq(Post) : list = p \o q /\ wire'[s] = wire[s] \o p /\ kept'[s] = q
         /\ \A u \in Side : u # s => wire'[u] = wire[u] /\ kept'[u] = kept[u]
         /\ wire' \in [Side -> Seq(Post)] /\ kept' \in [Side -> Seq(Post)]
         /\ timer' \in [Side -> BOOLEAN]
         /\ \A u \in Side : Len(wire'[u]) <= Places
<1> DEFINE room == Places - Len(wire[s])
           n == IF Len(list) < room THEN Len(list) ELSE room
           p == SubSeq(list, 1, n)
           q == SubSeq(list, n + 1, Len(list))
<1>1. /\ wire[s] \in Seq(Post) /\ Len(wire[s]) \in Nat /\ Len(wire[s]) <= Places
      /\ Places \in Nat /\ Len(list) \in Nat
  BY ListsAre, TransactionsAssumption DEF PostsTyped
<1>2. n \in 0 .. Len(list) /\ n <= room
  <2>1. room \in Nat /\ Len(list) \in Nat
    BY <1>1
  <2> HIDE DEF room
  <2> QED BY <2>1
<1>3. /\ wire' = [wire EXCEPT ![s] = wire[s] \o p]
      /\ kept' = [kept EXCEPT ![s] = q]
      /\ timer' = [timer EXCEPT ![s] = set \/ q # <<>>]
  BY DEF Repost, LeftAfterPosts
<1> HIDE DEF n
<1>4. p \in Seq(Post) /\ q \in Seq(Post) /\ list = p \o q /\ Len(p) = n
  BY <1>2, CutInTwo
<1> HIDE DEF p, q
<1>5. wire[s] \o p \in Seq(Post) /\ Len(wire[s] \o p) = Len(wire[s]) + n
  BY <1>1, <1>4, Joined
<1>6. Len(wire[s] \o p) <= Places
  BY <1>1, <1>2, <1>5
<1>7. /\ wire'[s] = wire[s] \o p /\ kept'[s] = q
      /\ \A u \in Side : u # s => wire'[u] = wire[u] /\ kept'[u] = kept[u]
  BY <1>3 DEF PostsTyped
<1>8. /\ wire' \in [Side -> Seq(Post)] /\ kept' \in [Side -> Seq(Post)]
      /\ timer' \in [Side -> BOOLEAN]
  BY <1>3, <1>4, <1>5 DEF PostsTyped
<1>9. \A u \in Side : Len(wire'[u]) <= Places
  BY <1>6, <1>7 DEF PostsTyped
<1> QED BY <1>4, <1>7, <1>8, <1>9

\* Posts kept, posted again, move on.
LEMMA RepostMoves ==
  ASSUME PostsTyped, NEW s \in Side, NEW set \in BOOLEAN, Repost(s, kept[s], set),
         posting' = posting, Free(s)
  PROVE  Moving(s)
<1>1. kept[s] \in Seq(Post)
  BY ListsAre
<1>2. /\ \E p, q \in Seq(Post) : kept[s] = p \o q /\ wire'[s] = wire[s] \o p /\ kept'[s] = q
      /\ \A u \in Side : u # s => wire'[u] = wire[u] /\ kept'[u] = kept[u]
      /\ wire' \in [Side -> Seq(Post)] /\ kept' \in [Side -> Seq(Post)]
      /\ timer' \in [Side -> BOOLEAN]
      /\ \A u \in Side : Len(wire'[u]) <= Places
  BY <1>1, RepostIs
<1>3. PICK p, q \in Seq(Post) : kept[s] = p \o q /\ wire'[s] = wire[s] \o p /\ kept'[s] = q
  BY <1>2
<1> DEFINE w == OnWire(s)
           h == Tried(s)
           x == NumbersOf(p)
           y == NumbersOf(q)
<1>4. w \in Seq(Number) /\ h \in Seq(Number) /\ x \in Seq(Number) /\ y \in Seq(Number)
  BY ListsAre, NumbersAre
<1>5. /\ OnKept(s) = x \o y /\ OnWire(s)' = w \o x /\ OnKept(s)' = y /\ Tried(s)' = h
  BY <1>3, ListsAre, NumbersJoin DEF OnKept, OnWire, Tried
<1> HIDE DEF w, h, x, y
<1>6. All(w \o x, y, h) = All(w, x \o y, h)
  <2>1. ToSet(w \o x) = ToSet(w) \cup ToSet(x)
    BY <1>4, JoinedSets
  <2>2. ToSet(x \o y) = ToSet(x) \cup ToSet(y)
    BY <1>4, JoinedSets
  <2> QED BY <2>1, <2>2 DEF All
<1>7. \A r : Follow(r, w, x \o y, h) => Follow(r, w \o x, y, h)
  BY <1>4, OntoWire
<1>8. Of(s)' = Of(s)
  BY <1>5, <1>6 DEF Of, w, h
<1>9. \A r \in Rels : Following(r, s) => Following(r, s)'
  BY <1>5, <1>7 DEF Following, w, h
<1>10. PostsTyped'
  BY <1>2 DEF PostsTyped
<1>11. Elsewhere(s) /\ OneTried(s)'
  BY <1>2 DEF Elsewhere, OneTried, Free
<1> QED BY <1>8, <1>9, <1>10, <1>11 DEF Moving

\* A post in its turn to be tried again moves on.
LEMMA TryMoves ==
  ASSUME PostsTyped, NEW s \in Side, TryAgain(s)
  PROVE  Moving(s)
<1> DEFINE try == Head(posting[s])
           l == Tail(posting[s])
           a == <<try>>
           w == OnWire(s)
           k == OnKept(s)
           t == TriedOf(l)
           x == try.post.n
<1>1. /\ posting[s] \in Seq(Try) /\ posting[s] # <<>> /\ wire[s] \in Seq(Post)
      /\ kept[s] \in Seq(Post) /\ w \in Seq(Number) /\ k \in Seq(Number)
      /\ timer' = timer
  BY ListsAre DEF TryAgain
<1>2. l \in Seq(Try) /\ try \in Try /\ posting[s] = a \o l /\ try = posting[s][1]
      /\ Len(l) = Len(posting[s]) - 1
  BY <1>1, FirstAndRest
<1>3. try.post \in Post /\ x \in Number
  BY <1>2 DEF Try, Post
<1>4. a \in Seq(Try) /\ TriedOf(a) = <<x>>
  BY <1>2, NumbersJoin
<1>5. Tried(s) = <<x>> \o t /\ t \in Seq(Number)
  BY <1>2, <1>4, NumbersJoin, NumbersAre DEF Tried
<1>6. /\ NumbersOf(Append(wire[s], try.post)) = w \o <<x>>
      /\ NumbersOf(Append(kept[s], try.post)) = k \o <<x>>
      /\ Append(wire[s], try.post) \in Seq(Post) /\ Append(kept[s], try.post) \in Seq(Post)
      /\ Len(Append(wire[s], try.post)) = Len(wire[s]) + 1
  <2> DEFINE o == <<try.post>>
  <2>1. /\ Append(wire[s], try.post) = wire[s] \o o
        /\ Append(kept[s], try.post) = kept[s] \o o
        /\ o \in Seq(Post) /\ NumbersOf(o) = <<x>>
    <3> HIDE DEF try
    <3>1. Append(wire[s], try.post) = wire[s] \o o
      BY <1>1, <1>3, BehindIs
    <3>2. Append(kept[s], try.post) = kept[s] \o o
      BY <1>1, <1>3, BehindIs
    <3>3. o \in Seq(Post) /\ NumbersOf(o) = <<x>>
      BY <1>3, NumbersJoin
    <3> QED BY <3>1, <3>2, <3>3
  <2> HIDE DEF o
  <2>2. /\ NumbersOf(wire[s] \o o) = w \o <<x>>
        /\ NumbersOf(kept[s] \o o) = k \o <<x>>
    BY <1>1, <2>1, NumbersJoin DEF OnWire, OnKept
  <2>3. /\ Append(wire[s], try.post) \in Seq(Post) /\ Append(kept[s], try.post) \in Seq(Post)
        /\ Len(Append(wire[s], try.post)) = Len(wire[s]) + 1
    BY <1>1, <1>3, AppendParts
  <2> QED BY <2>1, <2>2, <2>3
<1>7. OneTried(s) => k = <<>> /\ kept[s] = <<>> /\ l = <<>>
  <2> SUFFICES ASSUME OneTried(s) PROVE k = <<>> /\ kept[s] = <<>> /\ l = <<>>
    OBVIOUS
  <2>1. Len(posting[s]) = 1 /\ kept[s] = <<>>
    BY <1>1 DEF OneTried
  <2>2. Len(l) = 0
    BY <1>2, <2>1
  <2>3. l = <<>>
    BY <1>2, <2>2
  <2> QED BY <2>1, <2>3, NumbersJoin DEF OnKept
<1> HIDE DEF try, l, a, w, k, t, x
<1>8. CASE /\ Len(wire[s]) < Places
           /\ wire' = [wire EXCEPT ![s] = Append(@, try.post)]
           /\ posting' = [posting EXCEPT ![s] = Tail(@)]
           /\ UNCHANGED kept
  <2>1. /\ wire'[s] = Append(wire[s], try.post) /\ posting'[s] = l /\ kept'[s] = kept[s]
        /\ Elsewhere(s)
    BY <1>8 DEF PostsTyped, Elsewhere, l
  <2>2. PostsTyped'
    <3>1. wire' \in [Side -> Seq(Post)] /\ posting' \in [Side -> Seq(Try)]
      BY <1>2, <1>6, <1>8 DEF PostsTyped, l
    <3>2. \A u \in Side : Len(wire'[u]) <= Places
      <4>1. Len(wire[s]) + 1 <= Places
        BY <1>1, <1>8, TransactionsAssumption
      <4> QED BY <1>6, <2>1, <4>1 DEF PostsTyped, Elsewhere
    <3> QED BY <1>1, <1>8, <3>1, <3>2 DEF PostsTyped
  <2>3. OnWire(s)' = w \o <<x>> /\ OnKept(s)' = k /\ Tried(s)' = t
    BY <1>6, <2>1 DEF OnWire, OnKept, Tried, k, t
  <2>4. Of(s)' = Of(s)
    <3>1. /\ Follow("once", w, k, <<x>> \o t) /\ Before("once", <<x>>, k)
               => Follow("once", w \o <<x>>, k, t)
          /\ All(w \o <<x>>, k, t) = All(w, k, <<x>> \o t)
      BY <1>1, <1>3, <1>5, TriedWithRoom
    <3> QED BY <1>5, <2>3, <3>1 DEF Of, w, k
  <2>5. ASSUME NEW r \in Rels, Following(r, s), r = "once" \/ OneTried(s) PROVE Following(r, s)'
    <3>1. Follow(r, w, k, <<x>> \o t)
      BY <1>5, <2>5 DEF Following, w, k
    <3>2. Before(r, <<x>>, k)
      <4>1. CASE OneTried(s)
        BY <1>7, <4>1 DEF Before
      <4>2. CASE r = "once"
        <5>1. Before(r, k, <<x>> \o t)
          BY <3>1 DEF Follow
        <5>2. <<x>> \in Seq(Number)
          BY <1>3, OneList
        <5>3. Before(r, k, <<x>>)
          BY <1>5, <5>1, <5>2, JoinedLists
        <5> QED BY <4>2, <5>3, OnceEither DEF Before
      <4> QED BY <2>5, <4>1, <4>2
    <3>3. Follow(r, w \o <<x>>, k, t)
      BY <1>1, <1>3, <1>5, <3>1, <3>2, TriedWithRoom
    <3> QED BY <2>3, <3>3 DEF Following
  <2>6. OneTried(s) => OneTried(s)'
    BY <1>7, <2>1 DEF OneTried
  <2> QED BY <2>1, <2>2, <2>4, <2>5, <2>6 DEF Moving
<1>9. CASE /\ posting' = [posting EXCEPT ![s][1].tries = @ + 1]
           /\ try.tries # Tries /\ UNCHANGED <<wire, kept>>
  <2> DEFINE new == [posting[s] EXCEPT ![1].tries = @ + 1]
  <2>1. /\ posting'[s] = new /\ wire' = wire /\ kept' = kept /\ Elsewhere(s)
    BY <1>9 DEF PostsTyped, Elsewhere
  <2>2. /\ Len(posting[s]) \in Nat \ {0} /\ 1 \in DOMAIN posting[s] /\ DOMAIN posting[s] = 1 .. Len(posting[s])
        /\ \A i \in DOMAIN posting[s] : posting[s][i] \in Try
    BY <1>1
  <2>3. /\ DOMAIN new = DOMAIN posting[s]
        /\ \A i \in DOMAIN new : new[i].post = posting[s][i].post
        /\ \A i \in DOMAIN new : new[i] \in Try
    <3>1. /\ DOMAIN new = DOMAIN posting[s]
          /\ new[1] = [posting[s][1] EXCEPT !.tries = @ + 1]
          /\ \A i \in DOMAIN posting[s] : i # 1 => new[i] = posting[s][i]
      BY <2>2
    <3>2. posting[s][1].tries + 1 \in 1 .. Tries
      <4>1. posting[s][1] \in Try /\ posting[s][1].tries # Tries
        BY <1>2, <1>9, <2>2
      <4> QED BY <4>1, TransactionsAssumption DEF Try
    <3>3. posting[s][1] \in Try
      BY <2>2
    <3>4. new[1] \in Try /\ new[1].post = posting[s][1].post
      BY <3>1, <3>2, <3>3 DEF Try
    <3> QED BY <2>2, <3>1, <3>4
  <2>4. new \in Seq(Try) /\ Len(new) = Len(posting[s])
    <3>1. new \in [1 .. Len(posting[s]) -> Try]
      BY <2>2, <2>3
    <3>2. new \in Seq(Try) /\ DOMAIN new = 1 .. Len(posting[s])
      BY <2>2, <3>1, SeqOfFcn
    <3> QED BY <2>2, <3>2
  <2> HIDE DEF new
  <2>5. TriedOf(new) = TriedOf(posting[s])
    BY <2>3 DEF TriedOf
  <2>6. PostsTyped'
    <3>1. posting' \in [Side -> Seq(Try)]
      BY <1>9, <2>1, <2>4 DEF PostsTyped, Elsewhere
    <3> QED BY <1>1, <1>9, <3>1 DEF PostsTyped
  <2>7. OnWire(s)' = OnWire(s) /\ OnKept(s)' = OnKept(s) /\ Tried(s)' = Tried(s)
    BY <2>1, <2>5 DEF OnWire, OnKept, Tried
  <2>8. Of(s)' = Of(s) /\ \A r : Following(r, s) => Following(r, s)'
    BY <2>7 DEF Of, Following
  <2>9. OneTried(s) => OneTried(s)'
    BY <1>1, <2>1, <2>4 DEF OneTried
  <2> QED BY <2>1, <2>6, <2>8, <2>9 DEF Moving
<1>10. CASE /\ kept' = [kept EXCEPT ![s] = Append(@, try.post)]
            /\ posting' = [posting EXCEPT ![s] = Tail(@)]
            /\ UNCHANGED wire
  <2>1. /\ kept'[s] = Append(kept[s], try.post) /\ posting'[s] = l /\ wire'[s] = wire[s]
        /\ Elsewhere(s)
    BY <1>10 DEF PostsTyped, Elsewhere, l
  <2>2. PostsTyped'
    <3>1. kept' \in [Side -> Seq(Post)] /\ posting' \in [Side -> Seq(Try)]
      BY <1>2, <1>6, <1>10 DEF PostsTyped, l
    <3> QED BY <1>1, <1>10, <3>1 DEF PostsTyped
  <2>3. OnWire(s)' = w /\ OnKept(s)' = k \o <<x>> /\ Tried(s)' = t
    BY <1>6, <2>1 DEF OnWire, OnKept, Tried, w, t
  <2>4. Of(s)' = Of(s)
    <3>1. /\ Follow("once", w, k, <<x>> \o t) => Follow("once", w, k \o <<x>>, t)
          /\ All(w, k \o <<x>>, t) = All(w, k, <<x>> \o t)
      BY <1>1, <1>3, <1>5, TriedThenKept
    <3> QED BY <1>5, <2>3, <3>1 DEF Of, w, k
  <2>5. ASSUME NEW r \in Rels, Following(r, s) PROVE Following(r, s)'
    <3>1. Follow(r, w, k, <<x>> \o t)
      BY <1>5, <2>5 DEF Following, w, k
    <3>2. Follow(r, w, k \o <<x>>, t)
      BY <1>1, <1>3, <1>5, <3>1, TriedThenKept
    <3> QED BY <2>3, <3>2 DEF Following
  <2>6. OneTried(s) => OneTried(s)'
    BY <1>7, <2>1 DEF OneTried
  <2> QED BY <2>1, <2>2, <2>4, <2>5, <2>6 DEF Moving
<1> QED BY <1>8, <1>9, <1>10 DEF TryAgain, try

\* A post made comes to the side's lists.
LEMMA PostGrows ==
  ASSUME PostsTyped, NEW s \in Side, NEW post \in Post, PostDde(s, post)
  PROVE  Growing(s, post.n)
<1> DEFINE x == post.n
           w == OnWire(s)
           k == OnKept(s)
           h == Tried(s)
<1>1. /\ posting[s] \in Seq(Try) /\ wire[s] \in Seq(Post) /\ kept[s] \in Seq(Post)
      /\ w \in Seq(Number) /\ k \in Seq(Number) /\ h \in Seq(Number) /\ x \in Number
  BY ListsAre DEF Post
<1>2. /\ Append(wire[s], post) \in Seq(Post) /\ Len(Append(wire[s], post)) = Len(wire[s]) + 1
      /\ Append(kept[s], post) \in Seq(Post)
  BY <1>1, AppendParts
<1>3. /\ NumbersOf(Append(wire[s], post)) = w \o <<x>>
      /\ NumbersOf(Append(kept[s], post)) = k \o <<x>>
  <2> DEFINE o == <<post>>
  <2>1. Append(wire[s], post) = wire[s] \o o
    BY <1>1, BehindIs
  <2>2. Append(kept[s], post) = kept[s] \o o
    BY <1>1, BehindIs
  <2>3. o \in Seq(Post) /\ NumbersOf(o) = <<x>>
    BY NumbersJoin
  <2> HIDE DEF o
  <2>4. /\ NumbersOf(wire[s] \o o) = w \o <<x>>
        /\ NumbersOf(kept[s] \o o) = k \o <<x>>
    BY <1>1, <2>3, NumbersJoin DEF OnWire, OnKept
  <2> QED BY <2>1, <2>2, <2>4
<1>4. Free(s) => h = <<>>
  BY NumbersJoin DEF Free, Tried
<1>5. kept[s] = <<>> => k = <<>>
  BY NumbersJoin DEF OnKept
<1>6. <<x>> \in Seq(Number) /\ ToSet(<<x>>) = {x}
  BY <1>1, OneList
<1> HIDE DEF x, w, k, h
<1> DEFINE May(r) == /\ Following(r, s) /\ (r = "once" \/ Free(s))
                     /\ \A y \in Of(s) : Rel(r, y, x)
<1>7. ASSUME NEW r \in Rels, May(r)
      PROVE  /\ Follow(r, w, k \o <<x>>, h)
             /\ Follow(r, w, k, <<x>> \o h)
             /\ kept[s] = <<>> => Follow(r, w \o <<x>>, k, h)
  <2>1. Follow(r, w, k, h) /\ \A y \in All(w, k, h) : Rel(r, y, x)
    BY <1>7 DEF Following, Of, w, k, h
  <2>2. Before(r, <<x>>, h)
    <3>1. CASE Free(s)
      BY <1>4, <3>1 DEF Before
    <3>2. CASE r = "once"
      <4>1. \A y \in ToSet(h) : Rel("once", x, y)
        BY <2>1, <3>2, OnceEither DEF All
      <4> QED BY <1>6, <3>2, <4>1, BeforeIs
    <3> QED BY <1>7, <3>1, <3>2
  <2>3. kept[s] = <<>> => Before(r, <<x>>, k)
    BY <1>5 DEF Before
  <2> QED BY <1>1, <2>1, <2>2, <2>3, NewOne
<1>8. /\ All(w, k \o <<x>>, h) = All(w, k, h) \cup {x}
      /\ All(w, k, <<x>> \o h) = All(w, k, h) \cup {x}
      /\ All(w \o <<x>>, k, h) = All(w, k, h) \cup {x}
  BY <1>1, NewAmongAll
<1>9. CASE Repost(s, Append(kept[s], post), timer[s]) /\ posting' = posting
  <2> DEFINE list == Append(kept[s], post)
  <2>1. list \in Seq(Post) /\ timer[s] \in BOOLEAN
    BY <1>2 DEF PostsTyped
  <2>2. NumbersOf(list) = k \o <<x>>
    BY <1>3
  <2> HIDE DEF list
  <2>3. /\ \E p, q \in Seq(Post) : list = p \o q /\ wire'[s] = wire[s] \o p /\ kept'[s] = q
        /\ \A u \in Side : u # s => wire'[u] = wire[u] /\ kept'[u] = kept[u]
        /\ wire' \in [Side -> Seq(Post)] /\ kept' \in [Side -> Seq(Post)]
        /\ timer' \in [Side -> BOOLEAN]
        /\ \A u \in Side : Len(wire'[u]) <= Places
    BY <1>9, <2>1, RepostIs DEF list
  <2>4. PICK p, q \in Seq(Post) : list = p \o q /\ wire'[s] = wire[s] \o p /\ kept'[s] = q
    BY <2>3
  <2> DEFINE a == NumbersOf(p)
             b == NumbersOf(q)
  <2>5. a \in Seq(Number) /\ b \in Seq(Number)
    BY NumbersAre
  <2>6. /\ k \o <<x>> = a \o b /\ OnWire(s)' = w \o a /\ OnKept(s)' = b /\ Tried(s)' = h
    BY <1>1, <1>9, <2>2, <2>4, NumbersJoin DEF OnKept, OnWire, Tried, w, h
  <2> HIDE DEF a, b
  <2>7. Of(s)' = Of(s) \cup {x}
    <3>1. ToSet(w \o a) = ToSet(w) \cup ToSet(a)
      BY <1>1, <2>5, JoinedSets
    <3>2. ToSet(a \o b) = ToSet(a) \cup ToSet(b)
      BY <2>5, JoinedSets
    <3>3. All(w \o a, b, h) = All(w, a \o b, h)
      BY <3>1, <3>2 DEF All
    <3> QED BY <1>8, <2>6, <3>3 DEF Of, w, k, h
  <2>8. ASSUME NEW r \in Rels, May(r) PROVE Following(r, s)'
    <3>1. Follow(r, w, a \o b, h)
      BY <1>7, <2>6, <2>8
    <3>2. Follow(r, w \o a, b, h)
      BY <1>1, <2>5, <3>1, OntoWire
    <3> QED BY <2>6, <3>2 DEF Following
  <2>9. PostsTyped' /\ Elsewhere(s) /\ (Free(s) => OneTried(s)')
    BY <1>9, <2>3 DEF PostsTyped, Elsewhere, Free, OneTried
  <2> QED BY <2>7, <2>8, <2>9 DEF Growing, x
<1>10. CASE /\ kept[s] = <<>> /\ Len(wire[s]) < Places
            /\ wire' = [wire EXCEPT ![s] = Append(@, post)] /\ UNCHANGED <<posting, kept, timer>>
  <2>1. wire'[s] = Append(wire[s], post) /\ Elsewhere(s)
    BY <1>10 DEF PostsTyped, Elsewhere
  <2>2. OnWire(s)' = w \o <<x>> /\ OnKept(s)' = k /\ Tried(s)' = h
    BY <1>3, <1>10, <2>1 DEF OnWire, OnKept, Tried, k, h
  <2>3. Of(s)' = Of(s) \cup {x}
    BY <1>8, <2>2 DEF Of, w, k, h
  <2>4. ASSUME NEW r \in Rels, May(r) PROVE Following(r, s)'
    BY <1>7, <1>10, <2>2, <2>4 DEF Following
  <2>5. PostsTyped'
    <3>1. wire' \in [Side -> Seq(Post)]
      BY <1>2, <1>10 DEF PostsTyped
    <3>2. Len(wire'[s]) <= Places
      BY <1>1, <1>2, <1>10, <2>1, TransactionsAssumption
    <3> QED BY <1>10, <2>1, <3>1, <3>2 DEF PostsTyped, Elsewhere
  <2>6. Free(s) => OneTried(s)'
    BY <1>10 DEF Free, OneTried
  <2> QED BY <2>1, <2>3, <2>4, <2>5, <2>6 DEF Growing, x
<1>11. CASE /\ kept[s] = <<>>
            /\ posting' = [posting EXCEPT ![s] = <<[post |-> post, tries |-> 1]>> \o @]
            /\ UNCHANGED <<wire, kept, timer>>
  <2> DEFINE try == [post |-> post, tries |-> 1]
             o == <<try>>
  <2>1. try \in Try /\ try.post = post
    BY TransactionsAssumption DEF Try
  <2>2. posting'[s] = o \o posting[s] /\ Elsewhere(s)
    BY <1>11 DEF PostsTyped, Elsewhere
  <2>3. o \in Seq(Try) /\ Len(o) = 1 /\ TriedOf(o) = <<x>>
    BY <2>1, NumbersJoin DEF x
  <2> HIDE DEF try, o
  <2>4. /\ o \o posting[s] \in Seq(Try) /\ Len(o \o posting[s]) = Len(o) + Len(posting[s])
    <3>1. o \in Seq(Try)
      BY <2>3
    <3>2. posting[s] \in Seq(Try)
      BY <1>1
    <3> QED BY <3>1, <3>2, Joined
  <2>5. OnWire(s)' = w /\ OnKept(s)' = k /\ Tried(s)' = <<x>> \o h
    BY <1>1, <1>11, <2>2, <2>3, NumbersJoin DEF OnWire, OnKept, Tried, w, k, h
  <2>6. Of(s)' = Of(s) \cup {x}
    BY <1>8, <2>5 DEF Of, w, k, h
  <2>7. ASSUME NEW r \in Rels, May(r) PROVE Following(r, s)'
    BY <1>7, <2>5, <2>7 DEF Following
  <2>8. PostsTyped'
    <3>1. posting' \in [Side -> Seq(Try)]
      BY <1>11, <2>2, <2>4 DEF PostsTyped, Elsewhere
    <3> QED BY <1>11, <3>1 DEF PostsTyped
  <2>9. Free(s) => OneTried(s)'
    <3> SUFFICES ASSUME Free(s) PROVE OneTried(s)'
      OBVIOUS
    <3>1. Len(posting[s]) = 0
      BY DEF Free
    <3>2. Len(posting'[s]) = 1
      BY <2>2, <2>3, <2>4, <3>1
    <3> QED BY <1>11, <3>2 DEF OneTried
  <2> QED BY <2>2, <2>6, <2>7, <2>8, <2>9 DEF Growing, x
<1> QED BY <1>9, <1>10, <1>11 DEF PostDde, BehindKept

\* A message taken leaves them.
Taking(s, x) ==
  /\ PostsTyped' /\ Elsewhere(s)
  /\ Of(s) = Of(s)' \cup {x}
  /\ \A r \in Rels : Following(r, s) => /\ Following(r, s)'
                                        /\ \A y \in Of(s)' : Rel(r, x, y)
  /\ OneTried(s) => OneTried(s)'

\* A message dispatched was before all others of its side.
LEMMA TakenIs ==
  ASSUME PostsTyped, NEW s \in Side, wire[s] # <<>>,
         wire' = [wire EXCEPT ![s] = Tail(@)], UNCHANGED <<posting, kept, timer>>
  PROVE  Taking(s, Head(wire[s]).n) /\ Head(wire[s]) \in Post
<1> DEFINE first == Head(wire[s])
           l == Tail(wire[s])
           o == <<first>>
           x == first.n
           t == NumbersOf(l)
           k == OnKept(s)
           h == Tried(s)
<1>1. wire[s] \in Seq(Post) /\ k \in Seq(Number) /\ h \in Seq(Number)
  BY ListsAre
<1>2. l \in Seq(Post) /\ first \in Post /\ wire[s] = o \o l /\ Len(l) <= Len(wire[s])
  <2>1. l \in Seq(Post) /\ first \in Post /\ wire[s] = o \o l
    BY <1>1, FirstAndRest
  <2>2. Len(l) <= Len(wire[s])
    BY <1>1
  <2> QED BY <2>1, <2>2
<1>3. wire'[s] = l /\ Elsewhere(s)
  BY DEF PostsTyped, Elsewhere
<1>4. PostsTyped'
  <2>1. wire' \in [Side -> Seq(Post)]
    BY <1>2, <1>3 DEF PostsTyped, Elsewhere
  <2>2. Len(l) <= Places
    <3>1. Len(wire[s]) \in Nat /\ Len(l) \in Nat /\ Len(wire[s]) <= Places
      BY <1>1, <1>2 DEF PostsTyped
    <3> QED BY <1>2, <3>1, TransactionsAssumption
  <2> QED BY <1>3, <2>1, <2>2 DEF PostsTyped, Elsewhere
<1>5. x \in Number /\ t \in Seq(Number)
  BY <1>2, NumbersAre DEF Post
<1>6. OnWire(s) = <<x>> \o t
  <2> HIDE DEF first, l
  <2>1. o \in Seq(Post) /\ NumbersOf(o) = <<x>>
    BY <1>2, NumbersJoin
  <2> HIDE DEF o
  <2> QED BY <1>2, <2>1, NumbersJoin DEF OnWire
<1>7. OnWire(s)' = t /\ OnKept(s)' = k /\ Tried(s)' = h
  BY <1>3 DEF OnWire, OnKept, Tried
<1> HIDE DEF first, l, o, x, t, k, h
<1>8. Of(s) = Of(s)' \cup {x}
  <2>1. ToSet(<<x>>) = {x} /\ <<x>> \in Seq(Number)
    BY <1>5, OneList
  <2>2. ToSet(<<x>> \o t) = ToSet(<<x>>) \cup ToSet(t)
    <3> DEFINE o1 == <<x>>
    <3>1. o1 \in Seq(Number)
      BY <2>1
    <3>2. t \in Seq(Number)
      BY <1>5
    <3> HIDE DEF o1
    <3>3. ToSet(o1 \o t) = ToSet(o1) \cup ToSet(t)
      BY <3>1, <3>2, JoinedSets
    <3> QED BY <3>3 DEF o1
  <2> QED BY <1>6, <1>7, <2>1, <2>2 DEF Of, All, k, h
<1>9. ASSUME NEW r \in Rels, Following(r, s)
      PROVE  Following(r, s)' /\ \A y \in Of(s)' : Rel(r, x, y)
  <2>1. Follow(r, <<x>> \o t, k, h)
    BY <1>6, <1>9 DEF Following, k, h
  <2>2. Follow(r, t, k, h) /\ \A y \in All(t, k, h) : Rel(r, x, y)
    BY <1>1, <1>5, <2>1, FirstTaken
  <2> QED BY <1>7, <2>2 DEF Following, Of
<1>10. OneTried(s) => OneTried(s)'
  BY DEF OneTried
<1> QED BY <1>2, <1>3, <1>4, <1>8, <1>9, <1>10 DEF Taking, x, first

-----------------------------------------------------------------------------
(* The transactions: the way.                                              *)

\* The other side's lists stay as they were.
LEMMA ElsewhereSame ==
  ASSUME NEW s \in Side, Elsewhere(s), NEW u \in Side, u # s
  PROVE  /\ Of(u)' = Of(u) /\ OneTried(u)' = OneTried(u)
         /\ \A r : Following(r, u)' = Following(r, u)
<1>1. /\ wire'[u] = wire[u] /\ kept'[u] = kept[u] /\ posting'[u] = posting[u]
  BY DEF Elsewhere
<1>2. /\ OnWire(u)' = OnWire(u) /\ OnKept(u)' = OnKept(u) /\ Tried(u)' = Tried(u)
  BY <1>1 DEF OnWire, OnKept, Tried
<1> QED BY <1>1, <1>2 DEF Of, OneTried, Following

\* What it takes to be in order, side by side.
LEMMA OrderedIs ==
  ASSUME NEW r
  PROVE  Ordered(r) <=>
           /\ Following(r, "client") /\ Following(r, "server") /\ Line(r, requests)
           /\ \A x \in Of("server"), y \in Requests : Rel(r, x, y)
           /\ \A x \in Requests, y \in Of("client") : Rel(r, x, y)
           /\ \A x \in Of("server"), y \in Of("client") : Rel(r, x, y)
BY DEF Ordered, Following, Side

\* What goes on within a side leaves the way as it is.
LEMMA WayMoves ==
  ASSUME NEW s \in Side, Moving(s), requests' = requests
  PROVE  /\ Way' = Way
         /\ \A r \in Rels : Ordered(r) /\ (r = "once" \/ OneTried(s)) => Ordered(r)'
         /\ OnePost => OnePost'
<1>1. Elsewhere(s)
  BY DEF Moving
<1>2. /\ Of(s)' = Of(s)
      /\ OneTried(s) => OneTried(s)'
      /\ \A r \in Rels : Following(r, s) /\ (r = "once" \/ OneTried(s)) => Following(r, s)'
  BY DEF Moving
<1>3. ASSUME NEW u \in Side, u # s
      PROVE  /\ Of(u)' = Of(u) /\ OneTried(u)' = OneTried(u)
             /\ \A r : Following(r, u)' = Following(r, u)
  BY <1>1, <1>3, ElsewhereSame
<1>4. "client" \in Side /\ "server" \in Side /\ Side = {"client", "server"}
  BY DEF Side
<1>5. \A u \in Side : Of(u)' = Of(u)
  BY <1>2, <1>3
<1>6. ASSUME NEW r \in Rels, Ordered(r), r = "once" \/ OneTried(s), NEW u \in Side
      PROVE  Following(r, u)'
  <2>1. Following(r, u)
    BY <1>6 DEF Ordered, Following
  <2>2. CASE u = s
    BY <1>2, <1>6, <2>1, <2>2
  <2>3. CASE u # s
    BY <1>3, <2>1, <2>3
  <2> QED BY <2>2, <2>3
<1>7. OnePost => OnePost'
  BY <1>2, <1>3 DEF OnePost
<1>8. Requests' = Requests /\ \A r : Line(r, requests)' <=> Line(r, requests)
  BY DEF Requests
<1>9. ASSUME NEW r \in Rels, Ordered(r), r = "once" \/ OneTried(s) PROVE Ordered(r)'
  <2>1. Line(r, requests')
    BY <1>8, <1>9 DEF Ordered
  <2>2. /\ \A x \in Of("server")', y \in Requests' : Rel(r, x, y)
        /\ \A x \in Requests', y \in Of("client")' : Rel(r, x, y)
        /\ \A x \in Of("server")', y \in Of("client")' : Rel(r, x, y)
    BY <1>4, <1>5, <1>8, <1>9 DEF Ordered
  <2>3. \A u \in Side : Follow(r, OnWire(u)', OnKept(u)', Tried(u)')
    BY <1>6, <1>9 DEF Following
  <2> QED BY <2>1, <2>2, <2>3 DEF Ordered
<1>10. Way' = Way
  BY <1>4, <1>5, <1>8 DEF Way
<1> QED BY <1>7, <1>9, <1>10

\* A transaction begun comes behind all.
LEMMA WayGrows ==
  ASSUME NEW n, Growing("client", n), requests' = requests
  PROVE  /\ Way' = Way \cup {n}
         /\ \A r \in Rels : Ordered(r) /\ (r = "once" \/ Free("client")) /\ (\A y \in Way : Rel(r, y, n))
              => Ordered(r)'
         /\ OnePost /\ Free("client") => OnePost'
<1>1. /\ Of("client")' = Of("client") \cup {n} /\ Elsewhere("client")
      /\ Free("client") => OneTried("client")'
      /\ \A r \in Rels : Following(r, "client") /\ (r = "once" \/ Free("client"))
                         /\ (\A y \in Of("client") : Rel(r, y, n)) => Following(r, "client")'
  BY DEF Growing
<1>2. "client" \in Side /\ "server" \in Side /\ Side = {"client", "server"}
  BY DEF Side
<1>3. /\ Of("server")' = Of("server") /\ OneTried("server")' = OneTried("server")
      /\ \A r : Following(r, "server")' = Following(r, "server")
  BY <1>1, <1>2, ElsewhereSame
<1>4. OnePost /\ Free("client") => OnePost'
  BY <1>1, <1>2, <1>3 DEF OnePost
<1>5. Requests' = Requests /\ \A r : Line(r, requests)' <=> Line(r, requests)
  BY DEF Requests
<1>6. Way' = Way \cup {n}
  BY <1>1, <1>3, <1>5 DEF Way
<1>7. ASSUME NEW r \in Rels, Ordered(r), r = "once" \/ Free("client"), \A y \in Way : Rel(r, y, n)
      PROVE  Ordered(r)'
  <2>1. /\ Following(r, "client") /\ Following(r, "server") /\ Line(r, requests)
        /\ \A x \in Of("server"), y \in Requests : Rel(r, x, y)
        /\ \A x \in Requests, y \in Of("client") : Rel(r, x, y)
        /\ \A x \in Of("server"), y \in Of("client") : Rel(r, x, y)
    BY <1>7, OrderedIs
  <2>2. \A y \in Of("client") \cup Of("server") \cup Requests : Rel(r, y, n)
    BY <1>7 DEF Way
  <2>3. Following(r, "client")' /\ Following(r, "server")'
    BY <1>1, <1>3, <1>7, <2>1, <2>2
  <2>4. /\ \A x \in Of("server")', y \in Requests' : Rel(r, x, y)
        /\ \A x \in Requests', y \in Of("client")' : Rel(r, x, y)
        /\ \A x \in Of("server")', y \in Of("client")' : Rel(r, x, y)
    BY <1>1, <1>3, <1>5, <2>1, <2>2
  <2> QED BY <1>2, <1>5, <2>1, <2>3, <2>4 DEF Ordered, Following
<1> QED BY <1>4, <1>6, <1>7

\* The first request answered: it comes behind the server's posts.
LEMMA WayReplies ==
  ASSUME NEW x \in Number, Growing("server", x), requests' \in Seq(Number),
         requests = <<x>> \o requests', Free("server")
  PROVE  /\ Way' = Way
         /\ \A r \in Rels : Ordered(r) => Ordered(r)'
         /\ OnePost => OnePost'
<1>1. /\ Of("server")' = Of("server") \cup {x} /\ Elsewhere("server") /\ OneTried("server")'
      /\ \A r \in Rels : Following(r, "server") /\ (\A y \in Of("server") : Rel(r, y, x))
                         => Following(r, "server")'
  BY DEF Growing
<1>2. "client" \in Side /\ "server" \in Side /\ Side = {"client", "server"} /\ "client" # "server"
  BY DEF Side
<1>3. /\ Of("client")' = Of("client") /\ OneTried("client")' = OneTried("client")
      /\ \A r : Following(r, "client")' = Following(r, "client")
  BY <1>1, <1>2, ElsewhereSame
<1>4. OnePost => OnePost'
  BY <1>1, <1>2, <1>3 DEF OnePost
<1> DEFINE o == <<x>>
           t == requests'
<1>5. o \in Seq(Number)
  BY OneList
<1>6. ToSet(o) = {x}
  BY OneList
<1> HIDE DEF o, t
<1>7. requests = o \o t
  BY DEF o, t
<1>8. t \in Seq(Number)
  BY DEF t
<1>9. ToSet(o \o t) = ToSet(o) \cup ToSet(t)
  BY <1>5, <1>8, JoinedSets
<1>10. Requests = Requests' \cup {x}
  BY <1>6, <1>7, <1>9 DEF Requests, t
<1>11. Way' = Way
  BY <1>1, <1>3, <1>10 DEF Way
<1>12. ASSUME NEW r \in Rels, Ordered(r) PROVE Ordered(r)'
  <2>1. /\ Following(r, "client") /\ Following(r, "server") /\ Line(r, requests)
        /\ \A u \in Of("server"), y \in Requests : Rel(r, u, y)
        /\ \A u \in Requests, y \in Of("client") : Rel(r, u, y)
        /\ \A u \in Of("server"), y \in Of("client") : Rel(r, u, y)
    BY <1>12, OrderedIs
  <2>2. Line(r, o \o t) <=> Line(r, o) /\ Line(r, t) /\ Before(r, o, t)
    BY <1>5, <1>8, JoinedLists
  <2>3. Line(r, t) /\ Before(r, o, t)
    BY <1>7, <2>1, <2>2
  <2>4. \A y \in Requests' : Rel(r, x, y)
    BY <1>6, <2>3, BeforeIs DEF Requests, t
  <2>5. \A y \in Of("server") : Rel(r, y, x)
    BY <1>10, <2>1
  <2>6. Following(r, "server")' /\ Following(r, "client")'
    BY <1>1, <1>3, <2>1, <2>5
  <2>7. /\ \A u \in Of("server")', y \in Requests' : Rel(r, u, y)
        /\ \A u \in Requests', y \in Of("client")' : Rel(r, u, y)
        /\ \A u \in Of("server")', y \in Of("client")' : Rel(r, u, y)
    BY <1>1, <1>3, <1>10, <2>1, <2>4
  <2> QED BY <1>2, <2>3, <2>6, <2>7 DEF Ordered, Following, t
<1> QED BY <1>4, <1>11, <1>12

\* A message the server dispatches: its request comes behind those there are.
LEMMA WayRequests ==
  ASSUME NEW x \in Number, Taking("client", x), requests \in Seq(Number),
         requests' = requests \o <<x>>
  PROVE  /\ Way' = Way
         /\ \A r \in Rels : Ordered(r) => Ordered(r)'
         /\ OnePost => OnePost'
<1>1. /\ Of("client") = Of("client")' \cup {x} /\ Elsewhere("client")
      /\ OneTried("client") => OneTried("client")'
      /\ \A r \in Rels : Following(r, "client") => /\ Following(r, "client")'
                                                   /\ \A y \in Of("client")' : Rel(r, x, y)
  BY DEF Taking
<1>2. "client" \in Side /\ "server" \in Side /\ Side = {"client", "server"} /\ "client" # "server"
  BY DEF Side
<1>3. /\ Of("server")' = Of("server") /\ OneTried("server")' = OneTried("server")
      /\ \A r : Following(r, "server")' = Following(r, "server")
  BY <1>1, <1>2, ElsewhereSame
<1>4. OnePost => OnePost'
  BY <1>1, <1>2, <1>3 DEF OnePost
<1> DEFINE o == <<x>>
<1>5. o \in Seq(Number)
  BY OneList
<1>6. ToSet(o) = {x}
  BY OneList
<1>7. \A r : Line(r, o)
  BY OneList
<1> HIDE DEF o
<1>8. requests' = requests \o o
  BY DEF o
<1>9. ToSet(requests \o o) = ToSet(requests) \cup ToSet(o)
  BY <1>5, JoinedSets
<1>10. Requests' = Requests \cup {x}
  BY <1>6, <1>8, <1>9 DEF Requests
<1>11. Way' = Way
  BY <1>1, <1>3, <1>10 DEF Way
<1>12. ASSUME NEW r \in Rels, Ordered(r) PROVE Ordered(r)'
  <2>1. /\ Following(r, "client") /\ Following(r, "server") /\ Line(r, requests)
        /\ \A u \in Of("server"), y \in Requests : Rel(r, u, y)
        /\ \A u \in Requests, y \in Of("client") : Rel(r, u, y)
        /\ \A u \in Of("server"), y \in Of("client") : Rel(r, u, y)
    BY <1>12, OrderedIs
  <2>2. Line(r, requests \o o) <=> Line(r, requests) /\ Line(r, o) /\ Before(r, requests, o)
    BY <1>5, JoinedLists
  <2>3. Before(r, requests, o)
    BY <1>1, <1>6, <2>1, BeforeIs DEF Requests
  <2>4. Line(r, requests')
    BY <1>7, <1>8, <2>1, <2>2, <2>3
  <2>5. Following(r, "server")' /\ Following(r, "client")' /\ \A y \in Of("client")' : Rel(r, x, y)
    BY <1>1, <1>3, <2>1
  <2>6. /\ \A u \in Of("server")', y \in Requests' : Rel(r, u, y)
        /\ \A u \in Requests', y \in Of("client")' : Rel(r, u, y)
        /\ \A u \in Of("server")', y \in Of("client")' : Rel(r, u, y)
    BY <1>1, <1>3, <1>10, <2>1, <2>5
  <2> QED BY <1>2, <2>4, <2>5, <2>6 DEF Ordered, Following
<1> QED BY <1>4, <1>11, <1>12

\* An answer the client dispatches: it was before all others, and is there no more.
LEMMA WayAnswers ==
  ASSUME NEW x, Taking("server", x), requests' = requests
  PROVE  /\ Way = Way' \cup {x}
         /\ \A r \in Rels : Ordered(r) => Ordered(r)' /\ \A y \in Way' : Rel(r, x, y)
         /\ OnePost => OnePost'
<1>1. /\ Of("server") = Of("server")' \cup {x} /\ Elsewhere("server")
      /\ OneTried("server") => OneTried("server")'
      /\ \A r \in Rels : Following(r, "server") => /\ Following(r, "server")'
                                                   /\ \A y \in Of("server")' : Rel(r, x, y)
  BY DEF Taking
<1>2. "client" \in Side /\ "server" \in Side /\ Side = {"client", "server"} /\ "client" # "server"
  BY DEF Side
<1>3. /\ Of("client")' = Of("client") /\ OneTried("client")' = OneTried("client")
      /\ \A r : Following(r, "client")' = Following(r, "client")
  BY <1>1, <1>2, ElsewhereSame
<1>4. OnePost => OnePost'
  BY <1>1, <1>2, <1>3 DEF OnePost
<1>5. Requests' = Requests
  BY DEF Requests
<1>6. Way = Way' \cup {x}
  BY <1>1, <1>3, <1>5 DEF Way
<1>7. ASSUME NEW r \in Rels, Ordered(r) PROVE Ordered(r)' /\ \A y \in Way' : Rel(r, x, y)
  <2>1. /\ Following(r, "client") /\ Following(r, "server") /\ Line(r, requests)
        /\ \A u \in Of("server"), y \in Requests : Rel(r, u, y)
        /\ \A u \in Requests, y \in Of("client") : Rel(r, u, y)
        /\ \A u \in Of("server"), y \in Of("client") : Rel(r, u, y)
    BY <1>7, OrderedIs
  <2>2. Following(r, "server")' /\ Following(r, "client")' /\ \A y \in Of("server")' : Rel(r, x, y)
    BY <1>1, <1>3, <2>1
  <2>3. /\ \A u \in Of("server")', y \in Requests' : Rel(r, u, y)
        /\ \A u \in Requests', y \in Of("client")' : Rel(r, u, y)
        /\ \A u \in Of("server")', y \in Of("client")' : Rel(r, u, y)
    BY <1>1, <1>3, <1>5, <2>1
  <2>4. Ordered(r)'
    BY <1>2, <2>1, <2>2, <2>3 DEF Ordered, Following
  <2>5. \A y \in Way' : Rel(r, x, y)
    BY <1>1, <1>3, <1>5, <2>1, <2>2 DEF Way
  <2> QED BY <2>4, <2>5
<1> QED BY <1>4, <1>6, <1>7

\* Where no list changes the way is as it was.
LEMMA WayStays ==
  ASSUME UNCHANGED <<wire, posting, kept, requests>>
  PROVE  /\ Way' = Way
         /\ OnePost => OnePost'
         /\ \A r : Ordered(r) => Ordered(r)'
<1>1. \A s : /\ OnWire(s)' = OnWire(s) /\ OnKept(s)' = OnKept(s) /\ Tried(s)' = Tried(s)
             /\ OneTried(s)' = OneTried(s)
  BY DEF OnWire, OnKept, Tried, OneTried
<1>2. \A s : Of(s)' = Of(s) /\ Requests' = Requests
  BY <1>1 DEF Of, Requests
<1> QED BY <1>1, <1>2 DEF Way, OnePost, Ordered

\* What is on its way, all of it in one list.
LEMMA OnTheWayIs ==
  ASSUME PostsTyped, requests \in Seq(Number)
  PROVE  /\ ToSet(OnTheWay) = Way
         /\ OnTheWay \in Seq(Number)
         /\ \A r : Ordered(r) => Line(r, OnTheWay)
<1> DEFINE a == OnWire("server")
           b == OnKept("server")
           c == Tried("server")
           d == OnWire("client")
           e == OnKept("client")
           f == Tried("client")
           ab == a \o b
           abc == ab \o c
           abcr == abc \o requests
           abcrd == abcr \o d
           abcrde == abcrd \o e
<1>1. "client" \in Side /\ "server" \in Side
  BY DEF Side
<1>2. a \in Seq(Number) /\ b \in Seq(Number) /\ c \in Seq(Number)
  BY <1>1, ListsAre
<1>3. d \in Seq(Number) /\ e \in Seq(Number) /\ f \in Seq(Number)
  BY <1>1, ListsAre
<1>4. OnTheWay = abcrde \o f
  BY DEF OnTheWay, OnWire, OnKept, Tried, NumbersOf, TriedOf
<1>5. /\ Of("server") = ToSet(a) \cup ToSet(b) \cup ToSet(c)
      /\ Of("client") = ToSet(d) \cup ToSet(e) \cup ToSet(f)
  BY DEF Of, All
<1>6. ASSUME NEW r, Ordered(r)
      PROVE  Follow(r, a, b, c) /\ Follow(r, d, e, f) /\ Line(r, requests)
             /\ Before(r, a, requests) /\ Before(r, b, requests) /\ Before(r, c, requests)
             /\ Before(r, requests, d) /\ Before(r, requests, e) /\ Before(r, requests, f)
             /\ Before(r, a, d) /\ Before(r, a, e) /\ Before(r, a, f)
             /\ Before(r, b, d) /\ Before(r, b, e) /\ Before(r, b, f)
             /\ Before(r, c, d) /\ Before(r, c, e) /\ Before(r, c, f)
  <2>1. /\ Follow(r, a, b, c) /\ Follow(r, d, e, f) /\ Line(r, requests)
        /\ \A x \in Of("server"), y \in ToSet(requests) : Rel(r, x, y)
        /\ \A x \in ToSet(requests), y \in Of("client") : Rel(r, x, y)
        /\ \A x \in Of("server"), y \in Of("client") : Rel(r, x, y)
    BY <1>1, <1>6 DEF Ordered, Requests
  <2> HIDE DEF a, b, c, d, e, f
  <2> QED BY <1>5, <2>1, BeforeIs
<1> HIDE DEF a, b, c, d, e, f
<1>7. /\ ab \in Seq(Number) /\ ToSet(ab) = ToSet(a) \cup ToSet(b)
      /\ \A r : Line(r, ab) <=> Line(r, a) /\ Line(r, b) /\ Before(r, a, b)
      /\ \A r, l : Before(r, ab, l) <=> Before(r, a, l) /\ Before(r, b, l)
  BY <1>2, JoinedLists
<1> HIDE DEF ab
<1>8. /\ abc \in Seq(Number) /\ ToSet(abc) = ToSet(ab) \cup ToSet(c)
      /\ \A r : Line(r, abc) <=> Line(r, ab) /\ Line(r, c) /\ Before(r, ab, c)
      /\ \A r, k : Before(r, abc, k) <=> Before(r, ab, k) /\ Before(r, c, k)
  <2>1. ab \in Seq(Number)
    BY <1>7
  <2>2. c \in Seq(Number)
    BY <1>2
  <2> QED BY <2>1, <2>2, JoinedLists
<1> HIDE DEF abc
<1>9. /\ abcr \in Seq(Number) /\ ToSet(abcr) = ToSet(abc) \cup ToSet(requests)
      /\ \A r : Line(r, abcr) <=> Line(r, abc) /\ Line(r, requests) /\ Before(r, abc, requests)
      /\ \A r, k : Before(r, abcr, k) <=> Before(r, abc, k) /\ Before(r, requests, k)
  <2>1. abc \in Seq(Number)
    BY <1>8
  <2> QED BY <2>1, JoinedLists
<1> HIDE DEF abcr
<1>10. /\ abcrd \in Seq(Number) /\ ToSet(abcrd) = ToSet(abcr) \cup ToSet(d)
       /\ \A r : Line(r, abcrd) <=> Line(r, abcr) /\ Line(r, d) /\ Before(r, abcr, d)
       /\ \A r, k : Before(r, abcrd, k) <=> Before(r, abcr, k) /\ Before(r, d, k)
  <2>1. abcr \in Seq(Number)
    BY <1>9
  <2>2. d \in Seq(Number)
    BY <1>3
  <2> QED BY <2>1, <2>2, JoinedLists
<1> HIDE DEF abcrd
<1>11. /\ abcrde \in Seq(Number) /\ ToSet(abcrde) = ToSet(abcrd) \cup ToSet(e)
       /\ \A r : Line(r, abcrde) <=> Line(r, abcrd) /\ Line(r, e) /\ Before(r, abcrd, e)
       /\ \A r, k : Before(r, abcrde, k) <=> Before(r, abcrd, k) /\ Before(r, e, k)
  <2>1. abcrd \in Seq(Number)
    BY <1>10
  <2>2. e \in Seq(Number)
    BY <1>3
  <2> QED BY <2>1, <2>2, JoinedLists
<1> HIDE DEF abcrde
<1>12. /\ abcrde \o f \in Seq(Number) /\ ToSet(abcrde \o f) = ToSet(abcrde) \cup ToSet(f)
       /\ \A r : Line(r, abcrde \o f) <=> Line(r, abcrde) /\ Line(r, f) /\ Before(r, abcrde, f)
  <2>1. abcrde \in Seq(Number)
    BY <1>11
  <2>2. f \in Seq(Number)
    BY <1>3
  <2> QED BY <2>1, <2>2, JoinedLists
<1>13. ToSet(OnTheWay) = Way
  BY <1>4, <1>5, <1>7, <1>8, <1>9, <1>10, <1>11, <1>12 DEF Way, Requests
<1>14. ASSUME NEW r, Ordered(r) PROVE Line(r, OnTheWay)
  <2>1. Line(r, abc)
    BY <1>6, <1>14, <1>7, <1>8 DEF Follow
  <2>2. Line(r, abcr)
    BY <2>1, <1>6, <1>14, <1>7, <1>8, <1>9
  <2>3. Line(r, abcrd)
    BY <2>2, <1>6, <1>14, <1>7, <1>8, <1>9, <1>10 DEF Follow
  <2>4. Line(r, abcrde)
    BY <2>3, <1>6, <1>14, <1>7, <1>8, <1>9, <1>10, <1>11 DEF Follow
  <2> QED BY <2>4, <1>4, <1>6, <1>14, <1>7, <1>8, <1>9, <1>10, <1>11, <1>12 DEF Follow
<1> QED BY <1>4, <1>12, <1>13, <1>14

-----------------------------------------------------------------------------
(* The transactions: steps.                                                *)

\* What only moves what is on its way, in order, keeps all.
LEMMA SameWay ==
  ASSUME TransInv, UNCHANGED <<begun, client, loose>>, PostsTyped', requests' \in Seq(Number),
         Way' = Way, WayOrdered'
  PROVE  TransInv'
<1>1. Awaiting' = Awaiting /\ Async' = Async /\ Sent' = Sent
  BY DEF Awaiting, Async, Sent, client
<1>2. TransTyped'
  BY DEF TransInv, TransTyped, client
<1>3. AllSent'
  BY <1>1 DEF TransInv, AllSent, client
<1>4. Records' /\ CalledBackOnce'
  BY <1>1 DEF TransInv, Records, CalledBackOnce, client
<1>5. Matched' /\ NoneGone'
  BY <1>1 DEF TransInv, Matched, NoneGone, SyncAlone, LateApart, client
<1>6. OwnAnswers'
  BY <1>1 DEF TransInv, OwnAnswers, client
<1> QED BY <1>2, <1>3, <1>4, <1>5, <1>6 DEF TransInv

\* A side's posts tried again.
LEMMA MovesKept ==
  ASSUME TransInv, NEW s \in Side, Moving(s), requests' = requests, UNCHANGED <<begun, client, loose>>
  PROVE  TransInv'
<1>1. /\ Way' = Way
      /\ \A r \in Rels : Ordered(r) /\ (r = "once" \/ OneTried(s)) => Ordered(r)'
      /\ OnePost => OnePost'
  BY WayMoves
<1>2. WayOrdered
  BY DEF TransInv
<1>3. "once" \in Rels /\ "order" \in Rels
  BY DEF Rels
<1>4. Ordered("once")'
  BY <1>1, <1>2, <1>3 DEF WayOrdered
<1>5. ASSUME "within" \notin loose PROVE OnePost' /\ Ordered("order")'
  <2>1. OnePost /\ Ordered("order")
    BY <1>2, <1>5 DEF WayOrdered
  <2>2. OneTried(s)
    BY <2>1 DEF OnePost
  <2> QED BY <1>1, <1>3, <2>1, <2>2
<1>6. WayOrdered'
  BY <1>4, <1>5 DEF WayOrdered
<1>7. PostsTyped' /\ requests' \in Seq(Number)
  BY DEF Moving, TransInv, TransTyped
<1> QED BY <1>1, <1>6, <1>7, SameWay

\* A post tried again stays where it was among them.
LEMMA TryKeeps == ASSUME TransInv, NEW s \in Side, TryAgain(s) PROVE TransInv'
<1>1. PostsTyped
  BY DEF TransInv, TransTyped
<1>2. Moving(s)
  BY <1>1, TryMoves
<1>3. requests' = requests /\ UNCHANGED <<begun, client, loose>>
  BY DEF TryAgain
<1> QED BY <1>2, <1>3, MovesKept

\* So do the posts kept, posted again.
LEMMA TimerKeeps == ASSUME TransInv, NEW s \in Side, TimerDue(s) \/ Enable(s) PROVE TransInv'
<1>1. PostsTyped
  BY DEF TransInv, TransTyped
<1>2. timer[s] \in BOOLEAN
  BY <1>1 DEF PostsTyped
<1>3. /\ requests' = requests /\ posting' = posting /\ Free(s)
      /\ UNCHANGED <<begun, client, loose>>
  BY DEF TimerDue, Enable
<1>4. \E set \in BOOLEAN : Repost(s, kept[s], set)
  BY <1>2 DEF TimerDue, Enable
<1>5. Moving(s)
  BY <1>1, <1>3, <1>4, RepostMoves
<1> QED BY <1>3, <1>5, MovesKept

\* The server dispatches a message.
LEMMA RequestKeeps == ASSUME TransInv, TakeRequest PROVE TransInv'
<1> DEFINE x == Head(wire["client"]).n
<1>1. PostsTyped /\ requests \in Seq(Number) /\ "client" \in Side
  BY DEF TransInv, TransTyped, Side
<1>2. /\ wire["client"] # <<>> /\ wire' = [wire EXCEPT !["client"] = Tail(@)]
      /\ UNCHANGED <<posting, kept, timer>> /\ requests' = Append(requests, x)
      /\ UNCHANGED <<begun, client, loose>>
  BY DEF TakeRequest
<1>3. Taking("client", x) /\ Head(wire["client"]) \in Post
  BY <1>1, <1>2, TakenIs
<1>4. x \in Number
  BY <1>3 DEF Post
<1> HIDE DEF x
<1>5. requests' = requests \o <<x>>
  BY <1>1, <1>2, <1>4, BehindIs
<1>6. /\ Way' = Way
      /\ \A r \in Rels : Ordered(r) => Ordered(r)'
      /\ OnePost => OnePost'
  BY <1>1, <1>3, <1>4, <1>5, WayRequests
<1>7. WayOrdered'
  BY <1>2, <1>6 DEF WayOrdered, TransInv, Rels
<1>8. PostsTyped' /\ requests' \in Seq(Number)
  BY <1>1, <1>2, <1>3, <1>4, AppendParts DEF Taking
<1> QED BY <1>2, <1>6, <1>7, <1>8, SameWay

\* The server answers.
LEMMA ReplyKeeps == ASSUME TransInv, NEW yes \in BOOLEAN, Reply(yes) PROVE TransInv'
<1> DEFINE x == Head(requests)
           post == [n |-> x, yes |-> yes]
<1>1. PostsTyped /\ requests \in Seq(Number) /\ "server" \in Side
  BY DEF TransInv, TransTyped, Side
<1>2. /\ requests # <<>> /\ requests' = Tail(requests) /\ PostDde("server", post)
      /\ Free("server") /\ UNCHANGED <<begun, client, loose>>
  BY DEF Reply
<1>3. Tail(requests) \in Seq(Number) /\ x \in Number /\ requests = <<x>> \o Tail(requests)
  BY <1>1, <1>2, FirstAndRest
<1>4. post \in Post /\ post.n = x
  BY <1>3 DEF Post
<1> HIDE DEF x, post
<1>5. Growing("server", x)
  BY <1>1, <1>2, <1>4, PostGrows
<1>6. requests' \in Seq(Number) /\ requests = <<x>> \o requests'
  BY <1>2, <1>3
<1>7. /\ Way' = Way
      /\ \A r \in Rels : Ordered(r) => Ordered(r)'
      /\ OnePost => OnePost'
  BY <1>2, <1>3, <1>5, <1>6, WayReplies
<1>8. WayOrdered'
  BY <1>2, <1>7 DEF WayOrdered, TransInv, Rels
<1>9. PostsTyped'
  BY <1>5 DEF Growing
<1> QED BY <1>2, <1>6, <1>7, <1>8, <1>9, SameWay

\* A number listed behind all there are.
LEMMA ListedBehind ==
  ASSUME NEW r, NEW l \in Seq(Number), NEW n \in Number, Line(r, l),
         \A y \in ToSet(l) : Rel(r, y, n)
  PROVE  /\ Append(l, n) \in Seq(Number) /\ Line(r, Append(l, n))
         /\ ToSet(Append(l, n)) = ToSet(l) \cup {n}
<1> DEFINE o == <<n>>
<1>1. o \in Seq(Number)
  BY OneList
<1>2. ToSet(o) = {n} /\ Line(r, o)
  BY OneList
<1>3. Append(l, n) = l \o o
  BY BehindIs
<1> HIDE DEF o
<1>4. /\ l \o o \in Seq(Number)
      /\ ToSet(l \o o) = ToSet(l) \cup ToSet(o)
      /\ Line(r, l \o o) <=> Line(r, l) /\ Line(r, o) /\ Before(r, l, o)
  BY <1>1, JoinedLists
<1>5. Before(r, l, o)
  BY <1>2, BeforeIs
<1> QED BY <1>2, <1>3, <1>4, <1>5

\* A transaction's record goes, and the others stay, in order.
LEMMA DropIs ==
  ASSUME pool \in Seq(Number), Line("order", pool), NEW n
  PROVE  /\ DropRecord(n) \in Seq(Number) /\ Line("order", DropRecord(n))
         /\ ToSet(DropRecord(n)) = Async \ {n}
<1>1. CASE n \notin Async
  BY <1>1 DEF DropRecord, Async
<1>2. CASE n \in Async
  <2> DEFINE i == CHOOSE j \in DOMAIN pool : pool[j] = n
             r == RemoveAt(pool, i)
             from(j) == IF j < i THEN j ELSE j + 1
  <2>1. i \in DOMAIN pool /\ pool[i] = n
    BY <1>2 DEF Async, ToSet
  <2>2. DropRecord(n) = r
    BY <1>2 DEF DropRecord
  <2> HIDE DEF i
  <2>3. i \in 1 .. Len(pool) /\ Len(pool) \in Nat /\ DOMAIN pool = 1 .. Len(pool)
    BY <2>1
  <2>4. /\ r \in Seq(Number) /\ Len(r) = Len(pool) - 1
        /\ \A j \in 1 .. i - 1 : r[j] = pool[j]
        /\ \A j \in i .. Len(pool) - 1 : r[j] = pool[j + 1]
    <3>1. i \in 1 .. Len(pool)
      BY <2>3
    <3> QED BY <3>1, RemoveAtParts
  <2> HIDE DEF r
  <2>5. DOMAIN r = 1 .. Len(pool) - 1
    BY <2>3, <2>4
  <2>6. \A j \in DOMAIN r : /\ from(j) \in DOMAIN pool /\ from(j) # i
                            /\ r[j] = pool[from(j)]
    BY <2>3, <2>4, <2>5
  <2>7. \A j, k \in DOMAIN r : j < k => from(j) < from(k)
    BY <2>3, <2>5
  <2>8. \A m \in DOMAIN pool : m # i => \E j \in DOMAIN r : from(j) = m
    <3> SUFFICES ASSUME NEW m \in DOMAIN pool, m # i PROVE \E j \in DOMAIN r : from(j) = m
      OBVIOUS
    <3>1. CASE m < i
      <4>1. m \in DOMAIN r /\ from(m) = m
        BY <2>3, <2>5, <3>1
      <4> QED BY <4>1
    <3>2. CASE ~ (m < i)
      <4>1. m - 1 \in DOMAIN r /\ from(m - 1) = m
        BY <2>3, <2>5, <3>2
      <4> QED BY <4>1
    <3> QED BY <3>1, <3>2
  <2> HIDE DEF from
  <2>9. Line("order", r)
    BY <2>6, <2>7 DEF Line
  <2>10. \A j, k \in DOMAIN pool : j # k => pool[j] # pool[k]
    <3> SUFFICES ASSUME NEW j \in DOMAIN pool, NEW k \in DOMAIN pool, j # k
                 PROVE  pool[j] # pool[k]
      OBVIOUS
    <3>1. pool[j] \in Nat /\ pool[k] \in Nat /\ j \in Nat /\ k \in Nat
      BY <2>3, TransactionsAssumption DEF Number
    <3>2. CASE j < k
      BY <3>1, <3>2 DEF Line, Rel
    <3>3. CASE k < j
      BY <3>1, <3>3 DEF Line, Rel
    <3> QED BY <3>1, <3>2, <3>3
  <2>11. ToSet(r) = Async \ {n}
    <3>1. ASSUME NEW x \in ToSet(r) PROVE x \in Async \ {n}
      <4>1. PICK j \in DOMAIN r : x = r[j]
        BY <3>1 DEF ToSet
      <4> QED BY <2>1, <2>6, <2>10, <4>1 DEF Async, ToSet
    <3>2. ASSUME NEW x \in Async, x # n PROVE x \in ToSet(r)
      <4>1. PICK m \in DOMAIN pool : x = pool[m]
        BY <3>2 DEF Async, ToSet
      <4>2. m # i
        BY <2>1, <3>2, <4>1
      <4>3. PICK j \in DOMAIN r : from(j) = m
        BY <2>8, <4>2
      <4> QED BY <2>6, <4>1, <4>3 DEF ToSet
    <3> QED BY <3>1, <3>2
  <2> QED BY <2>2, <2>4, <2>9, <2>11
<1> QED BY <1>1, <1>2

\* A time-out, or the answer come: nobody waits any more.
LEMMA WaitEndsKeeps == ASSUME TransInv, WaitEnds PROVE TransInv'
<1>1. /\ sync # 0 /\ sync' = 0
      /\ UNCHANGED <<begun, pool, answered, completions, answerOf, requests, wire, posting,
                     kept, timer, loose>>
  BY DEF WaitEnds, posts
<1>2. Async' = Async /\ Sent' = Sent
  BY <1>1 DEF Async, Sent
<1>3. Way' = Way /\ WayOrdered'
  BY <1>1, WayStays DEF WayOrdered, TransInv
<1>4. 0 \notin Async
  BY TransactionsAssumption DEF TransInv, AllSent, Sent
<1>5. Awaiting' = Awaiting \ {sync}
  BY <1>1, <1>2, <1>4 DEF Awaiting, TransInv, Records
<1>6. TransTyped'
  BY <1>1 DEF TransInv, TransTyped, PostsTyped
<1>7. AllSent'
  BY <1>1, <1>2, <1>3 DEF TransInv, AllSent
<1>8. Records' /\ CalledBackOnce'
  BY <1>1, <1>2, <1>4 DEF TransInv, Records, CalledBackOnce
<1>9. OwnAnswers' /\ NoneGone'
  BY <1>1, <1>2, <1>3, <1>5 DEF TransInv, OwnAnswers, NoneGone
<1>10. Matched'
  <2> SUFFICES ASSUME loose = {} PROVE SyncAlone' /\ LateApart'
    BY <1>1 DEF Matched
  <2>1. SyncAlone /\ LateApart
    BY DEF TransInv, Matched
  <2>2. SyncAlone'
    BY <1>1, <1>2, <1>4 DEF SyncAlone, Awaiting
  <2>3. ASSUME NEW m \in Way \ Awaiting', NEW n \in Awaiting' PROVE begun[m].item # begun[n].item
    <3>1. CASE m \notin Awaiting
      BY <1>5, <2>1, <2>3, <3>1 DEF LateApart
    <3>2. CASE m \in Awaiting
      <4>1. m = sync /\ n # sync /\ n \in Awaiting
        BY <1>5, <2>3, <3>2
      <4> QED BY <2>1, <3>2, <4>1 DEF SyncAlone
    <3> QED BY <3>1, <3>2
  <2> QED BY <1>1, <1>3, <2>2, <2>3 DEF LateApart
<1> QED BY <1>3, <1>6, <1>7, <1>8, <1>9, <1>10 DEF TransInv

\* A completion called back: its transaction had its answer, and goes.
LEMMA CompleteKeeps == ASSUME TransInv, Complete PROVE TransInv'
<1> DEFINE n == Head(completions)
           t == Tail(completions)
<1>1. /\ completions # <<>> /\ completions' = t /\ pool' = DropRecord(n)
      /\ UNCHANGED <<begun, sync, answered, answerOf, requests, wire, posting, kept, timer, loose>>
  BY DEF Complete, posts
<1>2. /\ completions \in Seq(Number) /\ pool \in Seq(Number) /\ Line("order", pool)
      /\ Line("once", completions) /\ ToSet(completions) \subseteq answered
  BY DEF TransInv, TransTyped, Records
<1>3. t \in Seq(Number) /\ n \in Number /\ completions = <<n>> \o t
  BY <1>1, <1>2, FirstAndRest
<1> HIDE DEF n, t
<1>4. /\ ToSet(completions) = {n} \cup ToSet(t)
      /\ Line("once", t) /\ n \notin ToSet(t)
  <2> DEFINE o == <<n>>
  <2>1. o \in Seq(Number)
    BY <1>3, OneList
  <2>2. ToSet(o) = {n}
    BY <1>3, OneList
  <2> HIDE DEF o
  <2>3. completions = o \o t
    BY <1>3 DEF o
  <2>4. /\ ToSet(o \o t) = ToSet(o) \cup ToSet(t)
        /\ Line("once", o \o t) <=> Line("once", o) /\ Line("once", t) /\ Before("once", o, t)
    <3>1. t \in Seq(Number)
      BY <1>3
    <3> QED BY <2>1, <3>1, JoinedLists
  <2>5. Before("once", o, t)
    BY <1>2, <2>3, <2>4
  <2>6. n \notin ToSet(t)
    BY <2>2, <2>5, BeforeIs DEF Rel
  <2> QED BY <1>2, <2>2, <2>3, <2>4, <2>6
<1>5. pool' \in Seq(Number) /\ Line("order", pool') /\ Async' = Async \ {n}
  BY <1>1, <1>2, DropIs DEF Async
<1>6. n \in answered
  BY <1>2, <1>4
<1>7. Awaiting' = Awaiting /\ Sent' = Sent
  BY <1>1, <1>5, <1>6 DEF Awaiting, Sent
<1>8. Way' = Way /\ WayOrdered'
  BY <1>1, WayStays DEF WayOrdered, TransInv
<1>9. TransTyped'
  BY <1>1, <1>3, <1>5 DEF TransInv, TransTyped, PostsTyped
<1>10. AllSent'
  BY <1>1, <1>5, <1>7, <1>8 DEF TransInv, AllSent
<1>11. Records'
  BY <1>1, <1>2, <1>4, <1>5 DEF TransInv, Records
<1>12. CalledBackOnce'
  <2>1. \A m \in Async : m \in answered <=> m \in ToSet(completions)
    BY DEF TransInv, CalledBackOnce, ToSet
  <2>2. \A m \in Async' : m \in answered' <=> m \in ToSet(completions')
    BY <1>1, <1>4, <1>5, <2>1
  <2> QED BY <2>2 DEF CalledBackOnce, ToSet
<1>13. OwnAnswers' /\ NoneGone' /\ Matched'
  BY <1>1, <1>7, <1>8 DEF TransInv, OwnAnswers, NoneGone, Matched, SyncAlone, LateApart
<1> QED BY <1>8, <1>9, <1>10, <1>11, <1>12, <1>13 DEF TransInv

\* Transactions given up.
LEMMA AbandonKeeps ==
  ASSUME TransInv, NEW gone, NEW left, Abandon(gone, left), gone \subseteq Async,
         left \in Seq(Number), Line("order", left), ToSet(left) = Async \ gone
  PROVE  TransInv'
<1>1. /\ pool' = left /\ loose \subseteq loose' /\ loose' \subseteq loose \cup {"again"}
      /\ loose' = {} => \A m \in gone \cap Awaiting, n \in Awaiting \ gone :
                          begun[m].item # begun[n].item
      /\ UNCHANGED <<begun, sync, answered, completions, answerOf, requests, wire, posting,
                     kept, timer>>
  BY DEF Abandon, posts
<1>2. Async' = Async \ gone /\ Sent' = Sent
  BY <1>1 DEF Async, Sent
<1>3. Awaiting' = Awaiting \ gone
  BY <1>1, <1>2 DEF Awaiting, TransInv, Records
<1>4. Way' = Way /\ WayOrdered'
  <2>1. /\ Way' = Way
        /\ OnePost => OnePost'
        /\ \A r : Ordered(r) => Ordered(r)'
    BY <1>1, WayStays
  <2> QED BY <1>1, <2>1 DEF WayOrdered, TransInv
<1>5. TransTyped'
  BY <1>1 DEF TransInv, TransTyped, PostsTyped
<1>6. AllSent'
  BY <1>1, <1>2, <1>4 DEF TransInv, AllSent
<1>7. Records' /\ CalledBackOnce'
  BY <1>1, <1>2 DEF TransInv, Records, CalledBackOnce
<1>8. OwnAnswers' /\ NoneGone'
  BY <1>1, <1>2, <1>3, <1>4 DEF TransInv, OwnAnswers, NoneGone
<1>9. Matched'
  <2> SUFFICES ASSUME loose' = {} PROVE SyncAlone' /\ LateApart'
    BY DEF Matched
  <2>1. SyncAlone /\ LateApart
    BY <1>1 DEF TransInv, Matched
  <2>2. SyncAlone'
    BY <1>1, <1>3, <2>1 DEF SyncAlone
  <2>3. ASSUME NEW m \in Way \ Awaiting', NEW n \in Awaiting' PROVE begun[m].item # begun[n].item
    <3>1. CASE m \notin Awaiting
      BY <1>3, <2>1, <2>3, <3>1 DEF LateApart
    <3>2. CASE m \in Awaiting
      BY <1>1, <1>3, <2>3, <3>2
    <3> QED BY <3>1, <3>2
  <2> QED BY <1>1, <1>4, <2>2, <2>3 DEF LateApart
<1> QED BY <1>4, <1>5, <1>6, <1>7, <1>8, <1>9 DEF TransInv

\* Of the places there are, the first.
LEMMA FirstIsOf ==
  ASSUME NEW places, places \subseteq Nat, places # {}
  PROVE  FirstOf(places) \in places /\ \A j \in places : FirstOf(places) <= j
<1>1. \E i \in places : \A j \in places : i <= j
  BY Least
<1> QED BY <1>1 DEF FirstOf

\* Whom an answer may be matched to: one that waits, for the same item; of these, the
\* one that is waited for, or the earliest of the others.
LEMMA MatchedIs ==
  ASSUME TransInv, NEW answer \in Post, NEW asked,
         asked = IF sync = 0 THEN pool ELSE <<sync>> \o pool,
         NEW fit, fit = {i \in DOMAIN asked : Matches(answer, asked[i])}
  PROVE  /\ \A k \in Awaiting : Matches(answer, k) => fit # {}
         /\ fit # {} => LET n == asked[FirstOf(fit)]
                        IN /\ n \in Awaiting /\ Matches(answer, n)
                           /\ \A k \in Async : n # sync /\ Matches(answer, k) => n <= k
<1>1. /\ pool \in Seq(Number) /\ sync \in Number \cup {0} /\ Line("order", pool)
      /\ sync \notin Async
  BY DEF TransInv, TransTyped, Records
<1>2. Number \subseteq Nat /\ 0 \notin Number
  BY TransactionsAssumption DEF Number
<1>3. DOMAIN pool = 1 .. Len(pool) /\ Len(pool) \in Nat
  BY <1>1
<1> DEFINE shift == IF sync = 0 THEN 0 ELSE 1
<1>4. /\ DOMAIN asked = 1 .. Len(pool) + shift
      /\ \A i \in DOMAIN pool : asked[i + shift] = pool[i]
      /\ sync # 0 => asked[1] = sync
  <2>1. CASE sync = 0
    BY <1>3, <2>1
  <2>2. CASE sync # 0
    <3> DEFINE o == <<sync>>
    <3>1. o \in Seq(Number) /\ Len(o) = 1 /\ o[1] = sync
      BY <1>1, <2>2
    <3> HIDE DEF o
    <3>2. /\ o \o pool \in Seq(Number)
          /\ Len(o \o pool) = Len(o) + Len(pool)
          /\ \A j \in 1 .. Len(o) : (o \o pool)[j] = o[j]
          /\ \A j \in Len(o) + 1 .. Len(o) + Len(pool) : (o \o pool)[j] = pool[j - Len(o)]
      <4>1. o \in Seq(Number)
        BY <3>1
      <4>2. pool \in Seq(Number)
        BY <1>1
      <4> QED BY <4>1, <4>2, Joined
    <3>3. asked = o \o pool /\ shift = 1
      BY <2>2 DEF o
    <3>4. DOMAIN asked = 1 .. Len(pool) + 1 /\ asked[1] = sync
      BY <1>3, <3>1, <3>2, <3>3
    <3>5. ASSUME NEW i \in DOMAIN pool PROVE asked[i + 1] = pool[i]
      <4>1. i + 1 \in Len(o) + 1 .. Len(o) + Len(pool) /\ (i + 1) - Len(o) = i
        BY <1>3, <3>1
      <4> QED BY <3>2, <3>3, <4>1
    <3> QED BY <3>3, <3>4, <3>5
  <2> QED BY <2>1, <2>2
<1>5. shift \in {0, 1} /\ (shift = 1 <=> sync # 0)
  OBVIOUS
<1> HIDE DEF shift
<1>6. \A i \in DOMAIN asked : \/ sync # 0 /\ i = 1 /\ asked[i] = sync
                              \/ i - shift \in DOMAIN pool /\ asked[i] = pool[i - shift]
  <2> SUFFICES ASSUME NEW i \in DOMAIN asked
               PROVE  \/ sync # 0 /\ i = 1 /\ asked[i] = sync
                      \/ i - shift \in DOMAIN pool /\ asked[i] = pool[i - shift]
    OBVIOUS
  <2>1. CASE i <= shift
    BY <1>3, <1>4, <1>5, <2>1
  <2>2. CASE ~ (i <= shift)
    <3>1. i - shift \in DOMAIN pool /\ (i - shift) + shift = i
      BY <1>3, <1>4, <1>5, <2>2
    <3> QED BY <1>4, <3>1
  <2> QED BY <2>1, <2>2
<1>7. ASSUME NEW k \in Async PROVE \E i \in DOMAIN pool : i + shift \in DOMAIN asked /\ k = pool[i]
  <2>1. PICK i \in DOMAIN pool : k = pool[i]
    BY <1>7 DEF Async, ToSet
  <2>2. i + shift \in DOMAIN asked
    BY <1>3, <1>4, <1>5, <2>1
  <2> QED BY <2>1, <2>2
<1>8. \A k \in Awaiting : Matches(answer, k) => fit # {}
  <2> SUFFICES ASSUME NEW k \in Awaiting, Matches(answer, k) PROVE fit # {}
    OBVIOUS
  <2>1. CASE k \in Async
    <3>1. PICK i \in DOMAIN pool : i + shift \in DOMAIN asked /\ k = pool[i]
      BY <1>7, <2>1
    <3>2. asked[i + shift] = k
      BY <1>4, <3>1
    <3> QED BY <3>1, <3>2
  <2>2. CASE k = sync /\ sync # 0
    <3>1. 1 \in DOMAIN asked /\ asked[1] = k
      BY <1>3, <1>4, <1>5, <2>2
    <3> QED BY <3>1
  <2> QED BY <2>1, <2>2 DEF Awaiting
<1>9. ASSUME fit # {}, NEW f, f = FirstOf(fit), NEW n, n = asked[f]
      PROVE  /\ n \in Awaiting /\ Matches(answer, n)
             /\ \A k \in Async : n # sync /\ Matches(answer, k) => n <= k
  <2>1. fit \subseteq Nat
    BY <1>3, <1>4, <1>5
  <2>2. f \in fit /\ \A j \in fit : f <= j
    BY <1>9, <2>1, FirstIsOf
  <2>3. f \in DOMAIN asked /\ Matches(answer, n)
    BY <1>9, <2>2
  <2>4. n \in Async \cup ({sync} \ {0})
    BY <1>6, <1>9, <2>3 DEF Async, ToSet
  <2>5. n \in Awaiting
    BY <2>3, <2>4 DEF Awaiting, Matches
  <2>6. ASSUME NEW k \in Async, n # sync, Matches(answer, k) PROVE n <= k
    <3>1. PICK i \in DOMAIN pool : i + shift \in DOMAIN asked /\ k = pool[i]
      BY <1>7
    <3>2. i + shift \in fit
      BY <1>4, <2>6, <3>1
    <3>3. f - shift \in DOMAIN pool /\ n = pool[f - shift]
      BY <1>6, <1>9, <2>3, <2>6
    <3>4. f <= i + shift
      BY <2>2, <3>2
    <3>5. f - shift <= i
      BY <1>3, <1>5, <2>1, <2>2, <3>1, <3>4
    <3>6. pool[i] \in Number /\ n \in Number
      BY <1>1, <1>3, <3>1, <3>3
    <3>7. CASE f - shift = i
      BY <1>2, <3>1, <3>3, <3>6, <3>7
    <3>8. CASE f - shift < i
      <4>1. Rel("order", pool[f - shift], pool[i])
        BY <1>1, <3>1, <3>3, <3>8 DEF Line
      <4>2. n < k
        BY <3>1, <3>3, <4>1 DEF Rel
      <4>3. n \in Nat /\ k \in Nat
        BY <1>2, <3>1, <3>6
      <4> QED BY <4>2, <4>3
    <3> QED BY <1>3, <1>5, <2>1, <2>2, <3>1, <3>5, <3>7, <3>8
  <2> QED BY <2>3, <2>5, <2>6
<1> QED BY <1>8, <1>9

\* An answer taken. In order, it is the earliest of what is on its way: where its own
\* transaction waits, no earlier one does, and it is given that; where it does not, no
\* other waits for the item.
LEMMA AnswerKeeps == ASSUME TransInv, TakeAnswer PROVE TransInv'
<1> DEFINE answer == Head(wire["server"])
           x == answer.n
           asked == IF sync = 0 THEN pool ELSE <<sync>> \o pool
           fit == {i \in DOMAIN asked : Matches(answer, asked[i])}
           n == asked[FirstOf(fit)]
           taken == fit # {} /\ ~ Unfit(answer, n)
<1>1. /\ wire["server"] # <<>> /\ wire' = [wire EXCEPT !["server"] = Tail(@)]
      /\ UNCHANGED <<posting, kept, timer>>
      /\ requests' = requests /\ UNCHANGED <<begun, pool, sync, loose>>
  BY DEF TakeAnswer
<1>2. /\ ~ taken => UNCHANGED <<answered, answerOf, completions>>
      /\ taken => /\ answered' = answered \cup {n}
                  /\ answerOf' = [answerOf EXCEPT ![n] = x]
                  /\ completions' = IF n = sync THEN completions ELSE Append(completions, n)
  BY DEF TakeAnswer, Answered
<1>3. PostsTyped /\ "server" \in Side
  BY DEF TransInv, TransTyped, Side
<1>4. Taking("server", x) /\ answer \in Post
  BY <1>1, <1>3, TakenIs
<1> HIDE DEF answer
<1>5. x \in Number
  BY <1>4 DEF Post
<1>6. /\ \A k \in Awaiting : Matches(answer, k) => fit # {}
      /\ fit # {} => /\ n \in Awaiting /\ Matches(answer, n)
                     /\ \A k \in Async : n # sync /\ Matches(answer, k) => n <= k
  <2> HIDE DEF asked
  <2>1. asked = IF sync = 0 THEN pool ELSE <<sync>> \o pool
    BY DEF asked
  <2> HIDE DEF fit
  <2>2. fit = {i \in DOMAIN asked : Matches(answer, asked[i])}
    BY DEF fit
  <2> QED BY <1>4, <2>1, <2>2, MatchedIs
<1> HIDE DEF fit, n, x
<1>7. /\ Way = Way' \cup {x}
      /\ \A r \in Rels : Ordered(r) => Ordered(r)' /\ \A y \in Way' : Rel(r, x, y)
      /\ OnePost => OnePost'
  BY <1>1, <1>4, WayAnswers
<1>8. WayOrdered'
  BY <1>1, <1>7 DEF WayOrdered, TransInv, Rels
<1>9. Async' = Async /\ Sent' = Sent /\ Awaiting \subseteq Sent /\ Sent \subseteq Number
  <2>1. Awaiting \subseteq Sent
    BY DEF Awaiting, TransInv, AllSent
  <2>2. Sent \subseteq Number
    <3>1. Len(begun) \in Nat /\ Len(begun) <= MaxSent
      BY DEF TransInv, TransTyped, AllSent
    <3> QED BY <3>1, TransactionsAssumption DEF Sent, Number
  <2> QED BY <1>1, <2>1, <2>2 DEF Async, Sent
<1>10. taken => n \in Awaiting /\ n \in Sent /\ n \in Number /\ n \notin answered
                /\ (n \in Async \/ n = sync)
  BY <1>6, <1>9 DEF Awaiting
<1>11. Awaiting' = IF taken THEN Awaiting \ {n} ELSE Awaiting
  BY <1>1, <1>2, <1>9 DEF Awaiting
<1>12. /\ completions \in Seq(Number) /\ ToSet(completions) \subseteq answered
       /\ Line("once", completions)
  BY DEF TransInv, TransTyped, Records
<1>13. ASSUME taken, n # sync
       PROVE  /\ completions' \in Seq(Number) /\ ToSet(completions') = ToSet(completions) \cup {n}
              /\ Line("once", completions')
  <2>1. n \notin ToSet(completions) /\ n \in Number
    BY <1>10, <1>12, <1>13
  <2>2. \A y \in ToSet(completions) : Rel("once", y, n)
    BY <2>1 DEF Rel
  <2>3. completions' = Append(completions, n)
    BY <1>2, <1>13
  <2>4. completions \in Seq(Number)
    BY <1>12
  <2> QED BY <1>12, <2>1, <2>2, <2>3, <2>4, ListedBehind
<1>14. taken /\ n = sync => completions' = completions
  BY <1>2
<1>15. ~ taken => completions' = completions /\ answered' = answered /\ answerOf' = answerOf
  BY <1>2
<1>16. answered' \subseteq Number /\ completions' \in Seq(Number)
  BY <1>2, <1>10, <1>12, <1>13, <1>14, <1>15 DEF TransInv, TransTyped
<1>17. answerOf' \in [Number -> Number \cup {0}]
  BY <1>2, <1>5, <1>15 DEF TransInv, TransTyped
<1>18. PostsTyped'
  BY <1>4 DEF Taking
<1>19. TransTyped'
  BY <1>1, <1>16, <1>17, <1>18 DEF TransInv, TransTyped
<1>20. AllSent'
  <2>1. answered' \subseteq Sent
    BY <1>2, <1>10, <1>15 DEF TransInv, AllSent
  <2>2. \A m \in Number \ answered' : answerOf'[m] = 0
    BY <1>2, <1>10, <1>15 DEF TransInv, AllSent, TransTyped
  <2> QED BY <1>1, <1>7, <1>9, <2>1, <2>2 DEF TransInv, AllSent
<1>21. Records'
  <2>1. ToSet(completions') \subseteq answered'
    BY <1>2, <1>12, <1>13, <1>14, <1>15
  <2>2. Line("once", completions')
    BY <1>12, <1>13, <1>14, <1>15
  <2> QED BY <1>1, <1>9, <2>1, <2>2 DEF TransInv, Records
<1>22. CalledBackOnce'
  <2>1. \A m \in Async : m \in answered <=> m \in ToSet(completions)
    BY DEF TransInv, CalledBackOnce, ToSet
  <2>2. sync \notin Async
    BY DEF TransInv, Records
  <2>3. \A m \in Async : m \in answered' <=> m \in ToSet(completions')
    BY <1>2, <1>10, <1>13, <1>14, <1>15, <2>1, <2>2
  <2> QED BY <1>9, <2>3 DEF CalledBackOnce, ToSet
<1>23. ASSUME loose = {}
       PROVE  /\ taken => n = x
              /\ x \in Awaiting => taken
  <2>1. SyncAlone /\ LateApart /\ Awaiting \subseteq Way
    BY <1>23 DEF TransInv, Matched, NoneGone
  <2>2. \A y \in Way' : x < y
    BY <1>7, <1>23 DEF TransInv, WayOrdered, Rels, Rel
  <2>3. x \in Way
    BY <1>7
  <2>4. ASSUME taken PROVE x \in Awaiting
    <3>1. n \in Awaiting /\ begun[n].item = begun[x].item
      BY <1>6, <2>4 DEF Matches, x
    <3> QED BY <2>1, <2>3, <3>1 DEF LateApart
  <2>5. ASSUME x \in Awaiting PROVE fit # {} /\ n = x
    <3>1. Matches(answer, x)
      BY <2>5 DEF Matches, Awaiting, x
    <3>2. fit # {} /\ n \in Awaiting /\ Matches(answer, n)
      BY <1>6, <2>5, <3>1
    <3>3. begun[n].item = begun[x].item
      BY <3>2 DEF Matches, x
    <3>4. ASSUME n # x PROVE FALSE
      <4>1. n # sync /\ x # sync
        BY <2>1, <2>5, <3>2, <3>3, <3>4 DEF SyncAlone
      <4>2. x \in Async
        BY <2>5, <4>1 DEF Awaiting
      <4>3. n <= x
        BY <1>6, <3>1, <3>2, <4>1, <4>2
      <4>4. n \in Way'
        BY <1>7, <2>1, <3>2, <3>4
      <4>5. x < n
        BY <2>2, <4>4
      <4>6. x \in Nat /\ n \in Nat
        BY <1>5, <1>9, <3>2, TransactionsAssumption DEF Number
      <4> QED BY <4>3, <4>5, <4>6
    <3> QED BY <3>2, <3>4
  <2>6. ASSUME x \in Awaiting PROVE ~ Unfit(answer, n)
    <3>1. begun[n].kind = begun[answer.n].kind
      BY <2>5, <2>6 DEF x
    <3> QED BY <3>1 DEF Unfit
  <2> QED BY <2>4, <2>5, <2>6
<1> HIDE DEF taken
<1>24. OwnAnswers'
  <2> SUFFICES ASSUME loose = {} PROVE \A m \in Sent : answerOf'[m] \in {0, m}
    BY <1>1, <1>9 DEF OwnAnswers
  <2>1. \A m \in Sent : answerOf[m] \in {0, m}
    BY DEF TransInv, OwnAnswers
  <2> QED BY <1>2, <1>9, <1>15, <1>23, <2>1 DEF TransInv, TransTyped
<1>25. NoneGone'
  <2> SUFFICES ASSUME loose = {} PROVE Awaiting' \subseteq Way'
    BY <1>1 DEF NoneGone
  <2>1. Awaiting \subseteq Way
    BY DEF TransInv, NoneGone
  <2> QED BY <1>7, <1>11, <1>23, <2>1
<1>26. Matched'
  <2> SUFFICES ASSUME loose = {} PROVE SyncAlone' /\ LateApart'
    BY <1>1 DEF Matched
  <2>1. SyncAlone /\ LateApart
    BY DEF TransInv, Matched
  <2>2. SyncAlone'
    BY <1>1, <1>11, <2>1 DEF SyncAlone
  <2>3. x \notin Way'
    BY <1>7 DEF TransInv, WayOrdered, Rels, Rel
  <2>4. Way' \ Awaiting' \subseteq Way \ Awaiting /\ Awaiting' \subseteq Awaiting
    BY <1>7, <1>11, <1>23, <2>3
  <2>5. LateApart'
    BY <1>1, <2>1, <2>4 DEF LateApart
  <2> QED BY <2>2, <2>5
<1> QED BY <1>8, <1>19, <1>20, <1>21, <1>22, <1>24, <1>25, <1>26 DEF TransInv

\* A transaction begun: the latest, behind all there are, and waited for with them.
LEMMA TransactKeeps ==
  ASSUME TransInv, NEW item \in Item, NEW kind \in {"request", "poke"}, NEW waits \in BOOLEAN,
         Transact(item, kind, waits)
  PROVE  TransInv'
<1> DEFINE n == Len(begun) + 1
           new == [item |-> item, kind |-> kind]
           post == [n |-> n, yes |-> TRUE]
           Begun == [item : Item, kind : {"request", "poke"}]
<1>1. /\ n <= MaxSent /\ sync = 0 /\ begun' = Append(begun, new)
      /\ waits => sync' = n /\ pool' = pool
      /\ ~ waits => pool' = Append(pool, n) /\ sync' = sync
      /\ PostDde("client", post)
      /\ UNCHANGED <<answered, completions, answerOf, requests>>
  BY DEF Transact
<1>2. /\ loose \subseteq loose' /\ loose' \subseteq loose \cup {"again", "within"}
      /\ ~ Free("client") => "within" \in loose'
      /\ loose' = {} => /\ \A m \in Late : begun[m].item # item
                        /\ waits => \A m \in Awaiting : begun[m].item # item
  BY DEF Transact
<1>3. PostsTyped /\ "client" \in Side /\ requests \in Seq(Number) /\ begun \in Seq(Begun)
  BY DEF TransInv, TransTyped, Side
<1>4. /\ Len(begun) \in Nat /\ n \in Number /\ n \in Nat /\ new \in Begun
  BY <1>1, <1>3, TransactionsAssumption DEF Number
<1>5. post \in Post /\ post.n = n
  BY <1>4 DEF Post
<1>6. /\ begun' \in Seq(Begun) /\ Len(begun') = n
      /\ \A m \in 1 .. Len(begun) : begun'[m] = begun[m]
      /\ begun'[n] = new
  <2>1. begun \in Seq(Begun) /\ new \in Begun
    BY <1>3, <1>4
  <2> HIDE DEF new, Begun
  <2> QED BY <1>1, <2>1, AppendParts
<1>7. Sent = 1 .. Len(begun) /\ Sent' = Sent \cup {n} /\ n \notin Sent
  BY <1>4, <1>6 DEF Sent
<1>8. \A m \in Sent : begun'[m] = begun[m] /\ m < n
  BY <1>4, <1>6, <1>7
<1> HIDE DEF post
<1>9. Growing("client", n)
  BY <1>1, <1>3, <1>5, PostGrows
<1> HIDE DEF n
<1>10. /\ Way \subseteq Sent /\ Async \subseteq Sent /\ answered \subseteq Sent
       /\ Awaiting \subseteq Sent /\ 0 \notin Async
  <2>1. Way \subseteq Sent /\ Async \subseteq Sent /\ answered \subseteq Sent
    BY DEF TransInv, AllSent
  <2>2. Awaiting \subseteq Sent
    BY <1>1, <2>1 DEF Awaiting
  <2>3. 0 \notin Sent
    BY <1>4, <1>7
  <2> QED BY <2>1, <2>2, <2>3
<1>11. /\ Way' = Way \cup {n}
       /\ \A r \in Rels : Ordered(r) /\ (r = "once" \/ Free("client")) /\ (\A y \in Way : Rel(r, y, n))
              => Ordered(r)'
       /\ OnePost /\ Free("client") => OnePost'
  BY <1>1, <1>9, WayGrows
<1>12. \A y \in Way : Rel("once", y, n) /\ Rel("order", y, n)
  BY <1>7, <1>8, <1>10 DEF Rel
<1>13. WayOrdered'
  <2>1. Ordered("once")'
    BY <1>11, <1>12 DEF TransInv, WayOrdered, Rels
  <2>2. ASSUME "within" \notin loose' PROVE OnePost' /\ Ordered("order")'
    <3>1. Free("client") /\ "within" \notin loose
      BY <1>2, <2>2
    <3>2. OnePost /\ Ordered("order")
      BY <3>1 DEF TransInv, WayOrdered
    <3> QED BY <1>11, <1>12, <3>1, <3>2 DEF Rels
  <2> QED BY <2>1, <2>2 DEF WayOrdered
<1>14. /\ pool' \in Seq(Number) /\ Line("order", pool')
       /\ Async' = IF waits THEN Async ELSE Async \cup {n}
  <2>1. pool \in Seq(Number) /\ Line("order", pool)
    BY DEF TransInv, TransTyped, Records
  <2>2. CASE waits
    BY <1>1, <2>1, <2>2 DEF Async
  <2>3. CASE ~ waits
    <3>1. pool' = Append(pool, n) /\ n \in Number
      BY <1>1, <1>4, <2>3
    <3>2. \A y \in ToSet(pool) : Rel("order", y, n)
      BY <1>8, <1>10 DEF Rel, Async
    <3>3. pool \in Seq(Number)
      BY <2>1
    <3>4. /\ Append(pool, n) \in Seq(Number) /\ Line("order", Append(pool, n))
          /\ ToSet(Append(pool, n)) = ToSet(pool) \cup {n}
      BY <2>1, <3>1, <3>2, <3>3, ListedBehind
    <3> QED BY <2>3, <3>1, <3>4 DEF Async
  <2> QED BY <2>2, <2>3
<1>15. sync' = IF waits THEN n ELSE 0
  BY <1>1
<1>16. n # 0 /\ n \notin answered
  BY <1>4, <1>7, <1>10 DEF Number
<1>17. Awaiting' = Awaiting \cup {n}
  <2>1. Awaiting = {m \in Async : m \notin answered}
    BY <1>1 DEF Awaiting
  <2>2. Async' \cup ({sync'} \ {0}) = Async \cup {n}
    BY <1>14, <1>15, <1>16
  <2>3. Awaiting' = {m \in Async \cup {n} : m \notin answered}
    BY <1>1, <2>2 DEF Awaiting
  <2> QED BY <1>16, <2>1, <2>3
<1>18. TransTyped'
  <2>1. PostsTyped'
    BY <1>9 DEF Growing
  <2>2. sync' \in Number \cup {0}
    BY <1>4, <1>15
  <2>3. loose' \subseteq {"again", "within"}
    BY <1>2 DEF TransInv, TransTyped
  <2> QED BY <1>1, <1>6, <1>14, <2>1, <2>2, <2>3 DEF TransInv, TransTyped
<1>19. AllSent'
  <2>1. Len(begun') <= MaxSent
    BY <1>1, <1>6
  <2>2. /\ Way' \subseteq Sent' /\ Async' \subseteq Sent' /\ sync' \in Sent' \cup {0}
        /\ answered' \subseteq Sent'
    BY <1>1, <1>7, <1>10, <1>11, <1>14, <1>15
  <2>3. \A m \in Number \ answered' : answerOf'[m] = 0
    BY <1>1 DEF TransInv, AllSent
  <2> QED BY <2>1, <2>2, <2>3 DEF AllSent
<1>20. Records'
  <2>1. sync' \notin Async'
    BY <1>7, <1>10, <1>14, <1>15, <1>16
  <2> QED BY <1>1, <1>14, <2>1 DEF TransInv, Records
<1>21. CalledBackOnce'
  <2>1. \A m \in Async : m \in answered <=> m \in ToSet(completions)
    BY DEF TransInv, CalledBackOnce, ToSet
  <2>2. n \notin ToSet(completions)
    BY <1>16 DEF TransInv, Records
  <2>3. \A m \in Async' : m \in answered' <=> m \in ToSet(completions')
    BY <1>1, <1>14, <1>16, <2>1, <2>2
  <2> QED BY <2>3 DEF CalledBackOnce, ToSet
<1>22. OwnAnswers'
  <2> SUFFICES ASSUME loose' = {} PROVE \A m \in Sent' : answerOf'[m] \in {0, m}
    BY DEF OwnAnswers
  <2>1. \A m \in Sent : answerOf[m] \in {0, m}
    BY <1>2 DEF TransInv, OwnAnswers
  <2>2. answerOf[n] = 0
    BY <1>4, <1>16 DEF TransInv, AllSent
  <2> QED BY <1>1, <1>7, <2>1, <2>2
<1>23. NoneGone'
  BY <1>2, <1>11, <1>17 DEF TransInv, NoneGone
<1>24. Matched'
  <2> SUFFICES ASSUME loose' = {} PROVE SyncAlone' /\ LateApart'
    BY DEF Matched
  <2>1. SyncAlone /\ LateApart
    BY <1>2 DEF TransInv, Matched
  <2>2. begun'[n].item = item
    BY <1>6
  <2>3. Late = Way \ Awaiting
    BY <1>3, OnTheWayIs DEF Late
  <2>4. \A m \in Awaiting : begun'[m].item = begun[m].item /\ m # n
    BY <1>7, <1>8, <1>10
  <2>5. \A m \in Way : begun'[m].item = begun[m].item
    BY <1>8, <1>10
  <2>6. SyncAlone'
    <3> SUFFICES ASSUME sync' \in Awaiting', NEW m \in Awaiting', m # sync'
                 PROVE  begun'[m].item # begun'[sync'].item
      BY DEF SyncAlone
    <3>1. waits
      BY <1>10, <1>15, <1>16, <1>17 DEF Awaiting
    <3>2. sync' = n /\ m \in Awaiting
      BY <1>15, <1>17, <3>1
    <3> QED BY <1>2, <2>2, <2>4, <3>1, <3>2
  <2>7. LateApart'
    <3> SUFFICES ASSUME NEW m \in Way' \ Awaiting', NEW k \in Awaiting'
                 PROVE  begun'[m].item # begun'[k].item
      BY DEF LateApart
    <3>1. m \in Way \ Awaiting
      BY <1>11, <1>17
    <3>2. CASE k = n
      BY <1>2, <2>2, <2>3, <2>5, <3>1, <3>2
    <3>3. CASE k # n
      <4>1. k \in Awaiting
        BY <1>17, <3>3
      <4> QED BY <2>1, <2>4, <2>5, <3>1, <4>1 DEF LateApart
    <3> QED BY <3>2, <3>3
  <2> QED BY <2>6, <2>7
<1> QED BY <1>13, <1>18, <1>19, <1>20, <1>21, <1>22, <1>23, <1>24 DEF TransInv

-----------------------------------------------------------------------------
(* The transactions: the theorems.                                         *)

\* At first there is nothing.
LEMMA InitTransInv == TransactionsInit => TransInv
<1> SUFFICES ASSUME TransactionsInit PROVE TransInv
  OBVIOUS
<1>1. /\ begun = <<>> /\ pool = <<>> /\ sync = 0 /\ answered = {}
      /\ completions = <<>> /\ requests = <<>>
      /\ wire = [s \in Side |-> <<>>] /\ posting = wire /\ kept = wire
      /\ timer = [s \in Side |-> FALSE]
      /\ answerOf = [n \in Number |-> 0] /\ loose = {}
  BY DEF TransactionsInit
<1>2. \A s \in Side : wire[s] = <<>> /\ kept[s] = <<>> /\ posting[s] = <<>>
  BY <1>1
<1>3. \A s \in Side : OnWire(s) = <<>> /\ OnKept(s) = <<>> /\ Tried(s) = <<>>
  BY <1>2, NumbersJoin DEF OnWire, OnKept, Tried
<1>4. DOMAIN <<>> = {} /\ ToSet(<<>>) = {} /\ Len(<<>>) = 0
  BY DEF ToSet
<1>5. \A s \in Side : Of(s) = {}
  BY <1>3, <1>4 DEF Of, All
<1>6. "client" \in Side /\ "server" \in Side
  BY DEF Side
<1>7. Way = {} /\ Async = {} /\ Sent = {} /\ Awaiting = {} /\ Requests = {}
  BY <1>1, <1>4, <1>5, <1>6 DEF Way, Async, Sent, Awaiting, Requests
<1>8. \A r, l : Line(r, <<>>) /\ Before(r, <<>>, l)
  BY <1>4 DEF Line, Before
<1>9. \A r : Ordered(r)
  BY <1>1, <1>3, <1>5, <1>6, <1>7, <1>8 DEF Ordered, Follow
<1>10. WayOrdered
  BY <1>2, <1>9 DEF WayOrdered, OnePost, OneTried
<1>11. TransTyped
  <2>1. PostsTyped
    BY <1>1, <1>2, <1>4, TransactionsAssumption DEF PostsTyped
  <2> QED BY <1>1, <2>1 DEF TransTyped
<1>12. AllSent
  BY <1>1, <1>4, <1>7, TransactionsAssumption DEF AllSent
<1>13. Records /\ CalledBackOnce
  BY <1>1, <1>4, <1>7, <1>8 DEF Records, CalledBackOnce
<1>14. Matched /\ NoneGone /\ OwnAnswers
  BY <1>7 DEF Matched, SyncAlone, LateApart, NoneGone, OwnAnswers
<1> QED BY <1>10, <1>11, <1>12, <1>13, <1>14 DEF TransInv

\* Where nothing happens it is as it was.
LEMMA StillTransInv == TransInv /\ UNCHANGED transactionsVars => TransInv'
<1> SUFFICES ASSUME TransInv, UNCHANGED transactionsVars PROVE TransInv'
  OBVIOUS
<1>1. /\ UNCHANGED <<wire, posting, kept, requests>> /\ UNCHANGED <<begun, client, loose>>
      /\ timer' = timer
  BY DEF transactionsVars, client
<1>2. Way' = Way /\ WayOrdered'
  BY <1>1, WayStays DEF WayOrdered, TransInv
<1>3. PostsTyped' /\ requests' \in Seq(Number)
  BY <1>1 DEF TransInv, TransTyped, PostsTyped
<1> QED BY <1>1, <1>2, <1>3, SameWay

\* Each step of either side keeps the invariant.
LEMMA NextTransInv == TransInv /\ TransactionsNext => TransInv'
<1> SUFFICES ASSUME TransInv, TransactionsNext PROVE TransInv'
  OBVIOUS
<1>1. ASSUME NEW s \in Side, TryAgain(s) \/ TimerDue(s) \/ Enable(s) PROVE TransInv'
  BY <1>1, TryKeeps, TimerKeeps
<1>2. ASSUME NEW item \in Item, NEW kind \in {"request", "poke"}, NEW waits \in BOOLEAN,
             Transact(item, kind, waits)
      PROVE  TransInv'
  BY <1>2, TransactKeeps
<1>3. CASE TakeAnswer
  BY <1>3, AnswerKeeps
<1>4. CASE WaitEnds
  BY <1>4, WaitEndsKeeps
<1>5. CASE Complete
  BY <1>5, CompleteKeeps
<1>6. pool \in Seq(Number) /\ Line("order", pool)
  BY DEF TransInv, TransTyped, Records
<1>7. ASSUME NEW n \in Async, Abandon({n}, DropRecord(n)) PROVE TransInv'
  <2> DEFINE left == DropRecord(n)
             gone == {n}
  <2>1. left \in Seq(Number) /\ Line("order", left) /\ ToSet(left) = Async \ gone
    BY <1>6, DropIs
  <2>2. gone \subseteq Async /\ Abandon(gone, left)
    BY <1>7
  <2> HIDE DEF left, gone
  <2> QED BY <2>1, <2>2, AbandonKeeps
<1>8. CASE Abandon(Async, <<>>)
  <2> DEFINE left == <<>>
  <2>1. left \in Seq(Number) /\ Line("order", left) /\ ToSet(left) = Async \ Async
    BY DEF Line, ToSet
  <2>2. Abandon(Async, left)
    BY <1>8
  <2> HIDE DEF left
  <2> QED BY <2>1, <2>2, AbandonKeeps
<1>9. CASE TakeRequest
  BY <1>9, RequestKeeps
<1>10. ASSUME NEW yes \in BOOLEAN, Reply(yes) PROVE TransInv'
  BY <1>10, ReplyKeeps
<1> QED BY <1>1, <1>2, <1>3, <1>4, <1>5, <1>7, <1>8, <1>9, <1>10 DEF TransactionsNext

\* The inductive invariant, for every number of transactions, of items, of places in
\* a task's queue and of tries of a post.
THEOREM TransactionsInvariant == TransactionsSpec => []TransInv
<1>1. TransInv /\ [TransactionsNext]_transactionsVars => TransInv'
  BY NextTransInv, StillTransInv
<1> QED BY <1>1, InitTransInv, PTL DEF TransactionsSpec

\* Each list holds a transaction once, wherever the posts of both sides have got to.
THEOREM TransactionsAreTyped == TransactionsSpec => []TransactionsTypeOK
<1>1. ASSUME NEW l \in Seq(Number), Line("once", l) PROVE IsInjective(l)
  <2>1. DOMAIN l = 1 .. Len(l) /\ Len(l) \in Nat
    OBVIOUS
  <2>2. \A i, j \in DOMAIN l : i < j => l[i] # l[j]
    BY <1>1 DEF Line, Rel
  <2>3. ASSUME NEW i \in DOMAIN l, NEW j \in DOMAIN l, l[i] = l[j] PROVE i = j
    BY <2>1, <2>2, <2>3
  <2> QED BY <2>3 DEF IsInjective
<1>2. ASSUME NEW l \in Seq(Number), Line("order", l) PROVE Line("once", l)
  <2>1. \A i \in DOMAIN l : l[i] \in Nat
    BY TransactionsAssumption DEF Number
  <2> QED BY <1>2, <2>1 DEF Line, Rel
<1>3. TransInv => TransactionsTypeOK
  <2> SUFFICES ASSUME TransInv PROVE TransactionsTypeOK
    OBVIOUS
  <2>1. /\ begun \in Seq([item : Item, kind : {"request", "poke"}])
        /\ pool \in Seq(Number) /\ completions \in Seq(Number) /\ requests \in Seq(Number)
        /\ sync \in Number \cup {0} /\ answered \subseteq Number
        /\ answerOf \in [Number -> Number \cup {0}] /\ loose \subseteq {"again", "within"}
    BY DEF TransInv, TransTyped
  <2>2. \A s \in Side :
          /\ wire[s] \in Seq(Post) /\ Len(wire[s]) <= Places
          /\ kept[s] \in Seq(Post) /\ timer[s] \in BOOLEAN
          /\ posting[s] \in Seq([post : Post, tries : 1 .. Tries])
    BY DEF TransInv, TransTyped, PostsTyped, Try
  <2>3. Line("order", pool) /\ Line("once", completions) /\ Line("once", requests)
    BY DEF TransInv, Records, WayOrdered, Ordered
  <2>4. IsInjective(pool)
    BY <1>1, <1>2, <2>1, <2>3
  <2>5. IsInjective(completions)
    BY <1>1, <2>1, <2>3
  <2>6. IsInjective(requests)
    BY <1>1, <2>1, <2>3
  <2> QED BY <2>1, <2>2, <2>4, <2>5, <2>6 DEF TransactionsTypeOK
<1> QED BY <1>3, TransactionsInvariant, PTL

\* Queues that fill, posts kept and tried again lose no transaction waited for and let
\* none overtake another, either way between the two.
THEOREM PostsAreKeptSafe == TransactionsSpec => []KeptSafe
<1>1. TransInv => KeptSafe
  <2> SUFFICES ASSUME TransInv PROVE KeptSafe
    OBVIOUS
  <2>1. PostsTyped /\ requests \in Seq(Number)
    BY DEF TransInv, TransTyped
  <2>2. ToSet(OnTheWay) = Way /\ \A r : Ordered(r) => Line(r, OnTheWay)
    BY <2>1, OnTheWayIs
  <2>3. NoneLost
    BY <2>2 DEF TransInv, NoneGone, NoneLost
  <2>4. OnTheWayInOrder
    <3> SUFFICES ASSUME "within" \notin loose
                 PROVE  \A i, j \in DOMAIN OnTheWay : i < j => OnTheWay[i] < OnTheWay[j]
      BY DEF OnTheWayInOrder
    <3>1. Line("order", OnTheWay)
      BY <2>2 DEF TransInv, WayOrdered
    <3> HIDE DEF OnTheWay
    <3> QED BY <3>1 DEF Line, Rel
  <2> QED BY <2>3, <2>4 DEF KeptSafe
<1> QED BY <1>1, TransactionsInvariant, PTL

\* Matched by nothing but its item, an answer is given to its own transaction, as long
\* as programs keep what the property names.
THEOREM AnswersAreOwn == TransactionsSpec => []OwnAnswers
<1>1. TransInv => OwnAnswers
  BY DEF TransInv
<1> QED BY <1>1, TransactionsInvariant, PTL

\* A transaction with its answer has its one callback waiting, until it is made.
THEOREM AnswersAreCalledBack == TransactionsSpec => []CalledBackOnce
<1>1. TransInv => CalledBackOnce
  BY DEF TransInv
<1> QED BY <1>1, TransactionsInvariant, PTL

\* What the clipboard, the callbacks and the transactions keep is of its type, each of
\* them going on alone.
THEOREM BetweenAreTyped == BetweenSpec => []BetweenTypeOK
<1>1. BetweenInit => ClipInit /\ CallbacksInit /\ TransactionsInit
  BY DEF BetweenInit
<1>2. [BetweenNext]_<<part, listVars, clipVars, callbacksVars, transactionsVars>> =>
        /\ [ClipNext]_clipVars
        /\ [CallbacksNext]_callbacksVars
        /\ [TransactionsNext]_transactionsVars
  BY DEF BetweenNext
<1>3. BetweenSpec => ClipSpec /\ CallbacksSpec /\ TransactionsSpec
  BY <1>1, <1>2, PTL DEF BetweenSpec, ClipSpec, CallbacksSpec, TransactionsSpec
<1>4. ClipInv => ClipTypeOK
  BY DEF ClipInv
<1>5. ClipTypeOK /\ CallbacksTypeOK /\ TransactionsTypeOK => BetweenTypeOK
  BY DEF BetweenTypeOK
<1> QED BY <1>3, <1>4, <1>5, ClipboardInvariant, CallbacksAreTyped, TransactionsAreTyped, PTL
=============================================================================
