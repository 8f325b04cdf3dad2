----------------------------- MODULE LocalHeap ------------------------------
(***************************************************************************)
(* A local heap (winbox-machine/src/local.rs): its arenas, its handles,    *)
(* and KERNEL's functions on it.  The heap is compacted where a block does *)
(* not fit, and blocks discarded, and then it grows, up to the end of its  *)
(* segment.  Addresses and sizes are the code's, as roundings and          *)
(* thresholds are what there is to get wrong; a block's bytes are not      *)
(* modelled.  The free list is the free arenas, in their order, and the    *)
(* count of arenas is how many there are.                                  *)
(***************************************************************************)
EXTENDS Integers, FiniteSetsExt, SequencesExt

CONSTANTS
  Start, End,    \* LocalInit's: where the heap is in its segment
  Segment,       \* the segment's size, GlobalSize's
  Growable,      \* whether the segment may grow
  TableSize,     \* the handles a table is made with: 32
  CountLimit,    \* the lock count that stays: 255
  Requests,      \* sizes a program asks for
  Levels,        \* discard levels it gives
  MaxEntries,    \* BOUND: handles
  MaxFixed       \* BOUND: fixed blocks of a program's

\* The highest address of a segment.
Highest == 65535

ASSUME HeapAssumption ==
  /\ {Start, End} \subseteq 0 .. Highest /\ Segment \in End .. Highest + 1
  /\ Growable \in BOOLEAN /\ (Growable => Segment % 32 = 0)
  /\ {TableSize, CountLimit} \subseteq Nat \ {0}
  /\ Requests \subseteq 0 .. Highest /\ Levels \subseteq 0 .. 15
  /\ {MaxEntries, MaxFixed} \subseteq Nat

VARIABLES
  arenas,    \* in order: where each is, what its block is, its handle
  entries,   \* the handles of the tables there are
  spare,     \* the free ones, the next to be given first
  size,      \* the segment's size
  refused    \* history: the span it was refused, nought if none was

heapVars == <<arenas, entries, spare, size, refused>>

-----------------------------------------------------------------------------
(* State.                                                                  *)

\* An arena is free, or of a block in use: fixed, moveable, of KERNEL's own; lost, if
\* nobody holds what it was answered with; or past what LocalShrink is to keep.
Kinds == {"free", "fixed", "moveable", "kernel", "lost", "past"}
Arena == [at : 0 .. Highest, is : Kinds, entry : Nat]

\* A handle that is used and has no block is a discarded one's.
HandleEntry == [used : BOOLEAN, at : 0 .. Highest, level : 0 .. 15, locks : 0 .. CountLimit]

Unused == [used |-> FALSE, at |-> 0, level |-> 0, locks |-> 0]
NewArena(at, is, e) == [at |-> at, is |-> is, entry |-> e]

\* A span as KERNEL rounds it (round): ten at least, up to four, FFFCh at most.
UpTo(n, unit) == ((n + unit - 1) \div unit) * unit
Round(n) == Min({Highest - 3, UpTo(Max({n, 10}), 4)})

Span(a, i) == a[i + 1].at - a[i].at
FreeIn(a) == {i \in 1 .. Len(a) - 1 : a[i].is = "free"}
IndexOf(a, at) == CHOOSE i \in DOMAIN a : a[i].at = at

\* Mutant: a lock is not looked at.
MayMoveLocked(a, es, i) == a[i].is = "moveable"

\* A block that may be moved: moveable, and its handle not locked.
MayMove(a, es, i) == a[i].is = "moveable" /\ es[a[i].entry].locks = 0

\* A handle whose block may be discarded.
Discardable(e) == e.used /\ e.at # 0 /\ e.level > 0 /\ e.locks = 0

\* The whole span, from the first arena to past the last.
Whole(a) == Last(a).at + 10 - a[1].at

\* As LocalInit lays it out.
InitialArenas ==
  LET first == Round(Start)
      info == Round(first + 10)
      free == Round(info + 46)
  IN <<NewArena(first, "kernel", 0), NewArena(info, "kernel", 0),
       NewArena(free, "free", 0), NewArena(((End - 10) \div 4) * 4, "kernel", 0)>>
InitialSpan == Whole(InitialArenas)

\* There is room for a block (LocalInit itself asks for more than none).
ASSUME LayoutAssumption == InitialArenas[3].at + 12 <= InitialArenas[4].at

\* The type of the state: the arenas cover the heap in order, each with room for its
\* words, and none past the segment.
HeapTypeOK ==
  /\ arenas \in Seq(Arena) /\ size \in 0 .. Highest + 1
  /\ \A i \in 1 .. Len(arenas) - 1 :
       arenas[i].at % 4 = 0 /\ Span(arenas, i) >= 12 /\ arenas[i].is # "past"
  /\ arenas[1] = InitialArenas[1] /\ arenas[2] = InitialArenas[2]
  /\ Last(arenas).is = "kernel" /\ Last(arenas).at + 10 <= size
  /\ entries \in Seq(HandleEntry)
  /\ spare \in Seq(DOMAIN entries) /\ IsInjective(spare)
  /\ ToSet(spare) = {e \in DOMAIN entries : ~entries[e].used}

HeapInit ==
  /\ arenas = InitialArenas
  /\ entries = <<>> /\ spare = <<>>
  /\ size = Segment
  /\ refused = 0

-----------------------------------------------------------------------------
(* Arenas made and freed.  A heap in the middle of a call is a record.     *)

Heap == [a |-> arenas, es |-> entries, spare |-> spare, size |-> size]

\* Mutant: a block freed is not joined to the free arena before it.
Unjoined(a, i) == a

\* A block freed, joined to a free arena after it and before it (free_arena).
JoinedAfter(a, i) == IF a[i + 1].is = "free" THEN RemoveAt(a, i + 1) ELSE a
JoinedBefore(a, i) == IF a[i - 1].is = "free" THEN RemoveAt(a, i) ELSE a

Freed(a, i) ==
  JoinedBefore(JoinedAfter([a EXCEPT ![i] = NewArena(@.at, "free", 0)], i), i)

\* Mutant: whatever a block leaves is kept free.
NothingLeft(left, moveable) == left = 0

\* Too little is left of a free arena to be one.
TooLittle(left, moveable) == IF moveable THEN left < 16 ELSE left <= 16

\* A block put in a free arena, a moveable one at its top and a fixed one at its
\* bottom; all of it is given where too little would be left.
Placed(a, i, span, moveable) ==
  LET left == Span(a, i) - span
      all == TooLittle(left, moveable)
      at == IF moveable /\ ~all THEN a[i].at + left ELSE a[i].at
      block == NewArena(at, "fixed", 0)
  IN [at |-> at,
      a |-> IF all THEN ReplaceAt(a, i, block)
            ELSE IF moveable THEN InsertAt(a, i + 1, block)
            ELSE InsertAt(ReplaceAt(a, i, block), i + 1, NewArena(at + span, "free", 0))]

\* The segment grown to have room (out_of_memory): the same, if it may not.
Grown(h, largest, span) ==
  LET short == h.size + span + 24
      to == Min({Highest + 1, UpTo(Min({short + 512, Highest - 15}), 32)})
      last == ((Min({to, Highest}) - 10) \div 4) * 4
  IN IF /\ Growable /\ h.size <= Highest /\ short - largest <= Highest
        /\ last > Last(h.a).at
     THEN [h EXCEPT !.a = Freed(Append(@, NewArena(last, "kernel", 0)), Len(@)),
                    !.size = to]
     ELSE h

-----------------------------------------------------------------------------
(* Compaction.  A walk is at arena i, with cx of them to go; best is where *)
(* the largest free one is that it left behind.                            *)

\* A handle given its block's place.
PlaceGiven(es, e, at) == [es EXCEPT ![e].at = at + 6]

\* Mutant: a block slid leaves its handle as it was.
HandleKept(es, e, at) == es

\* The handle of a block slid.
HandleSlid(es, e, at) == PlaceGiven(es, e, at)

\* The moveable block below a free arena slid to its top (slide).
Slide(w) ==
  LET a == w.h.a
      e == a[w.i - 1].entry
      to == a[w.i + 1].at - Span(a, w.i - 1)
      slid == [a EXCEPT ![w.i - 1] = NewArena(@.at, "free", 0),
                        ![w.i] = NewArena(to, "moveable", e)]
  IN [w EXCEPT !.h.a = JoinedBefore(slid, w.i - 1),
               !.h.es = HandleSlid(@, e, to), !.i = @ - 1]

\* Of the arenas the walk has to go, the largest that may be moved into the free one,
\* of two the higher (fitting); nought for none.
Fitting(w) ==
  LET a == w.h.a
      fits == {j \in 1 .. w.i : /\ j > w.i - w.cx /\ MayMove(a, w.h.es, j)
                                /\ Span(a, j) <= Span(a, w.i)}
  IN IF fits = {} THEN 0
     ELSE CHOOSE j \in fits : \A k \in fits :
            Span(a, k) < Span(a, j) \/ (Span(a, k) = Span(a, j) /\ k <= j)

\* That one moved to the free one's top, or given all of it (fit).
Fit(w, j) ==
  LET a == w.h.a
      split == Span(a, w.i) - Span(a, j) >= 16
      to == IF split THEN a[w.i + 1].at - Span(a, j) ELSE a[w.i].at
      block == NewArena(to, "moveable", a[j].entry)
      moved == IF split THEN InsertAt(a, w.i + 1, block) ELSE ReplaceAt(a, w.i, block)
      left == Freed(moved, j)
  IN [w EXCEPT !.h.a = left, !.h.es = PlaceGiven(@, a[j].entry, to),
               !.i = IndexOf(left, to) - 1,
               !.cx = @ + (IF split THEN 1 ELSE 0) - (Len(moved) - Len(left))]

\* Mutant: the first free arena the walk left behind.
FirstLeft(a, i, best) == best = 0

\* A free arena larger than those the walk left behind.
Larger(a, i, best) == best = 0 \/ Span(a, i) > Span(a, IndexOf(a, best))

\* A step of the walk; with still, no block may be moved.
Step(w) ==
  LET a == w.h.a
  IN IF a[w.i].is # "free" THEN [w EXCEPT !.i = Max({1, @ - 1})]
     ELSE IF ~w.still /\ MayMove(a, w.h.es, w.i - 1) THEN Slide(w)
     ELSE IF ~w.still /\ Fitting(w) # 0 THEN Fit(w, Fitting(w))
     ELSE [w EXCEPT !.best = IF Larger(a, w.i, @) THEN a[w.i].at ELSE @, !.i = @ - 1]

Stepped(w) == IF w.cx = 0 THEN w ELSE [Step(w) EXCEPT !.cx = @ - 1]

\* The walk after so many steps: each takes it six bytes down, or more.
Walking(w) ==
  LET after[k \in Nat] == IF k = 0 THEN w ELSE Stepped(after[k - 1])
  IN after
Walk(w) == Walking(w)[Whole(w.h.a) \div 6]

\* A heap walked, from its last arena down.
Walked(h, still) ==
  Walk([h |-> h, i |-> Len(h.a), cx |-> Len(h.a), best |-> 0, still |-> still])

\* The block of a handle discarded, if it may be and is of the level.
Discarded(g, e, level) ==
  IF Discardable(g.es[e]) /\ g.es[e].level = level
  THEN [g EXCEPT !.a = Freed(@, IndexOf(@, g.es[e].at - 6)), !.es[e].at = 0]
  ELSE g

\* The blocks of one level discarded, up to so many handles.
Discarding(h, level) ==
  LET after[e \in Nat] == IF e = 0 THEN h ELSE Discarded(after[e - 1], e, level)
  IN after
WithoutLevel(h, level) == Discarding(h, level)[Len(h.es)]

\* The level discarded next: the highest there is.
NextLevel(levels) == Max(levels)

\* The largest free arena that a walk left.
LargestLeft(w) == IF w.best = 0 THEN 0 ELSE Span(w.h.a, IndexOf(w.h.a, w.best))

\* The levels under one of blocks that may be discarded.
LevelsUnder(h, under) ==
  {e.level : e \in {d \in ToSet(h.es) : Discardable(d) /\ d.level < under}}

\* A pass: the heap walked, levels under one still to be discarded if need be. With no
\* free arena nothing is discarded.
Ends(p, span) ==
  \/ p.w.best = 0 \/ p.w.still \/ LargestLeft(p.w) >= span
  \/ LevelsUnder(p.w.h, p.under) = {}
NextPass(p, span) ==
  LET level == NextLevel(LevelsUnder(p.w.h, p.under))
  IN IF Ends(p, span) THEN p
     ELSE [w |-> Walked(WithoutLevel(p.w.h, level), p.w.still), under |-> level]

\* The passes of a compaction, one for each level at most.
Passes(h, span, still) ==
  LET after[k \in Nat] ==
        IF k = 0 THEN [w |-> Walked(h, still), under |-> 16]
        ELSE NextPass(after[k - 1], span)
  IN after

\* The heap compacted for a span (compact): its largest free arena and where that is.
LeftBy(w) == [h |-> w.h, best |-> w.best, largest |-> LargestLeft(w)]
Compacted(h, span, still) == LeftBy(Passes(h, span, still)[15].w)

-----------------------------------------------------------------------------
(* Blocks and handles made.                                                *)

\* What alloc answers: the heap, and where the block's arena is or the span refused.
PutIn(h, i, span, moveable) ==
  LET placed == Placed(h.a, i, span, moveable)
  IN [h |-> [h EXCEPT !.a = placed.a], at |-> placed.at, refused |-> 0, largest |-> 0]

\* A block of a span, in an arena with room or what a compaction makes of one.
TriedIn(h, c, span, moveable) ==
  LET fits == {i \in FreeIn(h.a) : Span(h.a, i) >= span}
  IN IF fits # {} THEN PutIn(h, IF moveable THEN Max(fits) ELSE Min(fits), span, moveable)
     ELSE IF c.largest >= span THEN PutIn(c.h, IndexOf(c.h.a, c.best), span, moveable)
     ELSE [h |-> c.h, at |-> 0, refused |-> span, largest |-> c.largest]
Tried(h, span, moveable, still) ==
  TriedIn(h, Compacted(h, span, still), span, moveable)

\* That, and again in the heap grown: it grows no more, having room or the whole 64 KiB.
Retried(first, span, moveable, still) ==
  LET grown == Grown(first.h, first.largest, span)
  IN IF first.at # 0 \/ grown = first.h THEN first
     ELSE Tried(grown, span, moveable, still)
AllocSpan(h, span, moveable, still) ==
  Retried(Tried(h, span, moveable, still), span, moveable, still)

\* A block for so many bytes, with its header.
Alloc(h, n, moveable, still) ==
  AllocSpan(h, Round(n + (IF moveable THEN 6 ELSE 4)), moveable, still)

\* A handle and a moveable block linked both ways (rehandle).
Linked(h, at, e) ==
  [h EXCEPT !.a = ReplaceAt(@, IndexOf(@, at), NewArena(at, "moveable", e)),
            !.es = PlaceGiven(@, e, at)]

\* A free handle given; of a new table, where that was made.
Given(h) == [h |-> [h EXCEPT !.es[Head(h.spare)].used = TRUE, !.spare = Tail(@)],
             e |-> Head(h.spare), refused |-> 0]
GivenOf(t) ==
  IF t.at = 0 THEN [h |-> t.h, e |-> 0, refused |-> t.refused]
  ELSE Given([t.h EXCEPT !.a = ReplaceAt(@, IndexOf(@, t.at), NewArena(t.at, "kernel", 0)),
                         !.es = @ \o [j \in 1 .. TableSize |-> Unused],
                         !.spare = [j \in 1 .. TableSize |-> Len(t.h.es) + j]])

\* A free handle, of a new table if there is none (handle); nought for no room.
NewHandle(h, still) ==
  IF h.spare # <<>> THEN Given(h)
  ELSE GivenOf(Alloc(h, (TableSize + 1) * 4, FALSE, still))

\* A handle given back.
HandleFreed(h, e) == [h EXCEPT !.es[e] = Unused, !.spare = <<e>> \o @]

-----------------------------------------------------------------------------
(* The functions.                                                          *)

Become(h, refusal) ==
  /\ arenas' = h.a /\ entries' = h.es /\ spare' = h.spare /\ size' = h.size
  /\ refused' = refusal

\* What a program holds: handles, and the addresses of fixed blocks.
Handle(e) == [on |-> "handle", of |-> e]
Fixed(at) == [on |-> "fixed", of |-> at]
FixedBlocks == {arenas[i].at : i \in {j \in DOMAIN arenas : arenas[j].is = "fixed"}}
Values == {Handle(e) : e \in {d \in DOMAIN entries : entries[d].used}}
          \cup {Fixed(at) : at \in FixedBlocks}

\* With still (LMEM_NOCOMPACT) a refusal promises nothing.
Refusal(span, still) == IF still THEN 0 ELSE span

\* What is so after a block is made, or refused: it is linked, or given up.
Allocated(b, linked, given, still) ==
  Become(IF b.at = 0 THEN given ELSE linked, Refusal(b.refused, still))

LocalAllocFixed(n, still) ==
  /\ n > 0 /\ Cardinality(FixedBlocks) < MaxFixed
  /\ LET b == Alloc(Heap, n, FALSE, still) IN Allocated(b, b.h, b.h, still)

\* A handle's block; of nought bytes, the handle is as of a discarded one.
AllocBlock(handle, n, level, still) ==
  LET b == Alloc(handle.h, n, TRUE, still)
  IN IF handle.e = 0 THEN Become(handle.h, Refusal(handle.refused, still))
     ELSE IF n = 0 THEN Become(handle.h, 0)
     ELSE Allocated(b, [Linked(b.h, b.at, handle.e) EXCEPT !.es[handle.e].level = level],
                    HandleFreed(b.h, handle.e), still)

LocalAllocMoveable(n, level, still) ==
  /\ spare # <<>> \/ Len(entries) + TableSize <= MaxEntries
  /\ AllocBlock(NewHandle(Heap, still), n, level, still)

\* Where the arena of a value is; nought for a discarded block's.
ArenaOf(h, v) == IF v.on = "fixed" THEN v.of
                 ELSE IF h.es[v.of].at = 0 THEN 0 ELSE h.es[v.of].at - 6

WithoutBlock(h, v) ==
  LET at == ArenaOf(h, v)
  IN IF at = 0 THEN h ELSE [h EXCEPT !.a = Freed(@, IndexOf(@, at))]

LocalFree(v) ==
  LET h == WithoutBlock(Heap, v)
  IN Become(IF v.on = "handle" THEN HandleFreed(h, v.of) ELSE h, 0)

Counted(e, count) ==
  /\ entries[e].used /\ entries[e].at # 0
  /\ entries' = [entries EXCEPT ![e].locks = count]
  /\ refused' = 0
  /\ UNCHANGED <<arenas, spare, size>>

\* At its limit a count stays, whatever is locked and unlocked.
LocalLock(e) == Counted(e, Min({CountLimit, entries[e].locks + 1}))
LocalUnlock(e) ==
  LET count == entries[e].locks
  IN Counted(e, IF count \in {0, CountLimit} THEN count ELSE count - 1)

\* LocalReAlloc with LMEM_MODIFY.
LocalModify(e, level) ==
  /\ entries[e].used /\ entries[e].at # 0
  /\ entries' = [entries EXCEPT ![e].level = level]
  /\ refused' = 0
  /\ UNCHANGED <<arenas, spare, size>>

\* A block that ends sooner, what it leaves free, if it is enough.
Shortened(a, i, end) ==
  IF end + 16 > Highest \/ end + 16 >= a[i + 1].at THEN a
  ELSE IF a[i + 1].is = "free" THEN ReplaceAt(a, i + 1, NewArena(end, "free", 0))
  ELSE InsertAt(a, i + 1, NewArena(end, "free", 0))

\* A block moved to a new one (move_to), once that is made: the old one freed, unless
\* it was itself discarded to make room: then nobody has the new one.
MovedTo(b, v) ==
  IF ArenaOf(b.h, v) = 0
  THEN [b.h EXCEPT !.a = ReplaceAt(@, IndexOf(@, b.at), NewArena(b.at, "lost", 0))]
  ELSE IF v.on = "handle" THEN Linked(WithoutBlock(b.h, v), b.at, v.of)
  ELSE WithoutBlock(b.h, v)

\* A block that a value has, or had, made anew for so many bytes.
Anew(v, n, still, moves) ==
  LET b == Alloc(Heap, n, v.on = "handle", still)
  IN Allocated(b, IF moves THEN MovedTo(b, v) ELSE Linked(b.h, b.at, v.of), b.h, still)

\* LocalReAlloc (realloc), with LMEM_MOVEABLE or without: of a discarded block, of
\* nought bytes, in place, or to a new block.
LocalReAlloc(v, n, flag, still) ==
  LET handle == v.on = "handle"
      locked == handle /\ entries[v.of].locks > 0
      i == IndexOf(arenas, ArenaOf(Heap, v))
      end == Round(arenas[i].at + (IF handle THEN 6 ELSE 4) + Max({n, 10}))
      takes == arenas[i + 1].is = "free" /\ end <= arenas[i + 2].at
      As(a) == Become([Heap EXCEPT !.a = a], 0)
  IN IF ArenaOf(Heap, v) = 0 THEN Anew(v, n, still, FALSE)
     ELSE IF n = 0
     THEN /\ flag /\ ~locked
          /\ Become(IF handle THEN [WithoutBlock(Heap, v) EXCEPT !.es[v.of].at = 0]
                              ELSE WithoutBlock(Heap, v), 0)
     ELSE IF end <= arenas[i + 1].at THEN As(Shortened(arenas, i, end))
     ELSE IF takes THEN As(Shortened(RemoveAt(arenas, i + 1), i, end))
     ELSE (flag \/ (handle /\ ~locked)) /\ Anew(v, n, still, TRUE)

LocalCompact(n) == Become(Compacted(Heap, Round(n), FALSE).h, 0)

\* The free arenas with room for a block.
RoomFor(h, k) == {f \in FreeIn(h.a) : Span(h.a, f) >= Span(h.a, k)}

\* What was at arena k is past what is kept; and a block that was put in free arena f
\* first (shrink_into).
Past(h, k) == [h EXCEPT !.a = ReplaceAt(@, k, NewArena(@[k].at, "past", 0))]
PastTo(h, k, f) ==
  LET to == h.a[f].at
      taken == ReplaceAt(Past(h, k).a, f, [h.a[k] EXCEPT !.at = to])
      rest == NewArena(to + Span(h.a, k), "free", 0)
      some == Span(h.a, f) - Span(h.a, k) >= 16
  IN [h EXCEPT !.a = IF some THEN InsertAt(taken, f + 1, rest) ELSE taken,
               !.es = PlaceGiven(@, h.a[k].entry, to)]

\* The heap lowered: to an arena, and whether it goes no lower. An arena below it is
\* taken, a free one, or a moveable one there is room for below, if need be after the
\* heap is compacted again; so far as the span is over the floor (local_shrink).
LoweredTo(h, at, floor) ==
  [h |-> h, at |-> at, ended |-> at + 10 - h.a[1].at <= floor]
LoweredBlock(l, h, at, floor) ==
  LET k == IndexOf(h.a, at)
  IN IF RoomFor(h, k) = {} THEN [l EXCEPT !.h = h, !.ended = TRUE]
     ELSE LoweredTo(PastTo(h, k, Max(RoomFor(h, k))), at, floor)
Lowered(l, floor) ==
  LET j == IndexOf(l.h.a, l.at) - 1
      at == l.h.a[j].at
      roomy == RoomFor(l.h, j) # {}
  IN IF l.ended THEN l
     ELSE IF l.h.a[j].is = "free" THEN LoweredTo(Past(l.h, j), at, floor)
     ELSE IF ~MayMove(l.h.a, l.h.es, j) THEN [l EXCEPT !.ended = TRUE]
     ELSE LoweredBlock(l, IF roomy THEN l.h ELSE Compacted(l.h, Highest - 3, FALSE).h, at, floor)

\* The heap lowered so many times: by twelve bytes each time, or more.
Lowering(h, floor) ==
  LET after[k \in Nat] ==
        IF k = 0 THEN [h |-> h, at |-> Last(h.a).at, ended |-> FALSE]
        ELSE Lowered(after[k - 1], floor)
  IN after

\* The heap ended there (cut), with a free arena below its end where the span it may
\* keep has room.
CutAt(h, at, floor) ==
  LET span == at + 10 - h.a[1].at
      kept == SubSeq(h.a, 1, IndexOf(h.a, at) - 1)
      roomy == span <= floor /\ floor - span > 16
      last == IF roomy THEN at + Round(floor - span) ELSE at
      end == <<NewArena(last, "kernel", 0)>>
  IN IF at = Last(h.a).at THEN h
     ELSE [h EXCEPT !.a = kept \o (IF roomy THEN <<NewArena(at, "free", 0)>> ELSE <<>>) \o end,
                    !.size = Min({Highest + 1, UpTo(last + 10, 32)})]

\* A compacted heap lowered to a floor, and cut there.
LoweredAll(h, floor) == Lowering(h, floor)[Whole(h.a) \div 12]
CutDown(low, floor) == CutAt(low.h, low.at, floor)

LocalShrink(wanted) ==
  LET floor == Max({wanted, InitialSpan})
      h == IF Whole(arenas) <= floor THEN Heap
           ELSE CutDown(LoweredAll(Compacted(Heap, Highest - 3, FALSE).h, floor), floor)
  IN Become(Compacted(h, Highest - 3, FALSE).h, 0)

HeapNext ==
  \/ \E n \in Requests, still \in BOOLEAN :
       \/ LocalAllocFixed(n, still)
       \/ \E level \in Levels : LocalAllocMoveable(n, level, still)
       \/ \E v \in Values, flag \in BOOLEAN : LocalReAlloc(v, n, flag, still)
  \/ \E v \in Values : LocalFree(v)
  \/ \E e \in DOMAIN entries :
       LocalLock(e) \/ LocalUnlock(e) \/ \E level \in Levels : LocalModify(e, level)
  \/ \E n \in Requests : LocalCompact(n) \/ LocalShrink(InitialSpan + n)

HeapSpec == HeapInit /\ [][HeapNext]_heapVars

-----------------------------------------------------------------------------
(* Properties.                                                             *)

\* However blocks are moved, each handle has the place of its block and the block its
\* handle, and none is of two (local.rs: slide, fit, shrink_into, move_to).
HandlesAgree ==
  /\ \A e \in DOMAIN entries :
       entries[e].at # 0 =>
         \E i \in DOMAIN arenas :
           arenas[i] = NewArena(entries[e].at - 6, "moveable", e)
  /\ \A i \in DOMAIN arenas :
       arenas[i].is = "moveable" =>
         /\ arenas[i].entry \in DOMAIN entries
         /\ entries[arenas[i].entry].used
         /\ entries[arenas[i].entry].at = arenas[i].at + 6

\* Free arenas are joined (free_arena, join): of a heap with no two side by side only
\* LocalShrink makes one that has, where it leaves some of what it took free (cut).
Apart(a) == \A i \in 1 .. Len(a) - 1 : ~(a[i].is = "free" /\ a[i + 1].is = "free")
FreeJoined ==
  [][Apart(arenas) /\ ~Apart(arenas')
       => \E n \in Requests : LocalShrink(InitialSpan + n)]_heapVars

\* Room is refused only where the heap is compacted and has none: no free arena is as
\* large, nothing that may be discarded is left, if there was any free arena at all
\* (compact), and none has a block below it that may be moved, if no two were side by
\* side: of those the upper is walked past before the lower is filled to its top.
RefusedWhenFull ==
  [][refused' # 0 =>
       \A i \in FreeIn(arenas') :
         /\ Span(arenas', i) < refused'
         /\ Apart(arenas) => ~MayMove(arenas', entries', i - 1)
         /\ \A e \in DOMAIN entries' : ~Discardable(entries'[e])]_heapVars

\* A block that is fixed, or locked, stays where it is and is never discarded, but by a
\* call made for it (MayMove's lock count, looked at in each step of a compaction).
ReAllocates(v) == \E n \in Requests, flag, still \in BOOLEAN : LocalReAlloc(v, n, flag, still)
LockedStays ==
  [][/\ \A e \in DOMAIN entries :
          entries[e].locks > 0 /\ entries'[e].at # entries[e].at
            => LocalFree(Handle(e)) \/ ReAllocates(Handle(e))
     /\ \A at \in FixedBlocks :
          ~Contains(arenas', NewArena(at, "fixed", 0))
            => LocalFree(Fixed(at)) \/ ReAllocates(Fixed(at))]_heapVars

\* A block is discarded only after those of higher levels (compact, "the highest level
\* first"), but by a call made for it.
HighestFirst ==
  [][\A e, d \in DOMAIN entries :
       /\ Discardable(entries[e]) /\ entries'[e].at = 0 /\ entries'[e].used
       /\ Discardable(entries[d]) /\ entries[d].level > entries[e].level
       => entries'[d].at = 0 \/ ReAllocates(Handle(e))]_heapVars

\* A block is moved, or discarded, for another's sake only as its program allowed.
AsAllowed == LockedStays /\ HighestFirst
=============================================================================
