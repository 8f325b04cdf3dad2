---------------------------- MODULE HeapProofs ----------------------------
(***************************************************************************)
(* Theorems about a local heap, for any segment, layout, tables, lock      *)
(* limit, requests and levels. Each call is shown to lead to a heap that   *)
(* is laid out and agrees with its handles, and to touch what others hold  *)
(* only as their programs allowed (Leads, and LeadsBar of a call for a     *)
(* value); so is each step (HeapStep).                                     *)
(***************************************************************************)
EXTENDS HeapLemmas

-----------------------------------------------------------------------------
(* The segment grown.                                                      *)

\* Pages are apart by a page.
LEMMA Pages ==
  ASSUME NEW x \in Int, NEW y \in Int, x % 32 = 0, y % 32 = 0, x < y
  PROVE  x + 32 <= y
OBVIOUS

\* A number down to four.
LEMMA DownToFour ==
  ASSUME NEW n \in Nat
  PROVE  (n \div 4) * 4 \in Nat /\ (n \div 4) * 4 <= n /\ n <= (n \div 4) * 4 + 3
         /\ Quad((n \div 4) * 4)
BY DEF Quad

\* How large a segment grows, and where its heap then ends: a page on, or more.
GrownSize(n, span) ==
  Min({Highest + 1, UpTo(Min({(n + span + 24) + 512, Highest - 15}), 32)})
GrownLast(n, span) == ((Min({GrownSize(n, span), Highest}) - 10) \div 4) * 4
GrowsTo(at, to, last) ==
  /\ to \in Nat /\ to <= Highest + 1 /\ to % 32 = 0
  /\ last \in Nat /\ Quad(last) /\ last + 10 <= to /\ at + 12 <= last /\ last <= Highest

\* Ten under the end of what is grown.
LEMMA Under10 ==
  ASSUME NEW n \in Nat, NEW t \in Nat, NEW to \in Nat, t <= to, t <= Highest, n + 31 <= t
  PROVE  t - 10 \in Nat /\ (t - 10) + 10 <= to /\ t - 10 <= Highest /\ n + 21 <= t - 10
BY HighestIs

\* Where a segment that is grown ends, and its last arena is.
LEMMA GrownTo ==
  ASSUME NEW n \in Nat, n % 32 = 0, n <= Highest, NEW span \in Nat, NEW at \in Nat, at + 10 <= n
  PROVE  GrowsTo(at, GrownSize(n, span), GrownLast(n, span))
<1> DEFINE to == GrownSize(n, span)
           last == GrownLast(n, span)
           want == (n + span + 24) + 512
           m == Min({want, Highest - 15})
           u == UpTo(m, 32)
           t == Min({to, Highest})
<1>1. Highest \in Nat /\ Highest >= 1000 /\ (Highest + 1) % 32 = 0 /\ (Highest - 15) % 32 = 16
  BY HighestIs
<1>2. want \in Int /\ want >= n + 536 /\ Highest - 15 \in Int
  BY <1>1
<1> HIDE DEF want
<1>3. m = IF want <= Highest - 15 THEN want ELSE Highest - 15
  BY <1>2, Lesser
<1>4. m \in Nat /\ m <= Highest - 15
  <2> HIDE DEF m
  <2> QED BY <1>1, <1>2, <1>3
<1> HIDE DEF m
<1>5. u \in Nat /\ m <= u /\ u <= m + 31 /\ u % 32 = 0
  BY <1>4, UpToPage
<1>6. to = Min({Highest + 1, u})
  BY DEF GrownSize, u, m, want
<1> HIDE DEF u, to
<1>7. to = IF Highest + 1 <= u THEN Highest + 1 ELSE u
  <2>1. Highest + 1 \in Int /\ u \in Int
    BY <1>1, <1>5
  <2> QED BY <1>6, <2>1, Lesser
<1>8. n + 32 <= Highest + 1
  <2>1. n < Highest + 1 /\ Highest + 1 \in Int
    BY <1>1
  <2> QED BY <1>1, <2>1, Pages
<1>9. to \in Nat /\ to <= Highest + 1 /\ to % 32 = 0
  BY <1>1, <1>5, <1>7
<1>10. to >= n + 32
  <2>1. CASE want <= Highest - 15
    BY <1>1, <1>2, <1>3, <1>5, <1>7, <1>8, <2>1
  <2>2. CASE ~ (want <= Highest - 15)
    <3>1. m = Highest - 15
      BY <1>3, <2>2
    <3>2. ~ (u < Highest + 1)
      <4> SUFFICES ASSUME u < Highest + 1 PROVE FALSE
        OBVIOUS
      <4>1. u + 32 <= Highest + 1
        <5>1. Highest + 1 \in Int
          BY <1>1
        <5> QED BY <1>1, <1>5, <5>1, Pages
      <4> QED BY <1>1, <1>5, <3>1, <4>1
    <3>3. to = Highest + 1
      BY <1>1, <1>5, <1>7, <3>2
    <3> QED BY <1>8, <3>3
  <2> QED BY <2>1, <2>2
<1>11. t = IF to <= Highest THEN to ELSE Highest
  BY <1>1, <1>9, Lesser
<1> HIDE DEF t
<1> DEFINE l == t - 10
<1>12. t \in Nat /\ t <= to /\ t <= Highest /\ t >= n + 31
  BY <1>1, <1>8, <1>9, <1>10, <1>11
<1>13. l \in Nat /\ l + 10 <= to /\ l <= Highest /\ n + 21 <= l
  <2>1. t \in Nat /\ to \in Nat /\ t <= to /\ t <= Highest /\ n + 31 <= t
    BY <1>9, <1>12
  <2> HIDE DEF to
  <2> QED BY <2>1, Under10
<1>14. last = (l \div 4) * 4
  BY DEF GrownLast, to, t
<1> HIDE DEF l, last
<1>15. last \in Nat /\ last <= l /\ l <= last + 3 /\ Quad(last)
  BY <1>13, <1>14, DownToFour
<1>16. /\ to \in Nat /\ to <= Highest + 1 /\ to % 32 = 0
       /\ last \in Nat /\ Quad(last) /\ last + 10 <= to /\ at + 12 <= last
       /\ last <= Highest
  BY <1>1, <1>9, <1>13, <1>15
<1> QED BY <1>16 DEF GrowsTo, to, last

\* A last arena of KERNEL's added, with the one before it.
Extends(a, x, b) ==
  /\ Laid(b) /\ Last(b) = x /\ Len(b) = Len(a) + 1 /\ b[Len(a)] = Last(a)
  /\ Used(b) = Used(a) \cup {x}
  /\ Apart(a) => Apart(b)

\* A last arena put behind a row.
LEMMA ExtendKeeps ==
  ASSUME NEW a, Laid(a), NEW x \in Arena, Quad(x.at), x.is = "kernel", Last(a).at + 12 <= x.at,
         NEW b, b = Append(a, x)
  PROVE  Extends(a, x, b)
<1> DEFINE n == Len(a)
<1>1. /\ a \in Seq(Arena) /\ n \in Nat /\ n >= 3 /\ Last(a) = a[n] /\ DOMAIN a = 1 .. n
      /\ a[n].is = "kernel"
  BY LaidIs DEF Laid
<1>2. /\ b \in Seq(Arena) /\ Len(b) = n + 1 /\ DOMAIN b = 1 .. n + 1
      /\ (\A j \in 1 .. n : b[j] = a[j]) /\ b[n + 1] = x
  BY <1>1, AppendParts
<1> HIDE DEF n
<1>3. Len(b) >= 3 /\ Last(b) = x
  BY <1>1, <1>2 DEF Last
<1>4. ASSUME NEW i \in 1 .. Len(b)
      PROVE  Quad(b[i].at) /\ (b[i].is = "fixed" => b[i].entry = 0)
  <2>1. CASE i = n + 1
    BY <1>2, <2>1
  <2>2. CASE i # n + 1
    <3>1. i \in 1 .. n
      BY <1>1, <1>2, <2>2
    <3> QED BY <1>2, <3>1 DEF Laid, n
  <2> QED BY <2>1, <2>2
<1>5. ASSUME NEW i \in 1 .. Len(b) - 1
      PROVE  /\ b[i].at + 12 <= b[i + 1].at
             /\ Apart(a) => ~ (b[i].is = "free" /\ b[i + 1].is = "free")
  <2>1. CASE i = n
    <3>1. b[i] = a[n] /\ b[i + 1] = x
      BY <1>1, <1>2, <2>1
    <3> QED BY <1>1, <3>1
  <2>2. CASE i # n
    <3>1. i \in 1 .. n - 1 /\ i \in 1 .. n /\ i + 1 \in 1 .. n
      BY <1>1, <1>2, <2>2
    <3>2. b[i] = a[i] /\ b[i + 1] = a[i + 1]
      BY <1>2, <3>1
    <3> QED BY <3>1, <3>2 DEF Laid, Apart, n
  <2> QED BY <2>1, <2>2
<1>6. b[1] = a[1] /\ b[2] = a[2] /\ b[n] = a[n]
  <2>1. 1 \in 1 .. n /\ 2 \in 1 .. n /\ n \in 1 .. n
    BY <1>1
  <2> QED BY <1>2, <2>1
<1>7. Laid(b)
  BY <1>2, <1>3, <1>4, <1>5, <1>6 DEF Laid, Last
<1>8. Apart(a) => Apart(b)
  BY <1>5 DEF Apart
<1>9. ToSet(b) = ToSet(a) \cup {x}
  <2>1. ToSet(b) = {b[i] : i \in 1 .. n + 1} /\ ToSet(a) = {a[i] : i \in 1 .. n}
    BY <1>1, <1>2 DEF ToSet
  <2>2. \A i \in 1 .. n + 1 : i \in 1 .. n \/ i = n + 1
    BY <1>1
  <2>3. n + 1 \in 1 .. n + 1 /\ \A i \in 1 .. n : i \in 1 .. n + 1
    BY <1>1
  <2> QED BY <1>2, <2>1, <2>2, <2>3
<1>10. Used(b) = Used(a) \cup {x}
  BY <1>9 DEF Used
<1> QED BY <1>1, <1>2, <1>3, <1>6, <1>7, <1>8, <1>10 DEF n, Extends

\* Fixed blocks; and that there is nothing past a heap's end in it.
Fixes(a) == {x \in Used(a) : x.is = "fixed"}
NoPast(a) == \A x \in Used(a) : x.is # "past"

\* What making a block may do to a heap, but for the block.
Makes(h, g, X) ==
  /\ Good(g) /\ g.spare = h.spare /\ Fixes(g.a) = Fixes(h.a) \cup X
  /\ NoPast(h.a) => NoPast(g.a)
  /\ Spared(h.es, g.es)
  /\ Apart(h.a) => Apart(g.a)

\* A heap compacted, with no block made.
LEMMA ComesMakes ==
  ASSUME NEW h, NEW g, Comes(h, g)
  PROVE  Makes(h, g, {})
<1>1. Solid(g.a) = Solid(h.a)
  BY DEF Comes
<1>2. \A a : Fixes(a) = {x \in Solid(a) : x.is = "fixed"}
  BY DEF Fixes, Solid
<1>3. \A a : NoPast(a) <=> \A x \in Solid(a) : x.is # "past"
  BY DEF NoPast, Solid
<1>4. Fixes(g.a) = Fixes(h.a) \cup {}
  BY <1>1, <1>2
<1>5. NoPast(h.a) => NoPast(g.a)
  BY <1>1, <1>3
<1> QED BY <1>4, <1>5 DEF Makes, Comes

\* A heap compacted and then a block made in it.
LEMMA MakesOn ==
  ASSUME NEW h, Good(h), NEW g, NEW k, NEW X, Makes(h, g, {}), Makes(g, k, X)
  PROVE  Makes(h, k, X)
<1>1. h.es \in Seq(HandleEntry) /\ Spared(h.es, g.es) /\ Spared(g.es, k.es)
  BY DEF Good, Makes
<1>2. Spared(h.es, k.es)
  BY <1>1, SparedTwice
<1>3. Fixes(k.a) = Fixes(h.a) \cup X
  BY DEF Makes
<1> QED BY <1>2, <1>3 DEF Makes

\* Handles left as they are.
LEMMA SparedSelf ==
  ASSUME NEW es \in Seq(HandleEntry)
  PROVE  Spared(es, es)
BY DEF Spared, Alike, Gone

\* The segment grown.
LEMMA GrownIs ==
  ASSUME NEW h, Good(h), NEW largest, NEW span \in Nat, NEW g, g = Grown(h, largest, span)
  PROVE  Makes(h, g, {})
<1> DEFINE short == h.size + span + 24
           to == GrownSize(h.size, span)
           last == GrownLast(h.size, span)
           x == NewArena(last, "kernel", 0)
           b == Append(h.a, x)
           c == Freed(b, Len(h.a))
           grows == /\ Growable /\ h.size <= Highest /\ short - largest <= Highest
                    /\ last > Last(h.a).at
<1>0. Laid(h.a) /\ Sized(Last(h.a), h.size) /\ IsHeap(h) /\ h.es \in Seq(HandleEntry)
      /\ Agree(Used(h.a), h.es)
  BY DEF Good
<1>1. CASE ~grows
  <2>1. g = h
    BY <1>1 DEF Grown, GrownSize, GrownLast
  <2>2. Spared(h.es, h.es)
    BY <1>0, SparedSelf
  <2> QED BY <2>1, <2>2 DEF Makes
<1>2. CASE grows
  <2>1. g = [h EXCEPT !.a = c, !.size = to]
    BY <1>2 DEF Grown, GrownSize, GrownLast
  <2>2. /\ h.size \in Nat /\ h.size % 32 = 0 /\ h.size <= Highest /\ Last(h.a).at \in Nat
        /\ Last(h.a).at + 10 <= h.size
    <3>1. Len(h.a) \in 1 .. Len(h.a) /\ Last(h.a) = h.a[Len(h.a)]
      BY <1>0, LaidIs
    <3> QED BY <1>0, <1>2, <3>1, LaidIs DEF Sized
  <2>5. /\ to \in Nat /\ to <= Highest + 1 /\ to % 32 = 0
        /\ last \in Nat /\ Quad(last) /\ last + 10 <= to /\ Last(h.a).at + 12 <= last
        /\ last <= Highest
    <3> DEFINE n == h.size
               at == Last(h.a).at
    <3>1. n \in Nat /\ n % 32 = 0 /\ n <= Highest /\ at \in Nat /\ at + 10 <= n
      BY <2>2
    <3> HIDE DEF n, at
    <3>2. GrowsTo(at, GrownSize(n, span), GrownLast(n, span))
      BY <3>1, GrownTo
    <3> QED BY <3>2 DEF n, at, GrowsTo
  <2> HIDE DEF to, short, last
  <2>6. x \in Arena /\ x.at = last /\ x.is = "kernel"
    <3>1. "kernel" \in Kinds
      BY DEF Kinds
    <3> QED BY <2>5, <3>1, NewArenaIs, FieldsAre
  <2> HIDE DEF x
  <2>7. b = Append(h.a, x)
    OBVIOUS
  <2> HIDE DEF b
  <2>8. /\ Laid(b) /\ Last(b) = x /\ Len(b) = Len(h.a) + 1 /\ b[Len(h.a)] = Last(h.a)
        /\ Used(b) = Used(h.a) \cup {x}
        /\ Apart(h.a) => Apart(b)
    <3> DEFINE a == h.a
    <3>1. Laid(a) /\ x \in Arena /\ Quad(x.at) /\ x.is = "kernel" /\ Last(a).at + 12 <= x.at
          /\ b = Append(a, x)
      BY <1>0, <2>5, <2>6, <2>7
    <3> HIDE DEF a
    <3>2. Extends(a, x, b)
      BY <3>1, ExtendKeeps
    <3> QED BY <3>2 DEF Extends, a
  <2>9. Last(h.a).is = "kernel" /\ Len(h.a) \in 3 .. Len(b) - 1
    <3>1. Last(h.a) = h.a[Len(h.a)] /\ Len(h.a) \in Nat /\ Len(h.a) >= 3
      BY <1>0, LaidIs
    <3>2. h.a[Len(h.a)].is = "kernel"
      BY <1>0 DEF Laid
    <3> DEFINE la == Len(h.a)
               lb == Len(b)
    <3>3. la \in Nat /\ la >= 3 /\ lb = la + 1
      BY <2>8, <3>1
    <3> HIDE DEF la, lb
    <3>4. la \in 3 .. lb - 1
      BY <3>3
    <3> QED BY <3>1, <3>2, <3>4 DEF la, lb
  <2> DEFINE i == Len(h.a)
  <2>10. c = Freed(b, i) /\ i \in 3 .. Len(b) - 1 /\ b[i].is # "free"
    BY <2>8, <2>9
  <2> HIDE DEF c, i
  <2>11. /\ Laid(c) /\ Last(c) = Last(b) /\ Used(c) = Used(b) \ {b[i]}
         /\ Apart(b) => Apart(c)
    BY <2>8, <2>10, FreedKeeps
  <2>12. Used(c) = (Used(h.a) \cup {x}) \ {Last(h.a)} /\ Last(c) = x
    BY <2>8, <2>11 DEF i
  <2>13. \A k : k \notin {"kernel"} =>
           \A y : y.is = k => (y \in Used(c) <=> y \in Used(h.a))
    BY <2>6, <2>9, <2>12
  <2>14. Fixes(c) = Fixes(h.a) \cup {} /\ (NoPast(h.a) => NoPast(c))
    BY <2>13 DEF Fixes, NoPast
  <2>15. Agree(Used(c), h.es)
    <3>1. \A y : y.is = "moveable" => (y \in Used(h.a) <=> y \in Used(c))
      BY <2>13
    <3> QED BY <1>0, <3>1, AgreeOther
  <2>16. Sized(Last(c), to)
    BY <2>5, <2>6, <2>12 DEF Sized
  <2> DEFINE k == HeapOf(c, h.es, h.spare, to)
  <2>17. g = k
    <3> DEFINE es == h.es
               sp == h.spare
               n == h.size
               a == h.a
               v == HeapOf(a, es, sp, n)
               u == HeapOf(c, es, sp, n)
    <3>1. h = v
      BY <1>0 DEF IsHeap
    <3> HIDE DEF es, sp, n, a
    <3>2. [h EXCEPT !.a = c] = u
      BY <3>1 DEF HeapOf
    <3>3. [u EXCEPT !.size = to] = HeapOf(c, es, sp, to)
      BY DEF HeapOf
    <3> HIDE DEF v, u
    <3>4. [h EXCEPT !.a = c, !.size = to] = [[h EXCEPT !.a = c] EXCEPT !.size = to]
      OBVIOUS
    <3> QED BY <2>1, <3>2, <3>3, <3>4 DEF es, sp
  <2>18. IsHeap(k) /\ k.a = c /\ k.es = h.es /\ k.spare = h.spare /\ k.size = to
    BY HeapOfIs
  <2> HIDE DEF k
  <2>19. Good(k)
    BY <2>11, <2>15, <2>16, <2>18 DEF Good
  <2>20. Spared(h.es, k.es)
    BY <1>0, <2>18, SparedSelf
  <2> QED BY <2>8, <2>11, <2>14, <2>17, <2>18, <2>19, <2>20 DEF Makes
<1> QED BY <1>1, <1>2

-----------------------------------------------------------------------------
(* Blocks made.                                                            *)
\* The least and the greatest of some numbers.
LEMMA ExtremesIn ==
  ASSUME NEW F, F \subseteq Nat, F # {}, NEW n \in Nat, \A k \in F : k <= n
  PROVE  Max(F) \in F /\ Min(F) \in F
<1>1. Min(F) \in F
  <2>1. \E x \in F : \A y \in F : x <= y
    BY Least
  <2> QED BY <2>1 DEF Min
<1>2. Max(F) \in F
  <2> DEFINE T == {n - k : k \in F}
  <2>1. T \subseteq Nat /\ T # {}
    <3>1. \A k \in F : n - k \in Nat
      OBVIOUS
    <3> QED BY <3>1
  <2> HIDE DEF T
  <2>2. PICK t \in T : \A u \in T : t <= u
    BY <2>1, Least
  <2>3. PICK l \in F : t = n - l
    BY DEF T
  <2>4. ASSUME NEW k \in F PROVE l >= k
    <3>1. t <= n - k
      BY <2>2 DEF T
    <3> QED BY <2>3, <3>1
  <2>5. \E x \in F : \A y \in F : x >= y
    BY <2>4
  <2> QED BY <2>5 DEF Max
<1> QED BY <1>1, <1>2

\* A block made.
Got(h, b) ==
  /\ b.at \in Nat /\ b.at # 0 /\ b.at + 12 <= Highest /\ b.refused = 0
  /\ Makes(h, b.h, {NewArena(b.at, "fixed", 0)})
  /\ NewArena(b.at, "fixed", 0) \notin Fixes(h.a)

\* A heap that has no room for a span; where no two free arenas were side by side, none
\* is over a block that may be moved.
Full(g, span, still, apart) ==
  /\ \A f \in FreeIn(g.a) : Span(g.a, f) < span
  /\ ~still => /\ apart => NoneBelow(g.a, g.es, 1)
               /\ FreeIn(g.a) # {} => None(g.es)

\* A block refused.
Refuses(h, b, span, still) ==
  /\ b.at = 0 /\ b.refused = span
  /\ Makes(h, b.h, {}) /\ Full(b.h, span, still, Apart(h.a))

\* A block made in a heap that was compacted or grown.
LEMMA GotOn ==
  ASSUME NEW h, Good(h), NEW g, Makes(h, g, {}), NEW b, Got(g, b)
  PROVE  Got(h, b)
<1>1. Makes(g, b.h, {NewArena(b.at, "fixed", 0)})
  BY DEF Got
<1>2. Makes(h, b.h, {NewArena(b.at, "fixed", 0)})
  BY <1>1, MakesOn
<1>3. Fixes(g.a) = Fixes(h.a) \cup {}
  BY DEF Makes
<1>4. NewArena(b.at, "fixed", 0) \notin Fixes(h.a)
  BY <1>3 DEF Got
<1> QED BY <1>2, <1>4 DEF Got

\* A block refused in a heap that was compacted or grown.
LEMMA RefusesOn ==
  ASSUME NEW h, Good(h), NEW g, Makes(h, g, {}), NEW b, NEW span, NEW still,
         Refuses(g, b, span, still)
  PROVE  Refuses(h, b, span, still)
<1>1. Makes(g, b.h, {})
  BY DEF Refuses
<1>2. Makes(h, b.h, {})
  BY <1>1, MakesOn
<1>3. Apart(h.a) => Apart(g.a)
  BY DEF Makes
<1>4. Full(b.h, span, still, Apart(h.a))
  BY <1>3 DEF Full, Refuses
<1> QED BY <1>2, <1>4 DEF Refuses

\* A block put in a free arena.
LEMMA PutInIs ==
  ASSUME NEW h, Good(h), NEW i \in FreeIn(h.a), NEW span \in Nat, span >= 12, Quad(span),
         span <= Span(h.a, i), NEW moveable \in BOOLEAN
  PROVE  Got(h, PutIn(h, i, span, moveable))
<1> DEFINE a == h.a
           p == Placed(a, i, span, moveable)
           at == p.at
           x == NewArena(at, "fixed", 0)
           g == HeapOf(p.a, h.es, h.spare, h.size)
           b == PutIn(h, i, span, moveable)
<1>1. /\ IsHeap(h) /\ Laid(a) /\ Sized(Last(a), h.size) /\ h.es \in Seq(HandleEntry)
      /\ Spares(h.es, h.spare) /\ Blank(h.es) /\ Agree(Used(a), h.es)
  BY DEF Good
<1>2. /\ Laid(p.a) /\ Last(p.a) = Last(a)
      /\ at \in Nat /\ at >= 12 /\ at + 12 <= Last(a).at
      /\ Used(p.a) = Used(a) \cup {x}
      /\ \A y \in Used(a) : y.at # at
      /\ Apart(a) => Apart(p.a)
  BY <1>1, PlacedIs
<1>3. b = [h |-> [h EXCEPT !.a = p.a], at |-> at, refused |-> 0, largest |-> 0]
  BY DEF PutIn
<1> HIDE DEF p
<1>4. [h EXCEPT !.a = p.a] = g
  BY <1>1, ChangedIs
<1> HIDE DEF b
<1>5. b.h = g /\ b.at = at /\ b.refused = 0
  BY <1>3, <1>4
<1>6. g.a = p.a /\ g.es = h.es /\ g.spare = h.spare /\ g.size = h.size /\ IsHeap(g)
  BY HeapOfIs
<1> HIDE DEF g
<1>7. x.at = at /\ x.is = "fixed"
  BY FieldsAre
<1> HIDE DEF x
<1>8. Agree(Used(p.a), h.es)
  <2>1. \A y : y.is = "moveable" => (y \in Used(a) <=> y \in Used(p.a))
    BY <1>2, <1>7
  <2> QED BY <1>1, <2>1, AgreeOther
<1>9. Good(g)
  BY <1>1, <1>2, <1>6, <1>8 DEF Good
<1>10. Fixes(p.a) = Fixes(a) \cup {x} /\ (NoPast(a) => NoPast(p.a))
  BY <1>2, <1>7 DEF Fixes, NoPast
<1>11. x \notin Fixes(a)
  BY <1>2, <1>7 DEF Fixes
<1>12. Spared(h.es, g.es)
  BY <1>1, <1>6, SparedSelf
<1>13. Makes(h, g, {x})
  BY <1>2, <1>6, <1>9, <1>10, <1>12 DEF Makes
<1>14. at # 0 /\ at + 12 <= Highest
  <2>1. Last(a).at <= Highest /\ Last(a).at \in Nat
    BY <1>1, PutAround
  <2> DEFINE top == Last(a).at
  <2>2. at \in Nat /\ at >= 12 /\ at + 12 <= top /\ top <= Highest /\ top \in Nat /\ Highest \in Nat
    BY <1>2, <2>1, HighestIs
  <2> HIDE DEF top, at
  <2> QED BY <2>2
<1>15. at \in Nat
  BY <1>2
<1> HIDE DEF at
<1>16. x = NewArena(b.at, "fixed", 0)
  BY <1>5 DEF x
<1> QED BY <1>5, <1>11, <1>13, <1>14, <1>15, <1>16 DEF Got, b

\* A block made at the first try, or refused.
LEMMA TriedIs ==
  ASSUME NEW h, Good(h), NEW span \in Nat, span >= 12, Quad(span), NEW moveable \in BOOLEAN,
         NEW still \in BOOLEAN
  PROVE  \/ Got(h, Tried(h, span, moveable, still))
         \/ Refuses(h, Tried(h, span, moveable, still), span, still)
<1> DEFINE fits == {i \in FreeIn(h.a) : Span(h.a, i) >= span}
           c == Compacted(h, span, still)
           b == Tried(h, span, moveable, still)
           m == IF moveable THEN Max(fits) ELSE Min(fits)
           k == IndexOf(c.h.a, c.best)
<1>1. b = IF fits # {} THEN PutIn(h, m, span, moveable)
          ELSE IF c.largest >= span THEN PutIn(c.h, k, span, moveable)
          ELSE [h |-> c.h, at |-> 0, refused |-> span, largest |-> c.largest]
  BY DEF Tried, TriedIn
<1>2. Laid(h.a)
  BY DEF Good
<1> HIDE DEF b
<1>3. CASE fits # {}
  <2>1. Len(h.a) \in Nat /\ FreeIn(h.a) \subseteq 3 .. Len(h.a) - 1
    BY <1>2, LaidIs, FreeAtIs
  <2>2. fits \subseteq Nat /\ \A i \in fits : i <= Len(h.a)
    BY <2>1
  <2> HIDE DEF fits
  <2>3. Max(fits) \in fits /\ Min(fits) \in fits
    BY <1>3, <2>1, <2>2, ExtremesIn
  <2>4. m \in fits
    BY <2>3
  <2> HIDE DEF m
  <2>5. m \in FreeIn(h.a) /\ Span(h.a, m) >= span
    BY <2>4 DEF fits
  <2>6. span <= Span(h.a, m)
    <3>1. /\ h.a[m].at \in Nat /\ h.a[m + 1].at \in Nat
          /\ Span(h.a, m) = h.a[m + 1].at - h.a[m].at
      BY <1>2, <2>5, PutAround
    <3> QED BY <2>5, <3>1
  <2>7. Got(h, PutIn(h, m, span, moveable))
    BY <2>5, <2>6, PutInIs
  <2> QED BY <1>1, <1>3, <2>7 DEF b
<1>4. Compacts(h, span, still, c)
  BY CompactedIs
<1> HIDE DEF c, fits
<1>5. Makes(h, c.h, {}) /\ Good(c.h)
  BY <1>4, ComesMakes DEF Compacts, Comes
<1>6. CASE fits = {} /\ c.largest >= span
  <2>1. c.best # 0 /\ c.largest \in Nat
    BY <1>4, <1>6 DEF Compacts
  <2>2. k \in FreeIn(c.h.a) /\ c.largest = Span(c.h.a, k)
    BY <1>4, <2>1 DEF Compacts
  <2> HIDE DEF k
  <2>3. span <= Span(c.h.a, k)
    BY <1>6, <2>1, <2>2
  <2>4. Got(c.h, PutIn(c.h, k, span, moveable))
    BY <1>5, <2>2, <2>3, PutInIs
  <2>5. Got(h, PutIn(c.h, k, span, moveable))
    BY <1>5, <2>4, GotOn
  <2> QED BY <1>1, <1>6, <2>5 DEF b
<1>7. CASE fits = {} /\ ~ (c.largest >= span)
  <2>1. b = [h |-> c.h, at |-> 0, refused |-> span, largest |-> c.largest]
    BY <1>1, <1>7
  <2>2. b.h = c.h /\ b.at = 0 /\ b.refused = span
    BY <2>1
  <2>3. \A f \in FreeIn(c.h.a) : Span(c.h.a, f) < span
    <3> SUFFICES ASSUME NEW f \in FreeIn(c.h.a) PROVE Span(c.h.a, f) < span
      OBVIOUS
    <3>1. Span(c.h.a, f) <= c.largest /\ c.largest \in Nat
      BY <1>4 DEF Compacts
    <3>2. /\ c.h.a[f].at \in Nat /\ c.h.a[f + 1].at \in Nat
          /\ Span(c.h.a, f) = c.h.a[f + 1].at - c.h.a[f].at
      <4>1. Laid(c.h.a)
        BY <1>5 DEF Good
      <4> QED BY <4>1, PutAround
    <3>3. Span(c.h.a, f) \in Int
      BY <3>2
    <3> QED BY <1>7, <3>1, <3>3
  <2>4. ASSUME ~still PROVE Apart(h.a) => NoneBelow(c.h.a, c.h.es, 1)
    BY <1>4, <2>4 DEF Compacts
  <2>5. ASSUME ~still, FreeIn(c.h.a) # {} PROVE None(c.h.es)
    BY <1>4, <1>7, <2>5 DEF Compacts
  <2>6. Full(c.h, span, still, Apart(h.a))
    BY <2>3, <2>4, <2>5 DEF Full
  <2>7. Refuses(h, b, span, still)
    BY <1>5, <2>2, <2>6 DEF Refuses
  <2> QED BY <2>7 DEF b
<1> QED BY <1>3, <1>6, <1>7

\* A block made, or refused.
LEMMA AllocSpanIs ==
  ASSUME NEW h, Good(h), NEW span \in Nat, span >= 12, Quad(span), NEW moveable \in BOOLEAN,
         NEW still \in BOOLEAN
  PROVE  \/ Got(h, AllocSpan(h, span, moveable, still))
         \/ Refuses(h, AllocSpan(h, span, moveable, still), span, still)
<1> DEFINE p == Tried(h, span, moveable, still)
           g == Grown(p.h, p.largest, span)
           q == Tried(g, span, moveable, still)
<1>1. AllocSpan(h, span, moveable, still) = IF p.at # 0 \/ g = p.h THEN p ELSE q
  BY DEF AllocSpan, Retried
<1>2. Got(h, p) \/ Refuses(h, p, span, still)
  BY TriedIs
<1> HIDE DEF p
<1>3. CASE p.at # 0 \/ g = p.h
  BY <1>1, <1>2, <1>3
<1>4. CASE ~ (p.at # 0 \/ g = p.h)
  <2>1. Makes(h, p.h, {}) /\ Good(p.h)
    BY <1>2, <1>4 DEF Got, Refuses, Makes
  <2>2. Makes(p.h, g, {})
    BY <2>1, GrownIs
  <2> HIDE DEF g
  <2>3. Makes(h, g, {}) /\ Good(g)
    BY <2>1, <2>2, MakesOn DEF Makes
  <2>4. Got(g, q) \/ Refuses(g, q, span, still)
    BY <2>3, TriedIs
  <2> HIDE DEF q
  <2>5. Got(h, q) \/ Refuses(h, q, span, still)
    BY <2>3, <2>4, GotOn, RefusesOn
  <2> QED BY <1>1, <1>4, <2>5
<1> QED BY <1>3, <1>4

\* What alloc answers: a block, or a span refused.
LEMMA AllocIs ==
  ASSUME NEW h, Good(h), NEW n \in Nat, NEW moveable \in BOOLEAN, NEW still \in BOOLEAN
  PROVE  \/ Got(h, Alloc(h, n, moveable, still))
         \/ \E span \in Nat \ {0} : Refuses(h, Alloc(h, n, moveable, still), span, still)
<1> DEFINE m == n + (IF moveable THEN 6 ELSE 4)
           span == Round(m)
<1>1. m \in Nat
  OBVIOUS
<1>2. Alloc(h, n, moveable, still) = AllocSpan(h, span, moveable, still)
  BY DEF Alloc
<1> HIDE DEF m
<1>3. span \in Nat /\ span >= 12 /\ Quad(span)
  BY <1>1, RoundIs
<1> HIDE DEF span
<1>4. \/ Got(h, AllocSpan(h, span, moveable, still))
      \/ Refuses(h, AllocSpan(h, span, moveable, still), span, still)
  BY <1>3, AllocSpanIs
<1>5. span # 0
  BY <1>3
<1> QED BY <1>2, <1>3, <1>4, <1>5

-----------------------------------------------------------------------------
(* Calls: what they may do.                                                *)
\* An arena made one of another kind, where it is.
Retypes(a, x, y, b) ==
  /\ Laid(b) /\ Last(b) = Last(a) /\ Used(b) = (Used(a) \ {x}) \cup {y}
  /\ Apart(a) => Apart(b)

\* An arena that is another block's.
LEMMA Retyped ==
  ASSUME NEW a, Laid(a), NEW x \in Used(a), x.is # "kernel", NEW y \in Arena, y.at = x.at,
         y.is # "free", y.is = "fixed" => y.entry = 0, NEW at, at = x.at
  PROVE  Retypes(a, x, y, ReplaceAt(a, IndexOf(a, at), y))
<1> DEFINE i == IndexOf(a, at)
           b == ReplaceAt(a, i, y)
<1>1. x \in ToSet(a) /\ x.is # "free"
  BY DEF Used
<1>2. i \in 1 .. Len(a) /\ a[i] = x
  BY <1>1, MemberIs
<1>3. a[1].is = "kernel" /\ a[2].is = "kernel" /\ a[Len(a)].is = "kernel" /\ Len(a) \in Nat
  BY LaidIs DEF Laid
<1>4. i # 1 /\ i # 2 /\ i # Len(a)
  BY <1>2, <1>3
<1>5. i \in 3 .. Len(a) - 1 /\ i \in 1 .. Len(a) - 1 /\ i - 1 \in 1 .. Len(a) - 1 /\ (i - 1) + 1 = i
  BY <1>2, <1>3, <1>4
<1>6. b = ReplaceAt(a, i, y)
  OBVIOUS
<1> HIDE DEF i, b
<1>7. a[i].at + 12 <= a[i + 1].at /\ a[i - 1].at + 12 <= a[i].at
  <2>1. a[i].at + 12 <= a[i + 1].at
    BY <1>5, NextIs
  <2>2. a[i - 1].at + 12 <= a[(i - 1) + 1].at
    BY <1>5, NextIs
  <2> QED BY <1>5, <2>1, <2>2
<1>8. a[i - 1].at + 12 <= y.at /\ y.at + 12 <= a[i + 1].at /\ Quad(y.at)
  BY <1>2, <1>7 DEF Laid
<1>9. /\ Laid(b) /\ Last(b) = Last(a)
      /\ Used(b) = (Used(a) \ {a[i]}) \cup {z \in {y} : z.is # "free"}
      /\ Apart(a) /\ (y.is # "free" \/ a[i].is = "free") => Apart(b)
  BY <1>5, <1>6, <1>8, ReplaceKeeps
<1>10. {z \in {y} : z.is # "free"} = {y}
  OBVIOUS
<1> QED BY <1>2, <1>9, <1>10 DEF Retypes, i, b

\* What may become of handles that a program holds, but for one it gives up itself.
Treated(es, fs) ==
  /\ DOMAIN es \subseteq DOMAIN fs
  /\ \A e \in DOMAIN es : es[e].used =>
       /\ fs[e].used /\ fs[e].level = es[e].level /\ fs[e].locks = es[e].locks
       /\ es[e].locks > 0 => fs[e].at = es[e].at
       /\ es[e].at = 0 => fs[e].at = 0
       /\ Gone(es, fs, e) => Discardable(es[e])
  /\ \A e, d \in DOMAIN es :
       es[e].used /\ Gone(es, fs, e) /\ Discardable(es[d]) /\ es[d].level > es[e].level
         => fs[d].at = 0

\* Handles spared are treated as is allowed.
LEMMA SparedTreated ==
  ASSUME NEW es \in Seq(HandleEntry), NEW fs, Spared(es, fs)
  PROVE  Treated(es, fs)
<1>1. Alike(es, fs)
  BY DEF Spared
<1>2. DOMAIN fs = DOMAIN es
  BY <1>1, AlikeDomain
<1>3. \A e \in DOMAIN es :
        fs[e].used = es[e].used /\ fs[e].level = es[e].level /\ fs[e].locks = es[e].locks
  BY <1>1 DEF Alike
<1> QED BY <1>2, <1>3 DEF Treated, Spared

\* Handles treated so twice.
LEMMA TreatedTwice ==
  ASSUME NEW es, NEW fs, NEW gs, Treated(es, fs), Treated(fs, gs)
  PROVE  Treated(es, gs)
<1>1. DOMAIN es \subseteq DOMAIN fs /\ DOMAIN fs \subseteq DOMAIN gs
  BY DEF Treated
<1>2. ASSUME NEW e \in DOMAIN es, es[e].used
      PROVE  /\ fs[e].used /\ fs[e].level = es[e].level /\ fs[e].locks = es[e].locks
             /\ es[e].locks > 0 => fs[e].at = es[e].at
             /\ es[e].at = 0 => fs[e].at = 0
             /\ Gone(es, fs, e) => Discardable(es[e])
  BY <1>2 DEF Treated
<1>3. ASSUME NEW e \in DOMAIN es, es[e].used
      PROVE  /\ gs[e].used /\ gs[e].level = fs[e].level /\ gs[e].locks = fs[e].locks
             /\ fs[e].locks > 0 => gs[e].at = fs[e].at
             /\ fs[e].at = 0 => gs[e].at = 0
             /\ Gone(fs, gs, e) => Discardable(fs[e])
  <2>1. e \in DOMAIN fs /\ fs[e].used
    BY <1>1, <1>2, <1>3
  <2> QED BY <2>1 DEF Treated
<1>4. ASSUME NEW e \in DOMAIN es, es[e].used
      PROVE  Discardable(fs[e]) <=> Discardable(es[e]) /\ fs[e].at # 0
  BY <1>2, <1>4 DEF Discardable
<1>5. ASSUME NEW e \in DOMAIN es, es[e].used
      PROVE  /\ gs[e].used /\ gs[e].level = es[e].level /\ gs[e].locks = es[e].locks
             /\ es[e].locks > 0 => gs[e].at = es[e].at
             /\ es[e].at = 0 => gs[e].at = 0
             /\ Gone(es, gs, e) => Discardable(es[e])
  <2>1. Gone(es, gs, e) => Gone(es, fs, e) \/ Gone(fs, gs, e)
    BY DEF Gone
  <2>2. Gone(es, gs, e) => Discardable(es[e])
    BY <1>2, <1>3, <1>4, <1>5, <2>1
  <2> QED BY <1>2, <1>3, <1>5, <2>2
<1>6. ASSUME NEW e \in DOMAIN es, NEW d \in DOMAIN es, es[e].used, Gone(es, gs, e),
             Discardable(es[d]), es[d].level > es[e].level
      PROVE  gs[d].at = 0
  <2>1. es[d].used
    BY <1>6 DEF Discardable
  <2>2. fs[d].at = 0 => gs[d].at = 0
    BY <1>3, <2>1
  <2>3. CASE Gone(es, fs, e)
    <3>1. fs[d].at = 0
      BY <1>6, <2>3 DEF Treated
    <3> QED BY <2>2, <3>1
  <2>4. CASE ~Gone(es, fs, e) /\ fs[d].at # 0
    <3>1. Gone(fs, gs, e)
      BY <1>6, <2>4 DEF Gone
    <3>2. Discardable(fs[d])
      BY <1>4, <1>6, <2>1, <2>4
    <3>3. fs[d].level > fs[e].level /\ fs[e].used
      BY <1>2, <1>6, <2>1
    <3>4. e \in DOMAIN fs /\ d \in DOMAIN fs
      BY <1>1
    <3> QED BY <3>1, <3>2, <3>3, <3>4 DEF Treated
  <2> QED BY <2>2, <2>3, <2>4
<1> QED BY <1>1, <1>5, <1>6 DEF Treated

\* A handle that was not in use may become anything.
LEMMA TreatedBut ==
  ASSUME NEW es, NEW fs, Treated(es, fs), NEW e, e \in DOMAIN es => ~es[e].used,
         NEW gs, DOMAIN fs \subseteq DOMAIN gs, \A d \in DOMAIN fs : d # e => gs[d] = fs[d]
  PROVE  Treated(es, gs)
<1>1. DOMAIN es \subseteq DOMAIN fs
  BY DEF Treated
<1>2. \A d \in DOMAIN es : es[d].used => gs[d] = fs[d]
  BY <1>1
<1>3. \A d \in DOMAIN es : es[d].used => (Gone(es, gs, d) <=> Gone(es, fs, d))
  BY <1>2 DEF Gone
<1>4. \A d \in DOMAIN es : Discardable(es[d]) => es[d].used
  BY DEF Discardable
<1>5. DOMAIN es \subseteq DOMAIN gs
  BY <1>1
<1>6. ASSUME NEW d \in DOMAIN es, es[d].used
      PROVE  /\ gs[d].used /\ gs[d].level = es[d].level /\ gs[d].locks = es[d].locks
             /\ es[d].locks > 0 => gs[d].at = es[d].at
             /\ es[d].at = 0 => gs[d].at = 0
             /\ Gone(es, gs, d) => Discardable(es[d])
  BY <1>2, <1>3, <1>6 DEF Treated
<1>7. ASSUME NEW c \in DOMAIN es, NEW d \in DOMAIN es, es[c].used, Gone(es, gs, c),
             Discardable(es[d]), es[d].level > es[c].level
      PROVE  gs[d].at = 0
  <2>1. Gone(es, fs, c)
    BY <1>3, <1>7
  <2>2. fs[d].at = 0
    BY <1>7, <2>1 DEF Treated
  <2> QED BY <1>2, <1>4, <1>7, <2>2
<1> QED BY <1>5, <1>6, <1>7 DEF Treated

\* What a call may make of a heap where it makes a block or a handle.
Leads(h, g) ==
  /\ Good(g) /\ (NoPast(h.a) => NoPast(g.a)) /\ (Apart(h.a) => Apart(g.a))
  /\ Treated(h.es, g.es) /\ Fixes(h.a) \subseteq Fixes(g.a)

\* One after another.
LEMMA LeadsOn ==
  ASSUME NEW h, NEW g, NEW k, Leads(h, g), Leads(g, k)
  PROVE  Leads(h, k)
<1>1. Treated(h.es, k.es)
  BY TreatedTwice DEF Leads
<1> QED BY <1>1 DEF Leads

\* A heap in which a block is made.
LEMMA MakesLeads ==
  ASSUME NEW h, Good(h), NEW g, NEW X, Makes(h, g, X)
  PROVE  Leads(h, g)
<1>1. h.es \in Seq(HandleEntry) /\ Spared(h.es, g.es)
  BY DEF Good, Makes
<1>2. Treated(h.es, g.es)
  BY <1>1, SparedTreated
<1> QED BY <1>2 DEF Leads, Makes

\* A heap with other handles, of which some are free.
LEMMA SpareIs ==
  ASSUME NEW h, IsHeap(h), NEW b, NEW fs, NEW sp
  PROVE  /\ [h EXCEPT !.es = fs, !.spare = sp] = HeapOf(h.a, fs, sp, h.size)
         /\ [h EXCEPT !.a = b, !.es = fs, !.spare = sp] = HeapOf(b, fs, sp, h.size)
<1> DEFINE a == h.a
           es == h.es
           s == h.spare
           n == h.size
           v == HeapOf(b, es, s, n)
           u == HeapOf(b, fs, s, n)
           t == HeapOf(a, fs, s, n)
<1>1. h = HeapOf(a, es, s, n)
  BY DEF IsHeap
<1> HIDE DEF a, es, s, n
<1>2. [h EXCEPT !.es = fs] = t /\ [h EXCEPT !.a = b] = v
  BY <1>1 DEF HeapOf
<1>3. [t EXCEPT !.spare = sp] = HeapOf(a, fs, sp, n) /\ [v EXCEPT !.es = fs] = u
      /\ [u EXCEPT !.spare = sp] = HeapOf(b, fs, sp, n)
  BY DEF HeapOf
<1> HIDE DEF t, u, v
<1>4. [h EXCEPT !.es = fs, !.spare = sp] = [[h EXCEPT !.es = fs] EXCEPT !.spare = sp]
  OBVIOUS
<1>5. [h EXCEPT !.a = b, !.es = fs, !.spare = sp]
        = [[[h EXCEPT !.a = b] EXCEPT !.es = fs] EXCEPT !.spare = sp]
  OBVIOUS
<1> QED BY <1>2, <1>3, <1>4, <1>5 DEF a, n

\* An entry changed.
EntrySet(es, e, x) == [es EXCEPT ![e] = x]
Sets(es, fs, e, x) ==
  /\ fs \in Seq(HandleEntry) /\ Len(fs) = Len(es) /\ DOMAIN fs = DOMAIN es /\ fs[e] = x
  /\ \A d \in DOMAIN es : d # e => fs[d] = es[d]

\* One handle set.
LEMMA EntrySetIs ==
  ASSUME NEW es \in Seq(HandleEntry), NEW e \in DOMAIN es, NEW x \in HandleEntry
  PROVE  Sets(es, EntrySet(es, e, x), e, x)
<1> DEFINE fs == EntrySet(es, e, x)
<1>1. fs = [es EXCEPT ![e] = x]
  BY DEF EntrySet
<1> HIDE DEF fs
<1>2. fs \in Seq(HandleEntry) /\ Len(fs) = Len(es) /\ DOMAIN fs = DOMAIN es
      /\ fs[e] = x /\ \A d \in DOMAIN es : d # e => fs[d] = es[d]
  BY <1>1
<1>3. Sets(es, fs, e, x)
  BY <1>2 DEF Sets
<1> QED BY <1>3 DEF fs

\* A free handle given.
Gives(h, b) ==
  /\ b.e # 0 /\ b.refused = 0 /\ Leads(h, b.h) /\ b.e \in DOMAIN b.h.es
  /\ b.h.es[b.e].used /\ b.h.es[b.e].at = 0
  /\ b.e \in DOMAIN h.es => ~h.es[b.e].used

\* The first of a sequence with nothing twice, and the others.
LEMMA HeadIs ==
  ASSUME NEW S, NEW s \in Seq(S), IsInjective(s), s # <<>>
  PROVE  /\ Head(s) \in S /\ Tail(s) \in Seq(S) /\ IsInjective(Tail(s))
         /\ ToSet(Tail(s)) = ToSet(s) \ {Head(s)} /\ Head(s) \in ToSet(s)
<1> DEFINE n == Len(s)
           t == Tail(s)
<1>1. /\ n \in Nat /\ n >= 1 /\ DOMAIN s = 1 .. n /\ Head(s) = s[1] /\ Head(s) \in S
      /\ t \in Seq(S) /\ Len(t) = n - 1 /\ DOMAIN t = 1 .. n - 1
      /\ \A k \in 1 .. n - 1 : t[k] = s[k + 1]
  <2>1. s # <<>> /\ n \in Nat
    OBVIOUS
  <2>2. n # 0
    BY <2>1, EmptySeq
  <2> QED BY <2>1, <2>2
<1> HIDE DEF n, t
<1>2. \A x, y \in 1 .. n : s[x] = s[y] => x = y
  BY <1>1 DEF IsInjective
<1>3. ASSUME NEW x \in 1 .. n - 1, NEW y \in 1 .. n - 1, t[x] = t[y] PROVE x = y
  <2>1. x + 1 \in 1 .. n /\ y + 1 \in 1 .. n
    BY <1>1
  <2>2. s[x + 1] = s[y + 1]
    BY <1>1, <1>3
  <2>3. x + 1 = y + 1
    BY <1>2, <2>1, <2>2
  <2> QED BY <2>3
<1>4. IsInjective(t)
  BY <1>1, <1>3 DEF IsInjective
<1>5. ToSet(s) = {s[x] : x \in 1 .. n} /\ ToSet(t) = {t[x] : x \in 1 .. n - 1}
  BY <1>1 DEF ToSet
<1>6. ToSet(t) \subseteq ToSet(s) \ {Head(s)}
  <2> SUFFICES ASSUME NEW x \in 1 .. n - 1 PROVE t[x] \in ToSet(s) \ {Head(s)}
    BY <1>5
  <2>1. x + 1 \in 1 .. n /\ x + 1 # 1 /\ 1 \in 1 .. n /\ t[x] = s[x + 1]
    BY <1>1
  <2>2. s[x + 1] # s[1]
    BY <1>2, <2>1
  <2> QED BY <1>1, <1>5, <2>1, <2>2
<1>7. ToSet(s) \ {Head(s)} \subseteq ToSet(t)
  <2> SUFFICES ASSUME NEW x \in 1 .. n, s[x] # Head(s) PROVE s[x] \in ToSet(t)
    BY <1>5
  <2>1. x # 1
    BY <1>1
  <2>2. x - 1 \in 1 .. n - 1 /\ (x - 1) + 1 = x
    BY <1>1, <2>1
  <2>3. t[x - 1] = s[x]
    BY <1>1, <2>2
  <2> QED BY <1>5, <2>2, <2>3
<1>8. Head(s) \in ToSet(s)
  BY <1>1, <1>5
<1> QED BY <1>1, <1>4, <1>6, <1>7, <1>8 DEF t

\* One that is used.
Taken(x) == [x EXCEPT !.used = TRUE]

\* A handle given.
LEMMA TakenIs ==
  ASSUME NEW x \in HandleEntry
  PROVE  /\ Taken(x) \in HandleEntry /\ Taken(x).used /\ Taken(x).at = x.at
         /\ Taken(x).level = x.level /\ Taken(x).locks = x.locks
BY DEF HandleEntry, Taken

\* The next free handle given.
LEMMA GivenIs ==
  ASSUME NEW h, Good(h), h.spare # <<>>
  PROVE  Gives(h, Given(h))
<1> DEFINE es == h.es
           sp == h.spare
           e == Head(sp)
           tl == Tail(sp)
           fs == EntrySet(es, e, Taken(es[e]))
           g == HeapOf(h.a, fs, tl, h.size)
           b == Given(h)
<1>1. /\ IsHeap(h) /\ Laid(h.a) /\ Sized(Last(h.a), h.size) /\ es \in Seq(HandleEntry)
      /\ Spares(es, sp) /\ Blank(es) /\ Agree(Used(h.a), es)
  BY DEF Good
<1>2. /\ sp \in Seq(DOMAIN es) /\ IsInjective(sp)
      /\ ToSet(sp) = {d \in DOMAIN es : ~es[d].used} /\ sp # <<>>
  BY <1>1 DEF Spares
<1>3. b = [h |-> [h EXCEPT !.es = [es EXCEPT ![e].used = TRUE], !.spare = tl], e |-> e,
           refused |-> 0]
  BY DEF Given
<1>4. [es EXCEPT ![e].used = TRUE] = fs
  BY DEF EntrySet, Taken
<1> HIDE DEF fs
<1>5. b = [h |-> [h EXCEPT !.es = fs, !.spare = tl], e |-> e, refused |-> 0]
  BY <1>3, <1>4
<1> HIDE DEF b
<1>6. /\ e \in DOMAIN es /\ tl \in Seq(DOMAIN es) /\ IsInjective(tl)
      /\ ToSet(tl) = ToSet(sp) \ {e} /\ e \in ToSet(sp)
  BY <1>2, HeadIs
<1> HIDE DEF e, tl
<1>7. ~es[e].used
  BY <1>2, <1>6
<1>8. es[e] = Unused /\ es[e] \in HandleEntry /\ es[e].at = 0
  BY <1>1, <1>6, <1>7, UnusedIs DEF Blank
<1>10. Taken(es[e]) \in HandleEntry /\ Taken(es[e]).used /\ Taken(es[e]).at = 0
  BY <1>8, TakenIs
<1>9. Sets(es, fs, e, Taken(es[e]))
  <2> DEFINE x == Taken(es[e])
  <2>1. x \in HandleEntry
    BY <1>10
  <2> HIDE DEF x
  <2>2. Sets(es, EntrySet(es, e, x), e, x)
    BY <1>1, <1>6, <2>1, EntrySetIs
  <2> QED BY <2>2 DEF fs, x
<1>11. /\ fs \in Seq(HandleEntry) /\ DOMAIN fs = DOMAIN es /\ fs[e].used /\ fs[e].at = 0
       /\ \A d \in DOMAIN es : d # e => fs[d] = es[d]
  BY <1>9, <1>10 DEF Sets
<1>12. [h EXCEPT !.es = fs, !.spare = tl] = g
  <2>1. IsHeap(h)
    BY <1>1
  <2> QED BY <2>1, SpareIs, ZenonT(20)
<1> HIDE DEF es, sp
<1>13. g.a = h.a /\ g.es = fs /\ g.spare = tl /\ g.size = h.size /\ IsHeap(g)
  BY HeapOfIs
<1> HIDE DEF g
<1>14. b.h = g /\ b.e = e /\ b.refused = 0
  BY <1>5, <1>12
<1>15. Spares(fs, tl)
  <2>1. ToSet(tl) = {d \in DOMAIN fs : ~fs[d].used}
    BY <1>2, <1>6, <1>11
  <2> QED BY <1>6, <1>11, <2>1 DEF Spares
<1>16. Blank(fs)
  BY <1>1, <1>11 DEF Blank
<1>17. Agree(Used(h.a), fs)
  <2>1. \A d \in DOMAIN es : fs[d].at = es[d].at /\ (es[d].used => fs[d].used)
    BY <1>7, <1>8, <1>11
  <2> QED BY <1>1, <1>11, <2>1, AgreeGiven
<1>18. Good(g)
  BY <1>1, <1>11, <1>13, <1>15, <1>16, <1>17 DEF Good
<1>19. Treated(es, es)
  <2>1. Spared(es, es)
    BY <1>1, SparedSelf
  <2> QED BY <1>1, <2>1, SparedTreated
<1>20. Treated(es, fs)
  BY <1>7, <1>11, <1>19, TreatedBut
<1>21. Leads(h, g)
  <2>1. Treated(h.es, g.es)
    BY <1>13, <1>20 DEF es
  <2> QED BY <1>13, <1>18, <2>1 DEF Leads
<1>22. e # 0
  BY <1>1, <1>6
<1>23. b.e \in DOMAIN b.h.es /\ b.h.es[b.e].used /\ b.h.es[b.e].at = 0
  BY <1>6, <1>11, <1>13, <1>14
<1>24. b.e \in DOMAIN h.es => ~h.es[b.e].used
  BY <1>7, <1>14 DEF es
<1>25. Leads(h, b.h) /\ b.e # 0 /\ b.refused = 0
  BY <1>14, <1>21, <1>22
<1>26. Gives(h, b)
  BY <1>23, <1>24, <1>25 DEF Gives
<1> QED BY <1>26 DEF b

\* Handles of a new table.
TableOf(es) == es \o [j \in 1 .. TableSize |-> Unused]
TableSpare(n) == [j \in 1 .. TableSize |-> n + j]
Tables(es, fs, sp) ==
  /\ fs \in Seq(HandleEntry) /\ Spares(fs, sp) /\ Blank(fs) /\ sp # <<>>
  /\ DOMAIN es \subseteq DOMAIN fs /\ \A d \in DOMAIN es : fs[d] = es[d]
  /\ \A d \in DOMAIN fs : d \notin DOMAIN es => fs[d] = Unused

\* The handles with a table's more.
LEMMA TableOfIs ==
  ASSUME NEW es \in Seq(HandleEntry)
  PROVE  /\ TableOf(es) \in Seq(HandleEntry) /\ DOMAIN TableOf(es) = 1 .. Len(es) + TableSize
         /\ \A d \in DOMAIN es : TableOf(es)[d] = es[d] /\ d \in DOMAIN TableOf(es)
         /\ \A d \in DOMAIN TableOf(es) : d \notin DOMAIN es => TableOf(es)[d] = Unused
<1> DEFINE T == TableSize
           n == Len(es)
           us == [j \in 1 .. T |-> Unused]
           fs == TableOf(es)
<1>1. T \in Nat /\ T >= 1
  BY HeapAssumption
<1> HIDE DEF T
<1>2. us \in Seq(HandleEntry) /\ Len(us) = T /\ DOMAIN us = 1 .. T
  <2>1. us \in [1 .. T -> HandleEntry]
    BY UnusedIs
  <2>2. us \in Seq(HandleEntry) /\ DOMAIN us = 1 .. T
    BY <1>1, <2>1, SeqOfFcn
  <2> QED BY <1>1, <2>2
<1>3. \A j \in 1 .. T : us[j] = Unused
  OBVIOUS
<1>4. fs = es \o us
  BY DEF T, TableOf
<1> HIDE DEF us, fs
<1>5. /\ fs \in Seq(HandleEntry) /\ Len(fs) = n + T
      /\ \A j \in 1 .. n : fs[j] = es[j]
      /\ \A j \in n + 1 .. n + T : fs[j] = us[j - n]
  BY <1>2, <1>4, Joined
<1>6. n \in Nat /\ DOMAIN es = 1 .. n /\ DOMAIN fs = 1 .. n + T
  BY <1>1, <1>5
<1> HIDE DEF n
<1>7. \A d \in 1 .. n + T : d \in 1 .. n \/ (d \in n + 1 .. n + T /\ d - n \in 1 .. T)
  BY <1>1, <1>6
<1>8. \A d \in DOMAIN fs : d \notin DOMAIN es => fs[d] = Unused
  BY <1>3, <1>5, <1>6, <1>7
<1>9. \A d \in DOMAIN es : fs[d] = es[d] /\ d \in DOMAIN fs
  BY <1>1, <1>5, <1>6
<1> QED BY <1>5, <1>6, <1>8, <1>9 DEF fs, n, T

\* The free handles of a table.
LEMMA TableSpareIs ==
  ASSUME NEW n \in Nat
  PROVE  /\ TableSpare(n) \in Seq(n + 1 .. n + TableSize) /\ IsInjective(TableSpare(n))
         /\ ToSet(TableSpare(n)) = n + 1 .. n + TableSize /\ TableSpare(n) # <<>>
<1> DEFINE T == TableSize
           sp == TableSpare(n)
<1>1. T \in Nat /\ T >= 1
  BY HeapAssumption
<1>2. sp = [j \in 1 .. T |-> n + j]
  BY DEF TableSpare
<1> HIDE DEF T, sp
<1>3. sp \in [1 .. T -> n + 1 .. n + T]
  BY <1>1, <1>2
<1>4. sp \in Seq(n + 1 .. n + T) /\ DOMAIN sp = 1 .. T /\ Len(sp) = T
  BY <1>1, <1>3, SeqOfFcn
<1>5. \A x, y \in 1 .. T : sp[x] = sp[y] => x = y
  BY <1>1, <1>2
<1>6. IsInjective(sp)
  BY <1>4, <1>5 DEF IsInjective
<1>7. ToSet(sp) = {sp[j] : j \in 1 .. T}
  BY <1>4 DEF ToSet
<1>8. ASSUME NEW d \in n + 1 .. n + T PROVE d \in ToSet(sp)
  <2>1. d - n \in 1 .. T /\ n + (d - n) = d
    BY <1>1
  <2>2. sp[d - n] = d
    BY <1>2, <2>1
  <2> QED BY <1>7, <2>1, <2>2
<1>9. ToSet(sp) \subseteq n + 1 .. n + T
  BY <1>3, <1>7
<1>10. sp # <<>>
  BY <1>1, <1>4
<1>11. ToSet(sp) = n + 1 .. n + T
  BY <1>8, <1>9
<1> QED BY <1>4, <1>6, <1>10, <1>11 DEF sp, T

\* A table made, where there was no free handle.
LEMMA TableIs ==
  ASSUME NEW es \in Seq(HandleEntry), Spares(es, <<>>), Blank(es)
  PROVE  Tables(es, TableOf(es), TableSpare(Len(es)))
<1> DEFINE T == TableSize
           n == Len(es)
           fs == TableOf(es)
           sp == TableSpare(n)
<1>1. T \in Nat /\ T >= 1
  BY HeapAssumption
<1>2. n \in Nat /\ DOMAIN es = 1 .. n
  OBVIOUS
<1>3. /\ fs \in Seq(HandleEntry) /\ DOMAIN fs = 1 .. n + T
      /\ \A d \in DOMAIN es : fs[d] = es[d] /\ d \in DOMAIN fs
      /\ \A d \in DOMAIN fs : d \notin DOMAIN es => fs[d] = Unused
  BY TableOfIs
<1> HIDE DEF fs
<1>4. /\ sp \in Seq(n + 1 .. n + T) /\ IsInjective(sp)
      /\ ToSet(sp) = n + 1 .. n + T /\ sp # <<>>
  BY <1>2, TableSpareIs
<1> HIDE DEF sp, n, T
<1>5. \A d \in DOMAIN es : es[d].used
  <2>1. ToSet(<<>>) = {d \in DOMAIN es : ~es[d].used}
    BY DEF Spares
  <2>2. ToSet(<<>>) = {}
    BY DEF ToSet
  <2> QED BY <2>1, <2>2
<1>6. n + 1 .. n + T \subseteq DOMAIN fs
  BY <1>1, <1>2, <1>3
<1>7. sp \in Seq(DOMAIN fs)
  <2> DEFINE S == n + 1 .. n + T
             D == DOMAIN fs
  <2>1. sp \in Seq(S) /\ S \subseteq D
    BY <1>4, <1>6
  <2> HIDE DEF S, D
  <2>2. sp \in Seq(D)
    BY <2>1
  <2> QED BY <2>2 DEF D
<1>8. \A d \in DOMAIN fs : ~fs[d].used <=> d \in n + 1 .. n + T
  <2> SUFFICES ASSUME NEW d \in DOMAIN fs PROVE ~fs[d].used <=> d \in n + 1 .. n + T
    OBVIOUS
  <2>1. CASE d \in DOMAIN es
    <3>1. fs[d].used
      BY <1>3, <1>5, <2>1
    <3>2. d \notin n + 1 .. n + T
      BY <1>2, <2>1
    <3> QED BY <3>1, <3>2
  <2>2. CASE d \notin DOMAIN es
    <3>1. ~fs[d].used
      BY <1>3, <2>2, UnusedIs
    <3>2. d \in n + 1 .. n + T
      BY <1>1, <1>2, <1>3, <2>2
    <3> QED BY <3>1, <3>2
  <2> QED BY <2>1, <2>2
<1>9. ToSet(sp) = {d \in DOMAIN fs : ~fs[d].used}
  BY <1>4, <1>6, <1>8
<1>10. Spares(fs, sp)
  BY <1>4, <1>7, <1>9 DEF Spares
<1>11. Blank(fs)
  BY <1>3 DEF Blank
<1>12. Tables(es, fs, sp)
  BY <1>3, <1>4, <1>10, <1>11 DEF Tables
<1> QED BY <1>12 DEF fs, sp, n

\* A fixed block made one of another kind.
Recasts(a, at, y, b) ==
  /\ Laid(b) /\ Last(b) = Last(a) /\ (Apart(a) => Apart(b))
  /\ Used(b) = (Used(a) \ {NewArena(at, "fixed", 0)}) \cup {y}
  /\ Fixes(b) = Fixes(a) \ {NewArena(at, "fixed", 0)}
  /\ NoPast(a) => NoPast(b)

\* A block that was made is given a use.
LEMMA Recast ==
  ASSUME NEW a, Laid(a), NEW at, NewArena(at, "fixed", 0) \in Used(a), NEW y \in Arena, y.at = at,
         y.is \in {"kernel", "moveable", "lost"}
  PROVE  Recasts(a, at, y, ReplaceAt(a, IndexOf(a, at), y))
<1> DEFINE x == NewArena(at, "fixed", 0)
           b == ReplaceAt(a, IndexOf(a, at), y)
<1>1. x \in Used(a) /\ x.is = "fixed" /\ x.at = at
  BY FieldsAre
<1> HIDE DEF x
<1>2. x.is # "kernel" /\ y.at = x.at /\ y.is # "free" /\ y.is # "fixed" /\ y.is # "past"
  BY <1>1
<1>3. Retypes(a, x, y, b)
  BY <1>1, <1>2, Retyped
<1> HIDE DEF b
<1>4. /\ Laid(b) /\ Last(b) = Last(a) /\ Used(b) = (Used(a) \ {x}) \cup {y}
      /\ Apart(a) => Apart(b)
  BY <1>3 DEF Retypes
<1>5. Fixes(b) = Fixes(a) \ {x}
  BY <1>2, <1>4 DEF Fixes
<1>6. NoPast(a) => NoPast(b)
  BY <1>2, <1>4 DEF NoPast
<1>7. Recasts(a, at, y, b)
  BY <1>4, <1>5, <1>6 DEF Recasts, x
<1> QED BY <1>7 DEF b

\* The block that was made, in the heap.
LEMMA GotIs ==
  ASSUME NEW h, NEW t, Got(h, t)
  PROVE  /\ Good(t.h) /\ NewArena(t.at, "fixed", 0) \in Used(t.h.a) /\ t.at \in Nat /\ t.at # 0
         /\ t.at + 12 <= Highest
         /\ Fixes(t.h.a) \ {NewArena(t.at, "fixed", 0)} = Fixes(h.a)
         /\ t.h.spare = h.spare /\ Spared(h.es, t.h.es)
         /\ (NoPast(h.a) => NoPast(t.h.a)) /\ (Apart(h.a) => Apart(t.h.a))
<1> DEFINE x == NewArena(t.at, "fixed", 0)
<1>1. Makes(h, t.h, {x}) /\ x \notin Fixes(h.a)
  BY DEF Got
<1> HIDE DEF x
<1>2. Fixes(t.h.a) = Fixes(h.a) \cup {x}
  BY <1>1 DEF Makes
<1>3. x \in Used(t.h.a)
  BY <1>2 DEF Fixes
<1>4. Fixes(t.h.a) \ {x} = Fixes(h.a)
  BY <1>1, <1>2
<1>5. /\ Good(t.h) /\ t.h.spare = h.spare /\ Spared(h.es, t.h.es)
      /\ (NoPast(h.a) => NoPast(t.h.a)) /\ (Apart(h.a) => Apart(t.h.a))
  BY <1>1 DEF Makes
<1> QED BY <1>3, <1>4, <1>5 DEF Got, x

\* A handle of a new table given.
LEMMA GivenOfIs ==
  ASSUME NEW h, Good(h), h.spare = <<>>, NEW t, Got(h, t)
  PROVE  Gives(h, GivenOf(t))
<1> DEFINE k == t.h
           at == t.at
           x == NewArena(at, "fixed", 0)
           y == NewArena(at, "kernel", 0)
           c == ReplaceAt(k.a, IndexOf(k.a, at), y)
           es == k.es
           fs == TableOf(es)
           sp == TableSpare(Len(es))
           m == HeapOf(c, fs, sp, k.size)
           b == GivenOf(t)
<1>1. /\ Good(k) /\ x \in Used(k.a) /\ at \in Nat /\ at # 0 /\ at + 12 <= Highest
      /\ Fixes(k.a) \ {x} = Fixes(h.a) /\ k.spare = h.spare /\ Spared(h.es, es)
      /\ (NoPast(h.a) => NoPast(k.a)) /\ (Apart(h.a) => Apart(k.a))
  BY GotIs
<1>2. /\ IsHeap(k) /\ Laid(k.a) /\ Sized(Last(k.a), k.size) /\ es \in Seq(HandleEntry)
      /\ Spares(es, <<>>) /\ Blank(es) /\ Agree(Used(k.a), es)
  BY <1>1 DEF Good
<1>3. b = Given([k EXCEPT !.a = c, !.es = fs, !.spare = sp])
  <2>1. b = Given([k EXCEPT !.a = ReplaceAt(@, IndexOf(@, at), y),
                            !.es = @ \o [j \in 1 .. TableSize |-> Unused],
                            !.spare = [j \in 1 .. TableSize |-> Len(es) + j]])
    BY <1>1 DEF GivenOf
  <2>2. [k EXCEPT !.a = ReplaceAt(@, IndexOf(@, at), y),
                  !.es = @ \o [j \in 1 .. TableSize |-> Unused],
                  !.spare = [j \in 1 .. TableSize |-> Len(es) + j]]
          = [k EXCEPT !.a = c, !.es = fs, !.spare = sp]
    BY DEF TableOf, TableSpare
  <2> QED BY <2>1, <2>2
<1> HIDE DEF b
<1>4. y \in Arena /\ y.at = at /\ y.is = "kernel"
  <2>1. at <= Highest /\ "kernel" \in Kinds
    BY <1>1, HighestIs DEF Kinds
  <2> QED BY <1>1, <2>1, NewArenaIs, FieldsAre
<1> HIDE DEF y
<1>5. Recasts(k.a, at, y, c)
  <2>1. y.is \in {"kernel", "moveable", "lost"}
    BY <1>4
  <2> QED BY <1>1, <1>2, <1>4, <2>1, Recast
<1>6. x.is = "fixed"
  BY FieldsAre
<1>7. /\ Laid(c) /\ Last(c) = Last(k.a) /\ (Apart(k.a) => Apart(c))
      /\ Used(c) = (Used(k.a) \ {x}) \cup {y} /\ Fixes(c) = Fixes(k.a) \ {x}
      /\ (NoPast(k.a) => NoPast(c))
  BY <1>5 DEF Recasts
<1> HIDE DEF c, x
<1>8. Tables(es, fs, sp)
  BY <1>2, TableIs
<1> HIDE DEF fs, sp, es
<1>9. [k EXCEPT !.a = c, !.es = fs, !.spare = sp] = m
  <2>1. IsHeap(k)
    BY <1>2
  <2> QED BY <2>1, SpareIs, ZenonT(20)
<1>10. m.a = c /\ m.es = fs /\ m.spare = sp /\ m.size = k.size /\ IsHeap(m)
  BY HeapOfIs
<1> HIDE DEF m
<1>11. b = Given(m)
  BY <1>3, <1>9
<1>12. Agree(Used(c), es)
  <2>1. \A z : z.is = "moveable" => (z \in Used(k.a) <=> z \in Used(c))
    BY <1>4, <1>6, <1>7
  <2> QED BY <1>2, <2>1, AgreeOther
<1>13. Agree(Used(c), fs)
  <2>1. /\ DOMAIN es \subseteq DOMAIN fs
        /\ \A d \in DOMAIN es : fs[d].at = es[d].at /\ (es[d].used => fs[d].used)
        /\ \A d \in DOMAIN fs : d \notin DOMAIN es => fs[d].at = 0
    BY <1>8, UnusedIs DEF Tables
  <2> QED BY <1>12, <2>1, AgreeGiven
<1>14. Good(m)
  BY <1>2, <1>7, <1>8, <1>10, <1>13 DEF Good, Tables
<1>15. Treated(h.es, fs)
  <2>1. Treated(h.es, es)
    BY <1>1, SparedTreated DEF Good
  <2>2. 0 \notin DOMAIN h.es
    BY DEF Good
  <2>3. DOMAIN es \subseteq DOMAIN fs /\ \A d \in DOMAIN es : fs[d] = es[d]
    BY <1>8 DEF Tables
  <2> QED BY <2>1, <2>2, <2>3, TreatedBut
<1>16. Leads(h, m)
  BY <1>1, <1>7, <1>10, <1>14, <1>15 DEF Leads
<1>17. m.spare # <<>>
  BY <1>8, <1>10 DEF Tables
<1>18. Gives(m, b)
  BY <1>11, <1>14, <1>17, GivenIs
<1>19. /\ b.e # 0 /\ b.refused = 0 /\ Leads(m, b.h) /\ b.e \in DOMAIN b.h.es
       /\ b.h.es[b.e].used /\ b.h.es[b.e].at = 0 /\ (b.e \in DOMAIN m.es => ~m.es[b.e].used)
  BY <1>18 DEF Gives
<1>20. Leads(h, b.h)
  BY <1>16, <1>19, LeadsOn
<1>21. b.e \in DOMAIN h.es => ~h.es[b.e].used
  BY <1>10, <1>15, <1>19 DEF Treated
<1>22. Gives(h, b)
  BY <1>19, <1>20, <1>21 DEF Gives
<1> QED BY <1>22 DEF b

\* No handle given, as there is no room for a table.
NoHandle(h, b, still) ==
  /\ b.e = 0 /\ Leads(h, b.h)
  /\ b.refused \in Nat \ {0} /\ Full(b.h, b.refused, still, Apart(h.a))

\* What handle answers: one, or none and what it was refused.
LEMMA NewHandleIs ==
  ASSUME NEW h, Good(h), NEW still \in BOOLEAN
  PROVE  Gives(h, NewHandle(h, still)) \/ NoHandle(h, NewHandle(h, still), still)
<1> DEFINE n == (TableSize + 1) * 4
           t == Alloc(h, n, FALSE, still)
           b == NewHandle(h, still)
<1>1. n \in Nat
  BY HeapAssumption
<1>2. CASE h.spare # <<>>
  <2>1. b = Given(h)
    BY <1>2 DEF NewHandle
  <2> HIDE DEF b
  <2>2. Gives(h, b)
    BY <1>2, <2>1, GivenIs
  <2> QED BY <2>2 DEF b
<1>3. CASE h.spare = <<>>
  <2>1. b = GivenOf(t)
    BY <1>3 DEF NewHandle
  <2> HIDE DEF n
  <2>2. Got(h, t) \/ \E span \in Nat \ {0} : Refuses(h, t, span, still)
    BY <1>1, AllocIs
  <2> HIDE DEF t, b
  <2>3. CASE Got(h, t)
    <3>1. Gives(h, b)
      BY <1>3, <2>1, <2>3, GivenOfIs
    <3> QED BY <3>1 DEF b
  <2>4. CASE \E span \in Nat \ {0} : Refuses(h, t, span, still)
    <3>1. PICK span \in Nat \ {0} : Refuses(h, t, span, still)
      BY <2>4
    <3>2. t.at = 0 /\ t.refused = span /\ Makes(h, t.h, {}) /\ Full(t.h, span, still, Apart(h.a))
      BY <3>1 DEF Refuses
    <3>3. b = [h |-> t.h, e |-> 0, refused |-> t.refused]
      BY <2>1, <3>2 DEF GivenOf
    <3>4. b.h = t.h /\ b.e = 0 /\ b.refused = span
      BY <3>2, <3>3
    <3>5. Leads(h, b.h)
      BY <3>2, <3>4, MakesLeads
    <3>6. Full(b.h, b.refused, still, Apart(h.a))
      BY <3>2, <3>4
    <3>7. NoHandle(h, b, still)
      BY <3>1, <3>4, <3>5, <3>6 DEF NoHandle
    <3> QED BY <3>7 DEF b
  <2> QED BY <2>2, <2>3, <2>4
<1> QED BY <1>2, <1>3

-----------------------------------------------------------------------------
(* Handles and blocks linked.                                              *)
\* A handle and its block linked.
Links(k, at, e, g) ==
  /\ Good(g) /\ g.spare = k.spare /\ (Apart(k.a) => Apart(g.a)) /\ (NoPast(k.a) => NoPast(g.a))
  /\ Fixes(g.a) = Fixes(k.a) \ {NewArena(at, "fixed", 0)}
  /\ Placing(k.es, g.es, e, at + 6)

\* A handle that is used given a place.
LEMMA PlacedBlank ==
  ASSUME NEW es, NEW fs, NEW e, NEW n, Placing(es, fs, e, n), e \in DOMAIN es, es[e].used,
         NEW sp, Spares(es, sp), Blank(es), es[e].used \in BOOLEAN
  PROVE  Spares(fs, sp) /\ Blank(fs)
<1>1. \A d \in DOMAIN es : fs[d].used = es[d].used
  BY DEF Placing
<1>2. DOMAIN fs = DOMAIN es
  BY DEF Placing
<1>3. Spares(fs, sp)
  BY <1>1, <1>2 DEF Spares
<1>4. \A d \in DOMAIN es : d # e => fs[d] = es[d]
  BY DEF Placing
<1>5. Blank(fs)
  BY <1>1, <1>2, <1>4 DEF Blank
<1> QED BY <1>3, <1>5

\* A handle and its block linked.
LEMMA LinkedIs ==
  ASSUME NEW k, Good(k), NEW at \in Nat, at + 12 <= Highest, NewArena(at, "fixed", 0) \in Used(k.a),
         NEW e \in DOMAIN k.es, k.es[e].used, k.es[e].at = 0
  PROVE  Links(k, at, e, Linked(k, at, e))
<1> DEFINE es == k.es
           a == k.a
           x == NewArena(at, "fixed", 0)
           y == NewArena(at, "moveable", e)
           b == ReplaceAt(a, IndexOf(a, at), y)
           fs == PlaceGiven(es, e, at)
           g == HeapOf(b, fs, k.spare, k.size)
           l == Linked(k, at, e)
<1>1. /\ IsHeap(k) /\ Laid(a) /\ Sized(Last(a), k.size) /\ es \in Seq(HandleEntry)
      /\ Spares(es, k.spare) /\ Blank(es) /\ Agree(Used(a), es) /\ es[e].used \in BOOLEAN
  BY EntryIs DEF Good
<1>2. l = [k EXCEPT !.a = b, !.es = fs]
  BY DEF Linked
<1>3. l = g
  BY <1>1, <1>2, ChangedIs
<1>4. e \in Nat
  BY <1>1
<1>5. y \in Arena /\ y.at = at /\ y.is = "moveable"
  <2>1. at <= Highest /\ "moveable" \in Kinds
    BY HighestIs DEF Kinds
  <2> QED BY <1>4, <2>1, NewArenaIs, FieldsAre
<1>6. Recasts(a, at, y, b)
  <2> HIDE DEF y, a
  <2>1. y.is \in {"kernel", "moveable", "lost"} /\ x \in Used(a)
    BY <1>5 DEF a
  <2> QED BY <1>1, <1>5, <2>1, Recast
<1>7. x.is = "fixed" /\ x \in Used(a)
  BY FieldsAre
<1> HIDE DEF x
<1>8. /\ Laid(b) /\ Last(b) = Last(a) /\ (Apart(a) => Apart(b))
      /\ Used(b) = (Used(a) \ {x}) \cup {y} /\ Fixes(b) = Fixes(a) \ {x}
      /\ (NoPast(a) => NoPast(b))
  BY <1>6 DEF Recasts, x
<1>9. Used(a) \subseteq Arena
  BY <1>1, MemberIs DEF Used
<1>10. Agree((Used(a) \ {x}) \cup {y}, fs) /\ Placing(es, fs, e, at + 6)
  <2> DEFINE U == Used(a)
  <2>1. /\ U \subseteq Arena /\ Agree(U, es) /\ es \in Seq(HandleEntry) /\ e \in DOMAIN es
        /\ x \in U /\ x.is # "moveable" /\ at + 6 <= Highest /\ es[e].used /\ es[e].at = 0
    BY <1>1, <1>7, <1>9, HighestIs
  <2>2. fs = PlaceGiven(es, e, at)
    OBVIOUS
  <2> HIDE DEF U, es, y, fs
  <2>3. Agree((U \ {x}) \cup {NewArena(at, "moveable", e)}, fs) /\ Placing(es, fs, e, at + 6)
    BY <2>1, <2>2, AgreeLinked
  <2> QED BY <2>3 DEF U, y
<1> HIDE DEF l, fs, y, b
<1>11. g.a = b /\ g.es = fs /\ g.spare = k.spare /\ g.size = k.size /\ IsHeap(g)
  BY HeapOfIs
<1> HIDE DEF g
<1>12. Spares(fs, k.spare) /\ Blank(fs)
  <2> DEFINE n == at + 6
  <2>1. Placing(es, fs, e, n)
    BY <1>10
  <2> HIDE DEF n
  <2> QED BY <1>1, <2>1, PlacedBlank
<1>13. fs \in Seq(HandleEntry) /\ Agree(Used(b), fs)
  BY <1>8, <1>10 DEF Placing
<1>14. Good(g)
  BY <1>1, <1>8, <1>11, <1>12, <1>13 DEF Good
<1>15. Links(k, at, e, g)
  BY <1>8, <1>10, <1>11, <1>14 DEF Links, x
<1>16. Links(k, at, e, l)
  BY <1>3, <1>15
<1> QED BY <1>16 DEF l

\* The entry of a handle in use changed, but not its place.
Amends(h, e, x, g) ==
  /\ Good(g) /\ g.a = h.a /\ Sets(h.es, g.es, e, x)

\* A handle changed, but for its place.
LEMMA AmendedIs ==
  ASSUME NEW h, Good(h), NEW e \in DOMAIN h.es, NEW x \in HandleEntry, x.used, h.es[e].used,
         x.at = h.es[e].at
  PROVE  Amends(h, e, x, [h EXCEPT !.es = EntrySet(h.es, e, x)])
<1> DEFINE es == h.es
           fs == EntrySet(es, e, x)
           g == HeapOf(h.a, fs, h.spare, h.size)
           k == [h EXCEPT !.es = fs]
<1>1. /\ IsHeap(h) /\ Laid(h.a) /\ Sized(Last(h.a), h.size) /\ es \in Seq(HandleEntry)
      /\ Spares(es, h.spare) /\ Blank(es) /\ Agree(Used(h.a), es)
  BY DEF Good
<1>2. k = g
  BY <1>1, ChangedIs
<1>3. Sets(es, fs, e, x)
  BY <1>1, EntrySetIs
<1>4. h.spare = h.spare /\ e \in DOMAIN es /\ es[e].used /\ es[e].at = x.at
  OBVIOUS
<1> HIDE DEF fs, es, k
<1>5. g.a = h.a /\ g.es = fs /\ g.spare = h.spare /\ g.size = h.size /\ IsHeap(g)
  BY HeapOfIs
<1> HIDE DEF g
<1>6. /\ fs \in Seq(HandleEntry) /\ DOMAIN fs = DOMAIN es /\ fs[e] = x
      /\ \A d \in DOMAIN es : d # e => fs[d] = es[d]
  BY <1>3 DEF Sets
<1>7. \A d \in DOMAIN es : fs[d].at = es[d].at /\ (es[d].used <=> fs[d].used)
  BY <1>4, <1>6
<1>8. {d \in DOMAIN fs : ~fs[d].used} = {d \in DOMAIN es : ~es[d].used}
  BY <1>6, <1>7
<1>9. Spares(fs, h.spare)
  BY <1>1, <1>6, <1>8 DEF Spares
<1>10. Blank(fs)
  BY <1>1, <1>6, <1>7 DEF Blank
<1>11. Agree(Used(h.a), fs)
  BY <1>1, <1>6, <1>7, AgreeGiven
<1>12. Good(g)
  BY <1>1, <1>5, <1>6, <1>9, <1>10, <1>11 DEF Good
<1>13. Amends(h, e, x, g)
  BY <1>3, <1>5, <1>12 DEF Amends, es
<1>14. Amends(h, e, x, k)
  BY <1>2, <1>13
<1> QED BY <1>14 DEF k, fs, es

\* A handle put in front of the free ones.
LEMMA PushIs ==
  ASSUME NEW S, NEW s \in Seq(S), IsInjective(s), NEW e \in S, e \notin ToSet(s)
  PROVE  /\ <<e>> \o s \in Seq(S) /\ IsInjective(<<e>> \o s)
         /\ ToSet(<<e>> \o s) = ToSet(s) \cup {e}
<1> DEFINE n == Len(s)
           t == <<e>> \o s
<1>1. <<e>> \in Seq(S) /\ Len(<<e>>) = 1 /\ <<e>>[1] = e /\ n \in Nat /\ DOMAIN s = 1 .. n
  OBVIOUS
<1>2. /\ t \in Seq(S) /\ Len(t) = 1 + n /\ \A j \in 1 .. 1 : t[j] = <<e>>[j]
      /\ \A j \in 1 + 1 .. 1 + n : t[j] = s[j - 1]
  BY <1>1, Joined
<1> HIDE DEF t
<1>3. t[1] = e /\ DOMAIN t = 1 .. n + 1 /\ \A j \in 2 .. n + 1 : t[j] = s[j - 1] /\ j - 1 \in 1 .. n
  BY <1>1, <1>2
<1> HIDE DEF n
<1>4. ToSet(s) = {s[j] : j \in 1 .. n} /\ ToSet(t) = {t[j] : j \in 1 .. n + 1}
  BY <1>1, <1>3 DEF ToSet
<1>5. \A j \in 2 .. n + 1 : t[j] \in ToSet(s)
  BY <1>3, <1>4
<1>6. ASSUME NEW x \in 1 .. n + 1, NEW y \in 1 .. n + 1, t[x] = t[y] PROVE x = y
  <2>1. CASE x = 1 \/ y = 1
    <3>1. \A j \in 2 .. n + 1 : t[j] # t[1]
      BY <1>3, <1>5
    <3>2. \A j \in 1 .. n + 1 : j # 1 => j \in 2 .. n + 1
      BY <1>1
    <3> QED BY <1>6, <2>1, <3>1, <3>2
  <2>2. CASE x # 1 /\ y # 1
    <3>1. x \in 2 .. n + 1 /\ y \in 2 .. n + 1
      BY <1>1, <2>2
    <3>2. s[x - 1] = s[y - 1] /\ x - 1 \in DOMAIN s /\ y - 1 \in DOMAIN s
      BY <1>1, <1>3, <1>6, <3>1
    <3>3. x - 1 = y - 1
      BY <3>2 DEF IsInjective
    <3> QED BY <3>1, <3>3
  <2> QED BY <2>1, <2>2
<1>7. IsInjective(t)
  BY <1>3, <1>6 DEF IsInjective
<1>8. ToSet(t) = ToSet(s) \cup {e}
  <2>1. ToSet(t) \subseteq ToSet(s) \cup {e}
    <3> SUFFICES ASSUME NEW j \in 1 .. n + 1 PROVE t[j] \in ToSet(s) \cup {e}
      BY <1>4
    <3>1. j = 1 \/ j \in 2 .. n + 1
      BY <1>1
    <3> QED BY <1>3, <1>5, <3>1
  <2>2. e \in ToSet(t)
    <3>1. 1 \in 1 .. n + 1
      BY <1>1
    <3> QED BY <1>3, <1>4, <3>1
  <2>3. ASSUME NEW j \in 1 .. n PROVE s[j] \in ToSet(t)
    <3>1. j + 1 \in 2 .. n + 1 /\ j + 1 \in 1 .. n + 1 /\ (j + 1) - 1 = j
      BY <1>1
    <3>2. t[j + 1] = s[j]
      BY <1>3, <3>1
    <3> QED BY <1>4, <3>1, <3>2
  <2> QED BY <1>4, <2>1, <2>2, <2>3
<1> QED BY <1>2, <1>7, <1>8 DEF t

\* A handle with no block given back.
Frees(h, e, g) ==
  /\ Good(g) /\ g.a = h.a /\ Sets(h.es, g.es, e, Unused)

\* A handle with no block given back.
LEMMA HandleFreedIs ==
  ASSUME NEW h, Good(h), NEW e \in DOMAIN h.es, h.es[e].used, h.es[e].at = 0
  PROVE  Frees(h, e, HandleFreed(h, e))
<1> DEFINE es == h.es
           sp == h.spare
           fs == EntrySet(es, e, Unused)
           tl == <<e>> \o sp
           g == HeapOf(h.a, fs, tl, h.size)
           k == HandleFreed(h, e)
<1>1. /\ IsHeap(h) /\ Laid(h.a) /\ Sized(Last(h.a), h.size) /\ es \in Seq(HandleEntry)
      /\ Spares(es, sp) /\ Blank(es) /\ Agree(Used(h.a), es)
  BY DEF Good
<1>2. k = [h EXCEPT !.es = fs, !.spare = tl]
  BY DEF HandleFreed, EntrySet
<1>3. k = g
  <2>1. IsHeap(h)
    BY <1>1
  <2>2. [h EXCEPT !.es = fs, !.spare = tl] = g
    BY <2>1, SpareIs, ZenonT(20)
  <2> QED BY <1>2, <2>2
<1>4. Sets(es, fs, e, Unused)
  BY <1>1, UnusedIs, EntrySetIs
<1>5. e \in DOMAIN es /\ es[e].used /\ es[e].at = 0
  OBVIOUS
<1>6. /\ sp \in Seq(DOMAIN es) /\ IsInjective(sp)
      /\ ToSet(sp) = {d \in DOMAIN es : ~es[d].used} /\ e \notin ToSet(sp)
  BY <1>1, <1>5 DEF Spares
<1>7. tl \in Seq(DOMAIN es) /\ IsInjective(tl) /\ ToSet(tl) = ToSet(sp) \cup {e}
  <2> DEFINE S == DOMAIN es
  <2>1. sp \in Seq(S) /\ IsInjective(sp) /\ e \in S /\ e \notin ToSet(sp)
    BY <1>5, <1>6
  <2> HIDE DEF S, sp
  <2>2. tl \in Seq(S) /\ IsInjective(tl) /\ ToSet(tl) = ToSet(sp) \cup {e}
    BY <2>1, PushIs
  <2> QED BY <2>2 DEF S
<1> HIDE DEF fs, es, k, tl
<1>8. g.a = h.a /\ g.es = fs /\ g.spare = tl /\ g.size = h.size /\ IsHeap(g)
  BY HeapOfIs
<1> HIDE DEF g, sp
<1>9. /\ fs \in Seq(HandleEntry) /\ DOMAIN fs = DOMAIN es /\ fs[e] = Unused
      /\ \A d \in DOMAIN es : d # e => fs[d] = es[d]
  BY <1>4 DEF Sets
<1>10. ~fs[e].used /\ fs[e].at = 0
  BY <1>9, UnusedIs
<1>11. ToSet(tl) = {d \in DOMAIN fs : ~fs[d].used}
  BY <1>5, <1>6, <1>7, <1>9, <1>10
<1>12. Spares(fs, tl)
  BY <1>7, <1>9, <1>11 DEF Spares
<1>13. Blank(fs)
  BY <1>1, <1>9 DEF Blank
<1>14. Agree(Used(h.a), fs)
  <2> DEFINE U == Used(h.a)
             x == NewArena(es[e].at - 6, "moveable", e)
  <2>1. U \subseteq Arena
    BY <1>1, MemberIs DEF Used
  <2>2. \A z \in U : z.is = "moveable" => z.entry # e
    <3>1. \A z \in U : z.is = "moveable" => es[z.entry].at = z.at + 6 /\ z.at \in Nat
      BY <1>1, <2>1, ArenaIs DEF Agree
    <3> QED BY <1>5, <3>1
  <2>3. Agree(U, es)
    BY <1>1
  <2> HIDE DEF U
  <2>4. Agree(U, fs)
    BY <1>9, <1>10, <2>2, <2>3 DEF Agree
  <2> QED BY <2>4 DEF U
<1>15. Good(g)
  BY <1>1, <1>8, <1>9, <1>12, <1>13, <1>14 DEF Good
<1>16. Frees(h, e, g)
  BY <1>4, <1>8, <1>15 DEF Frees, es
<1>17. Frees(h, e, k)
  BY <1>3, <1>16
<1> QED BY <1>17 DEF k

\* What may come of a call that makes a block.
Outcome(h, g, r) ==
  Leads(h, g) /\ (r # 0 => Full(g, r, FALSE, Apart(h.a)))

\* What a refusal promises, if it promises anything.
LEMMA RefusalIs ==
  ASSUME NEW g, NEW r, NEW still \in BOOLEAN, NEW apart, Full(g, r, still, apart)
  PROVE  Refusal(r, still) # 0 => Full(g, Refusal(r, still), FALSE, apart)
<1>1. CASE still
  BY <1>1 DEF Refusal
<1>2. CASE ~still
  <2>1. Refusal(r, still) = r /\ still = FALSE
    BY <1>2 DEF Refusal
  <2> QED BY <2>1
<1> QED BY <1>1, <1>2

\* An entry after a compaction.
LEMMA SparedEntry ==
  ASSUME NEW es \in Seq(HandleEntry), NEW fs, Spared(es, fs), NEW e \in DOMAIN es
  PROVE  /\ e \in DOMAIN fs /\ fs[e].used = es[e].used /\ fs[e].level = es[e].level
         /\ fs[e].locks = es[e].locks /\ (es[e].at = 0 => fs[e].at = 0)
         /\ (es[e].locks > 0 => fs[e].at = es[e].at) /\ fs[e] \in HandleEntry
<1>1. Alike(es, fs)
  BY DEF Spared
<1>2. DOMAIN fs = DOMAIN es /\ fs \in Seq(HandleEntry)
  BY <1>1, AlikeDomain DEF Alike
<1>3. fs[e].used = es[e].used /\ fs[e].level = es[e].level /\ fs[e].locks = es[e].locks
  BY <1>1 DEF Alike
<1>4. (es[e].at = 0 => fs[e].at = 0) /\ (es[e].locks > 0 => fs[e].at = es[e].at)
  BY DEF Spared
<1>5. fs[e] \in HandleEntry
  BY <1>2
<1> QED BY <1>2, <1>3, <1>4, <1>5

\* A free handle's return makes no room.
LEMMA FullFreed ==
  ASSUME NEW t, Good(t), NEW e \in DOMAIN t.es, t.es[e].at = 0, NEW g, Frees(t, e, g),
         NEW span, NEW still, NEW apart, Full(t, span, still, apart)
  PROVE  Full(g, span, still, apart)
<1>1. /\ g.a = t.a /\ DOMAIN g.es = DOMAIN t.es /\ g.es[e] = Unused
      /\ \A d \in DOMAIN t.es : d # e => g.es[d] = t.es[d]
  BY DEF Frees, Sets
<1>2. Laid(t.a) /\ Agree(Used(t.a), t.es)
  BY DEF Good
<1>3. ASSUME NEW f \in FreeIn(t.a), MayMove(t.a, g.es, f - 1) PROVE MayMove(t.a, t.es, f - 1)
  <2> DEFINE x == t.a[f - 1]
  <2>1. f - 1 \in 1 .. Len(t.a)
    BY <1>2, PutAround
  <2>2. x.is = "moveable" /\ g.es[x.entry].locks = 0
    BY <1>3 DEF MayMove
  <2>3. x \in Used(t.a)
    BY <1>2, <2>1, <2>2, FreeAtIs
  <2>4. x.at \in Nat
    BY <1>2, <2>1, LaidIs
  <2>5. x.entry \in DOMAIN t.es /\ t.es[x.entry].at = x.at + 6
    BY <1>2, <2>2, <2>3 DEF Agree
  <2>6. x.entry # e
    BY <2>4, <2>5
  <2>7. t.es[x.entry].locks = 0
    BY <1>1, <2>2, <2>5, <2>6
  <2> QED BY <2>2, <2>7 DEF MayMove
<1>4. NoneBelow(t.a, t.es, 1) => NoneBelow(t.a, g.es, 1)
  BY <1>3 DEF NoneBelow
<1>5. None(t.es) => None(g.es)
  <2>1. ~Discardable(Unused)
    BY UnusedIs DEF Discardable
  <2> QED BY <1>1, <2>1 DEF None
<1>6. /\ \A f \in FreeIn(t.a) : Span(t.a, f) < span
      /\ ~still => /\ apart => NoneBelow(t.a, t.es, 1)
                   /\ FreeIn(t.a) # {} => None(t.es)
  BY DEF Full
<1> QED BY <1>1, <1>4, <1>5, <1>6 DEF Full

\* An entry with another level; and with another lock count.
Levelled(x, level) == [x EXCEPT !.level = level]
Counting(x, count) == [x EXCEPT !.locks = count]

\* A handle of another level.
LEMMA LevelledIs ==
  ASSUME NEW x \in HandleEntry, NEW level \in 0 .. 15
  PROVE  /\ Levelled(x, level) \in HandleEntry /\ Levelled(x, level).used = x.used
         /\ Levelled(x, level).at = x.at
BY DEF HandleEntry, Levelled

\* A handle with another lock count.
LEMMA CountingIs ==
  ASSUME NEW x \in HandleEntry, NEW count \in 0 .. CountLimit
  PROVE  /\ Counting(x, count) \in HandleEntry /\ Counting(x, count).used = x.used
         /\ Counting(x, count).at = x.at /\ Counting(x, count).level = x.level
BY DEF HandleEntry, Counting

\* A handle that was given gets its block.
LEMMA BlockLinked ==
  ASSUME NEW h, Good(h), NEW hn, Gives(h, hn), NEW b, Got(hn.h, b), NEW level \in 0 .. 15
  PROVE  Leads(h, [Linked(b.h, b.at, hn.e) EXCEPT !.es[hn.e].level = level])
<1> DEFINE e == hn.e
           k == hn.h
           t == b.h
           l == Linked(t, b.at, e)
           x == Levelled(l.es[e], level)
           g == [l EXCEPT !.es = EntrySet(l.es, e, x)]
           r == [l EXCEPT !.es[e].level = level]
<1>1. /\ Leads(h, k) /\ e \in DOMAIN k.es /\ k.es[e].used /\ k.es[e].at = 0
      /\ (e \in DOMAIN h.es => ~h.es[e].used)
  BY DEF Gives
<1>2. /\ Good(k) /\ (NoPast(h.a) => NoPast(k.a)) /\ (Apart(h.a) => Apart(k.a))
      /\ Treated(h.es, k.es) /\ Fixes(h.a) \subseteq Fixes(k.a)
  BY <1>1 DEF Leads
<1>3. /\ Good(t) /\ NewArena(b.at, "fixed", 0) \in Used(t.a) /\ b.at \in Nat
      /\ b.at + 12 <= Highest /\ Fixes(t.a) \ {NewArena(b.at, "fixed", 0)} = Fixes(k.a)
      /\ Spared(k.es, t.es)
      /\ (NoPast(k.a) => NoPast(t.a)) /\ (Apart(k.a) => Apart(t.a))
  BY GotIs
<1>4. k.es \in Seq(HandleEntry)
  BY <1>2 DEF Good
<1>5. e \in DOMAIN t.es /\ t.es[e].used /\ t.es[e].at = 0
  BY <1>1, <1>3, <1>4, SparedEntry
<1>6. r = g
  BY DEF EntrySet, Levelled
<1> HIDE DEF r, k, t, e, l
<1>7. Links(t, b.at, e, l)
  BY <1>3, <1>5, LinkedIs DEF l
<1>8. /\ Good(l) /\ (Apart(t.a) => Apart(l.a)) /\ (NoPast(t.a) => NoPast(l.a))
      /\ Fixes(l.a) = Fixes(t.a) \ {NewArena(b.at, "fixed", 0)}
      /\ DOMAIN l.es = DOMAIN t.es /\ (\A d \in DOMAIN t.es : d # e => l.es[d] = t.es[d])
      /\ l.es[e].used
  BY <1>5, <1>7 DEF Links, Placing
<1>9. x \in HandleEntry /\ x.used /\ x.at = l.es[e].at
  <2>1. l.es[e] \in HandleEntry
    BY <1>5, <1>8, EntryIs
  <2> QED BY <1>8, <2>1, LevelledIs
<1> HIDE DEF x
<1>10. Amends(l, e, x, g)
  BY <1>5, <1>8, <1>9, AmendedIs
<1> HIDE DEF g
<1>11. /\ Good(g) /\ g.a = l.a /\ DOMAIN g.es = DOMAIN l.es
       /\ \A d \in DOMAIN l.es : d # e => g.es[d] = l.es[d]
  BY <1>10 DEF Amends, Sets
<1>12. Treated(h.es, t.es)
  BY <1>2, <1>3, <1>4, SparedTreated, TreatedTwice
<1>13. Treated(h.es, g.es)
  <2>1. DOMAIN t.es \subseteq DOMAIN g.es /\ \A d \in DOMAIN t.es : d # e => g.es[d] = t.es[d]
    BY <1>8, <1>11
  <2> QED BY <1>1, <1>12, <2>1, TreatedBut
<1>14. Fixes(h.a) \subseteq Fixes(g.a)
  BY <1>2, <1>3, <1>8, <1>11
<1>15. (NoPast(h.a) => NoPast(g.a)) /\ (Apart(h.a) => Apart(g.a))
  BY <1>2, <1>3, <1>8, <1>11
<1>16. Leads(h, g)
  BY <1>11, <1>13, <1>14, <1>15 DEF Leads
<1>17. Leads(h, r)
  BY <1>6, <1>16
<1> QED BY <1>17 DEF r, l, t, e

\* It is given back where there is no room for its block.
LEMMA BlockRefused ==
  ASSUME NEW h, Good(h), NEW hn, Gives(h, hn), NEW b, NEW span, NEW still,
         Refuses(hn.h, b, span, still)
  PROVE  /\ Leads(h, HandleFreed(b.h, hn.e)) /\ Full(HandleFreed(b.h, hn.e), span, still, Apart(h.a))
<1> DEFINE e == hn.e
           k == hn.h
           t == b.h
           g == HandleFreed(t, e)
<1>1. /\ Leads(h, k) /\ e \in DOMAIN k.es /\ k.es[e].used /\ k.es[e].at = 0
      /\ (e \in DOMAIN h.es => ~h.es[e].used)
  BY DEF Gives
<1>2. /\ Good(k) /\ (NoPast(h.a) => NoPast(k.a)) /\ (Apart(h.a) => Apart(k.a))
      /\ Treated(h.es, k.es) /\ Fixes(h.a) \subseteq Fixes(k.a)
  BY <1>1 DEF Leads
<1>3. Makes(k, t, {}) /\ Full(t, span, still, Apart(k.a))
  BY DEF Refuses
<1> HIDE DEF k, t, e
<1>4. Leads(k, t) /\ Spared(k.es, t.es) /\ Good(t)
  BY <1>2, <1>3, MakesLeads DEF Makes
<1>5. Leads(h, t)
  BY <1>1, <1>4, LeadsOn
<1>6. k.es \in Seq(HandleEntry)
  BY <1>2 DEF Good
<1>7. e \in DOMAIN t.es /\ t.es[e].used /\ t.es[e].at = 0
  BY <1>1, <1>4, <1>6, SparedEntry
<1>8. Frees(t, e, g)
  BY <1>4, <1>7, HandleFreedIs
<1> HIDE DEF g
<1>9. Full(t, span, still, Apart(h.a))
  BY <1>2, <1>3 DEF Full
<1>10. Full(g, span, still, Apart(h.a))
  BY <1>4, <1>7, <1>8, <1>9, FullFreed
<1>11. /\ Good(g) /\ g.a = t.a /\ DOMAIN g.es = DOMAIN t.es
       /\ \A d \in DOMAIN t.es : d # e => g.es[d] = t.es[d]
  BY <1>8 DEF Frees, Sets
<1>12. /\ Treated(h.es, t.es) /\ Fixes(h.a) \subseteq Fixes(t.a)
       /\ (NoPast(h.a) => NoPast(t.a)) /\ (Apart(h.a) => Apart(t.a))
  BY <1>5 DEF Leads
<1>13. Treated(h.es, g.es)
  BY <1>1, <1>11, <1>12, TreatedBut
<1>14. Leads(h, g)
  BY <1>11, <1>12, <1>13 DEF Leads
<1> QED BY <1>10, <1>14 DEF g, t, e

\* LocalAlloc, of a fixed block and of a moveable one.
LEMMA AllocFixedIs ==
  ASSUME NEW h, Good(h), NEW n \in Nat, NEW still \in BOOLEAN
  PROVE  LET b == Alloc(h, n, FALSE, still) IN Outcome(h, b.h, Refusal(b.refused, still))
<1> DEFINE b == Alloc(h, n, FALSE, still)
<1>1. Got(h, b) \/ \E span \in Nat \ {0} : Refuses(h, b, span, still)
  BY AllocIs
<1> HIDE DEF b
<1>2. CASE Got(h, b)
  <2>1. Makes(h, b.h, {NewArena(b.at, "fixed", 0)}) /\ b.refused = 0
    BY <1>2 DEF Got
  <2>2. Leads(h, b.h)
    BY <2>1, MakesLeads
  <2>3. Refusal(b.refused, still) = 0
    BY <2>1 DEF Refusal
  <2>4. Outcome(h, b.h, Refusal(b.refused, still))
    BY <2>2, <2>3 DEF Outcome
  <2> QED BY <2>4 DEF b
<1>3. CASE \E span \in Nat \ {0} : Refuses(h, b, span, still)
  <2>1. PICK span \in Nat \ {0} : Refuses(h, b, span, still)
    BY <1>3
  <2>2. Makes(h, b.h, {}) /\ b.refused = span /\ Full(b.h, span, still, Apart(h.a))
    BY <2>1 DEF Refuses
  <2>3. Leads(h, b.h)
    BY <2>2, MakesLeads
  <2>4. Refusal(b.refused, still) # 0 => Full(b.h, Refusal(b.refused, still), FALSE, Apart(h.a))
    BY <2>2, RefusalIs
  <2>5. Outcome(h, b.h, Refusal(b.refused, still))
    BY <2>3, <2>4 DEF Outcome
  <2> QED BY <2>5 DEF b
<1> QED BY <1>1, <1>2, <1>3

\* LocalAlloc, moveable.
LEMMA AllocBlockIs ==
  ASSUME NEW h, Good(h), NEW still \in BOOLEAN, NEW hn, Gives(h, hn) \/ NoHandle(h, hn, still),
         NEW n \in Nat, NEW level \in 0 .. 15, AllocBlock(hn, n, level, still)
  PROVE  \E g, r : Become(g, r) /\ Outcome(h, g, r)
<1> DEFINE b == Alloc(hn.h, n, TRUE, still)
           l == [Linked(b.h, b.at, hn.e) EXCEPT !.es[hn.e].level = level]
<1>1. IF hn.e = 0 THEN Become(hn.h, Refusal(hn.refused, still))
      ELSE IF n = 0 THEN Become(hn.h, 0)
      ELSE Become(IF b.at = 0 THEN HandleFreed(b.h, hn.e) ELSE l, Refusal(b.refused, still))
  BY DEF AllocBlock, Allocated
<1>2. CASE NoHandle(h, hn, still)
  <2>1. /\ hn.e = 0 /\ Leads(h, hn.h) /\ Full(hn.h, hn.refused, still, Apart(h.a))
    BY <1>2 DEF NoHandle
  <2>2. Refusal(hn.refused, still) # 0 => Full(hn.h, Refusal(hn.refused, still), FALSE, Apart(h.a))
    BY <2>1, RefusalIs
  <2>3. Outcome(h, hn.h, Refusal(hn.refused, still))
    BY <2>1, <2>2 DEF Outcome
  <2>4. Become(hn.h, Refusal(hn.refused, still))
    BY <1>1, <2>1
  <2> QED BY <2>3, <2>4
<1>3. CASE Gives(h, hn) /\ n = 0
  <2>1. hn.e # 0 /\ Leads(h, hn.h)
    BY <1>3 DEF Gives
  <2>2. Outcome(h, hn.h, 0)
    BY <2>1 DEF Outcome
  <2>3. Become(hn.h, 0)
    BY <1>1, <1>3, <2>1
  <2> QED BY <2>2, <2>3
<1>4. CASE Gives(h, hn) /\ n # 0
  <2>1. hn.e # 0 /\ Good(hn.h)
    BY <1>4 DEF Gives, Leads
  <2>2. Got(hn.h, b) \/ \E span \in Nat \ {0} : Refuses(hn.h, b, span, still)
    BY <2>1, AllocIs
  <2>3. Become(IF b.at = 0 THEN HandleFreed(b.h, hn.e) ELSE l, Refusal(b.refused, still))
    BY <1>1, <1>4, <2>1
  <2>4. l = [Linked(b.h, b.at, hn.e) EXCEPT !.es[hn.e].level = level]
    OBVIOUS
  <2> HIDE DEF b, l
  <2>5. CASE Got(hn.h, b)
    <3>1. b.at # 0 /\ b.refused = 0
      BY <2>5 DEF Got
    <3>2. Leads(h, l)
      BY <1>4, <2>4, <2>5, BlockLinked
    <3>3. Refusal(b.refused, still) = 0
      BY <3>1 DEF Refusal
    <3>4. Outcome(h, l, Refusal(b.refused, still))
      BY <3>2, <3>3 DEF Outcome
    <3>5. Become(l, Refusal(b.refused, still))
      BY <2>3, <3>1
    <3> QED BY <3>4, <3>5
  <2>6. CASE \E span \in Nat \ {0} : Refuses(hn.h, b, span, still)
    <3>1. PICK span \in Nat \ {0} : Refuses(hn.h, b, span, still)
      BY <2>6
    <3> DEFINE f == HandleFreed(b.h, hn.e)
    <3>2. Leads(h, f) /\ Full(f, span, still, Apart(h.a))
      BY <1>4, <3>1, BlockRefused
    <3>3. b.at = 0 /\ b.refused = span
      BY <3>1 DEF Refuses
    <3>4. Become(f, Refusal(b.refused, still))
      BY <2>3, <3>3
    <3> HIDE DEF f
    <3>5. Refusal(b.refused, still) # 0 => Full(f, Refusal(b.refused, still), FALSE, Apart(h.a))
      BY <3>2, <3>3, RefusalIs
    <3>6. Outcome(h, f, Refusal(b.refused, still))
      BY <3>2, <3>5 DEF Outcome
    <3> QED BY <3>4, <3>6
  <2> QED BY <2>2, <2>5, <2>6
<1> QED BY <1>2, <1>3, <1>4

-----------------------------------------------------------------------------
(* Calls for what a program holds.                                         *)
\* What may become of handles but for those of some that a call is made for.
TreatedBar(es, fs, X) ==
  /\ DOMAIN es \subseteq DOMAIN fs
  /\ \A e \in DOMAIN es : es[e].locks > 0 /\ fs[e].at # es[e].at => e \in X
  /\ \A e, d \in DOMAIN es :
       /\ Discardable(es[e]) /\ fs[e].at = 0 /\ fs[e].used
       /\ Discardable(es[d]) /\ es[d].level > es[e].level
       => fs[d].at = 0 \/ e \in X

\* What a call may make of a heap, but for the handles and the fixed blocks of its own.
LeadsBar(h, g, X, F) ==
  /\ Good(g) /\ (NoPast(h.a) => NoPast(g.a)) /\ (Apart(h.a) => Apart(g.a))
  /\ TreatedBar(h.es, g.es, X) /\ Fixes(h.a) \ F \subseteq Fixes(g.a)

\* Of one handle's, where it has no block if it was discarded.
LEMMA TreatedOne ==
  ASSUME NEW es, Blank(es), NEW fs, Treated(es, fs), NEW e \in DOMAIN es,
         NEW gs, DOMAIN fs \subseteq DOMAIN gs, \A d \in DOMAIN fs : d # e => gs[d] = fs[d],
         Discardable(es[e]) /\ fs[e].at = 0 => gs[e].at = 0
  PROVE  TreatedBar(es, gs, {e})
<1>1. DOMAIN es \subseteq DOMAIN fs
  BY DEF Treated
<1>2. ASSUME NEW c \in DOMAIN es, es[c].locks > 0, gs[c].at # es[c].at PROVE c \in {e}
  <2>1. es[c].used
    BY <1>2, UnusedIs DEF Blank
  <2>2. fs[c].at = es[c].at
    BY <1>2, <2>1 DEF Treated
  <2> QED BY <1>1, <1>2, <2>2
<1>3. ASSUME NEW c \in DOMAIN es, NEW d \in DOMAIN es, Discardable(es[c]), gs[c].at = 0,
             Discardable(es[d]), es[d].level > es[c].level, c # e
      PROVE  gs[d].at = 0
  <2>1. es[c].used /\ es[c].at # 0
    BY <1>3 DEF Discardable
  <2>2. fs[c].at = 0
    BY <1>1, <1>3
  <2>3. fs[d].at = 0
    BY <1>3, <2>1, <2>2 DEF Treated, Gone
  <2> QED BY <1>1, <1>3, <2>3
<1> QED BY <1>1, <1>2, <1>3 DEF TreatedBar

\* All treated as is allowed.
LEMMA TreatedNone ==
  ASSUME NEW es, Blank(es), NEW fs, Treated(es, fs)
  PROVE  TreatedBar(es, fs, {})
<1>1. DOMAIN es \subseteq DOMAIN fs
  BY DEF Treated
<1>2. ASSUME NEW c \in DOMAIN es, es[c].locks > 0 PROVE fs[c].at = es[c].at
  <2>1. es[c].used
    BY <1>2, UnusedIs DEF Blank
  <2> QED BY <1>2, <2>1 DEF Treated
<1>3. ASSUME NEW c \in DOMAIN es, NEW d \in DOMAIN es, Discardable(es[c]), fs[c].at = 0,
             Discardable(es[d]), es[d].level > es[c].level
      PROVE  fs[d].at = 0
  <2>1. es[c].used /\ es[c].at # 0
    BY <1>3 DEF Discardable
  <2> QED BY <1>3, <2>1 DEF Treated, Gone
<1> QED BY <1>1, <1>2, <1>3 DEF TreatedBar

\* Handles left as they are.
LEMMA TreatedSelf ==
  ASSUME NEW es \in Seq(HandleEntry)
  PROVE  Treated(es, es)
BY SparedSelf, SparedTreated

\* A call that makes a block does so for no handle.
LEMMA LeadsNone ==
  ASSUME NEW h, Good(h), NEW g, Leads(h, g)
  PROVE  LeadsBar(h, g, {}, {})
<1>1. TreatedBar(h.es, g.es, {})
  BY TreatedNone DEF Good, Leads
<1> QED BY <1>1 DEF LeadsBar, Leads

\* What a program holds.
LEMMA ValueIs ==
  ASSUME NEW x
  PROVE  /\ Handle(x).on = "handle" /\ Handle(x).of = x
         /\ Fixed(x).on = "fixed" /\ Fixed(x).of = x
BY DEF Handle, Fixed

\* Where the arena of a handle, and of a fixed block is.
LEMMA ArenaOfIs ==
  ASSUME NEW h, NEW x
  PROVE  /\ ArenaOf(h, Handle(x)) = IF h.es[x].at = 0 THEN 0 ELSE h.es[x].at - 6
         /\ ArenaOf(h, Fixed(x)) = x
<1>1. Handle(x).on # "fixed"
  BY ValueIs
<1> QED BY <1>1, ValueIs DEF ArenaOf

\* What is neither free nor moveable, the same.
LEMMA SolidFixes ==
  ASSUME NEW a, NEW b, Solid(b) = Solid(a)
  PROVE  Fixes(b) = Fixes(a) /\ (NoPast(a) => NoPast(b))
<1>1. Fixes(a) = {x \in Solid(a) : x.is = "fixed"} /\ Fixes(b) = {x \in Solid(b) : x.is = "fixed"}
  BY DEF Fixes, Solid
<1>2. \A x \in Used(b) : x.is = "past" => x \in Solid(b)
  BY DEF Solid
<1>3. NoPast(a) => NoPast(b)
  BY <1>2 DEF NoPast, Solid
<1> QED BY <1>1, <1>3

\* A heap without a handle's block, and the handle with none.
Bare(h, e) ==
  [WithoutBlock(h, Handle(e)) EXCEPT !.es = EntrySet(h.es, e, Blockless(h.es[e]))]
Bares(h, e, k, g) ==
  /\ Good(g) /\ g.spare = h.spare /\ (NoPast(h.a) => NoPast(g.a)) /\ (Apart(h.a) => Apart(g.a))
  /\ Fixes(g.a) = Fixes(h.a) /\ Sets(h.es, g.es, e, Blockless(h.es[e]))
  /\ k = HeapOf(g.a, h.es, h.spare, h.size) /\ g = HeapOf(g.a, g.es, h.spare, h.size)
  /\ g.es = EntrySet(h.es, e, Blockless(h.es[e]))

\* The block of a handle given back.
LEMMA BareIs ==
  ASSUME NEW h, Good(h), NEW e \in DOMAIN h.es, h.es[e].used
  PROVE  Bares(h, e, WithoutBlock(h, Handle(e)), Bare(h, e))
<1> DEFINE k == WithoutBlock(h, Handle(e))
           fs == EntrySet(h.es, e, Blockless(h.es[e]))
           at == h.es[e].at - 6
           b == Freed(h.a, IndexOf(h.a, at))
           g == Bare(h, e)
<1>1. g = [k EXCEPT !.es = fs]
  BY DEF Bare
<1>2. IsHeap(h) /\ h.es \in Seq(HandleEntry) /\ h.es[e] \in HandleEntry /\ h.es[e].at \in Nat
  BY EntryIs DEF Good
<1>3. Blockless(h.es[e]) \in HandleEntry
  BY <1>2, BlocklessIs
<1>4. Sets(h.es, fs, e, Blockless(h.es[e]))
  <2> DEFINE x == Blockless(h.es[e])
  <2>1. x \in HandleEntry
    BY <1>3
  <2> HIDE DEF x
  <2>2. Sets(h.es, EntrySet(h.es, e, x), e, x)
    BY <1>2, <2>1, EntrySetIs
  <2> QED BY <2>2 DEF x
<1>5. CASE h.es[e].at = 0
  <2>1. ArenaOf(h, Handle(e)) = 0
    BY <1>5, ArenaOfIs
  <2>2. k = h
    BY <2>1 DEF WithoutBlock
  <2>3. Blockless(h.es[e]) = h.es[e]
    BY <1>2, <1>5 DEF Blockless, HandleEntry
  <2>4. fs = h.es
    BY <1>2, <2>3 DEF EntrySet
  <2>5. h = HeapOf(h.a, h.es, h.spare, h.size)
    BY <1>2 DEF IsHeap
  <2>6. [h EXCEPT !.es = h.es] = HeapOf(h.a, h.es, h.spare, h.size)
    <3> DEFINE es == h.es
    <3> HIDE DEF es
    <3>1. [h EXCEPT !.es = es] = HeapOf(h.a, es, h.spare, h.size)
      BY <1>2, ChangedIs
    <3> QED BY <3>1 DEF es
  <2> HIDE DEF g, k, fs
  <2>7. g = h
    BY <1>1, <2>2, <2>4, <2>5, <2>6
  <2>8. Sets(h.es, h.es, e, Blockless(h.es[e]))
    BY <1>4, <2>4
  <2>9. Bares(h, e, h, h)
    BY <2>4, <2>5, <2>8 DEF Bares, fs
  <2>10. Bares(h, e, k, g)
    BY <2>2, <2>7, <2>9
  <2> QED BY <2>10 DEF k, g
<1>6. CASE h.es[e].at # 0
  <2>1. ArenaOf(h, Handle(e)) = at
    BY <1>6, ArenaOfIs
  <2>2. at # 0
    <3>1. at \in Nat /\ NewArena(at, "moveable", e) \in Used(h.a)
      BY <1>6, BlockIs
    <3>2. IndexOf(h.a, at) \in 3 .. Len(h.a) - 1
      BY <1>6, BlockIs
    <3>3. h.a[IndexOf(h.a, at)] = NewArena(at, "moveable", e)
      BY <1>6, BlockIs
    <3>4. Laid(h.a)
      BY DEF Good
    <3> DEFINE i == IndexOf(h.a, at)
    <3>5. i \in 1 .. Len(h.a) /\ 1 \in 1 .. Len(h.a) /\ 1 < i
      BY <3>2, <3>4, LaidIs
    <3>6. h.a[1].at + 12 <= h.a[i].at /\ h.a[1].at \in Nat
      BY <3>4, <3>5, Rising, LaidIs
    <3>7. h.a[i].at = at
      BY <3>3, FieldsAre
    <3> HIDE DEF i, at
    <3> QED BY <3>6, <3>7
  <2>3. k = [h EXCEPT !.a = b]
    BY <2>1, <2>2 DEF WithoutBlock
  <2>4. k = HeapOf(b, h.es, h.spare, h.size)
    <3> HIDE DEF b
    <3> QED BY <1>2, <2>3, ChangedIs
  <2>5. [HeapOf(b, h.es, h.spare, h.size) EXCEPT !.es = fs] = HeapOf(b, fs, h.spare, h.size)
    <3> DEFINE es == h.es
               sp == h.spare
               n == h.size
    <3> HIDE DEF b, es, sp, n, fs
    <3>1. [HeapOf(b, es, sp, n) EXCEPT !.es = fs] = HeapOf(b, fs, sp, n)
      BY DEF HeapOf
    <3> QED BY <3>1 DEF es, sp, n
  <2>6. g = HeapOf(b, fs, h.spare, h.size)
    BY <1>1, <2>4, <2>5
  <2>7. fs = [h.es EXCEPT ![e] = Blockless(@)]
    BY DEF EntrySet
  <2>8. /\ Solid(b) = Solid(h.a) /\ (Apart(h.a) => Apart(b))
        /\ Good(HeapOf(b, [h.es EXCEPT ![e] = Blockless(@)], h.spare, h.size))
    <3> DEFINE q == at
    <3>1. q = h.es[e].at - 6
      OBVIOUS
    <3> HIDE DEF q
    <3>2. /\ Solid(Freed(h.a, IndexOf(h.a, q))) = Solid(h.a)
          /\ (Apart(h.a) => Apart(Freed(h.a, IndexOf(h.a, q))))
          /\ Good(HeapOf(Freed(h.a, IndexOf(h.a, q)), [h.es EXCEPT ![e] = Blockless(@)], h.spare, h.size))
      BY <1>6, <3>1, BlockDropped
    <3> QED BY <3>2 DEF q
  <2> HIDE DEF g, k, fs, b
  <2>9. Good(HeapOf(b, fs, h.spare, h.size))
    BY <2>7, <2>8
  <2>10. g.a = b /\ g.es = fs /\ g.spare = h.spare
    BY <2>6, HeapOfIs
  <2>11. Good(g) /\ g = HeapOf(g.a, g.es, h.spare, h.size) /\ k = HeapOf(g.a, h.es, h.spare, h.size)
    BY <2>4, <2>6, <2>9, <2>10
  <2>12. Fixes(g.a) = Fixes(h.a) /\ (NoPast(h.a) => NoPast(g.a))
    BY <2>8, <2>10, SolidFixes
  <2>13. Bares(h, e, k, g)
    BY <1>4, <2>8, <2>10, <2>11, <2>12 DEF Bares, fs
  <2> QED BY <2>13 DEF k, g
<1> QED BY <1>5, <1>6

\* Such records changed.
SetEntries(h, fs) == [h EXCEPT !.es = fs]
SetBlocks(h, b, fs) == [h EXCEPT !.a = b, !.es = fs]
SetHandles(h, fs, tl) == [h EXCEPT !.es = fs, !.spare = tl]

\* What those make of a heap.
LEMMA FieldsSet ==
  ASSUME NEW a, NEW es, NEW sp, NEW n, NEW b, NEW fs, NEW tl
  PROVE  /\ SetEntries(HeapOf(a, es, sp, n), fs) = HeapOf(a, fs, sp, n)
         /\ SetBlocks(HeapOf(a, es, sp, n), b, fs) = HeapOf(b, fs, sp, n)
         /\ SetHandles(HeapOf(a, es, sp, n), fs, tl) = HeapOf(a, fs, tl, n)
<1> DEFINE h == HeapOf(a, es, sp, n)
<1>1. IsHeap(h) /\ h.a = a /\ h.es = es /\ h.spare = sp /\ h.size = n
  BY HeapOfIs
<1> HIDE DEF h
<1>2. /\ [h EXCEPT !.es = fs] = HeapOf(h.a, fs, h.spare, h.size)
      /\ [h EXCEPT !.a = b, !.es = fs] = HeapOf(b, fs, h.spare, h.size)
      /\ [h EXCEPT !.es = fs, !.spare = tl] = HeapOf(h.a, fs, tl, h.size)
  <2>1. IsHeap(h)
    BY <1>1
  <2>2. /\ [h EXCEPT !.es = fs] = HeapOf(h.a, fs, h.spare, h.size)
        /\ [h EXCEPT !.a = b, !.es = fs] = HeapOf(b, fs, h.spare, h.size)
    BY <2>1, ChangedIs, ZenonT(20)
  <2>3. [h EXCEPT !.es = fs, !.spare = tl] = HeapOf(h.a, fs, tl, h.size)
    BY <2>1, SpareIs, ZenonT(20)
  <2> QED BY <2>2, <2>3
<1> QED BY <1>1, <1>2 DEF h, SetEntries, SetBlocks, SetHandles

\* What is done to the handle next makes no difference between the two.
Emptied(k, e) == [k EXCEPT !.es[e].at = 0]

\* It comes to the same.
LEMMA BareSame ==
  ASSUME NEW h, NEW e \in DOMAIN h.es, NEW k, NEW g, Bares(h, e, k, g), NEW at
  PROVE  /\ HandleFreed(k, e) = HandleFreed(g, e)
         /\ Linked(k, at, e) = Linked(g, at, e)
         /\ Emptied(k, e) = g
<1> DEFINE a == g.a
           es == h.es
           fs == EntrySet(es, e, Blockless(es[e]))
           sp == h.spare
           n == h.size
           u == HeapOf(a, es, sp, n)
           v == HeapOf(a, fs, sp, n)
           b == ReplaceAt(a, IndexOf(a, at), NewArena(at, "moveable", e))
<1>1. k = u /\ g = v
  BY DEF Bares
<1>2. e \in DOMAIN es
  OBVIOUS
<1>3. fs = [es EXCEPT ![e] = Blockless(@)]
  BY DEF EntrySet
<1> HIDE DEF a, es, fs, sp, n
<1>4. EntrySet(fs, e, Unused) = EntrySet(es, e, Unused)
  BY <1>3 DEF EntrySet
<1>5. PlaceGiven(fs, e, at) = PlaceGiven(es, e, at)
  <2> DEFINE p == at + 6
  <2> HIDE DEF p
  <2>1. [[es EXCEPT ![e] = Blockless(@)] EXCEPT ![e].at = p] = [es EXCEPT ![e].at = p]
    BY DEF Blockless
  <2> QED BY <1>3, <2>1 DEF PlaceGiven, p
<1>6. [es EXCEPT ![e].at = 0] = fs
  BY <1>3 DEF Blockless
<1>7. /\ IsHeap(u) /\ u.a = a /\ u.es = es /\ u.spare = sp /\ u.size = n
      /\ IsHeap(v) /\ v.a = a /\ v.es = fs /\ v.spare = sp /\ v.size = n
  BY HeapOfIs
<1> HIDE DEF u, v
<1>8. HandleFreed(u, e) = HandleFreed(v, e)
  <2>1. HandleFreed(u, e) = SetHandles(u, EntrySet(es, e, Unused), <<e>> \o sp)
    BY <1>7 DEF SetHandles, HandleFreed, EntrySet
  <2>2. HandleFreed(v, e) = SetHandles(v, EntrySet(fs, e, Unused), <<e>> \o sp)
    BY <1>7 DEF SetHandles, HandleFreed, EntrySet
  <2> DEFINE t == <<e>> \o sp
             q == EntrySet(es, e, Unused)
  <2> HIDE DEF t, q
  <2>3. SetHandles(u, q, t) = HeapOf(a, q, t, n)
    BY FieldsSet DEF u, v
  <2>4. SetHandles(v, q, t) = HeapOf(a, q, t, n)
    BY FieldsSet DEF u, v
  <2> QED BY <1>4, <2>1, <2>2, <2>3, <2>4 DEF t, q
<1>9. Linked(u, at, e) = Linked(v, at, e)
  <2> DEFINE q == PlaceGiven(es, e, at)
  <2>1. Linked(u, at, e) = SetBlocks(u, b, q)
    BY <1>7 DEF Linked, SetBlocks
  <2>2. Linked(v, at, e) = SetBlocks(v, b, PlaceGiven(fs, e, at))
    BY <1>7 DEF Linked, SetBlocks
  <2> HIDE DEF b, q
  <2>3. SetBlocks(u, b, q) = HeapOf(b, q, sp, n)
    BY FieldsSet DEF u, v
  <2>4. SetBlocks(v, b, q) = HeapOf(b, q, sp, n)
    BY FieldsSet DEF u, v
  <2> QED BY <1>5, <2>1, <2>2, <2>3, <2>4 DEF q
<1>10. Emptied(u, e) = v
  <2>1. Emptied(u, e) = SetEntries(u, fs)
    BY <1>6, <1>7 DEF SetEntries, Emptied
  <2>2. SetEntries(u, fs) = HeapOf(a, fs, sp, n)
    BY FieldsSet DEF u, v
  <2> QED BY <2>1, <2>2 DEF v
<1> QED BY <1>1, <1>8, <1>9, <1>10

\* A handle given back, with its block; and one left without.
LEMMA HandleGone ==
  ASSUME NEW h, Good(h), NEW e \in DOMAIN h.es, h.es[e].used
  PROVE  /\ LeadsBar(h, HandleFreed(WithoutBlock(h, Handle(e)), e), {e}, {})
         /\ LeadsBar(h, Emptied(WithoutBlock(h, Handle(e)), e), {e}, {})
<1> DEFINE k == WithoutBlock(h, Handle(e))
           g == Bare(h, e)
           f == HandleFreed(k, e)
           q == Emptied(k, e)
<1>1. Bares(h, e, k, g)
  BY BareIs
<1>2. h.es[e] \in HandleEntry /\ h.es \in Seq(HandleEntry) /\ Blank(h.es)
  BY DEF Good
<1> HIDE DEF k, g
<1>3. f = HandleFreed(g, e) /\ q = g
  BY <1>1, BareSame
<1> HIDE DEF f, q
<1>4. /\ Good(g) /\ Sets(h.es, g.es, e, Blockless(h.es[e])) /\ Fixes(g.a) = Fixes(h.a)
      /\ (NoPast(h.a) => NoPast(g.a)) /\ (Apart(h.a) => Apart(g.a))
  BY <1>1 DEF Bares
<1>5. DOMAIN g.es = DOMAIN h.es /\ g.es[e].used /\ g.es[e].at = 0
      /\ \A d \in DOMAIN h.es : d # e => g.es[d] = h.es[d]
  BY <1>2, <1>4, BlocklessIs DEF Sets
<1>6. Frees(g, e, f)
  BY <1>3, <1>4, <1>5, HandleFreedIs
<1>7. Good(f) /\ f.a = g.a /\ DOMAIN f.es = DOMAIN h.es
      /\ \A d \in DOMAIN h.es : d # e => f.es[d] = h.es[d]
  BY <1>5, <1>6 DEF Frees, Sets
<1>8. Treated(h.es, h.es) /\ ~ (Discardable(h.es[e]) /\ h.es[e].at = 0)
  BY <1>2, TreatedSelf DEF Discardable
<1>9. TreatedBar(h.es, f.es, {e}) /\ TreatedBar(h.es, g.es, {e})
  <2> DEFINE es == h.es
             fs == f.es
             gs == g.es
  <2>1. /\ Blank(es) /\ Treated(es, es) /\ e \in DOMAIN es /\ DOMAIN es \subseteq DOMAIN fs
        /\ DOMAIN es \subseteq DOMAIN gs /\ ~ (Discardable(es[e]) /\ es[e].at = 0)
        /\ (\A d \in DOMAIN es : d # e => fs[d] = es[d])
        /\ (\A d \in DOMAIN es : d # e => gs[d] = es[d])
    BY <1>2, <1>5, <1>7, <1>8
  <2> HIDE DEF es, fs, gs
  <2>2. TreatedBar(es, fs, {e})
    BY <2>1, TreatedOne
  <2>3. TreatedBar(es, gs, {e})
    BY <2>1, TreatedOne
  <2> QED BY <2>2, <2>3 DEF es, fs, gs
<1>10. LeadsBar(h, f, {e}, {})
  BY <1>4, <1>7, <1>9 DEF LeadsBar
<1>11. LeadsBar(h, g, {e}, {})
  BY <1>4, <1>9 DEF LeadsBar
<1>12. LeadsBar(h, q, {e}, {})
  BY <1>3, <1>11
<1> QED BY <1>10, <1>12 DEF f, q, k

\* A fixed block given back.
Drops(h, at, k) ==
  /\ Good(k) /\ k.es = h.es /\ (NoPast(h.a) => NoPast(k.a)) /\ (Apart(h.a) => Apart(k.a))
  /\ Fixes(k.a) = Fixes(h.a) \ {NewArena(at, "fixed", 0)} /\ ArenaOf(h, Fixed(at)) # 0

\* It is dropped.
LEMMA FixedDropped ==
  ASSUME NEW h, Good(h), NEW at, NewArena(at, "fixed", 0) \in Fixes(h.a)
  PROVE  Drops(h, at, WithoutBlock(h, Fixed(at)))
<1> DEFINE a == h.a
           x == NewArena(at, "fixed", 0)
           i == IndexOf(a, at)
           b == Freed(a, i)
           k == WithoutBlock(h, Fixed(at))
           g == HeapOf(b, h.es, h.spare, h.size)
<1>1. /\ IsHeap(h) /\ Laid(a) /\ Sized(Last(a), h.size) /\ h.es \in Seq(HandleEntry)
      /\ Spares(h.es, h.spare) /\ Blank(h.es) /\ Agree(Used(a), h.es)
  BY DEF Good
<1>2. x.at = at /\ x.is = "fixed"
  BY FieldsAre
<1>3. x \in Used(a)
  BY DEF Fixes
<1> HIDE DEF x
<1>4. x \in ToSet(a)
  BY <1>3 DEF Used
<1>5. i \in 1 .. Len(a) /\ a[i] = x
  BY <1>1, <1>2, <1>4, MemberIs
<1>6. a[1].is = "kernel" /\ a[2].is = "kernel" /\ a[Len(a)].is = "kernel" /\ Len(a) \in Nat
      /\ Len(a) >= 3
  BY <1>1, LaidIs DEF Laid
<1>7. i # 1 /\ i # 2 /\ i # Len(a)
  BY <1>2, <1>5, <1>6
<1>8. i \in 3 .. Len(a) - 1 /\ 1 \in 1 .. Len(a) /\ 1 < i
  BY <1>5, <1>6, <1>7
<1>9. at # 0
  <2>1. a[1].at + 12 <= a[i].at /\ a[1].at \in Nat
    BY <1>1, <1>5, <1>8, Rising, LaidIs
  <2> QED BY <1>2, <1>5, <2>1
<1>10. ArenaOf(h, Fixed(at)) = at
  BY ArenaOfIs
<1>11. k = [h EXCEPT !.a = b]
  BY <1>9, <1>10 DEF WithoutBlock
<1>12. a[i].is # "free"
  BY <1>2, <1>5
<1> HIDE DEF i
<1>13. /\ Laid(b) /\ Last(b) = Last(a) /\ Used(b) = Used(a) \ {a[i]} /\ (Apart(a) => Apart(b))
  BY <1>1, <1>8, <1>12, FreedKeeps
<1> HIDE DEF b, k
<1>14. k = g
  BY <1>1, <1>11, ChangedIs
<1>15. g.a = b /\ g.es = h.es /\ g.spare = h.spare /\ g.size = h.size /\ IsHeap(g)
  BY HeapOfIs
<1> HIDE DEF g
<1>16. Used(b) = Used(a) \ {x}
  BY <1>5, <1>13
<1>17. Agree(Used(b), h.es)
  <2>1. \A z : z.is = "moveable" => (z \in Used(a) <=> z \in Used(b))
    BY <1>2, <1>16
  <2> QED BY <1>1, <2>1, AgreeOther
<1>18. Good(g)
  BY <1>1, <1>13, <1>15, <1>17 DEF Good
<1>19. Fixes(b) = Fixes(a) \ {x} /\ (NoPast(a) => NoPast(b))
  BY <1>16 DEF Fixes, NoPast
<1>20. Drops(h, at, g)
  BY <1>9, <1>10, <1>13, <1>15, <1>18, <1>19 DEF Drops, x
<1>21. Drops(h, at, k)
  BY <1>14, <1>20
<1> QED BY <1>21 DEF k

\* LocalFree of a fixed block.
LEMMA FixedGone ==
  ASSUME NEW h, Good(h), NEW at, NewArena(at, "fixed", 0) \in Fixes(h.a)
  PROVE  LeadsBar(h, WithoutBlock(h, Fixed(at)), {}, {NewArena(at, "fixed", 0)})
<1> DEFINE k == WithoutBlock(h, Fixed(at))
<1>1. Drops(h, at, k)
  BY FixedDropped
<1> HIDE DEF k
<1>2. TreatedBar(h.es, h.es, {})
  BY TreatedSelf, TreatedNone DEF Good
<1>3. TreatedBar(h.es, k.es, {})
  BY <1>1, <1>2 DEF Drops
<1>4. LeadsBar(h, k, {}, {NewArena(at, "fixed", 0)})
  BY <1>1, <1>3 DEF Drops, LeadsBar
<1> QED BY <1>4 DEF k

\* A new block linked to the handle it was made for, which has none.
LEMMA GotLinked ==
  ASSUME NEW h, Good(h), NEW e \in DOMAIN h.es, h.es[e].used, NEW b, Got(h, b),
         NEW g, Good(g), g.es[e].used, g.es[e].at = 0, DOMAIN g.es = DOMAIN b.h.es,
         \A d \in DOMAIN b.h.es : d # e => g.es[d] = b.h.es[d],
         Fixes(g.a) = Fixes(b.h.a), NoPast(b.h.a) => NoPast(g.a), Apart(b.h.a) => Apart(g.a),
         ~ (Discardable(h.es[e]) /\ b.h.es[e].at = 0)
  PROVE  LeadsBar(h, Linked(g, b.at, e), {e}, {})
<1> DEFINE t == b.h
           l == Linked(g, b.at, e)
<1>1. /\ Good(t) /\ NewArena(b.at, "fixed", 0) \in Used(t.a) /\ b.at \in Nat
      /\ b.at + 12 <= Highest /\ Fixes(t.a) \ {NewArena(b.at, "fixed", 0)} = Fixes(h.a)
      /\ Spared(h.es, t.es)
      /\ (NoPast(h.a) => NoPast(t.a)) /\ (Apart(h.a) => Apart(t.a))
  BY GotIs
<1>2. h.es \in Seq(HandleEntry) /\ Blank(h.es)
  BY DEF Good
<1>3. e \in DOMAIN t.es
  BY <1>1, <1>2, SparedEntry
<1>4. NewArena(b.at, "fixed", 0) \in Used(g.a)
  <2>1. NewArena(b.at, "fixed", 0) \in Fixes(t.a)
    BY <1>1, FieldsAre DEF Fixes
  <2>2. NewArena(b.at, "fixed", 0) \in Fixes(g.a)
    BY <2>1
  <2> QED BY <2>2 DEF Fixes
<1>5. e \in DOMAIN g.es
  BY <1>3
<1>6. Links(g, b.at, e, l)
  BY <1>1, <1>4, <1>5, LinkedIs
<1> HIDE DEF l
<1>7. /\ Good(l) /\ (Apart(g.a) => Apart(l.a)) /\ (NoPast(g.a) => NoPast(l.a))
      /\ Fixes(l.a) = Fixes(g.a) \ {NewArena(b.at, "fixed", 0)}
      /\ DOMAIN l.es = DOMAIN t.es /\ \A d \in DOMAIN t.es : d # e => l.es[d] = t.es[d]
  BY <1>6 DEF Links, Placing
<1>8. Treated(h.es, t.es)
  BY <1>1, <1>2, SparedTreated
<1>9. TreatedBar(h.es, l.es, {e})
  <2> DEFINE es == h.es
             fs == t.es
             gs == l.es
  <2>1. /\ Blank(es) /\ Treated(es, fs) /\ e \in DOMAIN es /\ DOMAIN fs \subseteq DOMAIN gs
        /\ ~ (Discardable(es[e]) /\ fs[e].at = 0)
        /\ (\A d \in DOMAIN fs : d # e => gs[d] = fs[d])
    BY <1>2, <1>7, <1>8
  <2> HIDE DEF es, fs, gs
  <2>2. TreatedBar(es, gs, {e})
    BY <2>1, TreatedOne
  <2> QED BY <2>2 DEF es, gs
<1>10. Fixes(l.a) = Fixes(h.a)
  BY <1>1, <1>7
<1>11. LeadsBar(h, l, {e}, {})
  BY <1>1, <1>7, <1>9, <1>10 DEF LeadsBar
<1> QED BY <1>11 DEF l

\* That of a discarded block made anew.
LEMMA MadeAnew ==
  ASSUME NEW h, Good(h), NEW e \in DOMAIN h.es, h.es[e].used, h.es[e].at = 0, NEW b, Got(h, b)
  PROVE  LeadsBar(h, Linked(b.h, b.at, e), {e}, {})
<1>1. Good(b.h) /\ Spared(h.es, b.h.es)
  BY GotIs
<1>2. h.es \in Seq(HandleEntry)
  BY DEF Good
<1>3. b.h.es[e].used /\ b.h.es[e].at = 0
  BY <1>1, <1>2, SparedEntry
<1>4. ~ Discardable(h.es[e])
  BY DEF Discardable
<1> QED BY <1>1, <1>3, <1>4, GotLinked

\* The arena of a handle's block is not the one at nought.
LEMMA ArenaOver ==
  ASSUME NEW h, Good(h), NEW e \in DOMAIN h.es, h.es[e].at # 0
  PROVE  ArenaOf(h, Handle(e)) # 0 /\ ArenaOf(h, Handle(e)) = h.es[e].at - 6
<1> DEFINE at == h.es[e].at - 6
           i == IndexOf(h.a, at)
<1>1. i \in 3 .. Len(h.a) - 1 /\ h.a[i] = NewArena(at, "moveable", e)
  BY BlockIs
<1>2. Laid(h.a)
  BY DEF Good
<1> HIDE DEF i
<1>3. i \in 1 .. Len(h.a) /\ 1 \in 1 .. Len(h.a) /\ 1 < i
  BY <1>1, <1>2, LaidIs
<1>4. h.a[1].at + 12 <= h.a[i].at /\ h.a[1].at \in Nat
  BY <1>2, <1>3, Rising, LaidIs
<1>5. h.a[i].at = at
  BY <1>1, FieldsAre
<1>6. ArenaOf(h, Handle(e)) = at
  BY ArenaOfIs
<1> HIDE DEF at
<1>7. at # 0
  BY <1>4, <1>5
<1> QED BY <1>6, <1>7 DEF at

\* A block moved to a new one.
LEMMA MovedHandle ==
  ASSUME NEW h, Good(h), NEW e \in DOMAIN h.es, h.es[e].used, NEW b, Got(h, b)
  PROVE  LeadsBar(h, MovedTo(b, Handle(e)), {e}, {})
<1> DEFINE t == b.h
           at == b.at
           m == MovedTo(b, Handle(e))
<1>1. /\ Good(t) /\ NewArena(at, "fixed", 0) \in Used(t.a) /\ at \in Nat
      /\ at + 12 <= Highest /\ Fixes(t.a) \ {NewArena(at, "fixed", 0)} = Fixes(h.a)
      /\ Spared(h.es, t.es)
      /\ (NoPast(h.a) => NoPast(t.a)) /\ (Apart(h.a) => Apart(t.a))
  BY GotIs
<1>2. h.es \in Seq(HandleEntry) /\ Blank(h.es)
  BY DEF Good
<1>3. e \in DOMAIN t.es /\ t.es[e].used /\ t.es[e] \in HandleEntry
  BY <1>1, <1>2, SparedEntry
<1>4. Handle(e).on = "handle" /\ Handle(e).of = e
  BY ValueIs
<1>5. CASE t.es[e].at # 0
  <2>1. ArenaOf(t, Handle(e)) # 0
    BY <1>1, <1>3, <1>5, ArenaOver
  <2> DEFINE k == WithoutBlock(t, Handle(e))
             g == Bare(t, e)
  <2>2. m = Linked(k, at, e)
    BY <1>4, <2>1 DEF MovedTo
  <2>3. Bares(t, e, k, g)
    BY <1>1, <1>3, BareIs
  <2> HIDE DEF k, g, m
  <2>4. Linked(k, at, e) = Linked(g, at, e)
    BY <1>3, <2>3, BareSame
  <2>5. /\ Good(g) /\ Sets(t.es, g.es, e, Blockless(t.es[e])) /\ Fixes(g.a) = Fixes(t.a)
        /\ (NoPast(t.a) => NoPast(g.a)) /\ (Apart(t.a) => Apart(g.a))
    BY <2>3 DEF Bares
  <2>6. DOMAIN g.es = DOMAIN t.es /\ g.es[e].used /\ g.es[e].at = 0
        /\ \A d \in DOMAIN t.es : d # e => g.es[d] = t.es[d]
    BY <1>3, <2>5, BlocklessIs DEF Sets
  <2>7. LeadsBar(h, Linked(g, at, e), {e}, {})
    BY <1>5, <2>5, <2>6, GotLinked
  <2>8. LeadsBar(h, m, {e}, {})
    BY <2>2, <2>4, <2>7
  <2> QED BY <2>8 DEF m
<1>6. CASE t.es[e].at = 0
  <2>1. ArenaOf(t, Handle(e)) = 0
    BY <1>6, ArenaOfIs
  <2> DEFINE y == NewArena(at, "lost", 0)
             c == ReplaceAt(t.a, IndexOf(t.a, at), y)
             g == HeapOf(c, t.es, t.spare, t.size)
  <2>2. m = [t EXCEPT !.a = c]
    BY <2>1 DEF MovedTo
  <2>3. /\ IsHeap(t) /\ Laid(t.a) /\ Sized(Last(t.a), t.size) /\ t.es \in Seq(HandleEntry)
        /\ Spares(t.es, t.spare) /\ Blank(t.es) /\ Agree(Used(t.a), t.es)
    BY <1>1 DEF Good
  <2>4. y \in Arena /\ y.at = at /\ y.is = "lost"
    <3>1. at <= Highest /\ "lost" \in Kinds
      BY <1>1, HighestIs DEF Kinds
    <3> QED BY <1>1, <3>1, NewArenaIs, FieldsAre
  <2> HIDE DEF y, m
  <2>5. Recasts(t.a, at, y, c)
    <3>1. y.is \in {"kernel", "moveable", "lost"}
      BY <2>4
    <3> QED BY <1>1, <2>3, <2>4, <3>1, Recast
  <2> DEFINE x == NewArena(at, "fixed", 0)
  <2>6. x.is = "fixed"
    BY FieldsAre
  <2>7. /\ Laid(c) /\ Last(c) = Last(t.a) /\ (Apart(t.a) => Apart(c))
        /\ Used(c) = (Used(t.a) \ {x}) \cup {y} /\ Fixes(c) = Fixes(t.a) \ {x}
        /\ (NoPast(t.a) => NoPast(c))
    BY <2>5 DEF Recasts
  <2> HIDE DEF c, x
  <2>8. m = g
    BY <2>2, <2>3, ChangedIs
  <2>9. g.a = c /\ g.es = t.es /\ g.spare = t.spare /\ g.size = t.size /\ IsHeap(g)
    BY HeapOfIs
  <2> HIDE DEF g
  <2>10. Agree(Used(c), t.es)
    <3>1. \A z : z.is = "moveable" => (z \in Used(t.a) <=> z \in Used(c))
      BY <2>4, <2>6, <2>7
    <3> QED BY <2>3, <3>1, AgreeOther
  <2>11. Good(g)
    BY <2>3, <2>7, <2>9, <2>10 DEF Good
  <2>12. TreatedBar(h.es, g.es, {e})
    <3> DEFINE es == h.es
               fs == t.es
    <3>1. Blank(es) /\ Treated(es, fs) /\ e \in DOMAIN es /\ fs[e].at = 0
      BY <1>1, <1>2, <1>6, SparedTreated
    <3> HIDE DEF es, fs
    <3>2. TreatedBar(es, fs, {e})
      BY <3>1, TreatedOne
    <3> QED BY <2>9, <3>2 DEF es, fs
  <2>13. Fixes(h.a) \subseteq Fixes(g.a)
    BY <1>1, <2>7, <2>9 DEF x
  <2>14. LeadsBar(h, g, {e}, {})
    BY <1>1, <2>7, <2>9, <2>11, <2>12, <2>13 DEF LeadsBar
  <2>15. LeadsBar(h, m, {e}, {})
    BY <2>8, <2>14
  <2> QED BY <2>15 DEF m
<1> QED BY <1>5, <1>6

\* A fixed block moved.
LEMMA MovedFixed ==
  ASSUME NEW h, Good(h), NEW at, NewArena(at, "fixed", 0) \in Fixes(h.a), NEW b, Got(h, b)
  PROVE  LeadsBar(h, MovedTo(b, Fixed(at)), {}, {NewArena(at, "fixed", 0)})
<1> DEFINE t == b.h
           x == NewArena(at, "fixed", 0)
           k == WithoutBlock(t, Fixed(at))
           m == MovedTo(b, Fixed(at))
<1>1. /\ Good(t) /\ Fixes(t.a) \ {NewArena(b.at, "fixed", 0)} = Fixes(h.a) /\ Spared(h.es, t.es)
      /\ (NoPast(h.a) => NoPast(t.a)) /\ (Apart(h.a) => Apart(t.a))
  BY GotIs
<1>2. x \in Fixes(t.a)
  BY <1>1
<1>3. Drops(t, at, k)
  BY <1>1, <1>2, FixedDropped
<1>4. Fixed(at).on # "handle"
  BY ValueIs
<1>5. m = k
  <2>1. ArenaOf(t, Fixed(at)) # 0
    BY <1>3 DEF Drops
  <2> QED BY <1>4, <2>1 DEF MovedTo
<1> HIDE DEF k, m
<1>6. h.es \in Seq(HandleEntry) /\ Blank(h.es)
  BY DEF Good
<1>7. TreatedBar(h.es, t.es, {})
  BY <1>1, <1>6, SparedTreated, TreatedNone
<1>8. /\ Good(k) /\ k.es = t.es /\ (NoPast(t.a) => NoPast(k.a)) /\ (Apart(t.a) => Apart(k.a))
      /\ Fixes(k.a) = Fixes(t.a) \ {x}
  BY <1>3 DEF Drops
<1> HIDE DEF x
<1>9. Fixes(h.a) \ {x} \subseteq Fixes(k.a)
  BY <1>1, <1>8
<1>10. LeadsBar(h, k, {}, {x})
  BY <1>1, <1>7, <1>8, <1>9 DEF LeadsBar
<1>11. LeadsBar(h, m, {}, {x})
  BY <1>5, <1>10
<1> QED BY <1>11 DEF m, x

\* Where what is left of a block that ends sooner may be free.
Shortens(a, b) ==
  Laid(b) /\ Last(b) = Last(a) /\ Used(b) = Used(a) /\ (Apart(a) => Apart(b))

\* A block shortened.
LEMMA ShortenedIs ==
  ASSUME NEW a, Laid(a), NEW i \in 3 .. Len(a) - 1, a[i].is # "free", NEW end \in Nat,
         Quad(end), a[i].at + 12 <= end
  PROVE  Shortens(a, Shortened(a, i, end))
<1> DEFINE x == NewArena(end, "free", 0)
           b == Shortened(a, i, end)
           c == ReplaceAt(a, i + 1, x)
           d == InsertAt(a, i + 1, x)
<1>1. /\ Len(a) \in Nat /\ i \in 1 .. Len(a) - 1 /\ i + 1 \in 3 .. Len(a) /\ i + 1 \in 1 .. Len(a)
      /\ (i + 1) - 1 = i
  BY LaidIs
<1>2. a[i].at \in Nat /\ a[i + 1].at \in Nat /\ a[i + 1].at <= Highest
  BY <1>1, LaidIs, NextIs
<1>3. CASE end + 16 > Highest \/ end + 16 >= a[i + 1].at
  <2>1. b = a
    BY <1>3 DEF Shortened
  <2> QED BY <2>1 DEF Shortens
<1>4. CASE ~ (end + 16 > Highest \/ end + 16 >= a[i + 1].at)
  <2>1. end <= Highest /\ end + 16 < a[i + 1].at
    BY <1>2, <1>4, HighestIs
  <2>2. x \in Arena /\ x.at = end /\ x.is = "free"
    <3>1. 0 \in Nat /\ "free" \in Kinds
      BY DEF Kinds
    <3> QED BY <2>1, <3>1, NewArenaIs, FieldsAre
  <2>3. b = IF a[i + 1].is = "free" THEN c ELSE d
    BY <1>4 DEF Shortened
  <2>4. {y \in {x} : y.is # "free"} = {}
    BY <2>2
  <2> HIDE DEF x, b
  <2>5. Quad(x.at) /\ (x.is = "fixed" => x.entry = 0) /\ a[(i + 1) - 1].at + 12 <= x.at
    BY <1>1, <2>2
  <2>6. CASE a[i + 1].is = "free"
    <3>1. i + 1 # Len(a)
      BY <2>6 DEF Laid
    <3>2. i + 1 \in 3 .. Len(a) - 1 /\ i + 1 \in 1 .. Len(a) - 1
      BY <1>1, <3>1
    <3>3. a[i + 1].at + 12 <= a[(i + 1) + 1].at /\ a[(i + 1) + 1].at \in Nat
      BY <3>2, NextIs
    <3>4. x.at + 12 <= a[(i + 1) + 1].at
      BY <1>2, <2>1, <2>2, <3>3, SMTT(20)
    <3>5. /\ Laid(c) /\ Last(c) = Last(a)
          /\ Used(c) = (Used(a) \ {a[i + 1]}) \cup {y \in {x} : y.is # "free"}
          /\ Apart(a) /\ (x.is # "free" \/ a[i + 1].is = "free") => Apart(c)
      <4> DEFINE j == i + 1
      <4>1. /\ j \in 3 .. Len(a) - 1 /\ a[j - 1].at + 12 <= x.at /\ x.at + 12 <= a[j + 1].at
            /\ c = ReplaceAt(a, j, x)
        BY <2>5, <3>2, <3>4
      <4> HIDE DEF j, c
      <4>2. Fits(a, j, x)
        BY <2>2, <2>5, <4>1 DEF Fits
      <4>3. Replaced(a, j, x, c)
        BY <4>1, <4>2, ReplacedIs
      <4> QED BY <4>3 DEF j, Replaced
    <3>6. Used(a) \ {a[i + 1]} = Used(a)
      BY <2>6 DEF Used
    <3> HIDE DEF c
    <3>7. Shortens(a, c)
      BY <2>4, <2>6, <3>5, <3>6 DEF Shortens
    <3>8. b = c
      BY <2>3, <2>6
    <3>9. Shortens(a, b)
      BY <3>7, <3>8
    <3> QED BY <3>9 DEF b
  <2>7. CASE a[i + 1].is # "free"
    <3>1. /\ Laid(d) /\ Last(d) = Last(a)
          /\ Used(d) = Used(a) \cup {y \in {x} : y.is # "free"}
          /\ Apart(a) /\ (x.is # "free" \/ (a[i].is # "free" /\ a[i + 1].is # "free")) => Apart(d)
      <4> DEFINE j == i + 1
      <4>1. /\ j \in 3 .. Len(a) /\ a[j - 1].at + 12 <= x.at /\ x.at + 12 <= a[j].at
            /\ d = InsertAt(a, j, x) /\ j - 1 = i
        BY <1>1, <1>2, <2>1, <2>2, <2>5
      <4> HIDE DEF j, d
      <4>2. /\ Laid(d) /\ Last(d) = Last(a)
            /\ Used(d) = Used(a) \cup {y \in {x} : y.is # "free"}
            /\ Apart(a) /\ (x.is # "free" \/ (a[j - 1].is # "free" /\ a[j].is # "free")) => Apart(d)
        BY <2>2, <2>5, <4>1, InsertKeeps
      <4> QED BY <4>1, <4>2 DEF j
    <3> HIDE DEF d
    <3>2. Shortens(a, d)
      BY <2>4, <2>7, <3>1 DEF Shortens
    <3>3. b = d
      BY <2>3, <2>7
    <3>4. Shortens(a, b)
      BY <3>2, <3>3
    <3> QED BY <3>4 DEF b
  <2> QED BY <2>6, <2>7
<1> QED BY <1>3, <1>4

\* More may be barred.
LEMMA BarMore ==
  ASSUME NEW h, NEW g, LeadsBar(h, g, {}, {}), NEW X, NEW F
  PROVE  LeadsBar(h, g, X, F)
BY DEF LeadsBar, TreatedBar

\* A heap with a block shortened.
LEMMA ShortensIs ==
  ASSUME NEW h, Good(h), NEW b, Shortens(h.a, b)
  PROVE  LeadsBar(h, [h EXCEPT !.a = b], {}, {})
<1> DEFINE g == HeapOf(b, h.es, h.spare, h.size)
           k == [h EXCEPT !.a = b]
<1>1. /\ IsHeap(h) /\ Laid(h.a) /\ Sized(Last(h.a), h.size) /\ h.es \in Seq(HandleEntry)
      /\ Spares(h.es, h.spare) /\ Blank(h.es) /\ Agree(Used(h.a), h.es)
  BY DEF Good
<1>2. k = g
  BY <1>1, ChangedIs
<1>3. /\ Laid(b) /\ Last(b) = Last(h.a) /\ Used(b) = Used(h.a) /\ (Apart(h.a) => Apart(b))
  BY DEF Shortens
<1>4. g.a = b /\ g.es = h.es /\ g.spare = h.spare /\ g.size = h.size /\ IsHeap(g)
  BY HeapOfIs
<1> HIDE DEF g, k
<1>5. Good(g)
  BY <1>1, <1>3, <1>4 DEF Good
<1>6. TreatedBar(h.es, g.es, {})
  BY <1>1, <1>4, TreatedSelf, TreatedNone
<1>7. Fixes(b) = Fixes(h.a) /\ (NoPast(h.a) => NoPast(b))
  BY <1>3 DEF Fixes, NoPast
<1>8. LeadsBar(h, g, {}, {})
  BY <1>3, <1>4, <1>5, <1>6, <1>7 DEF LeadsBar
<1>9. LeadsBar(h, k, {}, {})
  BY <1>2, <1>8
<1> QED BY <1>9 DEF k

\* Where a block of so many bytes ends.
LEMMA EndIs ==
  ASSUME NEW a, Laid(a), NEW i \in 3 .. Len(a) - 1, NEW n \in Nat, NEW w \in {4, 6}
  PROVE  LET end == Round(a[i].at + w + Max({n, 10}))
         IN end \in Nat /\ Quad(end) /\ a[i].at + 12 <= end
<1> DEFINE at == a[i].at
           m == Max({n, 10})
           next == a[i + 1].at
<1>1. m \in Nat /\ m >= 10
  BY Greater
<1>2. i \in 1 .. Len(a) - 1 /\ i \in 1 .. Len(a) /\ i + 1 \in 1 .. Len(a)
  BY LaidIs
<1>3. at \in Nat /\ next \in Nat /\ at + 12 <= next
  BY <1>2, NextIs
<1>4. next <= Highest /\ Quad(next)
  BY <1>2, LaidIs DEF Laid
<1> HIDE DEF at, m, next
<1> DEFINE t == at + w + m
<1>5. t \in Nat /\ t >= at + 14
  BY <1>1, <1>3
<1> HIDE DEF t
<1>6. Round(t) \in Nat /\ Quad(Round(t)) /\ (Round(t) >= t \/ Round(t) = Highest - 3)
  <2>1. Round(t) \in Nat /\ (Round(t) >= t \/ Round(t) = Highest - 3)
    BY <1>5, RoundIs, RoundOver
  <2>2. Quad(Round(t))
    BY <1>5, RoundIs
  <2> QED BY <2>1, <2>2
<1>7. next <= Highest - 3
  BY <1>3, <1>4, HighestIs DEF Quad
<1>8. at + 12 <= Round(t)
  <2> DEFINE r == Round(t)
  <2>1. r \in Nat /\ (r >= t \/ r = Highest - 3) /\ Highest \in Nat
    BY <1>6, HighestIs
  <2> HIDE DEF r
  <2>2. at + 12 <= r
    BY <1>3, <1>5, <1>7, <2>1
  <2> QED BY <2>2 DEF r
<1> QED BY <1>6, <1>8 DEF t, at, m

\* A fixed block's arena.
LEMMA FixedAt ==
  ASSUME NEW h, Good(h), NEW at, NewArena(at, "fixed", 0) \in Fixes(h.a)
  PROVE  /\ ArenaOf(h, Fixed(at)) = at /\ at # 0
         /\ IndexOf(h.a, at) \in 3 .. Len(h.a) - 1 /\ h.a[IndexOf(h.a, at)].is # "free"
<1> DEFINE a == h.a
           x == NewArena(at, "fixed", 0)
           i == IndexOf(a, at)
<1>1. Laid(a)
  BY DEF Good
<1>2. x.at = at /\ x.is = "fixed"
  BY FieldsAre
<1>3. x \in Used(a)
  BY DEF Fixes
<1> HIDE DEF x
<1>4. x \in ToSet(a)
  BY <1>3 DEF Used
<1>5. i \in 1 .. Len(a) /\ a[i] = x
  BY <1>1, <1>2, <1>4, MemberIs
<1>6. a[1].is = "kernel" /\ a[2].is = "kernel" /\ a[Len(a)].is = "kernel" /\ Len(a) \in Nat
  BY <1>1, LaidIs DEF Laid
<1>7. i # 1 /\ i # 2 /\ i # Len(a)
  BY <1>2, <1>5, <1>6
<1>8. i \in 3 .. Len(a) - 1
  BY <1>5, <1>6, <1>7
<1>9. ArenaOf(h, Fixed(at)) = at /\ at # 0
  <2>1. ArenaOf(h, Fixed(at)) # 0
    BY FixedDropped DEF Drops
  <2> QED BY <2>1, ArenaOfIs
<1> QED BY <1>2, <1>5, <1>8, <1>9

\* What a program holds of a heap, and what is its own of that.
Holds(h, v) ==
  \/ \E e \in DOMAIN h.es : h.es[e].used /\ v = Handle(e)
  \/ \E at : NewArena(at, "fixed", 0) \in Fixes(h.a) /\ v = Fixed(at)
OwnHandles(v) == IF v.on = "handle" THEN {v.of} ELSE {}
OwnFixed(v) == IF v.on = "handle" THEN {} ELSE {NewArena(v.of, "fixed", 0)}

\* What a handle and an address are of.
LEMMA OwnIs ==
  ASSUME NEW x
  PROVE  /\ OwnHandles(Handle(x)) = {x} /\ OwnFixed(Handle(x)) = {}
         /\ OwnHandles(Fixed(x)) = {} /\ OwnFixed(Fixed(x)) = {NewArena(x, "fixed", 0)}
BY ValueIs DEF OwnHandles, OwnFixed

\* Where the arena of a value is.
LEMMA HoldsIs ==
  ASSUME NEW h, Good(h), NEW v, Holds(h, v), ArenaOf(h, v) # 0
  PROVE  LET i == IndexOf(h.a, ArenaOf(h, v))
         IN i \in 3 .. Len(h.a) - 1 /\ h.a[i].is # "free"
<1>1. CASE \E e \in DOMAIN h.es : h.es[e].used /\ v = Handle(e)
  <2>1. PICK e \in DOMAIN h.es : v = Handle(e)
    BY <1>1
  <2>2. h.es[e].at # 0
    BY <2>1, ArenaOfIs
  <2>3. ArenaOf(h, v) = h.es[e].at - 6
    BY <2>1, <2>2, ArenaOver
  <2> DEFINE q == h.es[e].at - 6
             i == IndexOf(h.a, q)
  <2>4. i \in 3 .. Len(h.a) - 1 /\ h.a[i] = NewArena(q, "moveable", e)
    BY <2>2, BlockIs
  <2> HIDE DEF i
  <2>5. h.a[i].is # "free"
    BY <2>4, FieldsAre
  <2> QED BY <2>3, <2>4, <2>5 DEF i
<1>2. CASE \E at : NewArena(at, "fixed", 0) \in Fixes(h.a) /\ v = Fixed(at)
  <2>1. PICK at : NewArena(at, "fixed", 0) \in Fixes(h.a) /\ v = Fixed(at)
    BY <1>2
  <2> QED BY <2>1, FixedAt
<1> QED BY <1>1, <1>2 DEF Holds

\* What may come of a call made for a value.
OutcomeBar(h, g, r, v) ==
  LeadsBar(h, g, OwnHandles(v), OwnFixed(v)) /\ (r # 0 => Full(g, r, FALSE, Apart(h.a)))

\* LocalFree, of a handle and of a fixed block.
LEMMA FreeIs ==
  ASSUME NEW h, Good(h), NEW v, Holds(h, v)
  PROVE  LET k == WithoutBlock(h, v)
         IN OutcomeBar(h, IF v.on = "handle" THEN HandleFreed(k, v.of) ELSE k, 0, v)
<1> DEFINE k == WithoutBlock(h, v)
           g == IF v.on = "handle" THEN HandleFreed(k, v.of) ELSE k
<1>1. LeadsBar(h, g, OwnHandles(v), OwnFixed(v))
  <2>1. CASE \E e \in DOMAIN h.es : h.es[e].used /\ v = Handle(e)
    <3>1. PICK e \in DOMAIN h.es : h.es[e].used /\ v = Handle(e)
      BY <2>1
    <3>2. g = HandleFreed(WithoutBlock(h, Handle(e)), e)
      BY <3>1, ValueIs
    <3> HIDE DEF g
    <3>3. LeadsBar(h, g, {e}, {})
      BY <3>1, <3>2, HandleGone
    <3> QED BY <3>1, <3>3, OwnIs
  <2>2. CASE \E at : NewArena(at, "fixed", 0) \in Fixes(h.a) /\ v = Fixed(at)
    <3>1. PICK at : NewArena(at, "fixed", 0) \in Fixes(h.a) /\ v = Fixed(at)
      BY <2>2
    <3>2. v.on # "handle"
      BY <3>1, ValueIs
    <3>3. g = WithoutBlock(h, Fixed(at))
      BY <3>1, <3>2
    <3> HIDE DEF g
    <3>4. LeadsBar(h, g, {}, {NewArena(at, "fixed", 0)})
      BY <3>1, <3>3, FixedGone
    <3> QED BY <3>1, <3>4, OwnIs
  <2> QED BY <2>1, <2>2 DEF Holds
<1> HIDE DEF g
<1>2. OutcomeBar(h, g, 0, v)
  BY <1>1 DEF OutcomeBar
<1> QED BY <1>2 DEF g

\* A block, or the handle of one, made anew.
LEMMA AnewIs ==
  ASSUME NEW h, Good(h), NEW v, Holds(h, v), NEW n \in Nat, NEW still \in BOOLEAN,
         NEW moves \in BOOLEAN, moves \/ ArenaOf(h, v) = 0,
         NEW b, b = Alloc(h, n, v.on = "handle", still),
         NEW l, l = IF moves THEN MovedTo(b, v) ELSE Linked(b.h, b.at, v.of)
  PROVE  OutcomeBar(h, IF b.at = 0 THEN b.h ELSE l, Refusal(b.refused, still), v)
<1>1. Got(h, b) \/ \E span \in Nat \ {0} : Refuses(h, b, span, still)
  <2> DEFINE m == v.on = "handle"
             t == Alloc(h, n, m, still)
  <2>1. m \in BOOLEAN
    OBVIOUS
  <2>2. b = t
    OBVIOUS
  <2> HIDE DEF m
  <2>3. Got(h, t) \/ \E span \in Nat \ {0} : Refuses(h, t, span, still)
    BY <2>1, AllocIs
  <2> HIDE DEF t
  <2> QED BY <2>2, <2>3
<1>2. CASE \E span \in Nat \ {0} : Refuses(h, b, span, still)
  <2>1. PICK span \in Nat \ {0} : Refuses(h, b, span, still)
    BY <1>2
  <2>2. b.at = 0 /\ b.refused = span /\ Makes(h, b.h, {}) /\ Full(b.h, span, still, Apart(h.a))
    BY <2>1 DEF Refuses
  <2>3. LeadsBar(h, b.h, {}, {})
    BY <2>2, MakesLeads, LeadsNone
  <2>4. LeadsBar(h, b.h, OwnHandles(v), OwnFixed(v))
    BY <2>3, BarMore
  <2>5. Refusal(b.refused, still) # 0 => Full(b.h, Refusal(b.refused, still), FALSE, Apart(h.a))
    BY <2>2, RefusalIs
  <2>6. OutcomeBar(h, b.h, Refusal(b.refused, still), v)
    BY <2>4, <2>5 DEF OutcomeBar
  <2> QED BY <2>2, <2>6
<1>3. CASE Got(h, b)
  <2>1. b.at # 0 /\ b.refused = 0
    BY <1>3 DEF Got
  <2>2. Refusal(b.refused, still) = 0
    BY <2>1 DEF Refusal
  <2>3. LeadsBar(h, l, OwnHandles(v), OwnFixed(v))
    <3>1. CASE \E e \in DOMAIN h.es : h.es[e].used /\ v = Handle(e)
      <4>1. PICK e \in DOMAIN h.es : h.es[e].used /\ v = Handle(e)
        BY <3>1
      <4>2. CASE moves
        <5>1. l = MovedTo(b, Handle(e))
          BY <4>1, <4>2
        <5>2. LeadsBar(h, l, {e}, {})
          BY <1>3, <4>1, <5>1, MovedHandle
        <5> QED BY <4>1, <5>2, OwnIs
      <4>3. CASE ~moves
        <5>1. l = Linked(b.h, b.at, e)
          BY <4>1, <4>3, ValueIs
        <5>2. h.es[e].at = 0
          BY <4>1, <4>3, ArenaOver
        <5>3. LeadsBar(h, l, {e}, {})
          BY <1>3, <4>1, <5>1, <5>2, MadeAnew
        <5> QED BY <4>1, <5>3, OwnIs
      <4> QED BY <4>2, <4>3
    <3>2. CASE \E at : NewArena(at, "fixed", 0) \in Fixes(h.a) /\ v = Fixed(at)
      <4>1. PICK at : NewArena(at, "fixed", 0) \in Fixes(h.a) /\ v = Fixed(at)
        BY <3>2
      <4>2. ArenaOf(h, v) # 0
        BY <4>1, FixedAt
      <4>3. l = MovedTo(b, Fixed(at))
        BY <4>1, <4>2
      <4>4. LeadsBar(h, l, {}, {NewArena(at, "fixed", 0)})
        BY <1>3, <4>1, <4>3, MovedFixed
      <4> QED BY <4>1, <4>4, OwnIs
    <3> QED BY <3>1, <3>2 DEF Holds
  <2>4. OutcomeBar(h, l, Refusal(b.refused, still), v)
    BY <2>2, <2>3 DEF OutcomeBar
  <2> QED BY <2>1, <2>4
<1> QED BY <1>1, <1>2, <1>3

-----------------------------------------------------------------------------
(* LocalReAlloc and the calls for handles.                                 *)
\* The heap as it is.
LEMMA HeapIs ==
  /\ Heap.a = arenas /\ Heap.es = entries /\ Heap.spare = spare /\ Heap.size = size
  /\ IsHeap(Heap)
BY DEF Heap, IsHeap, HeapOf

\* What is in a program's hands it holds.
LEMMA ValuesHeld ==
  ASSUME Good(Heap), NEW v \in Values
  PROVE  Holds(Heap, v)
<1>1. Laid(arenas) /\ Heap.a = arenas /\ Heap.es = entries
  BY HeapIs DEF Good
<1>2. CASE v \in {Handle(e) : e \in {d \in DOMAIN entries : entries[d].used}}
  BY <1>1, <1>2 DEF Holds
<1>3. CASE v \in {Fixed(at) : at \in FixedBlocks}
  <2>1. PICK at \in FixedBlocks : v = Fixed(at)
    BY <1>3
  <2>2. PICK i \in DOMAIN arenas : arenas[i].is = "fixed" /\ arenas[i].at = at
    BY <2>1 DEF FixedBlocks
  <2>3. i \in 1 .. Len(arenas) /\ arenas[i] \in Arena /\ arenas[i].entry = 0
    <3>1. i \in 1 .. Len(arenas)
      BY <1>1, LaidIs
    <3> QED BY <1>1, <2>2, <3>1, LaidIs DEF Laid
  <2>4. arenas[i] = NewArena(at, "fixed", 0)
    BY <2>2, <2>3, ArenaIs
  <2>5. arenas[i] \in Used(arenas)
    BY <1>1, <2>2, <2>3, FreeAtIs
  <2>6. NewArena(at, "fixed", 0) \in Fixes(Heap.a)
    BY <1>1, <2>2, <2>4, <2>5 DEF Fixes
  <2> QED BY <2>1, <2>6 DEF Holds
<1> QED BY <1>2, <1>3 DEF Values

\* An arena taken out.
Removes(a, j, q) ==
  /\ Laid(q) /\ Last(q) = Last(a) /\ Len(q) = Len(a) - 1
  /\ \A k \in 1 .. j - 1 : q[k] = a[k]
  /\ Used(q) = Used(a) \ {a[j]}
  /\ Apart(a) /\ ~ (a[j - 1].is = "free" /\ a[j + 1].is = "free") => Apart(q)

\* An arena after a block taken out.
LEMMA RemoveTakes ==
  ASSUME NEW a, Laid(a), NEW j \in 3 .. Len(a) - 1
  PROVE  Removes(a, j, RemoveAt(a, j))
BY RemoveKeeps DEF Removes

\* A block that ends in the free arena after it.
LEMMA TakesIs ==
  ASSUME NEW a, Laid(a), NEW i \in 3 .. Len(a) - 1, a[i].is # "free", a[i + 1].is = "free",
         NEW end \in Nat, Quad(end), a[i].at + 12 <= end
  PROVE  Shortens(a, Shortened(RemoveAt(a, i + 1), i, end))
<1> DEFINE j == i + 1
           q == RemoveAt(a, j)
<1>1. Len(a) \in Nat /\ a[Len(a)].is = "kernel"
  BY LaidIs DEF Laid
<1>2. j \in 3 .. Len(a) - 1 /\ j - 1 = i /\ a[j].is = "free"
  BY <1>1
<1>3. q = RemoveAt(a, j)
  OBVIOUS
<1> HIDE DEF q, j
<1>4. /\ Laid(q) /\ Last(q) = Last(a) /\ Len(q) = Len(a) - 1
      /\ (\A k \in 1 .. j - 1 : q[k] = a[k])
      /\ Used(q) = Used(a) \ {a[j]}
      /\ (Apart(a) /\ ~ (a[j - 1].is = "free" /\ a[j + 1].is = "free") => Apart(q))
  <2>1. Removes(a, j, RemoveAt(a, j))
    BY <1>2, RemoveTakes
  <2>2. Removes(a, j, q)
    BY <1>3, <2>1
  <2> QED BY <2>2 DEF Removes
<1>5. i \in 3 .. Len(q) - 1 /\ q[i] = a[i]
  BY <1>1, <1>2, <1>4
<1>6. q[i].is # "free" /\ q[i].at + 12 <= end
  BY <1>5
<1>7. Shortens(q, Shortened(q, i, end))
  BY <1>4, <1>5, <1>6, ShortenedIs
<1>8. Used(q) = Used(a)
  BY <1>2, <1>4 DEF Used
<1>9. Apart(a) => Apart(q)
  BY <1>2, <1>4
<1>10. Shortens(a, Shortened(q, i, end))
  BY <1>4, <1>7, <1>8, <1>9 DEF Shortens
<1> QED BY <1>10 DEF q, j

\* LocalReAlloc.
LEMMA ReAllocIs ==
  ASSUME Good(Heap), NEW v, Holds(Heap, v), NEW n \in Nat, NEW flag \in BOOLEAN,
         NEW still \in BOOLEAN, LocalReAlloc(v, n, flag, still)
  PROVE  \E g, r : Become(g, r) /\ OutcomeBar(Heap, g, r, v)
<1> DEFINE i == IndexOf(arenas, ArenaOf(Heap, v))
           w == IF v.on = "handle" THEN 6 ELSE 4
           end == Round(arenas[i].at + w + Max({n, 10}))
           b == Alloc(Heap, n, v.on = "handle", still)
           L(moves) == IF moves THEN MovedTo(b, v) ELSE Linked(b.h, b.at, v.of)
           B(moves) == Become(IF b.at = 0 THEN b.h ELSE L(moves), Refusal(b.refused, still))
           c == Shortened(arenas, i, end)
           d == Shortened(RemoveAt(arenas, i + 1), i, end)
           e == IF v.on = "handle" THEN Emptied(WithoutBlock(Heap, v), v.of)
                ELSE WithoutBlock(Heap, v)
<1>1. \/ ArenaOf(Heap, v) = 0 /\ B(FALSE)
      \/ ArenaOf(Heap, v) # 0 /\ Become(e, 0)
      \/ ArenaOf(Heap, v) # 0 /\ Become([Heap EXCEPT !.a = c], 0)
      \/ ArenaOf(Heap, v) # 0 /\ arenas[i + 1].is = "free" /\ Become([Heap EXCEPT !.a = d], 0)
      \/ ArenaOf(Heap, v) # 0 /\ B(TRUE)
  <2>1. \A moves \in BOOLEAN : Anew(v, n, still, moves) => B(moves)
    BY DEF Anew, Allocated
  <2>2. \/ ArenaOf(Heap, v) = 0 /\ Anew(v, n, still, FALSE)
        \/ ArenaOf(Heap, v) # 0 /\ Become(e, 0)
        \/ ArenaOf(Heap, v) # 0 /\ Become([Heap EXCEPT !.a = c], 0)
        \/ ArenaOf(Heap, v) # 0 /\ arenas[i + 1].is = "free" /\ Become([Heap EXCEPT !.a = d], 0)
        \/ ArenaOf(Heap, v) # 0 /\ Anew(v, n, still, TRUE)
    BY DEF LocalReAlloc, Emptied
  <2> HIDE DEF c, d, e, B
  <2> QED BY <2>1, <2>2
<1> HIDE DEF c, d, e
<1>2. ASSUME NEW moves \in BOOLEAN, B(moves), moves \/ ArenaOf(Heap, v) = 0
      PROVE  \E g, r : Become(g, r) /\ OutcomeBar(Heap, g, r, v)
  <2> DEFINE t == b
             l == L(moves)
  <2>1. t = Alloc(Heap, n, v.on = "handle", still)
        /\ l = IF moves THEN MovedTo(t, v) ELSE Linked(t.h, t.at, v.of)
    OBVIOUS
  <2>2. Become(IF t.at = 0 THEN t.h ELSE l, Refusal(t.refused, still))
    BY <1>2
  <2> HIDE DEF t, l, B
  <2>3. OutcomeBar(Heap, IF t.at = 0 THEN t.h ELSE l, Refusal(t.refused, still), v)
    BY <1>2, <2>1, AnewIs
  <2> QED BY <2>2, <2>3
<1> HIDE DEF B
<1>3. Heap.a = arenas /\ Laid(arenas)
  BY HeapIs DEF Good
<1>4. CASE ArenaOf(Heap, v) # 0 /\ Become(e, 0)
  <2>1. LeadsBar(Heap, e, OwnHandles(v), OwnFixed(v))
    <3>1. CASE \E x \in DOMAIN Heap.es : Heap.es[x].used /\ v = Handle(x)
      <4>1. PICK x \in DOMAIN Heap.es : Heap.es[x].used /\ v = Handle(x)
        BY <3>1
      <4>2. e = Emptied(WithoutBlock(Heap, Handle(x)), x)
        BY <4>1, ValueIs DEF e
      <4>3. LeadsBar(Heap, e, {x}, {})
        BY <4>1, <4>2, HandleGone
      <4> QED BY <4>1, <4>3, OwnIs
    <3>2. CASE \E at : NewArena(at, "fixed", 0) \in Fixes(Heap.a) /\ v = Fixed(at)
      <4>1. PICK at : NewArena(at, "fixed", 0) \in Fixes(Heap.a) /\ v = Fixed(at)
        BY <3>2
      <4>2. v.on # "handle"
        BY <4>1, ValueIs
      <4>3. e = WithoutBlock(Heap, Fixed(at))
        BY <4>1, <4>2 DEF e
      <4>4. LeadsBar(Heap, e, {}, {NewArena(at, "fixed", 0)})
        BY <4>1, <4>3, FixedGone
      <4> QED BY <4>1, <4>4, OwnIs
    <3> QED BY <3>1, <3>2 DEF Holds
  <2>2. OutcomeBar(Heap, e, 0, v)
    BY <2>1 DEF OutcomeBar
  <2> QED BY <1>4, <2>2
<1>5. ASSUME ArenaOf(Heap, v) # 0
      PROVE  /\ i \in 3 .. Len(arenas) - 1 /\ arenas[i].is # "free"
             /\ end \in Nat /\ Quad(end) /\ arenas[i].at + 12 <= end
  <2>1. i \in 3 .. Len(arenas) - 1 /\ arenas[i].is # "free"
    BY <1>3, <1>5, HoldsIs
  <2>2. w \in {4, 6}
    OBVIOUS
  <2> HIDE DEF i, w
  <2>3. end \in Nat /\ Quad(end) /\ arenas[i].at + 12 <= end
    BY <1>3, <2>1, <2>2, EndIs
  <2> QED BY <2>1, <2>3
<1>6. ASSUME NEW k, Shortens(arenas, k), Become([Heap EXCEPT !.a = k], 0)
      PROVE  \E g, r : Become(g, r) /\ OutcomeBar(Heap, g, r, v)
  <2> DEFINE g == [Heap EXCEPT !.a = k]
  <2>1. LeadsBar(Heap, g, {}, {})
    BY <1>3, <1>6, ShortensIs
  <2>2. Become(g, 0)
    BY <1>6
  <2> HIDE DEF g
  <2>3. LeadsBar(Heap, g, OwnHandles(v), OwnFixed(v))
    BY <2>1, BarMore
  <2>4. OutcomeBar(Heap, g, 0, v)
    BY <2>3 DEF OutcomeBar
  <2> QED BY <2>2, <2>4
<1>7. CASE ArenaOf(Heap, v) # 0 /\ Become([Heap EXCEPT !.a = c], 0)
  <2>1. Shortens(arenas, c)
    <3> HIDE DEF i, end
    <3> QED BY <1>3, <1>5, <1>7, ShortenedIs DEF c
  <2> QED BY <1>6, <1>7, <2>1
<1>8. CASE ArenaOf(Heap, v) # 0 /\ arenas[i + 1].is = "free" /\ Become([Heap EXCEPT !.a = d], 0)
  <2>1. Shortens(arenas, d)
    <3> HIDE DEF i, end
    <3> QED BY <1>3, <1>5, <1>8, TakesIs DEF d
  <2> QED BY <1>6, <1>8, <2>1
<1>9. CASE ArenaOf(Heap, v) = 0 /\ B(FALSE)
  BY <1>2, <1>9
<1>10. CASE ArenaOf(Heap, v) # 0 /\ B(TRUE)
  BY <1>2, <1>10
<1> QED BY <1>1, <1>4, <1>7, <1>8, <1>9, <1>10

\* The level or the lock count of a handle set.
LEMMA AmendedBar ==
  ASSUME NEW h, Good(h), NEW e \in DOMAIN h.es, NEW x, x.at = h.es[e].at, NEW g, Amends(h, e, x, g)
  PROVE  LeadsBar(h, g, {}, {})
<1>1. /\ Good(g) /\ g.a = h.a /\ DOMAIN g.es = DOMAIN h.es
      /\ \A d \in DOMAIN h.es : g.es[d].at = h.es[d].at
  BY DEF Amends, Sets
<1>2. \A d \in DOMAIN h.es : Discardable(h.es[d]) => g.es[d].at # 0
  BY <1>1 DEF Discardable
<1>3. TreatedBar(h.es, g.es, {})
  BY <1>1, <1>2 DEF TreatedBar
<1> QED BY <1>1, <1>3 DEF LeadsBar

\* A call that changes a handle, but for its place.
LEMMA AmendsIs ==
  ASSUME Good(Heap), NEW e \in DOMAIN entries, entries[e].used, NEW x \in HandleEntry,
         x.used, x.at = entries[e].at, entries' = EntrySet(entries, e, x),
         UNCHANGED <<arenas, spare, size>>, refused' = 0
  PROVE  \E g : Become(g, 0) /\ LeadsBar(Heap, g, {}, {})
<1> DEFINE g == [Heap EXCEPT !.es = EntrySet(Heap.es, e, x)]
<1>1. Heap.a = arenas /\ Heap.es = entries /\ Heap.spare = spare /\ Heap.size = size
      /\ IsHeap(Heap)
  BY HeapIs
<1>2. Amends(Heap, e, x, g)
  BY <1>1, AmendedIs
<1>3. LeadsBar(Heap, g, {}, {})
  BY <1>1, <1>2, AmendedBar
<1>4. g.a = arenas /\ g.es = entries' /\ g.spare = spare /\ g.size = size
  BY <1>1 DEF Heap
<1> HIDE DEF g
<1>5. Become(g, 0)
  BY <1>4 DEF Become
<1> QED BY <1>3, <1>5

\* A handle counted.
LEMMA CountedIs ==
  ASSUME Good(Heap), NEW e \in DOMAIN entries, NEW count \in 0 .. CountLimit, Counted(e, count)
  PROVE  \E g : Become(g, 0) /\ LeadsBar(Heap, g, {}, {})
<1> DEFINE x == Counting(entries[e], count)
<1>1. entries[e] \in HandleEntry
  BY HeapIs, EntryIs
<1>2. entries[e].used /\ refused' = 0 /\ UNCHANGED <<arenas, spare, size>>
  BY DEF Counted
<1>3. x \in HandleEntry /\ x.used /\ x.at = entries[e].at
  BY <1>1, <1>2, CountingIs
<1>4. entries' = EntrySet(entries, e, x)
  BY DEF Counted, EntrySet, Counting
<1> HIDE DEF x
<1> QED BY <1>2, <1>3, <1>4, AmendsIs

\* LocalLock and LocalUnlock.
LEMMA LocksIs ==
  ASSUME Good(Heap), NEW e \in DOMAIN entries, LocalLock(e) \/ LocalUnlock(e)
  PROVE  \E g : Become(g, 0) /\ LeadsBar(Heap, g, {}, {})
<1> DEFINE n == entries[e].locks
<1>1. n \in Nat /\ n <= CountLimit /\ CountLimit \in Nat /\ CountLimit >= 1
  <2>1. CountLimit \in Nat /\ CountLimit >= 1
    BY HeapAssumption
  <2>2. n \in Nat /\ n <= CountLimit
    BY HeapIs, EntryIs
  <2> QED BY <2>1, <2>2
<1>2. Min({CountLimit, n + 1}) \in 0 .. CountLimit
  <2>1. Min({CountLimit, n + 1}) = IF CountLimit <= n + 1 THEN CountLimit ELSE n + 1
    <3> HIDE DEF n
    <3> QED BY <1>1, Lesser
  <2> HIDE DEF n
  <2> QED BY <1>1, <2>1
<1>3. (IF n \in {0, CountLimit} THEN n ELSE n - 1) \in 0 .. CountLimit
  <2> HIDE DEF n
  <2> QED BY <1>1
<1>4. CASE LocalLock(e)
  <2>1. Counted(e, Min({CountLimit, n + 1}))
    BY <1>4 DEF LocalLock
  <2> QED BY <1>2, <2>1, CountedIs
<1>5. CASE LocalUnlock(e)
  <2>1. Counted(e, IF n \in {0, CountLimit} THEN n ELSE n - 1)
    BY <1>5 DEF LocalUnlock
  <2> QED BY <1>3, <2>1, CountedIs
<1> QED BY <1>4, <1>5

\* LocalReAlloc with LMEM_MODIFY.
LEMMA ModifyIs ==
  ASSUME Good(Heap), NEW e \in DOMAIN entries, NEW level \in 0 .. 15, LocalModify(e, level)
  PROVE  \E g : Become(g, 0) /\ LeadsBar(Heap, g, {}, {})
<1> DEFINE x == Levelled(entries[e], level)
<1>1. entries[e] \in HandleEntry
  BY HeapIs, EntryIs
<1>2. entries[e].used /\ refused' = 0 /\ UNCHANGED <<arenas, spare, size>>
  BY DEF LocalModify
<1>3. x \in HandleEntry /\ x.used /\ x.at = entries[e].at
  BY <1>1, <1>2, LevelledIs
<1>4. entries' = EntrySet(entries, e, x)
  BY DEF LocalModify, EntrySet, Levelled
<1> HIDE DEF x
<1> QED BY <1>2, <1>3, <1>4, AmendsIs

\* The heap compacted.
LEMMA CompactIs ==
  ASSUME NEW h, Good(h), NEW span
  PROVE  LeadsBar(h, Compacted(h, span, FALSE).h, {}, {})
<1> DEFINE c == Compacted(h, span, FALSE)
<1>1. Compacts(h, span, FALSE, c)
  BY CompactedIs
<1> HIDE DEF c
<1>2. Comes(h, c.h)
  BY <1>1 DEF Compacts
<1>3. Leads(h, c.h)
  BY <1>2, ComesMakes, MakesLeads
<1>4. LeadsBar(h, c.h, {}, {})
  BY <1>3, LeadsNone
<1> QED BY <1>4 DEF c

-----------------------------------------------------------------------------
(* LocalShrink.                                                            *)

\* What is over a place is past what is kept, or KERNEL's last, nothing under it is past,
\* and the free arenas are under it.
Edge(a, at) ==
  /\ \A x \in Used(a) : x.at > at => x.is = "past" \/ x = Last(a)
  /\ \A x \in Used(a) : x.at < at => x.is # "past"
  /\ Under(a, at)

\* And so what is there.
PastFrom(a, at) ==
  Edge(a, at) /\ \E x \in Used(a) : x.at = at /\ (x.is = "past" \/ x = Last(a))

\* The arena at the edge.
LEMMA EdgeIs ==
  ASSUME NEW a, Laid(a), NEW at, PastFrom(a, at), NEW i, i = IndexOf(a, at)
  PROVE  /\ i \in 3 .. Len(a) /\ a[i].at = at /\ a[i] \in Used(a)
         /\ a[i].is = "past" \/ a[i] = Last(a)
         /\ i - 1 \in 1 .. Len(a) /\ a[i - 1].at < at
<1>1. PICK x \in Used(a) : x.at = at /\ (x.is = "past" \/ x = Last(a))
  BY DEF PastFrom
<1>2. Len(a) \in Nat /\ Len(a) >= 3 /\ Last(a) = a[Len(a)] /\ a[1].is = "kernel" /\ a[2].is = "kernel"
  BY LaidIs
<1>3. PICK m \in 1 .. Len(a) : a[m] = x
  BY <1>1, FreeAtIs
<1>4. m = i
  BY <1>1, <1>3, IndexIs
<1>5. ASSUME m # Len(a) PROVE m # 1 /\ m # 2
  <2>1. CASE x.is = "past"
    BY <1>2, <1>3, <2>1
  <2>2. CASE x = Last(a)
    <3>1. Len(a) \in 1 .. Len(a)
      BY <1>2
    <3>2. IndexOf(a, a[m].at) = m /\ IndexOf(a, a[Len(a)].at) = Len(a)
      BY <1>3, <3>1, IndexIs
    <3>3. a[m] = a[Len(a)]
      BY <1>2, <1>3, <2>2
    <3> QED BY <1>5, <3>2, <3>3
  <2> QED BY <1>1, <2>1, <2>2
<1>6. m \in 3 .. Len(a)
  BY <1>2, <1>5
<1>7. i \in 3 .. Len(a) /\ a[i] = x
  BY <1>3, <1>4, <1>6
<1>8. i - 1 \in 1 .. Len(a) /\ i - 1 < i /\ i \in 1 .. Len(a)
  BY <1>2, <1>7
<1>9. a[i - 1].at + 12 <= a[i].at /\ a[i - 1].at \in Nat /\ a[i].at \in Nat
  BY <1>8, Rising, LaidIs
<1>10. a[i - 1].at < a[i].at
  BY <1>9
<1> QED BY <1>1, <1>7, <1>8, <1>10

\* The arena below.
LEMMA EdgeDown ==
  ASSUME NEW a, Laid(a), NEW at, PastFrom(a, at), NEW j, j = IndexOf(a, at) - 1
  PROVE  /\ \A x \in Used(a) : x.at > a[j].at => x.is = "past" \/ x = Last(a)
         /\ \A x \in Used(a) : x.at < a[j].at => x.is # "past"
         /\ \A f \in FreeAts(a) : f <= a[j].at
         /\ j \in 2 .. Len(a) - 1 /\ a[j].at \in Nat /\ j + 1 \in 1 .. Len(a) /\ a[j + 1].at = at
         /\ a[j].is \in {"free", "moveable"} => j \in 3 .. Len(a) - 1
<1> DEFINE i == IndexOf(a, at)
<1>1. /\ i \in 3 .. Len(a) /\ a[i].at = at /\ a[i] \in Used(a)
      /\ a[i].is = "past" \/ a[i] = Last(a)
      /\ i - 1 \in 1 .. Len(a) /\ a[i - 1].at < at
  BY EdgeIs
<1>2. Len(a) \in Nat /\ a[2].is = "kernel"
  BY LaidIs
<1>3. j = i - 1
  OBVIOUS
<1> HIDE DEF i
<1>4. j \in 2 .. Len(a) - 1 /\ j + 1 = i /\ j \in 1 .. Len(a) /\ i \in 1 .. Len(a)
  BY <1>1, <1>2, <1>3
<1>5. a[j].at \in Nat /\ a[j].at < at /\ at \in Nat
  BY <1>1, <1>3, <1>4, LaidIs
<1>6. ASSUME NEW m \in 1 .. Len(a), a[m].at > a[j].at PROVE a[m].at >= at
  <2>1. a[m].at \in Nat
    BY LaidIs
  <2>2. j < m
    BY <1>4, <1>5, <1>6, <2>1, Further
  <2>3. m = i \/ i < m
    BY <1>4, <2>2
  <2>4. CASE m = i
    BY <1>1, <1>5, <2>4
  <2>5. CASE i < m
    <3>1. a[i].at + 12 <= a[m].at
      BY <1>4, <2>5, Rising
    <3> QED BY <1>1, <1>5, <2>1, <3>1
  <2> QED BY <2>3, <2>4, <2>5
<1>7. Edge(a, at)
  BY DEF PastFrom
<1>8. ASSUME NEW x \in Used(a), x.at > a[j].at PROVE x.is = "past" \/ x = Last(a)
  <2>1. PICK m \in 1 .. Len(a) : a[m] = x
    BY FreeAtIs
  <2>2. x.at >= at /\ x.at \in Nat
    BY <1>6, <1>8, <2>1, LaidIs
  <2>3. x.at > at \/ x.at = at
    BY <1>5, <2>2
  <2>4. CASE x.at > at
    BY <1>7, <2>4 DEF Edge
  <2>5. CASE x.at = at
    <3>1. m = i
      BY <1>4, <2>1, <2>5, IndexIs DEF i
    <3> QED BY <1>1, <2>1, <3>1
  <2> QED BY <2>3, <2>4, <2>5
<1>9. ASSUME NEW x \in Used(a), x.at < a[j].at PROVE x.is # "past"
  <2>1. PICK m \in 1 .. Len(a) : a[m] = x
    BY FreeAtIs
  <2>2. x.at \in Nat
    BY <2>1, LaidIs
  <2>3. x.at < at
    BY <1>5, <1>9, <2>2
  <2> QED BY <1>7, <2>3 DEF Edge
<1>10. ASSUME NEW f \in FreeAts(a) PROVE f <= a[j].at
  <2>1. PICK m \in FreeIn(a) : a[m].at = f
    BY FreeAtIs
  <2>2. m \in 1 .. Len(a) /\ f \in Nat
    <3>1. m \in 1 .. Len(a)
      BY <1>2, <2>1, FreeAtIs
    <3> QED BY <2>1, <3>1, LaidIs
  <2>3. f < at
    BY <1>7 DEF Edge, Under
  <2>4. ~ (f > a[j].at)
    BY <1>5, <1>6, <2>1, <2>2, <2>3
  <2> QED BY <1>5, <2>2, <2>4
<1>11. a[j].is \in {"free", "moveable"} => j # 2
  BY <1>2
<1>12. a[j].is \in {"free", "moveable"} => j \in 3 .. Len(a) - 1
  BY <1>2, <1>4, <1>11
<1>13. j + 1 \in 1 .. Len(a) /\ a[j + 1].at = at
  BY <1>1, <1>4
<1> QED BY <1>4, <1>5, <1>8, <1>9, <1>10, <1>12, <1>13

\* An edge at a block stays as blocks are moved.
LEMMA EdgeShift ==
  ASSUME NEW h, Good(h), NEW g, Shift(h, g), NEW x \in Used(h.a), Edge(h.a, x.at)
  PROVE  Edge(g.a, x.at) /\ x \in Used(g.a)
<1>1. Laid(h.a) /\ Laid(g.a) /\ Last(g.a) = Last(h.a) /\ Solid(g.a) = Solid(h.a)
  BY DEF Good, Shift
<1>2. Under(g.a, x.at) /\ From(g.a, x.at) = From(h.a, x.at)
  BY DEF Edge, Shift
<1>3. x.at \in Nat
  BY <1>1, MemberIs DEF Used
<1>4. \A y \in Used(g.a) : y.at \in Nat
  BY <1>1, MemberIs DEF Used
<1>5. x \in From(h.a, x.at)
  BY <1>3 DEF From
<1>6. x \in Used(g.a)
  BY <1>2, <1>5 DEF From
<1>7. ASSUME NEW y \in Used(g.a), y.at > x.at PROVE y.is = "past" \/ y = Last(g.a)
  <2>1. y.at >= x.at
    BY <1>3, <1>4, <1>7
  <2>2. y \in Used(h.a)
    BY <1>2, <2>1 DEF From
  <2> QED BY <1>1, <1>7, <2>2 DEF Edge
<1>8. ASSUME NEW y \in Used(g.a), y.at < x.at, y.is = "past" PROVE FALSE
  <2>1. y \in Used(h.a)
    BY <1>1, <1>8 DEF Solid
  <2> QED BY <1>8, <2>1 DEF Edge
<1> QED BY <1>2, <1>6, <1>7, <1>8 DEF Edge

\* An arena that is not free put in the place of another; and a free one put in.
Replaces(a, i, x, b) ==
  /\ Laid(b) /\ Last(b) = Last(a) /\ Len(b) = Len(a) /\ b[i] = x
  /\ \A m \in 1 .. Len(a) : m # i => b[m] = a[m]
  /\ Used(b) = (Used(a) \ {a[i]}) \cup {x}
  /\ FreeAts(b) \subseteq FreeAts(a)

\* An arena that is not free put in the place of another.
LEMMA ReplaceUsed ==
  ASSUME NEW a, Laid(a), NEW i \in 3 .. Len(a) - 1, NEW x \in Arena, x.is # "free",
         Quad(x.at), x.is = "fixed" => x.entry = 0,
         a[i - 1].at + 12 <= x.at, x.at + 12 <= a[i + 1].at
  PROVE  Replaces(a, i, x, ReplaceAt(a, i, x))
<1> DEFINE b == ReplaceAt(a, i, x)
<1>1. b = ReplaceAt(a, i, x)
  OBVIOUS
<1> HIDE DEF b
<1>2. /\ Laid(b) /\ Last(b) = Last(a) /\ Len(b) = Len(a) /\ b[i] = x
      /\ \A k \in 1 .. Len(a) : k # i => b[k] = a[k]
      /\ Used(b) = (Used(a) \ {a[i]}) \cup {y \in {x} : y.is # "free"}
      /\ Apart(a) /\ (x.is # "free" \/ a[i].is = "free") => Apart(b)
      /\ FreeAts(b) \subseteq FreeAts(a) \cup {y.at : y \in {z \in {x} : z.is = "free"}}
  BY <1>1, ReplaceKeeps
<1>3. Used(b) = (Used(a) \ {a[i]}) \cup {x} /\ FreeAts(b) \subseteq FreeAts(a)
  BY <1>2
<1>4. Replaces(a, i, x, b)
  BY <1>2, <1>3 DEF Replaces
<1> QED BY <1>4 DEF b

Inserts(a, i, x, b) ==
  /\ Laid(b) /\ Last(b) = Last(a) /\ Used(b) = Used(a)
  /\ FreeAts(b) \subseteq FreeAts(a) \cup {x.at}

\* A free arena put in.
LEMMA InsertFree ==
  ASSUME NEW a, Laid(a), NEW i \in 3 .. Len(a), NEW x \in Arena, x.is = "free",
         Quad(x.at), a[i - 1].at + 12 <= x.at, x.at + 12 <= a[i].at
  PROVE  Inserts(a, i, x, InsertAt(a, i, x))
<1> DEFINE b == InsertAt(a, i, x)
<1>1. b = InsertAt(a, i, x)
  OBVIOUS
<1>2. x.is = "fixed" => x.entry = 0
  OBVIOUS
<1> HIDE DEF b
<1>3. /\ Laid(b) /\ Last(b) = Last(a) /\ Len(b) = Len(a) + 1 /\ b[i] = x
      /\ \A k \in 1 .. i - 1 : b[k] = a[k]
      /\ \A k \in i .. Len(a) : b[k + 1] = a[k]
      /\ Used(b) = Used(a) \cup {y \in {x} : y.is # "free"}
      /\ Apart(a) /\ (x.is # "free" \/ (a[i - 1].is # "free" /\ a[i].is # "free")) => Apart(b)
      /\ FreeAts(b) \subseteq FreeAts(a) \cup {y.at : y \in {z \in {x} : z.is = "free"}}
  BY <1>1, <1>2, InsertKeeps
<1>4. Used(b) = Used(a) /\ FreeAts(b) \subseteq FreeAts(a) \cup {x.at}
  BY <1>3
<1>5. Inserts(a, i, x, b)
  BY <1>3, <1>4 DEF Inserts
<1> QED BY <1>5 DEF b

\* A heap with nothing to discard, or no room for it to make.
Stuck(h) == None(h.es) \/ FreeAts(h.a) = {}

\* What lowering does to a heap.
Sinks(h, g, at) ==
  /\ Good(g) /\ g.spare = h.spare /\ g.size = h.size
  /\ Last(g.a) = Last(h.a) /\ Fixes(g.a) = Fixes(h.a)
  /\ Spared(h.es, g.es) /\ Stuck(g) /\ PastFrom(g.a, at)

\* A heap lowered twice.
LEMMA SinksTwice ==
  ASSUME NEW h, Good(h), NEW g, NEW k, NEW at, NEW at2, Sinks(h, g, at), Sinks(g, k, at2)
  PROVE  Sinks(h, k, at2)
<1>1. h.es \in Seq(HandleEntry) /\ g.es \in Seq(HandleEntry)
  BY DEF Sinks, Good
<1>2. Spared(h.es, k.es)
  BY <1>1, SparedTwice DEF Sinks
<1> QED BY <1>2 DEF Sinks

\* The arena past what is kept.
PastArena(a, k) == NewArena(a[k].at, "past", 0)

\* What is past what is kept.
LEMMA PastArenaIs ==
  ASSUME NEW a, Laid(a), NEW k \in 3 .. Len(a) - 1
  PROVE  /\ PastArena(a, k) \in Arena /\ PastArena(a, k).at = a[k].at
         /\ PastArena(a, k).is = "past"
         /\ Quad(a[k].at) /\ a[k].at \in Nat /\ a[k - 1].at \in Nat /\ a[k + 1].at \in Nat
         /\ a[k - 1].at + 12 <= a[k].at /\ a[k].at + 12 <= a[k + 1].at
         /\ k \in 1 .. Len(a)
<1>1. Len(a) \in Nat
  BY LaidIs
<1>2. k \in 1 .. Len(a) - 1 /\ k - 1 \in 1 .. Len(a) - 1 /\ (k - 1) + 1 = k
  BY <1>1
<1>3. a[k].at \in Nat /\ a[k + 1].at \in Nat /\ a[k].at + 12 <= a[k + 1].at /\ k \in 1 .. Len(a)
  BY <1>2, NextIs
<1>4. a[k - 1].at \in Nat /\ a[k - 1].at + 12 <= a[(k - 1) + 1].at
  BY <1>2, NextIs
<1>5. a[k - 1].at + 12 <= a[k].at
  BY <1>2, <1>4
<1>6. Quad(a[k].at)
  BY <1>3 DEF Laid
<1>7. a[k].at <= Highest
  BY <1>3, LaidIs
<1>8. "past" \in Kinds
  BY DEF Kinds
<1>9. NewArena(a[k].at, "past", 0) \in Arena
  BY <1>3, <1>7, <1>8, NewArenaIs
<1> QED BY <1>3, <1>4, <1>5, <1>6, <1>9, FieldsAre DEF PastArena

\* A free arena taken.
LEMMA PastTaken ==
  ASSUME NEW h, Good(h), Stuck(h), NEW at, PastFrom(h.a, at), NEW j, j = IndexOf(h.a, at) - 1,
         h.a[j].is = "free"
  PROVE  Sinks(h, Past(h, j), h.a[j].at)
<1> DEFINE a == h.a
           x == PastArena(a, j)
           b == ReplaceAt(a, j, x)
<1>1. Laid(a)
  BY DEF Good
<1>2. /\ \A y \in Used(a) : y.at > a[j].at => y.is = "past" \/ y = Last(a)
      /\ \A y \in Used(a) : y.at < a[j].at => y.is # "past"
      /\ \A f \in FreeAts(a) : f <= a[j].at
      /\ a[j].at \in Nat
      /\ j \in 3 .. Len(a) - 1
  BY <1>1, EdgeDown
<1>3. /\ x \in Arena /\ x.at = a[j].at /\ x.is = "past" /\ Quad(x.at)
      /\ a[j - 1].at + 12 <= x.at /\ x.at + 12 <= a[j + 1].at /\ j \in 1 .. Len(a)
  BY <1>1, <1>2, PastArenaIs
<1>4. Past(h, j) = [h EXCEPT !.a = b]
  BY DEF Past, PastArena
<1>5. [h EXCEPT !.a = b] = HeapOf(b, h.es, h.spare, h.size)
  BY ChangedIs DEF Good
<1>6. b = ReplaceAt(a, j, x)
  OBVIOUS
<1>7. Last(h.a) = Last(a)
  OBVIOUS
<1> HIDE DEF b, x
<1>22. x.is # "free" /\ (x.is = "fixed" => x.entry = 0)
  BY <1>3
<1>23. Replaces(a, j, x, b)
  <2> HIDE DEF a
  <2>1. Replaces(a, j, x, ReplaceAt(a, j, x))
    BY <1>1, <1>2, <1>3, <1>22, ReplaceUsed
  <2> QED BY <1>6, <2>1
<1>8. /\ Laid(b) /\ Last(b) = Last(a)
      /\ Used(b) = (Used(a) \ {a[j]}) \cup {x}
      /\ FreeAts(b) \subseteq FreeAts(a)
  BY <1>23 DEF Replaces
<1>9. Used(b) = Used(a) \cup {x} /\ FreeAts(b) \subseteq FreeAts(a)
  <2>1. a[j] \notin Used(a)
    BY DEF Used
  <2> QED BY <1>3, <1>8, <2>1
<1>10. a[j].at \in FreeAts(a)
  BY <1>1, <1>3, FreeAtIs
<1>11. None(h.es)
  BY <1>10 DEF Stuck
<1>12. h.es \in Seq(HandleEntry) /\ Agree(Used(a), h.es)
  BY DEF Good
<1>13. Agree(Used(b), h.es)
  BY <1>3, <1>9, <1>12, AgreeOther
<1>14. Spared(h.es, h.es)
  BY <1>12, SparedSelf
<1>15. Alike(h.es, h.es)
  BY <1>14 DEF Spared
<1>16. Good(HeapOf(b, h.es, h.spare, h.size))
  BY <1>7, <1>8, <1>13, <1>15, GoodMoved
<1>17. Fixes(b) = Fixes(a)
  BY <1>3, <1>9 DEF Fixes
<1>18. PastFrom(b, a[j].at)
  <2>1. x \in Used(b) /\ x.at = a[j].at /\ x.is = "past"
    BY <1>3, <1>9
  <2>2. \A y \in Used(b) : y.at > a[j].at => y.is = "past" \/ y = Last(b)
    BY <1>2, <1>3, <1>8, <1>9
  <2>3. \A y \in Used(b) : y.at < a[j].at => y.is # "past"
    <3>1. ~ (x.at < a[j].at)
      BY <1>2, <1>3
    <3> QED BY <1>2, <1>9, <3>1
  <2>4. ASSUME NEW f \in FreeAts(b) PROVE f < a[j].at
    <3>1. f # a[j].at
      BY <1>8, <2>1, FreeNotUsed
    <3>2. f <= a[j].at
      BY <1>2, <1>9
    <3>3. f \in Nat
      <4>1. PICK m \in FreeIn(b) : b[m].at = f
        BY <1>8, FreeAtIs
      <4>2. m \in 1 .. Len(b)
        <5>1. FreeIn(b) \subseteq 3 .. Len(b) - 1 /\ Len(b) \in Nat
          BY <1>8, FreeAtIs, LaidIs
        <5> QED BY <4>1, <5>1
      <4> QED BY <1>8, <4>1, <4>2, LaidIs
    <3> QED BY <1>2, <3>1, <3>2, <3>3
  <2> QED BY <2>1, <2>2, <2>3, <2>4 DEF PastFrom, Edge, Under
<1> DEFINE g == HeapOf(b, h.es, h.spare, h.size)
<1>19. g.a = b /\ g.es = h.es /\ g.spare = h.spare /\ g.size = h.size
  BY HeapOfIs
<1>20. Good(g) /\ Past(h, j) = g
  BY <1>4, <1>5, <1>16
<1> HIDE DEF g
<1>21. Sinks(h, g, a[j].at)
  BY <1>8, <1>11, <1>14, <1>17, <1>18, <1>19, <1>20 DEF Sinks, Stuck
<1> QED BY <1>20, <1>21

-----------------------------------------------------------------------------
(* A block moved down.                                                     *)

\* What becomes of a row where a block at arena k is put in a free one under it.
Lowers(a, k, x, d) ==
  /\ Laid(d) /\ Last(d) = Last(a)
  /\ Used(d) = (Used(a) \ {a[k]}) \cup {PastArena(a, k), x}
  /\ \A f \in FreeAts(d) : f < a[k].at

\* The rows that a block put lower makes.
PastRow(a, k) == ReplaceAt(a, k, PastArena(a, k))
TakenRow(a, k, f, x) == ReplaceAt(PastRow(a, k), f, x)
RestArena(a, k, f) == NewArena(a[f].at + Span(a, k), "free", 0)

\* The row with the block's arena past what is kept.
LEMMA PastRowIs ==
  ASSUME NEW a, Laid(a), NEW k \in 3 .. Len(a) - 1, NEW f \in 3 .. k - 1
  PROVE  LET c == PastRow(a, k)
         IN /\ Laid(c) /\ Last(c) = Last(a) /\ Len(c) = Len(a)
            /\ c[f] = a[f] /\ c[f - 1] = a[f - 1] /\ c[f + 1].at = a[f + 1].at
            /\ Used(c) = (Used(a) \ {a[k]}) \cup {PastArena(a, k)}
            /\ FreeAts(c) \subseteq FreeAts(a)
<1> DEFINE x == PastArena(a, k)
           c == PastRow(a, k)
<1>1. /\ x \in Arena /\ x.at = a[k].at /\ x.is = "past" /\ Quad(x.at)
      /\ a[k - 1].at + 12 <= x.at /\ x.at + 12 <= a[k + 1].at /\ k \in 1 .. Len(a)
  BY PastArenaIs
<1>2. c = ReplaceAt(a, k, x)
  BY DEF PastRow
<1>3. Len(a) \in Nat
  BY LaidIs
<1>4. f \in 1 .. Len(a) /\ f # k /\ f - 1 \in 1 .. Len(a) /\ f - 1 # k /\ f + 1 \in 1 .. Len(a)
  BY <1>3
<1> HIDE DEF x, c
<1>8. x.is # "free" /\ (x.is = "fixed" => x.entry = 0)
  BY <1>1
<1>9. Replaces(a, k, x, c)
  <2>1. Replaces(a, k, x, ReplaceAt(a, k, x))
    BY <1>1, <1>8, ReplaceUsed
  <2> QED BY <1>2, <2>1
<1>5. /\ Laid(c) /\ Last(c) = Last(a) /\ Len(c) = Len(a) /\ c[k] = x
      /\ \A m \in 1 .. Len(a) : m # k => c[m] = a[m]
      /\ Used(c) = (Used(a) \ {a[k]}) \cup {x}
      /\ FreeAts(c) \subseteq FreeAts(a)
  BY <1>9 DEF Replaces
<1>6. c[f] = a[f] /\ c[f - 1] = a[f - 1] /\ c[f + 1].at = a[f + 1].at
  BY <1>1, <1>4, <1>5
<1>7. Used(c) = (Used(a) \ {a[k]}) \cup {x} /\ FreeAts(c) \subseteq FreeAts(a)
  BY <1>1, <1>5
<1> QED BY <1>5, <1>6, <1>7 DEF c, x

\* The row with the block in all of the free arena.
LEMMA TakenRowIs ==
  ASSUME NEW a, Laid(a), NEW k \in 3 .. Len(a) - 1, NEW f \in 3 .. k - 1, a[f].is = "free",
         NEW x \in Arena, x.at = a[f].at, x.is = "moveable", Under(a, a[k].at)
  PROVE  LET d == TakenRow(a, k, f, x)
         IN /\ Lowers(a, k, x, d) /\ Len(d) = Len(a)
            /\ d[f] = x /\ d[f + 1].at = a[f + 1].at
<1> DEFINE c == PastRow(a, k)
           p == PastArena(a, k)
           d == TakenRow(a, k, f, x)
<1>1. d = ReplaceAt(c, f, x)
  BY DEF TakenRow
<1>2. /\ Laid(c) /\ Last(c) = Last(a) /\ Len(c) = Len(a)
      /\ c[f] = a[f] /\ c[f - 1] = a[f - 1] /\ c[f + 1].at = a[f + 1].at
      /\ Used(c) = (Used(a) \ {a[k]}) \cup {p}
      /\ FreeAts(c) \subseteq FreeAts(a)
  BY PastRowIs
<1>3. Len(a) \in Nat
  BY LaidIs
<1>4. f \in 3 .. Len(a) - 1 /\ f \in 3 .. Len(c) - 1 /\ f + 1 \in 1 .. Len(a) /\ f + 1 # f
  BY <1>2, <1>3
<1>5. Quad(a[f].at) /\ a[f - 1].at + 12 <= a[f].at /\ a[f].at + 12 <= a[f + 1].at
  BY <1>4, PastArenaIs
<1> HIDE DEF c, d, p
<1>6. /\ Quad(x.at) /\ (x.is = "fixed" => x.entry = 0)
      /\ c[f - 1].at + 12 <= x.at /\ x.at + 12 <= c[f + 1].at
  BY <1>2, <1>5
<1>14. x.is # "free"
  OBVIOUS
<1>15. Replaces(c, f, x, d)
  <2>1. Replaces(c, f, x, ReplaceAt(c, f, x))
    BY <1>2, <1>4, <1>6, <1>14, ReplaceUsed
  <2> QED BY <1>1, <2>1
<1>7. /\ Laid(d) /\ Last(d) = Last(c) /\ Len(d) = Len(c) /\ d[f] = x
      /\ \A m \in 1 .. Len(c) : m # f => d[m] = c[m]
      /\ Used(d) = (Used(c) \ {c[f]}) \cup {x}
      /\ FreeAts(d) \subseteq FreeAts(c)
  BY <1>15 DEF Replaces
<1>8. c[f] \notin Used(c)
  BY <1>2 DEF Used
<1>9. Used(d) = (Used(a) \ {a[k]}) \cup {p, x}
  BY <1>2, <1>7, <1>8
<1>10. FreeAts(d) \subseteq FreeAts(a)
  BY <1>2, <1>7
<1>11. \A g \in FreeAts(d) : g < a[k].at
  BY <1>10 DEF Under
<1>12. d[f + 1].at = a[f + 1].at
  BY <1>2, <1>4, <1>7
<1>13. Lowers(a, k, x, d)
  BY <1>2, <1>7, <1>9, <1>11 DEF Lowers, p
<1> QED BY <1>2, <1>7, <1>12, <1>13 DEF d

\* A span is of twelve bytes or more; what of another there is besides.
LEMMA Between ==
  ASSUME NEW x \in Nat, NEW y \in Nat, Quad(x), Quad(y), x + 12 <= y, NEW s, s = y - x
  PROVE  s \in Nat /\ s >= 12 /\ Quad(s)
BY QuadSum

\* What is left over the block is a free arena.
LEMMA Within ==
  ASSUME NEW x \in Nat, NEW y \in Nat, Quad(x), NEW s \in Nat, Quad(s), s >= 12,
         NEW t, t = y - x, t - s >= 16, NEW at, at = x + s
  PROVE  at \in Nat /\ Quad(at) /\ x + 12 <= at /\ at + 12 <= y
BY QuadSum

\* The row with the block and a free arena over it.
LEMMA RestRowIs ==
  ASSUME NEW a, Laid(a), NEW k \in 3 .. Len(a) - 1, NEW f \in 3 .. k - 1, a[f].is = "free",
         NEW x \in Arena, x.at = a[f].at, x.is = "moveable", Under(a, a[k].at),
         Span(a, f) - Span(a, k) >= 16
  PROVE  Lowers(a, k, x, InsertAt(TakenRow(a, k, f, x), f + 1, RestArena(a, k, f)))
<1> DEFINE d == TakenRow(a, k, f, x)
           r == RestArena(a, k, f)
           at == a[f].at + Span(a, k)
           i == f + 1
           b == InsertAt(d, i, r)
<1>1. Lowers(a, k, x, d) /\ Len(d) = Len(a) /\ d[f] = x /\ d[f + 1].at = a[f + 1].at
  BY TakenRowIs
<1>2. Len(a) \in Nat
  BY LaidIs
<1>3. i \in 3 .. Len(a) /\ i - 1 = f /\ f \in 3 .. Len(a) - 1 /\ f + 1 \in 1 .. Len(a) /\ f + 1 <= k
      /\ k \in 1 .. Len(a)
  BY <1>2
<1>4. /\ a[f].at \in Nat /\ a[f + 1].at \in Nat /\ Quad(a[f].at) /\ a[f + 1].at <= Highest
  BY <1>3, PastArenaIs, LaidIs
<1>5. /\ a[k].at \in Nat /\ a[k + 1].at \in Nat /\ Quad(a[k].at) /\ Quad(a[k + 1].at)
      /\ a[k].at + 12 <= a[k + 1].at
  <2>1. k + 1 \in 1 .. Len(a)
    BY <1>2
  <2> QED BY <2>1, PastArenaIs DEF Laid
<1>6. Span(a, k) = a[k + 1].at - a[k].at /\ Span(a, f) = a[f + 1].at - a[f].at
  BY DEF Span
<1>7. Span(a, k) \in Nat /\ Span(a, k) >= 12 /\ Quad(Span(a, k))
  BY <1>5, <1>6, Between
<1>8. at \in Nat /\ Quad(at) /\ a[f].at + 12 <= at /\ at + 12 <= a[f + 1].at
  BY <1>4, <1>6, <1>7, Within
<1>9. at <= Highest
  <2> HIDE DEF at
  <2>1. Highest \in Nat
    BY HighestIs
  <2> QED BY <1>4, <1>8, <2>1
<1>10. r \in Arena /\ r.at = at /\ r.is = "free"
  <2> HIDE DEF at
  <2>1. "free" \in Kinds
    BY DEF Kinds
  <2>2. NewArena(at, "free", 0) \in Arena
    BY <1>8, <1>9, <2>1, NewArenaIs
  <2> QED BY <2>2, FieldsAre DEF RestArena, at
<1>11. a[f + 1].at <= a[k].at
  <2>1. CASE f + 1 = k
    BY <2>1, <1>5
  <2>2. CASE f + 1 # k
    <3>1. f + 1 < k
      BY <1>3, <2>2
    <3>2. a[f + 1].at + 12 <= a[k].at
      BY <1>3, <3>1, Rising
    <3> QED BY <1>4, <1>5, <3>2, SMTT(20)
  <2> QED BY <2>1, <2>2
<1>12. at < a[k].at
  <2> DEFINE next == a[f + 1].at
             top == a[k].at
  <2>1. at \in Nat /\ next \in Nat /\ top \in Nat /\ at + 12 <= next /\ next <= top
    BY <1>4, <1>5, <1>8, <1>11
  <2> HIDE DEF at, next, top
  <2>2. at < top
    BY <2>1
  <2> QED BY <2>2 DEF top
<1>13. /\ Laid(d) /\ Last(d) = Last(a)
       /\ Used(d) = (Used(a) \ {a[k]}) \cup {PastArena(a, k), x}
       /\ \A g \in FreeAts(d) : g < a[k].at
  BY <1>1 DEF Lowers
<1>14. /\ i \in 3 .. Len(d) /\ d[i - 1].at + 12 <= r.at /\ r.at + 12 <= d[i].at /\ Quad(r.at)
       /\ (r.is = "fixed" => r.entry = 0)
  BY <1>1, <1>3, <1>8, <1>10
<1>15. b = InsertAt(d, i, r)
  OBVIOUS
<1> HIDE DEF d, r, at, b, i
<1>19. Inserts(d, i, r, b)
  <2>1. Inserts(d, i, r, InsertAt(d, i, r))
    BY <1>10, <1>13, <1>14, InsertFree
  <2> QED BY <1>15, <2>1
<1>16. /\ Laid(b) /\ Last(b) = Last(d) /\ Used(b) = Used(d)
       /\ FreeAts(b) \subseteq FreeAts(d) \cup {r.at}
  BY <1>19 DEF Inserts
<1>17. Used(b) = Used(d) /\ FreeAts(b) \subseteq FreeAts(d) \cup {at}
  BY <1>10, <1>16
<1>18. Lowers(a, k, x, b)
  BY <1>12, <1>13, <1>16, <1>17 DEF Lowers
<1> QED BY <1>18 DEF b, d, i, r

\* A handle's block moved, if that is not locked.
LEMMA SparedPlaced ==
  ASSUME NEW es \in Seq(HandleEntry), NEW fs, NEW e \in DOMAIN es, NEW n \in Nat, n # 0,
         Placing(es, fs, e, n), es[e].used, es[e].at # 0, es[e].locks = 0
  PROVE  Spared(es, fs)
<1>1. /\ fs \in Seq(HandleEntry) /\ Len(fs) = Len(es)
      /\ \A d \in DOMAIN es : d # e => fs[d] = es[d]
      /\ fs[e].at = n /\ fs[e].used = es[e].used /\ fs[e].level = es[e].level
      /\ fs[e].locks = es[e].locks
  BY DEF Placing
<1>2. ASSUME NEW d \in DOMAIN es
      PROVE  /\ fs[d].used = es[d].used /\ fs[d].level = es[d].level /\ fs[d].locks = es[d].locks
             /\ es[d].used \/ fs[d] = es[d]
  BY <1>1
<1>3. Alike(es, fs)
  BY <1>1, <1>2 DEF Alike
<1>4. ASSUME NEW d \in DOMAIN es
      PROVE  /\ es[d].locks > 0 => fs[d].at = es[d].at
             /\ es[d].at = 0 => fs[d].at = 0
             /\ ~Gone(es, fs, d)
  <2>1. CASE d = e
    BY <1>1, <2>1 DEF Gone
  <2>2. CASE d # e
    BY <1>1, <2>2 DEF Gone
  <2> QED BY <2>1, <2>2
<1> QED BY <1>3, <1>4 DEF Spared

\* A handle's block moved to a place.
MovesTo(U, es, x, to, fs) ==
  /\ Agree((U \ {x}) \cup {NewArena(to, "moveable", x.entry)}, fs)
  /\ x.entry \in DOMAIN es /\ es[x.entry].used /\ es[x.entry].at # 0
  /\ Placing(es, fs, x.entry, to + 6)

\* The handles agree with a block moved.
LEMMA MoveAgrees ==
  ASSUME NEW U, U \subseteq Arena, NEW es \in Seq(HandleEntry), Agree(U, es),
         NEW x \in U, x.is = "moveable", NEW to \in Nat, to + 6 <= Highest
  PROVE  MovesTo(U, es, x, to, PlaceGiven(es, x.entry, to))
BY AgreeMoved DEF MovesTo

\* The heap with a block put lower, and what of its arena is past.
LowBlock(a, k, f) == NewArena(a[f].at, "moveable", a[k].entry)
LowRow(a, k, f) ==
  IF Span(a, f) - Span(a, k) >= 16
  THEN InsertAt(TakenRow(a, k, f, LowBlock(a, k, f)), f + 1, RestArena(a, k, f))
  ELSE TakenRow(a, k, f, LowBlock(a, k, f))

\* A block at another place.
LEMMA BlockPlaced ==
  ASSUME NEW x \in Arena, NEW to, NEW k, x.is = k
  PROVE  [x EXCEPT !.at = to] = NewArena(to, k, x.entry)
BY DEF Arena, NewArena

\* The heap with a block put lower, by its row.
LEMMA PastToRow ==
  ASSUME NEW h, IsHeap(h), NEW k, h.a[k] \in Arena, h.a[k].is = "moveable", NEW f
  PROVE  PastTo(h, k, f)
           = HeapOf(LowRow(h.a, k, f), PlaceGiven(h.es, h.a[k].entry, h.a[f].at), h.spare, h.size)
<1> DEFINE a == h.a
           to == a[f].at
           p == PastRow(a, k)
           taken == ReplaceAt(Past(h, k).a, f, [a[k] EXCEPT !.at = to])
           b == IF Span(a, f) - Span(a, k) >= 16 THEN InsertAt(taken, f + 1, NewArena(to + Span(a, k), "free", 0))
                ELSE taken
           fs == PlaceGiven(h.es, a[k].entry, to)
<1>1. Past(h, k) = [h EXCEPT !.a = p]
  BY DEF Past, PastRow, PastArena
<1>2. [h EXCEPT !.a = p] = HeapOf(p, h.es, h.spare, h.size)
  <2> HIDE DEF p
  <2> QED BY ChangedIs
<1>3. Past(h, k).a = p
  <2> HIDE DEF p
  <2> QED BY <1>1, <1>2, HeapOfIs
<1>4. [a[k] EXCEPT !.at = to] = LowBlock(a, k, f)
  BY BlockPlaced DEF LowBlock
<1>5. taken = TakenRow(a, k, f, LowBlock(a, k, f))
  BY <1>3, <1>4 DEF TakenRow
<1>6. NewArena(to + Span(a, k), "free", 0) = RestArena(a, k, f)
  BY DEF RestArena
<1>7. b = LowRow(a, k, f)
  <2> HIDE DEF taken
  <2> QED BY <1>5, <1>6 DEF LowRow
<1>8. PastTo(h, k, f) = [h EXCEPT !.a = b, !.es = fs]
  BY DEF PastTo
<1>9. [h EXCEPT !.a = b, !.es = fs] = HeapOf(b, fs, h.spare, h.size)
  <2> HIDE DEF b, fs
  <2> QED BY ChangedIs
<1> HIDE DEF b
<1> QED BY <1>7, <1>8, <1>9

\* The row with a block put lower.
LEMMA LowRowIs ==
  ASSUME NEW a, Laid(a), NEW k \in 3 .. Len(a) - 1, NEW f \in 3 .. k - 1, a[f].is = "free",
         LowBlock(a, k, f) \in Arena, Under(a, a[k].at)
  PROVE  Lowers(a, k, LowBlock(a, k, f), LowRow(a, k, f))
<1> DEFINE x == LowBlock(a, k, f)
<1>1. x.at = a[f].at /\ x.is = "moveable" /\ x \in Arena
  BY FieldsAre DEF LowBlock
<1> HIDE DEF x
<1>2. Lowers(a, k, x, TakenRow(a, k, f, x))
  BY <1>1, TakenRowIs
<1>3. ASSUME Span(a, f) - Span(a, k) >= 16
      PROVE  Lowers(a, k, x, InsertAt(TakenRow(a, k, f, x), f + 1, RestArena(a, k, f)))
  BY <1>1, <1>3, RestRowIs
<1> QED BY <1>2, <1>3 DEF LowRow, x

\* A row with an edge, lowered by a block.
LEMMA LowersEdge ==
  ASSUME NEW a, Laid(a), NEW k \in 3 .. Len(a) - 1, Edge(a, a[k].at), a[k].is = "moveable",
         NEW x, x.is = "moveable", x.at \in Nat, x.at < a[k].at, NEW d, Lowers(a, k, x, d)
  PROVE  PastFrom(d, a[k].at) /\ Fixes(d) = Fixes(a)
<1> DEFINE p == PastArena(a, k)
           at == a[k].at
<1>1. p.at = at /\ p.is = "past" /\ at \in Nat /\ k \in 1 .. Len(a)
  BY PastArenaIs
<1>2. Laid(d) /\ Last(d) = Last(a) /\ Used(d) = (Used(a) \ {a[k]}) \cup {p, x}
      /\ \A f \in FreeAts(d) : f < at
  BY DEF Lowers
<1> HIDE DEF p, at
<1>3. \A y \in Used(a) : y.at > at => y.is = "past" \/ y = Last(a)
  BY DEF Edge, at
<1>4. \A y \in Used(a) : y.at < at => y.is # "past"
  BY DEF Edge, at
<1>5. x.at < at
  BY DEF at
<1>6. \A y \in Used(d) : y.at > at => y.is = "past" \/ y = Last(d)
  <2>1. ~ (x.at > at)
    BY <1>1, <1>5
  <2> QED BY <1>1, <1>2, <1>3, <2>1
<1>7. \A y \in Used(d) : y.at < at => y.is # "past"
  <2>1. ~ (p.at < at)
    BY <1>1
  <2> QED BY <1>2, <1>4, <2>1
<1>8. p \in Used(d)
  BY <1>2
<1>9. PastFrom(d, at)
  BY <1>1, <1>2, <1>6, <1>7, <1>8 DEF PastFrom, Edge, Under
<1>10. Fixes(d) = Fixes(a)
  BY <1>1, <1>2 DEF Fixes
<1> QED BY <1>9, <1>10 DEF at

\* A block put lower.
LEMMA PastToIs ==
  ASSUME NEW h, Good(h), Stuck(h), NEW k \in 3 .. Len(h.a) - 1, MayMove(h.a, h.es, k),
         Edge(h.a, h.a[k].at), NEW f \in RoomFor(h, k)
  PROVE  Sinks(h, PastTo(h, k, f), h.a[k].at)
<1> DEFINE a == h.a
           es == h.es
           to == a[f].at
           e == a[k].entry
           x == LowBlock(a, k, f)
           d == LowRow(a, k, f)
           fs == PlaceGiven(es, e, to)
<1>1. Laid(a) /\ es \in Seq(HandleEntry) /\ Agree(Used(a), es) /\ IsHeap(h)
  BY DEF Good
<1>2. a[k].is = "moveable" /\ es[e].locks = 0
  BY DEF MayMove
<1>3. a[k].at \in Nat /\ k \in 1 .. Len(a) /\ a[k].at <= Highest
  <2>1. a[k].at \in Nat /\ k \in 1 .. Len(a)
    BY <1>1, PastArenaIs
  <2> QED BY <1>1, <2>1, LaidIs
<1>4. f \in FreeIn(a)
  BY DEF RoomFor
<1>5. f \in 3 .. Len(a) - 1 /\ a[f].is = "free" /\ f \in 1 .. Len(a) /\ to \in FreeAts(a)
  <2>1. Len(a) \in Nat
    BY <1>1, LaidIs
  <2>2. f \in 3 .. Len(a) - 1 /\ a[f].is = "free"
    BY <1>1, <1>4, FreeAtIs DEF FreeIn
  <2>3. f \in 1 .. Len(a)
    BY <2>1, <2>2
  <2> QED BY <1>1, <2>2, <2>3, FreeAtIs
<1>6. to \in Nat /\ to < a[k].at
  <2>1. Under(a, a[k].at)
    BY DEF Edge
  <2>2. to < a[k].at
    BY <1>5, <2>1 DEF Under
  <2> QED BY <1>1, <1>5, <2>2, LaidIs
<1>7. f < k
  BY <1>1, <1>3, <1>5, <1>6, Further
<1>8. f \in 3 .. k - 1
  BY <1>3, <1>5, <1>7
<1>9. to + 12 <= a[k].at
  BY <1>1, <1>3, <1>5, <1>7, Rising
<1>10. to + 6 <= Highest
  <2> HIDE DEF to
  <2>1. Highest \in Nat
    BY HighestIs
  <2> QED BY <1>3, <1>6, <1>9, <2>1
<1>11. a[k] \in Used(a) /\ a[k] \in Arena /\ Used(a) \subseteq Arena
  <2>1. a[k] \in Used(a) /\ a[k] \in Arena
    BY <1>1, <1>2, <1>3, FreeAtIs, LaidIs
  <2>2. Used(a) \subseteq Arena
    BY <1>1, MemberIs DEF Used
  <2> QED BY <2>1, <2>2
<1>12. a[k].entry \in Nat
  BY <1>11, ArenaIs
<1>13. x \in Arena /\ x.at = to /\ x.is = "moveable" /\ x = NewArena(to, "moveable", e)
  <2>1. to <= Highest
    <3> HIDE DEF to
    <3>1. Highest \in Nat
      BY HighestIs
    <3> QED BY <1>6, <1>10, <3>1
  <2>2. "moveable" \in Kinds
    BY DEF Kinds
  <2>3. NewArena(to, "moveable", e) \in Arena
    <3> HIDE DEF to
    <3> QED BY <1>6, <1>12, <2>1, <2>2, NewArenaIs
  <2> QED BY <2>3, FieldsAre DEF LowBlock
<1>14. PastTo(h, k, f) = HeapOf(d, fs, h.spare, h.size)
  BY <1>1, <1>2, <1>11, PastToRow
<1>15. Lowers(a, k, x, d)
  <2>1. Under(a, a[k].at)
    BY DEF Edge
  <2> QED BY <1>1, <1>5, <1>8, <1>13, <2>1, LowRowIs
<1>16. fs = PlaceGiven(es, e, to)
  OBVIOUS
<1>20. h.a = a /\ h.es = es /\ Edge(a, a[k].at) /\ k \in 3 .. Len(a) - 1
  OBVIOUS
<1>21. e = a[k].entry
  OBVIOUS
<1> HIDE DEF d, x, fs, to, e, a, es
<1>17. /\ Agree((Used(a) \ {a[k]}) \cup {x}, fs)
       /\ e \in DOMAIN es /\ es[e].used /\ es[e].at # 0
       /\ Placing(es, fs, e, to + 6)
  <2>1. /\ Agree((Used(a) \ {a[k]}) \cup {NewArena(to, "moveable", a[k].entry)}, fs)
        /\ a[k].entry \in DOMAIN es /\ es[a[k].entry].used /\ es[a[k].entry].at # 0
        /\ Placing(es, fs, a[k].entry, to + 6)
    <3>1. MovesTo(Used(a), es, a[k], to, PlaceGiven(es, a[k].entry, to))
      BY <1>1, <1>2, <1>6, <1>10, <1>11, MoveAgrees
    <3>2. MovesTo(Used(a), es, a[k], to, fs)
      BY <1>16, <1>21, <3>1
    <3> QED BY <3>2 DEF MovesTo
  <2> QED BY <1>13, <1>21, <2>1
<1>18. Spared(es, fs)
  <2>1. to + 6 \in Nat /\ to + 6 # 0
    BY <1>6
  <2> QED BY <1>1, <1>2, <1>17, <2>1, SparedPlaced
<1>19. PastFrom(d, a[k].at) /\ Fixes(d) = Fixes(a) /\ Laid(d) /\ Last(d) = Last(a)
  <2>1. x.at \in Nat /\ x.at < a[k].at
    BY <1>6, <1>13
  <2>2. PastFrom(d, a[k].at) /\ Fixes(d) = Fixes(a)
    BY <1>1, <1>2, <1>13, <1>15, <1>20, <2>1, LowersEdge
  <2> QED BY <1>15, <2>2 DEF Lowers
<1>22. Agree(Used(d), fs)
  <2>1. Used(d) = (Used(a) \ {a[k]}) \cup {PastArena(a, k), x}
    BY <1>15 DEF Lowers
  <2>2. PastArena(a, k).is = "past"
    BY <1>1, <1>20, PastArenaIs
  <2>3. \A y : y.is = "moveable" => (y \in (Used(a) \ {a[k]}) \cup {x} <=> y \in Used(d))
    BY <2>1, <2>2
  <2> QED BY <1>17, <2>3, AgreeOther
<1>23. Good(HeapOf(d, fs, h.spare, h.size))
  <2>1. Alike(h.es, fs) /\ Last(d) = Last(h.a)
    BY <1>18, <1>19, <1>20 DEF Spared
  <2> QED BY <1>19, <1>22, <2>1, GoodMoved
<1>24. None(fs)
  <2>1. FreeAts(h.a) # {}
    BY <1>5, <1>20
  <2>2. None(es)
    BY <1>20, <2>1 DEF Stuck
  <2> QED BY <1>1, <1>18, <2>2, SparedNone
<1> DEFINE g == HeapOf(d, fs, h.spare, h.size)
<1>25. g.a = d /\ g.es = fs /\ g.spare = h.spare /\ g.size = h.size
  BY HeapOfIs
<1>26. Good(g) /\ PastTo(h, k, f) = g
  BY <1>14, <1>23
<1> HIDE DEF g
<1>27. Sinks(h, g, a[k].at)
  BY <1>18, <1>19, <1>20, <1>24, <1>25, <1>26 DEF Sinks, Stuck
<1> QED BY <1>20, <1>26, <1>27

-----------------------------------------------------------------------------
(* The heap lowered.                                                       *)
\* The heap as it is lowered.
LowOf(h, at, ended) == [h |-> h, at |-> at, ended |-> ended]
IsLow(l) == l = LowOf(l.h, l.at, l.ended)
Sunk(h, l) == IsLow(l) /\ Sinks(h, l.h, l.at)

\* What such a record holds.
LEMMA LowOfIs ==
  ASSUME NEW h, NEW at, NEW ended
  PROVE  /\ IsLow(LowOf(h, at, ended)) /\ LowOf(h, at, ended).h = h
         /\ LowOf(h, at, ended).at = at /\ LowOf(h, at, ended).ended = ended
BY DEF LowOf, IsLow

LowEnds(l, x) == [l EXCEPT !.ended = x]
LowEndsWith(l, g, x) == [l EXCEPT !.h = g, !.ended = x]

\* Such a record that ends, and with another heap.
LEMMA LowSet ==
  ASSUME NEW l, IsLow(l), NEW g, NEW x
  PROVE  LowEnds(l, x) = LowOf(l.h, l.at, x) /\ LowEndsWith(l, g, x) = LowOf(g, l.at, x)
<1> DEFINE h == l.h
           at == l.at
           ended == l.ended
<1>1. l = LowOf(h, at, ended)
  BY DEF IsLow
<1>2. [l EXCEPT !.h = g, !.ended = x] = [[l EXCEPT !.h = g] EXCEPT !.ended = x]
  OBVIOUS
<1> HIDE DEF h, at, ended
<1>3. [LowOf(h, at, ended) EXCEPT !.ended = x] = LowOf(h, at, x)
  BY DEF LowOf
<1>4. [LowOf(h, at, ended) EXCEPT !.h = g] = LowOf(g, at, ended)
  BY DEF LowOf
<1>5. [LowOf(g, at, ended) EXCEPT !.ended = x] = LowOf(g, at, x)
  BY DEF LowOf
<1>6. [l EXCEPT !.ended = x] = LowOf(h, at, x)
  BY <1>1, <1>3
<1>7. [l EXCEPT !.h = g, !.ended = x] = LowOf(g, at, x)
  BY <1>1, <1>2, <1>4, <1>5
<1> QED BY <1>6, <1>7 DEF h, at, LowEnds, LowEndsWith

\* The same, as they are written.
LEMMA LowChanged ==
  ASSUME NEW l, IsLow(l), NEW g
  PROVE  /\ [l EXCEPT !.ended = TRUE] = LowOf(l.h, l.at, TRUE)
         /\ [l EXCEPT !.h = g, !.ended = TRUE] = LowOf(g, l.at, TRUE)
<1> DEFINE x == TRUE
<1> HIDE DEF x
<1>1. LowEnds(l, x) = LowOf(l.h, l.at, x) /\ LowEndsWith(l, g, x) = LowOf(g, l.at, x)
  BY LowSet
<1> QED BY <1>1 DEF x, LowEnds, LowEndsWith

\* A heap that is lowered to a place.
LEMMA SunkLow ==
  ASSUME NEW h, NEW g, NEW at, NEW ended, Sinks(h, g, at)
  PROVE  Sunk(h, LowOf(g, at, ended))
BY LowOfIs DEF Sunk

\* Blocks moved make it no other.
LEMMA SinkShift ==
  ASSUME NEW h, Good(h), Stuck(h), NEW at, PastFrom(h.a, at), NEW g, Shift(h, g)
  PROVE  Sinks(h, g, at)
<1>1. /\ Good(g) /\ g.spare = h.spare /\ g.size = h.size
      /\ Last(g.a) = Last(h.a) /\ Solid(g.a) = Solid(h.a)
      /\ FreeAts(h.a) = {} => g = h
  BY DEF Shift
<1>2. Comes(h, g) /\ (None(h.es) => None(g.es))
  BY ShiftComes
<1>3. Spared(h.es, g.es)
  BY <1>2 DEF Comes
<1>4. Fixes(g.a) = Fixes(h.a)
  BY <1>1, SolidFixes
<1>5. Stuck(g)
  <2>1. CASE None(h.es)
    BY <1>2, <2>1 DEF Stuck
  <2>2. CASE FreeAts(h.a) = {}
    BY <1>1, <2>2
  <2> QED BY <2>1, <2>2 DEF Stuck
<1>6. PICK x \in Used(h.a) : x.at = at /\ (x.is = "past" \/ x = Last(h.a))
  BY DEF PastFrom
<1>7. Edge(h.a, x.at)
  BY <1>6 DEF PastFrom
<1>8. Edge(g.a, x.at) /\ x \in Used(g.a)
  BY <1>7, EdgeShift
<1>9. PastFrom(g.a, at)
  BY <1>1, <1>6, <1>8 DEF PastFrom
<1> QED BY <1>1, <1>3, <1>4, <1>5, <1>9 DEF Sinks

\* A block that may be moved stands where it is when others are moved up.
LEMMA BlockStands ==
  ASSUME NEW h, Good(h), NEW at, PastFrom(h.a, at), NEW j, j = IndexOf(h.a, at) - 1,
         MayMove(h.a, h.es, j), NEW g, Shift(h, g), NEW to, to = h.a[j].at,
         NEW k, k = IndexOf(g.a, to)
  PROVE  k \in 3 .. Len(g.a) - 1 /\ MayMove(g.a, g.es, k) /\ g.a[k].at = to /\ Edge(g.a, to)
<1> DEFINE a == h.a
           x == a[j]
<1>1. Laid(a) /\ Laid(g.a) /\ Agree(Used(a), h.es) /\ Shifted(h.es, g.es)
  BY DEF Good, Shift
<1>2. x.is = "moveable" /\ h.es[x.entry].locks = 0
  BY DEF MayMove
<1>3. /\ \A y \in Used(a) : y.at > to => y.is = "past" \/ y = Last(a)
      /\ \A y \in Used(a) : y.at < to => y.is # "past"
      /\ \A f \in FreeAts(a) : f <= to
      /\ j \in 2 .. Len(a) - 1 /\ to \in Nat
  BY <1>1, EdgeDown
<1>4. j \in 1 .. Len(a)
  BY <1>1, <1>3, LaidIs
<1>5. x \in Used(a) /\ x.at = to
  BY <1>1, <1>2, <1>4, FreeAtIs
<1>6. Under(a, to)
  <2>1. ASSUME NEW f \in FreeAts(a) PROVE f < to
    <3>1. f # to
      BY <1>1, <1>5, FreeNotUsed
    <3>2. PICK m \in FreeIn(a) : a[m].at = f
      BY <1>1, FreeAtIs
    <3>3. m \in 1 .. Len(a)
      <4>1. FreeIn(a) \subseteq 3 .. Len(a) - 1 /\ Len(a) \in Nat
        BY <1>1, FreeAtIs, LaidIs
      <4> QED BY <3>2, <4>1
    <3>4. f \in Nat
      BY <1>1, <3>2, <3>3, LaidIs
    <3> QED BY <1>3, <3>1, <3>4
  <2> QED BY <2>1 DEF Under
<1>7. Edge(a, x.at)
  BY <1>3, <1>5, <1>6 DEF Edge
<1>8. Edge(g.a, x.at) /\ x \in Used(g.a)
  BY <1>5, <1>7, EdgeShift
<1> HIDE DEF x
<1>9. k \in 1 .. Len(g.a) /\ g.a[k] = x
  <2>1. x \in ToSet(g.a)
    BY <1>8 DEF Used
  <2> QED BY <1>1, <1>5, <2>1, MemberIs
<1>10. k \in 3 .. Len(g.a) - 1
  <2>1. Len(g.a) \in Nat /\ g.a[1].is = "kernel" /\ g.a[2].is = "kernel" /\ g.a[Len(g.a)].is = "kernel"
    BY <1>1, LaidIs DEF Laid
  <2>2. k # 1 /\ k # 2 /\ k # Len(g.a)
    BY <1>2, <1>9, <2>1
  <2> QED BY <1>9, <2>1, <2>2
<1>11. x.entry \in DOMAIN h.es
  BY <1>1, <1>2, <1>5 DEF Agree
<1>12. g.es[x.entry].locks = h.es[x.entry].locks
  BY <1>1, <1>11 DEF Shifted, Alike
<1>13. MayMove(g.a, g.es, k)
  BY <1>2, <1>9, <1>12 DEF MayMove
<1> QED BY <1>5, <1>8, <1>9, <1>10, <1>13

\* The heap lowered by a block, if there is room for it.
LEMMA LoweredBlockIs ==
  ASSUME NEW h0, Good(h0), NEW l, Sunk(h0, l), NEW j, j = IndexOf(l.h.a, l.at) - 1,
         MayMove(l.h.a, l.h.es, j), NEW g, Shift(l.h, g), NEW floor
  PROVE  Sunk(h0, LoweredBlock(l, g, l.h.a[j].at, floor))
<1> DEFINE to == l.h.a[j].at
           k == IndexOf(g.a, to)
           f == Max(RoomFor(g, k))
<1>1. IsLow(l) /\ Sinks(h0, l.h, l.at) /\ Good(l.h) /\ Stuck(l.h) /\ PastFrom(l.h.a, l.at)
  BY DEF Sunk, Sinks
<1>2. Sinks(l.h, g, l.at)
  BY <1>1, SinkShift
<1>3. Sinks(h0, g, l.at) /\ Good(g) /\ Stuck(g)
  <2>1. Sinks(h0, g, l.at)
    BY <1>1, <1>2, SinksTwice
  <2> QED BY <2>1 DEF Sinks
<1>4. k \in 3 .. Len(g.a) - 1 /\ MayMove(g.a, g.es, k) /\ g.a[k].at = to /\ Edge(g.a, to)
  BY <1>1, BlockStands
<1>5. LoweredBlock(l, g, to, floor) =
        IF RoomFor(g, k) = {} THEN [l EXCEPT !.h = g, !.ended = TRUE]
        ELSE LoweredTo(PastTo(g, k, f), to, floor)
  BY DEF LoweredBlock
<1> HIDE DEF k, f
<1>6. CASE RoomFor(g, k) = {}
  <2>1. LoweredBlock(l, g, to, floor) = LowOf(g, l.at, TRUE)
    BY <1>1, <1>5, <1>6, LowChanged
  <2>2. Sunk(h0, LowOf(g, l.at, TRUE))
    BY <1>3, SunkLow
  <2> QED BY <2>1, <2>2
<1>7. CASE RoomFor(g, k) # {}
  <2>1. f \in RoomFor(g, k)
    <3> DEFINE F == RoomFor(g, k)
               n == Len(g.a)
    <3>1. n \in Nat /\ FreeIn(g.a) \subseteq 3 .. n - 1
      <4>1. Laid(g.a)
        BY <1>3 DEF Good
      <4> QED BY <4>1, LaidIs, FreeAtIs
    <3>2. F \subseteq FreeIn(g.a)
      BY DEF RoomFor
    <3> HIDE DEF F, n
    <3>3. F \subseteq Nat /\ \A m \in F : m <= n
      BY <3>1, <3>2
    <3>4. F # {}
      BY <1>7 DEF F
    <3>5. Max(F) \in F
      BY <3>1, <3>3, <3>4, ExtremesIn
    <3> QED BY <3>5 DEF F, f
  <2> DEFINE p == PastTo(g, k, f)
             ended == to + 10 - p.a[1].at <= floor
  <2>2. Sinks(g, p, to)
    BY <1>3, <1>4, <2>1, PastToIs
  <2>3. LoweredBlock(l, g, to, floor) = LowOf(p, to, ended)
    BY <1>5, <1>7 DEF LoweredTo, LowOf
  <2> HIDE DEF p, ended, to
  <2>4. Sinks(h0, p, to)
    BY <1>3, <2>2, SinksTwice
  <2>5. Sunk(h0, LowOf(p, to, ended))
    BY <2>4, SunkLow
  <2> QED BY <2>3, <2>5 DEF to
<1> QED BY <1>6, <1>7

\* The heap lowered once more.
LEMMA LoweredIs ==
  ASSUME NEW h0, Good(h0), NEW l, Sunk(h0, l), NEW floor
  PROVE  Sunk(h0, Lowered(l, floor))
<1> DEFINE h == l.h
           j == IndexOf(h.a, l.at) - 1
           to == h.a[j].at
           c == Compacted(h, Highest - 3, FALSE).h
           g == IF RoomFor(h, j) # {} THEN h ELSE c
<1>1. IsLow(l) /\ Sinks(h0, h, l.at) /\ Good(h) /\ Stuck(h) /\ PastFrom(h.a, l.at)
  BY DEF Sunk, Sinks
<1>2. Lowered(l, floor) =
        IF l.ended THEN l
        ELSE IF h.a[j].is = "free" THEN LoweredTo(Past(h, j), to, floor)
        ELSE IF ~MayMove(h.a, h.es, j) THEN [l EXCEPT !.ended = TRUE]
        ELSE LoweredBlock(l, g, to, floor)
  BY DEF Lowered
<1>3. Shift(h, g)
  <2>1. Shift(h, h)
    BY <1>1, ShiftSelf
  <2>2. Shift(h, c)
    <3> DEFINE s == Highest - 3
               k == Compacted(h, s, FALSE)
    <3> HIDE DEF s
    <3>1. Compacts(h, s, FALSE, k)
      BY <1>1, CompactedIs
    <3> HIDE DEF k
    <3>2. FreeAts(h.a) = {} \/ None(h.es)
      BY <1>1 DEF Stuck
    <3>3. Shift(h, k.h)
      BY <3>1, <3>2 DEF Compacts
    <3> QED BY <3>3 DEF k, s
  <2> QED BY <2>1, <2>2
<1>4. j = IndexOf(h.a, l.at) - 1
  OBVIOUS
<1> HIDE DEF g, c, j
<1>5. CASE l.ended
  BY <1>2, <1>5
<1>6. CASE ~l.ended /\ h.a[j].is = "free"
  <2> DEFINE p == Past(h, j)
             ended == to + 10 - p.a[1].at <= floor
  <2>1. Sinks(h, p, to)
    BY <1>1, <1>4, <1>6, PastTaken
  <2>2. Lowered(l, floor) = LowOf(p, to, ended)
    BY <1>2, <1>6 DEF LoweredTo, LowOf
  <2> HIDE DEF p, ended, to
  <2>3. Sinks(h0, p, to)
    BY <1>1, <2>1, SinksTwice
  <2>4. Sunk(h0, LowOf(p, to, ended))
    BY <2>3, SunkLow
  <2> QED BY <2>2, <2>4
<1>7. CASE ~l.ended /\ h.a[j].is # "free" /\ ~MayMove(h.a, h.es, j)
  <2>1. Lowered(l, floor) = LowOf(h, l.at, TRUE)
    BY <1>1, <1>2, <1>7, LowChanged
  <2>2. Sunk(h0, LowOf(h, l.at, TRUE))
    BY <1>1, SunkLow
  <2> QED BY <2>1, <2>2
<1>8. CASE ~l.ended /\ h.a[j].is # "free" /\ MayMove(h.a, h.es, j)
  <2>1. Sunk(h0, LoweredBlock(l, g, to, floor))
    BY <1>3, <1>4, <1>8, LoweredBlockIs
  <2> QED BY <1>2, <1>8, <2>1
<1> QED BY <1>5, <1>6, <1>7, <1>8

\* The heap lowered so many times.
LoweringOf(g, n, h0, floor) ==
  g = [k \in 0 .. n |-> IF k = 0 THEN [h |-> h0, at |-> Last(h0.a).at, ended |-> FALSE] ELSE Lowered(g[k - 1], floor)]

\* The first are the same, however many follow.
LEMMA LoweringOfAgree ==
  ASSUME NEW h0, NEW floor, NEW g, NEW n \in Nat, LoweringOf(g, n, h0, floor),
         NEW f, NEW m \in Nat, LoweringOf(f, m, h0, floor), n <= m
  PROVE  \A k \in 0 .. n : g[k] = f[k]
<1> DEFINE T == {k \in 0 .. n : g[k] # f[k]}
<1>1. SUFFICES T = {}
  OBVIOUS
<1>2. SUFFICES ASSUME T # {} PROVE FALSE
  OBVIOUS
<1>3. T \subseteq Nat
  OBVIOUS
<1> HIDE DEF T
<1>4. PICK k \in T : \A l \in T : k <= l
  BY <1>2, <1>3, Least
<1>5. k \in 0 .. n /\ g[k] # f[k] /\ k \in 0 .. m /\ k \in Nat
  BY DEF T
<1>6. g[k] = IF k = 0 THEN [h |-> h0, at |-> Last(h0.a).at, ended |-> FALSE] ELSE Lowered(g[k - 1], floor)
  BY <1>5 DEF LoweringOf
<1>7. f[k] = IF k = 0 THEN [h |-> h0, at |-> Last(h0.a).at, ended |-> FALSE] ELSE Lowered(f[k - 1], floor)
  BY <1>5 DEF LoweringOf
<1>8. k # 0
  BY <1>5, <1>6, <1>7
<1>9. k - 1 \in 0 .. n /\ ~ (k <= k - 1)
  BY <1>5, <1>8
<1>10. k - 1 \notin T
  BY <1>4, <1>9
<1>11. g[k - 1] = f[k - 1]
  BY <1>9, <1>10 DEF T
<1> QED BY <1>5, <1>6, <1>7, <1>8, <1>11

\* There are so many.
LEMMA LoweringOfExists ==
  ASSUME NEW h0, NEW floor, NEW n \in Nat
  PROVE  \E g : LoweringOf(g, n, h0, floor)
<1> DEFINE P(g, m) == LoweringOf(g, m, h0, floor)
           T == {m \in Nat : ~ \E g : P(g, m)}
<1>1. SUFFICES ASSUME T # {} PROVE FALSE
  OBVIOUS
<1>2. T \subseteq Nat
  OBVIOUS
<1> HIDE DEF T
<1>3. PICK m \in T : \A l \in T : m <= l
  BY <1>1, <1>2, Least
<1>4. m \in Nat /\ ~ \E g : P(g, m)
  BY DEF T
<1>5. m # 0
  <2> DEFINE g == [k \in 0 .. 0 |-> [h |-> h0, at |-> Last(h0.a).at, ended |-> FALSE]]
  <2>1. g = [k \in 0 .. 0 |-> IF k = 0 THEN [h |-> h0, at |-> Last(h0.a).at, ended |-> FALSE] ELSE Lowered(g[k - 1], floor)]
    OBVIOUS
  <2> HIDE DEF g
  <2>2. P(g, 0)
    BY <2>1 DEF LoweringOf
  <2> QED BY <1>4, <2>2
<1>6. m - 1 \in Nat /\ ~ (m <= m - 1)
  BY <1>4, <1>5
<1>7. m - 1 \notin T
  BY <1>3, <1>6
<1>8. PICK g : P(g, m - 1)
  BY <1>6, <1>7 DEF T
<1> DEFINE f == [k \in 0 .. m |-> IF k = m THEN Lowered(g[m - 1], floor) ELSE g[k]]
<1>9. \A k \in 0 .. m : k # m => k \in 0 .. m - 1 /\ f[k] = g[k]
  BY <1>4
<1>10. f[m] = Lowered(f[m - 1], floor)
  <2>1. m - 1 \in 0 .. m /\ m - 1 # m /\ m \in 0 .. m
    BY <1>4, <1>5
  <2>2. f[m - 1] = g[m - 1]
    BY <1>9, <2>1
  <2>3. f[m] = Lowered(g[m - 1], floor)
    BY <2>1
  <2> HIDE DEF f
  <2> QED BY <2>2, <2>3
<1>11. \A k \in 0 .. m - 1 : g[k] = IF k = 0 THEN [h |-> h0, at |-> Last(h0.a).at, ended |-> FALSE] ELSE Lowered(g[k - 1], floor)
  BY <1>8 DEF LoweringOf
<1>12. ASSUME NEW k \in 0 .. m
       PROVE  f[k] = IF k = 0 THEN [h |-> h0, at |-> Last(h0.a).at, ended |-> FALSE] ELSE Lowered(f[k - 1], floor)
  <2>1. CASE k = m
    BY <1>5, <1>10, <2>1
  <2>2. CASE k # m
    <3>1. k \in 0 .. m - 1 /\ f[k] = g[k]
      BY <1>9, <2>2
    <3>2. k # 0 => k - 1 \in 0 .. m /\ k - 1 # m
      BY <1>4, <3>1
    <3>3. k # 0 => f[k - 1] = g[k - 1]
      BY <1>9, <3>2
    <3>4. g[k] = IF k = 0 THEN [h |-> h0, at |-> Last(h0.a).at, ended |-> FALSE] ELSE Lowered(g[k - 1], floor)
      BY <1>11, <3>1
    <3> HIDE DEF f
    <3> QED BY <3>1, <3>3, <3>4
  <2> QED BY <2>1, <2>2
<1>13. f = [k \in 0 .. m |-> f[k]]
  OBVIOUS
<1> HIDE DEF f
<1>14. f = [k \in 0 .. m |-> IF k = 0 THEN [h |-> h0, at |-> Last(h0.a).at, ended |-> FALSE] ELSE Lowered(f[k - 1], floor)]
  BY <1>12, <1>13
<1>15. P(f, m)
  BY <1>14 DEF LoweringOf
<1> QED BY <1>4, <1>15

\* They are as they are defined.
LEMMA LoweringIs ==
  ASSUME NEW h0, NEW floor
  PROVE  /\ Lowering(h0, floor)[0] = [h |-> h0, at |-> Last(h0.a).at, ended |-> FALSE]
         /\ \A k \in Nat : Lowering(h0, floor)[k + 1] = Lowered(Lowering(h0, floor)[k], floor)
<1> DEFINE P(g, m) == LoweringOf(g, m, h0, floor)
           part == [n \in Nat |-> CHOOSE g : P(g, n)]
           f == [n \in Nat |-> part[n][n]]
<1>1. \A n \in Nat : P(part[n], n)
  BY LoweringOfExists
<1> HIDE DEF part
<1>2. \A n \in Nat : f[n] = part[n][n]
  OBVIOUS
<1>3. ASSUME NEW n \in Nat
      PROVE  f[n] = IF n = 0 THEN [h |-> h0, at |-> Last(h0.a).at, ended |-> FALSE] ELSE Lowered(f[n - 1], floor)
  <2>1. part[n] = [k \in 0 .. n |-> IF k = 0 THEN [h |-> h0, at |-> Last(h0.a).at, ended |-> FALSE] ELSE Lowered(part[n][k - 1], floor)]
    BY <1>1 DEF LoweringOf
  <2> DEFINE p == part[n]
  <2>2. n \in 0 .. n
    OBVIOUS
  <2> HIDE DEF p
  <2>3. p[n] = IF n = 0 THEN [h |-> h0, at |-> Last(h0.a).at, ended |-> FALSE] ELSE Lowered(p[n - 1], floor)
    BY <2>1, <2>2 DEF p
  <2>4. ASSUME n # 0 PROVE p[n - 1] = f[n - 1]
    <3>1. n - 1 \in Nat /\ n - 1 <= n /\ n - 1 \in 0 .. n - 1
      BY <2>4
    <3>2. P(part[n - 1], n - 1) /\ P(p, n)
      BY <1>1, <3>1 DEF p
    <3>3. part[n - 1][n - 1] = p[n - 1]
      BY <3>1, <3>2, LoweringOfAgree
    <3> QED BY <1>2, <3>1, <3>3
  <2>5. f[n] = p[n]
    BY <1>2 DEF p
  <2> HIDE DEF f
  <2> QED BY <2>3, <2>4, <2>5
<1>4. f = [n \in Nat |-> f[n]]
  OBVIOUS
<1> HIDE DEF f
<1>5. f = [n \in Nat |-> IF n = 0 THEN [h |-> h0, at |-> Last(h0.a).at, ended |-> FALSE] ELSE Lowered(f[n - 1], floor)]
  BY <1>3, <1>4
<1> DEFINE h == CHOOSE h : h = [k \in Nat |-> IF k = 0 THEN [h |-> h0, at |-> Last(h0.a).at, ended |-> FALSE] ELSE Lowered(h[k - 1], floor)]
<1>6. h = [k \in Nat |-> IF k = 0 THEN [h |-> h0, at |-> Last(h0.a).at, ended |-> FALSE] ELSE Lowered(h[k - 1], floor)]
  BY <1>5
<1>7. Lowering(h0, floor) = h
  BY DEF Lowering
<1> HIDE DEF h
<1>8. h[0] = [h |-> h0, at |-> Last(h0.a).at, ended |-> FALSE]
  BY <1>6
<1>9. ASSUME NEW k \in Nat PROVE h[k + 1] = Lowered(h[k], floor)
  <2>1. k + 1 \in Nat /\ k + 1 # 0 /\ (k + 1) - 1 = k
    OBVIOUS
  <2>2. h[k + 1] = Lowered(h[(k + 1) - 1], floor)
    BY <1>6, <2>1
  <2> QED BY <2>1, <2>2
<1> QED BY <1>7, <1>8, <1>9

\* A heap with nothing past its end, at that.
LEMMA SinksSelf ==
  ASSUME NEW h, Good(h), Stuck(h), NoPast(h.a)
  PROVE  Sinks(h, h, Last(h.a).at)
<1> DEFINE a == h.a
           top == Last(a).at
<1>1. Laid(a) /\ h.es \in Seq(HandleEntry)
  BY DEF Good
<1>2. Len(a) \in Nat /\ Len(a) >= 3 /\ Last(a) = a[Len(a)] /\ a[Len(a)].is = "kernel"
  BY <1>1, LaidIs DEF Laid
<1>3. Len(a) \in 1 .. Len(a) /\ top \in Nat
  BY <1>1, <1>2, LaidIs
<1>4. ASSUME NEW m \in 1 .. Len(a) PROVE a[m].at \in Nat /\ a[m].at <= top /\ (m # Len(a) => a[m].at < top)
  <2>1. a[m].at \in Nat
    BY <1>1, LaidIs
  <2>2. CASE m = Len(a)
    BY <1>2, <2>1, <2>2
  <2>3. CASE m # Len(a)
    <3>1. m < Len(a)
      BY <1>2, <2>3
    <3>2. a[m].at + 12 <= a[Len(a)].at
      BY <1>1, <1>3, <3>1, Rising
    <3> QED BY <1>2, <1>3, <2>1, <3>2
  <2> QED BY <2>2, <2>3
<1>5. ASSUME NEW x \in Used(a) PROVE ~ (x.at > top)
  <2>1. PICK m \in 1 .. Len(a) : a[m] = x
    BY <1>1, FreeAtIs
  <2> QED BY <1>3, <1>4, <2>1
<1>6. ASSUME NEW f \in FreeAts(a) PROVE f < top
  <2>1. PICK m \in FreeIn(a) : a[m].at = f
    BY <1>1, FreeAtIs
  <2>2. m \in 1 .. Len(a) /\ m # Len(a)
    <3>1. FreeIn(a) \subseteq 3 .. Len(a) - 1
      BY <1>1, FreeAtIs
    <3> QED BY <1>2, <2>1, <3>1
  <2> QED BY <1>4, <2>1, <2>2
<1>7. Last(a) \in Used(a)
  BY <1>1, <1>2, <1>3, FreeAtIs
<1>8. PastFrom(a, top)
  BY <1>5, <1>6, <1>7 DEF PastFrom, Edge, Under, NoPast
<1>9. Spared(h.es, h.es)
  BY <1>1, SparedSelf
<1> QED BY <1>8, <1>9 DEF Sinks

\* How many twelves there are is a number.
LEMMA Twelves ==
  ASSUME NEW first \in Int, NEW last \in Int, first + 12 <= last, NEW n, n = (last + 10 - first) \div 12
  PROVE  n \in Nat
OBVIOUS

\* The whole span of a heap.
LEMMA WholeIs ==
  ASSUME NEW a, Laid(a)
  PROVE  /\ Last(a).at \in Nat /\ a[1].at \in Nat /\ a[1].at + 12 <= Last(a).at
         /\ Whole(a) = Last(a).at + 10 - a[1].at /\ a[1] = InitialArenas[1]
         /\ Quad(Last(a).at) /\ Last(a).at <= Highest
<1>1. Len(a) \in Nat /\ Len(a) >= 3 /\ Last(a) = a[Len(a)]
  BY LaidIs
<1>2. 1 \in 1 .. Len(a) /\ Len(a) \in 1 .. Len(a) /\ 1 < Len(a)
  BY <1>1
<1>3. a[1].at \in Nat /\ a[Len(a)].at \in Nat /\ a[Len(a)].at <= Highest
  BY <1>2, LaidIs
<1>4. a[1].at + 12 <= a[Len(a)].at
  BY <1>2, Rising
<1>5. Quad(a[Len(a)].at) /\ a[1] = InitialArenas[1]
  BY <1>2 DEF Laid
<1> QED BY <1>1, <1>3, <1>4, <1>5 DEF Whole

\* The heap lowered as far as it goes.
LEMMA LoweredAllIs ==
  ASSUME NEW h, Good(h), Stuck(h), NoPast(h.a), NEW floor
  PROVE  Sunk(h, LoweredAll(h, floor))
<1> DEFINE L == Lowering(h, floor)
           N == Whole(h.a) \div 12
           T == {k \in Nat : ~Sunk(h, L[k])}
<1>1. /\ L[0] = [h |-> h, at |-> Last(h.a).at, ended |-> FALSE]
      /\ \A k \in Nat : L[k + 1] = Lowered(L[k], floor)
  BY LoweringIs
<1>2. LoweredAll(h, floor) = L[N]
  BY DEF LoweredAll
<1>3. N \in Nat
  <2>1. Laid(h.a)
    BY DEF Good
  <2>2. /\ Last(h.a).at \in Nat /\ (h.a)[1].at \in Nat /\ (h.a)[1].at + 12 <= Last(h.a).at
        /\ Whole(h.a) = Last(h.a).at + 10 - (h.a)[1].at
    BY <2>1, WholeIs
  <2> QED BY <2>2, Twelves
<1> HIDE DEF L, N
<1>4. Sunk(h, L[0])
  <2> DEFINE ended == FALSE
             at == Last(h.a).at
  <2>1. L[0] = LowOf(h, at, ended)
    BY <1>1 DEF LowOf
  <2>2. Sinks(h, h, at)
    BY SinksSelf
  <2> HIDE DEF ended, at
  <2>3. Sunk(h, LowOf(h, at, ended))
    BY <2>2, SunkLow
  <2> QED BY <2>1, <2>3
<1>5. ASSUME NEW k \in Nat, Sunk(h, L[k]) PROVE Sunk(h, L[k + 1])
  <2>1. Sunk(h, Lowered(L[k], floor))
    BY <1>5, LoweredIs
  <2> QED BY <1>1, <2>1
<1>6. T = {}
  <2> SUFFICES ASSUME T # {} PROVE FALSE
    OBVIOUS
  <2>1. T \subseteq Nat
    OBVIOUS
  <2> HIDE DEF T
  <2>2. PICK k \in T : \A m \in T : k <= m
    BY <2>1, Least
  <2>3. k \in Nat /\ ~Sunk(h, L[k])
    BY DEF T
  <2>4. k # 0
    BY <1>4, <2>3
  <2>5. k - 1 \in Nat /\ ~ (k <= k - 1) /\ (k - 1) + 1 = k
    BY <2>3, <2>4
  <2>6. k - 1 \notin T
    BY <2>2, <2>5
  <2>7. Sunk(h, L[k - 1])
    BY <2>5, <2>6 DEF T
  <2>8. Sunk(h, L[(k - 1) + 1])
    BY <1>5, <2>5, <2>7
  <2> QED BY <2>3, <2>5, <2>8
<1>7. Sunk(h, L[N])
  BY <1>3, <1>6
<1> QED BY <1>2, <1>7

-----------------------------------------------------------------------------
(* Sequences cut.                                                          *)

\* A sequence cut, and one thing or two put behind it.
LEMMA CutSeq ==
  ASSUME NEW S, NEW a \in Seq(S), NEW i \in 1 .. Len(a), NEW x \in S, NEW y \in S
  PROVE  LET b == SubSeq(a, 1, i - 1) \o <<x>> \o <<y>>
             c == SubSeq(a, 1, i - 1) \o <<>> \o <<y>>
         IN /\ b \in Seq(S) /\ Len(b) = i + 1 /\ b[i] = x /\ b[i + 1] = y
            /\ \A m \in 1 .. i - 1 : b[m] = a[m]
            /\ c \in Seq(S) /\ Len(c) = i /\ c[i] = y
            /\ \A m \in 1 .. i - 1 : c[m] = a[m]
<1> DEFINE s == SubSeq(a, 1, i - 1)
<1>1. s \in Seq(S) /\ Len(s) = i - 1 /\ \A m \in 1 .. i - 1 : s[m] = a[m]
  OBVIOUS
<1> HIDE DEF s
<1> DEFINE t == s \o <<x>>
           u == s \o <<>>
<1>2. t \in Seq(S) /\ Len(t) = i /\ t[i] = x /\ \A m \in 1 .. i - 1 : t[m] = s[m]
  BY <1>1
<1>3. u \in Seq(S) /\ Len(u) = i - 1 /\ \A m \in 1 .. i - 1 : u[m] = s[m]
  BY <1>1
<1> HIDE DEF t, u
<1>4. /\ t \o <<y>> \in Seq(S) /\ Len(t \o <<y>>) = i + 1 /\ (t \o <<y>>)[i + 1] = y
      /\ \A m \in 1 .. i : (t \o <<y>>)[m] = t[m]
  BY <1>2
<1>5. /\ u \o <<y>> \in Seq(S) /\ Len(u \o <<y>>) = i /\ (u \o <<y>>)[i] = y
      /\ \A m \in 1 .. i - 1 : (u \o <<y>>)[m] = u[m]
  BY <1>3
<1>6. i \in 1 .. i /\ \A m \in 1 .. i - 1 : m \in 1 .. i
  OBVIOUS
<1> QED BY <1>1, <1>2, <1>3, <1>4, <1>5, <1>6 DEF s, t, u

\* A row ended at arena i, with a free one there or without.
Cuts(a, i, x, b) ==
  /\ Laid(b) /\ Last(b) = x /\ Used(b) = {a[m] : m \in {k \in 1 .. i - 1 : a[k].is # "free"}} \cup {x}

\* It is laid out, and what is in use in it.
LEMMA CutLaid ==
  ASSUME NEW a, Laid(a), NEW i \in 3 .. Len(a), NEW x \in Arena, x.is = "kernel", Quad(x.at),
         NEW b \in Seq(Arena), NEW n \in i .. i + 1, Len(b) = n, b[n] = x,
         \A m \in 1 .. i - 1 : b[m] = a[m],
         n = i => a[i - 1].at + 12 <= x.at,
         n # i => /\ b[i].is = "free" /\ Quad(b[i].at) /\ a[i - 1].at + 12 <= b[i].at
                  /\ b[i].at + 12 <= x.at
  PROVE  Cuts(a, i, x, b)
<1>1. Len(a) \in Nat /\ DOMAIN b = 1 .. n /\ n \in Nat /\ n >= 3 /\ DOMAIN a = 1 .. Len(a)
  BY LaidIs
<1>2. b[1] = a[1] /\ b[2] = a[2]
  OBVIOUS
<1>3. ASSUME NEW m \in 1 .. n PROVE Quad(b[m].at) /\ (b[m].is = "fixed" => b[m].entry = 0)
  <2>1. CASE m \in 1 .. i - 1
    <3>1. m \in 1 .. Len(a) /\ b[m] = a[m]
      BY <1>1, <2>1
    <3> QED BY <3>1 DEF Laid
  <2>2. CASE m = n
    BY <2>2
  <2>3. CASE m = i /\ n # i
    BY <2>3
  <2> QED BY <2>1, <2>2, <2>3
<1>4. ASSUME NEW m \in 1 .. n - 1 PROVE b[m].at + 12 <= b[m + 1].at
  <2>1. CASE m \in 1 .. i - 2
    <3>1. m \in 1 .. Len(a) - 1 /\ m \in 1 .. i - 1 /\ m + 1 \in 1 .. i - 1
      BY <1>1, <2>1
    <3>2. b[m] = a[m] /\ b[m + 1] = a[m + 1]
      BY <3>1
    <3>3. a[m].at + 12 <= a[m + 1].at
      BY <3>1, NextIs
    <3> QED BY <3>2, <3>3
  <2>2. CASE m = i - 1
    <3>1. b[m] = a[i - 1] /\ m + 1 = i
      BY <1>1, <2>2
    <3> QED BY <3>1
  <2>3. CASE m = i /\ n = i + 1
    BY <2>3
  <2> QED BY <2>1, <2>2, <2>3
<1>5. /\ a[1] = InitialArenas[1] /\ a[2] = InitialArenas[2]
  BY DEF Laid
<1>6. Laid(b)
  BY <1>1, <1>2, <1>3, <1>4, <1>5 DEF Laid
<1>7. Last(b) = x
  BY <1>6, LaidIs
<1>8. ToSet(b) = {b[m] : m \in 1 .. n}
  BY <1>6, LaidIs
<1> DEFINE U == {a[m] : m \in {k \in 1 .. i - 1 : a[k].is # "free"}} \cup {x}
<1>9. ASSUME NEW y \in Used(b) PROVE y \in U
  <2>1. PICK m \in 1 .. n : b[m] = y
    BY <1>8 DEF Used
  <2>2. y.is # "free"
    BY DEF Used
  <2>3. CASE m \in 1 .. i - 1
    BY <2>1, <2>2, <2>3
  <2>4. CASE m = n
    BY <2>1, <2>4
  <2>5. CASE m = i /\ n # i
    BY <2>1, <2>2, <2>5
  <2> QED BY <2>3, <2>4, <2>5
<1>10. ASSUME NEW y \in U PROVE y \in Used(b)
  <2>1. CASE y = x
    <3>1. n \in 1 .. n
      BY <1>1
    <3> QED BY <1>8, <2>1, <3>1 DEF Used
  <2>2. CASE y # x
    <3>1. PICK m \in 1 .. i - 1 : a[m] = y /\ a[m].is # "free"
      BY <2>2
    <3>2. m \in 1 .. n /\ b[m] = y
      BY <1>1, <3>1
    <3> QED BY <1>8, <3>1, <3>2 DEF Used
  <2> QED BY <2>1, <2>2
<1>11. Used(b) = U
  BY <1>9, <1>10
<1> QED BY <1>6, <1>7, <1>11 DEF Cuts

-----------------------------------------------------------------------------
(* The heap cut.                                                           *)
\* The row that a heap ended at a place is.
CutRow(a, i, at, roomy, x) ==
  SubSeq(a, 1, i - 1) \o (IF roomy THEN <<NewArena(at, "free", 0)>> ELSE <<>>) \o <<x>>

\* It is ended so.
LEMMA CutRowIs ==
  ASSUME NEW a, Laid(a), NEW i \in 3 .. Len(a), NEW at, at = a[i].at, NEW x \in Arena,
         x.is = "kernel", Quad(x.at), NEW roomy \in BOOLEAN,
         roomy => at + 12 <= x.at, ~roomy => x.at = at
  PROVE  Cuts(a, i, x, CutRow(a, i, at, roomy, x))
<1> DEFINE y == NewArena(at, "free", 0)
           b == SubSeq(a, 1, i - 1) \o <<y>> \o <<x>>
           c == SubSeq(a, 1, i - 1) \o <<>> \o <<x>>
<1>1. a \in Seq(Arena) /\ Len(a) \in Nat
  BY LaidIs DEF Laid
<1>2. i \in 1 .. Len(a) /\ i - 1 \in 1 .. Len(a) - 1 /\ (i - 1) + 1 = i /\ i \in Nat
  BY <1>1
<1>3. at \in Nat /\ at <= Highest /\ Quad(at)
  BY <1>2, LaidIs DEF Laid
<1>4. a[i - 1].at + 12 <= a[(i - 1) + 1].at
  BY <1>2, NextIs
<1>5. a[i - 1].at + 12 <= at
  BY <1>2, <1>4
<1>6. y \in Arena /\ y.at = at /\ y.is = "free"
  <2>1. "free" \in Kinds
    BY DEF Kinds
  <2> QED BY <1>3, <2>1, NewArenaIs, FieldsAre
<1>7. CutRow(a, i, at, roomy, x) = IF roomy THEN b ELSE c
  BY DEF CutRow
<1> HIDE DEF y
<1>8. /\ b \in Seq(Arena) /\ Len(b) = i + 1 /\ b[i] = y /\ b[i + 1] = x
      /\ \A m \in 1 .. i - 1 : b[m] = a[m]
      /\ c \in Seq(Arena) /\ Len(c) = i /\ c[i] = x
      /\ \A m \in 1 .. i - 1 : c[m] = a[m]
  BY <1>1, <1>2, <1>6, CutSeq
<1> HIDE DEF b, c
<1>9. CASE roomy
  <2> DEFINE n == i + 1
  <2>1. n \in i .. i + 1 /\ n # i /\ Len(b) = n /\ b[n] = x
    BY <1>2, <1>8
  <2>2. /\ b[i].is = "free" /\ Quad(b[i].at) /\ a[i - 1].at + 12 <= b[i].at
        /\ b[i].at + 12 <= x.at
    BY <1>3, <1>5, <1>6, <1>8, <1>9
  <2> HIDE DEF n
  <2>3. Cuts(a, i, x, b)
    BY <1>8, <2>1, <2>2, CutLaid
  <2> QED BY <1>7, <1>9, <2>3
<1>10. CASE ~roomy
  <2> DEFINE n == i
  <2>1. n \in i .. i + 1 /\ n = i /\ Len(c) = n /\ c[n] = x
    BY <1>2, <1>8
  <2>2. a[i - 1].at + 12 <= x.at
    BY <1>5, <1>10
  <2> HIDE DEF n
  <2>3. Cuts(a, i, x, c)
    BY <1>8, <2>1, <2>2, CutLaid
  <2> QED BY <1>7, <1>10, <2>3
<1> QED BY <1>9, <1>10

\* What is in use in it: what was under that place, and KERNEL's new last.
LEMMA CutUsed ==
  ASSUME NEW a, Laid(a), NEW at, PastFrom(a, at), NEW x, NEW b, Cuts(a, IndexOf(a, at), x, b)
  PROVE  Used(b) = {y \in Used(a) : y.at < at} \cup {x}
<1> DEFINE i == IndexOf(a, at)
           V == {a[m] : m \in {k \in 1 .. i - 1 : a[k].is # "free"}}
<1>1. i \in 3 .. Len(a) /\ a[i].at = at
  BY EdgeIs
<1>2. Used(b) = V \cup {x}
  BY DEF Cuts
<1>3. Len(a) \in Nat
  BY LaidIs
<1> HIDE DEF i
<1>4. i \in 1 .. Len(a) /\ at \in Nat
  BY <1>1, <1>3, LaidIs
<1>5. ASSUME NEW y \in V PROVE y \in Used(a) /\ y.at < at
  <2>1. PICK m \in 1 .. i - 1 : a[m] = y /\ a[m].is # "free"
    OBVIOUS
  <2>2. m \in 1 .. Len(a) /\ m < i
    BY <1>3, <1>4, <2>1
  <2>3. y \in Used(a)
    BY <2>1, <2>2, FreeAtIs
  <2>4. a[m].at + 12 <= a[i].at /\ a[m].at \in Nat
    BY <1>4, <2>2, Rising, LaidIs
  <2>5. a[m].at < a[i].at
    BY <1>1, <1>4, <2>4
  <2> QED BY <1>1, <2>1, <2>3, <2>5
<1>6. ASSUME NEW y \in Used(a), y.at < at PROVE y \in V
  <2>1. PICK m \in 1 .. Len(a) : a[m] = y
    BY FreeAtIs
  <2>2. y.is # "free"
    BY DEF Used
  <2>3. m < i
    BY <1>1, <1>4, <1>6, <2>1, Further
  <2>4. m \in 1 .. i - 1
    BY <1>3, <1>4, <2>3
  <2> QED BY <2>1, <2>2, <2>4
<1> HIDE DEF V
<1> QED BY <1>2, <1>5, <1>6

\* Where a heap cut ends, and the size of its segment.
LEMMA RoundUnder ==
  ASSUME NEW n \in Nat, n >= 10
  PROVE  Round(n) <= UpTo(n, 4)
<1>1. UpTo(n, 4) \in Nat
  BY UpToFour
<1>2. Highest \in Nat
  BY HighestIs
<1> QED BY <1>1, <1>2, RoundUp

\* A four no more than three over what is under another is no more than that.
LEMMA QuadOver ==
  ASSUME NEW u \in Nat, NEW n \in Nat, NEW t \in Nat, Quad(u), Quad(t), u <= n + 3, n < t
  PROVE  u <= t
BY DEF Quad

\* The new last is over the place, and not over the old.
LEMMA CutLast ==
  ASSUME NEW at \in Nat, NEW top \in Nat, NEW first \in Nat, NEW floor \in Nat,
         Quad(at), Quad(top), NEW n, n = floor - (at + 10 - first), n > 16,
         floor < top + 10 - first
  PROVE  /\ at + Round(n) \in Nat /\ Quad(at + Round(n)) /\ at + 12 <= at + Round(n)
         /\ at + Round(n) <= top
<1> DEFINE t == top - at
           r == Round(n)
           u == UpTo(n, 4)
<1>1. n \in Nat /\ n >= 10 /\ n < t /\ t \in Nat
  OBVIOUS
<1>2. Quad(t)
  BY QuadSum
<1>3. u \in Nat /\ u <= n + 3 /\ Quad(u)
  BY <1>1, UpToFour
<1>4. r \in Nat /\ r >= 12 /\ Quad(r)
  BY <1>1, RoundIs
<1>5. r <= u
  BY <1>1, RoundUnder
<1> HIDE DEF r, u
<1>6. u <= t
  <2> HIDE DEF t
  <2> QED BY <1>1, <1>2, <1>3, QuadOver
<1>7. Quad(at + r)
  BY <1>4, QuadSum
<1>8. at + r \in Nat /\ at + 12 <= at + r /\ at + r <= top
  BY <1>3, <1>4, <1>5, <1>6
<1> QED BY <1>7, <1>8 DEF r

\* The segment's size covers it.
LEMMA CutSize ==
  ASSUME NEW last \in Nat, last + 10 <= Highest + 1,
         NEW x, x.at = last, NEW n, n = Min({Highest + 1, UpTo(last + 10, 32)})
  PROVE  Sized(x, n)
<1> DEFINE u == UpTo(last + 10, 32)
           p == Highest + 1
<1>1. u \in Nat /\ last + 10 <= u /\ u % 32 = 0
  <2>1. last + 10 \in Nat
    OBVIOUS
  <2> QED BY <2>1, UpToPage
<1>2. p \in Nat /\ p % 32 = 0
  BY HighestIs
<1>3. n = Min({p, u}) /\ last + 10 <= p
  OBVIOUS
<1>5. p = Highest + 1
  OBVIOUS
<1> HIDE DEF u, p
<1>4. n = IF p <= u THEN p ELSE u
  BY <1>1, <1>2, <1>3, Lesser
<1>6. n \in Nat /\ n <= p /\ last + 10 <= n /\ n % 32 = 0
  BY <1>1, <1>2, <1>3, <1>4
<1> QED BY <1>5, <1>6 DEF Sized

SetExtent(h, b, n) == [h EXCEPT !.a = b, !.size = n]

\* What that makes of a heap.
LEMMA ExtentIs ==
  ASSUME NEW h, IsHeap(h), NEW b, NEW n
  PROVE  SetExtent(h, b, n) = HeapOf(b, h.es, h.spare, n)
<1> DEFINE a == h.a
           es == h.es
           sp == h.spare
           m == h.size
<1>1. h = HeapOf(a, es, sp, m)
  BY DEF IsHeap
<1>2. [h EXCEPT !.a = b, !.size = n] = [[h EXCEPT !.a = b] EXCEPT !.size = n]
  OBVIOUS
<1> HIDE DEF a, es, sp, m
<1>3. [HeapOf(a, es, sp, m) EXCEPT !.a = b] = HeapOf(b, es, sp, m)
  BY DEF HeapOf
<1>4. [HeapOf(b, es, sp, m) EXCEPT !.size = n] = HeapOf(b, es, sp, n)
  BY DEF HeapOf
<1>5. SetExtent(h, b, n) = HeapOf(b, es, sp, n)
  BY <1>1, <1>2, <1>3, <1>4 DEF SetExtent
<1> QED BY <1>5 DEF es, sp

\* What cutting a heap does.
CutOf(h, g) ==
  /\ Good(g) /\ NoPast(g.a) /\ g.es = h.es /\ g.spare = h.spare /\ Fixes(g.a) = Fixes(h.a)

\* Where it is cut.
CutEnd(h, at, floor) ==
  LET span == at + 10 - h.a[1].at
  IN IF span <= floor /\ floor - span > 16 THEN at + Round(floor - span) ELSE at
CutRoomy(h, at, floor) ==
  at + 10 - h.a[1].at <= floor /\ floor - (at + 10 - h.a[1].at) > 16

\* It is a place, over the free arena if there is one.
LEMMA CutEndIs ==
  ASSUME NEW h, Good(h), NEW at, PastFrom(h.a, at), NEW floor \in Nat, floor < Whole(h.a),
         NEW last, last = CutEnd(h, at, floor)
  PROVE  /\ last \in Nat /\ Quad(last) /\ last <= Highest /\ last + 10 <= Highest + 1
         /\ CutRoomy(h, at, floor) => at + 12 <= last
         /\ ~CutRoomy(h, at, floor) => last = at
         /\ at \in Nat
<1> DEFINE a == h.a
           top == Last(a).at
           first == a[1].at
           n == floor - (at + 10 - first)
<1>1. Laid(a) /\ Sized(Last(a), h.size)
  BY DEF Good
<1>2. /\ top \in Nat /\ first \in Nat /\ Whole(a) = top + 10 - first
      /\ Quad(top) /\ top <= Highest
  BY <1>1, WholeIs
<1>3. top + 10 <= h.size /\ h.size <= Highest + 1 /\ h.size \in Nat
  BY <1>1 DEF Sized
<1>4. at \in Nat /\ Quad(at) /\ at <= top
  <2>1. IndexOf(a, at) \in 3 .. Len(a) /\ a[IndexOf(a, at)].at = at /\ Len(a) \in Nat
    BY <1>1, EdgeIs, LaidIs
  <2> DEFINE i == IndexOf(a, at)
  <2> HIDE DEF i
  <2>2. i \in 1 .. Len(a) /\ a[i].at = at /\ Len(a) \in 1 .. Len(a)
    BY <2>1 DEF i
  <2>3. at \in Nat /\ Quad(at)
    BY <1>1, <2>2, LaidIs DEF Laid
  <2>4. Last(a) = a[Len(a)]
    BY <1>1, LaidIs
  <2>5. CASE i = Len(a)
    BY <2>2, <2>3, <2>4, <2>5
  <2>6. CASE i # Len(a)
    <3>1. i < Len(a)
      BY <2>1, <2>2, <2>6
    <3>2. a[i].at + 12 <= a[Len(a)].at
      BY <1>1, <2>2, <3>1, Rising
    <3> QED BY <1>2, <2>2, <2>3, <2>4, <3>2
  <2> QED BY <2>3, <2>5, <2>6
<1>5. floor < top + 10 - first
  BY <1>2
<1>6. CutRoomy(h, at, floor) = (at + 10 - first <= floor /\ n > 16)
  BY DEF CutRoomy
<1>7. CASE CutRoomy(h, at, floor)
  <2>1. last = at + Round(n)
    BY <1>7 DEF CutEnd, CutRoomy
  <2>2. n > 16
    BY <1>6, <1>7
  <2>3. n = floor - (at + 10 - first)
    OBVIOUS
  <2> HIDE DEF n, top, first
  <2>4. /\ at + Round(n) \in Nat /\ Quad(at + Round(n)) /\ at + 12 <= at + Round(n)
        /\ at + Round(n) <= top
    BY <1>2, <1>4, <1>5, <2>2, <2>3, CutLast
  <2>5. last \in Nat /\ Quad(last) /\ at + 12 <= last /\ last <= top
    BY <2>1, <2>4
  <2>6. Highest \in Nat
    BY HighestIs
  <2>7. last <= Highest /\ last + 10 <= Highest + 1
    BY <1>2, <1>3, <2>5, <2>6
  <2> QED BY <1>4, <1>7, <2>5, <2>7
<1>8. CASE ~CutRoomy(h, at, floor)
  <2>1. last = at
    BY <1>8 DEF CutEnd, CutRoomy
  <2> HIDE DEF top, first
  <2>2. Highest \in Nat
    BY HighestIs
  <2>3. at <= Highest /\ at + 10 <= Highest + 1
    BY <1>2, <1>3, <1>4, <2>2
  <2> QED BY <1>4, <1>8, <2>1, <2>3
<1> QED BY <1>7, <1>8

\* A lowered heap cut.
LEMMA CutAtIs ==
  ASSUME NEW h, Good(h), NEW at, PastFrom(h.a, at), NEW floor \in Nat, floor < Whole(h.a)
  PROVE  CutOf(h, CutAt(h, at, floor))
<1> DEFINE a == h.a
           i == IndexOf(a, at)
           last == CutEnd(h, at, floor)
           roomy == CutRoomy(h, at, floor)
           x == NewArena(last, "kernel", 0)
           b == CutRow(a, i, at, roomy, x)
           n == Min({Highest + 1, UpTo(last + 10, 32)})
           g == HeapOf(b, h.es, h.spare, n)
<1>1. Laid(a) /\ Agree(Used(a), h.es) /\ IsHeap(h)
  BY DEF Good
<1>2. Edge(a, at) /\ (\A y \in Used(a) : y.at \in Nat) /\ at \in Nat
  <2>1. \A y \in Used(a) : y.at \in Nat
    BY <1>1, MemberIs DEF Used
  <2>2. Edge(a, at)
    BY DEF PastFrom
  <2>3. at \in Nat
    BY CutEndIs
  <2> QED BY <2>1, <2>2, <2>3
<1>3. \A y \in Used(a) : ~ (y.at < at) => y.is = "past" \/ y = Last(a)
  <2>1. IndexOf(a, at) \in 3 .. Len(a) /\ a[IndexOf(a, at)].at = at /\ a[IndexOf(a, at)] \in Used(a)
        /\ (a[IndexOf(a, at)].is = "past" \/ a[IndexOf(a, at)] = Last(a))
    BY <1>1, EdgeIs
  <2>2. ASSUME NEW y \in Used(a), y.at = at PROVE y = a[IndexOf(a, at)]
    BY <1>1, <2>1, <2>2, OneAt DEF Used
  <2>3. ASSUME NEW y \in Used(a), ~ (y.at < at), y.at # at PROVE y.is = "past" \/ y = Last(a)
    <3>1. y.at > at
      BY <1>2, <2>3
    <3> QED BY <1>2, <3>1 DEF Edge
  <2> QED BY <2>1, <2>2, <2>3
<1>4. Last(a).is = "kernel" /\ Last(a).at \in Nat
  BY <1>1, LaidIs, WholeIs DEF Laid
<1>5. CASE at = Last(a).at
  <2>1. CutAt(h, at, floor) = h
    BY <1>5 DEF CutAt
  <2>2. ASSUME NEW y \in Used(a) PROVE y.is # "past"
    <3>1. CASE y.at < at
      BY <1>2, <3>1 DEF Edge
    <3>2. CASE y.at = at
      <4>1. Last(a) \in ToSet(a) /\ y \in ToSet(a)
        <5>1. Len(a) \in 1 .. Len(a) /\ Last(a) = a[Len(a)] /\ ToSet(a) = {a[m] : m \in 1 .. Len(a)}
          BY <1>1, LaidIs, SMTT(20)
        <5> QED BY <5>1 DEF Used
      <4>2. y = Last(a)
        BY <1>1, <1>5, <3>2, <4>1, OneAt
      <4> QED BY <1>4, <4>2
    <3>3. CASE y.at > at
      <4>1. PICK m \in 1 .. Len(a) : a[m] = y
        BY <1>1, FreeAtIs
      <4>2. Len(a) \in Nat /\ Last(a) = a[Len(a)] /\ Len(a) \in 1 .. Len(a)
        BY <1>1, LaidIs
      <4>3. m = Len(a) \/ m < Len(a)
        BY <4>2
      <4>4. CASE m = Len(a)
        BY <1>5, <3>3, <1>4, <4>1, <4>2, <4>4
      <4>5. CASE m < Len(a)
        <5>1. a[m].at + 12 <= a[Len(a)].at
          BY <1>1, <4>2, <4>5, Rising
        <5> QED BY <1>2, <1>4, <1>5, <3>3, <4>1, <4>2, <5>1
      <4> QED BY <4>3, <4>4, <4>5
    <3> QED BY <1>2, <3>1, <3>2, <3>3
  <2>3. NoPast(h.a)
    BY <2>2 DEF NoPast
  <2> QED BY <2>1, <2>3 DEF CutOf
<1>6. CASE at # Last(a).at
  <2>1. CutAt(h, at, floor) = SetExtent(h, b, n)
    BY <1>6 DEF CutAt, SetExtent, CutRow, CutEnd, CutRoomy
  <2>2. SetExtent(h, b, n) = g
    <3> HIDE DEF b, n
    <3> QED BY <1>1, ExtentIs
  <2>3. /\ last \in Nat /\ Quad(last) /\ last <= Highest /\ last + 10 <= Highest + 1
        /\ roomy => at + 12 <= last
        /\ ~roomy => last = at
    BY CutEndIs
  <2>4. roomy \in BOOLEAN
    BY DEF CutRoomy
  <2> HIDE DEF last, roomy
  <2>5. x \in Arena /\ x.at = last /\ x.is = "kernel"
    <3>1. "kernel" \in Kinds
      BY DEF Kinds
    <3> QED BY <2>3, <3>1, NewArenaIs, FieldsAre
  <2>6. Sized(x, n)
    <3>1. n = Min({Highest + 1, UpTo(last + 10, 32)})
      OBVIOUS
    <3> HIDE DEF n, x
    <3> QED BY <2>3, <2>5, <3>1, CutSize
  <2>7. i \in 3 .. Len(a) /\ a[i].at = at
    BY <1>1, EdgeIs
  <2> HIDE DEF x, n
  <2>8. Cuts(a, i, x, b)
    <3> HIDE DEF i
    <3> QED BY <1>1, <2>3, <2>4, <2>5, <2>7, CutRowIs
  <2> HIDE DEF b
  <2>9. Used(b) = {y \in Used(a) : y.at < at} \cup {x}
    BY <1>1, <2>8, CutUsed
  <2>10. Laid(b) /\ Last(b) = x
    BY <2>8 DEF Cuts
  <2>11. Agree(Used(b), h.es)
    <3>1. \A y : y.is = "moveable" => (y \in Used(a) <=> y \in Used(b))
      BY <1>3, <1>4, <2>5, <2>9
    <3> QED BY <1>1, <3>1, AgreeOther
  <2>12. Fixes(b) = Fixes(a)
    BY <1>3, <1>4, <2>5, <2>9 DEF Fixes
  <2>13. NoPast(b)
    BY <1>2, <2>5, <2>9 DEF NoPast, Edge
  <2>14. g.a = b /\ g.es = h.es /\ g.spare = h.spare /\ g.size = n /\ IsHeap(g)
    BY HeapOfIs
  <2> HIDE DEF g
  <2>15. Good(g)
    BY <2>6, <2>10, <2>11, <2>14 DEF Good
  <2>16. CutOf(h, g)
    BY <2>12, <2>13, <2>14, <2>15 DEF CutOf
  <2> QED BY <2>1, <2>2, <2>16
<1> QED BY <1>5, <1>6

\* A heap compacted for more than there is is stuck.
LEMMA StuckIs ==
  ASSUME NEW h, Good(h), NEW c, Compacts(h, Highest - 3, FALSE, c)
  PROVE  Stuck(c.h)
<1> DEFINE a == c.h.a
           i == IndexOf(a, c.best)
<1>1. Laid(a)
  BY DEF Compacts, Comes, Good
<1>2. CASE c.best = 0
  BY <1>2 DEF Compacts, Stuck
<1>3. CASE c.best # 0
  <2>1. i \in FreeIn(a) /\ c.largest = Span(a, i)
    BY <1>3 DEF Compacts
  <2>2. /\ a[i].at \in Nat /\ a[i + 1].at \in Nat /\ a[i].at >= 12
        /\ Last(a).at \in Nat /\ a[i + 1].at <= Last(a).at /\ Last(a).at <= Highest
        /\ Span(a, i) = a[i + 1].at - a[i].at
    BY <1>1, <2>1, PutAround
  <2>3. Highest \in Nat
    BY HighestIs
  <2>4. ~ (c.largest >= Highest - 3)
    BY <2>1, <2>2, <2>3
  <2>5. None(c.h.es)
    BY <1>3, <2>4 DEF Compacts
  <2> QED BY <2>5 DEF Stuck
<1> QED BY <1>2, <1>3

\* What LocalShrink may make of a heap.
Shrinks(h, g) ==
  /\ Good(g) /\ (NoPast(h.a) => NoPast(g.a))
  /\ TreatedBar(h.es, g.es, {}) /\ Fixes(h.a) \subseteq Fixes(g.a)

\* The heap compacted, lowered and cut.
LEMMA CutDownIs ==
  ASSUME NEW h, Good(h), NoPast(h.a), NEW floor \in Nat, floor < Whole(h.a),
         NEW c, c = Compacted(h, Highest - 3, FALSE),
         NEW g, g = CutDown(LoweredAll(c.h, floor), floor)
  PROVE  /\ Good(g) /\ NoPast(g.a) /\ Spared(h.es, g.es) /\ Fixes(g.a) = Fixes(h.a)
<1> DEFINE l == LoweredAll(c.h, floor)
           span == Highest - 3
<1>1. Compacts(h, Highest - 3, FALSE, c)
  <2>1. c = Compacted(h, span, FALSE)
    OBVIOUS
  <2> HIDE DEF span
  <2>2. Compacts(h, span, FALSE, c)
    BY <2>1, CompactedIs
  <2> QED BY <2>2 DEF span
<1>2. Stuck(c.h) /\ Comes(h, c.h)
  BY <1>1, StuckIs DEF Compacts
<1>3. /\ Good(c.h) /\ Spared(h.es, c.h.es) /\ Last(c.h.a) = Last(h.a)
      /\ Solid(c.h.a) = Solid(h.a)
  BY <1>2 DEF Comes
<1>4. Fixes(c.h.a) = Fixes(h.a) /\ NoPast(c.h.a)
  BY <1>3, SolidFixes
<1>5. Sunk(c.h, l)
  BY <1>2, <1>3, <1>4, LoweredAllIs
<1> HIDE DEF l
<1>6. Sinks(c.h, l.h, l.at)
  BY <1>5 DEF Sunk
<1>7. /\ Good(l.h) /\ Last(l.h.a) = Last(c.h.a) /\ Fixes(l.h.a) = Fixes(c.h.a)
      /\ Spared(c.h.es, l.h.es) /\ PastFrom(l.h.a, l.at)
  BY <1>6 DEF Sinks
<1>8. Whole(l.h.a) = Whole(h.a)
  <2>1. Laid(l.h.a) /\ Laid(h.a)
    BY <1>7 DEF Good
  <2>2. Whole(l.h.a) = Last(l.h.a).at + 10 - (l.h.a)[1].at /\ (l.h.a)[1] = InitialArenas[1]
    BY <2>1, WholeIs
  <2>3. Whole(h.a) = Last(h.a).at + 10 - (h.a)[1].at /\ (h.a)[1] = InitialArenas[1]
    BY <2>1, WholeIs
  <2> QED BY <1>3, <1>7, <2>2, <2>3
<1>9. CutOf(l.h, g)
  <2>1. CutOf(l.h, CutAt(l.h, l.at, floor))
    BY <1>7, <1>8, CutAtIs
  <2> QED BY <2>1 DEF CutDown, l
<1>10. Spared(h.es, l.h.es)
  <2>1. h.es \in Seq(HandleEntry)
    BY DEF Good
  <2> QED BY <1>3, <1>7, <2>1, SparedTwice
<1> QED BY <1>4, <1>7, <1>9, <1>10 DEF CutOf

\* The floor is a number.
LEMMA FloorIs ==
  ASSUME NEW n \in Nat
  PROVE  Max({InitialSpan + n, InitialSpan}) \in Nat
<1> DEFINE a == InitialArenas
           s == InitialSpan
<1>1. /\ a = <<a[1], a[2], a[3], a[4]>>
      /\ \A i \in 1 .. 4 : a[i].at \in Nat
      /\ \A i \in 1 .. 3 : a[i].at + 12 <= a[i + 1].at
  BY LayoutIs
<1>2. Last(a) = a[4]
  <2> DEFINE p == a[1]
             q == a[2]
             r == a[3]
             t == a[4]
  <2>1. a = <<p, q, r, t>>
    BY <1>1
  <2> HIDE DEF a, p, q, r, t
  <2>2. Last(a) = t
    BY <2>1 DEF Last
  <2> QED BY <2>2 DEF t
<1>3. a[1].at \in Nat /\ a[4].at \in Nat /\ a[1].at + 12 <= a[2].at /\ a[2].at + 12 <= a[3].at
      /\ a[3].at + 12 <= a[4].at /\ a[2].at \in Nat /\ a[3].at \in Nat
  BY <1>1
<1>4. s = a[4].at + 10 - a[1].at
  BY <1>2 DEF InitialSpan, Whole
<1> HIDE DEF a, s
<1>5. s \in Nat
  BY <1>3, <1>4
<1>6. s + n \in Nat
  BY <1>5
<1>7. Max({s + n, s}) = IF s + n >= s THEN s + n ELSE s
  BY <1>5, <1>6, Greater
<1>8. Max({s + n, s}) \in Nat
  BY <1>5, <1>6, <1>7
<1> QED BY <1>8 DEF s

\* LocalShrink.
LEMMA ShrinkIs ==
  ASSUME Good(Heap), NoPast(arenas), NEW n \in Nat, LocalShrink(InitialSpan + n)
  PROVE  \E g : Become(g, 0) /\ Shrinks(Heap, g)
<1> DEFINE floor == Max({InitialSpan + n, InitialSpan})
           c == Compacted(Heap, Highest - 3, FALSE)
           d == CutDown(LoweredAll(c.h, floor), floor)
           h == IF Whole(arenas) <= floor THEN Heap ELSE d
           span == Highest - 3
           k == Compacted(h, span, FALSE)
<1>1. floor \in Nat
  BY FloorIs
<1>2. Become(k.h, 0)
  BY DEF LocalShrink
<1>3. Heap.a = arenas /\ Heap.es = entries
  BY HeapIs
<1>4. entries \in Seq(HandleEntry)
  BY <1>3 DEF Good
<1>5. Whole(arenas) \in Nat
  <2>1. Laid(arenas)
    BY <1>3 DEF Good
  <2>2. /\ Last(arenas).at \in Nat /\ arenas[1].at \in Nat /\ arenas[1].at + 12 <= Last(arenas).at
        /\ Whole(arenas) = Last(arenas).at + 10 - arenas[1].at
    BY <2>1, WholeIs
  <2> QED BY <2>2
<1>6. /\ Good(h) /\ NoPast(h.a) /\ Spared(entries, h.es) /\ Fixes(h.a) = Fixes(arenas)
  <2>1. CASE Whole(arenas) <= floor
    <3>1. h = Heap
      BY <2>1
    <3>2. Spared(entries, entries)
      BY <1>4, SparedSelf
    <3> QED BY <1>3, <3>1, <3>2
  <2>2. CASE ~ (Whole(arenas) <= floor)
    <3>1. h = d
      BY <2>2
    <3>2. floor < Whole(Heap.a)
      <4> HIDE DEF floor
      <4> QED BY <1>1, <1>3, <1>5, <2>2
    <3>3. NoPast(Heap.a)
      BY <1>3
    <3>4. c = Compacted(Heap, Highest - 3, FALSE) /\ d = CutDown(LoweredAll(c.h, floor), floor)
      OBVIOUS
    <3> HIDE DEF floor, c, d, h
    <3>5. Good(d) /\ NoPast(d.a) /\ Spared(Heap.es, d.es) /\ Fixes(d.a) = Fixes(Heap.a)
      BY <1>1, <3>2, <3>3, <3>4, CutDownIs
    <3> QED BY <1>3, <3>1, <3>5
  <2> QED BY <2>1, <2>2
<1> HIDE DEF h, span
<1>7. Comes(h, k.h)
  <2>1. Compacts(h, span, FALSE, k)
    BY <1>6, CompactedIs
  <2> HIDE DEF k
  <2> QED BY <2>1 DEF Compacts
<1> HIDE DEF k
<1>8. /\ Good(k.h) /\ Spared(h.es, k.h.es) /\ Solid(k.h.a) = Solid(h.a)
  BY <1>7 DEF Comes
<1>9. Fixes(k.h.a) = Fixes(h.a) /\ NoPast(k.h.a)
  BY <1>6, <1>8, SolidFixes
<1>10. Spared(entries, k.h.es)
  BY <1>4, <1>6, <1>8, SparedTwice
<1>11. TreatedBar(entries, k.h.es, {})
  <2>1. Treated(entries, k.h.es)
    BY <1>4, <1>10, SparedTreated
  <2>2. Blank(entries)
    BY <1>3 DEF Good
  <2> QED BY <2>1, <2>2, TreatedNone
<1>12. Shrinks(Heap, k.h)
  BY <1>3, <1>6, <1>8, <1>9, <1>11 DEF Shrinks
<1> QED BY <1>2, <1>12

-----------------------------------------------------------------------------
(* Its steps.                                                              *)

\* A handle given back is not used.
LEMMA HandleUnused ==
  ASSUME NEW h, Good(h), NEW e \in DOMAIN h.es, h.es[e].used
  PROVE  ~HandleFreed(WithoutBlock(h, Handle(e)), e).es[e].used
<1> DEFINE k == WithoutBlock(h, Handle(e))
           g == Bare(h, e)
           f == HandleFreed(k, e)
           q == Emptied(k, e)
<1>1. Bares(h, e, k, g)
  BY BareIs
<1>2. h.es[e] \in HandleEntry /\ h.es \in Seq(HandleEntry) /\ Blank(h.es)
  BY DEF Good
<1> HIDE DEF k, g
<1>3. f = HandleFreed(g, e) /\ q = g
  BY <1>1, BareSame
<1> HIDE DEF f, q
<1>4. Good(g) /\ Sets(h.es, g.es, e, Blockless(h.es[e]))
  BY <1>1 DEF Bares
<1>5. DOMAIN g.es = DOMAIN h.es /\ g.es[e].used /\ g.es[e].at = 0
  BY <1>2, <1>4, BlocklessIs DEF Sets
<1>6. Frees(g, e, f)
  BY <1>3, <1>4, <1>5, HandleFreedIs
<1>7. f.es[e] = Unused
  BY <1>6 DEF Frees, Sets
<1>8. ~f.es[e].used
  BY <1>7 DEF Unused
<1> QED BY <1>8 DEF f, k

\* What a step does to the heap: what it may not touch but a call's own handle and
\* block, and what is so where it refuses.
StepTo(g, r, X, F) ==
  /\ Become(g, r)
  /\ Good(g) /\ (NoPast(arenas) => NoPast(g.a))
  /\ r # 0 => Full(g, r, FALSE, Apart(arenas))
  /\ Apart(arenas) => Apart(g.a) \/ \E n \in Requests : LocalShrink(InitialSpan + n)
  /\ TreatedBar(entries, g.es, X) /\ Fixes(arenas) \ F \subseteq Fixes(g.a)

\* A call is made for a value, and does not leave its handle if it frees it.
Excused(v, g) ==
  \/ ReAllocates(v)
  \/ LocalFree(v) /\ \A e \in OwnHandles(v) : ~g.es[e].used

HeapStep ==
  \E g, r : \/ StepTo(g, r, {}, {})
            \/ \E v \in Values : StepTo(g, r, OwnHandles(v), OwnFixed(v)) /\ Excused(v, g)

\* A call that leads to a heap is a step to it.
LEMMA LeadsStep ==
  ASSUME NEW g, NEW r, Become(g, r), NEW X, NEW F, LeadsBar(Heap, g, X, F),
         r # 0 => Full(g, r, FALSE, Apart(Heap.a))
  PROVE  StepTo(g, r, X, F)
BY HeapIs DEF StepTo, LeadsBar

\* And if it touches nothing but as is allowed.
LEMMA OutcomeStep ==
  ASSUME Good(Heap), NEW g, NEW r, Become(g, r), Outcome(Heap, g, r)
  PROVE  HeapStep
<1>1. LeadsBar(Heap, g, {}, {}) /\ (r # 0 => Full(g, r, FALSE, Apart(Heap.a)))
  BY LeadsNone DEF Outcome
<1>2. StepTo(g, r, {}, {})
  BY <1>1, LeadsStep
<1> QED BY <1>2 DEF HeapStep

\* And if it refuses nothing.
LEMMA BarStep ==
  ASSUME NEW g, Become(g, 0), LeadsBar(Heap, g, {}, {})
  PROVE  HeapStep
<1>1. StepTo(g, 0, {}, {})
  BY LeadsStep
<1> QED BY <1>1 DEF HeapStep

\* What may be asked for.
LEMMA AskedIs == Requests \subseteq Nat /\ Levels \subseteq 0 .. 15
BY HeapAssumption, UnderHighest

\* LocalAlloc, fixed.
LEMMA FixedStep ==
  ASSUME Good(Heap), NEW n \in Nat, NEW still \in BOOLEAN, LocalAllocFixed(n, still)
  PROVE  HeapStep
<1> DEFINE b == Alloc(Heap, n, FALSE, still)
<1>1. Outcome(Heap, b.h, Refusal(b.refused, still))
  BY AllocFixedIs
<1>2. Allocated(b, b.h, b.h, still)
  BY DEF LocalAllocFixed
<1> HIDE DEF b
<1>3. Become(b.h, Refusal(b.refused, still))
  BY <1>2 DEF Allocated
<1> QED BY <1>1, <1>3, OutcomeStep

\* LocalAlloc, moveable.
LEMMA MoveableStep ==
  ASSUME Good(Heap), NEW n \in Nat, NEW still \in BOOLEAN, NEW level \in 0 .. 15,
         LocalAllocMoveable(n, level, still)
  PROVE  HeapStep
<1> DEFINE hn == NewHandle(Heap, still)
<1>1. Gives(Heap, hn) \/ NoHandle(Heap, hn, still)
  BY NewHandleIs
<1>2. AllocBlock(hn, n, level, still)
  BY DEF LocalAllocMoveable
<1> HIDE DEF hn
<1>3. \E g, r : Become(g, r) /\ Outcome(Heap, g, r)
  BY <1>1, <1>2, AllocBlockIs
<1> QED BY <1>3, OutcomeStep

\* LocalReAlloc.
LEMMA ReAllocStep ==
  ASSUME Good(Heap), NEW v \in Values, NEW n \in Requests, NEW flag \in BOOLEAN,
         NEW still \in BOOLEAN, LocalReAlloc(v, n, flag, still)
  PROVE  HeapStep
<1>1. n \in Nat /\ Holds(Heap, v)
  BY AskedIs, ValuesHeld
<1>2. PICK g, r : Become(g, r) /\ OutcomeBar(Heap, g, r, v)
  BY <1>1, ReAllocIs
<1>3. StepTo(g, r, OwnHandles(v), OwnFixed(v))
  BY <1>2, LeadsStep DEF OutcomeBar
<1>4. Excused(v, g)
  BY DEF Excused, ReAllocates
<1> QED BY <1>3, <1>4 DEF HeapStep

\* LocalFree.
LEMMA FreedStep ==
  ASSUME Good(Heap), NEW v \in Values, LocalFree(v)
  PROVE  HeapStep
<1> DEFINE k == WithoutBlock(Heap, v)
           g == IF v.on = "handle" THEN HandleFreed(k, v.of) ELSE k
<1>1. Holds(Heap, v)
  BY ValuesHeld
<1>2. OutcomeBar(Heap, g, 0, v)
  BY <1>1, FreeIs
<1>3. Become(g, 0)
  BY DEF LocalFree
<1>4. \A e \in OwnHandles(v) : ~g.es[e].used
  <2>1. CASE \E e \in DOMAIN Heap.es : Heap.es[e].used /\ v = Handle(e)
    <3>1. PICK e \in DOMAIN Heap.es : Heap.es[e].used /\ v = Handle(e)
      BY <2>1
    <3>2. g = HandleFreed(WithoutBlock(Heap, Handle(e)), e)
      BY <3>1, ValueIs
    <3>3. ~HandleFreed(WithoutBlock(Heap, Handle(e)), e).es[e].used
      BY <3>1, HandleUnused
    <3>4. OwnHandles(v) = {e}
      BY <3>1, OwnIs
    <3> HIDE DEF g
    <3> QED BY <3>2, <3>3, <3>4
  <2>2. CASE \E at : NewArena(at, "fixed", 0) \in Fixes(Heap.a) /\ v = Fixed(at)
    BY <2>2, OwnIs
  <2> QED BY <1>1, <2>1, <2>2 DEF Holds
<1> HIDE DEF g
<1>5. StepTo(g, 0, OwnHandles(v), OwnFixed(v))
  BY <1>2, <1>3, LeadsStep DEF OutcomeBar
<1>6. Excused(v, g)
  BY <1>4 DEF Excused
<1> QED BY <1>5, <1>6 DEF HeapStep

\* LocalCompact.
LEMMA CompactStep ==
  ASSUME Good(Heap), NEW n, LocalCompact(n)
  PROVE  HeapStep
<1> DEFINE span == Round(n)
           g == Compacted(Heap, span, FALSE).h
<1>1. LeadsBar(Heap, g, {}, {})
  BY CompactIs
<1>2. Become(g, 0)
  BY DEF LocalCompact
<1> HIDE DEF g
<1> QED BY <1>1, <1>2, BarStep

\* LocalShrink.
LEMMA ShrinkStep ==
  ASSUME Good(Heap), NoPast(arenas), NEW n \in Requests, LocalShrink(InitialSpan + n)
  PROVE  HeapStep
<1>1. n \in Nat
  BY AskedIs
<1>2. PICK g : Become(g, 0) /\ Shrinks(Heap, g)
  BY <1>1, ShrinkIs
<1>3. Good(g) /\ NoPast(g.a) /\ TreatedBar(entries, g.es, {}) /\ Fixes(arenas) \subseteq Fixes(g.a)
  BY <1>2, HeapIs DEF Shrinks
<1>4. StepTo(g, 0, {}, {})
  BY <1>2, <1>3 DEF StepTo
<1> QED BY <1>4 DEF HeapStep

\* Whatever step is made.
LEMMA HeapStepIs ==
  ASSUME Good(Heap), NoPast(arenas), HeapNext
  PROVE  HeapStep
<1>1. CASE \E n \in Requests, still \in BOOLEAN : LocalAllocFixed(n, still)
  BY <1>1, AskedIs, FixedStep
<1>2. CASE \E n \in Requests, still \in BOOLEAN, level \in Levels :
             LocalAllocMoveable(n, level, still)
  BY <1>2, AskedIs, MoveableStep
<1>3. CASE \E n \in Requests, still \in BOOLEAN, v \in Values, flag \in BOOLEAN :
             LocalReAlloc(v, n, flag, still)
  BY <1>3, ReAllocStep
<1>4. CASE \E v \in Values : LocalFree(v)
  <2>1. PICK v \in Values : LocalFree(v)
    BY <1>4
  <2>2. Good(Heap) /\ v \in Values /\ LocalFree(v)
    BY <2>1
  <2> QED BY <2>2, FreedStep
<1>5. CASE \E e \in DOMAIN entries : LocalLock(e) \/ LocalUnlock(e)
  BY <1>5, LocksIs, BarStep
<1>6. CASE \E e \in DOMAIN entries, level \in Levels : LocalModify(e, level)
  BY <1>6, AskedIs, ModifyIs, BarStep
<1>7. CASE \E n \in Requests : LocalCompact(n)
  BY <1>7, CompactStep
<1>8. CASE \E n \in Requests : LocalShrink(InitialSpan + n)
  BY <1>8, ShrinkStep
<1> QED BY <1>1, <1>2, <1>3, <1>4, <1>5, <1>6, <1>7, <1>8 DEF HeapNext

-----------------------------------------------------------------------------
(* Its invariant.                                                          *)

HeapInv == Good(Heap) /\ NoPast(arenas)

\* The heap that LocalInit lays out is such.
LEMMA FirstLaid ==
  /\ Laid(InitialArenas) /\ Last(InitialArenas) = InitialArenas[4]
  /\ \A x \in Used(InitialArenas) : x.is = "kernel"
<1> DEFINE a1 == InitialArenas[1]
           a2 == InitialArenas[2]
           a3 == InitialArenas[3]
           a4 == InitialArenas[4]
           a == InitialArenas
<1>1. /\ a1 = NewArena(a1.at, "kernel", 0) /\ a2 = NewArena(a2.at, "kernel", 0)
      /\ a3 = NewArena(a3.at, "free", 0) /\ a4 = NewArena(a4.at, "kernel", 0)
      /\ a = <<a1, a2, a3, a4>>
      /\ \A i \in 1 .. 4 : a[i].at \in Nat /\ Quad(a[i].at)
      /\ a1.at >= 12
      /\ \A i \in 1 .. 3 : a[i].at + 12 <= a[i + 1].at
      /\ a4.at + 10 <= End
  BY LayoutIs
<1>2. End \in Nat /\ End <= Highest /\ Highest \in Nat
  BY HeapAssumption, UnderHighest, HighestIs
<1>3. a1.at \in Nat /\ a2.at \in Nat /\ a3.at \in Nat /\ a4.at \in Nat
  BY <1>1
<1>4. a1.at + 12 <= a2.at /\ a2.at + 12 <= a3.at /\ a3.at + 12 <= a4.at
  <2>1. 1 \in 1 .. 3 /\ 2 \in 1 .. 3 /\ 3 \in 1 .. 3
    OBVIOUS
  <2>2. a[1].at + 12 <= a[1 + 1].at /\ a[2].at + 12 <= a[2 + 1].at /\ a[3].at + 12 <= a[3 + 1].at
    BY <1>1, <2>1
  <2> QED BY <2>2
<1>5. a1.at <= Highest /\ a2.at <= Highest /\ a3.at <= Highest /\ a4.at <= Highest
  BY <1>1, <1>2, <1>3, <1>4
<1>6. ASSUME NEW x, NEW k, x = NewArena(x.at, k, 0), k \in {"kernel", "free"}, x.at \in Nat,
             x.at <= Highest
      PROVE  x \in Arena /\ x.is = k /\ x.entry = 0
  <2>1. x.is = k /\ x.entry = 0
    BY <1>6, FieldsAre
  <2>2. x.at \in 0 .. Highest /\ k \in Kinds
    BY <1>6, UnderHighest DEF Kinds
  <2>3. x = [at |-> x.at, is |-> k, entry |-> 0]
    BY <1>6 DEF NewArena
  <2>4. x \in Arena
    BY <2>2, <2>3 DEF Arena
  <2> QED BY <2>1, <2>4
<1>7. /\ a1 \in Arena /\ a2 \in Arena /\ a3 \in Arena /\ a4 \in Arena
      /\ a1.is = "kernel" /\ a2.is = "kernel" /\ a3.is = "free" /\ a4.is = "kernel"
  BY <1>1, <1>3, <1>5, <1>6
<1> HIDE DEF a1, a2, a3, a4
<1>8. /\ a \in Seq(Arena) /\ Len(a) = 4
      /\ a[1] = a1 /\ a[2] = a2 /\ a[3] = a3 /\ a[4] = a4
  BY <1>1, <1>7
<1>9. Laid(a)
  <2>1. \A i \in 1 .. Len(a) : Quad(a[i].at) /\ (a[i].is = "fixed" => a[i].entry = 0)
    BY <1>1, <1>7, <1>8
  <2>2. \A i \in 1 .. Len(a) - 1 : a[i].at + 12 <= a[i + 1].at
    BY <1>1, <1>8
  <2>3. a[Len(a)].is = "kernel" /\ a[1] = InitialArenas[1] /\ a[2] = InitialArenas[2]
    BY <1>7, <1>8
  <2> QED BY <1>8, <2>1, <2>2, <2>3 DEF Laid
<1>10. Last(a) = a4
  BY <1>8, <1>9, LaidIs
<1>11. \A x \in Used(a) : x.is = "kernel"
  <2>1. ASSUME NEW x \in Used(a) PROVE x.is = "kernel"
    <3>1. PICK i \in 1 .. Len(a) : a[i] = x
      BY <1>9, FreeAtIs
    <3>2. x.is # "free"
      BY DEF Used
    <3> QED BY <1>7, <1>8, <3>1, <3>2
  <2> QED BY <2>1
<1> QED BY <1>9, <1>10, <1>11 DEF a4

\* The heap as it is at first.
LEMMA HeapInitInv ==
  ASSUME HeapInit
  PROVE  HeapInv
<1>1. /\ arenas = InitialArenas /\ entries = <<>> /\ spare = <<>> /\ size = Segment
  BY DEF HeapInit
<1>2. Laid(arenas) /\ Last(arenas) = InitialArenas[4] /\ \A x \in Used(arenas) : x.is = "kernel"
  BY <1>1, FirstLaid
<1>3. Sized(Last(arenas), size)
  <2>1. /\ Segment \in Nat /\ End \in Nat /\ End <= Segment /\ Segment <= Highest + 1
        /\ (Growable => Segment % 32 = 0)
    <3>1. Highest \in Nat /\ End \in Nat
      BY HeapAssumption, UnderHighest, HighestIs
    <3>2. Segment \in End .. Highest + 1 /\ (Growable => Segment % 32 = 0)
      BY HeapAssumption
    <3> QED BY <3>1, <3>2
  <2>2. InitialArenas[4].at + 10 <= End /\ InitialArenas[4].at \in Nat
    <3>1. 4 \in 1 .. 4
      OBVIOUS
    <3> QED BY <3>1, LayoutIs
  <2>3. Last(arenas).at + 10 <= Segment
    BY <1>2, <2>1, <2>2
  <2> QED BY <1>1, <2>1, <2>3 DEF Sized
<1>4. entries \in Seq(HandleEntry) /\ DOMAIN entries = {}
  BY <1>1
<1>5. Spares(entries, spare)
  <2>1. spare \in Seq(DOMAIN entries) /\ DOMAIN spare = {}
    BY <1>1
  <2>2. IsInjective(spare) /\ ToSet(spare) = {}
    BY <2>1 DEF IsInjective, ToSet
  <2> QED BY <1>4, <2>1, <2>2 DEF Spares
<1>6. Blank(entries) /\ Agree(Used(arenas), entries) /\ NoPast(arenas)
  BY <1>2, <1>4 DEF Blank, Agree, NoPast
<1> QED BY <1>2, <1>3, <1>4, <1>5, <1>6, HeapIs DEF Good, HeapInv

\* What becomes of the heap is the heap that comes next.
LEMMA BecomeIs ==
  ASSUME NEW g, NEW r, Become(g, r), Good(g)
  PROVE  /\ Heap' = g /\ arenas' = g.a /\ entries' = g.es /\ spare' = g.spare /\ size' = g.size
         /\ refused' = r
<1>1. arenas' = g.a /\ entries' = g.es /\ spare' = g.spare /\ size' = g.size /\ refused' = r
  BY DEF Become
<1>2. g = HeapOf(g.a, g.es, g.spare, g.size)
  BY DEF Good, IsHeap
<1>3. Heap' = HeapOf(arenas', entries', spare', size')
  BY DEF Heap, HeapOf
<1> QED BY <1>1, <1>2, <1>3

\* What a step leads to.
LEMMA HeapStepInv ==
  ASSUME HeapInv, HeapStep
  PROVE  HeapInv'
<1>1. PICK g, r : Become(g, r) /\ Good(g) /\ NoPast(g.a)
  BY DEF HeapStep, StepTo, HeapInv
<1>2. Heap' = g /\ arenas' = g.a
  BY <1>1, BecomeIs
<1> QED BY <1>1, <1>2 DEF HeapInv

\* The invariant is inductive.
LEMMA HeapNextInv ==
  ASSUME HeapInv, [HeapNext]_heapVars
  PROVE  HeapInv'
<1>1. CASE HeapNext
  <2>1. HeapStep
    BY <1>1, HeapStepIs DEF HeapInv
  <2> QED BY <2>1, HeapStepInv
<1>2. CASE UNCHANGED heapVars
  <2>1. Heap' = Heap /\ arenas' = arenas
    BY <1>2 DEF Heap, heapVars
  <2> QED BY <2>1 DEF HeapInv
<1> QED BY <1>1, <1>2

\* What it says of the state.
LEMMA HeapInvTyped ==
  ASSUME HeapInv
  PROVE  HeapTypeOK
<1>1. /\ Laid(arenas) /\ Sized(Last(arenas), size)
      /\ entries \in Seq(HandleEntry) /\ Spares(entries, spare) /\ NoPast(arenas)
  BY HeapIs DEF HeapInv, Good
<1>2. /\ Len(arenas) \in Nat /\ Len(arenas) >= 3 /\ Last(arenas) = arenas[Len(arenas)]
      /\ \A i \in 1 .. Len(arenas) : arenas[i].is # "past"
  <2>1. ASSUME NEW i \in 1 .. Len(arenas) PROVE arenas[i].is # "past"
    <3>1. arenas[i].is = "free" \/ arenas[i] \in Used(arenas)
      BY <1>1, FreeAtIs
    <3> QED BY <1>1, <3>1 DEF NoPast
  <2> QED BY <1>1, <2>1, LaidIs
<1>3. ASSUME NEW i \in 1 .. Len(arenas) - 1
      PROVE  arenas[i].at % 4 = 0 /\ Span(arenas, i) >= 12 /\ arenas[i].is # "past"
  <2>1. /\ arenas[i].at \in Nat /\ arenas[i + 1].at \in Nat /\ arenas[i].at + 12 <= arenas[i + 1].at
        /\ i \in 1 .. Len(arenas)
    BY <1>1, NextIs
  <2>2. Quad(arenas[i].at)
    BY <1>1, <2>1 DEF Laid
  <2>3. Span(arenas, i) >= 12
    BY <2>1 DEF Span
  <2> QED BY <1>2, <2>1, <2>2, <2>3 DEF Quad
<1>4. arenas \in Seq(Arena) /\ arenas[1] = InitialArenas[1] /\ arenas[2] = InitialArenas[2]
      /\ Last(arenas).is = "kernel"
  BY <1>1, <1>2 DEF Laid
<1>5. size \in 0 .. Highest + 1 /\ Last(arenas).at + 10 <= size
  <2>1. Highest \in Nat
    BY HighestIs
  <2> QED BY <1>1, <2>1 DEF Sized
<1>6. /\ spare \in Seq(DOMAIN entries) /\ IsInjective(spare)
      /\ ToSet(spare) = {e \in DOMAIN entries : ~entries[e].used}
  BY <1>1 DEF Spares
<1> QED BY <1>1, <1>3, <1>4, <1>5, <1>6 DEF HeapTypeOK

\* The handles and the blocks agree.
LEMMA HeapInvAgrees ==
  ASSUME HeapInv
  PROVE  HandlesAgree
<1>1. Laid(arenas) /\ Agree(Used(arenas), entries)
  BY HeapIs DEF HeapInv, Good
<1>2. DOMAIN arenas = 1 .. Len(arenas)
  BY <1>1, LaidIs
<1>3. ASSUME NEW e \in DOMAIN entries, entries[e].at # 0
      PROVE  \E i \in DOMAIN arenas : arenas[i] = NewArena(entries[e].at - 6, "moveable", e)
  <2>1. NewArena(entries[e].at - 6, "moveable", e) \in Used(arenas)
    BY <1>1, <1>3 DEF Agree
  <2> QED BY <1>1, <1>2, <2>1, FreeAtIs
<1>4. ASSUME NEW i \in DOMAIN arenas, arenas[i].is = "moveable"
      PROVE  /\ arenas[i].entry \in DOMAIN entries
             /\ entries[arenas[i].entry].used
             /\ entries[arenas[i].entry].at = arenas[i].at + 6
  <2>1. arenas[i] \in Used(arenas)
    <3>1. arenas[i].is # "free"
      BY <1>4
    <3> QED BY <1>1, <1>2, <3>1, FreeAtIs
  <2> QED BY <1>1, <1>4, <2>1 DEF Agree
<1> QED BY <1>3, <1>4 DEF HandlesAgree

-----------------------------------------------------------------------------
(* What its steps may do.                                                  *)

\* Only LocalShrink leaves free arenas side by side.
LEMMA JoinedStep ==
  ASSUME HeapInv, HeapNext, Apart(arenas), ~Apart(arenas')
  PROVE  \E n \in Requests : LocalShrink(InitialSpan + n)
<1>1. HeapStep
  BY HeapStepIs DEF HeapInv
<1>2. PICK g, r, X, F : StepTo(g, r, X, F)
  BY <1>1 DEF HeapStep
<1>3. arenas' = g.a
  BY <1>2 DEF StepTo, Become
<1> QED BY <1>2, <1>3 DEF StepTo

\* What is so where a step refuses.
LEMMA RefusedStep ==
  ASSUME HeapInv, HeapNext, refused' # 0, NEW i \in FreeIn(arenas')
  PROVE  /\ Span(arenas', i) < refused'
         /\ Apart(arenas) => ~MayMove(arenas', entries', i - 1)
         /\ \A e \in DOMAIN entries' : ~Discardable(entries'[e])
<1>1. HeapStep
  BY HeapStepIs DEF HeapInv
<1>2. PICK g, r, X, F : StepTo(g, r, X, F)
  BY <1>1 DEF HeapStep
<1>3. arenas' = g.a /\ entries' = g.es /\ refused' = r
  BY <1>2 DEF StepTo, Become
<1>4. Full(g, r, FALSE, Apart(arenas)) /\ Laid(g.a)
  BY <1>2, <1>3 DEF StepTo, Good
<1>5. i \in FreeIn(g.a) /\ i > 1
  BY <1>3, <1>4, FreeAtIs
<1>6. Span(g.a, i) < r /\ None(g.es) /\ (Apart(arenas) => NoneBelow(g.a, g.es, 1))
  BY <1>4, <1>5 DEF Full
<1>7. Apart(arenas) => ~MayMove(g.a, g.es, i - 1)
  BY <1>5, <1>6 DEF NoneBelow
<1> QED BY <1>3, <1>6, <1>7 DEF None

\* The handles and the blocks of what a program holds.
LEMMA OwnersAre ==
  ASSUME Good(Heap), NEW v \in Values
  PROVE  /\ \A e \in OwnHandles(v) : v = Handle(e)
         /\ \A at : NewArena(at, "fixed", 0) \in OwnFixed(v) => v = Fixed(at)
<1>1. Holds(Heap, v)
  BY ValuesHeld
<1>2. CASE \E e : v = Handle(e)
  BY <1>2, OwnIs
<1>3. CASE \E at : v = Fixed(at)
  <2>1. PICK at : v = Fixed(at)
    BY <1>3
  <2>2. OwnHandles(v) = {} /\ OwnFixed(v) = {NewArena(at, "fixed", 0)}
    BY <2>1, OwnIs
  <2>3. ASSUME NEW q, NewArena(q, "fixed", 0) \in OwnFixed(v) PROVE q = at
    <3>1. NewArena(q, "fixed", 0) = NewArena(at, "fixed", 0)
      BY <2>2, <2>3
    <3>2. NewArena(q, "fixed", 0).at = q /\ NewArena(at, "fixed", 0).at = at
      BY FieldsAre
    <3> QED BY <3>1, <3>2
  <2> QED BY <2>1, <2>2, <2>3
<1> QED BY <1>1, <1>2, <1>3 DEF Holds

\* A fixed block, in a row.
LEMMA FixedBlockIs ==
  ASSUME NEW a, Laid(a)
  PROVE  /\ \A i \in DOMAIN a : a[i].is = "fixed" => NewArena(a[i].at, "fixed", 0) \in Fixes(a)
         /\ \A x \in Fixes(a) : Contains(a, x)
<1>1. ASSUME NEW i \in DOMAIN a, a[i].is = "fixed"
      PROVE  NewArena(a[i].at, "fixed", 0) \in Fixes(a)
  <2>1. i \in 1 .. Len(a) /\ a[i] \in Arena
    BY LaidIs
  <2>2. a[i].entry = 0
    BY <1>1, <2>1 DEF Laid
  <2>3. a[i] = NewArena(a[i].at, "fixed", 0)
    BY <1>1, <2>1, <2>2, ArenaIs
  <2>4. a[i] \in Used(a)
    BY <1>1, <2>1, FreeAtIs
  <2>5. a[i] \in Fixes(a)
    BY <1>1, <2>4 DEF Fixes
  <2> QED BY <2>3, <2>5
<1>2. ASSUME NEW x \in Fixes(a) PROVE Contains(a, x)
  <2>1. x \in Used(a)
    BY DEF Fixes
  <2>2. \E i \in 1 .. Len(a) : a[i] = x
    BY <2>1, FreeAtIs
  <2> QED BY <2>2 DEF Contains
<1> QED BY <1>1, <1>2

\* What a step touches.
LEMMA TouchedStep ==
  ASSUME HeapInv, HeapNext
  PROVE  \E X, F : /\ TreatedBar(entries, entries', X)
                   /\ Fixes(arenas) \ F \subseteq Fixes(arenas') /\ Laid(arenas')
                   /\ \A e \in X : \/ ReAllocates(Handle(e))
                                   \/ LocalFree(Handle(e)) /\ ~entries'[e].used
                   /\ \A at : NewArena(at, "fixed", 0) \in F
                                => LocalFree(Fixed(at)) \/ ReAllocates(Fixed(at))
<1>1. HeapStep /\ Good(Heap)
  BY HeapStepIs DEF HeapInv
<1>2. CASE \E g, r : StepTo(g, r, {}, {})
  <2>1. PICK g, r : StepTo(g, r, {}, {})
    BY <1>2
  <2>2. arenas' = g.a /\ entries' = g.es
    BY <2>1 DEF StepTo, Become
  <2>3. /\ TreatedBar(entries, g.es, {}) /\ Fixes(arenas) \ {} \subseteq Fixes(g.a)
        /\ Laid(g.a)
    BY <2>1 DEF StepTo, Good
  <2> QED BY <2>2, <2>3
<1>3. CASE \E g, r : \E v \in Values : StepTo(g, r, OwnHandles(v), OwnFixed(v)) /\ Excused(v, g)
  <2>1. PICK g, r : \E v \in Values : StepTo(g, r, OwnHandles(v), OwnFixed(v)) /\ Excused(v, g)
    BY <1>3
  <2>2. PICK v \in Values : StepTo(g, r, OwnHandles(v), OwnFixed(v)) /\ Excused(v, g)
    BY <2>1
  <2> DEFINE X == OwnHandles(v)
             F == OwnFixed(v)
  <2>3. arenas' = g.a /\ entries' = g.es
    BY <2>2 DEF StepTo, Become
  <2>4. TreatedBar(entries, g.es, X) /\ Fixes(arenas) \ F \subseteq Fixes(g.a) /\ Laid(g.a)
    BY <2>2 DEF StepTo, Good
  <2>5. ReAllocates(v) \/ (LocalFree(v) /\ \A e \in X : ~g.es[e].used)
    BY <2>2 DEF Excused
  <2>6. /\ \A e \in X : v = Handle(e)
        /\ \A at : NewArena(at, "fixed", 0) \in F => v = Fixed(at)
    BY <1>1, OwnersAre
  <2> HIDE DEF X, F
  <2>7. ASSUME NEW e \in X
        PROVE  ReAllocates(Handle(e)) \/ (LocalFree(Handle(e)) /\ ~entries'[e].used)
    BY <2>3, <2>5, <2>6
  <2>8. ASSUME NEW at, NewArena(at, "fixed", 0) \in F
        PROVE  LocalFree(Fixed(at)) \/ ReAllocates(Fixed(at))
    BY <2>5, <2>6, <2>8
  <2> QED BY <2>3, <2>4, <2>7, <2>8
<1> QED BY <1>1, <1>2, <1>3 DEF HeapStep

\* What is locked or fixed stays.
LEMMA LockedStep ==
  ASSUME HeapInv, HeapNext
  PROVE  /\ \A e \in DOMAIN entries :
              entries[e].locks > 0 /\ entries'[e].at # entries[e].at
                => LocalFree(Handle(e)) \/ ReAllocates(Handle(e))
         /\ \A at \in FixedBlocks :
              ~Contains(arenas', NewArena(at, "fixed", 0))
                => LocalFree(Fixed(at)) \/ ReAllocates(Fixed(at))
<1>1. PICK X, F : /\ TreatedBar(entries, entries', X)
                  /\ Fixes(arenas) \ F \subseteq Fixes(arenas') /\ Laid(arenas')
                  /\ \A e \in X : \/ ReAllocates(Handle(e))
                                  \/ LocalFree(Handle(e)) /\ ~entries'[e].used
                  /\ \A at : NewArena(at, "fixed", 0) \in F
                               => LocalFree(Fixed(at)) \/ ReAllocates(Fixed(at))
  BY TouchedStep
<1>2. ASSUME NEW e \in DOMAIN entries, entries[e].locks > 0, entries'[e].at # entries[e].at
      PROVE  LocalFree(Handle(e)) \/ ReAllocates(Handle(e))
  <2>1. e \in X
    BY <1>1, <1>2 DEF TreatedBar
  <2> QED BY <1>1, <2>1
<1>3. ASSUME NEW at \in FixedBlocks, ~Contains(arenas', NewArena(at, "fixed", 0))
      PROVE  LocalFree(Fixed(at)) \/ ReAllocates(Fixed(at))
  <2>1. Laid(arenas)
    BY HeapIs DEF HeapInv, Good
  <2>2. NewArena(at, "fixed", 0) \in Fixes(arenas)
    BY <2>1, FixedBlockIs DEF FixedBlocks
  <2>3. NewArena(at, "fixed", 0) \notin Fixes(arenas')
    BY <1>1, <1>3, FixedBlockIs
  <2>4. NewArena(at, "fixed", 0) \in F
    BY <1>1, <2>2, <2>3
  <2> QED BY <1>1, <2>4
<1> QED BY <1>2, <1>3

\* The highest levels are discarded first.
LEMMA HighestStep ==
  ASSUME HeapInv, HeapNext, NEW e \in DOMAIN entries, NEW d \in DOMAIN entries,
         Discardable(entries[e]), entries'[e].at = 0, entries'[e].used,
         Discardable(entries[d]), entries[d].level > entries[e].level
  PROVE  entries'[d].at = 0 \/ ReAllocates(Handle(e))
<1>1. PICK X, F : /\ TreatedBar(entries, entries', X)
                  /\ Fixes(arenas) \ F \subseteq Fixes(arenas') /\ Laid(arenas')
                  /\ \A q \in X : \/ ReAllocates(Handle(q))
                                  \/ LocalFree(Handle(q)) /\ ~entries'[q].used
                  /\ \A at : NewArena(at, "fixed", 0) \in F
                               => LocalFree(Fixed(at)) \/ ReAllocates(Fixed(at))
  BY TouchedStep
<1>2. entries'[d].at = 0 \/ e \in X
  BY <1>1 DEF TreatedBar
<1> QED BY <1>1, <1>2

-----------------------------------------------------------------------------
(* What is so of it.                                                       *)

\* The heap is laid out, its handles and its blocks tell of each other.
THEOREM HeapInvariant == HeapSpec => []HeapInv
<1>1. HeapInit => HeapInv
  BY HeapInitInv
<1>2. HeapInv /\ [HeapNext]_heapVars => HeapInv'
  BY HeapNextInv
<1> QED BY <1>1, <1>2, PTL DEF HeapSpec

\* The arenas cover the heap in order, each with room for its words, whatever is rounded,
\* split, joined, slid, grown or cut (local.rs).
THEOREM HeapTyped == HeapSpec => []HeapTypeOK
<1>1. HeapInv => HeapTypeOK
  BY HeapInvTyped
<1> QED BY <1>1, HeapInvariant, PTL

\* Each handle has the place of its block, and the block its handle (local.rs: slide,
\* fit, shrink_into, move_to).
THEOREM HeapHandlesAgree == HeapSpec => []HandlesAgree
<1>1. HeapInv => HandlesAgree
  BY HeapInvAgrees
<1> QED BY <1>1, HeapInvariant, PTL

\* Free arenas side by side are only what LocalShrink leaves (local.rs: join, cut).
THEOREM HeapFreeJoined == HeapSpec => FreeJoined
<1>1. HeapInit => HeapInv
  BY HeapInitInv
<1>2. HeapInv /\ [HeapNext]_heapVars => HeapInv'
  BY HeapNextInv
<1>3. HeapInv /\ [HeapNext]_heapVars
        => [Apart(arenas) /\ ~Apart(arenas')
              => \E n \in Requests : LocalShrink(InitialSpan + n)]_heapVars
  BY JoinedStep
<1> QED BY <1>1, <1>2, <1>3, PTL DEF HeapSpec, FreeJoined

\* Room is refused only where the heap is compacted and has none (local.rs: alloc,
\* out_of_memory, compact).
THEOREM HeapRefusedWhenFull == HeapSpec => RefusedWhenFull
<1>1. HeapInit => HeapInv
  BY HeapInitInv
<1>2. HeapInv /\ [HeapNext]_heapVars => HeapInv'
  BY HeapNextInv
<1>3. HeapInv /\ [HeapNext]_heapVars
        => [refused' # 0 =>
              \A i \in FreeIn(arenas') :
                /\ Span(arenas', i) < refused'
                /\ Apart(arenas) => ~MayMove(arenas', entries', i - 1)
                /\ \A e \in DOMAIN entries' : ~Discardable(entries'[e])]_heapVars
  BY RefusedStep
<1> QED BY <1>1, <1>2, <1>3, PTL DEF HeapSpec, RefusedWhenFull

\* A block is moved, or discarded, for another's sake only as its program allowed
\* (local.rs: slide, fit, compact).
THEOREM HeapAsAllowed == HeapSpec => AsAllowed
<1>1. HeapInit => HeapInv
  BY HeapInitInv
<1>2. HeapInv /\ [HeapNext]_heapVars => HeapInv'
  BY HeapNextInv
<1>3. HeapInv /\ [HeapNext]_heapVars
        => [/\ \A e \in DOMAIN entries :
                 entries[e].locks > 0 /\ entries'[e].at # entries[e].at
                   => LocalFree(Handle(e)) \/ ReAllocates(Handle(e))
            /\ \A at \in FixedBlocks :
                 ~Contains(arenas', NewArena(at, "fixed", 0))
                   => LocalFree(Fixed(at)) \/ ReAllocates(Fixed(at))]_heapVars
  BY LockedStep
<1>4. HeapInv /\ [HeapNext]_heapVars
        => [\A e, d \in DOMAIN entries :
              /\ Discardable(entries[e]) /\ entries'[e].at = 0 /\ entries'[e].used
              /\ Discardable(entries[d]) /\ entries[d].level > entries[e].level
              => entries'[d].at = 0 \/ ReAllocates(Handle(e))]_heapVars
  BY HighestStep
<1> QED BY <1>1, <1>2, <1>3, <1>4, PTL DEF HeapSpec, AsAllowed, LockedStays, HighestFirst
=============================================================================
