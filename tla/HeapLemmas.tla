---------------------------- MODULE HeapLemmas ----------------------------
(***************************************************************************)
(* Lemmas about a local heap: rows of arenas and what is done to them, the *)
(* handles that tell of their blocks, and a heap compacted, by walks from  *)
(* its last arena down and by discarding between them. A recursive         *)
(* function is shown to be as it is defined by what any number of its      *)
(* steps come to: of two that differ there would be a least place where    *)
(* they do.                                                                *)
(***************************************************************************)
EXTENDS LocalHeap, SequenceLemmas

-----------------------------------------------------------------------------
(* Numbers.                                                                *)

\* The highest address.
LEMMA HighestIs ==
  /\ Highest \in Nat /\ Highest >= 1000
  /\ (Highest + 1) % 32 = 0 /\ (Highest - 3) % 4 = 0 /\ (Highest - 15) % 32 = 16
BY DEF Highest

\* Whole fours.
Quad(n) == n % 4 = 0

\* Sums and differences of fours.
LEMMA QuadSum ==
  ASSUME NEW x \in Int, NEW y \in Int, Quad(x), Quad(y)
  PROVE  Quad(x + y) /\ Quad(x - y)
BY DEF Quad

\* The numbers up to the highest address.
LEMMA UnderHighest ==
  ASSUME NEW x
  PROVE  x \in 0 .. Highest <=> x \in Nat /\ x <= Highest
BY HighestIs

\* The lesser and the greater of two.
LEMMA Lesser ==
  ASSUME NEW x \in Int, NEW y \in Int
  PROVE  Min({x, y}) = IF x <= y THEN x ELSE y
<1> DEFINE m == IF x <= y THEN x ELSE y
<1>1. m \in {x, y} /\ \A z \in {x, y} : m <= z
  OBVIOUS
<1>2. Min({x, y}) \in {x, y} /\ \A z \in {x, y} : Min({x, y}) <= z
  BY <1>1 DEF Min
<1> QED BY <1>1, <1>2

\* The greater of two.
LEMMA Greater ==
  ASSUME NEW x \in Int, NEW y \in Int
  PROVE  Max({x, y}) = IF x >= y THEN x ELSE y
<1> DEFINE m == IF x >= y THEN x ELSE y
<1>1. m \in {x, y} /\ \A z \in {x, y} : m >= z
  OBVIOUS
<1>2. Max({x, y}) \in {x, y} /\ \A z \in {x, y} : Max({x, y}) >= z
  BY <1>1 DEF Max
<1> QED BY <1>1, <1>2

\* A number rounded up to four or to thirty-two.
LEMMA UpToFour ==
  ASSUME NEW n \in Nat
  PROVE  UpTo(n, 4) \in Nat /\ n <= UpTo(n, 4) /\ UpTo(n, 4) <= n + 3 /\ Quad(UpTo(n, 4))
BY DEF UpTo, Quad

\* A number up to thirty-two.
LEMMA UpToPage ==
  ASSUME NEW n \in Nat
  PROVE  UpTo(n, 32) \in Nat /\ n <= UpTo(n, 32) /\ UpTo(n, 32) <= n + 31
         /\ UpTo(n, 32) % 32 = 0
BY DEF UpTo

\* A span rounded.
LEMMA RoundUp ==
  ASSUME NEW n \in Nat, n >= 10
  PROVE  Round(n) = IF UpTo(n, 4) <= Highest - 3 THEN UpTo(n, 4) ELSE Highest - 3
<1>1. Max({n, 10}) = n
  <2>1. Max({n, 10}) = IF n >= 10 THEN n ELSE 10
    BY Greater
  <2> QED BY <2>1
<1> DEFINE u == UpTo(n, 4)
<1>2. u \in Int /\ Highest - 3 \in Int
  BY UpToFour, HighestIs
<1>3. Round(n) = Min({Highest - 3, u})
  BY <1>1 DEF Round
<1> HIDE DEF u
<1>4. Min({Highest - 3, u}) = IF Highest - 3 <= u THEN Highest - 3 ELSE u
  BY <1>2, Lesser
<1>5. Round(n) = IF u <= Highest - 3 THEN u ELSE Highest - 3
  BY <1>2, <1>3, <1>4
<1> QED BY <1>5 DEF u

\* A span as it is rounded.
LEMMA RoundIs ==
  ASSUME NEW n \in Nat
  PROVE  Round(n) \in Nat /\ Round(n) >= 12 /\ Round(n) <= Highest - 3 /\ Quad(Round(n))
<1> DEFINE m == IF n >= 10 THEN n ELSE 10
<1>1. Max({n, 10}) = m /\ Max({m, 10}) = m
  <2>1. m \in Int /\ 10 \in Int /\ n \in Int /\ m >= 10
    OBVIOUS
  <2>2. Max({m, 10}) = IF m >= 10 THEN m ELSE 10
    BY <2>1, Greater
  <2>3. Max({n, 10}) = m
    BY <2>1, Greater
  <2> QED BY <2>1, <2>2, <2>3
<1>2. Round(n) = Round(m)
  BY <1>1 DEF Round
<1>3. m \in Nat /\ m >= 10
  OBVIOUS
<1> HIDE DEF m
<1>4. /\ Round(m) = IF UpTo(m, 4) <= Highest - 3 THEN UpTo(m, 4) ELSE Highest - 3
      /\ UpTo(m, 4) \in Nat /\ m <= UpTo(m, 4) /\ Quad(UpTo(m, 4))
  BY <1>3, RoundUp, UpToFour
<1>5. UpTo(m, 4) >= 12
  BY <1>3, <1>4 DEF Quad
<1>6. Quad(Highest - 3) /\ Highest - 3 \in Nat /\ Highest - 3 >= 12
  BY HighestIs DEF Quad
<1> QED BY <1>2, <1>4, <1>5, <1>6

\* It is no less, if it may be so much.
LEMMA RoundOver ==
  ASSUME NEW n \in Nat
  PROVE  Round(n) >= n \/ (Round(n) = Highest - 3 /\ n > Highest - 3)
<1>1. CASE n < 10
  <2>1. Round(n) \in Nat /\ Round(n) >= 12
    BY RoundIs
  <2> QED BY <1>1, <2>1
<1>2. CASE n >= 10
  <2>1. /\ Round(n) = IF UpTo(n, 4) <= Highest - 3 THEN UpTo(n, 4) ELSE Highest - 3
        /\ UpTo(n, 4) \in Nat /\ n <= UpTo(n, 4) /\ UpTo(n, 4) <= n + 3
        /\ Quad(UpTo(n, 4))
    BY <1>2, RoundUp, UpToFour
  <2>2. Highest - 3 \in Nat /\ Quad(Highest - 3)
    BY HighestIs DEF Quad
  <2>3. UpTo(n, 4) > Highest - 3 => n > Highest - 3
    BY <2>1, <2>2 DEF Quad
  <2> QED BY <2>1, <2>2, <2>3
<1> QED BY <1>1, <1>2

\* Where the first arenas are.
LEMMA LayoutIs ==
  /\ InitialArenas[1] = NewArena(InitialArenas[1].at, "kernel", 0)
  /\ InitialArenas[2] = NewArena(InitialArenas[2].at, "kernel", 0)
  /\ InitialArenas[3] = NewArena(InitialArenas[3].at, "free", 0)
  /\ InitialArenas[4] = NewArena(InitialArenas[4].at, "kernel", 0)
  /\ InitialArenas = <<InitialArenas[1], InitialArenas[2], InitialArenas[3], InitialArenas[4]>>
  /\ \A i \in 1 .. 4 : InitialArenas[i].at \in Nat /\ Quad(InitialArenas[i].at)
  /\ InitialArenas[1].at >= 12
  /\ \A i \in 1 .. 3 : InitialArenas[i].at + 12 <= InitialArenas[i + 1].at
  /\ InitialArenas[4].at + 10 <= End
<1> DEFINE first == Round(Start)
           info == Round(first + 10)
           free == Round(info + 46)
           last == ((End - 10) \div 4) * 4
<1>1. InitialArenas = <<NewArena(first, "kernel", 0), NewArena(info, "kernel", 0),
                        NewArena(free, "free", 0), NewArena(last, "kernel", 0)>>
  BY DEF InitialArenas
<1>2. Start \in Nat /\ End \in Nat /\ End <= Highest
  BY HeapAssumption, UnderHighest
<1>3. first \in Nat /\ first >= 12 /\ first <= Highest - 3 /\ Quad(first)
  BY <1>2, RoundIs
<1>4. last \in Int /\ last + 10 <= End /\ Quad(last)
  BY <1>2 DEF Quad
<1>5. Highest \in Nat /\ Highest >= 1000 /\ Quad(Highest - 3)
  BY HighestIs DEF Quad
<1>6. free + 12 <= last
  BY <1>1, LayoutAssumption DEF NewArena
<1>7. first + 10 \in Nat
  BY <1>3
<1> HIDE DEF first
<1>8. /\ info \in Nat /\ info >= 12 /\ info <= Highest - 3 /\ Quad(info)
      /\ info >= first + 10 \/ (info = Highest - 3 /\ first + 10 > Highest - 3)
  BY <1>7, RoundIs, RoundOver
<1>9. info + 46 \in Nat
  BY <1>8
<1> HIDE DEF info
<1>10. /\ free \in Nat /\ free >= 12 /\ free <= Highest - 3 /\ Quad(free)
       /\ free >= info + 46 \/ (free = Highest - 3 /\ info + 46 > Highest - 3)
  BY <1>9, RoundIs, RoundOver
<1> HIDE DEF free, last
<1>11. first + 10 <= info /\ info + 46 <= free
  BY <1>2, <1>3, <1>4, <1>5, <1>6, <1>8, <1>10
<1>12. first + 12 <= info
  BY <1>3, <1>8, <1>11 DEF Quad
<1> DEFINE s == InitialArenas
<1>13. /\ s[1] = NewArena(first, "kernel", 0) /\ s[2] = NewArena(info, "kernel", 0)
       /\ s[3] = NewArena(free, "free", 0) /\ s[4] = NewArena(last, "kernel", 0)
       /\ s = <<s[1], s[2], s[3], s[4]>>
  BY <1>1
<1>14. s[1].at = first /\ s[2].at = info /\ s[3].at = free /\ s[4].at = last
  BY <1>13 DEF NewArena
<1> HIDE DEF s
<1>15. \A i \in 1 .. 4 : s[i].at \in Nat /\ Quad(s[i].at)
  <2>1. last \in Nat
    BY <1>4, <1>6, <1>10
  <2>2. \A i \in 1 .. 4 : i = 1 \/ i = 2 \/ i = 3 \/ i = 4
    OBVIOUS
  <2> QED BY <1>3, <1>4, <1>8, <1>10, <1>14, <2>1, <2>2
<1>16. \A i \in 1 .. 3 : s[i].at + 12 <= s[i + 1].at
  <2>1. \A i \in 1 .. 3 : i = 1 \/ i = 2 \/ i = 3
    OBVIOUS
  <2> QED BY <1>3, <1>6, <1>8, <1>10, <1>11, <1>12, <1>14, <2>1
<1>17. s[1].at >= 12 /\ s[4].at + 10 <= End
  BY <1>3, <1>4, <1>14
<1>18. /\ s[1] = NewArena(s[1].at, "kernel", 0) /\ s[2] = NewArena(s[2].at, "kernel", 0)
       /\ s[3] = NewArena(s[3].at, "free", 0) /\ s[4] = NewArena(s[4].at, "kernel", 0)
       /\ s = <<s[1], s[2], s[3], s[4]>>
  BY <1>13, <1>14
<1> QED BY <1>15, <1>16, <1>17, <1>18 DEF s

-----------------------------------------------------------------------------
(* Rows of arenas.                                                         *)

\* Arenas as they lie in a heap: one after the other, KERNEL's own first and last.
Laid(a) ==
  /\ a \in Seq(Arena) /\ Len(a) >= 3
  /\ \A i \in 1 .. Len(a) : Quad(a[i].at) /\ (a[i].is = "fixed" => a[i].entry = 0)
  /\ \A i \in 1 .. Len(a) - 1 : a[i].at + 12 <= a[i + 1].at
  /\ a[1] = InitialArenas[1] /\ a[2] = InitialArenas[2]
  /\ a[Len(a)].is = "kernel"

\* Those that are not free.
Used(a) == {x \in ToSet(a) : x.is # "free"}

\* What of an arena its type says.
LEMMA ArenaIs ==
  ASSUME NEW x \in Arena
  PROVE  /\ x.at \in Nat /\ x.at <= Highest /\ x.is \in Kinds /\ x.entry \in Nat
         /\ x = NewArena(x.at, x.is, x.entry)
<1>1. x.at \in 0 .. Highest /\ x.is \in Kinds /\ x.entry \in Nat
  BY DEF Arena
<1>2. x = NewArena(x.at, x.is, x.entry)
  BY DEF Arena, NewArena
<1> QED BY <1>1, <1>2, UnderHighest

\* What is made as an arena is one.
LEMMA NewArenaIs ==
  ASSUME NEW at \in Nat, at <= Highest, NEW is \in Kinds, NEW e \in Nat
  PROVE  NewArena(at, is, e) \in Arena
<1>1. at \in 0 .. Highest
  BY UnderHighest
<1> QED BY <1>1 DEF Arena, NewArena

\* What an arena that is made holds.
LEMMA FieldsAre ==
  ASSUME NEW at, NEW is, NEW e
  PROVE  /\ NewArena(at, is, e).at = at
         /\ NewArena(at, is, e).is = is
         /\ NewArena(at, is, e).entry = e
BY DEF NewArena

\* What a row's arenas are.
LEMMA LaidIs ==
  ASSUME NEW a, Laid(a)
  PROVE  /\ Len(a) \in Nat /\ Len(a) >= 3 /\ DOMAIN a = 1 .. Len(a)
         /\ \A i \in 1 .. Len(a) : a[i] \in Arena /\ a[i].at \in Nat /\ a[i].at <= Highest
                                   /\ a[i].is \in Kinds /\ a[i].entry \in Nat
         /\ a[1].is = "kernel" /\ a[2].is = "kernel" /\ a[1].at >= 12
         /\ Last(a) = a[Len(a)]
         /\ ToSet(a) = {a[i] : i \in 1 .. Len(a)}
<1>1. Len(a) \in Nat /\ Len(a) >= 3 /\ DOMAIN a = 1 .. Len(a)
      /\ \A i \in 1 .. Len(a) : a[i] \in Arena
  BY DEF Laid
<1>2. a[1].is = "kernel" /\ a[2].is = "kernel" /\ a[1].at >= 12
  <2>1. a[1] = InitialArenas[1] /\ a[2] = InitialArenas[2]
    BY DEF Laid
  <2>2. /\ InitialArenas[1] = NewArena(InitialArenas[1].at, "kernel", 0)
        /\ InitialArenas[2] = NewArena(InitialArenas[2].at, "kernel", 0)
        /\ InitialArenas[1].at >= 12
    BY LayoutIs
  <2>3. InitialArenas[1].is = "kernel" /\ InitialArenas[2].is = "kernel"
    BY <2>2, FieldsAre
  <2> QED BY <2>1, <2>2, <2>3
<1>3. ToSet(a) = {a[i] : i \in 1 .. Len(a)}
  BY <1>1 DEF ToSet
<1>4. Last(a) = a[Len(a)]
  BY DEF Last
<1> QED BY <1>1, <1>2, <1>3, <1>4, ArenaIs

\* An arena and the next.
LEMMA NextIs ==
  ASSUME NEW a, Laid(a), NEW i \in 1 .. Len(a) - 1
  PROVE  a[i].at \in Nat /\ a[i + 1].at \in Nat /\ a[i].at + 12 <= a[i + 1].at
         /\ i \in 1 .. Len(a) /\ i + 1 \in 1 .. Len(a)
<1>1. Len(a) \in Nat
  BY LaidIs
<1>2. i \in 1 .. Len(a) /\ i + 1 \in 1 .. Len(a)
  BY <1>1
<1>3. a[i].at + 12 <= a[i + 1].at
  BY DEF Laid
<1> QED BY <1>2, <1>3, LaidIs

\* Arenas further on lie higher.
LEMMA Rising ==
  ASSUME NEW a, Laid(a), NEW i \in 1 .. Len(a), NEW j \in 1 .. Len(a), i < j
  PROVE  a[i].at + 12 <= a[j].at
<1> DEFINE Over(n) == a[i].at + 12 <= a[i + n + 1].at
           T == {n \in Nat : i + n + 1 <= Len(a) /\ ~ Over(n)}
<1>0. Len(a) \in Nat /\ i \in Nat /\ i >= 1 /\ j \in Nat /\ j <= Len(a)
  BY LaidIs
<1>1. T = {}
  <2> SUFFICES ASSUME T # {} PROVE FALSE
    OBVIOUS
  <2>0. \A n : n \in T <=> n \in Nat /\ i + n + 1 <= Len(a) /\ ~ Over(n)
    OBVIOUS
  <2> HIDE DEF T
  <2>1. PICK n \in T : \A k \in T : n <= k
    <3>1. T \subseteq Nat
      BY <2>0
    <3> QED BY <3>1, Least
  <2> DEFINE m == n - 1
  <2>2. n \in Nat /\ i + n + 1 <= Len(a)
    BY <2>0, <2>1
  <2>3. i + n \in 1 .. Len(a) - 1 /\ i + n \in Nat
    BY <1>0, <2>2
  <2>4. a[i + n].at \in Nat /\ a[i + n + 1].at \in Nat /\ a[i + n].at + 12 <= a[i + n + 1].at
    BY <2>3, NextIs
  <2>5. a[i].at \in Nat
    BY LaidIs
  <2>6. CASE n = 0
    <3>1. i + n = i
      BY <1>0, <2>6
    <3>2. ~ (a[i].at + 12 <= a[i + n + 1].at)
      BY <2>0, <2>1
    <3>3. a[i].at + 12 <= a[i + n + 1].at
      BY <2>4, <3>1
    <3> QED BY <3>2, <3>3
  <2>7. CASE n # 0
    <3>1. m \in Nat /\ i + m + 1 = i + n /\ ~ (n <= m) /\ i + m + 1 <= Len(a)
      BY <1>0, <2>2, <2>7
    <3> HIDE DEF m
    <3>2. m \notin T
      BY <2>1, <3>1
    <3> HIDE DEF Over
    <3>3. Over(m)
      BY <2>0, <3>1, <3>2
    <3>4. a[i].at + 12 <= a[i + n].at
      BY <3>1, <3>3 DEF Over
    <3>6. a[i].at + 12 <= a[i + n + 1].at
      <4> DEFINE x == a[i].at
                 y == a[i + n].at
                 z == a[i + n + 1].at
      <4>1. x \in Nat /\ y \in Nat /\ z \in Nat /\ y + 12 <= z /\ x + 12 <= y
        BY <2>4, <2>5, <3>4
      <4> HIDE DEF x, y, z
      <4>2. x + 12 <= z
        BY <4>1
      <4> QED BY <4>2 DEF x, z
    <3>5. ~ (a[i].at + 12 <= a[i + n + 1].at)
      BY <2>0, <2>1 DEF Over
    <3> QED BY <3>5, <3>6
  <2> QED BY <2>6, <2>7
<1> DEFINE d == (j - i) - 1
<1>2. d \in Nat /\ i + d + 1 = j
  BY <1>0
<1> HIDE DEF d
<1>3. Over(d)
  BY <1>0, <1>1, <1>2
<1> QED BY <1>2, <1>3

\* Where an arena is, from its place.
LEMMA IndexIs ==
  ASSUME NEW a, Laid(a), NEW i \in 1 .. Len(a)
  PROVE  IndexOf(a, a[i].at) = i
<1>1. \A k \in 1 .. Len(a) : a[k].at = a[i].at => k = i
  <2> SUFFICES ASSUME NEW k \in 1 .. Len(a), a[k].at = a[i].at, k # i PROVE FALSE
    OBVIOUS
  <2>1. a[k].at \in Nat /\ a[i].at \in Nat /\ k \in Int /\ i \in Int
    BY LaidIs
  <2>2. CASE k < i
    <3>1. a[k].at + 12 <= a[i].at
      BY <2>2, Rising
    <3> QED BY <2>1, <3>1
  <2>3. CASE i < k
    <3>1. a[i].at + 12 <= a[k].at
      BY <2>3, Rising
    <3> QED BY <2>1, <3>1
  <2> QED BY <2>1, <2>2, <2>3
<1>2. DOMAIN a = 1 .. Len(a)
  BY LaidIs
<1> QED BY <1>1, <1>2 DEF IndexOf

\* An arena higher up is further on.
LEMMA Further ==
  ASSUME NEW a, Laid(a), NEW i \in 1 .. Len(a), NEW j \in 1 .. Len(a), a[i].at < a[j].at
  PROVE  i < j
<1>1. a[i].at \in Nat /\ a[j].at \in Nat /\ i \in Int /\ j \in Int
  BY LaidIs
<1>2. CASE j < i
  <2>1. a[j].at + 12 <= a[i].at
    BY <1>2, Rising
  <2> QED BY <1>1, <2>1
<1>3. i # j
  BY <1>1
<1> QED BY <1>1, <1>2, <1>3

\* Two arenas at one place are one, and at its place.
LEMMA MemberIs ==
  ASSUME NEW a, Laid(a), NEW x \in ToSet(a)
  PROVE  /\ IndexOf(a, x.at) \in 1 .. Len(a)
         /\ a[IndexOf(a, x.at)] = x
         /\ x \in Arena /\ x.at \in Nat /\ x.is \in Kinds /\ x.entry \in Nat
<1>1. PICK i \in 1 .. Len(a) : x = a[i]
  BY LaidIs
<1>2. IndexOf(a, x.at) = i
  BY <1>1, IndexIs
<1> QED BY <1>1, <1>2, LaidIs

\* No two arenas are at one place.
LEMMA OneAt ==
  ASSUME NEW a, Laid(a), NEW x \in ToSet(a), NEW y \in ToSet(a), x.at = y.at
  PROVE  x = y
BY MemberIs

-----------------------------------------------------------------------------
(* Rows changed.                                                           *)

\* A row that is another up to arena l and, d places down, from r on.
Spliced(a, b, l, r, d) ==
  /\ b \in Seq(Arena) /\ Len(b) = Len(a) - d
  /\ l \in Nat /\ r \in Nat /\ d \in Int /\ l < r /\ l < r - d
  /\ \A k \in 1 .. l : b[k] = a[k]
  /\ \A k \in r .. Len(a) : b[k - d] = a[k]

\* What is so of a row spliced, place by place.
LEMMA SplicedIs ==
  ASSUME NEW a, Laid(a), NEW b, NEW l, NEW r, NEW d, Spliced(a, b, l, r, d),
         l >= 2, r <= Len(a)
  PROVE  /\ Len(b) \in Nat /\ Len(b) >= 3 /\ DOMAIN b = 1 .. Len(b)
         /\ l \in 1 .. Len(a) - 1 /\ r \in 1 .. Len(a) /\ r - d \in 1 .. Len(b)
         /\ \A k \in r - d .. Len(b) : b[k] = a[k + d] /\ k + d \in r .. Len(a)
         /\ b[r - d] = a[r] /\ b[l] = a[l] /\ b[Len(b)] = a[Len(a)]
<1>1. Len(a) \in Nat /\ Len(a) >= 3
  BY LaidIs
<1>2. /\ b \in Seq(Arena) /\ Len(b) = Len(a) - d
      /\ l \in Nat /\ r \in Nat /\ d \in Int /\ l < r /\ l < r - d
      /\ \A k \in 1 .. l : b[k] = a[k]
      /\ \A k \in r .. Len(a) : b[k - d] = a[k]
  BY DEF Spliced
<1>3. Len(b) \in Nat /\ DOMAIN b = 1 .. Len(b) /\ Len(b) >= 3
  BY <1>1, <1>2
<1>4. ASSUME NEW k \in r - d .. Len(b)
      PROVE  b[k] = a[k + d] /\ k + d \in r .. Len(a)
  <2> DEFINE m == k + d
  <2>1. m \in r .. Len(a) /\ m - d = k
    BY <1>2, <1>3
  <2> HIDE DEF m
  <2>2. b[m - d] = a[m]
    BY <1>2, <2>1
  <2>3. b[k] = a[m]
    BY <2>1, <2>2
  <2> QED BY <2>1, <2>3 DEF m
<1>5. r \in r .. Len(a) /\ Len(a) \in r .. Len(a) /\ l \in 1 .. l
  BY <1>1, <1>2
<1>6. b[r - d] = a[r] /\ b[Len(a) - d] = a[Len(a)] /\ b[l] = a[l]
  BY <1>2, <1>5
<1>7. l \in 1 .. Len(a) - 1 /\ r \in 1 .. Len(a) /\ r - d \in 1 .. Len(b)
  BY <1>1, <1>2, <1>3
<1> QED BY <1>2, <1>3, <1>4, <1>6, <1>7

\* Such a row is laid as a heap's, if what is new in it is.
LEMMA SplicedLaid ==
  ASSUME NEW a, Laid(a), NEW b, NEW l, NEW r, NEW d, Spliced(a, b, l, r, d),
         l >= 2, r <= Len(a),
         \A k \in l + 1 .. r - d - 1 : Quad(b[k].at) /\ (b[k].is = "fixed" => b[k].entry = 0),
         \A k \in l .. r - d - 1 : b[k].at + 12 <= b[k + 1].at
  PROVE  Laid(b)
<1>1. /\ Len(a) \in Nat /\ Len(b) \in Nat /\ Len(b) >= 3
      /\ r - d \in 1 .. Len(b) /\ r \in 1 .. Len(a) /\ l \in 1 .. Len(a)
      /\ \A k \in r - d .. Len(b) : b[k] = a[k + d] /\ k + d \in r .. Len(a)
      /\ b[Len(b)] = a[Len(a)]
  BY LaidIs, SplicedIs
<1>2. /\ b \in Seq(Arena) /\ Len(b) = Len(a) - d
      /\ l \in Nat /\ r \in Nat /\ d \in Int /\ l < r /\ l < r - d
      /\ \A k \in 1 .. l : b[k] = a[k]
  BY DEF Spliced
<1>3. /\ \A i \in 1 .. Len(a) : Quad(a[i].at) /\ (a[i].is = "fixed" => a[i].entry = 0)
      /\ \A i \in 1 .. Len(a) - 1 : a[i].at + 12 <= a[i + 1].at
      /\ a[1] = InitialArenas[1] /\ a[2] = InitialArenas[2]
      /\ a[Len(a)].is = "kernel"
  BY DEF Laid
<1>4. ASSUME NEW k \in 1 .. Len(b)
      PROVE  Quad(b[k].at) /\ (b[k].is = "fixed" => b[k].entry = 0)
  <2>1. CASE k <= l
    <3>1. k \in 1 .. l /\ k \in 1 .. Len(a)
      BY <1>1, <2>1
    <3> QED BY <1>2, <1>3, <3>1
  <2>2. CASE l < k /\ k < r - d
    <3>1. k \in l + 1 .. r - d - 1
      BY <1>1, <1>2, <2>2
    <3> QED BY <3>1
  <2>3. CASE k >= r - d
    <3>1. k \in r - d .. Len(b)
      BY <1>1, <1>2, <2>3
    <3>2. b[k] = a[k + d] /\ k + d \in 1 .. Len(a)
      BY <1>1, <3>1
    <3> QED BY <1>3, <3>2
  <2> QED BY <1>1, <1>2, <2>1, <2>2, <2>3
<1>5. ASSUME NEW k \in 1 .. Len(b) - 1
      PROVE  b[k].at + 12 <= b[k + 1].at
  <2>1. CASE k < l
    <3>1. k \in 1 .. l /\ k + 1 \in 1 .. l /\ k \in 1 .. Len(a) - 1
      BY <1>1, <1>2, <2>1
    <3>2. b[k] = a[k] /\ b[k + 1] = a[k + 1]
      BY <1>2, <3>1
    <3> QED BY <1>3, <3>1, <3>2
  <2>2. CASE l <= k /\ k < r - d
    <3>1. k \in l .. r - d - 1
      BY <1>1, <1>2, <2>2
    <3> QED BY <3>1
  <2>3. CASE k >= r - d
    <3>1. k \in r - d .. Len(b) /\ k + 1 \in r - d .. Len(b)
      BY <1>1, <1>2, <2>3
    <3>2. b[k] = a[k + d] /\ b[k + 1] = a[(k + 1) + d]
      BY <1>1, <3>1
    <3>3. (k + 1) + d = (k + d) + 1 /\ k + d \in 1 .. Len(a) - 1
      BY <1>1, <1>2, <3>1
    <3> QED BY <1>3, <3>2, <3>3
  <2> QED BY <1>1, <1>2, <2>1, <2>2, <2>3
<1>6. b[1] = a[1] /\ b[2] = a[2]
  BY <1>2
<1> QED BY <1>1, <1>2, <1>3, <1>4, <1>5, <1>6 DEF Laid

\* What is used in it.
LEMMA SplicedUsed ==
  ASSUME NEW a, Laid(a), NEW b, NEW l, NEW r, NEW d, Spliced(a, b, l, r, d),
         l >= 2, r <= Len(a)
  PROVE  Used(b) = (Used(a) \ {a[k] : k \in l + 1 .. r - 1})
                   \cup {x \in {b[k] : k \in l + 1 .. r - d - 1} : x.is # "free"}
<1>1. /\ Len(a) \in Nat /\ Len(b) \in Nat /\ DOMAIN b = 1 .. Len(b)
      /\ r - d \in 1 .. Len(b) /\ r \in 1 .. Len(a) /\ l \in 1 .. Len(a)
      /\ \A k \in r - d .. Len(b) : b[k] = a[k + d] /\ k + d \in r .. Len(a)
      /\ ToSet(a) = {a[i] : i \in 1 .. Len(a)}
  BY LaidIs, SplicedIs
<1>2. /\ Len(b) = Len(a) - d
      /\ l \in Nat /\ r \in Nat /\ d \in Int /\ l < r /\ l < r - d
      /\ \A k \in 1 .. l : b[k] = a[k]
      /\ \A k \in r .. Len(a) : b[k - d] = a[k]
  BY DEF Spliced
<1>3. ToSet(b) = {b[i] : i \in 1 .. Len(b)}
  BY <1>1 DEF ToSet
<1> DEFINE gone == {a[k] : k \in l + 1 .. r - 1}
           new == {b[k] : k \in l + 1 .. r - d - 1}
<1>4. ASSUME NEW k \in 1 .. Len(b)
      PROVE  b[k] \in new \/ (b[k] \in ToSet(a) /\ b[k] \notin gone)
  <2>1. CASE l < k /\ k < r - d
    <3>1. k \in l + 1 .. r - d - 1
      BY <1>1, <1>2, <2>1
    <3> QED BY <3>1
  <2>2. CASE k <= l \/ k >= r - d
    <3>1. PICK m \in 1 .. Len(a) : b[k] = a[m] /\ (m <= l \/ m >= r)
      <4>1. CASE k <= l
        <5>1. k \in 1 .. l /\ k \in 1 .. Len(a)
          BY <1>1, <1>2, <4>1
        <5> QED BY <1>2, <4>1, <5>1
      <4>2. CASE k >= r - d
        <5>1. k \in r - d .. Len(b)
          BY <1>1, <1>2, <4>2
        <5>2. b[k] = a[k + d] /\ k + d \in 1 .. Len(a) /\ k + d >= r
          BY <1>1, <5>1
        <5> QED BY <5>2
      <4> QED BY <2>2, <4>1, <4>2
    <3>2. ASSUME NEW i \in l + 1 .. r - 1, a[i] = a[m] PROVE FALSE
      <4>0. i \in 1 .. Len(a)
        BY <1>1, <1>2
      <4>1. i \in 1 .. Len(a) /\ IndexOf(a, a[i].at) = i /\ IndexOf(a, a[m].at) = m
        BY <4>0, IndexIs
      <4> QED BY <1>1, <1>2, <3>1, <3>2, <4>1
    <3> QED BY <1>1, <3>1, <3>2
  <2> QED BY <1>1, <1>2, <2>1, <2>2
<1>5. ASSUME NEW m \in 1 .. Len(a), a[m] \notin gone
      PROVE  a[m] \in ToSet(b)
  <2>1. CASE m <= l
    <3>1. m \in 1 .. l /\ m \in 1 .. Len(b)
      BY <1>1, <1>2, <2>1
    <3> QED BY <1>2, <1>3, <3>1
  <2>2. CASE m >= r
    <3>1. m \in r .. Len(a) /\ m - d \in 1 .. Len(b)
      BY <1>1, <1>2, <2>2
    <3> QED BY <1>2, <1>3, <3>1
  <2>3. CASE l < m /\ m < r
    <3>1. m \in l + 1 .. r - 1
      BY <1>1, <1>2, <2>3
    <3> QED BY <1>5, <3>1
  <2> QED BY <1>1, <1>2, <2>1, <2>2, <2>3
<1>6. new \subseteq ToSet(b)
  <2>1. \A k \in l + 1 .. r - d - 1 : k \in 1 .. Len(b)
    BY <1>1, <1>2
  <2> QED BY <1>3, <2>1
<1> HIDE DEF gone, new
<1>7. \A x : x \in ToSet(b) <=> x \in new \/ (x \in ToSet(a) /\ x \notin gone)
  BY <1>1, <1>3, <1>4, <1>5, <1>6
<1>8. Used(b) = (Used(a) \ gone) \cup {x \in new : x.is # "free"}
  BY <1>7 DEF Used
<1> QED BY <1>8 DEF gone, new

\* No two free arenas side by side in it.
LEMMA SplicedApart ==
  ASSUME NEW a, Laid(a), NEW b, NEW l, NEW r, NEW d, Spliced(a, b, l, r, d),
         l >= 2, r <= Len(a), Apart(a),
         \A k \in l .. r - d - 1 : ~ (b[k].is = "free" /\ b[k + 1].is = "free")
  PROVE  Apart(b)
<1>1. /\ Len(a) \in Nat /\ Len(b) \in Nat
      /\ r - d \in 1 .. Len(b) /\ r \in 1 .. Len(a) /\ l \in 1 .. Len(a)
      /\ \A k \in r - d .. Len(b) : b[k] = a[k + d] /\ k + d \in r .. Len(a)
  BY LaidIs, SplicedIs
<1>2. /\ Len(b) = Len(a) - d
      /\ l \in Nat /\ r \in Nat /\ d \in Int /\ l < r /\ l < r - d
      /\ \A k \in 1 .. l : b[k] = a[k]
  BY DEF Spliced
<1>3. \A i \in 1 .. Len(a) - 1 : ~ (a[i].is = "free" /\ a[i + 1].is = "free")
  BY DEF Apart
<1>4. ASSUME NEW k \in 1 .. Len(b) - 1
      PROVE  ~ (b[k].is = "free" /\ b[k + 1].is = "free")
  <2>1. CASE k < l
    <3>1. k \in 1 .. l /\ k + 1 \in 1 .. l /\ k \in 1 .. Len(a) - 1
      BY <1>1, <1>2, <2>1
    <3>2. b[k] = a[k] /\ b[k + 1] = a[k + 1]
      BY <1>2, <3>1
    <3> QED BY <1>3, <3>1, <3>2
  <2>2. CASE l <= k /\ k < r - d
    <3>1. k \in l .. r - d - 1
      BY <1>1, <1>2, <2>2
    <3> QED BY <3>1
  <2>3. CASE k >= r - d
    <3>1. k \in r - d .. Len(b) /\ k + 1 \in r - d .. Len(b)
      BY <1>1, <1>2, <2>3
    <3>2. b[k] = a[k + d] /\ b[k + 1] = a[(k + 1) + d]
      BY <1>1, <3>1
    <3>3. (k + 1) + d = (k + d) + 1 /\ k + d \in 1 .. Len(a) - 1
      BY <1>1, <1>2, <3>1
    <3> QED BY <1>3, <3>2, <3>3
  <2> QED BY <1>1, <1>2, <2>1, <2>2, <2>3
<1> QED BY <1>4 DEF Apart

\* An arena replaced, put in, taken out.
LEMMA ReplaceIs ==
  ASSUME NEW a, Laid(a), NEW i \in 3 .. Len(a) - 1, NEW x \in Arena
  PROVE  /\ Spliced(a, ReplaceAt(a, i, x), i - 1, i + 1, 0)
         /\ ReplaceAt(a, i, x)[i] = x
<1>1. Len(a) \in Nat /\ DOMAIN a = 1 .. Len(a) /\ a \in Seq(Arena) /\ i \in 1 .. Len(a)
  BY LaidIs DEF Laid
<1> DEFINE b == [a EXCEPT ![i] = x]
<1>2. b \in Seq(Arena) /\ Len(b) = Len(a) /\ b[i] = x
      /\ \A k \in 1 .. Len(a) : k # i => b[k] = a[k]
  BY <1>1
<1>3. ReplaceAt(a, i, x) = b
  BY DEF ReplaceAt
<1> HIDE DEF b
<1>4. \A k \in 1 .. i - 1 : b[k] = a[k]
  BY <1>1, <1>2
<1>5. \A k \in i + 1 .. Len(a) : b[k - 0] = a[k]
  BY <1>1, <1>2
<1>6. i - 1 \in Nat /\ i + 1 \in Nat /\ 0 \in Int /\ i - 1 < (i + 1) - 0 /\ Len(b) = Len(a) - 0
  BY <1>1, <1>2
<1> QED BY <1>2, <1>3, <1>4, <1>5, <1>6 DEF Spliced

\* An arena put in.
LEMMA InsertIs ==
  ASSUME NEW a, Laid(a), NEW i \in 3 .. Len(a), NEW x \in Arena
  PROVE  /\ Spliced(a, InsertAt(a, i, x), i - 1, i, -1)
         /\ InsertAt(a, i, x)[i] = x
<1>1. Len(a) \in Nat /\ a \in Seq(Arena) /\ i \in 1 .. Len(a) + 1
  BY LaidIs DEF Laid
<1> DEFINE b == InsertAt(a, i, x)
<1>2. /\ b \in Seq(Arena) /\ Len(b) = Len(a) + 1
      /\ \A j \in 1 .. i - 1 : b[j] = a[j]
      /\ b[i] = x
      /\ \A j \in i + 1 .. Len(a) + 1 : b[j] = a[j - 1]
  BY <1>1, InsertAtParts
<1> HIDE DEF b
<1>3. ASSUME NEW k \in i .. Len(a) PROVE b[k - (-1)] = a[k]
  <2>1. k + 1 \in i + 1 .. Len(a) + 1 /\ (k + 1) - 1 = k /\ k - (-1) = k + 1
    BY <1>1
  <2> QED BY <1>2, <2>1
<1>4. i - 1 \in Nat /\ i \in Nat /\ -1 \in Int /\ i - 1 < i - (-1) /\ Len(b) = Len(a) - (-1)
  BY <1>1, <1>2
<1>5. i - 1 < i
  BY <1>1
<1> QED BY <1>2, <1>3, <1>4, <1>5 DEF Spliced, b

\* An arena taken out.
LEMMA RemoveIs ==
  ASSUME NEW a, Laid(a), NEW i \in 3 .. Len(a) - 1
  PROVE  Spliced(a, RemoveAt(a, i), i - 1, i + 1, 1)
<1>1. Len(a) \in Nat /\ a \in Seq(Arena) /\ i \in 1 .. Len(a)
  BY LaidIs DEF Laid
<1> DEFINE b == RemoveAt(a, i)
<1>2. /\ b \in Seq(Arena) /\ Len(b) = Len(a) - 1
      /\ \A j \in 1 .. i - 1 : b[j] = a[j]
      /\ \A j \in i .. Len(a) - 1 : b[j] = a[j + 1]
  BY <1>1, RemoveAtParts
<1> HIDE DEF b
<1>3. ASSUME NEW k \in i + 1 .. Len(a) PROVE b[k - 1] = a[k]
  <2>1. k - 1 \in i .. Len(a) - 1 /\ (k - 1) + 1 = k
    BY <1>1
  <2> QED BY <1>2, <2>1
<1>4. i - 1 \in Nat /\ i + 1 \in Nat /\ 1 \in Int /\ i - 1 < (i + 1) - 1
  BY <1>1
<1> QED BY <1>2, <1>3, <1>4 DEF Spliced, b

\* A free arena's row with a block freed: joined to those beside it.
Before(a, i) == IF a[i - 1].is = "free" THEN 1 ELSE 0
After(a, i) == IF a[i + 1].is = "free" THEN 1 ELSE 0

\* How many free arenas there are beside one.
LEMMA BesideIs ==
  ASSUME NEW a, Laid(a), NEW i \in 3 .. Len(a) - 1
  PROVE  /\ Before(a, i) \in {0, 1} /\ After(a, i) \in {0, 1}
         /\ i - Before(a, i) \in 3 .. Len(a) - 1
         /\ (i + 1) + After(a, i) \in 4 .. Len(a)
<1>1. Len(a) \in Nat /\ a[2].is = "kernel" /\ a[Len(a)].is = "kernel"
  BY LaidIs DEF Laid
<1>2. i = 3 => Before(a, i) = 0
  BY <1>1 DEF Before
<1>3. i + 1 = Len(a) => After(a, i) = 0
  BY <1>1 DEF After
<1>4. Before(a, i) \in {0, 1} /\ After(a, i) \in {0, 1}
  BY DEF Before, After
<1> QED BY <1>1, <1>2, <1>3, <1>4

\* A block freed: the free arena it becomes, with those beside it.
LEMMA FreedIs ==
  ASSUME NEW a, Laid(a), NEW i \in 3 .. Len(a) - 1, NEW p, p = Before(a, i),
         NEW q, q = After(a, i)
  PROVE  /\ Spliced(a, Freed(a, i), (i - 1) - p, (i + 1) + q, p + q)
         /\ Freed(a, i)[i - p].is = "free" /\ Freed(a, i)[i - p].at = a[i - p].at
<1> DEFINE x == NewArena(a[i].at, "free", 0)
           c == [a EXCEPT ![i] = x]
           c2 == JoinedAfter(c, i)
           b == JoinedBefore(c2, i)
<1>1. /\ Len(a) \in Nat /\ DOMAIN a = 1 .. Len(a) /\ a \in Seq(Arena)
      /\ i \in 1 .. Len(a) /\ i \in Nat /\ i >= 3 /\ i + 1 <= Len(a)
  BY LaidIs DEF Laid
<1>2. x \in Arena /\ x.at = a[i].at /\ x.is = "free"
  <2>1. a[i].at \in Nat /\ a[i].at <= Highest /\ "free" \in Kinds /\ 0 \in Nat
    BY <1>1, LaidIs DEF Kinds
  <2> QED BY <2>1, NewArenaIs, FieldsAre
<1>3. Freed(a, i) = b
  BY DEF Freed
<1> HIDE DEF x
<1>4. /\ c \in Seq(Arena) /\ Len(c) = Len(a) /\ c[i] = x
      /\ \A k \in 1 .. Len(a) : k # i => c[k] = a[k]
  BY <1>1, <1>2
<1> HIDE DEF c
<1>5. p \in {0, 1} /\ q \in {0, 1} /\ i - p \in 3 .. Len(a) - 1 /\ (i + 1) + q \in 4 .. Len(a)
  BY BesideIs
<1>6. i + 1 \in 1 .. Len(a) /\ i + 1 # i /\ i - 1 \in 1 .. Len(a) /\ i - 1 # i
  BY <1>1
<1>7. c[i + 1] = a[i + 1] /\ c[i - 1] = a[i - 1]
  BY <1>4, <1>6
<1>8. /\ c2 \in Seq(Arena) /\ Len(c2) = Len(a) - q
      /\ \A k \in 1 .. i : c2[k] = c[k]
      /\ \A k \in i + 1 + q .. Len(a) : c2[k - q] = c[k]
  <2>1. CASE a[i + 1].is = "free"
    <3>1. q = 1 /\ c2 = RemoveAt(c, i + 1)
      BY <1>7, <2>1 DEF After, JoinedAfter
    <3>2. i + 1 \in 1 .. Len(c)
      BY <1>4, <1>6
    <3>3. /\ RemoveAt(c, i + 1) \in Seq(Arena)
          /\ Len(RemoveAt(c, i + 1)) = Len(c) - 1
          /\ \A j \in 1 .. (i + 1) - 1 : RemoveAt(c, i + 1)[j] = c[j]
          /\ \A j \in i + 1 .. Len(c) - 1 : RemoveAt(c, i + 1)[j] = c[j + 1]
      BY <1>4, <3>2, RemoveAtParts
    <3> HIDE DEF c2
    <3>4. \A k \in 1 .. i : c2[k] = c[k]
      BY <1>1, <3>1, <3>3
    <3>5. ASSUME NEW k \in i + 1 + q .. Len(a) PROVE c2[k - q] = c[k]
      <4>1. k - 1 \in i + 1 .. Len(c) - 1 /\ (k - 1) + 1 = k
        BY <1>1, <1>4, <3>1
      <4> QED BY <3>1, <3>3, <4>1
    <3> QED BY <1>4, <3>1, <3>3, <3>4, <3>5
  <2>2. CASE a[i + 1].is # "free"
    <3>1. q = 0 /\ c2 = c
      BY <1>7, <2>2 DEF After, JoinedAfter
    <3> HIDE DEF c2
    <3>2. \A k \in i + 1 + q .. Len(a) : k - q = k
      BY <1>1, <3>1
    <3>3. Len(a) - q = Len(a)
      BY <1>1, <3>1
    <3> QED BY <1>4, <3>1, <3>2, <3>3
  <2> QED BY <2>1, <2>2
<1> HIDE DEF c2
<1>9. c2[i - 1] = a[i - 1] /\ c2[i] = x /\ Len(c2) \in Nat /\ i \in 1 .. Len(c2)
  <2>1. i - 1 \in 1 .. i /\ i \in 1 .. i
    BY <1>1
  <2>2. c2[i - 1] = c[i - 1] /\ c2[i] = c[i]
    BY <1>8, <2>1
  <2>3. Len(c2) \in Nat /\ i \in 1 .. Len(c2)
    <3>1. Len(c2) = Len(a) - q
      BY <1>8
    <3> QED BY <1>1, <1>5, <3>1
  <2> QED BY <1>4, <1>7, <2>2, <2>3
<1>10. /\ b \in Seq(Arena) /\ Len(b) = Len(c2) - p
       /\ \A k \in 1 .. i - p : (k < i - p \/ p = 1) => b[k] = a[k]
       /\ \A k \in i + 1 + q .. Len(a) : b[(k - q) - p] = c2[k - q]
       /\ b[i - p].is = "free" /\ b[i - p].at = a[i - p].at
  <2>1. CASE a[i - 1].is = "free"
    <3>1. p = 1 /\ b = RemoveAt(c2, i)
      BY <1>9, <2>1 DEF Before, JoinedBefore
    <3>2. /\ RemoveAt(c2, i) \in Seq(Arena)
          /\ Len(RemoveAt(c2, i)) = Len(c2) - 1
          /\ \A j \in 1 .. i - 1 : RemoveAt(c2, i)[j] = c2[j]
          /\ \A j \in i .. Len(c2) - 1 : RemoveAt(c2, i)[j] = c2[j + 1]
      BY <1>8, <1>9, RemoveAtParts
    <3> HIDE DEF b
    <3>3. ASSUME NEW k \in 1 .. i - 1 PROVE b[k] = a[k]
      <4>1. k \in 1 .. i /\ k \in 1 .. Len(a) /\ k # i
        BY <1>1
      <4> QED BY <1>4, <1>8, <3>1, <3>2, <4>1
    <3>4. ASSUME NEW k \in i + 1 + q .. Len(a) PROVE b[(k - q) - p] = c2[k - q]
      <4> DEFINE m == (k - q) - 1
      <4>1. m \in i .. Len(c2) - 1 /\ m + 1 = k - q /\ (k - q) - p = m
        BY <1>1, <1>5, <1>8, <3>1, SMTT(20)
      <4> HIDE DEF m
      <4> QED BY <3>1, <3>2, <4>1
    <3>5. i - p \in 1 .. i - 1 /\ i - p = i - 1
      BY <1>1, <3>1
    <3> QED BY <2>1, <3>1, <3>2, <3>3, <3>4, <3>5
  <2>2. CASE a[i - 1].is # "free"
    <3>1. p = 0 /\ b = c2
      BY <1>9, <2>2 DEF Before, JoinedBefore
    <3> HIDE DEF b
    <3>2. ASSUME NEW k \in 1 .. i - p, k < i - p \/ p = 1 PROVE b[k] = a[k]
      <4>1. k \in 1 .. i /\ k \in 1 .. Len(a) /\ k # i
        BY <1>1, <3>1, <3>2
      <4> QED BY <1>4, <1>8, <3>1, <4>1
    <3>3. i - p = i /\ Len(c2) - p = Len(c2)
          /\ \A k \in i + 1 + q .. Len(a) : (k - q) - p = k - q
      BY <1>1, <1>5, <1>9, <3>1
    <3> QED BY <1>2, <1>8, <1>9, <3>1, <3>2, <3>3
  <2> QED BY <2>1, <2>2
<1> HIDE DEF b
<1>11. ASSUME NEW k \in 1 .. (i - 1) - p PROVE b[k] = a[k]
  <2>1. k \in 1 .. i - p /\ k < i - p
    BY <1>1, <1>5, SMTT(20)
  <2> QED BY <1>10, <2>1
<1>12. ASSUME NEW k \in (i + 1) + q .. Len(a) PROVE b[k - (p + q)] = a[k]
  <2>1. k \in i + 1 + q .. Len(a) /\ (k - q) - p = k - (p + q) /\ k \in 1 .. Len(a) /\ k # i
    BY <1>1, <1>5
  <2>2. b[(k - q) - p] = c2[k - q] /\ c2[k - q] = c[k] /\ c[k] = a[k]
    BY <1>4, <1>8, <1>10, <2>1
  <2> QED BY <2>1, <2>2
<1>13. /\ Len(b) = Len(a) - (p + q)
       /\ (i - 1) - p \in Nat /\ (i + 1) + q \in Nat /\ p + q \in Int
       /\ (i - 1) - p < (i + 1) + q /\ (i - 1) - p < ((i + 1) + q) - (p + q)
  <2>1. Len(b) = Len(c2) - p /\ Len(c2) = Len(a) - q
    BY <1>8, <1>10
  <2>2. p \in Int /\ 0 <= p /\ p <= 1
    BY <1>5
  <2>3. q \in Int /\ 0 <= q /\ q <= 1
    BY <1>5
  <2>4. (i - 1) - p \in Nat /\ (i + 1) + q \in Nat /\ p + q \in Int
    BY <1>1, <2>2, <2>3
  <2>5. (i - 1) - p < (i + 1) + q /\ (i - 1) - p < ((i + 1) + q) - (p + q)
    BY <1>1, <2>2, <2>3
  <2>6. Len(b) = Len(a) - (p + q)
    BY <1>1, <2>1, <2>2, <2>3
  <2> QED BY <2>4, <2>5, <2>6
<1> QED BY <1>3, <1>10, <1>11, <1>12, <1>13 DEF Spliced

-----------------------------------------------------------------------------
(* The free arenas.                                                        *)
\* Where the free arenas are.
FreeAts(a) == {x.at : x \in {y \in ToSet(a) : y.is = "free"}}

\* The free arenas of a row spliced.
LEMMA SplicedFree ==
  ASSUME NEW a, Laid(a), NEW b, NEW l, NEW r, NEW d, Spliced(a, b, l, r, d),
         l >= 2, r <= Len(a), NEW F,
         \A k \in l + 1 .. r - d - 1 : b[k].is = "free" => b[k].at \in F
  PROVE  FreeAts(b) \subseteq FreeAts(a) \cup F
<1>1. /\ Len(a) \in Nat /\ Len(b) \in Nat /\ DOMAIN b = 1 .. Len(b)
      /\ r - d \in 1 .. Len(b) /\ r \in 1 .. Len(a) /\ l \in 1 .. Len(a)
      /\ \A k \in r - d .. Len(b) : b[k] = a[k + d] /\ k + d \in r .. Len(a)
      /\ ToSet(a) = {a[i] : i \in 1 .. Len(a)}
  BY LaidIs, SplicedIs
<1>2. /\ Len(b) = Len(a) - d
      /\ l \in Nat /\ r \in Nat /\ d \in Int /\ l < r /\ l < r - d
      /\ \A k \in 1 .. l : b[k] = a[k]
  BY DEF Spliced
<1>3. ToSet(b) = {b[i] : i \in 1 .. Len(b)}
  BY <1>1 DEF ToSet
<1>4. ASSUME NEW k \in 1 .. Len(b), b[k].is = "free"
      PROVE  b[k].at \in F \/ b[k] \in ToSet(a)
  <2>1. CASE k <= l
    <3>1. k \in 1 .. l /\ k \in 1 .. Len(a)
      BY <1>1, <1>2, <2>1
    <3> QED BY <1>1, <1>2, <3>1
  <2>2. CASE l < k /\ k < r - d
    <3>1. k \in l + 1 .. r - d - 1
      BY <1>1, <1>2, <2>2
    <3> QED BY <1>4, <3>1
  <2>3. CASE k >= r - d
    <3>1. k \in r - d .. Len(b)
      BY <1>1, <1>2, <2>3
    <3>2. b[k] = a[k + d] /\ k + d \in 1 .. Len(a)
      BY <1>1, <3>1
    <3> QED BY <1>1, <3>2
  <2> QED BY <1>1, <1>2, <2>1, <2>2, <2>3
<1> QED BY <1>3, <1>4 DEF FreeAts

\* A free arena's place among them; arenas that are in use.
LEMMA FreeAtIs ==
  ASSUME NEW a, Laid(a)
  PROVE  /\ \A i \in 1 .. Len(a) : a[i].is = "free" => a[i].at \in FreeAts(a)
         /\ \A i \in 1 .. Len(a) : a[i].is # "free" => a[i] \in Used(a)
         /\ \A f \in FreeAts(a) : \E i \in FreeIn(a) : a[i].at = f
         /\ \A x \in Used(a) : \E i \in 1 .. Len(a) : a[i] = x
         /\ FreeIn(a) \subseteq 3 .. Len(a) - 1
         /\ \A i \in 1 .. Len(a) : a[i].is = "free" => i \in FreeIn(a)
<1>1. /\ Len(a) \in Nat /\ ToSet(a) = {a[i] : i \in 1 .. Len(a)}
      /\ a[1].is = "kernel" /\ a[2].is = "kernel" /\ a[Len(a)].is = "kernel"
  BY LaidIs DEF Laid
<1>2. \A i \in 1 .. Len(a) : a[i].is = "free" => i \in FreeIn(a) /\ i \in 3 .. Len(a) - 1
  BY <1>1 DEF FreeIn
<1>3. FreeIn(a) \subseteq 3 .. Len(a) - 1
  BY <1>1 DEF FreeIn
<1>4. \A i \in 1 .. Len(a) : a[i].is = "free" => a[i].at \in FreeAts(a)
  BY <1>1 DEF FreeAts
<1>5. \A f \in FreeAts(a) : \E i \in FreeIn(a) : a[i].at = f
  BY <1>1, <1>2 DEF FreeAts
<1>6. \A i \in 1 .. Len(a) : a[i].is # "free" => a[i] \in Used(a)
  BY <1>1 DEF Used
<1>7. \A x \in Used(a) : \E i \in 1 .. Len(a) : a[i] = x
  BY <1>1 DEF Used
<1> QED BY <1>2, <1>3, <1>4, <1>5, <1>6, <1>7

\* Free arenas have no arena of another kind at their place.
LEMMA FreeNotUsed ==
  ASSUME NEW a, Laid(a), NEW x \in Used(a)
  PROVE  x.at \notin FreeAts(a)
<1> SUFFICES ASSUME x.at \in FreeAts(a) PROVE FALSE
  OBVIOUS
<1>1. PICK y \in ToSet(a) : y.is = "free" /\ y.at = x.at
  BY DEF FreeAts
<1>2. x \in ToSet(a) /\ x.is # "free"
  BY DEF Used
<1> QED BY <1>1, <1>2, OneAt

\* What is left of a row when an arena is replaced.
LEMMA ReplaceKeeps ==
  ASSUME NEW a, Laid(a), NEW i \in 3 .. Len(a) - 1, NEW x \in Arena,
         Quad(x.at), x.is = "fixed" => x.entry = 0,
         a[i - 1].at + 12 <= x.at, x.at + 12 <= a[i + 1].at,
         NEW b, b = ReplaceAt(a, i, x)
  PROVE  /\ Laid(b) /\ Last(b) = Last(a) /\ Len(b) = Len(a) /\ b[i] = x
         /\ \A k \in 1 .. Len(a) : k # i => b[k] = a[k]
         /\ Used(b) = (Used(a) \ {a[i]}) \cup {y \in {x} : y.is # "free"}
         /\ Apart(a) /\ (x.is # "free" \/ a[i].is = "free") => Apart(b)
         /\ FreeAts(b) \subseteq FreeAts(a) \cup {y.at : y \in {z \in {x} : z.is = "free"}}
<1>1. Spliced(a, b, i - 1, i + 1, 0) /\ b[i] = x
  BY ReplaceIs
<1>2. Len(a) \in Nat /\ i \in Nat /\ i >= 3 /\ i + 1 <= Len(a) /\ i - 1 >= 2 /\ Last(a) = a[Len(a)]
  BY LaidIs
<1>3. /\ Len(b) = Len(a) - 0 /\ Len(b) \in Nat
      /\ b[(i + 1) - 0] = a[i + 1] /\ b[i - 1] = a[i - 1] /\ b[Len(b)] = a[Len(a)]
  BY <1>1, <1>2, SplicedIs DEF Spliced
<1>4. (i + 1) - 0 = i + 1 /\ Len(b) = Len(a) /\ (i - 1) + 1 = i
      /\ (i - 1) + 1 .. (i + 1) - 0 - 1 = {i} /\ (i - 1) + 1 .. (i + 1) - 1 = {i}
      /\ i - 1 .. (i + 1) - 0 - 1 = {i - 1, i}
  BY <1>2, <1>3, SMTT(30)
<1>5. \A k \in (i - 1) + 1 .. (i + 1) - 0 - 1 :
        Quad(b[k].at) /\ (b[k].is = "fixed" => b[k].entry = 0)
  BY <1>1, <1>4
<1>6. \A k \in i - 1 .. (i + 1) - 0 - 1 : b[k].at + 12 <= b[k + 1].at
  BY <1>1, <1>3, <1>4
<1>7. Laid(b)
  BY <1>1, <1>2, <1>5, <1>6, SplicedLaid
<1>8. Last(b) = Last(a)
  BY <1>2, <1>3, <1>7, LaidIs
<1>9. Used(b) = (Used(a) \ {a[i]}) \cup {y \in {x} : y.is # "free"}
  <2>1. Used(b) = (Used(a) \ {a[k] : k \in (i - 1) + 1 .. (i + 1) - 1})
                   \cup {y \in {b[k] : k \in (i - 1) + 1 .. (i + 1) - 0 - 1} : y.is # "free"}
    BY <1>1, <1>2, SplicedUsed
  <2>2. {a[k] : k \in {i}} = {a[i]} /\ {b[k] : k \in {i}} = {x}
    BY <1>1
  <2> QED BY <1>4, <2>1, <2>2
<1>10. ASSUME NEW k \in 1 .. Len(a), k # i PROVE b[k] = a[k]
  <2>1. \A m \in 1 .. i - 1 : b[m] = a[m]
    BY <1>1 DEF Spliced
  <2>2. \A m \in i + 1 .. Len(a) : b[m - 0] = a[m]
    BY <1>1 DEF Spliced
  <2>3. k \in 1 .. i - 1 \/ (k \in i + 1 .. Len(a) /\ k - 0 = k)
    BY <1>2, <1>10
  <2> QED BY <2>1, <2>2, <2>3
<1>11. ASSUME Apart(a), x.is # "free" \/ a[i].is = "free" PROVE Apart(b)
  <2>1. \A k \in i - 1 .. (i + 1) - 0 - 1 : ~ (b[k].is = "free" /\ b[k + 1].is = "free")
    <3>1. i - 1 \in 1 .. Len(a) - 1 /\ i \in 1 .. Len(a) - 1
      BY <1>2
    <3>2. /\ ~ (a[i - 1].is = "free" /\ a[(i - 1) + 1].is = "free")
          /\ ~ (a[i].is = "free" /\ a[i + 1].is = "free")
      BY <1>11, <3>1 DEF Apart
    <3> QED BY <1>1, <1>3, <1>4, <1>11, <3>2
  <2> QED BY <1>1, <1>2, <1>11, <2>1, SplicedApart
<1>12. FreeAts(b) \subseteq FreeAts(a) \cup {y.at : y \in {z \in {x} : z.is = "free"}}
  <2> DEFINE F == {y.at : y \in {z \in {x} : z.is = "free"}}
  <2>1. \A k \in (i - 1) + 1 .. (i + 1) - 0 - 1 : b[k].is = "free" => b[k].at \in F
    BY <1>1, <1>4
  <2> HIDE DEF F
  <2>2. FreeAts(b) \subseteq FreeAts(a) \cup F
    BY <1>1, <1>2, <2>1, SplicedFree
  <2> QED BY <2>2 DEF F
<1> QED BY <1>1, <1>4, <1>7, <1>8, <1>9, <1>10, <1>11, <1>12

\* When one is put in.
LEMMA InsertKeeps ==
  ASSUME NEW a, Laid(a), NEW i \in 3 .. Len(a), NEW x \in Arena,
         Quad(x.at), x.is = "fixed" => x.entry = 0,
         a[i - 1].at + 12 <= x.at, x.at + 12 <= a[i].at,
         NEW b, b = InsertAt(a, i, x)
  PROVE  /\ Laid(b) /\ Last(b) = Last(a) /\ Len(b) = Len(a) + 1 /\ b[i] = x
         /\ \A k \in 1 .. i - 1 : b[k] = a[k]
         /\ \A k \in i .. Len(a) : b[k + 1] = a[k]
         /\ Used(b) = Used(a) \cup {y \in {x} : y.is # "free"}
         /\ Apart(a) /\ (x.is # "free" \/ (a[i - 1].is # "free" /\ a[i].is # "free")) => Apart(b)
         /\ FreeAts(b) \subseteq FreeAts(a) \cup {y.at : y \in {z \in {x} : z.is = "free"}}
<1>1. Spliced(a, b, i - 1, i, -1) /\ b[i] = x
  BY InsertIs
<1>2. Len(a) \in Nat /\ i \in Nat /\ i >= 3 /\ i <= Len(a) /\ i - 1 >= 2 /\ Last(a) = a[Len(a)]
  BY LaidIs
<1>3. /\ Len(b) = Len(a) - (-1) /\ Len(b) \in Nat
      /\ b[i - (-1)] = a[i] /\ b[i - 1] = a[i - 1] /\ b[Len(b)] = a[Len(a)]
  BY <1>1, <1>2, SplicedIs DEF Spliced
<1>4. i - (-1) = i + 1 /\ Len(b) = Len(a) + 1 /\ (i - 1) + 1 = i
      /\ (i - 1) + 1 .. i - (-1) - 1 = {i} /\ (i - 1) + 1 .. i - 1 = {}
      /\ i - 1 .. i - (-1) - 1 = {i - 1, i}
  BY <1>2, <1>3
<1>5. \A k \in (i - 1) + 1 .. i - (-1) - 1 :
        Quad(b[k].at) /\ (b[k].is = "fixed" => b[k].entry = 0)
  BY <1>1, <1>4
<1>6. \A k \in i - 1 .. i - (-1) - 1 : b[k].at + 12 <= b[k + 1].at
  BY <1>1, <1>3, <1>4
<1>7. Laid(b)
  BY <1>1, <1>2, <1>5, <1>6, SplicedLaid
<1>8. Last(b) = Last(a)
  BY <1>2, <1>3, <1>7, LaidIs
<1>9. Used(b) = Used(a) \cup {y \in {x} : y.is # "free"}
  <2>1. Used(b) = (Used(a) \ {a[k] : k \in (i - 1) + 1 .. i - 1})
                   \cup {y \in {b[k] : k \in (i - 1) + 1 .. i - (-1) - 1} : y.is # "free"}
    BY <1>1, <1>2, SplicedUsed, SMTT(30)
  <2>2. {a[k] : k \in {}} = {} /\ {b[k] : k \in {i}} = {x}
    BY <1>1
  <2> QED BY <1>4, <2>1, <2>2
<1>10. \A m \in 1 .. i - 1 : b[m] = a[m]
  BY <1>1 DEF Spliced
<1>11. ASSUME NEW k \in i .. Len(a) PROVE b[k + 1] = a[k]
  <2>1. b[k - (-1)] = a[k]
    BY <1>1 DEF Spliced
  <2>2. k - (-1) = k + 1
    BY <1>2
  <2> QED BY <2>1, <2>2
<1>12. ASSUME Apart(a), x.is # "free" \/ (a[i - 1].is # "free" /\ a[i].is # "free") PROVE Apart(b)
  <2>1. \A k \in i - 1 .. i - (-1) - 1 : ~ (b[k].is = "free" /\ b[k + 1].is = "free")
    BY <1>1, <1>3, <1>4, <1>12
  <2> QED BY <1>1, <1>2, <1>12, <2>1, SplicedApart
<1>13. FreeAts(b) \subseteq FreeAts(a) \cup {y.at : y \in {z \in {x} : z.is = "free"}}
  <2> DEFINE F == {y.at : y \in {z \in {x} : z.is = "free"}}
  <2>1. \A k \in (i - 1) + 1 .. i - (-1) - 1 : b[k].is = "free" => b[k].at \in F
    BY <1>1, <1>4
  <2> HIDE DEF F
  <2>2. FreeAts(b) \subseteq FreeAts(a) \cup F
    BY <1>1, <1>2, <2>1, SplicedFree
  <2> QED BY <2>2 DEF F
<1> QED BY <1>1, <1>4, <1>7, <1>8, <1>9, <1>10, <1>11, <1>12, <1>13

\* When one is taken out.
LEMMA RemoveKeeps ==
  ASSUME NEW a, Laid(a), NEW i \in 3 .. Len(a) - 1,
         NEW b, b = RemoveAt(a, i)
  PROVE  /\ Laid(b) /\ Last(b) = Last(a) /\ Len(b) = Len(a) - 1
         /\ \A k \in 1 .. i - 1 : b[k] = a[k]
         /\ \A k \in i .. Len(a) - 1 : b[k] = a[k + 1]
         /\ Used(b) = Used(a) \ {a[i]}
         /\ Apart(a) /\ ~ (a[i - 1].is = "free" /\ a[i + 1].is = "free") => Apart(b)
         /\ FreeAts(b) \subseteq FreeAts(a)
<1>1. Spliced(a, b, i - 1, i + 1, 1)
  BY RemoveIs
<1>2. Len(a) \in Nat /\ i \in Nat /\ i >= 3 /\ i + 1 <= Len(a) /\ i - 1 >= 2 /\ Last(a) = a[Len(a)]
      /\ i - 1 \in 1 .. Len(a) - 1
  BY LaidIs
<1>3. /\ Len(b) = Len(a) - 1 /\ Len(b) \in Nat
      /\ b[(i + 1) - 1] = a[i + 1] /\ b[i - 1] = a[i - 1] /\ b[Len(b)] = a[Len(a)]
      /\ \A k \in (i + 1) - 1 .. Len(b) : b[k] = a[k + 1]
  BY <1>1, <1>2, SplicedIs DEF Spliced
<1>4. (i + 1) - 1 = i /\ (i - 1) + 1 = i
      /\ (i - 1) + 1 .. (i + 1) - 1 - 1 = {} /\ (i - 1) + 1 .. (i + 1) - 1 = {i}
      /\ i - 1 .. (i + 1) - 1 - 1 = {i - 1}
  BY <1>2, <1>3
<1>5. \A k \in (i - 1) + 1 .. (i + 1) - 1 - 1 :
        Quad(b[k].at) /\ (b[k].is = "fixed" => b[k].entry = 0)
  BY <1>4
<1>6. \A k \in i - 1 .. (i + 1) - 1 - 1 : b[k].at + 12 <= b[k + 1].at
  <2>1. i - 1 \in 1 .. Len(a) /\ i + 1 \in 1 .. Len(a) /\ i - 1 < i + 1
    BY <1>2
  <2>2. a[i - 1].at + 12 <= a[i + 1].at
    BY <2>1, Rising
  <2> QED BY <1>3, <1>4, <2>2
<1>7. Laid(b)
  BY <1>1, <1>2, <1>5, <1>6, SplicedLaid
<1>8. Last(b) = Last(a)
  BY <1>2, <1>3, <1>7, LaidIs
<1>9. Used(b) = Used(a) \ {a[i]}
  <2>1. Used(b) = (Used(a) \ {a[k] : k \in (i - 1) + 1 .. (i + 1) - 1})
                   \cup {y \in {b[k] : k \in (i - 1) + 1 .. (i + 1) - 1 - 1} : y.is # "free"}
    BY <1>1, <1>2, SplicedUsed
  <2>2. {a[k] : k \in {i}} = {a[i]} /\ {b[k] : k \in {}} = {}
    OBVIOUS
  <2> QED BY <1>4, <2>1, <2>2
<1>10. \A m \in 1 .. i - 1 : b[m] = a[m]
  BY <1>1 DEF Spliced
<1>11. \A k \in i .. Len(a) - 1 : b[k] = a[k + 1]
  BY <1>3, <1>4
<1>12. ASSUME Apart(a), ~ (a[i - 1].is = "free" /\ a[i + 1].is = "free") PROVE Apart(b)
  <2>1. \A k \in i - 1 .. (i + 1) - 1 - 1 : ~ (b[k].is = "free" /\ b[k + 1].is = "free")
    BY <1>3, <1>4, <1>12
  <2> QED BY <1>1, <1>2, <1>12, <2>1, SplicedApart
<1>13. FreeAts(b) \subseteq FreeAts(a)
  <2>1. \A k \in (i - 1) + 1 .. (i + 1) - 1 - 1 : b[k].is = "free" => b[k].at \in {}
    BY <1>4
  <2>2. FreeAts(b) \subseteq FreeAts(a) \cup {}
    BY <1>1, <1>2, <2>1, SplicedFree
  <2> QED BY <2>2
<1> QED BY <1>3, <1>7, <1>8, <1>9, <1>10, <1>11, <1>12, <1>13

\* When a block is freed.
LEMMA FreedKeeps ==
  ASSUME NEW a, Laid(a), NEW i \in 3 .. Len(a) - 1, a[i].is # "free",
         NEW b, b = Freed(a, i)
  PROVE  /\ Laid(b) /\ Last(b) = Last(a)
         /\ Used(b) = Used(a) \ {a[i]}
         /\ Apart(a) => Apart(b)
         /\ FreeAts(b) \subseteq FreeAts(a) \cup {a[i].at}
<1> DEFINE p == Before(a, i)
           q == After(a, i)
           l == (i - 1) - p
           r == (i + 1) + q
           d == p + q
<1>1. /\ Spliced(a, b, l, r, d)
      /\ b[i - p].is = "free" /\ b[i - p].at = a[i - p].at
  BY FreedIs
<1>2. Len(a) \in Nat /\ i \in Nat /\ i >= 3 /\ i + 1 <= Len(a) /\ Last(a) = a[Len(a)]
  BY LaidIs
<1>3. /\ p \in Int /\ p >= 0 /\ p <= 1 /\ q \in Int /\ q >= 0 /\ q <= 1
      /\ i - p \in 3 .. Len(a) - 1 /\ (i + 1) + q \in 4 .. Len(a)
      /\ p = 1 => a[i - 1].is = "free"
      /\ p = 0 => a[i - 1].is # "free"
      /\ q = 1 => a[i + 1].is = "free"
      /\ q = 0 => a[i + 1].is # "free"
  <2>1. /\ p \in {0, 1} /\ q \in {0, 1} /\ i - p \in 3 .. Len(a) - 1 /\ (i + 1) + q \in 4 .. Len(a)
    BY BesideIs
  <2> QED BY <2>1 DEF Before, After
<1> HIDE DEF p, q
<1>4. l >= 2 /\ r <= Len(a) /\ l \in Nat /\ r \in Nat /\ d \in Int /\ l + 1 = i - p
      /\ r - d - 1 = i - p /\ r - d = l + 2 /\ l = (i - p) - 1
  BY <1>2, <1>3
<1> HIDE DEF l, r, d
<1>5. /\ Len(b) \in Nat /\ b[r - d] = a[r] /\ b[l] = a[l] /\ b[Len(b)] = a[Len(a)]
  <2>1. Spliced(a, b, l, r, d) /\ l >= 2 /\ r <= Len(a)
    BY <1>1, <1>4
  <2> QED BY <2>1, SplicedIs
<1>6. l + 1 .. r - d - 1 = {i - p} /\ l .. r - d - 1 = {l, i - p} /\ (i - p) + 1 = r - d
  BY <1>2, <1>3, <1>4
<1>7. i - p \in 1 .. Len(a) /\ l \in 1 .. Len(a) /\ r \in 1 .. Len(a) /\ l < i - p /\ i - p < r
  BY <1>2, <1>3, <1>4 DEF r
<1>8. Laid(b)
  <2>1. Quad(a[i - p].at) /\ a[l].at + 12 <= a[i - p].at /\ a[i - p].at + 12 <= a[r].at
    BY <1>7, Rising DEF Laid
  <2>2. \A k \in l + 1 .. r - d - 1 : Quad(b[k].at) /\ (b[k].is = "fixed" => b[k].entry = 0)
    BY <1>1, <1>6, <2>1
  <2>3. \A k \in l .. r - d - 1 : b[k].at + 12 <= b[k + 1].at
    BY <1>1, <1>4, <1>5, <1>6, <2>1
  <2> QED BY <1>1, <1>4, <2>2, <2>3, SplicedLaid
<1>9. Last(b) = Last(a)
  BY <1>2, <1>5, <1>8, LaidIs
<1>10. Used(b) = Used(a) \ {a[i]}
  <2>1. Used(b) = (Used(a) \ {a[k] : k \in l + 1 .. r - 1})
                   \cup {y \in {b[k] : k \in l + 1 .. r - d - 1} : y.is # "free"}
    BY <1>1, <1>4, SplicedUsed, SMTT(20)
  <2>2. {y \in {b[k] : k \in l + 1 .. r - d - 1} : y.is # "free"} = {}
    BY <1>1, <1>6
  <2>3. ASSUME NEW k \in l + 1 .. r - 1 PROVE k = i \/ a[k].is = "free"
    <3>1. k = i \/ (k = i - 1 /\ p = 1) \/ (k = i + 1 /\ q = 1)
      BY <1>2, <1>3, <1>4 DEF r
    <3> QED BY <1>3, <3>1
  <2>4. i \in l + 1 .. r - 1
    <3>1. p \in Int /\ p >= 0 /\ q \in Int /\ q >= 0 /\ l + 1 = i - p /\ r = (i + 1) + q
      BY <1>3, <1>4 DEF r
    <3> HIDE DEF p, q, l, r
    <3> QED BY <1>2, <3>1
  <2> QED BY <2>1, <2>2, <2>3, <2>4 DEF Used
<1>11. ASSUME Apart(a) PROVE Apart(b)
  <2>1. a[l].is # "free"
    <3>1. CASE p = 0
      BY <1>2, <1>3, <3>1 DEF l
    <3>2. CASE p = 1
      <4>1. i - 2 \in 1 .. Len(a) - 1 /\ (i - 2) + 1 = i - 1 /\ l = i - 2
        BY <1>2, <3>2 DEF l
      <4> QED BY <1>3, <1>11, <3>2, <4>1 DEF Apart
    <3> QED BY <1>3, <3>1, <3>2
  <2>2. a[r].is # "free"
    <3>1. CASE q = 0
      BY <1>2, <1>3, <3>1 DEF r
    <3>2. CASE q = 1
      <4>1. i + 1 \in 1 .. Len(a) - 1 /\ (i + 1) + 1 = r
        BY <1>2, <1>3, <3>2 DEF r
      <4> QED BY <1>3, <1>11, <3>2, <4>1 DEF Apart
    <3> QED BY <1>3, <3>1, <3>2
  <2>3. \A k \in l .. r - d - 1 : ~ (b[k].is = "free" /\ b[k + 1].is = "free")
    BY <1>5, <1>6, <2>1, <2>2
  <2> QED BY <1>1, <1>4, <1>11, <2>3, SplicedApart
<1>12. FreeAts(b) \subseteq FreeAts(a) \cup {a[i].at}
  <2>1. a[i - p].at \in FreeAts(a) \cup {a[i].at}
    <3>1. CASE p = 0
      <4>1. i - p = i
        BY <1>2, <3>1
      <4> QED BY <4>1
    <3>2. CASE p = 1
      <4>1. i - p \in 1 .. Len(a) /\ a[i - p].is = "free"
        BY <1>2, <1>3, <3>2
      <4> QED BY <4>1, FreeAtIs
    <3> QED BY <1>3, <3>1, <3>2
  <2> DEFINE F == FreeAts(a) \cup {a[i].at}
  <2>2. \A k \in l + 1 .. r - d - 1 : b[k].is = "free" => b[k].at \in F
    BY <1>1, <1>6, <2>1
  <2> HIDE DEF F
  <2>3. FreeAts(b) \subseteq FreeAts(a) \cup F
    BY <1>1, <1>4, <2>2, SplicedFree, SMTT(20)
  <2> QED BY <2>3 DEF F
<1> QED BY <1>8, <1>9, <1>10, <1>11, <1>12

\* A block put in a free arena: all of it, its top, its bottom.
LEMMA PutAround ==
  ASSUME NEW a, Laid(a), NEW i \in FreeIn(a)
  PROVE  /\ i \in 3 .. Len(a) - 1 /\ a[i].is = "free" /\ Len(a) \in Nat
         /\ i \in Nat /\ i >= 3 /\ i + 1 <= Len(a)
         /\ a[i - 1].at + 12 <= a[i].at /\ a[i].at + 12 <= a[i + 1].at
         /\ a[i].at \in Nat /\ a[i + 1].at \in Nat /\ a[i - 1].at \in Nat /\ a[i].at >= 12
         /\ Last(a).at \in Nat /\ a[i + 1].at <= Last(a).at /\ Last(a).at <= Highest
         /\ Quad(a[i].at) /\ Quad(a[i + 1].at)
         /\ Span(a, i) = a[i + 1].at - a[i].at
<1>1. i \in 3 .. Len(a) - 1 /\ a[i].is = "free" /\ Len(a) \in Nat /\ Last(a) = a[Len(a)]
      /\ i \in Nat /\ i >= 3 /\ i + 1 <= Len(a) /\ i \in 1 .. Len(a) - 1
  BY LaidIs, FreeAtIs DEF FreeIn
<1>2. i - 1 \in 1 .. Len(a) - 1 /\ (i - 1) + 1 = i
  BY <1>1
<1>3. a[i - 1].at + 12 <= a[i].at /\ a[i].at + 12 <= a[i + 1].at
      /\ a[i].at \in Nat /\ a[i + 1].at \in Nat /\ a[i - 1].at \in Nat
  BY <1>1, <1>2, NextIs
<1>4. i + 1 \in 1 .. Len(a) /\ Len(a) \in 1 .. Len(a) /\ (i + 1 = Len(a) \/ i + 1 < Len(a))
      /\ i \in 1 .. Len(a)
  BY <1>1
<1>5. a[Len(a)].at \in Nat /\ a[Len(a)].at <= Highest /\ a[1].at >= 12
  BY <1>4, LaidIs
<1>6. a[i + 1].at <= a[Len(a)].at
  <2>1. CASE i + 1 < Len(a)
    <3>1. a[i + 1].at + 12 <= a[Len(a)].at
      BY <1>4, <2>1, Rising
    <3> QED BY <1>3, <1>5, <3>1
  <2>2. CASE i + 1 = Len(a)
    BY <1>5, <2>2
  <2> QED BY <1>4, <2>1, <2>2
<1>7. a[i].at >= 12
  <2>1. 1 \in 1 .. Len(a) /\ 1 < i
    BY <1>1
  <2>2. a[1].at + 12 <= a[i].at /\ a[1].at \in Nat
    BY <1>4, <2>1, LaidIs, Rising
  <2> QED BY <1>3, <2>2
<1>8. Quad(a[i].at) /\ Quad(a[i + 1].at)
  BY <1>4 DEF Laid
<1> QED BY <1>1, <1>3, <1>5, <1>6, <1>7, <1>8 DEF Span

\* No arena in use is in it.
LEMMA NoneWithin ==
  ASSUME NEW a, Laid(a), NEW i \in FreeIn(a), NEW at \in Nat,
         a[i].at <= at, at < a[i + 1].at
  PROVE  \A y \in Used(a) : y.at # at
<1> SUFFICES ASSUME NEW y \in Used(a), y.at = at PROVE FALSE
  OBVIOUS
<1>1. PICK k \in 1 .. Len(a) : a[k] = y
  BY FreeAtIs
<1>2. y.is # "free"
  BY DEF Used
<1>3. /\ i \in Nat /\ i >= 3 /\ i + 1 <= Len(a) /\ a[i].is = "free" /\ Len(a) \in Nat
      /\ a[i].at \in Nat /\ a[i + 1].at \in Nat
  BY PutAround
<1>4. a[k].at \in Nat /\ k \in Nat /\ i \in 1 .. Len(a) /\ i + 1 \in 1 .. Len(a) /\ k # i
  BY <1>1, <1>2, <1>3, LaidIs
<1>5. CASE k < i
  <2>1. a[k].at + 12 <= a[i].at
    BY <1>4, <1>5, Rising
  <2> QED BY <1>1, <1>3, <1>4, <2>1
<1>6. CASE k > i + 1
  <2>1. a[i + 1].at + 12 <= a[k].at
    BY <1>4, <1>6, Rising
  <2> QED BY <1>1, <1>3, <1>4, <2>1
<1>7. CASE k = i + 1
  BY <1>1, <1>3, <1>7
<1> QED BY <1>3, <1>4, <1>5, <1>6, <1>7

\* A block given all of a free arena.
LEMMA PutAll ==
  ASSUME NEW a, Laid(a), NEW i \in FreeIn(a), NEW at \in Nat, at = a[i].at,
         NEW b, b = ReplaceAt(a, i, NewArena(at, "fixed", 0))
  PROVE  /\ Laid(b) /\ Last(b) = Last(a)
         /\ Used(b) = Used(a) \cup {NewArena(at, "fixed", 0)}
         /\ Apart(a) => Apart(b)
<1> DEFINE block == NewArena(at, "fixed", 0)
<1>1. /\ i \in 3 .. Len(a) - 1 /\ a[i].is = "free"
      /\ a[i - 1].at + 12 <= at /\ at + 12 <= a[i + 1].at
      /\ a[i + 1].at \in Nat /\ Last(a).at \in Nat /\ a[i + 1].at <= Last(a).at
      /\ Last(a).at <= Highest /\ Quad(at)
  BY PutAround
<1>2. block \in Arena /\ block.at = at /\ block.is = "fixed" /\ block.entry = 0
  <2>1. at <= Highest /\ "fixed" \in Kinds /\ 0 \in Nat
    BY <1>1, HighestIs DEF Kinds
  <2> QED BY <2>1, NewArenaIs, FieldsAre
<1>3. a[i] \notin Used(a)
  BY <1>1 DEF Used
<1> HIDE DEF block
<1>4. a[i - 1].at + 12 <= block.at /\ block.at + 12 <= a[i + 1].at /\ Quad(block.at)
      /\ (block.is = "fixed" => block.entry = 0) /\ b = ReplaceAt(a, i, block)
  BY <1>1, <1>2 DEF block
<1>5. /\ Laid(b) /\ Last(b) = Last(a)
      /\ Used(b) = (Used(a) \ {a[i]}) \cup {y \in {block} : y.is # "free"}
      /\ Apart(a) /\ (block.is # "free" \/ a[i].is = "free") => Apart(b)
  BY <1>1, <1>2, <1>4, ReplaceKeeps
<1>6. Used(b) = Used(a) \cup {block}
  BY <1>2, <1>3, <1>5
<1> QED BY <1>1, <1>5, <1>6 DEF block

\* A block put at the top of a free arena.
LEMMA PutHigh ==
  ASSUME NEW a, Laid(a), NEW i \in FreeIn(a), NEW at \in Nat, Quad(at),
         a[i].at + 12 <= at, at + 12 <= a[i + 1].at,
         NEW b, b = InsertAt(a, i + 1, NewArena(at, "fixed", 0))
  PROVE  /\ Laid(b) /\ Last(b) = Last(a)
         /\ Used(b) = Used(a) \cup {NewArena(at, "fixed", 0)}
         /\ Apart(a) => Apart(b)
<1> DEFINE block == NewArena(at, "fixed", 0)
<1>1. /\ i \in Nat /\ i >= 3 /\ i + 1 <= Len(a) /\ Len(a) \in Nat
      /\ a[i + 1].at \in Nat /\ Last(a).at \in Nat /\ a[i + 1].at <= Last(a).at
      /\ Last(a).at <= Highest
  BY PutAround
<1>2. block \in Arena /\ block.at = at /\ block.is = "fixed" /\ block.entry = 0
  <2>1. at <= Highest /\ "fixed" \in Kinds /\ 0 \in Nat
    BY <1>1, HighestIs DEF Kinds
  <2> QED BY <2>1, NewArenaIs, FieldsAre
<1> HIDE DEF block
<1>3. i + 1 \in 3 .. Len(a) /\ (i + 1) - 1 = i
  BY <1>1
<1>4. a[(i + 1) - 1].at + 12 <= block.at /\ block.at + 12 <= a[i + 1].at /\ Quad(block.at)
      /\ (block.is = "fixed" => block.entry = 0) /\ b = InsertAt(a, i + 1, block)
  BY <1>2, <1>3 DEF block
<1>5. /\ Laid(b) /\ Last(b) = Last(a)
      /\ Used(b) = Used(a) \cup {y \in {block} : y.is # "free"}
      /\ Apart(a) /\ block.is # "free" => Apart(b)
  BY <1>2, <1>3, <1>4, InsertKeeps
<1>6. Used(b) = Used(a) \cup {block}
  BY <1>2, <1>5
<1> QED BY <1>2, <1>5, <1>6 DEF block

\* The row with a block put in a free arena.
Puts(a, at, b) ==
  /\ Laid(b) /\ Last(b) = Last(a)
  /\ Used(b) = Used(a) \cup {NewArena(at, "fixed", 0)}
  /\ Apart(a) => Apart(b)

\* A block put at the bottom of a free arena.
LowPut(a, i, at, rest) ==
  InsertAt(ReplaceAt(a, i, NewArena(at, "fixed", 0)), i + 1, NewArena(rest, "free", 0))

\* One arena replaced and another put in above it.
Fits(a, i, x) ==
  /\ Laid(a) /\ i \in 3 .. Len(a) - 1 /\ x \in Arena /\ Quad(x.at)
  /\ x.is = "fixed" => x.entry = 0
  /\ a[i - 1].at + 12 <= x.at /\ x.at + 12 <= a[i + 1].at

FitsUnder(a, i, x) ==
  /\ Laid(a) /\ i \in 3 .. Len(a) /\ x \in Arena /\ Quad(x.at)
  /\ x.is = "fixed" => x.entry = 0
  /\ a[i - 1].at + 12 <= x.at /\ x.at + 12 <= a[i].at

Replaced(a, i, x, b) ==
  /\ Laid(b) /\ Last(b) = Last(a) /\ Len(b) = Len(a) /\ b[i] = x
  /\ \A k \in 1 .. Len(a) : k # i => b[k] = a[k]
  /\ Used(b) = (Used(a) \ {a[i]}) \cup {y \in {x} : y.is # "free"}
  /\ Apart(a) /\ (x.is # "free" \/ a[i].is = "free") => Apart(b)

Inserted(a, i, x, b) ==
  /\ Laid(b) /\ Last(b) = Last(a)
  /\ Used(b) = Used(a) \cup {y \in {x} : y.is # "free"}
  /\ Apart(a) /\ (x.is # "free" \/ (a[i - 1].is # "free" /\ a[i].is # "free")) => Apart(b)

LEMMA ReplacedIs ==
  ASSUME NEW a, NEW i, NEW x, Fits(a, i, x), NEW b, b = ReplaceAt(a, i, x)
  PROVE  Replaced(a, i, x, b)
<1>1. /\ Laid(a) /\ i \in 3 .. Len(a) - 1 /\ x \in Arena /\ Quad(x.at)
      /\ (x.is = "fixed" => x.entry = 0)
      /\ a[i - 1].at + 12 <= x.at /\ x.at + 12 <= a[i + 1].at
  BY DEF Fits
<1> QED BY <1>1, ReplaceKeeps DEF Replaced

LEMMA InsertedIs ==
  ASSUME NEW a, NEW i, NEW x, FitsUnder(a, i, x), NEW b, b = InsertAt(a, i, x)
  PROVE  Inserted(a, i, x, b)
<1>1. /\ Laid(a) /\ i \in 3 .. Len(a) /\ x \in Arena /\ Quad(x.at)
      /\ (x.is = "fixed" => x.entry = 0)
      /\ a[i - 1].at + 12 <= x.at /\ x.at + 12 <= a[i].at
  BY DEF FitsUnder
<1> QED BY <1>1, InsertKeeps DEF Inserted

LEMMA SplitIs ==
  ASSUME NEW a, NEW i, NEW y, Fits(a, i, y), NEW c, c = ReplaceAt(a, i, y),
         NEW m, m = i + 1, NEW x \in Arena, Quad(x.at), x.is = "fixed" => x.entry = 0,
         y.at + 12 <= x.at, x.at + 12 <= a[m].at, NEW b, b = InsertAt(c, m, x)
  PROVE  Replaced(a, i, y, c) /\ Inserted(c, m, x, b) /\ c[m - 1] = y /\ c[m] = a[m]
<1>1. Replaced(a, i, y, c)
  BY ReplacedIs
<1>2. Laid(a) /\ i \in 3 .. Len(a) - 1
  BY DEF Fits
<1>3. Len(a) \in Nat
  BY <1>2, LaidIs
<1>4. m \in 3 .. Len(a) /\ m \in 1 .. Len(a) /\ m # i /\ m - 1 = i
  BY <1>2, <1>3
<1>5. Laid(c) /\ m \in 3 .. Len(c) /\ c[m] = a[m] /\ c[m - 1] = y
  BY <1>1, <1>4 DEF Replaced
<1>6. FitsUnder(c, m, x)
  BY <1>5 DEF FitsUnder
<1>7. Inserted(c, m, x, b)
  BY <1>6, InsertedIs
<1> QED BY <1>1, <1>5, <1>7

LEMMA LowPutIs ==
  ASSUME NEW a, Laid(a), NEW i \in FreeIn(a), NEW at \in Nat, at = a[i].at,
         NEW rest \in Nat, Quad(rest), at + 12 <= rest, rest + 12 <= a[i + 1].at
  PROVE  Puts(a, at, LowPut(a, i, at, rest))
<1> DEFINE block == NewArena(at, "fixed", 0)
           x == NewArena(rest, "free", 0)
           c == ReplaceAt(a, i, block)
           b == LowPut(a, i, at, rest)
<1>1. /\ i \in 3 .. Len(a) - 1 /\ a[i].is = "free" /\ i \in Nat /\ i >= 3
      /\ i + 1 <= Len(a) /\ Len(a) \in Nat
      /\ a[i - 1].at + 12 <= at /\ at + 12 <= a[i + 1].at
      /\ a[i + 1].at \in Nat /\ Last(a).at \in Nat /\ a[i + 1].at <= Last(a).at
      /\ Last(a).at <= Highest /\ Quad(at)
  BY PutAround
<1>2. block \in Arena /\ block.at = at /\ block.is = "fixed" /\ block.entry = 0
  <2>1. at <= Highest /\ "fixed" \in Kinds /\ 0 \in Nat
    BY <1>1, HighestIs, SMTT(20) DEF Kinds
  <2> QED BY <2>1, NewArenaIs, FieldsAre
<1>3. x \in Arena /\ x.at = rest /\ x.is = "free"
  <2>1. rest <= Highest /\ "free" \in Kinds /\ 0 \in Nat
    BY <1>1, HighestIs, SMTT(20) DEF Kinds
  <2> QED BY <2>1, NewArenaIs, FieldsAre
<1>4. a[i] \notin Used(a)
  BY <1>1 DEF Used
<1>5. b = InsertAt(c, i + 1, x)
  BY DEF LowPut
<1>6. c = ReplaceAt(a, i, block)
  OBVIOUS
<1> HIDE DEF block, x, c, b
<1>7. a[i - 1].at + 12 <= block.at /\ block.at + 12 <= a[i + 1].at /\ Quad(block.at)
      /\ (block.is = "fixed" => block.entry = 0)
  BY <1>1, <1>2
<1> DEFINE m == i + 1
<1>9. m = i + 1
  OBVIOUS
<1> HIDE DEF m
<1>10. /\ block.at + 12 <= x.at /\ x.at + 12 <= a[m].at /\ Quad(x.at)
       /\ (x.is = "fixed" => x.entry = 0) /\ b = InsertAt(c, m, x)
  BY <1>2, <1>3, <1>5, <1>9
<1>11. Replaced(a, i, block, c) /\ Inserted(c, m, x, b) /\ c[m - 1] = block /\ c[m] = a[m]
  <2>1. Fits(a, i, block)
    BY <1>1, <1>2, <1>7 DEF Fits
  <2> QED BY <1>3, <1>6, <1>9, <1>10, <2>1, SplitIs
<1>12. Used(b) = Used(a) \cup {block}
  BY <1>2, <1>3, <1>4, <1>11 DEF Replaced, Inserted
<1>13. Apart(a) => Apart(b)
  <2>1. i \in 1 .. Len(a) - 1
    BY <1>1
  <2>2. Apart(a) => a[i + 1].is # "free"
    BY <1>1, <2>1 DEF Apart
  <2> QED BY <1>1, <1>2, <1>9, <1>11, <2>2 DEF Replaced, Inserted
<1>14. Last(b) = Last(a)
  BY <1>11 DEF Replaced, Inserted
<1>15. Puts(a, at, b)
  BY <1>11, <1>12, <1>13, <1>14 DEF block, Puts, Inserted
<1> QED BY <1>15 DEF b

LEMMA PutLow ==
  ASSUME NEW a, Laid(a), NEW i \in FreeIn(a), NEW at \in Nat, at = a[i].at,
         NEW rest \in Nat, Quad(rest), at + 12 <= rest, rest + 12 <= a[i + 1].at,
         NEW b, b = LowPut(a, i, at, rest)
  PROVE  /\ Laid(b) /\ Last(b) = Last(a)
         /\ Used(b) = Used(a) \cup {NewArena(at, "fixed", 0)}
         /\ Apart(a) => Apart(b)
BY LowPutIs DEF Puts

\* What is left of one, if that is not too little.
LEMMA TooLittleIs ==
  ASSUME NEW left \in Nat, NEW moveable \in BOOLEAN
  PROVE  TooLittle(left, moveable) \in BOOLEAN /\ (~TooLittle(left, moveable) => left >= 16)
<1>1. CASE moveable
  <2>1. TooLittle(left, moveable) <=> left < 16
    BY <1>1 DEF TooLittle
  <2>2. TooLittle(left, moveable) \in BOOLEAN
    BY <1>1 DEF TooLittle
  <2> QED BY <2>1, <2>2
<1>2. CASE ~moveable
  <2>1. TooLittle(left, moveable) <=> left <= 16
    BY <1>2 DEF TooLittle
  <2>2. TooLittle(left, moveable) \in BOOLEAN
    BY <1>2 DEF TooLittle
  <2> QED BY <2>1, <2>2
<1> QED BY <1>1, <1>2

\* A block put in a free arena that has room.
LEMMA PlacedIs ==
  ASSUME NEW a, Laid(a), NEW i \in FreeIn(a), NEW span \in Nat, span >= 12, Quad(span),
         span <= Span(a, i), NEW moveable \in BOOLEAN
  PROVE  LET b == Placed(a, i, span, moveable).a
             at == Placed(a, i, span, moveable).at
         IN /\ Laid(b) /\ Last(b) = Last(a)
            /\ at \in Nat /\ at >= 12 /\ at + 12 <= Last(a).at
            /\ Used(b) = Used(a) \cup {NewArena(at, "fixed", 0)}
            /\ \A y \in Used(a) : y.at # at
            /\ Apart(a) => Apart(b)
<1> DEFINE lo == a[i].at
           hi == a[i + 1].at
           left == Span(a, i) - span
           all == TooLittle(left, moveable)
           at2 == IF moveable /\ ~all THEN lo + left ELSE lo
           block == NewArena(at2, "fixed", 0)
           b2 == IF all THEN ReplaceAt(a, i, block)
                 ELSE IF moveable THEN InsertAt(a, i + 1, block)
                 ELSE InsertAt(ReplaceAt(a, i, block), i + 1, NewArena(at2 + span, "free", 0))
<1>1. Placed(a, i, span, moveable).a = b2 /\ Placed(a, i, span, moveable).at = at2
  BY DEF Placed
<1>2. /\ lo \in Nat /\ hi \in Nat /\ lo + 12 <= hi /\ lo >= 12 /\ Quad(lo) /\ Quad(hi)
      /\ Last(a).at \in Nat /\ hi <= Last(a).at
      /\ Span(a, i) = hi - lo
  BY PutAround
<1> HIDE DEF lo, hi
<1>3. left \in Nat /\ lo + left + span = hi /\ (~all => left >= 16) /\ all \in BOOLEAN
  <2>1. left = (hi - lo) - span /\ span <= hi - lo
    BY <1>2
  <2>2. left \in Nat /\ lo + left + span = hi
    BY <1>2, <2>1
  <2> HIDE DEF left
  <2>3. TooLittle(left, moveable) \in BOOLEAN /\ (~TooLittle(left, moveable) => left >= 16)
    BY <2>2, TooLittleIs
  <2> QED BY <2>2, <2>3
<1> HIDE DEF left, all
<1>4. Quad(lo + left)
  <2>1. lo + left = hi - span /\ Quad(hi - span)
    BY <1>2, <1>3, QuadSum
  <2> QED BY <2>1
<1>5. /\ at2 \in Nat /\ at2 >= lo /\ at2 + span <= hi /\ Quad(at2) /\ Quad(at2 + span)
  <2>1. at2 \in Nat /\ at2 >= lo /\ at2 + span <= hi /\ Quad(at2)
    BY <1>2, <1>3, <1>4
  <2> HIDE DEF at2
  <2> QED BY <2>1, QuadSum
<1>6. \A y \in Used(a) : y.at # at2
  <2>1. a[i].at <= at2 /\ at2 < a[i + 1].at
    BY <1>2, <1>5 DEF lo, hi
  <2> HIDE DEF at2
  <2> QED BY <1>5, <2>1, NoneWithin
<1>7. /\ Laid(b2) /\ Last(b2) = Last(a)
      /\ Used(b2) = Used(a) \cup {block}
      /\ Apart(a) => Apart(b2)
  <2>1. CASE all
    <3>1. at2 = lo /\ b2 = ReplaceAt(a, i, block)
      BY <2>1
    <3>2. at2 = a[i].at
      BY <3>1 DEF lo
    <3> HIDE DEF at2, b2
    <3> QED BY <1>5, <3>1, <3>2, PutAll
  <2>2. CASE ~all /\ moveable
    <3>1. at2 = lo + left /\ b2 = InsertAt(a, i + 1, block)
      BY <2>2
    <3>2. lo + 12 <= at2 /\ at2 + 12 <= hi
      BY <1>2, <1>3, <1>5, <2>2, <3>1
    <3>3. a[i].at + 12 <= at2 /\ at2 + 12 <= a[i + 1].at
      BY <3>2 DEF lo, hi
    <3> HIDE DEF at2, b2
    <3> QED BY <1>5, <3>1, <3>3, PutHigh
  <2>3. CASE ~all /\ ~moveable
    <3>1. at2 = lo /\ b2 = InsertAt(ReplaceAt(a, i, block), i + 1, NewArena(at2 + span, "free", 0))
      BY <2>3
    <3> DEFINE rest == at2 + span
    <3>2. rest \in Nat /\ at2 + 12 <= rest /\ rest + 12 <= hi
      BY <1>2, <1>3, <1>5, <2>3, <3>1
    <3>3. at2 = a[i].at /\ rest + 12 <= a[i + 1].at /\ Quad(rest)
          /\ b2 = InsertAt(ReplaceAt(a, i, block), i + 1, NewArena(rest, "free", 0))
      BY <1>5, <3>1, <3>2 DEF lo, hi
    <3>4. b2 = LowPut(a, i, at2, rest)
      BY <3>3 DEF LowPut
    <3> HIDE DEF at2, b2, rest
    <3> QED BY <1>5, <3>2, <3>3, <3>4, PutLow
  <2> QED BY <1>3, <2>1, <2>2, <2>3
<1>8. at2 >= 12 /\ at2 + 12 <= Last(a).at
  BY <1>2, <1>5
<1> HIDE DEF at2, b2
<1> QED BY <1>1, <1>5, <1>6, <1>7, <1>8

-----------------------------------------------------------------------------
(* Handles.                                                                *)

\* What an entry's type says, and an entry with another place.
LEMMA HandleEntryIs ==
  ASSUME NEW x \in HandleEntry
  PROVE  /\ x.used \in BOOLEAN /\ x.at \in Nat /\ x.at <= Highest
         /\ x.level \in 0 .. 15 /\ x.locks \in Nat /\ x.locks <= CountLimit
<1>1. x.used \in BOOLEAN /\ x.at \in 0 .. Highest /\ x.level \in 0 .. 15 /\ x.locks \in 0 .. CountLimit
  BY DEF HandleEntry
<1>2. CountLimit \in Nat
  BY HeapAssumption
<1> QED BY <1>1, <1>2, UnderHighest

\* A handle that is not used.
LEMMA UnusedIs ==
  /\ Unused \in HandleEntry
  /\ Unused.used = FALSE /\ Unused.at = 0 /\ Unused.level = 0 /\ Unused.locks = 0
<1>1. 0 \in 0 .. Highest
  BY HighestIs, UnderHighest
<1>2. 0 \in 0 .. CountLimit /\ 0 \in 0 .. 15
  BY HeapAssumption
<1> QED BY <1>1, <1>2 DEF Unused, HandleEntry

\* Entries of which one has another place.
Placing(es, fs, e, n) ==
  /\ fs \in Seq(HandleEntry) /\ Len(fs) = Len(es) /\ DOMAIN fs = DOMAIN es
  /\ \A d \in DOMAIN es : d # e => fs[d] = es[d]
  /\ fs[e].at = n /\ fs[e].used = es[e].used /\ fs[e].level = es[e].level
  /\ fs[e].locks = es[e].locks

\* A handle given a place, and no other.
LEMMA PlacingIs ==
  ASSUME NEW es \in Seq(HandleEntry), NEW e \in DOMAIN es, NEW to \in Nat, to + 6 <= Highest
  PROVE  Placing(es, PlaceGiven(es, e, to), e, to + 6)
<1> DEFINE n == to + 6
           x == [es[e] EXCEPT !.at = n]
           fs == PlaceGiven(es, e, to)
<1>1. Len(es) \in Nat /\ DOMAIN es = 1 .. Len(es) /\ es[e] \in HandleEntry
  OBVIOUS
<1>2. n \in 0 .. Highest
  BY UnderHighest
<1>3. fs = [es EXCEPT ![e] = x]
  BY DEF PlaceGiven
<1>4. n = to + 6
  OBVIOUS
<1> HIDE DEF n, fs
<1>5. /\ x \in HandleEntry /\ x.at = n /\ x.used = es[e].used /\ x.level = es[e].level
      /\ x.locks = es[e].locks
  BY <1>1, <1>2 DEF HandleEntry
<1> HIDE DEF x
<1>6. fs \in Seq(HandleEntry) /\ Len(fs) = Len(es) /\ DOMAIN fs = DOMAIN es
      /\ fs[e] = x /\ \A d \in DOMAIN es : d # e => fs[d] = es[d]
  BY <1>1, <1>3, <1>5
<1>7. Placing(es, fs, e, n)
  BY <1>5, <1>6 DEF Placing
<1> QED BY <1>4, <1>7 DEF fs

\* Each handle has its block's place and each block its handle.
Agree(U, es) ==
  /\ \A e \in DOMAIN es : es[e].at # 0 => NewArena(es[e].at - 6, "moveable", e) \in U
  /\ \A x \in U : x.is = "moveable" =>
       x.entry \in DOMAIN es /\ es[x.entry].used /\ es[x.entry].at = x.at + 6

\* A handle's block moved.
LEMMA AgreeMoved ==
  ASSUME NEW U, U \subseteq Arena, NEW es \in Seq(HandleEntry), Agree(U, es),
         NEW x \in U, x.is = "moveable", NEW to \in Nat, to + 6 <= Highest,
         NEW fs, fs = PlaceGiven(es, x.entry, to)
  PROVE  /\ Agree((U \ {x}) \cup {NewArena(to, "moveable", x.entry)}, fs)
         /\ x.entry \in DOMAIN es /\ es[x.entry].used /\ es[x.entry].at # 0
         /\ Placing(es, fs, x.entry, to + 6)
<1> DEFINE e == x.entry
           new == NewArena(to, "moveable", e)
<1>1. e \in DOMAIN es /\ es[e].used /\ es[e].at = x.at + 6 /\ x.at \in Nat
      /\ x = NewArena(x.at, "moveable", e)
  BY ArenaIs DEF Agree
<1>2. new.at = to /\ new.is = "moveable" /\ new.entry = e
  BY FieldsAre
<1> HIDE DEF e
<1>3. fs = PlaceGiven(es, e, to)
  BY DEF e
<1>4. Placing(es, fs, e, to + 6)
  BY <1>1, <1>3, PlacingIs
<1>5. ASSUME NEW d \in DOMAIN fs, fs[d].at # 0
      PROVE  NewArena(fs[d].at - 6, "moveable", d) \in (U \ {x}) \cup {new}
  <2>1. CASE d = e
    <3>1. fs[d].at - 6 = to
      BY <1>4, <2>1 DEF Placing
    <3> QED BY <2>1, <3>1
  <2>2. CASE d # e
    <3>1. fs[d] = es[d] /\ NewArena(es[d].at - 6, "moveable", d) \in U
      BY <1>4, <1>5, <2>2 DEF Agree, Placing
    <3>2. NewArena(es[d].at - 6, "moveable", d).entry = d
      BY FieldsAre
    <3> QED BY <2>2, <3>1, <3>2 DEF e
  <2> QED BY <2>1, <2>2
<1>6. ASSUME NEW y \in (U \ {x}) \cup {new}, y.is = "moveable"
      PROVE  y.entry \in DOMAIN fs /\ fs[y.entry].used /\ fs[y.entry].at = y.at + 6
  <2>1. CASE y = new
    BY <1>1, <1>2, <1>4, <2>1 DEF Placing
  <2>2. CASE y # new
    <3>1. y \in U /\ y # x /\ y.entry \in DOMAIN es /\ es[y.entry].used
          /\ es[y.entry].at = y.at + 6 /\ y.at \in Nat /\ y = NewArena(y.at, "moveable", y.entry)
      BY <1>6, <2>2, ArenaIs DEF Agree
    <3>2. y.entry # e
      <4> SUFFICES ASSUME y.entry = e PROVE FALSE
        OBVIOUS
      <4>1. y.at = x.at
        BY <1>1, <3>1
      <4> QED BY <1>1, <3>1, <4>1
    <3> QED BY <1>4, <3>1, <3>2 DEF Placing
  <2> QED BY <2>1, <2>2
<1> QED BY <1>1, <1>4, <1>5, <1>6 DEF Agree, e

\* A handle's block, if it has one, gone.
LEMMA AgreeDropped ==
  ASSUME NEW U, U \subseteq Arena, NEW es, Agree(U, es), NEW e \in DOMAIN es,
         es[e].at \in Nat, NEW fs, DOMAIN fs = DOMAIN es,
         \A d \in DOMAIN es : d # e => fs[d] = es[d], fs[e].at = 0
  PROVE  Agree(U \ {NewArena(es[e].at - 6, "moveable", e)}, fs)
<1> DEFINE x == NewArena(es[e].at - 6, "moveable", e)
<1>1. x.at = es[e].at - 6 /\ x.entry = e
  BY FieldsAre
<1> HIDE DEF x
<1>2. ASSUME NEW d \in DOMAIN fs, fs[d].at # 0
      PROVE  NewArena(fs[d].at - 6, "moveable", d) \in U \ {x}
  <2>1. d # e /\ fs[d] = es[d] /\ NewArena(es[d].at - 6, "moveable", d) \in U
    BY <1>2 DEF Agree
  <2>2. NewArena(es[d].at - 6, "moveable", d).entry = d
    BY FieldsAre
  <2> QED BY <1>1, <2>1, <2>2
<1>3. ASSUME NEW y \in U \ {x}, y.is = "moveable"
      PROVE  y.entry \in DOMAIN fs /\ fs[y.entry].used /\ fs[y.entry].at = y.at + 6
  <2>1. y.entry \in DOMAIN es /\ es[y.entry].used
        /\ es[y.entry].at = y.at + 6 /\ y.at \in Nat /\ y = NewArena(y.at, "moveable", y.entry)
    BY <1>3, ArenaIs DEF Agree
  <2>2. y.entry # e
    <3> SUFFICES ASSUME y.entry = e PROVE FALSE
      OBVIOUS
    <3>1. y.at = es[e].at - 6
      BY <2>1
    <3> QED BY <2>1, <3>1 DEF x
  <2> QED BY <2>1, <2>2
<1> QED BY <1>2, <1>3 DEF Agree, x

\* A handle that has none given one.
LEMMA AgreeLinked ==
  ASSUME NEW U, U \subseteq Arena, NEW es \in Seq(HandleEntry), Agree(U, es),
         NEW x \in U, x.is # "moveable", NEW e \in DOMAIN es, es[e].used, es[e].at = 0,
         NEW at \in Nat, at + 6 <= Highest, NEW fs, fs = PlaceGiven(es, e, at)
  PROVE  Agree((U \ {x}) \cup {NewArena(at, "moveable", e)}, fs) /\ Placing(es, fs, e, at + 6)
<1> DEFINE new == NewArena(at, "moveable", e)
<1>1. new.at = at /\ new.is = "moveable" /\ new.entry = e
  BY FieldsAre
<1>3. Placing(es, fs, e, at + 6)
  BY PlacingIs
<1>4. ASSUME NEW d \in DOMAIN fs, fs[d].at # 0
      PROVE  NewArena(fs[d].at - 6, "moveable", d) \in (U \ {x}) \cup {new}
  <2>1. CASE d = e
    <3>1. fs[d].at - 6 = at
      <4>1. fs[d].at = at + 6
        BY <1>3, <2>1 DEF Placing
      <4> QED BY <4>1
    <3> QED BY <2>1, <3>1
  <2>2. CASE d # e
    <3>1. fs[d] = es[d] /\ NewArena(es[d].at - 6, "moveable", d) \in U
      BY <1>3, <1>4, <2>2 DEF Agree, Placing
    <3>2. NewArena(es[d].at - 6, "moveable", d).is = "moveable"
      BY FieldsAre
    <3> QED BY <3>1, <3>2
  <2> QED BY <2>1, <2>2
<1>5. ASSUME NEW y \in (U \ {x}) \cup {new}, y.is = "moveable"
      PROVE  y.entry \in DOMAIN fs /\ fs[y.entry].used /\ fs[y.entry].at = y.at + 6
  <2>1. CASE y = new
    BY <1>1, <1>3, <2>1 DEF Placing
  <2>2. CASE y # new
    <3>1. y \in U /\ y.entry \in DOMAIN es /\ es[y.entry].used
          /\ es[y.entry].at = y.at + 6 /\ y.at \in Nat
      BY <1>5, <2>2, ArenaIs DEF Agree
    <3>2. y.entry # e
      BY <3>1
    <3> QED BY <1>3, <3>1, <3>2 DEF Placing
  <2> QED BY <2>1, <2>2
<1> QED BY <1>3, <1>4, <1>5 DEF Agree

\* Other arenas changed; handles given.
LEMMA AgreeOther ==
  ASSUME NEW U, NEW V, NEW es, Agree(U, es),
         \A x : x.is = "moveable" => (x \in U <=> x \in V)
  PROVE  Agree(V, es)
<1>1. \A e : NewArena(es[e].at - 6, "moveable", e).is = "moveable"
  BY FieldsAre
<1> QED BY <1>1 DEF Agree

\* Handles given and new ones, with no place, agree as before.
LEMMA AgreeGiven ==
  ASSUME NEW U, NEW es, Agree(U, es), NEW fs, DOMAIN es \subseteq DOMAIN fs,
         \A d \in DOMAIN es : fs[d].at = es[d].at /\ (es[d].used => fs[d].used),
         \A d \in DOMAIN fs : d \notin DOMAIN es => fs[d].at = 0
  PROVE  Agree(U, fs)
BY DEF Agree

-----------------------------------------------------------------------------
(* Heaps in the middle of a call.                                          *)

HeapOf(a, es, sp, n) == [a |-> a, es |-> es, spare |-> sp, size |-> n]
IsHeap(h) == h = HeapOf(h.a, h.es, h.spare, h.size)

\* What such a record holds.
LEMMA HeapOfIs ==
  ASSUME NEW a, NEW es, NEW sp, NEW n
  PROVE  LET h == HeapOf(a, es, sp, n)
         IN IsHeap(h) /\ h.a = a /\ h.es = es /\ h.spare = sp /\ h.size = n
BY DEF HeapOf, IsHeap

\* Such a record with other fields.
LEMMA ChangedIs ==
  ASSUME NEW h, IsHeap(h), NEW b, NEW fs
  PROVE  /\ [h EXCEPT !.a = b] = HeapOf(b, h.es, h.spare, h.size)
         /\ [h EXCEPT !.es = fs] = HeapOf(h.a, fs, h.spare, h.size)
         /\ [h EXCEPT !.a = b, !.es = fs] = HeapOf(b, fs, h.spare, h.size)
<1> DEFINE a == h.a
           es == h.es
           sp == h.spare
           n == h.size
<1>1. h = HeapOf(a, es, sp, n)
  BY DEF IsHeap
<1>2. [h EXCEPT !.a = b, !.es = fs] = [[h EXCEPT !.a = b] EXCEPT !.es = fs]
  OBVIOUS
<1> HIDE DEF a, es, sp, n
<1>3. [HeapOf(a, es, sp, n) EXCEPT !.a = b] = HeapOf(b, es, sp, n)
  BY DEF HeapOf
<1>4. [HeapOf(a, es, sp, n) EXCEPT !.es = fs] = HeapOf(a, fs, sp, n)
  BY DEF HeapOf
<1>5. [HeapOf(b, es, sp, n) EXCEPT !.es = fs] = HeapOf(b, fs, sp, n)
  BY DEF HeapOf
<1>6. [h EXCEPT !.a = b] = HeapOf(b, es, sp, n) /\ [h EXCEPT !.es = fs] = HeapOf(a, fs, sp, n)
  BY <1>1, <1>3, <1>4
<1>7. [h EXCEPT !.a = b, !.es = fs] = HeapOf(b, fs, sp, n)
  BY <1>2, <1>5, <1>6
<1> QED BY <1>6, <1>7 DEF a, es, sp, n

\* The free handles, and those that are not used.
Spares(es, sp) ==
  /\ sp \in Seq(DOMAIN es) /\ IsInjective(sp)
  /\ ToSet(sp) = {e \in DOMAIN es : ~es[e].used}
Blank(es) == \A e \in DOMAIN es : es[e].used \/ es[e] = Unused

\* The segment's size, and the last arena in it.
Sized(last, n) ==
  /\ n \in Nat /\ n <= Highest + 1 /\ last.at + 10 <= n
  /\ Growable => n % 32 = 0

\* What a heap is at every step.
Good(h) ==
  /\ IsHeap(h) /\ Laid(h.a) /\ Sized(Last(h.a), h.size)
  /\ h.es \in Seq(HandleEntry) /\ Spares(h.es, h.spare) /\ Blank(h.es)
  /\ Agree(Used(h.a), h.es)

\* Handles of which only the places are others.
Alike(es, fs) ==
  /\ fs \in Seq(HandleEntry) /\ Len(fs) = Len(es)
  /\ \A e \in DOMAIN es :
       /\ fs[e].used = es[e].used /\ fs[e].level = es[e].level /\ fs[e].locks = es[e].locks
       /\ es[e].used \/ fs[e] = es[e]

\* Handles that are the same but for their places are as many.
LEMMA AlikeDomain ==
  ASSUME NEW es \in Seq(HandleEntry), NEW fs, Alike(es, fs)
  PROVE  DOMAIN fs = DOMAIN es /\ Len(es) \in Nat /\ DOMAIN es = 1 .. Len(es)
<1>1. fs \in Seq(HandleEntry) /\ Len(fs) = Len(es)
  BY DEF Alike
<1> QED BY <1>1

\* What an entry of a heap is.
LEMMA EntryIs ==
  ASSUME NEW h, Good(h), NEW e \in DOMAIN h.es
  PROVE  /\ h.es[e] \in HandleEntry /\ h.es[e].used \in BOOLEAN /\ h.es[e].at \in Nat
         /\ h.es[e].at <= Highest /\ h.es[e].level \in 0 .. 15
         /\ h.es[e].locks \in Nat /\ h.es[e].locks <= CountLimit
         /\ h.es[e].at # 0 => h.es[e].used
<1>1. h.es[e] \in HandleEntry
  BY DEF Good
<1>2. h.es[e].used \/ h.es[e] = Unused
  BY DEF Good, Blank
<1> QED BY <1>1, <1>2, HandleEntryIs, UnusedIs

\* A heap with other arenas and handles of other places.
LEMMA GoodMoved ==
  ASSUME NEW h, Good(h), NEW b, Laid(b), Last(b) = Last(h.a), NEW fs, Alike(h.es, fs),
         Agree(Used(b), fs)
  PROVE  Good(HeapOf(b, fs, h.spare, h.size))
<1> DEFINE g == HeapOf(b, fs, h.spare, h.size)
<1>1. IsHeap(g) /\ g.a = b /\ g.es = fs /\ g.spare = h.spare /\ g.size = h.size
  BY HeapOfIs
<1> HIDE DEF g
<1>2. /\ Sized(Last(h.a), h.size) /\ h.es \in Seq(HandleEntry) /\ Spares(h.es, h.spare)
      /\ Blank(h.es)
  BY DEF Good
<1>3. DOMAIN fs = DOMAIN h.es
  BY <1>2, AlikeDomain
<1>4. \A e \in DOMAIN h.es : fs[e].used = h.es[e].used /\ (h.es[e].used \/ fs[e] = h.es[e])
  BY DEF Alike
<1>5. Spares(fs, h.spare) /\ Blank(fs)
  BY <1>2, <1>3, <1>4 DEF Spares, Blank
<1>6. fs \in Seq(HandleEntry)
  BY DEF Alike
<1>7. Good(g)
  BY <1>1, <1>2, <1>5, <1>6 DEF Good
<1> QED BY <1>7 DEF g

\* What is neither free nor of a block that may move.
Solid(a) == {x \in Used(a) : x.is # "moveable"}

\* What is not free from an arena's place on, and the free arenas all under that.
From(a, q) == {x \in Used(a) : x.at >= q}
Under(a, q) == \A f \in FreeAts(a) : f < q

\* Handles whose blocks are moved, but not those that are locked.
Shifted(es, fs) ==
  /\ Alike(es, fs)
  /\ \A e \in DOMAIN es :
       (es[e].locks > 0 => fs[e].at = es[e].at) /\ (fs[e].at = 0 <=> es[e].at = 0)

\* A heap of which blocks are moved to free arenas higher up.
Shift(h, g) ==
  /\ Good(g) /\ g.spare = h.spare /\ g.size = h.size
  /\ Last(g.a) = Last(h.a) /\ Solid(g.a) = Solid(h.a)
  /\ Shifted(h.es, g.es)
  /\ Apart(h.a) => Apart(g.a)
  /\ FreeAts(h.a) = {} => g = h
  /\ \A x \in Used(h.a) :
       Under(h.a, x.at) => Under(g.a, x.at) /\ From(g.a, x.at) = From(h.a, x.at)

\* A heap left as it is.
LEMMA ShiftSelf ==
  ASSUME NEW h, Good(h)
  PROVE  Shift(h, h)
BY DEF Shift, Shifted, Alike, Good

\* Handles whose blocks are moved twice.
LEMMA ShiftedTwice ==
  ASSUME NEW es \in Seq(HandleEntry), NEW fs, NEW gs, Shifted(es, fs), Shifted(fs, gs)
  PROVE  Shifted(es, gs)
<1>1. Alike(es, fs) /\ Alike(fs, gs) /\ fs \in Seq(HandleEntry)
  BY DEF Shifted, Alike
<1>2. DOMAIN fs = DOMAIN es
  BY <1>1, AlikeDomain
<1>3. \A e \in DOMAIN es : es[e].used \in BOOLEAN
  BY HandleEntryIs
<1> QED BY <1>1, <1>2, <1>3 DEF Shifted, Alike

\* Blocks moved twice.
LEMMA ShiftTwice ==
  ASSUME NEW h, Good(h), NEW g, NEW k, Shift(h, g), Shift(g, k)
  PROVE  Shift(h, k)
<1>1. Shifted(h.es, k.es)
  BY ShiftedTwice DEF Shift, Good
<1>2. FreeAts(h.a) = {} => k = h
  BY DEF Shift
<1>3. ASSUME NEW x \in Used(h.a), Under(h.a, x.at)
      PROVE  Under(k.a, x.at) /\ From(k.a, x.at) = From(h.a, x.at)
  <2>1. Under(g.a, x.at) /\ From(g.a, x.at) = From(h.a, x.at)
    BY <1>3 DEF Shift
  <2>2. x.at \in Nat
    BY MemberIs DEF Good, Used
  <2>3. x \in Used(g.a)
    BY <2>1, <2>2 DEF From
  <2> QED BY <2>1, <2>3 DEF Shift
<1> QED BY <1>1, <1>2, <1>3 DEF Shift

-----------------------------------------------------------------------------
(* A block moved up to a free arena.                                       *)

\* A row c that is another with a block x put at its free arena i or, s being one, at
\* the top of that.
PutUp(a, i, s, x, c) ==
  /\ s \in Int /\ s >= 0 /\ s <= 1
  /\ Laid(c) /\ Last(c) = Last(a) /\ Len(c) = Len(a) + s /\ c[i + s] = x
  /\ \A m \in 1 .. i - 1 : c[m] = a[m]
  /\ \A m \in i + 1 .. Len(a) : c[m + s] = a[m]
  /\ Used(c) = Used(a) \cup {x}
  /\ Apart(a) => Apart(c)
  /\ FreeAts(c) \subseteq FreeAts(a)

\* A block given all of the free arena.
LEMMA PutUpAll ==
  ASSUME NEW a, Laid(a), NEW i \in FreeIn(a), NEW x \in Arena, Quad(x.at), x.is = "moveable",
         a[i - 1].at + 12 <= x.at, x.at + 12 <= a[i + 1].at
  PROVE  PutUp(a, i, 0, x, ReplaceAt(a, i, x))
<1> DEFINE c == ReplaceAt(a, i, x)
<1>1. /\ i \in Nat /\ i >= 3 /\ i + 1 <= Len(a) /\ Len(a) \in Nat /\ a[i].is = "free"
      /\ i \in 3 .. Len(a) - 1
  BY PutAround
<1>2. (x.is = "fixed" => x.entry = 0) /\ x.is # "free"
  OBVIOUS
<1>3. /\ Laid(c) /\ Last(c) = Last(a) /\ Len(c) = Len(a) /\ c[i] = x
      /\ \A m \in 1 .. Len(a) : m # i => c[m] = a[m]
      /\ Used(c) = (Used(a) \ {a[i]}) \cup {y \in {x} : y.is # "free"}
      /\ Apart(a) /\ (x.is # "free" \/ a[i].is = "free") => Apart(c)
      /\ FreeAts(c) \subseteq FreeAts(a) \cup {y.at : y \in {z \in {x} : z.is = "free"}}
  BY <1>1, <1>2, ReplaceKeeps
<1> HIDE DEF c
<1>4. FreeAts(c) \subseteq FreeAts(a)
  BY <1>2, <1>3
<1>5. Used(c) = Used(a) \cup {x}
  BY <1>1, <1>2, <1>3 DEF Used
<1>6. i + 0 = i /\ Len(a) + 0 = Len(a) /\ \A m \in i + 1 .. Len(a) : m + 0 = m
  BY <1>1
<1>7. \A m \in 1 .. i - 1 : c[m] = a[m]
  BY <1>1, <1>3
<1>8. \A m \in i + 1 .. Len(a) : c[m] = a[m]
  BY <1>1, <1>3
<1>9. PutUp(a, i, 0, x, c)
  BY <1>2, <1>3, <1>4, <1>5, <1>6, <1>7, <1>8 DEF PutUp
<1> QED BY <1>9 DEF c

\* A block put at the top of the free arena.
LEMMA PutUpTop ==
  ASSUME NEW a, Laid(a), NEW i \in FreeIn(a), NEW x \in Arena, Quad(x.at), x.is = "moveable",
         a[i].at + 12 <= x.at, x.at + 12 <= a[i + 1].at
  PROVE  PutUp(a, i, 1, x, InsertAt(a, i + 1, x))
<1> DEFINE n == i + 1
           c == InsertAt(a, n, x)
<1>1. /\ i \in Nat /\ i >= 3 /\ i + 1 <= Len(a) /\ Len(a) \in Nat /\ a[i].is = "free"
  BY PutAround
<1>2. (x.is = "fixed" => x.entry = 0) /\ x.is # "free"
  OBVIOUS
<1>3. n \in 3 .. Len(a) /\ n - 1 = i /\ n = i + 1
  BY <1>1
<1> HIDE DEF n
<1>4. a[n - 1].at + 12 <= x.at /\ x.at + 12 <= a[n].at
  BY <1>3
<1>5. /\ Laid(c) /\ Last(c) = Last(a) /\ Len(c) = Len(a) + 1 /\ c[n] = x
      /\ \A m \in 1 .. n - 1 : c[m] = a[m]
      /\ \A m \in n .. Len(a) : c[m + 1] = a[m]
      /\ Used(c) = Used(a) \cup {y \in {x} : y.is # "free"}
      /\ Apart(a) /\ (x.is # "free" \/ (a[n - 1].is # "free" /\ a[n].is # "free")) => Apart(c)
      /\ FreeAts(c) \subseteq FreeAts(a) \cup {y.at : y \in {z \in {x} : z.is = "free"}}
  BY <1>2, <1>3, <1>4, InsertKeeps
<1> HIDE DEF c
<1>6. FreeAts(c) \subseteq FreeAts(a)
  BY <1>2, <1>5
<1>7. Used(c) = Used(a) \cup {x}
  BY <1>2, <1>5
<1>8. \A m \in 1 .. i - 1 : c[m] = a[m]
  BY <1>1, <1>3, <1>5
<1>9. PutUp(a, i, 1, x, c)
  BY <1>2, <1>3, <1>5, <1>6, <1>7, <1>8 DEF PutUp
<1> QED BY <1>9 DEF c, n

\* Where an arena is after the row below it is shorter by those joined.
LEMMA JoinedPlace ==
  ASSUME NEW i \in Int, NEW j \in Int, NEW s \in Int, NEW p \in Int, NEW q \in Int,
         NEW n \in Int, s >= 0, s <= 1, p >= 0, q >= 0, q <= 1, j - p >= 3, j <= i - 1,
         i + 1 <= n, j + 1 = i + s => q = 0
  PROVE  /\ i + s \in (j + 1) + q .. n + s
         /\ (i + s) - (p + q) \in 3 .. ((n + s) - (p + q)) - 1
OBVIOUS

\* A row b with, besides, arena j of the block freed.
LEMMA RelocatedIs ==
  ASSUME NEW a, Laid(a), NEW i \in FreeIn(a), NEW j \in 3 .. i - 1, a[j].is # "free",
         NEW s, NEW c, NEW x, PutUp(a, i, s, x, c), x.is # "free", x # a[j],
         NEW b, b = Freed(c, j), NEW k, k = Before(c, j) + After(c, j)
  PROVE  /\ Laid(b) /\ Last(b) = Last(a)
         /\ Used(b) = (Used(a) \ {a[j]}) \cup {x}
         /\ Apart(a) => Apart(b)
         /\ FreeAts(b) \subseteq FreeAts(a) \cup {a[j].at}
         /\ k \in Int /\ k >= 0 /\ Len(b) = (Len(a) + s) - k
         /\ (i + s) - k \in 3 .. Len(b) - 1 /\ b[(i + s) - k] = x
         /\ \A m \in i + 1 .. Len(a) : b[(m + s) - k] = a[m]
<1>1. /\ i \in Nat /\ i >= 3 /\ i + 1 <= Len(a) /\ Len(a) \in Nat
  BY PutAround
<1>2. j \in Nat /\ j >= 3 /\ j <= i - 1 /\ j \in 1 .. Len(a)
  BY <1>1
<1> DEFINE t == i + s
<1>3. /\ s \in Int /\ s >= 0 /\ s <= 1
      /\ Laid(c) /\ Last(c) = Last(a) /\ Len(c) = Len(a) + s /\ c[t] = x
      /\ \A m \in 1 .. i - 1 : c[m] = a[m]
      /\ \A m \in i + 1 .. Len(a) : c[m + s] = a[m]
      /\ Used(c) = Used(a) \cup {x}
      /\ Apart(a) => Apart(c)
      /\ FreeAts(c) \subseteq FreeAts(a)
  BY DEF PutUp
<1> DEFINE p == Before(c, j)
           q == After(c, j)
<1>4. j \in 3 .. Len(c) - 1 /\ c[j] = a[j] /\ Len(c) \in Nat
  <2>1. j \in 1 .. i - 1
    BY <1>2
  <2> QED BY <1>1, <1>2, <1>3, <2>1
<1>5. /\ p \in Int /\ p >= 0 /\ p <= 1 /\ q \in Int /\ q >= 0 /\ q <= 1 /\ j - p \in 3 .. Len(c) - 1
      /\ j + 1 = t => q = 0
  <2>1. p \in {0, 1} /\ q \in {0, 1} /\ j - p \in 3 .. Len(c) - 1
    BY <1>3, <1>4, BesideIs
  <2>2. j + 1 = t => q = 0
    BY <1>3 DEF After
  <2> QED BY <2>1, <2>2
<1>6. Spliced(c, b, (j - 1) - p, (j + 1) + q, p + q)
  BY <1>3, <1>4, FreedIs
<1>7. /\ Laid(b) /\ Last(b) = Last(c)
      /\ Used(b) = Used(c) \ {c[j]}
      /\ Apart(c) => Apart(b)
      /\ FreeAts(b) \subseteq FreeAts(c) \cup {c[j].at}
  <2>1. Laid(c) /\ j \in 3 .. Len(c) - 1 /\ c[j].is # "free" /\ b = Freed(c, j)
    BY <1>3, <1>4
  <2> QED BY <2>1, FreedKeeps
<1> HIDE DEF p, q
<1>8. k = p + q
  BY DEF p, q
<1>9. Len(b) = Len(c) - k /\ \A m \in (j + 1) + q .. Len(c) : b[m - k] = c[m]
  BY <1>6, <1>8 DEF Spliced
<1>10. t \in (j + 1) + q .. Len(c) /\ t - k \in 3 .. Len(b) - 1 /\ Len(b) = (Len(a) + s) - k
       /\ k \in Int /\ k >= 0
  <2>1. k \in Int /\ k >= 0
    BY <1>5, <1>8
  <2>2. j - p >= 3 /\ j \in Int /\ i \in Int /\ Len(a) \in Int
    BY <1>1, <1>2, <1>5
  <2>3. j + 1 = i + s => q = 0
    BY <1>5
  <2>4. /\ i + s \in (j + 1) + q .. Len(a) + s
        /\ (i + s) - (p + q) \in 3 .. ((Len(a) + s) - (p + q)) - 1
    BY <1>1, <1>2, <1>3, <1>5, <2>2, <2>3, JoinedPlace
  <2> QED BY <1>3, <1>8, <1>9, <2>1, <2>4
<1>11. b[t - k] = x
  BY <1>3, <1>9, <1>10
<1>12. ASSUME NEW m \in i + 1 .. Len(a) PROVE b[(m + s) - k] = a[m]
  <2> DEFINE n == m + s
  <2>3. c[n] = a[m]
    BY <1>3
  <2>4. n \in Int /\ n >= (i + 1) + s /\ n <= Len(a) + s
    BY <1>1, <1>3
  <2>5. n >= (j + 1) + q /\ (j + 1) + q \in Int
    BY <1>1, <1>2, <1>3, <1>5, <2>4
  <2>1. n \in (j + 1) + q .. Len(c) /\ c[n] = a[m]
    BY <1>3, <2>3, <2>4, <2>5
  <2> HIDE DEF n
  <2>2. b[n - k] = a[m]
    BY <1>9, <2>1
  <2> QED BY <2>2 DEF n
<1>13. Used(b) = (Used(a) \ {a[j]}) \cup {x}
  BY <1>3, <1>4, <1>7
<1> QED BY <1>3, <1>4, <1>7, <1>10, <1>11, <1>12, <1>13

\* What is in use over a free arena is over all of it.
LEMMA OverFree ==
  ASSUME NEW a, Laid(a), NEW i \in FreeIn(a), NEW y \in Used(a), a[i].at < y.at
  PROVE  a[i + 1].at <= y.at
<1>1. PICK n \in 1 .. Len(a) : a[n] = y
  BY FreeAtIs
<1>2. /\ i \in Nat /\ i >= 3 /\ i + 1 <= Len(a) /\ Len(a) \in Nat
      /\ i \in 1 .. Len(a) /\ i + 1 \in 1 .. Len(a)
  BY PutAround
<1>3. i < n
  BY <1>1, <1>2, Further
<1>4. n = i + 1 \/ i + 1 < n
  BY <1>2, <1>3
<1>5. a[i + 1].at \in Nat /\ a[n].at \in Nat
  BY <1>2, LaidIs
<1>6. CASE i + 1 < n
  <2>1. a[i + 1].at + 12 <= a[n].at
    BY <1>2, <1>6, Rising
  <2> QED BY <1>1, <1>5, <2>1
<1>7. CASE n = i + 1
  BY <1>1, <1>5, <1>7
<1> QED BY <1>4, <1>6, <1>7

\* A block at arena j that may be moved put in, or at the top of, the free arena i.
Moving(a, es, i, j, to, s, c) ==
  /\ i \in FreeIn(a) /\ j \in 3 .. i - 1 /\ MayMove(a, es, j)
  /\ to \in Nat /\ a[j].at < to /\ to + 12 <= a[i + 1].at
  /\ PutUp(a, i, s, NewArena(to, "moveable", a[j].entry), c)

\* Where a block is moved from, and to.
LEMMA MovingIs ==
  ASSUME NEW a, Laid(a), NEW es, NEW i, NEW j, NEW to, NEW s, NEW c,
         Moving(a, es, i, j, to, s, c)
  PROVE  /\ i \in FreeIn(a) /\ i \in Nat /\ i + 1 <= Len(a) /\ i \in 1 .. Len(a)
         /\ a[i].is = "free" /\ a[i].at \in Nat /\ a[i + 1].at \in Nat
         /\ a[i].at + 12 <= a[i + 1].at
         /\ j \in 3 .. i - 1 /\ a[j].is = "moveable" /\ es[a[j].entry].locks = 0
         /\ a[j] \in Used(a) /\ Used(a) \subseteq Arena /\ a[j].entry \in Nat
         /\ to \in Nat /\ to + 6 <= Highest /\ to < a[i + 1].at
         /\ a[j].at \in Nat /\ a[j].at < a[i].at /\ a[j].at < to
         /\ FreeAts(a) # {} /\ a[i].at \in FreeAts(a)
<1>1. /\ i \in FreeIn(a) /\ j \in 3 .. i - 1 /\ MayMove(a, es, j)
      /\ to \in Nat /\ a[j].at < to /\ to + 12 <= a[i + 1].at
  BY DEF Moving
<1>2. /\ i \in Nat /\ i >= 3 /\ i + 1 <= Len(a) /\ Len(a) \in Nat
      /\ a[i + 1].at \in Nat /\ a[i + 1].at <= Last(a).at /\ Last(a).at <= Highest
      /\ a[i].at \in Nat /\ Last(a).at \in Nat /\ a[i].at + 12 <= a[i + 1].at
      /\ a[i].is = "free"
  BY <1>1, PutAround
<1>3. j \in 1 .. Len(a) /\ j < i /\ i \in 1 .. Len(a)
  BY <1>1, <1>2
<1>4. a[j].is = "moveable" /\ es[a[j].entry].locks = 0
  BY <1>1 DEF MayMove
<1>5. a[j] \in Used(a)
  BY <1>3, <1>4, FreeAtIs
<1>6. Used(a) \subseteq Arena
  BY MemberIs DEF Used
<1>7. a[j].at \in Nat /\ a[j].entry \in Nat
  BY <1>3, LaidIs
<1>8. a[j].at + 12 <= a[i].at
  BY <1>3, Rising
<1>9. FreeAts(a) # {} /\ a[i].at \in FreeAts(a)
  BY <1>2, <1>3, FreeAtIs
<1>10. Highest \in Nat
  BY HighestIs
<1>11. to < a[i + 1].at /\ to + 6 <= Highest
  <2> DEFINE hi == a[i + 1].at
             top == Last(a).at
  <2>1. hi \in Nat /\ top \in Nat /\ hi <= top /\ top <= Highest /\ to \in Nat /\ to + 12 <= hi
    BY <1>1, <1>2
  <2> HIDE DEF hi, top
  <2>2. to < hi /\ to + 6 <= Highest
    BY <1>10, <2>1
  <2> QED BY <2>2 DEF hi
<1>12. a[j].at < a[i].at
  BY <1>2, <1>7, <1>8
<1> QED BY <1>1, <1>2, <1>3, <1>4, <1>5, <1>6, <1>7, <1>9, <1>11, <1>12

\* What that does to the arenas and the handles.
LEMMA MovedIs ==
  ASSUME NEW a, Laid(a), NEW es \in Seq(HandleEntry), Agree(Used(a), es),
         NEW i, NEW j, NEW to, NEW s, NEW c, Moving(a, es, i, j, to, s, c),
         NEW b, b = Freed(c, j), NEW fs, fs = PlaceGiven(es, a[j].entry, to)
  PROVE  /\ Laid(b) /\ Last(b) = Last(a) /\ Solid(b) = Solid(a) /\ (Apart(a) => Apart(b))
         /\ Shifted(es, fs) /\ Agree(Used(b), fs) /\ FreeAts(a) # {}
         /\ \A y \in Used(a) :
              Under(a, y.at) => Under(b, y.at) /\ From(b, y.at) = From(a, y.at)
<1> DEFINE y == a[j]
           U == Used(a)
           e == y.entry
           x == NewArena(to, "moveable", e)
           k == Before(c, j) + After(c, j)
<1>1. /\ i \in FreeIn(a) /\ j \in 3 .. i - 1 /\ y.is = "moveable" /\ es[e].locks = 0
      /\ y \in U /\ U \subseteq Arena /\ to \in Nat /\ to + 6 <= Highest
      /\ y.at \in Nat /\ y.at < to /\ y.at < a[i].at /\ to < a[i + 1].at
      /\ a[i].at \in Nat /\ a[i + 1].at \in Nat
      /\ FreeAts(a) # {} /\ a[i].at \in FreeAts(a)
  BY MovingIs
<1>2. PutUp(a, i, s, x, c)
  BY DEF Moving
<1>3. x.at = to /\ x.is = "moveable" /\ x.entry = e
  BY FieldsAre
<1>4. fs = PlaceGiven(es, e, to) /\ x = NewArena(to, "moveable", e) /\ e = y.entry
      /\ y = a[j] /\ U = Used(a) /\ k = Before(c, j) + After(c, j)
  OBVIOUS
<1>5. x # y
  BY <1>1, <1>3
<1> HIDE DEF y, U, e, x, k
<1>6. /\ Laid(b) /\ Last(b) = Last(a)
      /\ Used(b) = (Used(a) \ {a[j]}) \cup {x}
      /\ Apart(a) => Apart(b)
      /\ FreeAts(b) \subseteq FreeAts(a) \cup {a[j].at}
  <2>1. /\ x # a[j] /\ x.is # "free" /\ a[j].is # "free"
        /\ i \in FreeIn(a) /\ j \in 3 .. i - 1
    BY <1>1, <1>3, <1>4, <1>5
  <2>2. k = Before(c, j) + After(c, j)
    BY <1>4
  <2> QED BY <1>2, <2>1, <2>2, RelocatedIs
<1>7. /\ Agree((U \ {y}) \cup {x}, fs)
      /\ e \in DOMAIN es /\ es[e].used /\ es[e].at # 0
      /\ Placing(es, fs, e, to + 6)
  <2>1. /\ Agree(U, es) /\ fs = PlaceGiven(es, y.entry, to)
        /\ U \subseteq Arena /\ y \in U /\ y.is = "moveable"
        /\ to \in Nat /\ to + 6 <= Highest
    BY <1>1, <1>4
  <2>2. /\ Agree((U \ {y}) \cup {NewArena(to, "moveable", y.entry)}, fs)
        /\ y.entry \in DOMAIN es /\ es[y.entry].used /\ es[y.entry].at # 0
        /\ Placing(es, fs, y.entry, to + 6)
    BY <2>1, AgreeMoved
  <2> QED BY <1>4, <2>2
<1>8. Shifted(es, fs)
  <2>1. Alike(es, fs)
    BY <1>7 DEF Alike, Placing
  <2>2. to + 6 # 0
    BY <1>1
  <2>3. ASSUME NEW d \in DOMAIN es
        PROVE  (es[d].locks > 0 => fs[d].at = es[d].at) /\ (fs[d].at = 0 <=> es[d].at = 0)
    <3>1. CASE d = e
      BY <1>1, <1>7, <2>2, <3>1 DEF Placing
    <3>2. CASE d # e
      BY <1>7, <3>2 DEF Placing
    <3> QED BY <3>1, <3>2
  <2> QED BY <2>1, <2>3 DEF Shifted
<1>9. Solid(b) = Solid(a)
  BY <1>1, <1>3, <1>4, <1>6 DEF Solid
<1>10. ASSUME NEW z \in Used(a), Under(a, z.at)
       PROVE  Under(b, z.at) /\ From(b, z.at) = From(a, z.at)
  <2>1. a[i].at < z.at
    BY <1>1, <1>10 DEF Under
  <2>2. a[i + 1].at <= z.at /\ z.at \in Nat
    BY <1>1, <2>1, OverFree, MemberIs DEF Used
  <2>3. x.at < z.at /\ y.at < z.at /\ ~ (x.at >= z.at) /\ ~ (y.at >= z.at)
    BY <1>1, <1>3, <2>1, <2>2
  <2>4. Under(b, z.at)
    BY <1>4, <1>6, <1>10, <2>3 DEF Under
  <2>5. From(b, z.at) = From(a, z.at)
    BY <1>4, <1>6, <2>3 DEF From
  <2> QED BY <2>4, <2>5
<1>11. Agree(Used(b), fs)
  BY <1>4, <1>6, <1>7
<1> QED BY <1>1, <1>6, <1>8, <1>9, <1>10, <1>11

\* A block moved is a shift of the heap.
LEMMA MoveShifts ==
  ASSUME NEW h, Good(h), NEW i, NEW j, NEW to, NEW s, NEW c,
         Moving(h.a, h.es, i, j, to, s, c)
  PROVE  Shift(h, HeapOf(Freed(c, j), PlaceGiven(h.es, h.a[j].entry, to), h.spare, h.size))
<1> DEFINE b == Freed(c, j)
           fs == PlaceGiven(h.es, h.a[j].entry, to)
           g == HeapOf(b, fs, h.spare, h.size)
<1>1. Laid(h.a) /\ h.es \in Seq(HandleEntry) /\ Agree(Used(h.a), h.es)
  BY DEF Good
<1>2. b = Freed(c, j) /\ fs = PlaceGiven(h.es, h.a[j].entry, to)
  OBVIOUS
<1>3. g.a = b /\ g.es = fs /\ g.spare = h.spare /\ g.size = h.size
  BY HeapOfIs
<1> HIDE DEF b, fs, g
<1>4. /\ Laid(b) /\ Last(b) = Last(h.a) /\ Solid(b) = Solid(h.a) /\ (Apart(h.a) => Apart(b))
      /\ Shifted(h.es, fs) /\ Agree(Used(b), fs) /\ FreeAts(h.a) # {}
      /\ \A y \in Used(h.a) :
           Under(h.a, y.at) => Under(b, y.at) /\ From(b, y.at) = From(h.a, y.at)
  BY <1>1, <1>2, MovedIs
<1>5. Good(g)
  BY <1>4, GoodMoved DEF g, Shifted
<1> QED BY <1>3, <1>4, <1>5 DEF Shift, g, b, fs

-----------------------------------------------------------------------------
(* The walk of a compaction.                                               *)

WalkOf(h, i, cx, best, still) ==
  [h |-> h, i |-> i, cx |-> cx, best |-> best, still |-> still]
IsWalk(w) == w = WalkOf(w.h, w.i, w.cx, w.best, w.still)

\* What such a record holds.
LEMMA WalkOfIs ==
  ASSUME NEW h, NEW i, NEW cx, NEW best, NEW still
  PROVE  LET w == WalkOf(h, i, cx, best, still)
         IN IsWalk(w) /\ w.h = h /\ w.i = i /\ w.cx = cx /\ w.best = best /\ w.still = still
BY DEF WalkOf, IsWalk

\* A walk with other fields.
LEMMA WalkHeap ==
  ASSUME NEW h, NEW i, NEW cx, NEW best, NEW still, NEW x
  PROVE  [WalkOf(h, i, cx, best, still) EXCEPT !.h = x] = WalkOf(x, i, cx, best, still)
BY DEF WalkOf

\* Such a record with another arena.
LEMMA WalkAt ==
  ASSUME NEW h, NEW i, NEW cx, NEW best, NEW still, NEW x
  PROVE  [WalkOf(h, i, cx, best, still) EXCEPT !.i = x] = WalkOf(h, x, cx, best, still)
BY DEF WalkOf

\* Such a record with another count.
LEMMA WalkCount ==
  ASSUME NEW h, NEW i, NEW cx, NEW best, NEW still, NEW x
  PROVE  [WalkOf(h, i, cx, best, still) EXCEPT !.cx = x] = WalkOf(h, i, x, best, still)
BY DEF WalkOf

\* Such a record with another largest one.
LEMMA WalkBest ==
  ASSUME NEW w, IsWalk(w), NEW x, NEW y
  PROVE  [w EXCEPT !.best = x, !.i = y] = WalkOf(w.h, y, w.cx, x, w.still)
<1> DEFINE h == w.h
           i == w.i
           cx == w.cx
           best == w.best
           still == w.still
           v == WalkOf(h, i, cx, x, still)
           u == WalkOf(h, y, cx, x, still)
<1>0. w = WalkOf(h, i, cx, best, still)
  BY DEF IsWalk
<1> HIDE DEF h, i, cx, best, still
<1>1. [w EXCEPT !.best = x] = v
  BY <1>0 DEF WalkOf
<1>2. [v EXCEPT !.i = y] = u
  BY DEF WalkOf
<1> HIDE DEF v, u
<1>3. [w EXCEPT !.best = x, !.i = y] = [[w EXCEPT !.best = x] EXCEPT !.i = y]
  OBVIOUS
<1>4. [w EXCEPT !.best = x, !.i = y] = u
  BY <1>1, <1>2, <1>3
<1> QED BY <1>4 DEF u, h, cx, still

\* A walk with a heap of other arenas and handles.
LEMMA WalkMoved ==
  ASSUME NEW w, IsWalk(w), IsHeap(w.h), NEW a, NEW es, NEW i
  PROVE  [w EXCEPT !.h.a = a, !.h.es = es, !.i = i]
           = WalkOf(HeapOf(a, es, w.h.spare, w.h.size), i, w.cx, w.best, w.still)
<1> DEFINE a0 == w.h.a
           es0 == w.h.es
           sp == w.h.spare
           n == w.h.size
           i0 == w.i
           c0 == w.cx
           best == w.best
           still == w.still
           h == HeapOf(a0, es0, sp, n)
           g == HeapOf(a, es0, sp, n)
           k == HeapOf(a, es, sp, n)
           v == WalkOf(g, i0, c0, best, still)
           u == WalkOf(k, i0, c0, best, still)
           t == WalkOf(k, i, c0, best, still)
<1>0. w = WalkOf(h, i0, c0, best, still) /\ w.h = h
  BY DEF IsWalk, IsHeap
<1> HIDE DEF a0, es0, sp, n, i0, c0, best, still
<1>1. [w EXCEPT !.h.a = a] = v
  <2>1. [w EXCEPT !.h.a = a] = [w EXCEPT !.h = [w.h EXCEPT !.a = a]]
    OBVIOUS
  <2>3. [h EXCEPT !.a = a] = g
    BY DEF HeapOf
  <2> HIDE DEF h, g
  <2>5. [WalkOf(h, i0, c0, best, still) EXCEPT !.h = g] = v
    BY WalkHeap
  <2> QED BY <1>0, <2>1, <2>3, <2>5
<1>2. [v EXCEPT !.h.es = es] = u
  <2>1. v.h = g
    BY WalkOfIs
  <2>2. [g EXCEPT !.es = es] = k
    BY DEF HeapOf
  <2>3. [v EXCEPT !.h = k] = u
    BY WalkHeap
  <2> HIDE DEF v, g, k
  <2>4. [v EXCEPT !.h.es = es] = [v EXCEPT !.h = [v.h EXCEPT !.es = es]]
    OBVIOUS
  <2> QED BY <2>1, <2>2, <2>3, <2>4
<1>3. [u EXCEPT !.i = i] = t
  BY WalkAt
<1>4. [w EXCEPT !.h.a = a, !.h.es = es, !.i = i]
        = [[[w EXCEPT !.h.a = a] EXCEPT !.h.es = es] EXCEPT !.i = i]
  OBVIOUS
<1> HIDE DEF v, u, t
<1>5. [w EXCEPT !.h.a = a, !.h.es = es, !.i = i] = t
  BY <1>1, <1>2, <1>3, <1>4
<1> QED BY <1>5 DEF t, k, sp, n, c0, best, still

\* Such a record with other blocks, as fit leaves it.
LEMMA WalkMovedOn ==
  ASSUME NEW w, IsWalk(w), IsHeap(w.h), NEW a, NEW es, NEW i, NEW cx
  PROVE  [w EXCEPT !.h.a = a, !.h.es = es, !.i = i, !.cx = cx]
           = WalkOf(HeapOf(a, es, w.h.spare, w.h.size), i, cx, w.best, w.still)
<1> DEFINE k == HeapOf(a, es, w.h.spare, w.h.size)
           best == w.best
           still == w.still
           c0 == w.cx
           t == WalkOf(k, i, c0, best, still)
           u == WalkOf(k, i, cx, best, still)
<1>1. [w EXCEPT !.h.a = a, !.h.es = es, !.i = i] = t
  BY WalkMoved
<1> HIDE DEF k, best, still, c0
<1>2. [t EXCEPT !.cx = cx] = u
  BY WalkCount
<1> HIDE DEF t, u
<1>3. [w EXCEPT !.h.a = a, !.h.es = es, !.i = i, !.cx = cx]
        = [[w EXCEPT !.h.a = a, !.h.es = es, !.i = i] EXCEPT !.cx = cx]
  OBVIOUS
<1>4. [w EXCEPT !.h.a = a, !.h.es = es, !.i = i, !.cx = cx] = u
  BY <1>1, <1>2, <1>3
<1> QED BY <1>4 DEF u, k, best, still

\* Of the free arenas behind the walk, those after arena i, the largest.
BestLeft(a, i, best) ==
  /\ best = 0 => \A f \in FreeIn(a) : f <= i
  /\ best # 0 => \E m \in FreeIn(a) :
       m > i /\ a[m].at = best /\ \A f \in FreeIn(a) : f > i => Span(a, f) <= Span(a, m)

\* None of them has a block below it that may be moved.
NoneBelow(a, es, i) == \A f \in FreeIn(a) : f > i => ~MayMove(a, es, f - 1)

\* A row that from an arena on is as another, that from n on, with none free between.
Behind(a, n, b, i, d) ==
  /\ n \in Nat /\ n >= 3 /\ i \in Nat /\ d \in Int /\ i < n - d /\ n <= Len(a) /\ Len(b) = Len(a) - d
  /\ \A m \in n .. Len(a) : b[m - d] = a[m]
  /\ \A f \in i + 1 .. (n - d) - 1 : b[f].is # "free"

\* The free ones among those are the same, and as large.
LEMMA BehindIs ==
  ASSUME NEW a, Laid(a), NEW n, NEW b, Laid(b), NEW i, NEW d, Behind(a, n, b, i, d)
  PROVE  /\ \A m \in FreeIn(a) : m >= n =>
              /\ m - d \in FreeIn(b) /\ m - d > i /\ b[m - d] = a[m]
              /\ Span(b, m - d) = Span(a, m)
         /\ \A f \in FreeIn(b) : f > i =>
              \E m \in FreeIn(a) : m >= n /\ f = m - d
<1>1. Len(a) \in Nat /\ Len(b) \in Nat
  BY LaidIs
<1>2. /\ n \in Nat /\ i \in Nat /\ d \in Int /\ i < n - d /\ n <= Len(a) /\ Len(b) = Len(a) - d
      /\ \A m \in n .. Len(a) : b[m - d] = a[m]
      /\ \A f \in i + 1 .. (n - d) - 1 : b[f].is # "free"
  BY DEF Behind
<1>3. ASSUME NEW m \in FreeIn(a), m >= n
      PROVE  /\ m - d \in FreeIn(b) /\ m - d > i /\ b[m - d] = a[m]
             /\ Span(b, m - d) = Span(a, m)
  <2>1. m \in 1 .. Len(a) - 1 /\ a[m].is = "free"
    BY DEF FreeIn
  <2>2. m \in n .. Len(a) /\ m + 1 \in n .. Len(a)
    BY <1>1, <1>2, <1>3, <2>1
  <2>3. b[m - d] = a[m] /\ b[(m + 1) - d] = a[m + 1]
    BY <1>2, <2>2
  <2>4. m - d \in 1 .. Len(b) - 1 /\ m - d > i /\ (m + 1) - d = (m - d) + 1
    BY <1>1, <1>2, <1>3, <2>1
  <2> QED BY <2>1, <2>3, <2>4 DEF FreeIn, Span
<1>4. ASSUME NEW f \in FreeIn(b), f > i
      PROVE  \E m \in FreeIn(a) : m >= n /\ f = m - d
  <2>1. f \in 1 .. Len(b) - 1 /\ b[f].is = "free"
    BY DEF FreeIn
  <2>2. f >= n - d
    BY <1>1, <1>2, <1>4, <2>1
  <2> DEFINE m == f + d
  <2>5. n \in Nat /\ d \in Int /\ f \in Int /\ Len(b) = Len(a) - d /\ f <= Len(b) - 1 /\ n >= 3
    BY <1>1, <1>2, <2>1 DEF Behind
  <2>3. m \in n .. Len(a) /\ m \in 1 .. Len(a) - 1 /\ m - d = f /\ m >= n
    BY <1>1, <2>2, <2>5
  <2> HIDE DEF m
  <2>4. a[m].is = "free"
    BY <1>2, <2>1, <2>3
  <2> QED BY <2>3, <2>4 DEF FreeIn
<1> QED BY <1>3, <1>4

\* The largest one left behind stays it.
LEMMA BehindBest ==
  ASSUME NEW a, Laid(a), NEW n, NEW b, Laid(b), NEW i, NEW d, Behind(a, n, b, i, d),
         NEW best, BestLeft(a, n - 1, best)
  PROVE  BestLeft(b, i, best)
<1>1. n \in Nat /\ i \in Nat /\ d \in Int
  BY DEF Behind
<1>2. FreeIn(a) \subseteq Nat /\ FreeIn(b) \subseteq Nat
  BY DEF FreeIn
<1>3. \A m \in FreeIn(a) : m > n - 1 <=> m >= n
  BY <1>1, <1>2
<1>6. /\ \A m \in FreeIn(a) : m >= n =>
           /\ m - d \in FreeIn(b) /\ m - d > i /\ b[m - d] = a[m]
           /\ Span(b, m - d) = Span(a, m)
      /\ \A f \in FreeIn(b) : f > i =>
           \E m \in FreeIn(a) : m >= n /\ f = m - d
  BY BehindIs
<1>4. CASE best = 0
  <2>1. \A m \in FreeIn(a) : m <= n - 1
    BY <1>4 DEF BestLeft
  <2>2. \A m \in FreeIn(a) : ~ (m >= n)
    BY <1>1, <1>2, <2>1
  <2>3. \A f \in FreeIn(b) : ~ (f > i)
    BY <1>6, <2>2
  <2>4. \A f \in FreeIn(b) : f <= i
    BY <1>1, <1>2, <2>3
  <2> QED BY <1>4, <2>4 DEF BestLeft
<1>5. CASE best # 0
  <2>1. PICK m \in FreeIn(a) : /\ m > n - 1 /\ a[m].at = best
                               /\ \A f \in FreeIn(a) : f > n - 1 => Span(a, f) <= Span(a, m)
    BY <1>5 DEF BestLeft
  <2>2. m - d \in FreeIn(b) /\ m - d > i /\ b[m - d] = a[m] /\ Span(b, m - d) = Span(a, m)
    BY <1>3, <1>6, <2>1
  <2>3. ASSUME NEW f \in FreeIn(b), f > i PROVE Span(b, f) <= Span(b, m - d)
    <3>1. PICK o \in FreeIn(a) : o >= n /\ f = o - d
      BY <1>6, <2>3
    <3>2. Span(b, f) = Span(a, o)
      BY <1>6, <3>1
    <3>3. Span(a, o) <= Span(a, m)
      BY <1>3, <2>1, <3>1
    <3> QED BY <2>2, <3>2, <3>3
  <2> QED BY <1>5, <2>1, <2>2, <2>3 DEF BestLeft
<1> QED BY <1>4, <1>5

\* If none is free but where it was, no block below a free one that may be moved is new.
LEMMA BehindBelow ==
  ASSUME NEW a, Laid(a), NEW n, NEW b, Laid(b), NEW i, NEW d, Behind(a, n, b, i, d),
         NEW es \in Seq(HandleEntry), NEW fs, Alike(es, fs), Agree(Used(a), es),
         a[n].is # "free", NoneBelow(a, es, n - 1)
  PROVE  NoneBelow(b, fs, i)
<1> SUFFICES ASSUME NEW f \in FreeIn(b), f > i, MayMove(b, fs, f - 1) PROVE FALSE
  BY DEF NoneBelow
<1>1. PICK m \in FreeIn(a) : m >= n /\ f = m - d
  BY BehindIs
<1>2. n \in Nat /\ n >= 3 /\ d \in Int /\ i \in Nat /\ \A o \in n .. Len(a) : b[o - d] = a[o]
  BY DEF Behind
<1>3. m \in 1 .. Len(a) - 1 /\ a[m].is = "free" /\ Len(a) \in Nat
  BY LaidIs DEF FreeIn
<1>4. m # n
  BY <1>3
<1>5. m - 1 \in n .. Len(a) /\ f - 1 = (m - 1) - d /\ m > n - 1 /\ m - 1 \in 1 .. Len(a)
  BY <1>1, <1>2, <1>3, <1>4, SMTT(20)
<1>6. b[f - 1] = a[m - 1]
  BY <1>2, <1>5
<1> DEFINE x == a[m - 1]
<1>7. x.is = "moveable" /\ fs[x.entry].locks = 0
  BY <1>6 DEF MayMove
<1>8. x \in Used(a)
  BY <1>5, <1>7, FreeAtIs
<1>9. x.entry \in DOMAIN es
  BY <1>7, <1>8 DEF Agree
<1>10. es[x.entry].locks = 0
  BY <1>7, <1>9 DEF Alike
<1>11. MayMove(a, es, m - 1)
  BY <1>7, <1>10 DEF MayMove
<1> QED BY <1>5, <1>11 DEF NoneBelow

-----------------------------------------------------------------------------
(* A block moved in a walk.                                                *)

\* How far the walk has to go, in bytes: none of its steps is of fewer than six.
Ahead(a, i) ==
  IF i = Len(a) THEN Last(a).at + 12
  ELSE IF a[i].is = "free" THEN a[i + 1].at + 6 ELSE a[i + 1].at

\* How many arenas a freed one joins; where the walk goes on once a block is moved: below
\* the block, or at it.
Joins(c, j) == Before(c, j) + After(c, j)
GoesOn(i, s, k, i2) == i2 = ((i + s) - k) - 1 \/ i2 = (i + s) - k

\* Where the arenas over a moved block come.
LEMMA Places ==
  ASSUME NEW i \in Int, NEW s \in Int, NEW k \in Int, NEW n \in Int, i >= 3, i + 1 <= n
  PROVE  /\ i + 1 \in Nat /\ i + 1 >= 3 /\ k - s \in Int /\ i + 1 \in i + 1 .. n
         /\ (i + 1) - (k - s) = ((i + s) - k) + 1 /\ ((i + 1) + s) - k = ((i + s) - k) + 1
         /\ (n + s) - k = n - (k - s)
         /\ \A m \in i + 1 .. n : m - (k - s) = (m + s) - k
OBVIOUS

\* What a walk left behind is so still when a block is moved.
LEMMA MovedAhead ==
  ASSUME NEW a, Laid(a), NEW es \in Seq(HandleEntry), Agree(Used(a), es),
         NEW i, NEW j, NEW to, NEW s, NEW c, Moving(a, es, i, j, to, s, c),
         NEW b, b = Freed(c, j), NEW k, k = Joins(c, j),
         NEW fs, Alike(es, fs), NEW i2, GoesOn(i, s, k, i2),
         NEW best, BestLeft(a, i, best)
  PROVE  /\ i2 \in 1 .. Len(b) /\ BestLeft(b, i2, best)
         /\ Apart(a) /\ NoneBelow(a, es, i) => NoneBelow(b, fs, i2)
         /\ Ahead(b, i2) + 6 <= Ahead(a, i)
         /\ k \in Int /\ Len(c) = Len(a) + s /\ Len(b) = (Len(a) + s) - k /\ s \in Int
         /\ IndexOf(b, to) = (i + s) - k
<1> DEFINE e == a[j].entry
           x == NewArena(to, "moveable", e)
           p == (i + s) - k
<1>1. /\ i \in FreeIn(a) /\ i \in Nat /\ i + 1 <= Len(a) /\ a[i].is = "free"
      /\ a[i + 1].at \in Nat /\ j \in 3 .. i - 1 /\ a[j].is = "moveable"
      /\ to \in Nat /\ a[j].at < to /\ a[j].at \in Nat /\ Len(a) \in Nat
  BY MovingIs, LaidIs
<1>2. PutUp(a, i, s, x, c) /\ to + 12 <= a[i + 1].at
  BY DEF Moving
<1>3. x.at = to /\ x.is = "moveable"
  BY FieldsAre
<1>4. x # a[j]
  BY <1>1, <1>3
<1> HIDE DEF e, x
<1>5. /\ Laid(b) /\ k \in Int /\ k >= 0 /\ Len(b) = (Len(a) + s) - k
      /\ p \in 3 .. Len(b) - 1 /\ b[p] = x
      /\ \A m \in i + 1 .. Len(a) : b[(m + s) - k] = a[m]
  <2>1. x # a[j] /\ x.is # "free" /\ a[j].is # "free" /\ i \in FreeIn(a) /\ j \in 3 .. i - 1
    BY <1>1, <1>3, <1>4
  <2>2. k = Before(c, j) + After(c, j) /\ p = (i + s) - k
    BY DEF Joins
  <2> HIDE DEF p
  <2> QED BY <1>2, <2>1, <2>2, RelocatedIs, SMTT(20)
<1>6. s \in Int /\ s >= 0 /\ Len(c) = Len(a) + s
  BY <1>2 DEF PutUp
<1>7. p = (i + s) - k /\ (i2 = p - 1 \/ i2 = p)
  BY DEF GoesOn
<1> HIDE DEF p
<1>8. p \in Nat /\ p >= 3 /\ p <= Len(b) - 1 /\ Len(b) \in Nat
  BY <1>5, LaidIs
<1>9. i2 \in 1 .. Len(b) /\ i2 \in Nat /\ i2 # Len(b) /\ i2 <= p
  BY <1>7, <1>8
<1> DEFINE n == i + 1
           d == k - s
<1>17. /\ i + 1 \in Nat /\ i + 1 >= 3 /\ k - s \in Int /\ i + 1 \in i + 1 .. Len(a)
       /\ (i + 1) - (k - s) = ((i + s) - k) + 1 /\ ((i + 1) + s) - k = ((i + s) - k) + 1
       /\ (Len(a) + s) - k = Len(a) - (k - s)
       /\ \A m \in i + 1 .. Len(a) : m - (k - s) = (m + s) - k
  <2> DEFINE la == Len(a)
  <2>1. i >= 3
    BY <1>1, PutAround
  <2>2. i \in Int /\ s \in Int /\ k \in Int /\ la \in Int /\ i >= 3 /\ i + 1 <= la
    BY <1>1, <1>5, <1>6, <2>1
  <2> HIDE DEF la
  <2>3. /\ i + 1 \in Nat /\ i + 1 >= 3 /\ k - s \in Int /\ i + 1 \in i + 1 .. la
        /\ (i + 1) - (k - s) = ((i + s) - k) + 1 /\ ((i + 1) + s) - k = ((i + s) - k) + 1
        /\ (la + s) - k = la - (k - s)
        /\ \A m \in i + 1 .. la : m - (k - s) = (m + s) - k
    BY <2>2, Places
  <2> QED BY <2>3 DEF la
<1>10. Behind(a, n, b, i2, d)
  <2>1. n \in Nat /\ n >= 3 /\ d \in Int /\ n - d = p + 1 /\ n <= Len(a) /\ Len(b) = Len(a) - d
    BY <1>1, <1>5, <1>7, <1>17
  <2>2. i2 \in Nat /\ i2 < n - d
    BY <1>8, <1>9, <2>1
  <2>3. ASSUME NEW m \in n .. Len(a) PROVE b[m - d] = a[m]
    <3>1. m \in i + 1 .. Len(a) /\ m - d = (m + s) - k
      BY <1>17
    <3> QED BY <1>5, <3>1
  <2>4. ASSUME NEW f \in i2 + 1 .. (n - d) - 1 PROVE b[f].is # "free"
    <3>1. f = p
      BY <1>7, <1>8, <1>9, <2>1, SMTT(20)
    <3> QED BY <1>3, <1>5, <3>1
  <2> HIDE DEF n, d
  <2> QED BY <2>1, <2>2, <2>3, <2>4 DEF Behind
<1>11. n - 1 = i /\ n = i + 1 /\ n \in 1 .. Len(a)
  BY <1>1
<1>12. b[p + 1] = a[i + 1]
  <2>1. i + 1 \in i + 1 .. Len(a) /\ ((i + 1) + s) - k = p + 1
    BY <1>7, <1>17
  <2> QED BY <1>5, <2>1
<1> HIDE DEF n, d
<1>13. BestLeft(b, i2, best)
  <2>1. BestLeft(a, n - 1, best)
    BY <1>11
  <2> QED BY <1>5, <1>10, <2>1, BehindBest
<1>14. ASSUME Apart(a), NoneBelow(a, es, i) PROVE NoneBelow(b, fs, i2)
  <2>1. a[n].is # "free"
    <3>1. i \in 1 .. Len(a) - 1
      BY <1>1 DEF FreeIn
    <3> QED BY <1>1, <1>11, <1>14, <3>1 DEF Apart
  <2>2. NoneBelow(a, es, n - 1)
    BY <1>11, <1>14
  <2> QED BY <1>5, <1>10, <2>1, <2>2, BehindBelow
<1>15. Ahead(b, i2) + 6 <= Ahead(a, i)
  <2> DEFINE hi == a[i + 1].at
  <2>1. Ahead(a, i) = hi + 6 /\ hi \in Nat /\ to + 12 <= hi
    <3>1. i # Len(a)
      BY <1>1
    <3> QED BY <1>1, <1>2, <3>1 DEF Ahead
  <2>2. CASE i2 = p
    <3>1. b[i2].is # "free" /\ b[i2 + 1].at = hi
      BY <1>3, <1>5, <1>12, <2>2
    <3>2. Ahead(b, i2) = hi
      BY <1>9, <3>1 DEF Ahead
    <3> HIDE DEF hi
    <3> QED BY <2>1, <3>2
  <2>3. CASE i2 = p - 1
    <3>1. i2 + 1 = p
      BY <1>8, <2>3
    <3>2. b[i2 + 1].at = to
      BY <1>3, <1>5, <3>1
    <3>3. Ahead(b, i2) = to \/ Ahead(b, i2) = to + 6
      BY <1>9, <3>2 DEF Ahead
    <3> HIDE DEF hi
    <3> QED BY <1>1, <2>1, <3>3
  <2> QED BY <1>7, <2>2, <2>3
<1>16. IndexOf(b, to) = p
  <2>1. p \in 1 .. Len(b) /\ b[p].at = to
    BY <1>3, <1>5, <1>8
  <2> QED BY <1>5, <2>1, IndexIs
<1> QED BY <1>5, <1>6, <1>7, <1>9, <1>13, <1>14, <1>15, <1>16

\* The record that a slide makes.
LEMMA SlideIs ==
  ASSUME NEW w, IsWalk(w), IsHeap(w.h), NEW a, a = w.h.a, NEW i, i = w.i
  PROVE  LET e == a[i - 1].entry
             to == a[i + 1].at - Span(a, i - 1)
             slid == [a EXCEPT ![i - 1] = NewArena(@.at, "free", 0), ![i] = NewArena(to, "moveable", e)]
         IN Slide(w) = WalkOf(HeapOf(JoinedBefore(slid, i - 1), PlaceGiven(w.h.es, e, to),
                                     w.h.spare, w.h.size), i - 1, w.cx, w.best, w.still)
<1> DEFINE e == a[i - 1].entry
           to == a[i + 1].at - Span(a, i - 1)
           slid == [a EXCEPT ![i - 1] = NewArena(@.at, "free", 0), ![i] = NewArena(to, "moveable", e)]
           b == JoinedBefore(slid, i - 1)
           fs == PlaceGiven(w.h.es, e, to)
<1>1. Slide(w) = [w EXCEPT !.h.a = b, !.h.es = fs, !.i = i - 1]
  BY DEF Slide, HandleSlid
<1> HIDE DEF b, fs
<1>2. Slide(w) = WalkOf(HeapOf(b, fs, w.h.spare, w.h.size), i - 1, w.cx, w.best, w.still)
  BY <1>1, WalkMoved
<1> QED BY <1>2 DEF b, fs

\* A block that may be moved is of no arena of KERNEL's.
LEMMA MoverIs ==
  ASSUME NEW a, Laid(a), NEW es, NEW i \in FreeIn(a), NEW j \in 1 .. i, MayMove(a, es, j)
  PROVE  /\ j \in 3 .. i - 1 /\ a[j].is = "moveable" /\ j \in 1 .. Len(a) - 1
         /\ a[j].at \in Nat /\ a[j + 1].at \in Nat /\ a[j].at + 12 <= a[j + 1].at
         /\ Span(a, j) = a[j + 1].at - a[j].at
         /\ a[j].at + 12 <= a[i].at /\ Quad(a[j].at) /\ Quad(a[j + 1].at)
         /\ a[j].entry \in Nat
<1>1. i \in Nat /\ i >= 3 /\ i + 1 <= Len(a) /\ Len(a) \in Nat /\ a[i].is = "free"
  BY PutAround
<1>2. a[j].is = "moveable"
  BY DEF MayMove
<1>3. j # 1 /\ j # 2 /\ j # i
  BY <1>1, <1>2, LaidIs
<1>4. j \in 3 .. i - 1 /\ j \in 1 .. Len(a) - 1 /\ j \in 1 .. Len(a) /\ j < i /\ i \in 1 .. Len(a)
      /\ j + 1 \in 1 .. Len(a)
  BY <1>1, <1>3
<1>5. Quad(a[j].at) /\ Quad(a[j + 1].at)
  BY <1>4 DEF Laid
<1>6. a[j].at + 12 <= a[i].at
  BY <1>4, Rising
<1>7. a[j].entry \in Nat
  BY <1>4, LaidIs
<1> QED BY <1>2, <1>4, <1>5, <1>6, <1>7, NextIs DEF Span

\* A slide is such a move, to all of the free arena and what is left of its own.
LEMMA SlideMoves ==
  ASSUME NEW a, Laid(a), NEW es, NEW i \in FreeIn(a), MayMove(a, es, i - 1)
  PROVE  LET to == a[i + 1].at - Span(a, i - 1)
             c == ReplaceAt(a, i, NewArena(to, "moveable", a[i - 1].entry))
             slid == [a EXCEPT ![i - 1] = NewArena(@.at, "free", 0),
                               ![i] = NewArena(to, "moveable", a[i - 1].entry)]
         IN /\ Moving(a, es, i, i - 1, to, 0, c)
            /\ JoinedBefore(slid, i - 1) = Freed(c, i - 1)
            /\ GoesOn(i, 0, Joins(c, i - 1), i - 1)
<1> DEFINE j == i - 1
           e == a[j].entry
           to == a[i + 1].at - Span(a, j)
           x == NewArena(to, "moveable", e)
           c == ReplaceAt(a, i, x)
           y == NewArena(a[j].at, "free", 0)
           slid == [a EXCEPT ![j] = y, ![i] = x]
<1>1. /\ i \in Nat /\ i >= 3 /\ i + 1 <= Len(a) /\ Len(a) \in Nat
      /\ a[i].at + 12 <= a[i + 1].at /\ a[i].at \in Nat /\ a[i + 1].at \in Nat
      /\ Quad(a[i].at) /\ Quad(a[i + 1].at)
      /\ a[i + 1].at <= Last(a).at /\ Last(a).at <= Highest /\ Last(a).at \in Nat
  BY PutAround
<1>2. j \in 1 .. i /\ j = i - 1 /\ j + 1 = i /\ MayMove(a, es, j) /\ j \in 1 .. Len(a) /\ i \in 1 .. Len(a)
  BY <1>1
<1> HIDE DEF j
<1>3. /\ j \in 3 .. i - 1 /\ a[j].is = "moveable" /\ a[j].at \in Nat /\ a[j].entry \in Nat
      /\ a[j].at + 12 <= a[i].at /\ Span(a, j) = a[i].at - a[j].at /\ Quad(a[j].at)
  BY <1>2, MoverIs
<1> DEFINE lo == a[j].at
           mid == a[i].at
           hi == a[i + 1].at
<1>4. /\ to \in Nat /\ lo < to /\ lo + 12 <= to /\ to + 12 <= hi /\ Quad(to) /\ to <= Highest
      /\ to = hi - (mid - lo)
  <2>1. /\ lo \in Nat /\ mid \in Nat /\ hi \in Nat /\ lo + 12 <= mid /\ mid + 12 <= hi
        /\ Quad(lo) /\ Quad(mid) /\ Quad(hi) /\ to = hi - (mid - lo) /\ hi <= Highest
        /\ Highest \in Nat
    <3>1. /\ mid \in Nat /\ hi \in Nat /\ mid + 12 <= hi /\ Quad(mid) /\ Quad(hi)
          /\ hi <= Last(a).at /\ Last(a).at <= Highest /\ Last(a).at \in Nat
      BY <1>1
    <3>2. lo \in Nat /\ lo + 12 <= mid /\ Quad(lo) /\ to = hi - (mid - lo)
      BY <1>3
    <3> HIDE DEF lo, mid, hi, to
    <3> QED BY <3>1, <3>2, HighestIs
  <2> HIDE DEF lo, mid, hi, to
  <2>2. Quad(mid - lo) /\ mid - lo \in Int
    BY <2>1, QuadSum
  <2> DEFINE d == mid - lo
  <2>3. d \in Int /\ Quad(d) /\ to = hi - d
    BY <2>1, <2>2
  <2> HIDE DEF d
  <2>4. Quad(to)
    BY <2>1, <2>3, QuadSum
  <2> QED BY <2>1, <2>4
<1> HIDE DEF to
<1>5. x \in Arena /\ x.at = to /\ x.is = "moveable" /\ x.entry = e
  <2>1. "moveable" \in Kinds /\ e \in Nat
    BY <1>3 DEF Kinds
  <2> QED BY <1>4, <2>1, NewArenaIs, FieldsAre
<1>6. PutUp(a, i, 0, x, c)
  <2>1. a[i - 1].at + 12 <= x.at /\ x.at + 12 <= a[i + 1].at /\ Quad(x.at)
    BY <1>2, <1>4, <1>5
  <2> HIDE DEF x
  <2> QED BY <1>5, <2>1, PutUpAll
<1>7. Moving(a, es, i, j, to, 0, c)
  BY <1>2, <1>3, <1>4, <1>6 DEF Moving
<1>8. slid = [c EXCEPT ![j] = NewArena(@.at, "free", 0)]
  <2>1. a \in Seq(Arena) /\ j # i /\ c = [a EXCEPT ![i] = x] /\ DOMAIN a = 1 .. Len(a)
    BY <1>2, LaidIs DEF ReplaceAt, Laid
  <2>2. c[j] = a[j]
    BY <1>2, <2>1
  <2>3. slid = [[a EXCEPT ![j] = y] EXCEPT ![i] = x]
    OBVIOUS
  <2>4. [c EXCEPT ![j] = NewArena(@.at, "free", 0)] = [c EXCEPT ![j] = y]
    BY <2>2
  <2> HIDE DEF x, y, c
  <2> QED BY <1>2, <2>1, <2>3, <2>4
<1>9. c[i] = x /\ c[j] = a[j]
  <2>1. c[i + 0] = x /\ \A m \in 1 .. i - 1 : c[m] = a[m]
    BY <1>6 DEF PutUp
  <2>2. i + 0 = i /\ j \in 1 .. i - 1
    <3>1. i \in Nat /\ j \in 3 .. i - 1
      BY <1>1, <1>3
    <3> QED BY <3>1
  <2> QED BY <2>1, <2>2
<1>10. JoinedBefore(slid, j) = Freed(c, j)
  <2> DEFINE g == [c EXCEPT ![j] = NewArena(@.at, "free", 0)]
  <2>1. g[i] = x
    <3>1. c \in Seq(Arena) /\ Len(c) = Len(a) /\ DOMAIN c = 1 .. Len(a)
      BY <1>1, <1>6 DEF PutUp, Laid
    <3>2. i # j
      BY <1>2
    <3> QED BY <1>2, <1>9, <3>1, <3>2
  <2>2. JoinedAfter(g, j) = g
    BY <1>2, <1>5, <2>1 DEF JoinedAfter
  <2>3. Freed(c, j) = JoinedBefore(JoinedAfter(g, j), j)
    BY DEF Freed
  <2> HIDE DEF g
  <2> QED BY <1>8, <2>2, <2>3 DEF g
<1>11. GoesOn(i, 0, Joins(c, j), j)
  <2>1. After(c, j) = 0
    BY <1>2, <1>5, <1>9 DEF After
  <2>2. Before(c, j) = 0 \/ Before(c, j) = 1
    BY DEF Before
  <2> DEFINE k == Joins(c, j)
  <2>3. k = 0 \/ k = 1
    BY <2>1, <2>2 DEF Joins
  <2> HIDE DEF k
  <2>4. j = ((i + 0) - k) - 1 \/ j = (i + 0) - k
    BY <1>1, <1>2, <2>3
  <2> QED BY <2>4 DEF GoesOn, k
<1> QED BY <1>7, <1>10, <1>11 DEF j, to

\* Where a block is put that fits a free arena (fit), and the row with it there.
FitTo(a, i, j) ==
  IF Span(a, i) - Span(a, j) >= 16 THEN a[i + 1].at - Span(a, j) ELSE a[i].at
FitSplit(a, i, j) == IF Span(a, i) - Span(a, j) >= 16 THEN 1 ELSE 0
FitRow(a, i, j) ==
  LET block == NewArena(FitTo(a, i, j), "moveable", a[j].entry)
  IN IF Span(a, i) - Span(a, j) >= 16 THEN InsertAt(a, i + 1, block) ELSE ReplaceAt(a, i, block)

\* What fit does is to move a block.
LEMMA FitMoves ==
  ASSUME NEW a, Laid(a), NEW es, NEW i \in FreeIn(a), NEW j \in 1 .. i, MayMove(a, es, j),
         Span(a, j) <= Span(a, i)
  PROVE  Moving(a, es, i, j, FitTo(a, i, j), FitSplit(a, i, j), FitRow(a, i, j))
<1> DEFINE lo == a[i].at
           hi == a[i + 1].at
           d == Span(a, j)
           to == FitTo(a, i, j)
           e == a[j].entry
           x == NewArena(to, "moveable", e)
           c == FitRow(a, i, j)
           split == hi - lo - d >= 16
<1>1. /\ i \in Nat /\ i >= 3 /\ i + 1 <= Len(a) /\ Len(a) \in Nat
      /\ a[i - 1].at + 12 <= lo /\ lo + 12 <= hi /\ lo \in Nat /\ hi \in Nat
      /\ Quad(lo) /\ Quad(hi)
      /\ hi <= Last(a).at /\ Last(a).at <= Highest /\ Last(a).at \in Nat
      /\ Span(a, i) = hi - lo
  BY PutAround
<1>2. /\ j \in 3 .. i - 1 /\ a[j].is = "moveable" /\ e \in Nat
      /\ a[j].at \in Nat /\ a[j + 1].at \in Nat /\ a[j].at + 12 <= a[j + 1].at
      /\ Span(a, j) = a[j + 1].at - a[j].at
      /\ a[j].at + 12 <= lo /\ Quad(a[j].at) /\ Quad(a[j + 1].at)
  BY MoverIs
<1>3. d \in Int /\ d >= 12 /\ Quad(d)
  <2> DEFINE u == a[j].at
             v == a[j + 1].at
  <2>1. u \in Nat /\ v \in Nat /\ u + 12 <= v /\ d = v - u /\ Quad(u) /\ Quad(v)
    BY <1>2
  <2> HIDE DEF u, v, d
  <2> QED BY <2>1, QuadSum
<1>4. /\ to = IF split THEN hi - d ELSE lo
      /\ c = IF split THEN InsertAt(a, i + 1, x) ELSE ReplaceAt(a, i, x)
      /\ FitSplit(a, i, j) = IF split THEN 1 ELSE 0
  <2>1. Span(a, i) - Span(a, j) = (hi - lo) - d
    BY <1>1
  <2> HIDE DEF lo, hi, d
  <2>2. (Span(a, i) - Span(a, j) >= 16) <=> split
    BY <2>1
  <2> HIDE DEF split
  <2> QED BY <2>2 DEF FitTo, FitRow, FitSplit, lo, hi, d
<1> HIDE DEF d, to, c, split
<1>5. /\ to \in Nat /\ a[j].at < to /\ to + 12 <= hi /\ Quad(to) /\ to <= Highest
      /\ lo <= to /\ (split => lo + 12 <= to) /\ split \in BOOLEAN
  <2> DEFINE u == a[j].at
             top == Last(a).at
  <2>1. /\ lo \in Nat /\ hi \in Nat /\ lo + 12 <= hi /\ u \in Nat /\ u + 12 <= lo /\ Quad(lo)
        /\ Quad(hi) /\ hi <= top /\ top <= Highest /\ top \in Nat /\ Highest \in Nat
    BY <1>1, <1>2, HighestIs
  <2> HIDE DEF u, top, lo, hi
  <2>2. ASSUME split
        PROVE  to \in Nat /\ u < to /\ to + 12 <= hi /\ Quad(to) /\ to <= Highest /\ lo + 12 <= to
    <3>1. to = hi - d /\ hi - lo - d >= 16
      BY <1>4, <2>2 DEF split
    <3>2. Quad(to)
      BY <1>3, <2>1, <3>1, QuadSum
    <3> QED BY <1>3, <2>1, <3>1, <3>2
  <2>3. ASSUME ~split
        PROVE  to \in Nat /\ u < to /\ to + 12 <= hi /\ Quad(to) /\ to <= Highest /\ lo <= to
    <3>1. to = lo
      BY <1>4, <2>3
    <3> QED BY <2>1, <3>1
  <2>4. split \in BOOLEAN
    BY DEF split
  <2>5. to \in Nat /\ u < to /\ to + 12 <= hi /\ Quad(to) /\ to <= Highest
        /\ lo <= to /\ (split => lo + 12 <= to)
    <3>1. CASE split
      BY <1>3, <2>1, <2>2, <3>1
    <3>2. CASE ~split
      BY <2>3, <3>2
    <3> QED BY <3>1, <3>2
  <2> QED BY <2>4, <2>5 DEF u
<1>6. x \in Arena /\ x.at = to /\ x.is = "moveable" /\ x.entry = e
  <2>1. "moveable" \in Kinds /\ e \in Nat
    BY <1>2 DEF Kinds
  <2> QED BY <1>5, <2>1, NewArenaIs, FieldsAre
<1> DEFINE s == FitSplit(a, i, j)
<1>7. PutUp(a, i, s, x, c)
  <2>1. CASE split
    <3>1. s = 1 /\ c = InsertAt(a, i + 1, x)
      BY <1>4, <2>1
    <3>2. a[i].at + 12 <= x.at /\ x.at + 12 <= a[i + 1].at /\ Quad(x.at)
      BY <1>5, <1>6, <2>1
    <3> HIDE DEF x, s
    <3> QED BY <1>6, <3>1, <3>2, PutUpTop
  <2>2. CASE ~split
    <3>1. s = 0 /\ c = ReplaceAt(a, i, x) /\ to = lo
      BY <1>4, <2>2
    <3>2. a[i - 1].at + 12 <= x.at /\ x.at + 12 <= a[i + 1].at /\ Quad(x.at)
      BY <1>1, <1>5, <1>6, <3>1
    <3> HIDE DEF x, s
    <3> QED BY <1>6, <3>1, <3>2, PutUpAll
  <2> QED BY <1>5, <2>1, <2>2
<1>8. MayMove(a, es, j) /\ i \in FreeIn(a)
  OBVIOUS
<1>9. Moving(a, es, i, j, to, s, c)
  BY <1>2, <1>5, <1>7, <1>8 DEF Moving
<1> QED BY <1>9 DEF to, c

\* The record that a fit makes.
LEMMA FitIs ==
  ASSUME NEW w, IsWalk(w), IsHeap(w.h), NEW a, a = w.h.a, NEW i, i = w.i, NEW j
  PROVE  LET to == FitTo(a, i, j)
             c == FitRow(a, i, j)
             b == Freed(c, j)
         IN Fit(w, j) = WalkOf(HeapOf(b, PlaceGiven(w.h.es, a[j].entry, to), w.h.spare, w.h.size),
                               IndexOf(b, to) - 1,
                               w.cx + FitSplit(a, i, j) - (Len(c) - Len(b)), w.best, w.still)
<1> DEFINE to == FitTo(a, i, j)
           c == FitRow(a, i, j)
           b == Freed(c, j)
           fs == PlaceGiven(w.h.es, a[j].entry, to)
           n == w.cx + FitSplit(a, i, j) - (Len(c) - Len(b))
           i2 == IndexOf(b, to) - 1
<1>1. Fit(w, j) = [w EXCEPT !.h.a = b, !.h.es = fs, !.i = i2, !.cx = n]
  BY DEF Fit, FitTo, FitRow, FitSplit
<1> HIDE DEF b, fs, n, i2
<1>2. Fit(w, j) = WalkOf(HeapOf(b, fs, w.h.spare, w.h.size), i2, n, w.best, w.still)
  BY <1>1, WalkMovedOn
<1> QED BY <1>2 DEF b, fs, n, i2

\* A walk goes down.
LEMMA AheadIs ==
  ASSUME NEW a, Laid(a), NEW i \in 1 .. Len(a)
  PROVE  /\ Ahead(a, i) \in Nat /\ Ahead(a, i) >= a[i].at + 12 /\ a[i].at \in Nat
         /\ i > 1 => /\ i - 1 \in 1 .. Len(a) /\ Ahead(a, i - 1) \in Nat
                     /\ Ahead(a, i - 1) + 6 <= Ahead(a, i)
<1>1. /\ Len(a) \in Nat /\ Len(a) >= 3 /\ Last(a) = a[Len(a)] /\ i \in Nat /\ i >= 1
      /\ i <= Len(a) /\ Last(a).at \in Nat /\ a[i].at \in Nat
  BY LaidIs
<1>2. Ahead(a, i) \in Nat /\ Ahead(a, i) >= a[i].at + 12
  <2>1. CASE i = Len(a)
    BY <1>1, <2>1 DEF Ahead
  <2>2. CASE i # Len(a)
    <3>1. i \in 1 .. Len(a) - 1
      BY <1>1, <2>2
    <3>2. a[i].at \in Nat /\ a[i + 1].at \in Nat /\ a[i].at + 12 <= a[i + 1].at
      BY <3>1, NextIs
    <3>3. Ahead(a, i) = a[i + 1].at + 6 \/ Ahead(a, i) = a[i + 1].at
      BY <2>2 DEF Ahead
    <3> QED BY <3>2, <3>3, SMTT(20)
  <2> QED BY <2>1, <2>2
<1>3. ASSUME i > 1
      PROVE  /\ i - 1 \in 1 .. Len(a) /\ Ahead(a, i - 1) \in Nat
             /\ Ahead(a, i - 1) + 6 <= Ahead(a, i)
  <2>1. i - 1 \in 1 .. Len(a) /\ i - 1 # Len(a) /\ (i - 1) + 1 = i
    BY <1>1, <1>3
  <2>2. Ahead(a, i - 1) = a[i].at + 6 \/ Ahead(a, i - 1) = a[i].at
    BY <2>1 DEF Ahead
  <2> QED BY <1>1, <1>2, <2>1, <2>2
<1> QED BY <1>1, <1>2, <1>3

\* Where a walk is: what it has of the heap it set out in.
Resting(h0, g, i, best, still) ==
  /\ Shift(h0, g) /\ i \in 1 .. Len(g.a) /\ BestLeft(g.a, i, best)
  /\ Apart(h0.a) /\ ~still => NoneBelow(g.a, g.es, i)

\* Past an arena of a block.
LEMMA PastBlock ==
  ASSUME NEW h0, NEW g, NEW i, NEW best, NEW still, Resting(h0, g, i, best, still),
         g.a[i].is # "free", NEW i2 \in 1 .. Len(g.a), i2 = i - 1 \/ (i2 = i /\ i = 1)
  PROVE  Resting(h0, g, i2, best, still)
<1> DEFINE a == g.a
<1>1. Laid(a) /\ i \in 1 .. Len(a)
  BY DEF Resting, Shift, Good
<1>2. i \in Int /\ i2 \in Int
  BY <1>1
<1>3. \A f \in FreeIn(a) : f \in Int /\ f # i
  BY DEF FreeIn
<1>4. \A f \in FreeIn(a) : f > i2 <=> f > i
  BY <1>2, <1>3
<1>5. \A f \in FreeIn(a) : f <= i2 <=> f <= i
  BY <1>2, <1>3
<1>6. BestLeft(a, i, best) /\ Shift(h0, g) /\ (Apart(h0.a) /\ ~still => NoneBelow(a, g.es, i))
  BY DEF Resting
<1>7. BestLeft(a, i2, best)
  BY <1>4, <1>5, <1>6 DEF BestLeft
<1>8. NoneBelow(a, g.es, i) => NoneBelow(a, g.es, i2)
  BY <1>4 DEF NoneBelow
<1> QED BY <1>6, <1>7, <1>8 DEF Resting

\* Past a free arena that nothing may be moved to.
LEMMA PastFree ==
  ASSUME NEW h0, NEW g, NEW i, NEW best, NEW still \in BOOLEAN, Resting(h0, g, i, best, still),
         g.a[i].is = "free", still \/ ~MayMove(g.a, g.es, i - 1),
         NEW best2, best2 = IF Larger(g.a, i, best) THEN g.a[i].at ELSE best
  PROVE  Resting(h0, g, i - 1, best2, still) /\ i > 1
<1> DEFINE a == g.a
<1>1. Laid(a) /\ i \in 1 .. Len(a)
  BY DEF Resting, Shift, Good
<1>2. i \in FreeIn(a)
  BY <1>1, FreeAtIs
<1>3. i \in Nat /\ i >= 3 /\ a[i].at \in Nat /\ a[i].at >= 12 /\ Len(a) \in Nat /\ i <= Len(a)
      /\ i + 1 <= Len(a)
  BY <1>1, <1>2, PutAround
<1>4. \A f \in FreeIn(a) : f \in Int /\ f \in 1 .. Len(a) - 1
  BY DEF FreeIn
<1>5. BestLeft(a, i, best) /\ Shift(h0, g) /\ (Apart(h0.a) /\ ~still => NoneBelow(a, g.es, i))
  BY DEF Resting
<1>6. \A f \in FreeIn(a) : f > i - 1 <=> f > i \/ f = i
  BY <1>3, <1>4
<1>7. BestLeft(a, i - 1, best2)
  <2>1. \A f \in FreeIn(a) : Span(a, f) \in Int
    <3> SUFFICES ASSUME NEW f \in FreeIn(a) PROVE Span(a, f) \in Int
      OBVIOUS
    <3>1. a[f].at \in Nat /\ a[f + 1].at \in Nat
      BY <1>1, <1>4, NextIs
    <3> QED BY <3>1 DEF Span
  <2>2. CASE best = 0
    <3>1. best2 = a[i].at
      BY <2>2 DEF Larger
    <3>2. \A f \in FreeIn(a) : f <= i
      BY <1>5, <2>2 DEF BestLeft
    <3>3. \A f \in FreeIn(a) : f > i - 1 => f = i
      BY <1>3, <1>4, <3>2
    <3>4. best2 # 0
      BY <1>3, <3>1
    <3>5. i > i - 1 /\ Span(a, i) <= Span(a, i)
      BY <1>2, <1>3, <2>1
    <3> QED BY <1>2, <3>1, <3>3, <3>4, <3>5 DEF BestLeft
  <2>3. CASE best # 0
    <3>1. PICK m \in FreeIn(a) :
            m > i /\ a[m].at = best /\ \A f \in FreeIn(a) : f > i => Span(a, f) <= Span(a, m)
      BY <1>5, <2>3 DEF BestLeft
    <3>2. m \in 1 .. Len(a) /\ m > i - 1
      BY <1>3, <1>4, <3>1
    <3>3. IndexOf(a, best) = m
      BY <1>1, <3>1, <3>2, IndexIs
    <3>4. CASE Span(a, i) > Span(a, m)
      <4>1. best2 = a[i].at /\ best2 # 0
        BY <1>3, <2>3, <3>3, <3>4 DEF Larger
      <4>2. \A f \in FreeIn(a) : f > i - 1 => Span(a, f) <= Span(a, i)
        BY <1>2, <1>6, <2>1, <3>1, <3>4
      <4>3. i > i - 1
        BY <1>3
      <4> QED BY <1>2, <4>1, <4>2, <4>3 DEF BestLeft
    <3>5. CASE ~ (Span(a, i) > Span(a, m))
      <4>1. best2 = best
        BY <2>3, <3>3, <3>5 DEF Larger
      <4>2. \A f \in FreeIn(a) : f > i - 1 => Span(a, f) <= Span(a, m)
        BY <1>2, <1>6, <2>1, <3>1, <3>5
      <4> QED BY <2>3, <3>1, <3>2, <4>1, <4>2 DEF BestLeft
    <3> QED BY <3>4, <3>5
  <2> QED BY <2>2, <2>3
<1>8. Apart(h0.a) /\ ~still => NoneBelow(a, g.es, i - 1)
  <2> SUFFICES ASSUME Apart(h0.a), ~still PROVE NoneBelow(a, g.es, i - 1)
    OBVIOUS
  <2>1. NoneBelow(a, g.es, i) /\ ~MayMove(a, g.es, i - 1)
    BY <1>5
  <2> QED BY <1>6, <2>1 DEF NoneBelow
<1>9. i - 1 \in 1 .. Len(a) /\ i > 1
  BY <1>3
<1> QED BY <1>5, <1>7, <1>8, <1>9 DEF Resting

\* How many arenas there are then, and which is the block's.
Counts(a, i, j, to, s, c) ==
  LET b == Freed(c, j)
      k == Joins(c, j)
  IN /\ k \in Int /\ s \in Int /\ Len(c) = Len(a) + s
     /\ Len(b) = (Len(a) + s) - k /\ IndexOf(b, to) = (i + s) - k

\* A block moved up.
LEMMA MovedOn ==
  ASSUME NEW h0, Good(h0), NEW g, NEW i, NEW best, NEW still, Resting(h0, g, i, best, still),
         NEW j, NEW to, NEW s, NEW c, Moving(g.a, g.es, i, j, to, s, c),
         NEW i2, GoesOn(i, s, Joins(c, j), i2)
  PROVE  LET b == Freed(c, j)
         IN
         /\ Resting(h0, HeapOf(b, PlaceGiven(g.es, g.a[j].entry, to), g.spare, g.size),
                    i2, best, still)
         /\ Ahead(b, i2) + 6 <= Ahead(g.a, i) /\ i2 \in 1 .. Len(b)
         /\ Counts(g.a, i, j, to, s, c)
<1> DEFINE b == Freed(c, j)
           fs == PlaceGiven(g.es, g.a[j].entry, to)
           q == HeapOf(b, fs, g.spare, g.size)
           k == Joins(c, j)
<1>1. Shift(h0, g) /\ Good(g) /\ Laid(g.a) /\ g.es \in Seq(HandleEntry) /\ Agree(Used(g.a), g.es)
      /\ BestLeft(g.a, i, best) /\ (Apart(h0.a) /\ ~still => NoneBelow(g.a, g.es, i))
      /\ (Apart(h0.a) => Apart(g.a))
  BY DEF Resting, Shift, Good
<1>2. Shift(g, q)
  BY <1>1, MoveShifts
<1>3. Shift(h0, q)
  BY <1>1, <1>2, ShiftTwice
<1>4. Shifted(g.es, fs)
  BY <1>1, MovedIs
<1>5. Alike(g.es, fs)
  BY <1>4 DEF Shifted
<1>6. q.a = b /\ q.es = fs
  BY HeapOfIs
<1> HIDE DEF fs, q
<1> DEFINE a == g.a
           es == g.es
<1>7. Laid(a) /\ es \in Seq(HandleEntry) /\ Agree(Used(a), es) /\ Alike(es, fs)
      /\ Moving(a, es, i, j, to, s, c) /\ BestLeft(a, i, best)
  BY <1>1, <1>5
<1>8. GoesOn(i, s, k, i2)
  OBVIOUS
<1>0. b = Freed(c, j)
  OBVIOUS
<1> HIDE DEF a, es, k, b
<1>9. /\ i2 \in 1 .. Len(b) /\ BestLeft(b, i2, best)
      /\ Apart(a) /\ NoneBelow(a, es, i) => NoneBelow(b, fs, i2)
      /\ Ahead(b, i2) + 6 <= Ahead(a, i)
      /\ k \in Int /\ Len(c) = Len(a) + s /\ Len(b) = (Len(a) + s) - k /\ s \in Int
      /\ IndexOf(b, to) = (i + s) - k
  BY <1>0, <1>7, <1>8, MovedAhead DEF k
<1>10. Apart(h0.a) /\ ~still => NoneBelow(b, fs, i2)
  BY <1>1, <1>9 DEF a, es
<1>11. Resting(h0, q, i2, best, still)
  BY <1>3, <1>6, <1>9, <1>10 DEF Resting
<1>12. Counts(g.a, i, j, to, s, c)
  BY <1>9 DEF Counts, a, k, b
<1> QED BY <1>9, <1>11, <1>12 DEF fs, q, a, b

-----------------------------------------------------------------------------
(* The steps of a walk.                                                    *)
\* Of some numbered things that have a size, a largest, and of those the highest.
LEMMA Foremost ==
  ASSUME NEW F, F \subseteq Nat, F # {}, NEW n \in Nat, \A k \in F : k <= n,
         NEW S, NEW m \in Nat, \A k \in F : S[k] \in Nat /\ S[k] <= m
  PROVE  \E j \in F : \A k \in F : S[k] < S[j] \/ (S[k] = S[j] /\ k <= j)
<1> DEFINE T == {m - S[k] : k \in F}
<1>1. T \subseteq Nat /\ T # {}
  OBVIOUS
<1> HIDE DEF T
<1>2. PICK t \in T : \A u \in T : t <= u
  BY <1>1, Least
<1>3. PICK l \in F : t = m - S[l]
  BY DEF T
<1>4. \A k \in F : S[k] <= S[l]
  <2> SUFFICES ASSUME NEW k \in F PROVE S[k] <= S[l]
    OBVIOUS
  <2>1. m - S[k] \in T
    BY DEF T
  <2>2. t <= m - S[k]
    BY <1>2, <2>1
  <2> QED BY <1>3, <2>2
<1> DEFINE G == {k \in F : S[k] = S[l]}
           U == {n - k : k \in G}
<1>5. U \subseteq Nat /\ U # {}
  BY <1>3
<1> HIDE DEF U
<1>6. PICK p \in U : \A u \in U : p <= u
  BY <1>5, Least
<1>7. PICK j \in G : p = n - j
  BY DEF U
<1>8. \A k \in G : k <= j
  <2> SUFFICES ASSUME NEW k \in G PROVE k <= j
    OBVIOUS
  <2>1. n - k \in U
    BY DEF U
  <2>2. p <= n - k
    BY <1>6, <2>1
  <2> QED BY <1>7, <2>2
<1>9. ASSUME NEW k \in F PROVE S[k] < S[j] \/ (S[k] = S[j] /\ k <= j)
  <2>1. S[j] = S[l] /\ S[k] <= S[l] /\ S[k] \in Nat /\ S[l] \in Nat
    BY <1>4, <1>7
  <2>2. S[k] = S[l] => k <= j
    BY <1>8
  <2> QED BY <2>1, <2>2
<1> QED BY <1>7, <1>9

\* The block that is to fit a free arena.
LEMMA FittingIs ==
  ASSUME NEW w, IsWalk(w), Laid(w.h.a), w.i \in FreeIn(w.h.a), w.cx \in Nat, Fitting(w) # 0
  PROVE  /\ Fitting(w) \in 1 .. w.i /\ MayMove(w.h.a, w.h.es, Fitting(w))
         /\ Span(w.h.a, Fitting(w)) <= Span(w.h.a, w.i)
<1> DEFINE a == w.h.a
           i == w.i
           F == {j \in 1 .. i : /\ j > i - w.cx /\ MayMove(a, w.h.es, j)
                                /\ Span(a, j) <= Span(a, i)}
           Best(j) == \A k \in F : Span(a, k) < Span(a, j) \/ (Span(a, k) = Span(a, j) /\ k <= j)
<1>1. Fitting(w) = IF F = {} THEN 0 ELSE CHOOSE j \in F : Best(j)
  BY DEF Fitting
<1>2. F # {}
  BY <1>1
<1>3. i \in Nat /\ i + 1 <= Len(a) /\ Len(a) \in Nat
  BY PutAround
<1>4. Last(a).at \in Nat /\ a[i].at \in Nat /\ a[i + 1].at \in Nat /\ Span(a, i) = a[i + 1].at - a[i].at
      /\ a[i].at + 12 <= a[i + 1].at
  BY PutAround
<1>5. \A k \in F : Span(a, k) \in Nat /\ Span(a, k) <= Span(a, i)
  <2> SUFFICES ASSUME NEW k \in F PROVE Span(a, k) \in Nat /\ Span(a, k) <= Span(a, i)
    OBVIOUS
  <2>1. k \in 1 .. Len(a) - 1
    BY <1>3
  <2>2. a[k].at \in Nat /\ a[k + 1].at \in Nat /\ a[k].at + 12 <= a[k + 1].at
    BY <2>1, NextIs
  <2>3. Span(a, k) <= Span(a, i)
    OBVIOUS
  <2> QED BY <2>2, <2>3 DEF Span
<1>6. F \subseteq Nat /\ \A k \in F : k <= i
  BY <1>3
<1>7. Span(a, i) \in Nat
  BY <1>4
<1> DEFINE m == Span(a, i)
<1>8. \A k \in F : Span(a, k) \in Nat /\ Span(a, k) <= m
  BY <1>5
<1>9. m \in Nat
  BY <1>7
<1> HIDE DEF F, m, a, i
<1>10. \E j \in F : \A k \in F : Span(a, k) < Span(a, j) \/ (Span(a, k) = Span(a, j) /\ k <= j)
  <2> DEFINE Sp == [k \in F |-> Span(a, k)]
  <2>1. \A k \in F : Sp[k] \in Nat /\ Sp[k] <= m
    BY <1>8
  <2>3. \A k \in F : Sp[k] = Span(a, k)
    OBVIOUS
  <2> HIDE DEF Sp
  <2>2. \E j \in F : \A k \in F : Sp[k] < Sp[j] \/ (Sp[k] = Sp[j] /\ k <= j)
    BY <1>2, <1>3, <1>6, <1>9, <2>1, Foremost
  <2> QED BY <2>2, <2>3
<1>11. (CHOOSE j \in F : Best(j)) \in F
  BY <1>10
<1>12. Fitting(w) \in F
  BY <1>1, <1>2, <1>11
<1> QED BY <1>12 DEF F, a, i

\* A walk of a heap, and one a step on: below where it was, or at its end.
Walks(h0, w) ==
  /\ IsWalk(w) /\ w.still \in BOOLEAN /\ Resting(h0, w.h, w.i, w.best, w.still)
  /\ w.cx = w.i \/ (w.cx = 0 /\ w.i = 1)
Onward(h0, w, v) ==
  /\ Walks(h0, v) /\ v.still = w.still
  /\ v.cx = 0 \/ Ahead(v.h.a, v.i) + 6 <= Ahead(w.h.a, w.i)

\* What of a step makes it one.
LEMMA OnwardIs ==
  ASSUME NEW h0, NEW w, Walks(h0, w), w.cx # 0, NEW g, NEW i, NEW cx, NEW best,
         Step(w) = WalkOf(g, i, cx, best, w.still), Resting(h0, g, i, best, w.still),
         cx - 1 = i \/ (cx - 1 = 0 /\ i = 1),
         cx - 1 = 0 \/ Ahead(g.a, i) + 6 <= Ahead(w.h.a, w.i)
  PROVE  Onward(h0, w, Stepped(w))
<1> DEFINE u == WalkOf(g, i, cx, best, w.still)
           v == WalkOf(g, i, cx - 1, best, w.still)
<1>1. u.cx = cx
  BY WalkOfIs
<1>2. Stepped(w) = [u EXCEPT !.cx = cx - 1]
  BY <1>1 DEF Stepped
<1>3. Stepped(w) = v
  BY <1>2, WalkCount
<1>4. IsWalk(v) /\ v.h = g /\ v.i = i /\ v.cx = cx - 1 /\ v.best = best /\ v.still = w.still
  BY WalkOfIs
<1> HIDE DEF u, v
<1>5. w.still \in BOOLEAN
  BY DEF Walks
<1>6. Walks(h0, v)
  BY <1>4, <1>5 DEF Walks
<1>7. Onward(h0, w, v)
  BY <1>4, <1>6 DEF Onward
<1> QED BY <1>3, <1>7

\* A step from an arena of a block.
LEMMA BlockStep ==
  ASSUME NEW h0, NEW w, Walks(h0, w), w.cx # 0, w.h.a[w.i].is # "free"
  PROVE  Onward(h0, w, Stepped(w))
<1> DEFINE a == w.h.a
           i == w.i
           i2 == Max({1, i - 1})
<1>1. Resting(h0, w.h, i, w.best, w.still) /\ IsWalk(w) /\ w.cx = i
  BY DEF Walks
<1>2. Laid(a) /\ i \in 1 .. Len(a)
  BY <1>1 DEF Resting, Shift, Good
<1>3. i \in Nat /\ i >= 1 /\ Len(a) \in Nat /\ i <= Len(a)
  BY <1>2, LaidIs
<1>4. i2 = IF i > 1 THEN i - 1 ELSE 1
  <2>1. 1 \in Int /\ i - 1 \in Int
    BY <1>3
  <2>2. i2 = IF 1 >= i - 1 THEN 1 ELSE i - 1
    BY <2>1, Greater
  <2> HIDE DEF i2
  <2> QED BY <1>3, <2>2
<1>5. Step(w) = [w EXCEPT !.i = i2]
  BY DEF Step
<1> HIDE DEF i2
<1>6. Step(w) = WalkOf(w.h, i2, i, w.best, w.still)
  <2>1. w = WalkOf(w.h, i, i, w.best, w.still)
    BY <1>1 DEF IsWalk
  <2>2. [WalkOf(w.h, i, i, w.best, w.still) EXCEPT !.i = i2]
          = WalkOf(w.h, i2, i, w.best, w.still)
    BY WalkAt
  <2> QED BY <1>5, <2>1, <2>2
<1>7. i2 \in 1 .. Len(a) /\ (i2 = i - 1 \/ (i2 = i /\ i = 1))
  BY <1>3, <1>4
<1>8. Resting(h0, w.h, i2, w.best, w.still)
  BY <1>1, <1>7, PastBlock
<1>9. i - 1 = i2 \/ (i - 1 = 0 /\ i2 = 1)
  BY <1>3, <1>4
<1>10. i - 1 = 0 \/ Ahead(a, i2) + 6 <= Ahead(a, i)
  <2>1. CASE i = 1
    BY <2>1
  <2>2. CASE i # 1
    <3>1. i > 1 /\ i2 = i - 1
      BY <1>3, <1>4, <2>2
    <3> QED BY <1>2, <3>1, AheadIs
  <2> QED BY <2>1, <2>2
<1> QED BY <1>6, <1>8, <1>9, <1>10, OnwardIs

\* A step past a free arena.
LEMMA FreeStep ==
  ASSUME NEW h0, NEW w, Walks(h0, w), w.cx # 0, w.h.a[w.i].is = "free",
         w.still \/ ~MayMove(w.h.a, w.h.es, w.i - 1), w.still \/ Fitting(w) = 0
  PROVE  Onward(h0, w, Stepped(w))
<1> DEFINE a == w.h.a
           i == w.i
           best2 == IF Larger(a, i, w.best) THEN a[i].at ELSE w.best
<1>1. Resting(h0, w.h, i, w.best, w.still) /\ IsWalk(w) /\ w.cx = i /\ w.still \in BOOLEAN
  BY DEF Walks
<1>2. Laid(a) /\ i \in 1 .. Len(a)
  BY <1>1 DEF Resting, Shift, Good
<1>3. Step(w) = [w EXCEPT !.best = best2, !.i = i - 1]
  BY <1>1 DEF Step
<1>4. Resting(h0, w.h, i - 1, best2, w.still) /\ i > 1
  BY <1>1, PastFree
<1> HIDE DEF best2
<1>5. Step(w) = WalkOf(w.h, i - 1, i, best2, w.still)
  <2> DEFINE i2 == i - 1
  <2>1. Step(w) = [w EXCEPT !.best = best2, !.i = i2]
    BY <1>3
  <2> HIDE DEF i2
  <2>2. [w EXCEPT !.best = best2, !.i = i2] = WalkOf(w.h, i2, w.cx, best2, w.still)
    BY <1>1, WalkBest
  <2>3. Step(w) = WalkOf(w.h, i2, w.cx, best2, w.still)
    BY <2>1, <2>2
  <2> QED BY <1>1, <2>3 DEF i2
<1>6. Ahead(a, i - 1) + 6 <= Ahead(a, i)
  BY <1>2, <1>4, AheadIs
<1> QED BY <1>4, <1>5, <1>6, OnwardIs

\* A step that slides a block.
LEMMA SlideStep ==
  ASSUME NEW h0, Good(h0), NEW w, Walks(h0, w), w.cx # 0, w.h.a[w.i].is = "free",
         ~w.still, MayMove(w.h.a, w.h.es, w.i - 1)
  PROVE  Onward(h0, w, Stepped(w))
<1> DEFINE a == w.h.a
           es == w.h.es
           i == w.i
           e == a[i - 1].entry
           to == a[i + 1].at - Span(a, i - 1)
           x == NewArena(to, "moveable", e)
           c == ReplaceAt(a, i, x)
           slid == [a EXCEPT ![i - 1] = NewArena(@.at, "free", 0), ![i] = x]
           b == Freed(c, i - 1)
           fs == PlaceGiven(es, e, to)
           g == HeapOf(b, fs, w.h.spare, w.h.size)
<1>1. Resting(h0, w.h, i, w.best, w.still) /\ IsWalk(w) /\ w.cx = i
  BY DEF Walks
<1>2. Laid(a) /\ i \in 1 .. Len(a) /\ IsHeap(w.h)
  BY <1>1 DEF Resting, Shift, Good
<1>3. i \in FreeIn(a)
  BY <1>2, FreeAtIs
<1>4. /\ Moving(a, es, i, i - 1, to, 0, c)
      /\ JoinedBefore(slid, i - 1) = b
      /\ GoesOn(i, 0, Joins(c, i - 1), i - 1)
  BY <1>2, <1>3, SlideMoves
<1>5. Step(w) = Slide(w)
  BY DEF Step
<1>6. Slide(w) = WalkOf(HeapOf(JoinedBefore(slid, i - 1), fs, w.h.spare, w.h.size),
                        i - 1, w.cx, w.best, w.still)
  BY <1>1, <1>2, SlideIs
<1>7. Step(w) = WalkOf(g, i - 1, i, w.best, w.still)
  BY <1>1, <1>4, <1>5, <1>6
<1>8. /\ Resting(h0, g, i - 1, w.best, w.still)
      /\ Ahead(b, i - 1) + 6 <= Ahead(a, i)
  <2> DEFINE i2 == i - 1
             j == i - 1
  <2>1. /\ Resting(h0, w.h, i, w.best, w.still) /\ Moving(w.h.a, w.h.es, i, j, to, 0, c)
        /\ GoesOn(i, 0, Joins(c, j), i2)
    BY <1>1, <1>4
  <2>2. Resting(h0, g, i2, w.best, w.still) /\ Ahead(b, i2) + 6 <= Ahead(a, i)
    <3> HIDE DEF c, to, slid, i2, i, j
    <3> QED BY <2>1, MovedOn DEF j
  <2> QED BY <2>2
<1>9. g.a = b
  BY HeapOfIs
<1> HIDE DEF b, fs, g, a, i
<1> QED BY <1>7, <1>8, <1>9, OnwardIs DEF a, i

\* A step that moves the block that fits.
LEMMA FitStep ==
  ASSUME NEW h0, Good(h0), NEW w, Walks(h0, w), w.cx # 0, w.h.a[w.i].is = "free",
         ~w.still, ~MayMove(w.h.a, w.h.es, w.i - 1), Fitting(w) # 0
  PROVE  Onward(h0, w, Stepped(w))
<1> DEFINE a == w.h.a
           es == w.h.es
           i == w.i
           j == Fitting(w)
           e == a[j].entry
           to == FitTo(a, i, j)
           c == FitRow(a, i, j)
           s == FitSplit(a, i, j)
           b == Freed(c, j)
           k == Joins(c, j)
           fs == PlaceGiven(es, e, to)
           g == HeapOf(b, fs, w.h.spare, w.h.size)
           i2 == ((i + s) - k) - 1
<1>1. Resting(h0, w.h, i, w.best, w.still) /\ IsWalk(w) /\ w.cx = i
  BY DEF Walks
<1>2. Laid(a) /\ i \in 1 .. Len(a) /\ IsHeap(w.h) /\ w.cx \in Nat
  BY <1>1 DEF Resting, Shift, Good
<1>3. i \in FreeIn(a)
  BY <1>2, FreeAtIs
<1>4. j \in 1 .. i /\ MayMove(a, es, j) /\ Span(a, j) <= Span(a, i)
  BY <1>1, <1>2, <1>3, FittingIs
<1> HIDE DEF j
<1>5. Moving(a, es, i, j, to, s, c)
  BY <1>2, <1>3, <1>4, FitMoves
<1>6. Step(w) = Fit(w, j)
  BY DEF Step, j
<1>7. Fit(w, j) = WalkOf(g, IndexOf(b, to) - 1, w.cx + s - (Len(c) - Len(b)), w.best, w.still)
  BY <1>1, <1>2, FitIs
<1>8. GoesOn(i, s, k, i2)
  BY DEF GoesOn
<1> HIDE DEF c, to, s, i2
<1>9. /\ Resting(h0, g, i2, w.best, w.still)
      /\ Ahead(b, i2) + 6 <= Ahead(a, i)
      /\ k \in Int /\ s \in Int /\ Len(c) = Len(a) + s
      /\ Len(b) = (Len(a) + s) - k /\ IndexOf(b, to) = (i + s) - k
  <2>1. /\ Resting(h0, w.h, i, w.best, w.still) /\ Moving(w.h.a, w.h.es, i, j, to, s, c)
        /\ GoesOn(i, s, Joins(c, j), i2)
    BY <1>1, <1>5, <1>8
  <2> HIDE DEF i
  <2>2. Resting(h0, g, i2, w.best, w.still) /\ Ahead(b, i2) + 6 <= Ahead(a, i)
    BY <2>1, MovedOn
  <2>3. /\ k \in Int /\ s \in Int /\ Len(c) = Len(a) + s
        /\ Len(b) = (Len(a) + s) - k /\ IndexOf(b, to) = (i + s) - k
    <3>1. Counts(w.h.a, i, j, to, s, c)
      BY <2>1, MovedOn
    <3> QED BY <3>1 DEF Counts
  <2> QED BY <2>2, <2>3
<1>10. g.a = b
  BY HeapOfIs
<1> DEFINE n == w.cx + s - (Len(c) - Len(b))
<1>11. n - 1 = i2 /\ IndexOf(b, to) - 1 = i2
  <2>1. Len(a) \in Int /\ i \in Int
    BY <1>2, LaidIs
  <2> DEFINE la == Len(a)
             lb == Len(b)
             lc == Len(c)
  <2>2. /\ la \in Int /\ k \in Int /\ s \in Int /\ lc = la + s /\ lb = (la + s) - k
        /\ w.cx = i /\ n = w.cx + s - (lc - lb)
    BY <1>1, <1>9, <2>1
  <2> HIDE DEF la, lb, lc, k, n, i
  <2>3. n = i + s - k
    BY <2>1, <2>2
  <2>4. n - 1 = ((i + s) - k) - 1
    BY <2>1, <2>2, <2>3
  <2> QED BY <1>9, <2>4 DEF i2, k
<1>12. Step(w) = WalkOf(g, i2, n, w.best, w.still)
  BY <1>6, <1>7, <1>11
<1> HIDE DEF b, fs, g, a, n, i
<1>13. n - 1 = i2 \/ (n - 1 = 0 /\ i2 = 1)
  BY <1>11
<1>14. n - 1 = 0 \/ Ahead(g.a, i2) + 6 <= Ahead(w.h.a, w.i)
  BY <1>9, <1>10 DEF a, i
<1> QED BY <1>9, <1>12, <1>13, <1>14, OnwardIs

\* A step of a walk that is not at its end goes on.
LEMMA StepOnward ==
  ASSUME NEW h0, Good(h0), NEW w, Walks(h0, w), w.cx # 0
  PROVE  Onward(h0, w, Stepped(w))
<1>1. CASE w.h.a[w.i].is # "free"
  BY <1>1, BlockStep
<1>2. CASE w.h.a[w.i].is = "free" /\ ~w.still /\ MayMove(w.h.a, w.h.es, w.i - 1)
  BY <1>2, SlideStep
<1>3. CASE w.h.a[w.i].is = "free" /\ ~w.still /\ ~MayMove(w.h.a, w.h.es, w.i - 1) /\ Fitting(w) # 0
  BY <1>3, FitStep
<1>4. CASE w.h.a[w.i].is = "free" /\ (w.still \/ ~MayMove(w.h.a, w.h.es, w.i - 1))
           /\ (w.still \/ Fitting(w) = 0)
  BY <1>4, FreeStep
<1> QED BY <1>1, <1>2, <1>3, <1>4

\* A walk so many steps on.
StepsOf(g, n, w) ==
  g = [k \in 0 .. n |-> IF k = 0 THEN w ELSE Stepped(g[k - 1])]

\* The first steps are the same, however many follow.
LEMMA StepsOfAgree ==
  ASSUME NEW w, NEW g, NEW n \in Nat, StepsOf(g, n, w),
         NEW f, NEW m \in Nat, StepsOf(f, m, w), n <= m
  PROVE  \A k \in 0 .. n : g[k] = f[k]
<1> DEFINE T == {k \in 0 .. n : g[k] # f[k]}
<1>1. SUFFICES T = {}
  OBVIOUS
<1>2. SUFFICES ASSUME T # {} PROVE FALSE
  OBVIOUS
<1>3. T \subseteq Nat
  OBVIOUS
<1> HIDE DEF T
<1>4. PICK k \in T : \A l \in T : k <= l
  BY <1>2, <1>3, Least
<1>5. k \in 0 .. n /\ g[k] # f[k] /\ k \in 0 .. m /\ k \in Nat
  BY DEF T
<1>6. g[k] = IF k = 0 THEN w ELSE Stepped(g[k - 1])
  BY <1>5 DEF StepsOf
<1>7. f[k] = IF k = 0 THEN w ELSE Stepped(f[k - 1])
  BY <1>5 DEF StepsOf
<1>8. k # 0
  BY <1>5, <1>6, <1>7
<1>9. k - 1 \in 0 .. n /\ ~ (k <= k - 1)
  BY <1>5, <1>8
<1>10. k - 1 \notin T
  BY <1>4, <1>9
<1>11. g[k - 1] = f[k - 1]
  BY <1>9, <1>10 DEF T
<1> QED BY <1>5, <1>6, <1>7, <1>8, <1>11

\* There are so many steps.
LEMMA StepsOfExists ==
  ASSUME NEW w, NEW n \in Nat
  PROVE  \E g : StepsOf(g, n, w)
<1> DEFINE P(g, m) == StepsOf(g, m, w)
           T == {m \in Nat : ~ \E g : P(g, m)}
<1>1. SUFFICES ASSUME T # {} PROVE FALSE
  OBVIOUS
<1>2. T \subseteq Nat
  OBVIOUS
<1> HIDE DEF T
<1>3. PICK m \in T : \A l \in T : m <= l
  BY <1>1, <1>2, Least
<1>4. m \in Nat /\ ~ \E g : P(g, m)
  BY DEF T
<1>5. m # 0
  <2> DEFINE g == [k \in 0 .. 0 |-> w]
  <2>1. g = [k \in 0 .. 0 |-> IF k = 0 THEN w ELSE Stepped(g[k - 1])]
    OBVIOUS
  <2> HIDE DEF g
  <2>2. P(g, 0)
    BY <2>1 DEF StepsOf
  <2> QED BY <1>4, <2>2
<1>6. m - 1 \in Nat /\ ~ (m <= m - 1)
  BY <1>4, <1>5
<1>7. m - 1 \notin T
  BY <1>3, <1>6
<1>8. PICK g : P(g, m - 1)
  BY <1>6, <1>7 DEF T
<1> DEFINE f == [k \in 0 .. m |-> IF k = m THEN Stepped(g[m - 1]) ELSE g[k]]
<1>9. \A k \in 0 .. m : k # m => k \in 0 .. m - 1 /\ f[k] = g[k]
  BY <1>4
<1>10. f[m] = Stepped(f[m - 1])
  <2>1. m - 1 \in 0 .. m /\ m - 1 # m /\ m \in 0 .. m
    BY <1>4, <1>5
  <2>2. f[m - 1] = g[m - 1]
    BY <1>9, <2>1
  <2>3. f[m] = Stepped(g[m - 1])
    BY <2>1
  <2> HIDE DEF f
  <2> QED BY <2>2, <2>3
<1>11. \A k \in 0 .. m - 1 : g[k] = IF k = 0 THEN w ELSE Stepped(g[k - 1])
  BY <1>8 DEF StepsOf
<1>12. ASSUME NEW k \in 0 .. m
       PROVE  f[k] = IF k = 0 THEN w ELSE Stepped(f[k - 1])
  <2>1. CASE k = m
    BY <1>5, <1>10, <2>1
  <2>2. CASE k # m
    <3>1. k \in 0 .. m - 1 /\ f[k] = g[k]
      BY <1>9, <2>2
    <3>2. k # 0 => k - 1 \in 0 .. m /\ k - 1 # m
      BY <1>4, <3>1
    <3>3. k # 0 => f[k - 1] = g[k - 1]
      BY <1>9, <3>2
    <3>4. g[k] = IF k = 0 THEN w ELSE Stepped(g[k - 1])
      BY <1>11, <3>1
    <3> HIDE DEF f
    <3> QED BY <3>1, <3>3, <3>4
  <2> QED BY <2>1, <2>2
<1>13. f = [k \in 0 .. m |-> f[k]]
  OBVIOUS
<1> HIDE DEF f
<1>14. f = [k \in 0 .. m |-> IF k = 0 THEN w ELSE Stepped(f[k - 1])]
  BY <1>12, <1>13
<1>15. P(f, m)
  BY <1>14 DEF StepsOf
<1> QED BY <1>4, <1>15

\* The steps are as they are defined.
LEMMA WalkingIs ==
  ASSUME NEW w
  PROVE  /\ Walking(w)[0] = w
         /\ \A k \in Nat : Walking(w)[k + 1] = Stepped(Walking(w)[k])
<1> DEFINE P(g, m) == StepsOf(g, m, w)
           part == [n \in Nat |-> CHOOSE g : P(g, n)]
           f == [n \in Nat |-> part[n][n]]
<1>1. \A n \in Nat : P(part[n], n)
  BY StepsOfExists
<1> HIDE DEF part
<1>2. \A n \in Nat : f[n] = part[n][n]
  OBVIOUS
<1>3. ASSUME NEW n \in Nat
      PROVE  f[n] = IF n = 0 THEN w ELSE Stepped(f[n - 1])
  <2>1. part[n] = [k \in 0 .. n |-> IF k = 0 THEN w ELSE Stepped(part[n][k - 1])]
    BY <1>1 DEF StepsOf
  <2> DEFINE p == part[n]
  <2>2. n \in 0 .. n
    OBVIOUS
  <2> HIDE DEF p
  <2>3. p[n] = IF n = 0 THEN w ELSE Stepped(p[n - 1])
    BY <2>1, <2>2 DEF p
  <2>4. ASSUME n # 0 PROVE p[n - 1] = f[n - 1]
    <3>1. n - 1 \in Nat /\ n - 1 <= n /\ n - 1 \in 0 .. n - 1
      BY <2>4
    <3>2. P(part[n - 1], n - 1) /\ P(p, n)
      BY <1>1, <3>1 DEF p
    <3>3. part[n - 1][n - 1] = p[n - 1]
      BY <3>1, <3>2, StepsOfAgree
    <3> QED BY <1>2, <3>1, <3>3
  <2>5. f[n] = p[n]
    BY <1>2 DEF p
  <2> HIDE DEF f
  <2> QED BY <2>3, <2>4, <2>5
<1>4. f = [n \in Nat |-> f[n]]
  OBVIOUS
<1> HIDE DEF f
<1>5. f = [n \in Nat |-> IF n = 0 THEN w ELSE Stepped(f[n - 1])]
  BY <1>3, <1>4
<1> DEFINE h == CHOOSE h : h = [k \in Nat |-> IF k = 0 THEN w ELSE Stepped(h[k - 1])]
<1>6. h = [k \in Nat |-> IF k = 0 THEN w ELSE Stepped(h[k - 1])]
  BY <1>5
<1>7. Walking(w) = h
  BY DEF Walking
<1> HIDE DEF h
<1>8. h[0] = w
  BY <1>6
<1>9. ASSUME NEW k \in Nat PROVE h[k + 1] = Stepped(h[k])
  <2>1. k + 1 \in Nat /\ k + 1 # 0 /\ (k + 1) - 1 = k
    OBVIOUS
  <2>2. h[k + 1] = Stepped(h[(k + 1) - 1])
    BY <1>6, <2>1
  <2> QED BY <2>1, <2>2
<1> QED BY <1>7, <1>8, <1>9

\* So many steps of six bytes are past the whole of a heap.
LEMMA Enough ==
  ASSUME NEW first \in Int, NEW last \in Int, first + 12 <= last,
         NEW n, n = (last + 10 - first) \div 6, NEW p \in Int, first + 12 <= p
  PROVE  n \in Nat /\ ~ (p + 6 * n <= last + 12)
OBVIOUS

\* A heap walked, to its end.
LEMMA WalkedIs ==
  ASSUME NEW h, Good(h), NEW still \in BOOLEAN
  PROVE  LET v == Walked(h, still)
         IN IsWalk(v) /\ v.still = still /\ Resting(h, v.h, 1, v.best, still)
<1> DEFINE w == WalkOf(h, Len(h.a), Len(h.a), 0, still)
           W == Walking(w)
           top == Last(h.a).at
           first == InitialArenas[1].at
           N == Whole(h.a) \div 6
           Fine(k) == /\ Walks(h, W[k]) /\ W[k].still = still
                      /\ W[k].cx = 0 \/ Ahead(W[k].h.a, W[k].i) + 6 * k <= top + 12
<1>1. Laid(h.a) /\ Len(h.a) \in Nat /\ Len(h.a) >= 3
  BY LaidIs DEF Good
<1>2. IsWalk(w) /\ w.h = h /\ w.i = Len(h.a) /\ w.cx = Len(h.a) /\ w.best = 0 /\ w.still = still
  BY WalkOfIs
<1>3. Walked(h, still) = W[N]
  BY <1>2 DEF Walked, Walk, WalkOf
<1>4. W[0] = w /\ \A k \in Nat : W[k + 1] = Stepped(W[k])
  BY WalkingIs
<1> HIDE DEF w, W
<1>5. Walks(h, w)
  <2>1. \A f \in FreeIn(h.a) : f <= Len(h.a) /\ ~ (f > Len(h.a))
    BY <1>1 DEF FreeIn
  <2>2. BestLeft(h.a, Len(h.a), 0)
    BY <2>1 DEF BestLeft
  <2>3. NoneBelow(h.a, h.es, Len(h.a))
    BY <2>1 DEF NoneBelow
  <2>4. Shift(h, h) /\ Len(h.a) \in 1 .. Len(h.a)
    BY <1>1, ShiftSelf
  <2>5. Resting(h, h, Len(h.a), 0, still)
    BY <2>2, <2>3, <2>4 DEF Resting
  <2> QED BY <1>2, <2>5 DEF Walks
<1>6. /\ first \in Int /\ top \in Int /\ first + 12 <= top /\ h.a[1].at = first
      /\ Whole(h.a) = top + 10 - first
  <2>1. h.a[1] = InitialArenas[1] /\ Last(h.a) = h.a[Len(h.a)]
    BY <1>1, LaidIs DEF Laid
  <2>2. 1 \in 1 .. Len(h.a) /\ Len(h.a) \in 1 .. Len(h.a) /\ 1 < Len(h.a)
    BY <1>1
  <2>3. h.a[1].at + 12 <= h.a[Len(h.a)].at
    BY <1>1, <2>2, Rising
  <2>4. h.a[1].at \in Nat /\ h.a[Len(h.a)].at \in Nat
    BY <1>1, <2>2, LaidIs
  <2> QED BY <2>1, <2>3, <2>4 DEF Whole
<1> HIDE DEF top, first
<1>7. Fine(0)
  <2>1. Ahead(h.a, Len(h.a)) = top + 12
    BY DEF Ahead, top
  <2>2. Ahead(h.a, Len(h.a)) + 6 * 0 <= top + 12
    BY <1>6, <2>1
  <2> QED BY <1>2, <1>4, <1>5, <2>2
<1>8. ASSUME NEW k \in Nat, Fine(k) PROVE Fine(k + 1)
  <2>1. CASE W[k].cx = 0
    <3>1. W[k + 1] = W[k]
      BY <1>4, <2>1 DEF Stepped
    <3> QED BY <1>8, <2>1, <3>1
  <2>2. CASE W[k].cx # 0
    <3> DEFINE u == W[k]
               v == W[k + 1]
               p == Ahead(u.h.a, u.i)
               q == Ahead(v.h.a, v.i)
    <3>1. Onward(h, u, v)
      BY <1>4, <1>8, <2>2, StepOnward
    <3>2. Walks(h, v) /\ v.still = still
      BY <1>8, <3>1 DEF Onward
    <3>3. v.cx = 0 \/ q + 6 <= p
      BY <3>1 DEF Onward
    <3>4. p + 6 * k <= top + 12
      BY <1>8, <2>2
    <3>5. p \in Int /\ q \in Int
      <4>1. /\ Laid(u.h.a) /\ u.i \in 1 .. Len(u.h.a)
            /\ Laid(v.h.a) /\ v.i \in 1 .. Len(v.h.a)
        BY <1>8, <3>2 DEF Walks, Resting, Shift, Good
      <4> HIDE DEF u, v
      <4> QED BY <4>1, AheadIs
    <3>6. v.cx = 0 \/ q + 6 * (k + 1) <= top + 12
      <4> HIDE DEF p, q
      <4> QED BY <1>6, <3>3, <3>4, <3>5
    <3> QED BY <3>2, <3>6
  <2> QED BY <2>1, <2>2
<1> DEFINE T == {k \in Nat : ~ Fine(k)}
<1>9. T = {}
  <2> SUFFICES ASSUME T # {} PROVE FALSE
    OBVIOUS
  <2>1. T \subseteq Nat
    OBVIOUS
  <2> HIDE DEF T
  <2>2. PICK k \in T : \A l \in T : k <= l
    BY <2>1, Least
  <2>3. k \in Nat /\ ~Fine(k)
    BY DEF T
  <2> HIDE DEF Fine
  <2>4. k # 0
    BY <1>7, <2>3
  <2>5. k - 1 \in Nat /\ ~ (k <= k - 1) /\ (k - 1) + 1 = k
    BY <2>3, <2>4
  <2>6. k - 1 \notin T
    BY <2>2, <2>5
  <2>7. Fine(k - 1)
    BY <2>5, <2>6 DEF T
  <2> QED BY <1>8, <2>3, <2>5, <2>7
<1>10. N = (top + 10 - first) \div 6
  BY <1>6
<1> HIDE DEF N
<1>11. N \in Nat
  BY <1>6, <1>10, Enough
<1>12. Fine(N)
  BY <1>9, <1>11
<1> DEFINE v == W[N]
<1>13. Walks(h, v) /\ v.still = still /\ (v.cx = 0 \/ Ahead(v.h.a, v.i) + 6 * N <= top + 12)
  BY <1>12
<1> HIDE DEF v
<1>14. Laid(v.h.a) /\ v.i \in 1 .. Len(v.h.a) /\ IsWalk(v) /\ Resting(h, v.h, v.i, v.best, v.still)
  BY <1>13 DEF Walks, Resting, Shift, Good
<1>15. v.cx = 0
  <2> DEFINE p == Ahead(v.h.a, v.i)
  <2>1. p \in Nat /\ p >= v.h.a[v.i].at + 12 /\ v.h.a[v.i].at \in Nat
    BY <1>14, AheadIs
  <2>2. first <= v.h.a[v.i].at
    <3>1. v.h.a[1].at = first /\ v.i \in Nat /\ v.i >= 1 /\ Len(v.h.a) \in Nat /\ Len(v.h.a) >= 3
      BY <1>14, LaidIs DEF Laid, first
    <3>2. CASE v.i = 1
      BY <2>1, <3>1, <3>2
    <3>3. CASE v.i # 1
      <4>1. 1 \in 1 .. Len(v.h.a) /\ 1 < v.i
        BY <3>1, <3>3
      <4>2. v.h.a[1].at + 12 <= v.h.a[v.i].at
        BY <1>14, <4>1, Rising
      <4> QED BY <1>6, <2>1, <3>1, <4>2, SMTT(20)
    <3> QED BY <3>2, <3>3
  <2>3. p \in Int /\ first + 12 <= p
    <3> HIDE DEF p
    <3> QED BY <1>6, <2>1, <2>2
  <2>4. ~ (p + 6 * N <= top + 12)
    BY <1>6, <1>10, <2>3, Enough
  <2> QED BY <1>13, <2>4
<1>16. v.i = 1
  <2>1. v.cx = v.i \/ v.i = 1
    BY <1>13 DEF Walks
  <2> QED BY <1>14, <1>15, <2>1
<1>17. IsWalk(v) /\ v.still = still /\ Resting(h, v.h, 1, v.best, still)
  BY <1>13, <1>14, <1>16
<1> QED BY <1>3, <1>17 DEF v

-----------------------------------------------------------------------------
(* Handles spared, and blocks discarded.                                   *)
\* Handles after a compaction: blocks may be moved, if they are not locked, and
\* discarded, those of higher levels first.
Gone(es, fs, e) == es[e].at # 0 /\ fs[e].at = 0
Spared(es, fs) ==
  /\ Alike(es, fs)
  /\ \A e \in DOMAIN es :
       /\ es[e].locks > 0 => fs[e].at = es[e].at
       /\ es[e].at = 0 => fs[e].at = 0
       /\ Gone(es, fs, e) => Discardable(es[e])
  /\ \A e, d \in DOMAIN es :
       Gone(es, fs, e) /\ Discardable(es[d]) /\ es[d].level > es[e].level => fs[d].at = 0

\* Handles the same but for their places, twice.
LEMMA AlikeTwice ==
  ASSUME NEW es \in Seq(HandleEntry), NEW fs, NEW gs, Alike(es, fs), Alike(fs, gs)
  PROVE  Alike(es, gs)
<1>1. DOMAIN fs = DOMAIN es /\ fs \in Seq(HandleEntry)
  BY AlikeDomain DEF Alike
<1>2. gs \in Seq(HandleEntry) /\ Len(gs) = Len(es)
  BY DEF Alike
<1>3. ASSUME NEW e \in DOMAIN es
      PROVE  /\ gs[e].used = es[e].used /\ gs[e].level = es[e].level /\ gs[e].locks = es[e].locks
             /\ es[e].used \/ gs[e] = es[e]
  <2>1. /\ fs[e].used = es[e].used /\ fs[e].level = es[e].level /\ fs[e].locks = es[e].locks
        /\ es[e].used \/ fs[e] = es[e]
    BY DEF Alike
  <2>2. /\ gs[e].used = fs[e].used /\ gs[e].level = fs[e].level /\ gs[e].locks = fs[e].locks
        /\ fs[e].used \/ gs[e] = fs[e]
    BY <1>1 DEF Alike
  <2> QED BY <2>1, <2>2
<1> QED BY <1>2, <1>3 DEF Alike

\* Handles spared twice.
LEMMA SparedTwice ==
  ASSUME NEW es \in Seq(HandleEntry), NEW fs, NEW gs, Spared(es, fs), Spared(fs, gs)
  PROVE  Spared(es, gs)
<1>1. Alike(es, fs) /\ Alike(fs, gs)
  BY DEF Spared
<1>2. Alike(es, gs)
  BY <1>1, AlikeTwice
<1>3. DOMAIN fs = DOMAIN es
  BY <1>1, AlikeDomain
<1>4. \A e \in DOMAIN es :
        fs[e].used = es[e].used /\ fs[e].level = es[e].level /\ fs[e].locks = es[e].locks
  BY <1>1 DEF Alike
<1>5. \A d \in DOMAIN es : Discardable(fs[d]) <=> Discardable(es[d]) /\ fs[d].at # 0
  <2> SUFFICES ASSUME NEW d \in DOMAIN es
               PROVE  Discardable(fs[d]) <=> Discardable(es[d]) /\ fs[d].at # 0
    OBVIOUS
  <2>1. fs[d].used = es[d].used /\ fs[d].level = es[d].level /\ fs[d].locks = es[d].locks
        /\ (es[d].at = 0 => fs[d].at = 0)
    BY <1>4 DEF Spared
  <2> QED BY <2>1 DEF Discardable
<1>6. ASSUME NEW e \in DOMAIN es
      PROVE  /\ es[e].locks > 0 => gs[e].at = es[e].at
             /\ es[e].at = 0 => gs[e].at = 0
             /\ Gone(es, gs, e) => Discardable(es[e])
  <2>1. /\ es[e].locks > 0 => fs[e].at = es[e].at
        /\ es[e].at = 0 => fs[e].at = 0
        /\ Gone(es, fs, e) => Discardable(es[e])
    BY DEF Spared
  <2>2. /\ fs[e].locks > 0 => gs[e].at = fs[e].at
        /\ fs[e].at = 0 => gs[e].at = 0
        /\ Gone(fs, gs, e) => Discardable(fs[e])
    BY <1>3 DEF Spared
  <2>3. fs[e].locks = es[e].locks
    BY <1>4
  <2> QED BY <1>5, <2>1, <2>2, <2>3 DEF Gone
<1>7. ASSUME NEW e \in DOMAIN es, NEW d \in DOMAIN es, Gone(es, gs, e), Discardable(es[d]),
             es[d].level > es[e].level
      PROVE  gs[d].at = 0
  <2>1. fs[d].at = 0 => gs[d].at = 0
    BY <1>3 DEF Spared
  <2>2. CASE Gone(es, fs, e)
    <3>1. fs[d].at = 0
      BY <1>7, <2>2 DEF Spared
    <3> QED BY <2>1, <3>1
  <2>3. CASE ~Gone(es, fs, e) /\ fs[d].at # 0
    <3>1. Gone(fs, gs, e)
      BY <1>7, <2>3 DEF Gone
    <3>2. Discardable(fs[d])
      BY <1>5, <1>7, <2>3
    <3>3. fs[d].level > fs[e].level
      BY <1>4, <1>7
    <3> QED BY <1>3, <3>1, <3>2, <3>3 DEF Spared
  <2> QED BY <2>1, <2>2, <2>3
<1> QED BY <1>2, <1>6, <1>7 DEF Spared

\* Blocks moved spare the handles, and none may be discarded that might not.
LEMMA ShiftedSpared ==
  ASSUME NEW es, NEW fs, Shifted(es, fs)
  PROVE  Spared(es, fs) /\ \A e \in DOMAIN es : Discardable(fs[e]) <=> Discardable(es[e])
<1>1. Alike(es, fs)
  BY DEF Shifted
<1>2. \A e \in DOMAIN es :
        (es[e].locks > 0 => fs[e].at = es[e].at) /\ (fs[e].at = 0 <=> es[e].at = 0)
  BY DEF Shifted
<1>3. \A e \in DOMAIN es : ~Gone(es, fs, e)
  BY <1>2 DEF Gone
<1>4. ASSUME NEW e \in DOMAIN es PROVE Discardable(fs[e]) <=> Discardable(es[e])
  <2>1. fs[e].used = es[e].used /\ fs[e].level = es[e].level /\ fs[e].locks = es[e].locks
    BY <1>1 DEF Alike
  <2> QED BY <1>2, <2>1 DEF Discardable
<1> QED BY <1>1, <1>2, <1>3, <1>4 DEF Spared

\* Nothing that may be discarded, of a level or a higher one.
NoneFrom(es, level) == \A e \in DOMAIN es : Discardable(es[e]) => es[e].level < level
None(es) == \A e \in DOMAIN es : ~Discardable(es[e])

\* A heap compacted, with blocks discarded or without.
Comes(h, g) ==
  /\ Good(g) /\ g.spare = h.spare /\ g.size = h.size
  /\ Last(g.a) = Last(h.a) /\ Solid(g.a) = Solid(h.a)
  /\ Spared(h.es, g.es)
  /\ Apart(h.a) => Apart(g.a)

\* A heap compacted twice.
LEMMA ComesTwice ==
  ASSUME NEW h, Good(h), NEW g, NEW k, Comes(h, g), Comes(g, k)
  PROVE  Comes(h, k)
<1>1. h.es \in Seq(HandleEntry)
  BY DEF Good
<1>2. Spared(h.es, g.es) /\ Spared(g.es, k.es)
  BY DEF Comes
<1>3. Spared(h.es, k.es)
  BY <1>1, <1>2, SparedTwice
<1> QED BY <1>3 DEF Comes

\* Blocks moved are a heap compacted.
LEMMA ShiftComes ==
  ASSUME NEW h, Good(h), NEW g, Shift(h, g)
  PROVE  /\ Comes(h, g) /\ (None(h.es) => None(g.es))
         /\ \A level : NoneFrom(h.es, level) => NoneFrom(g.es, level)
<1>1. Shifted(h.es, g.es) /\ h.es \in Seq(HandleEntry)
  BY DEF Shift, Good
<1>2. Spared(h.es, g.es) /\ \A e \in DOMAIN h.es : Discardable(g.es[e]) <=> Discardable(h.es[e])
  BY <1>1, ShiftedSpared
<1>3. Alike(h.es, g.es)
  BY <1>2 DEF Spared
<1>4. DOMAIN g.es = DOMAIN h.es
  BY <1>1, <1>3, AlikeDomain
<1>5. \A e \in DOMAIN h.es : g.es[e].level = h.es[e].level
  BY <1>3 DEF Alike
<1>6. Comes(h, g)
  BY <1>2 DEF Comes, Shift
<1> QED BY <1>2, <1>4, <1>5, <1>6 DEF None, NoneFrom

\* With nothing to discard, nothing comes to be.
LEMMA SparedNone ==
  ASSUME NEW es \in Seq(HandleEntry), NEW fs, Spared(es, fs), None(es)
  PROVE  None(fs)
<1>1. Alike(es, fs)
  BY DEF Spared
<1>2. DOMAIN fs = DOMAIN es
  BY <1>1, AlikeDomain
<1>3. \A e \in DOMAIN es : es[e].at = 0 => fs[e].at = 0
  BY DEF Spared
<1>4. ASSUME NEW e \in DOMAIN es PROVE ~Discardable(fs[e])
  <2>1. fs[e].used = es[e].used /\ fs[e].level = es[e].level /\ fs[e].locks = es[e].locks
    BY <1>1 DEF Alike
  <2>2. ~Discardable(es[e])
    BY DEF None
  <2> QED BY <1>3, <2>1, <2>2 DEF Discardable
<1> QED BY <1>2, <1>4 DEF None

\* A handle whose block is discarded.
Blockless(x) == [x EXCEPT !.at = 0]

\* What a handle without a block is.
LEMMA BlocklessIs ==
  ASSUME NEW x \in HandleEntry
  PROVE  /\ Blockless(x) \in HandleEntry /\ Blockless(x).at = 0 /\ Blockless(x).used = x.used
         /\ Blockless(x).level = x.level /\ Blockless(x).locks = x.locks
<1>1. 0 \in 0 .. Highest
  BY HighestIs
<1> QED BY <1>1 DEF HandleEntry, Blockless

\* The blocks of a level discarded, of the first so many handles.
Picked(es, n, level, e) == e <= n /\ Discardable(es[e]) /\ es[e].level = level
Rid(es, n, level, fs) ==
  /\ fs \in Seq(HandleEntry) /\ Len(fs) = Len(es)
  /\ \A e \in DOMAIN es :
       fs[e] = IF Picked(es, n, level, e) THEN Blockless(es[e]) ELSE es[e]

\* What there is of a heap then.
Ridden(h, n, level, g) ==
  /\ Good(g) /\ g.spare = h.spare /\ g.size = h.size
  /\ Last(g.a) = Last(h.a) /\ Solid(g.a) = Solid(h.a)
  /\ Rid(h.es, n, level, g.es)
  /\ Apart(h.a) => Apart(g.a)

\* A block that a handle has is an arena of its own.
LEMMA BlockIs ==
  ASSUME NEW h, Good(h), NEW e \in DOMAIN h.es, h.es[e].at # 0
  PROVE  /\ h.es[e].at \in Nat /\ h.es[e].at - 6 \in Nat /\ h.es[e].used
         /\ NewArena(h.es[e].at - 6, "moveable", e) \in Used(h.a)
         /\ IndexOf(h.a, h.es[e].at - 6) \in 3 .. Len(h.a) - 1
         /\ h.a[IndexOf(h.a, h.es[e].at - 6)] = NewArena(h.es[e].at - 6, "moveable", e)
<1> DEFINE at == h.es[e].at - 6
           x == NewArena(at, "moveable", e)
           i == IndexOf(h.a, at)
<1>1. Laid(h.a) /\ Agree(Used(h.a), h.es)
  BY DEF Good
<1>2. x \in Used(h.a)
  BY <1>1 DEF Agree
<1>3. x.at = at /\ x.is = "moveable" /\ x.entry = e
  BY FieldsAre
<1> HIDE DEF x
<1>4. x \in ToSet(h.a)
  BY <1>2 DEF Used
<1>5. i \in 1 .. Len(h.a) /\ h.a[i] = x /\ x.at \in Nat
  BY <1>1, <1>3, <1>4, MemberIs
<1>6. h.es[e].at \in Nat /\ h.es[e].used
  BY EntryIs
<1>7. i \in 3 .. Len(h.a) - 1
  <2>1. h.a[1].is = "kernel" /\ h.a[2].is = "kernel" /\ h.a[Len(h.a)].is = "kernel"
        /\ Len(h.a) \in Nat
    BY <1>1, LaidIs DEF Laid
  <2>2. i # 1 /\ i # 2 /\ i # Len(h.a)
    BY <1>3, <1>5, <2>1
  <2> QED BY <1>5, <2>1, <2>2
<1> QED BY <1>2, <1>3, <1>5, <1>6, <1>7 DEF x

\* A handle's block taken out, and its place with it.
LEMMA BlockDropped ==
  ASSUME NEW h, Good(h), NEW e \in DOMAIN h.es, h.es[e].at # 0, NEW at, at = h.es[e].at - 6
  PROVE  LET b == Freed(h.a, IndexOf(h.a, at))
             x == NewArena(at, "moveable", e)
             fs == [h.es EXCEPT ![e] = Blockless(@)]
         IN /\ Laid(b) /\ Last(b) = Last(h.a) /\ Solid(b) = Solid(h.a)
            /\ Used(b) = Used(h.a) \ {x} /\ (Apart(h.a) => Apart(b))
            /\ Good(HeapOf(b, fs, h.spare, h.size)) /\ Alike(h.es, fs)
            /\ DOMAIN fs = DOMAIN h.es /\ fs[e] = Blockless(h.es[e])
            /\ \A d \in DOMAIN h.es : d # e => fs[d] = h.es[d]
<1> DEFINE i == IndexOf(h.a, at)
           b == Freed(h.a, i)
           x == NewArena(at, "moveable", e)
           fs == [h.es EXCEPT ![e] = Blockless(@)]
<1>1. Laid(h.a) /\ Agree(Used(h.a), h.es) /\ h.es \in Seq(HandleEntry)
  BY DEF Good
<1>2. x \in Used(h.a) /\ i \in 3 .. Len(h.a) - 1 /\ h.a[i] = x /\ h.es[e].at \in Nat /\ h.es[e].used
  BY BlockIs
<1>3. x.is = "moveable" /\ x.is # "free"
  BY FieldsAre
<1>4. b = Freed(h.a, i)
  OBVIOUS
<1> HIDE DEF i, b
<1>5. Laid(b) /\ Last(b) = Last(h.a) /\ Used(b) = Used(h.a) \ {x} /\ (Apart(h.a) => Apart(b))
  <2> HIDE DEF x
  <2> QED BY <1>1, <1>2, <1>3, <1>4, FreedKeeps
<1>6. Solid(b) = Solid(h.a)
  BY <1>3, <1>5 DEF Solid
<1>7. h.es[e] \in HandleEntry
  BY EntryIs
<1>8. /\ Blockless(h.es[e]) \in HandleEntry /\ Blockless(h.es[e]).at = 0
      /\ Blockless(h.es[e]).used = h.es[e].used
      /\ Blockless(h.es[e]).level = h.es[e].level /\ Blockless(h.es[e]).locks = h.es[e].locks
  BY <1>7, BlocklessIs
<1>9. /\ fs \in Seq(HandleEntry) /\ Len(fs) = Len(h.es) /\ DOMAIN fs = DOMAIN h.es
      /\ fs[e] = Blockless(h.es[e]) /\ \A d \in DOMAIN h.es : d # e => fs[d] = h.es[d]
  BY <1>1, <1>8
<1> HIDE DEF fs
<1>10. Alike(h.es, fs)
  BY <1>2, <1>8, <1>9 DEF Alike
<1>11. Agree(Used(b), fs)
  <2>1. Used(h.a) \subseteq Arena
    BY <1>1, MemberIs DEF Used
  <2>2. fs[e].at = 0
    BY <1>8, <1>9
  <2> DEFINE U == Used(h.a)
             es == h.es
  <2>3. /\ U \subseteq Arena /\ Agree(U, es) /\ e \in DOMAIN es /\ es[e].at \in Nat
        /\ DOMAIN fs = DOMAIN es /\ (\A d \in DOMAIN es : d # e => fs[d] = es[d]) /\ fs[e].at = 0
    BY <1>1, <1>2, <1>9, <2>1, <2>2
  <2> HIDE DEF U, es
  <2>4. Agree(U \ {NewArena(es[e].at - 6, "moveable", e)}, fs)
    BY <2>3, AgreeDropped
  <2>5. Agree(Used(h.a) \ {x}, fs)
    BY <2>4 DEF U, es
  <2> QED BY <1>5, <2>5
<1>12. Good(HeapOf(b, fs, h.spare, h.size))
  BY <1>5, <1>10, <1>11, GoodMoved
<1> QED BY <1>5, <1>6, <1>9, <1>10, <1>12 DEF b, i, fs

\* One handle more.
LEMMA DiscardedIs ==
  ASSUME NEW h, Good(h), NEW n \in Nat, n + 1 \in DOMAIN h.es, NEW level, NEW g,
         Ridden(h, n, level, g)
  PROVE  Ridden(h, n + 1, level, Discarded(g, n + 1, level))
<1> DEFINE e == n + 1
<1>1. Good(g) /\ Rid(h.es, n, level, g.es) /\ h.es \in Seq(HandleEntry) /\ IsHeap(g)
      /\ g.es \in Seq(HandleEntry)
  BY DEF Ridden, Good
<1>2. DOMAIN g.es = DOMAIN h.es /\ Len(g.es) = Len(h.es) /\ DOMAIN h.es = 1 .. Len(h.es)
  BY <1>1 DEF Rid
<1>3. ~Picked(h.es, n, level, e) /\ g.es[e] = h.es[e]
  <2>1. ~ (e <= n)
    OBVIOUS
  <2> QED BY <1>1, <2>1 DEF Rid, Picked
<1>4. \A d \in DOMAIN h.es : d # e => (Picked(h.es, e, level, d) <=> Picked(h.es, n, level, d))
  <2>1. \A d \in DOMAIN h.es : d # e => (d <= e <=> d <= n)
    BY <1>1
  <2> QED BY <2>1 DEF Picked
<1>5. CASE ~ (Discardable(g.es[e]) /\ g.es[e].level = level)
  <2>1. Discarded(g, e, level) = g
    BY <1>5 DEF Discarded
  <2>2. ~Picked(h.es, e, level, e)
    BY <1>3, <1>5 DEF Picked
  <2>3. ASSUME NEW d \in DOMAIN h.es
        PROVE  g.es[d] = IF Picked(h.es, e, level, d) THEN Blockless(h.es[d]) ELSE h.es[d]
    <3>1. CASE d = e
      BY <1>3, <2>2, <3>1
    <3>2. CASE d # e
      BY <1>1, <1>4, <3>2 DEF Rid
    <3> QED BY <3>1, <3>2
  <2>4. Rid(h.es, e, level, g.es)
    BY <1>1, <2>3 DEF Rid
  <2> QED BY <2>1, <2>4 DEF Ridden
<1>6. CASE Discardable(g.es[e]) /\ g.es[e].level = level
  <2> DEFINE at == g.es[e].at - 6
             b == Freed(g.a, IndexOf(g.a, at))
             x == NewArena(at, "moveable", e)
             fs == [g.es EXCEPT ![e] = Blockless(@)]
             k == HeapOf(b, fs, g.spare, g.size)
  <2>1. g.es[e].at # 0 /\ e \in DOMAIN g.es
    BY <1>2, <1>6 DEF Discardable
  <2>2. /\ Laid(b) /\ Last(b) = Last(g.a) /\ Solid(b) = Solid(g.a)
        /\ (Apart(g.a) => Apart(b))
        /\ Good(k) /\ Alike(g.es, fs)
        /\ DOMAIN fs = DOMAIN g.es /\ fs[e] = Blockless(g.es[e])
        /\ \A d \in DOMAIN g.es : d # e => fs[d] = g.es[d]
    BY <1>1, <2>1, BlockDropped
  <2>3. Discarded(g, e, level) = [g EXCEPT !.a = b, !.es[e].at = 0]
    BY <1>6 DEF Discarded
  <2> HIDE DEF b
  <2>4. [g EXCEPT !.a = b, !.es[e].at = 0] = [g EXCEPT !.a = b, !.es = fs]
    BY DEF Blockless
  <2> HIDE DEF fs
  <2>5. [g EXCEPT !.a = b, !.es = fs] = k
    BY <1>1, ChangedIs
  <2>6. Discarded(g, e, level) = k
    BY <2>3, <2>4, <2>5
  <2>7. k.a = b /\ k.es = fs /\ k.spare = g.spare /\ k.size = g.size
    BY HeapOfIs
  <2>8. Picked(h.es, e, level, e)
    BY <1>3, <1>6 DEF Picked
  <2>9. ASSUME NEW d \in DOMAIN h.es
        PROVE  fs[d] = IF Picked(h.es, e, level, d) THEN Blockless(h.es[d]) ELSE h.es[d]
    <3>1. CASE d = e
      BY <1>3, <2>2, <2>8, <3>1
    <3>2. CASE d # e
      <4>1. g.es[d] = IF Picked(h.es, n, level, d) THEN Blockless(h.es[d]) ELSE h.es[d]
        BY <1>1 DEF Rid
      <4> QED BY <1>2, <1>4, <2>2, <3>2, <4>1
    <3> QED BY <3>1, <3>2
  <2>10. fs \in Seq(HandleEntry) /\ Len(fs) = Len(h.es)
    BY <1>2, <2>2 DEF Alike
  <2>11. Rid(h.es, e, level, fs)
    BY <2>9, <2>10 DEF Rid
  <2> HIDE DEF k
  <2>12. Ridden(h, e, level, k)
    BY <2>2, <2>7, <2>11 DEF Ridden
  <2> QED BY <2>6, <2>12
<1> QED BY <1>5, <1>6

\* Blocks of a level discarded, of so many handles.
DiscardsOf(g, n, h0, level) ==
  g = [k \in 0 .. n |-> IF k = 0 THEN h0 ELSE Discarded(g[k - 1], k, level)]

\* The first handles come out the same, however many follow.
LEMMA DiscardsOfAgree ==
  ASSUME NEW h0, NEW level, NEW g, NEW n \in Nat, DiscardsOf(g, n, h0, level),
         NEW f, NEW m \in Nat, DiscardsOf(f, m, h0, level), n <= m
  PROVE  \A k \in 0 .. n : g[k] = f[k]
<1> DEFINE T == {k \in 0 .. n : g[k] # f[k]}
<1>1. SUFFICES T = {}
  OBVIOUS
<1>2. SUFFICES ASSUME T # {} PROVE FALSE
  OBVIOUS
<1>3. T \subseteq Nat
  OBVIOUS
<1> HIDE DEF T
<1>4. PICK k \in T : \A l \in T : k <= l
  BY <1>2, <1>3, Least
<1>5. k \in 0 .. n /\ g[k] # f[k] /\ k \in 0 .. m /\ k \in Nat
  BY DEF T
<1>6. g[k] = IF k = 0 THEN h0 ELSE Discarded(g[k - 1], k, level)
  BY <1>5 DEF DiscardsOf
<1>7. f[k] = IF k = 0 THEN h0 ELSE Discarded(f[k - 1], k, level)
  BY <1>5 DEF DiscardsOf
<1>8. k # 0
  BY <1>5, <1>6, <1>7
<1>9. k - 1 \in 0 .. n /\ ~ (k <= k - 1)
  BY <1>5, <1>8
<1>10. k - 1 \notin T
  BY <1>4, <1>9
<1>11. g[k - 1] = f[k - 1]
  BY <1>9, <1>10 DEF T
<1> QED BY <1>5, <1>6, <1>7, <1>8, <1>11

\* There are so many handles done.
LEMMA DiscardsOfExists ==
  ASSUME NEW h0, NEW level, NEW n \in Nat
  PROVE  \E g : DiscardsOf(g, n, h0, level)
<1> DEFINE P(g, m) == DiscardsOf(g, m, h0, level)
           T == {m \in Nat : ~ \E g : P(g, m)}
<1>1. SUFFICES ASSUME T # {} PROVE FALSE
  OBVIOUS
<1>2. T \subseteq Nat
  OBVIOUS
<1> HIDE DEF T
<1>3. PICK m \in T : \A l \in T : m <= l
  BY <1>1, <1>2, Least
<1>4. m \in Nat /\ ~ \E g : P(g, m)
  BY DEF T
<1>5. m # 0
  <2> DEFINE g == [k \in 0 .. 0 |-> h0]
  <2>1. g = [k \in 0 .. 0 |-> IF k = 0 THEN h0 ELSE Discarded(g[k - 1], k, level)]
    OBVIOUS
  <2> HIDE DEF g
  <2>2. P(g, 0)
    BY <2>1 DEF DiscardsOf
  <2> QED BY <1>4, <2>2
<1>6. m - 1 \in Nat /\ ~ (m <= m - 1)
  BY <1>4, <1>5
<1>7. m - 1 \notin T
  BY <1>3, <1>6
<1>8. PICK g : P(g, m - 1)
  BY <1>6, <1>7 DEF T
<1> DEFINE f == [k \in 0 .. m |-> IF k = m THEN Discarded(g[m - 1], m, level) ELSE g[k]]
<1>9. \A k \in 0 .. m : k # m => k \in 0 .. m - 1 /\ f[k] = g[k]
  BY <1>4
<1>10. f[m] = Discarded(f[m - 1], m, level)
  <2>1. m - 1 \in 0 .. m /\ m - 1 # m /\ m \in 0 .. m
    BY <1>4, <1>5
  <2>2. f[m - 1] = g[m - 1]
    BY <1>9, <2>1
  <2>3. f[m] = Discarded(g[m - 1], m, level)
    BY <2>1
  <2> HIDE DEF f
  <2> QED BY <2>2, <2>3
<1>11. \A k \in 0 .. m - 1 : g[k] = IF k = 0 THEN h0 ELSE Discarded(g[k - 1], k, level)
  BY <1>8 DEF DiscardsOf
<1>12. ASSUME NEW k \in 0 .. m
       PROVE  f[k] = IF k = 0 THEN h0 ELSE Discarded(f[k - 1], k, level)
  <2>1. CASE k = m
    BY <1>5, <1>10, <2>1
  <2>2. CASE k # m
    <3>1. k \in 0 .. m - 1 /\ f[k] = g[k]
      BY <1>9, <2>2
    <3>2. k # 0 => k - 1 \in 0 .. m /\ k - 1 # m
      BY <1>4, <3>1
    <3>3. k # 0 => f[k - 1] = g[k - 1]
      BY <1>9, <3>2
    <3>4. g[k] = IF k = 0 THEN h0 ELSE Discarded(g[k - 1], k, level)
      BY <1>11, <3>1
    <3> HIDE DEF f
    <3> QED BY <3>1, <3>3, <3>4
  <2> QED BY <2>1, <2>2
<1>13. f = [k \in 0 .. m |-> f[k]]
  OBVIOUS
<1> HIDE DEF f
<1>14. f = [k \in 0 .. m |-> IF k = 0 THEN h0 ELSE Discarded(f[k - 1], k, level)]
  BY <1>12, <1>13
<1>15. P(f, m)
  BY <1>14 DEF DiscardsOf
<1> QED BY <1>4, <1>15

\* The handles are done as is defined.
LEMMA DiscardingIs ==
  ASSUME NEW h0, NEW level
  PROVE  /\ Discarding(h0, level)[0] = h0
         /\ \A k \in Nat : Discarding(h0, level)[k + 1] = Discarded(Discarding(h0, level)[k], (k + 1), level)
<1> DEFINE P(g, m) == DiscardsOf(g, m, h0, level)
           part == [n \in Nat |-> CHOOSE g : P(g, n)]
           f == [n \in Nat |-> part[n][n]]
<1>1. \A n \in Nat : P(part[n], n)
  BY DiscardsOfExists
<1> HIDE DEF part
<1>2. \A n \in Nat : f[n] = part[n][n]
  OBVIOUS
<1>3. ASSUME NEW n \in Nat
      PROVE  f[n] = IF n = 0 THEN h0 ELSE Discarded(f[n - 1], n, level)
  <2>1. part[n] = [k \in 0 .. n |-> IF k = 0 THEN h0 ELSE Discarded(part[n][k - 1], k, level)]
    BY <1>1 DEF DiscardsOf
  <2> DEFINE p == part[n]
  <2>2. n \in 0 .. n
    OBVIOUS
  <2> HIDE DEF p
  <2>3. p[n] = IF n = 0 THEN h0 ELSE Discarded(p[n - 1], n, level)
    BY <2>1, <2>2 DEF p
  <2>4. ASSUME n # 0 PROVE p[n - 1] = f[n - 1]
    <3>1. n - 1 \in Nat /\ n - 1 <= n /\ n - 1 \in 0 .. n - 1
      BY <2>4
    <3>2. P(part[n - 1], n - 1) /\ P(p, n)
      BY <1>1, <3>1 DEF p
    <3>3. part[n - 1][n - 1] = p[n - 1]
      BY <3>1, <3>2, DiscardsOfAgree
    <3> QED BY <1>2, <3>1, <3>3
  <2>5. f[n] = p[n]
    BY <1>2 DEF p
  <2> HIDE DEF f
  <2> QED BY <2>3, <2>4, <2>5
<1>4. f = [n \in Nat |-> f[n]]
  OBVIOUS
<1> HIDE DEF f
<1>5. f = [n \in Nat |-> IF n = 0 THEN h0 ELSE Discarded(f[n - 1], n, level)]
  BY <1>3, <1>4
<1> DEFINE h == CHOOSE h : h = [k \in Nat |-> IF k = 0 THEN h0 ELSE Discarded(h[k - 1], k, level)]
<1>6. h = [k \in Nat |-> IF k = 0 THEN h0 ELSE Discarded(h[k - 1], k, level)]
  BY <1>5
<1>7. Discarding(h0, level) = h
  BY DEF Discarding
<1> HIDE DEF h
<1>8. h[0] = h0
  BY <1>6
<1>9. ASSUME NEW k \in Nat PROVE h[k + 1] = Discarded(h[k], (k + 1), level)
  <2>1. k + 1 \in Nat /\ k + 1 # 0 /\ (k + 1) - 1 = k
    OBVIOUS
  <2>2. h[k + 1] = Discarded(h[(k + 1) - 1], (k + 1), level)
    BY <1>6, <2>1
  <2> QED BY <2>1, <2>2
<1> QED BY <1>7, <1>8, <1>9

\* The blocks of a level discarded, where nothing of a higher level may be.
LEMMA WithoutLevelIs ==
  ASSUME NEW h, Good(h), NEW level \in Nat, NoneFrom(h.es, level + 1)
  PROVE  Comes(h, WithoutLevel(h, level)) /\ NoneFrom(WithoutLevel(h, level).es, level)
<1> DEFINE D == Discarding(h, level)
           N == Len(h.es)
           T == {n \in 0 .. N : ~Ridden(h, n, level, D[n])}
<1>1. D[0] = h /\ \A n \in Nat : D[n + 1] = Discarded(D[n], n + 1, level)
  BY DiscardingIs
<1> HIDE DEF D
<1>2. h.es \in Seq(HandleEntry) /\ N \in Nat /\ DOMAIN h.es = 1 .. N
  BY DEF Good
<1> HIDE DEF N
<1>3. Ridden(h, 0, level, h)
  <2>1. \A e \in DOMAIN h.es : ~Picked(h.es, 0, level, e)
    BY <1>2 DEF Picked
  <2>2. Rid(h.es, 0, level, h.es)
    BY <1>2, <2>1 DEF Rid
  <2> QED BY <2>2 DEF Ridden
<1>4. T = {}
  <2> SUFFICES ASSUME T # {} PROVE FALSE
    OBVIOUS
  <2>1. T \subseteq Nat
    OBVIOUS
  <2> HIDE DEF T
  <2>2. PICK n \in T : \A l \in T : n <= l
    BY <2>1, Least
  <2>3. n \in 0 .. N /\ ~Ridden(h, n, level, D[n])
    BY DEF T
  <2>4. n # 0
    BY <1>1, <1>3, <2>3
  <2>5. n - 1 \in Nat /\ n - 1 \in 0 .. N /\ ~ (n <= n - 1) /\ (n - 1) + 1 = n /\ n \in 1 .. N
    BY <1>2, <2>3, <2>4
  <2>6. n - 1 \notin T
    BY <2>2, <2>5
  <2> DEFINE m == n - 1
  <2>7. Ridden(h, m, level, D[m]) /\ m \in Nat /\ m + 1 = n /\ m + 1 \in DOMAIN h.es
    BY <1>2, <2>5, <2>6 DEF T
  <2> HIDE DEF m
  <2>8. Ridden(h, m + 1, level, Discarded(D[m], m + 1, level))
    BY <2>7, DiscardedIs
  <2>9. D[m + 1] = Discarded(D[m], m + 1, level)
    BY <1>1, <2>7
  <2> QED BY <2>3, <2>7, <2>8, <2>9
<1> DEFINE g == D[N]
<1>5. Ridden(h, N, level, g)
  BY <1>2, <1>4
<1>6. WithoutLevel(h, level) = g
  BY DEF WithoutLevel, D, N
<1> HIDE DEF g
<1> DEFINE es == h.es
           fs == g.es
<1>7. /\ fs \in Seq(HandleEntry) /\ Len(fs) = Len(es) /\ DOMAIN fs = DOMAIN es
      /\ es \in Seq(HandleEntry)
  BY <1>2, <1>5 DEF Ridden, Rid
<1>8. \A e \in DOMAIN es : Picked(es, N, level, e) <=> Discardable(es[e]) /\ es[e].level = level
  BY <1>2 DEF Picked
<1>9. \A e \in DOMAIN es :
        fs[e] = IF Discardable(es[e]) /\ es[e].level = level THEN Blockless(es[e]) ELSE es[e]
  BY <1>5, <1>8 DEF Ridden, Rid
<1> HIDE DEF es, fs
<1>10. \A e \in DOMAIN es :
         /\ Blockless(es[e]).at = 0 /\ Blockless(es[e]).used = es[e].used
         /\ Blockless(es[e]).level = es[e].level /\ Blockless(es[e]).locks = es[e].locks
         /\ es[e] \in HandleEntry
  BY <1>7, BlocklessIs
<1>11. Alike(es, fs)
  <2>1. ASSUME NEW e \in DOMAIN es
        PROVE  /\ fs[e].used = es[e].used /\ fs[e].level = es[e].level /\ fs[e].locks = es[e].locks
               /\ es[e].used \/ fs[e] = es[e]
    BY <1>9, <1>10 DEF Discardable
  <2> QED BY <1>7, <2>1 DEF Alike
<1>12. \A e \in DOMAIN es : Gone(es, fs, e) => Discardable(es[e]) /\ es[e].level = level
  BY <1>9 DEF Gone
<1>13. ASSUME NEW e \in DOMAIN es
       PROVE  /\ es[e].locks > 0 => fs[e].at = es[e].at
              /\ es[e].at = 0 => fs[e].at = 0
  <2>1. CASE Discardable(es[e]) /\ es[e].level = level
    <3>1. fs[e].at = 0 /\ es[e].locks = 0
      BY <1>9, <1>10, <2>1 DEF Discardable
    <3> QED BY <3>1
  <2>2. CASE ~ (Discardable(es[e]) /\ es[e].level = level)
    BY <1>9, <2>2
  <2> QED BY <2>1, <2>2
<1>14. \A e \in DOMAIN es : es[e].level \in Nat
  BY <1>10, HandleEntryIs
<1>15. \A d \in DOMAIN es : Discardable(es[d]) => ~ (es[d].level > level)
  BY <1>14 DEF NoneFrom, es
<1>16. Spared(es, fs)
  BY <1>11, <1>12, <1>13, <1>15 DEF Spared
<1>17. Comes(h, g)
  BY <1>5, <1>16 DEF Comes, Ridden, es, fs
<1>18. NoneFrom(fs, level)
  <2> SUFFICES ASSUME NEW e \in DOMAIN es, Discardable(fs[e]) PROVE fs[e].level < level
    BY <1>7 DEF NoneFrom
  <2>1. fs[e] = es[e] /\ es[e].level # level
    BY <1>9, <1>10 DEF Discardable
  <2>2. Discardable(es[e])
    BY <2>1
  <2> QED BY <1>14, <1>15, <2>1, <2>2
<1> QED BY <1>6, <1>17, <1>18 DEF fs

-----------------------------------------------------------------------------
(* The passes of a compaction.                                             *)
\* The largest free arena that a walk left behind, at its end.
LEMMA LargestIs ==
  ASSUME NEW a, Laid(a), NEW best, BestLeft(a, 1, best)
  PROVE  /\ best = 0 => FreeIn(a) = {} /\ FreeAts(a) = {}
         /\ best # 0 => /\ IndexOf(a, best) \in FreeIn(a) /\ FreeAts(a) # {}
                        /\ \A f \in FreeIn(a) : Span(a, f) <= Span(a, IndexOf(a, best))
<1>1. \A f \in FreeIn(a) : f \in 3 .. Len(a) - 1
  BY FreeAtIs
<1>2. \A f \in FreeIn(a) : f > 1 /\ ~ (f <= 1)
  BY <1>1
<1>3. ASSUME best = 0 PROVE FreeIn(a) = {} /\ FreeAts(a) = {}
  <2>1. FreeIn(a) = {}
    BY <1>2, <1>3 DEF BestLeft
  <2>2. \A f \in FreeAts(a) : \E i \in FreeIn(a) : a[i].at = f
    BY FreeAtIs
  <2> QED BY <2>1, <2>2
<1>4. ASSUME best # 0
      PROVE  /\ IndexOf(a, best) \in FreeIn(a) /\ FreeAts(a) # {}
             /\ \A f \in FreeIn(a) : Span(a, f) <= Span(a, IndexOf(a, best))
  <2>1. PICK m \in FreeIn(a) :
          m > 1 /\ a[m].at = best /\ \A f \in FreeIn(a) : f > 1 => Span(a, f) <= Span(a, m)
    BY <1>4 DEF BestLeft
  <2>2. m \in 1 .. Len(a) /\ a[m].is = "free"
    BY DEF FreeIn
  <2>3. IndexOf(a, best) = m
    BY <2>1, <2>2, IndexIs
  <2>4. a[m].at \in FreeAts(a)
    BY <2>2, FreeAtIs
  <2>5. \A f \in FreeIn(a) : Span(a, f) <= Span(a, m)
    BY <1>2, <2>1
  <2> QED BY <2>3, <2>4, <2>5
<1> QED BY <1>3, <1>4

\* The level discarded next.
LEMMA NextLevelIs ==
  ASSUME NEW h, h.es \in Seq(HandleEntry), NEW under \in Nat, under <= 16, NoneFrom(h.es, under),
         NEW L, L = LevelsUnder(h, under)
  PROVE  /\ L = {} => None(h.es)
         /\ L # {} => /\ NextLevel(L) \in Nat /\ NextLevel(L) < under
                      /\ NoneFrom(h.es, NextLevel(L) + 1) /\ ~None(h.es)
<1> DEFINE es == h.es
<1>1. L = {e.level : e \in {d \in ToSet(es) : Discardable(d) /\ d.level < under}}
  BY DEF LevelsUnder
<1>2. ToSet(es) = {es[i] : i \in DOMAIN es}
  BY DEF ToSet
<1> HIDE DEF es
<1>3. \A e \in DOMAIN es : Discardable(es[e]) /\ es[e].level < under => es[e].level \in L
  BY <1>1, <1>2
<1>4. \A l \in L : \E e \in DOMAIN es : Discardable(es[e]) /\ es[e].level = l /\ l < under
  BY <1>1, <1>2
<1>5. \A e \in DOMAIN es : es[e].level \in Nat
  <2> SUFFICES ASSUME NEW e \in DOMAIN es PROVE es[e].level \in Nat
    OBVIOUS
  <2>1. es[e] \in HandleEntry
    BY DEF es
  <2> QED BY <2>1, HandleEntryIs, SMTT(20)
<1>6. NoneFrom(es, under)
  BY DEF es
<1>7. L = {} => None(es)
  BY <1>3, <1>6 DEF None, NoneFrom
<1>8. ASSUME L # {}
      PROVE  /\ NextLevel(L) \in Nat /\ NextLevel(L) < under
             /\ NoneFrom(es, NextLevel(L) + 1) /\ ~None(es)
  <2> DEFINE T == {16 - l : l \in L}
  <2>1. \A l \in L : l \in Nat /\ l < under /\ l <= 16
    BY <1>4, <1>5
  <2>2. T \subseteq Nat /\ T # {}
    BY <1>8, <2>1
  <2> HIDE DEF T
  <2>3. PICK t \in T : \A u \in T : t <= u
    BY <2>2, Least
  <2>4. PICK l \in L : t = 16 - l
    BY DEF T
  <2>5. \A k \in L : l >= k
    <3> SUFFICES ASSUME NEW k \in L PROVE l >= k
      OBVIOUS
    <3>1. t <= 16 - k
      BY <2>3 DEF T
    <3> QED BY <2>1, <2>4, <3>1
  <2>6. NextLevel(L) = CHOOSE x \in L : \A y \in L : x >= y
    BY DEF NextLevel, Max
  <2>7. NextLevel(L) \in L /\ \A y \in L : NextLevel(L) >= y
    BY <2>5, <2>6
  <2> DEFINE n == NextLevel(L)
  <2> HIDE DEF n
  <2>8. n \in L /\ n \in Nat /\ n < under /\ \A y \in L : n >= y
    BY <2>1, <2>7 DEF n
  <2>9. NoneFrom(es, n + 1)
    <3> SUFFICES ASSUME NEW e \in DOMAIN es, Discardable(es[e]) PROVE es[e].level < n + 1
      BY DEF NoneFrom
    <3>1. es[e].level < under
      BY <1>6 DEF NoneFrom
    <3>2. es[e].level \in L
      BY <1>3, <3>1
    <3>3. n >= es[e].level
      BY <2>8, <3>2
    <3> QED BY <1>5, <2>8, <3>3
  <2>10. ~None(es)
    BY <1>4, <1>8 DEF None
  <2> QED BY <2>8, <2>9, <2>10 DEF n
<1> QED BY <1>7, <1>8 DEF es

\* A pass of a compaction, with what it has discarded.
PassAt(h, still, w, under) ==
  /\ IsWalk(w) /\ w.still = still /\ Comes(h, w.h) /\ BestLeft(w.h.a, 1, w.best)
  /\ Apart(h.a) /\ ~still => NoneBelow(w.h.a, w.h.es, 1)
  /\ NoneFrom(w.h.es, under) /\ under \in Nat /\ under <= 16
  /\ FreeAts(h.a) = {} \/ None(h.es) => Shift(h, w.h)

\* The first pass is a walk, nothing discarded yet.
LEMMA FirstPass ==
  ASSUME NEW h, Good(h), NEW still \in BOOLEAN
  PROVE  PassAt(h, still, Walked(h, still), 16)
<1> DEFINE w == Walked(h, still)
<1>1. IsWalk(w) /\ w.still = still /\ Resting(h, w.h, 1, w.best, still)
  BY WalkedIs
<1> HIDE DEF w
<1>2. Shift(h, w.h) /\ BestLeft(w.h.a, 1, w.best)
      /\ (Apart(h.a) /\ ~still => NoneBelow(w.h.a, w.h.es, 1))
  BY <1>1 DEF Resting
<1>3. NoneFrom(h.es, 16)
  <2>1. ASSUME NEW e \in DOMAIN h.es PROVE h.es[e].level < 16
    <3>1. h.es[e].level \in 0 .. 15
      BY EntryIs
    <3> QED BY <3>1
  <2> QED BY <2>1 DEF NoneFrom
<1>4. Comes(h, w.h) /\ NoneFrom(w.h.es, 16)
  BY <1>2, <1>3, ShiftComes
<1> QED BY <1>1, <1>2, <1>4 DEF PassAt, w

\* The next, if there is to be one.
LEMMA NextPassIs ==
  ASSUME NEW h, Good(h), NEW still \in BOOLEAN, NEW p, PassAt(h, still, p.w, p.under),
         NEW span, ~Ends(p, span), NEW q, q = NextPass(p, span)
  PROVE  PassAt(h, still, q.w, q.under) /\ q.under < p.under
<1> DEFINE g == p.w.h
           L == LevelsUnder(g, p.under)
           level == NextLevel(L)
           k == WithoutLevel(g, level)
           v == Walked(k, still)
<1>1. p.w.best # 0 /\ L # {}
  BY DEF Ends
<1>2. /\ IsWalk(p.w) /\ p.w.still = still /\ Comes(h, g) /\ BestLeft(g.a, 1, p.w.best)
      /\ NoneFrom(g.es, p.under) /\ p.under \in Nat /\ p.under <= 16
      /\ FreeAts(h.a) = {} \/ None(h.es) => Shift(h, g)
  BY DEF PassAt
<1>3. q = [w |-> v, under |-> level]
  BY <1>2 DEF NextPass
<1>4. q.w = v /\ q.under = level
  BY <1>3
<1>5. Good(g) /\ Laid(g.a) /\ g.es \in Seq(HandleEntry)
  BY <1>2 DEF Comes, Good
<1> HIDE DEF v, k, g
<1>6. level \in Nat /\ level < p.under /\ NoneFrom(g.es, level + 1) /\ ~None(g.es)
  <2> HIDE DEF level
  <2>1. level = NextLevel(L)
    BY DEF level
  <2>2. L = LevelsUnder(g, p.under)
    OBVIOUS
  <2> HIDE DEF L
  <2> QED BY <1>1, <1>2, <1>5, <2>1, <2>2, NextLevelIs
<1> HIDE DEF level, L
<1>7. Comes(g, k) /\ NoneFrom(k.es, level)
  BY <1>5, <1>6, WithoutLevelIs DEF k
<1>8. Good(k)
  BY <1>7 DEF Comes
<1>9. IsWalk(v) /\ v.still = still /\ Resting(k, v.h, 1, v.best, still)
  BY <1>8, WalkedIs DEF v
<1>10. Shift(k, v.h) /\ BestLeft(v.h.a, 1, v.best)
      /\ (Apart(k.a) /\ ~still => NoneBelow(v.h.a, v.h.es, 1))
  BY <1>9 DEF Resting
<1>11. Comes(k, v.h) /\ NoneFrom(v.h.es, level)
  BY <1>7, <1>8, <1>10, ShiftComes
<1>12. Comes(h, k)
  BY <1>2, <1>7, ComesTwice
<1>13. Comes(h, v.h)
  BY <1>11, <1>12, ComesTwice
<1>14. Apart(h.a) => Apart(k.a)
  BY <1>12 DEF Comes
<1>15. ~ (FreeAts(h.a) = {} \/ None(h.es))
  <2>1. FreeAts(h.a) # {}
    <3> SUFFICES ASSUME FreeAts(h.a) = {} PROVE FALSE
      OBVIOUS
    <3>1. g = h
      BY <1>2 DEF Shift
    <3>2. FreeAts(g.a) # {}
      BY <1>1, <1>2, <1>5, LargestIs
    <3> QED BY <3>1, <3>2
  <2>2. ~None(h.es)
    <3>1. Spared(h.es, g.es) /\ h.es \in Seq(HandleEntry)
      BY <1>2 DEF Comes, Good
    <3> QED BY <1>6, <3>1, SparedNone
  <2> QED BY <2>1, <2>2
<1>16. level \in Nat /\ level <= 16
  BY <1>2, <1>6
<1>17. PassAt(h, still, v, level)
  BY <1>9, <1>10, <1>11, <1>13, <1>14, <1>15, <1>16 DEF PassAt
<1> QED BY <1>4, <1>6, <1>17

\* So many passes on.
PassesOf(g, n, h0, span, still) ==
  g = [k \in 0 .. n |-> IF k = 0 THEN [w |-> Walked(h0, still), under |-> 16] ELSE NextPass(g[k - 1], span)]

\* The first passes are the same, however many follow.
LEMMA PassesOfAgree ==
  ASSUME NEW h0, NEW span, NEW still, NEW g, NEW n \in Nat, PassesOf(g, n, h0, span, still),
         NEW f, NEW m \in Nat, PassesOf(f, m, h0, span, still), n <= m
  PROVE  \A k \in 0 .. n : g[k] = f[k]
<1> DEFINE T == {k \in 0 .. n : g[k] # f[k]}
<1>1. SUFFICES T = {}
  OBVIOUS
<1>2. SUFFICES ASSUME T # {} PROVE FALSE
  OBVIOUS
<1>3. T \subseteq Nat
  OBVIOUS
<1> HIDE DEF T
<1>4. PICK k \in T : \A l \in T : k <= l
  BY <1>2, <1>3, Least
<1>5. k \in 0 .. n /\ g[k] # f[k] /\ k \in 0 .. m /\ k \in Nat
  BY DEF T
<1>6. g[k] = IF k = 0 THEN [w |-> Walked(h0, still), under |-> 16] ELSE NextPass(g[k - 1], span)
  BY <1>5 DEF PassesOf
<1>7. f[k] = IF k = 0 THEN [w |-> Walked(h0, still), under |-> 16] ELSE NextPass(f[k - 1], span)
  BY <1>5 DEF PassesOf
<1>8. k # 0
  BY <1>5, <1>6, <1>7
<1>9. k - 1 \in 0 .. n /\ ~ (k <= k - 1)
  BY <1>5, <1>8
<1>10. k - 1 \notin T
  BY <1>4, <1>9
<1>11. g[k - 1] = f[k - 1]
  BY <1>9, <1>10 DEF T
<1> QED BY <1>5, <1>6, <1>7, <1>8, <1>11

\* There are so many passes.
LEMMA PassesOfExists ==
  ASSUME NEW h0, NEW span, NEW still, NEW n \in Nat
  PROVE  \E g : PassesOf(g, n, h0, span, still)
<1> DEFINE P(g, m) == PassesOf(g, m, h0, span, still)
           T == {m \in Nat : ~ \E g : P(g, m)}
<1>1. SUFFICES ASSUME T # {} PROVE FALSE
  OBVIOUS
<1>2. T \subseteq Nat
  OBVIOUS
<1> HIDE DEF T
<1>3. PICK m \in T : \A l \in T : m <= l
  BY <1>1, <1>2, Least
<1>4. m \in Nat /\ ~ \E g : P(g, m)
  BY DEF T
<1>5. m # 0
  <2> DEFINE g == [k \in 0 .. 0 |-> [w |-> Walked(h0, still), under |-> 16]]
  <2>1. g = [k \in 0 .. 0 |-> IF k = 0 THEN [w |-> Walked(h0, still), under |-> 16] ELSE NextPass(g[k - 1], span)]
    OBVIOUS
  <2> HIDE DEF g
  <2>2. P(g, 0)
    BY <2>1 DEF PassesOf
  <2> QED BY <1>4, <2>2
<1>6. m - 1 \in Nat /\ ~ (m <= m - 1)
  BY <1>4, <1>5
<1>7. m - 1 \notin T
  BY <1>3, <1>6
<1>8. PICK g : P(g, m - 1)
  BY <1>6, <1>7 DEF T
<1> DEFINE f == [k \in 0 .. m |-> IF k = m THEN NextPass(g[m - 1], span) ELSE g[k]]
<1>9. \A k \in 0 .. m : k # m => k \in 0 .. m - 1 /\ f[k] = g[k]
  BY <1>4
<1>10. f[m] = NextPass(f[m - 1], span)
  <2>1. m - 1 \in 0 .. m /\ m - 1 # m /\ m \in 0 .. m
    BY <1>4, <1>5
  <2>2. f[m - 1] = g[m - 1]
    BY <1>9, <2>1
  <2>3. f[m] = NextPass(g[m - 1], span)
    BY <2>1
  <2> HIDE DEF f
  <2> QED BY <2>2, <2>3
<1>11. \A k \in 0 .. m - 1 : g[k] = IF k = 0 THEN [w |-> Walked(h0, still), under |-> 16] ELSE NextPass(g[k - 1], span)
  BY <1>8 DEF PassesOf
<1>12. ASSUME NEW k \in 0 .. m
       PROVE  f[k] = IF k = 0 THEN [w |-> Walked(h0, still), under |-> 16] ELSE NextPass(f[k - 1], span)
  <2>1. CASE k = m
    BY <1>5, <1>10, <2>1
  <2>2. CASE k # m
    <3>1. k \in 0 .. m - 1 /\ f[k] = g[k]
      BY <1>9, <2>2
    <3>2. k # 0 => k - 1 \in 0 .. m /\ k - 1 # m
      BY <1>4, <3>1
    <3>3. k # 0 => f[k - 1] = g[k - 1]
      BY <1>9, <3>2
    <3>4. g[k] = IF k = 0 THEN [w |-> Walked(h0, still), under |-> 16] ELSE NextPass(g[k - 1], span)
      BY <1>11, <3>1
    <3> HIDE DEF f
    <3> QED BY <3>1, <3>3, <3>4
  <2> QED BY <2>1, <2>2
<1>13. f = [k \in 0 .. m |-> f[k]]
  OBVIOUS
<1> HIDE DEF f
<1>14. f = [k \in 0 .. m |-> IF k = 0 THEN [w |-> Walked(h0, still), under |-> 16] ELSE NextPass(f[k - 1], span)]
  BY <1>12, <1>13
<1>15. P(f, m)
  BY <1>14 DEF PassesOf
<1> QED BY <1>4, <1>15

\* The passes are as they are defined.
LEMMA PassesIs ==
  ASSUME NEW h0, NEW span, NEW still
  PROVE  /\ Passes(h0, span, still)[0] = [w |-> Walked(h0, still), under |-> 16]
         /\ \A k \in Nat : Passes(h0, span, still)[k + 1] = NextPass(Passes(h0, span, still)[k], span)
<1> DEFINE P(g, m) == PassesOf(g, m, h0, span, still)
           part == [n \in Nat |-> CHOOSE g : P(g, n)]
           f == [n \in Nat |-> part[n][n]]
<1>1. \A n \in Nat : P(part[n], n)
  BY PassesOfExists
<1> HIDE DEF part
<1>2. \A n \in Nat : f[n] = part[n][n]
  OBVIOUS
<1>3. ASSUME NEW n \in Nat
      PROVE  f[n] = IF n = 0 THEN [w |-> Walked(h0, still), under |-> 16] ELSE NextPass(f[n - 1], span)
  <2>1. part[n] = [k \in 0 .. n |-> IF k = 0 THEN [w |-> Walked(h0, still), under |-> 16] ELSE NextPass(part[n][k - 1], span)]
    BY <1>1 DEF PassesOf
  <2> DEFINE p == part[n]
  <2>2. n \in 0 .. n
    OBVIOUS
  <2> HIDE DEF p
  <2>3. p[n] = IF n = 0 THEN [w |-> Walked(h0, still), under |-> 16] ELSE NextPass(p[n - 1], span)
    BY <2>1, <2>2 DEF p
  <2>4. ASSUME n # 0 PROVE p[n - 1] = f[n - 1]
    <3>1. n - 1 \in Nat /\ n - 1 <= n /\ n - 1 \in 0 .. n - 1
      BY <2>4
    <3>2. P(part[n - 1], n - 1) /\ P(p, n)
      BY <1>1, <3>1 DEF p
    <3>3. part[n - 1][n - 1] = p[n - 1]
      BY <3>1, <3>2, PassesOfAgree
    <3> QED BY <1>2, <3>1, <3>3
  <2>5. f[n] = p[n]
    BY <1>2 DEF p
  <2> HIDE DEF f
  <2> QED BY <2>3, <2>4, <2>5
<1>4. f = [n \in Nat |-> f[n]]
  OBVIOUS
<1> HIDE DEF f
<1>5. f = [n \in Nat |-> IF n = 0 THEN [w |-> Walked(h0, still), under |-> 16] ELSE NextPass(f[n - 1], span)]
  BY <1>3, <1>4
<1> DEFINE h == CHOOSE h : h = [k \in Nat |-> IF k = 0 THEN [w |-> Walked(h0, still), under |-> 16] ELSE NextPass(h[k - 1], span)]
<1>6. h = [k \in Nat |-> IF k = 0 THEN [w |-> Walked(h0, still), under |-> 16] ELSE NextPass(h[k - 1], span)]
  BY <1>5
<1>7. Passes(h0, span, still) = h
  BY DEF Passes
<1> HIDE DEF h
<1>8. h[0] = [w |-> Walked(h0, still), under |-> 16]
  BY <1>6
<1>9. ASSUME NEW k \in Nat PROVE h[k + 1] = NextPass(h[k], span)
  <2>1. k + 1 \in Nat /\ k + 1 # 0 /\ (k + 1) - 1 = k
    OBVIOUS
  <2>2. h[k + 1] = NextPass(h[(k + 1) - 1], span)
    BY <1>6, <2>1
  <2> QED BY <2>1, <2>2
<1> QED BY <1>7, <1>8, <1>9

\* What a compaction makes of a heap.
Compacts(h, span, still, c) ==
  /\ Comes(h, c.h)
  /\ FreeAts(h.a) = {} \/ None(h.es) => Shift(h, c.h)
  /\ Apart(h.a) /\ ~still => NoneBelow(c.h.a, c.h.es, 1)
  /\ c.largest \in Nat /\ \A f \in FreeIn(c.h.a) : Span(c.h.a, f) <= c.largest
  /\ c.best = 0 => FreeIn(c.h.a) = {} /\ FreeAts(c.h.a) = {} /\ c.largest = 0
  /\ c.best # 0 => /\ IndexOf(c.h.a, c.best) \in FreeIn(c.h.a)
                   /\ c.largest = Span(c.h.a, IndexOf(c.h.a, c.best))
  /\ c.best # 0 /\ ~still /\ ~ (c.largest >= span) => None(c.h.es)

\* The passes have ended, for there are no more levels.
LEMMA PassesEnd ==
  ASSUME NEW h, Good(h), NEW still \in BOOLEAN, NEW span, NEW p, p = Passes(h, span, still)[15]
  PROVE  PassAt(h, still, p.w, p.under) /\ Ends(p, span)
<1> DEFINE P == Passes(h, span, still)
           Fine(k) == /\ PassAt(h, still, P[k].w, P[k].under)
                      /\ Ends(P[k], span) \/ P[k].under + k <= 16
           T == {k \in Nat : ~Fine(k)}
<1>1. /\ P[0] = [w |-> Walked(h, still), under |-> 16]
      /\ \A k \in Nat : P[k + 1] = NextPass(P[k], span)
  BY PassesIs
<1>2. p = P[15]
  OBVIOUS
<1> HIDE DEF P
<1>3. Fine(0)
  <2>1. P[0].w = Walked(h, still) /\ P[0].under = 16
    BY <1>1
  <2>2. PassAt(h, still, P[0].w, P[0].under)
    BY <2>1, FirstPass
  <2> QED BY <2>1, <2>2
<1>4. ASSUME NEW k \in Nat, Fine(k) PROVE Fine(k + 1)
  <2> DEFINE s == P[k]
             q == P[k + 1]
  <2>1. q = NextPass(s, span)
    BY <1>1
  <2>2. PassAt(h, still, s.w, s.under) /\ (Ends(s, span) \/ s.under + k <= 16)
    BY <1>4
  <2>3. CASE Ends(s, span)
    <3>1. q = s
      BY <2>1, <2>3 DEF NextPass
    <3> QED BY <2>2, <2>3, <3>1
  <2>4. CASE ~Ends(s, span)
    <3>1. PassAt(h, still, q.w, q.under) /\ q.under < s.under
      <4> HIDE DEF s, q
      <4> QED BY <2>1, <2>2, <2>4, NextPassIs
    <3>2. q.under \in Nat /\ s.under \in Nat
      BY <2>2, <3>1 DEF PassAt
    <3>3. s.under + k <= 16
      BY <2>2, <2>4
    <3> DEFINE x == s.under
               y == q.under
    <3>4. x \in Nat /\ y \in Nat /\ y < x /\ x + k <= 16
      BY <3>1, <3>2, <3>3
    <3>5. y + (k + 1) <= 16
      <4> HIDE DEF x, y
      <4> QED BY <3>4
    <3> QED BY <3>1, <3>5
  <2> QED BY <2>3, <2>4
<1>5. T = {}
  <2> SUFFICES ASSUME T # {} PROVE FALSE
    OBVIOUS
  <2>1. T \subseteq Nat
    OBVIOUS
  <2> HIDE DEF T
  <2>2. PICK k \in T : \A l \in T : k <= l
    BY <2>1, Least
  <2>3. k \in Nat /\ ~Fine(k)
    BY DEF T
  <2> HIDE DEF Fine
  <2>4. k # 0
    BY <1>3, <2>3
  <2>5. k - 1 \in Nat /\ ~ (k <= k - 1) /\ (k - 1) + 1 = k
    BY <2>3, <2>4
  <2>6. k - 1 \notin T
    BY <2>2, <2>5
  <2>7. Fine(k - 1)
    BY <2>5, <2>6 DEF T
  <2> QED BY <1>4, <2>3, <2>5, <2>7
<1>6. Fine(15)
  BY <1>5
<1>7. PassAt(h, still, p.w, p.under) /\ (Ends(p, span) \/ p.under + 15 <= 16)
  BY <1>2, <1>6
<1>8. ASSUME p.under + 15 <= 16 PROVE LevelsUnder(p.w.h, p.under) = {}
  <2>1. p.under \in Nat
    BY <1>7 DEF PassAt
  <2>2. Good(p.w.h)
    BY <1>7 DEF PassAt, Comes
  <2>3. ASSUME NEW e \in DOMAIN p.w.h.es
        PROVE  ~ (Discardable(p.w.h.es[e]) /\ p.w.h.es[e].level < p.under)
    <3> DEFINE l == p.w.h.es[e].level
               u == p.under
    <3>1. l \in 0 .. 15
      BY <2>2, EntryIs
    <3>2. Discardable(p.w.h.es[e]) => l > 0
      BY DEF Discardable
    <3>3. u \in Nat /\ u + 15 <= 16
      BY <1>8, <2>1
    <3>4. l > 0 => ~ (l < u)
      <4> HIDE DEF l, u
      <4> QED BY <3>1, <3>3
    <3> QED BY <3>2, <3>4
  <2> QED BY <2>3 DEF LevelsUnder, ToSet
<1> QED BY <1>7, <1>8 DEF Ends

\* The heap compacted.
LEMMA CompactedIs ==
  ASSUME NEW h, Good(h), NEW still \in BOOLEAN, NEW span
  PROVE  Compacts(h, span, still, Compacted(h, span, still))
<1> DEFINE p == Passes(h, span, still)[15]
           w == p.w
           g == w.h
           c == Compacted(h, span, still)
<1>1. PassAt(h, still, w, p.under) /\ Ends(p, span)
  BY PassesEnd
<1>2. c = [h |-> g, best |-> w.best, largest |-> LargestLeft(w)]
  BY DEF Compacted, LeftBy
<1>3. c.h = g /\ c.best = w.best
      /\ c.largest = IF w.best = 0 THEN 0 ELSE Span(g.a, IndexOf(g.a, w.best))
  BY <1>2 DEF LargestLeft
<1>4. c.largest = LargestLeft(w)
  BY <1>2
<1> HIDE DEF c, p
<1>5. /\ w.still = still /\ Comes(h, g) /\ BestLeft(g.a, 1, w.best)
      /\ (Apart(h.a) /\ ~still => NoneBelow(g.a, g.es, 1))
      /\ NoneFrom(g.es, p.under) /\ p.under \in Nat /\ p.under <= 16
      /\ (FreeAts(h.a) = {} \/ None(h.es) => Shift(h, g))
  BY <1>1 DEF PassAt
<1>6. Laid(g.a) /\ g.es \in Seq(HandleEntry)
  BY <1>5 DEF Comes, Good
<1>7. w.best = 0 => FreeIn(g.a) = {} /\ FreeAts(g.a) = {}
  BY <1>5, <1>6, LargestIs
<1>8. w.best # 0 => /\ IndexOf(g.a, w.best) \in FreeIn(g.a)
                    /\ \A f \in FreeIn(g.a) : Span(g.a, f) <= Span(g.a, IndexOf(g.a, w.best))
  BY <1>5, <1>6, LargestIs
<1>9. c.largest \in Nat
  <2>1. CASE w.best = 0
    BY <1>3, <2>1
  <2>2. CASE w.best # 0
    <3> DEFINE m == IndexOf(g.a, w.best)
    <3>1. m \in FreeIn(g.a) /\ c.largest = Span(g.a, m)
      BY <1>3, <1>8, <2>2
    <3> HIDE DEF m
    <3>2. /\ g.a[m].at \in Nat /\ g.a[m + 1].at \in Nat /\ g.a[m].at + 12 <= g.a[m + 1].at
          /\ Span(g.a, m) = g.a[m + 1].at - g.a[m].at
      BY <1>6, <3>1, PutAround
    <3> QED BY <3>1, <3>2
  <2> QED BY <2>1, <2>2
<1>10. \A f \in FreeIn(g.a) : Span(g.a, f) <= c.largest
  BY <1>3, <1>7, <1>8
<1>11. ASSUME w.best # 0, ~still, ~ (c.largest >= span) PROVE None(g.es)
  <2>1. LevelsUnder(g, p.under) = {}
    BY <1>1, <1>4, <1>5, <1>11 DEF Ends
  <2> QED BY <1>5, <1>6, <2>1, NextLevelIs
<1> HIDE DEF g, w
<1> QED BY <1>3, <1>5, <1>7, <1>8, <1>9, <1>10, <1>11 DEF Compacts, c
=============================================================================
