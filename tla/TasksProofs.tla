----------------------------- MODULE TasksProofs -----------------------------
(* Theorems about the tasks and the processor, for any number of tasks, any *)
(* depth of calls and any size of ring: the turns; then the calls tasks     *)
(* make of each other by SendMessage, whatever calls there are between      *)
(* them, and what no task sleeps over: a message sent to it or the answer   *)
(* to its own, a message posted, a window due to be painted.  Each of these *)
(* last is of the instances in which no program makes the calls under which *)
(* the machine itself breaks it, named in the theorem's hypothesis.         *)
EXTENDS TasksCalls, FiniteSetTheorems, SequenceTheorems, TLAPS

-----------------------------------------------------------------------------
(* The line: sequences that hold each task once.                           *)

\* A task not in a line put last in it.
LEMMA AppendOnce ==
  ASSUME NEW s \in Seq(Task), IsInjective(s), NEW x \in Task, ~Contains(s, x)
  PROVE  /\ Append(s, x) \in Seq(Task)
         /\ IsInjective(Append(s, x))
         /\ \A u : Contains(Append(s, x), u) <=> Contains(s, u) \/ u = x
<1> DEFINE a == Append(s, x)
<1>1. /\ a \in Seq(Task)
      /\ Len(a) = Len(s) + 1
      /\ \A i \in 1 .. Len(s) : a[i] = s[i]
      /\ a[Len(s) + 1] = x
  OBVIOUS
<1>2. DOMAIN a = 1 .. Len(s) + 1 /\ DOMAIN s = 1 .. Len(s) /\ Len(s) \in Nat
  BY <1>1
<1> HIDE DEF a
<1>3. IsInjective(a)
  <2> SUFFICES ASSUME NEW i \in DOMAIN a, NEW j \in DOMAIN a, a[i] = a[j]
               PROVE  i = j
    BY DEF IsInjective
  <2>1. CASE i \in 1 .. Len(s) /\ j \in 1 .. Len(s)
    BY <1>1, <1>2, <2>1 DEF IsInjective
  <2>2. CASE i = Len(s) + 1 \/ j = Len(s) + 1
    BY <1>1, <1>2, <2>2 DEF Contains
  <2> QED BY <1>2, <2>1, <2>2
<1>4. \A u : Contains(a, u) <=> Contains(s, u) \/ u = x
  BY <1>1, <1>2 DEF Contains
<1> QED BY <1>1, <1>3, <1>4 DEF a

\* Two lines with no task in both put one after the other.
LEMMA ConcatOnce ==
  ASSUME NEW s \in Seq(Task), NEW o \in Seq(Task),
         IsInjective(s), IsInjective(o),
         \A u : ~(Contains(s, u) /\ Contains(o, u))
  PROVE  /\ s \o o \in Seq(Task)
         /\ IsInjective(s \o o)
         /\ \A u : Contains(s \o o, u) <=> Contains(s, u) \/ Contains(o, u)
<1> DEFINE a == s \o o
<1>1. /\ a \in Seq(Task)
      /\ Len(a) = Len(s) + Len(o)
      /\ \A i \in 1 .. Len(s) : a[i] = s[i]
      /\ \A i \in Len(s) + 1 .. Len(s) + Len(o) : a[i] = o[i - Len(s)]
  BY ConcatProperties
<1>2. /\ DOMAIN a = 1 .. Len(s) + Len(o) /\ DOMAIN s = 1 .. Len(s)
      /\ DOMAIN o = 1 .. Len(o) /\ Len(s) \in Nat /\ Len(o) \in Nat
  BY <1>1
<1> HIDE DEF a
<1>3. \A i \in 1 .. Len(o) : a[Len(s) + i] = o[i]
  <2> TAKE i \in 1 .. Len(o)
  <2> DEFINE k == Len(s) + i
  <2>1. k \in Len(s) + 1 .. Len(s) + Len(o) /\ k - Len(s) = i
    BY <1>2
  <2>2. a[k] = o[k - Len(s)]
    BY <1>1, <2>1
  <2> QED BY <2>1, <2>2
<1>4. IsInjective(a)
  <2> SUFFICES ASSUME NEW i \in DOMAIN a, NEW j \in DOMAIN a, a[i] = a[j]
               PROVE  i = j
    BY DEF IsInjective
  <2>1. CASE i \in 1 .. Len(s) /\ j \in 1 .. Len(s)
    BY <1>1, <1>2, <2>1 DEF IsInjective
  <2>2. CASE i > Len(s) /\ j > Len(s)
    <3>1. i - Len(s) \in DOMAIN o /\ j - Len(s) \in DOMAIN o
      BY <1>2, <2>2
    <3>2. o[i - Len(s)] = o[j - Len(s)]
      BY <1>1, <1>2, <2>2
    <3> QED BY <1>2, <3>1, <3>2 DEF IsInjective
  <2>3. CASE i \in 1 .. Len(s) /\ j > Len(s)
    <3>1. a[i] = s[i] /\ a[j] = o[j - Len(s)] /\ j - Len(s) \in 1 .. Len(o)
      BY <1>1, <1>2, <2>3
    <3>2. Contains(s, a[i]) /\ Contains(o, a[j])
      BY <2>3, <3>1 DEF Contains
    <3> QED BY <3>2
  <2>4. CASE j \in 1 .. Len(s) /\ i > Len(s)
    <3>1. a[j] = s[j] /\ a[i] = o[i - Len(s)] /\ i - Len(s) \in 1 .. Len(o)
      BY <1>1, <1>2, <2>4
    <3>2. Contains(s, a[j]) /\ Contains(o, a[i])
      BY <2>4, <3>1 DEF Contains
    <3> QED BY <3>2
  <2> QED BY <1>2, <2>1, <2>2, <2>3, <2>4
<1>5. \A u : Contains(a, u) <=> Contains(s, u) \/ Contains(o, u)
  <2> TAKE u
  <2>1. Contains(s, u) => Contains(a, u)
    BY <1>1, <1>2 DEF Contains
  <2>2. Contains(o, u) => Contains(a, u)
    <3> SUFFICES ASSUME NEW i \in 1 .. Len(o), o[i] = u PROVE Contains(a, u)
      BY DEF Contains
    <3>1. Len(s) + i \in 1 .. Len(a) /\ a[Len(s) + i] = u
      BY <1>1, <1>2, <1>3
    <3> QED BY <3>1 DEF Contains
  <2>3. Contains(a, u) => Contains(s, u) \/ Contains(o, u)
    <3> SUFFICES ASSUME NEW i \in 1 .. Len(a), a[i] = u
                 PROVE  Contains(s, u) \/ Contains(o, u)
      BY DEF Contains
    <3>1. CASE i \in 1 .. Len(s)
      BY <1>1, <3>1 DEF Contains
    <3>2. CASE i > Len(s)
      <4>1. i - Len(s) \in 1 .. Len(o) /\ o[i - Len(s)] = u
        BY <1>1, <1>2, <3>2
      <4> QED BY <4>1 DEF Contains
    <3> QED BY <1>2, <3>1, <3>2
  <2> QED BY <2>1, <2>2, <2>3
<1> QED BY <1>1, <1>4, <1>5 DEF a

\* A stretch of a line.
LEMMA Stretch ==
  ASSUME NEW S, NEW s \in Seq(S), NEW m \in Nat \ {0}, NEW n \in Nat,
         m <= n + 1, n <= Len(s)
  PROVE  /\ SubSeq(s, m, n) \in Seq(S)
         /\ Len(SubSeq(s, m, n)) = n + 1 - m
         /\ DOMAIN SubSeq(s, m, n) = 1 .. n + 1 - m
         /\ \A i \in 1 .. n + 1 - m : SubSeq(s, m, n)[i] = s[m + i - 1]
<1>1. m \in Int /\ n \in Int /\ \A i \in m .. n : s[i] \in S
  OBVIOUS
<1>2. /\ SubSeq(s, m, n) \in Seq(S)
      /\ Len(SubSeq(s, m, n)) = IF m <= n THEN n - m + 1 ELSE 0
      /\ \A i \in 1 .. n - m + 1 : SubSeq(s, m, n)[i] = s[m + i - 1]
  BY <1>1, SubSeqProperties
<1> HIDE <1>1
<1> DEFINE q == SubSeq(s, m, n)
<1>3. q \in Seq(S) /\ Len(q) = n + 1 - m /\ n - m + 1 = n + 1 - m
  BY <1>2
<1>4. DOMAIN q = 1 .. n + 1 - m
  <2> HIDE DEF q
  <2> QED BY <1>3
<1> QED BY <1>2, <1>3, <1>4

\* A task taken out of a line.
LEMMA WithoutOnce ==
  ASSUME NEW s \in Seq(Task), IsInjective(s), NEW x
  PROVE  /\ Without(s, x) \in Seq(Task)
         /\ IsInjective(Without(s, x))
         /\ \A u : Contains(Without(s, x), u) <=> Contains(s, u) /\ u # x
<1>1. CASE ~Contains(s, x)
  BY <1>1 DEF Without
<1>2. CASE Contains(s, x)
  <2> DEFINE p == PlaceOf(s, x)
             a == Without(s, x)
             n == Len(s)
  <2>1. p \in 1 .. n /\ s[p] = x /\ n \in Nat /\ DOMAIN s = 1 .. n
    BY <1>2 DEF PlaceOf, Contains
  <2>2. a = SubSeq(s, 1, p - 1) \o SubSeq(s, p + 1, n)
    BY <1>2 DEF Without, RemoveAt
  <2> HIDE DEF p, a, n
  <2> DEFINE before == SubSeq(s, 1, p - 1)
             after == SubSeq(s, p + 1, n)
  <2>3. /\ before \in Seq(Task) /\ Len(before) = p - 1
        /\ \A i \in 1 .. p - 1 : before[i] = s[i]
    <3>1. 1 \in Nat \ {0} /\ p - 1 \in Nat /\ 1 <= p - 1 + 1 /\ p - 1 <= Len(s)
      BY <2>1 DEF n
    <3>2. /\ before \in Seq(Task) /\ Len(before) = p - 1 + 1 - 1
          /\ \A i \in 1 .. p - 1 + 1 - 1 : before[i] = s[1 + i - 1]
      BY <3>1, Stretch
    <3> QED BY <3>1, <3>2
  <2>4. /\ after \in Seq(Task) /\ Len(after) = n - p
        /\ \A i \in 1 .. n - p : after[i] = s[p + i]
    <3>1. p + 1 \in Nat \ {0} /\ n \in Nat /\ p + 1 <= n + 1 /\ n <= Len(s)
      BY <2>1 DEF n
    <3>2. /\ after \in Seq(Task) /\ Len(after) = n + 1 - (p + 1)
          /\ \A i \in 1 .. n + 1 - (p + 1) : after[i] = s[p + 1 + i - 1]
      BY <3>1, Stretch
    <3>3. n + 1 - (p + 1) = n - p /\ \A i \in 1 .. n - p : p + 1 + i - 1 = p + i
      BY <2>1
    <3> QED BY <3>2, <3>3
  <2> HIDE DEF before, after
  <2>5. /\ a \in Seq(Task) /\ Len(a) = n - 1
        /\ \A i \in 1 .. n - 1 : a[i] = IF i <= p - 1 THEN before[i]
                                                    ELSE after[i - (p - 1)]
    <3>1. a = before \o after
      BY <2>2 DEF before, after
    <3>2. /\ before \o after \in Seq(Task)
          /\ Len(before \o after) = Len(before) + Len(after)
          /\ \A i \in 1 .. Len(before) + Len(after) : (before \o after)[i] =
               IF i <= Len(before) THEN before[i] ELSE after[i - Len(before)]
      BY <2>3, <2>4, ConcatProperties
    <3> QED BY <2>1, <2>3, <2>4, <3>1, <3>2
  <2>6. /\ DOMAIN a = 1 .. n - 1
        /\ \A i \in 1 .. p - 1 : a[i] = s[i]
        /\ \A i \in p .. n - 1 : a[i] = s[i + 1]
    <3>1. DOMAIN a = 1 .. n - 1
      BY <2>5
    <3>2. ASSUME NEW i \in 1 .. p - 1 PROVE a[i] = s[i]
      BY <2>1, <2>3, <2>5
    <3>3. ASSUME NEW i \in p .. n - 1 PROVE a[i] = s[i + 1]
      <4> DEFINE k == i - (p - 1)
      <4>1. k \in 1 .. n - p /\ p + k = i + 1 /\ i \in 1 .. n - 1 /\ ~(i <= p - 1)
        BY <2>1, <3>3
      <4> QED BY <2>4, <2>5, <4>1
    <3> QED BY <3>1, <3>2, <3>3
  <2>7. IsInjective(a)
    <3> SUFFICES ASSUME NEW i \in 1 .. n - 1, NEW j \in 1 .. n - 1, a[i] = a[j]
                 PROVE  i = j
      BY <2>5, <2>6 DEF IsInjective
    <3> DEFINE at(k) == IF k < p THEN k ELSE k + 1
    <3>1. /\ at(i) \in DOMAIN s /\ at(j) \in DOMAIN s
          /\ a[i] = s[at(i)] /\ a[j] = s[at(j)]
      BY <2>1, <2>5, <2>6
    <3>2. at(i) = at(j)
      BY <3>1 DEF IsInjective
    <3> QED BY <2>1, <3>2
  <2>8. ASSUME NEW u, Contains(a, u) PROVE Contains(s, u) /\ u # x
    <3>1. PICK i \in 1 .. n - 1 : a[i] = u
      BY <2>5, <2>6, <2>8 DEF Contains
    <3>2. CASE i < p
      <4>1. i \in 1 .. n /\ s[i] = u /\ i # p
        BY <2>1, <2>6, <3>1, <3>2
      <4> QED BY <2>1, <4>1 DEF Contains, IsInjective, n
    <3>3. CASE i >= p
      <4>1. i + 1 \in 1 .. n /\ s[i + 1] = u /\ i + 1 # p
        BY <2>1, <2>5, <2>6, <3>1, <3>3
      <4> QED BY <2>1, <4>1 DEF Contains, IsInjective, n
    <3> QED BY <2>1, <3>2, <3>3
  <2>9. ASSUME NEW u, Contains(s, u), u # x PROVE Contains(a, u)
    <3>1. PICK i \in 1 .. n : s[i] = u
      BY <2>9 DEF Contains, n
    <3>2. CASE i < p
      BY <2>1, <2>5, <2>6, <3>1, <3>2 DEF Contains
    <3>3. CASE i > p
      <4>1. i - 1 \in p .. n - 1 /\ i - 1 \in 1 .. Len(a) /\ a[i - 1] = u
        BY <2>1, <2>5, <2>6, <3>1, <3>3
      <4> QED BY <4>1 DEF Contains
    <3> QED BY <2>1, <2>9, <3>1, <3>2, <3>3
  <2> QED BY <2>5, <2>6, <2>7, <2>8, <2>9 DEF a
<1> QED BY <1>1, <1>2

\* A line from a place on.
LEMMA SuffixOnce ==
  ASSUME NEW s \in Seq(Task), IsInjective(s), NEW i \in DOMAIN s
  PROVE  LET r == SubSeq(s, i + 1, Len(s)) IN
         /\ r \in Seq(Task)
         /\ IsInjective(r)
         /\ \A u : Contains(r, u) <=> \E k \in i + 1 .. Len(s) : s[k] = u
<1> DEFINE n == Len(s)
           r == SubSeq(s, i + 1, n)
<1>1. n \in Nat /\ i \in 1 .. n /\ DOMAIN s = 1 .. n
  OBVIOUS
<1>2. /\ r \in Seq(Task) /\ Len(r) = n + 1 - (i + 1)
      /\ DOMAIN r = 1 .. n + 1 - (i + 1)
      /\ \A k \in 1 .. n + 1 - (i + 1) : r[k] = s[i + 1 + k - 1]
  <2>1. i + 1 \in Nat \ {0} /\ i + 1 <= n + 1 /\ n <= Len(s)
    BY <1>1
  <2> QED BY <1>1, <2>1, Stretch
<1> HIDE DEF n, r
<1>3. /\ r \in Seq(Task) /\ Len(r) = n - i /\ DOMAIN r = 1 .. n - i
      /\ \A k \in 1 .. n - i : r[k] = s[i + k]
  <2>1. n + 1 - (i + 1) = n - i /\ \A k \in 1 .. n - i : i + 1 + k - 1 = i + k
    BY <1>1
  <2> QED BY <1>2, <2>1
<1>4. IsInjective(r)
  <2> SUFFICES ASSUME NEW j \in 1 .. n - i, NEW k \in 1 .. n - i, r[j] = r[k]
               PROVE  j = k
    BY <1>3 DEF IsInjective
  <2>1. i + j \in DOMAIN s /\ i + k \in DOMAIN s /\ s[i + j] = s[i + k]
    BY <1>1, <1>3
  <2>2. i + j = i + k
    BY <2>1 DEF IsInjective
  <2> QED BY <1>1, <2>2
<1>5. ASSUME NEW u PROVE Contains(r, u) <=> \E k \in i + 1 .. n : s[k] = u
  <2>1. ASSUME NEW j \in 1 .. n - i, r[j] = u
        PROVE  i + j \in i + 1 .. n /\ s[i + j] = u
    BY <1>1, <1>3, <2>1
  <2>2. ASSUME NEW k \in i + 1 .. n, s[k] = u
        PROVE  k - i \in 1 .. n - i /\ r[k - i] = u
    <3>1. k - i \in 1 .. n - i /\ i + (k - i) = k
      BY <1>1
    <3>2. r[k - i] = s[i + (k - i)]
      BY <1>3, <3>1
    <3> QED BY <2>2, <3>1, <3>2
  <2>3. Contains(r, u) <=> \E j \in 1 .. n - i : r[j] = u
    BY <1>3 DEF Contains
  <2> QED BY <2>1, <2>2, <2>3
<1> QED BY <1>3, <1>4, <1>5 DEF n, r

\* A task named moves first: the line holds those it held.
LEMMA MoveFirstOnce ==
  ASSUME NEW s \in Seq(Task), IsInjective(s), NEW x \in Task
  PROVE  /\ MoveFirst(s, x) \in Seq(Task)
         /\ IsInjective(MoveFirst(s, x))
         /\ \A u : Contains(MoveFirst(s, x), u) <=> Contains(s, u)
<1>1. CASE ~Contains(s, x)
  BY <1>1 DEF MoveFirst
<1>2. CASE Contains(s, x)
  <2> DEFINE o == <<x>>
             r == Without(s, x)
  <2>1. o \in Seq(Task) /\ IsInjective(o) /\ \A u : Contains(o, u) <=> u = x
    BY DEF IsInjective, Contains
  <2>2. /\ r \in Seq(Task) /\ IsInjective(r)
        /\ \A u : Contains(r, u) <=> Contains(s, u) /\ u # x
    BY WithoutOnce
  <2>3. MoveFirst(s, x) = o \o r
    BY <1>2 DEF MoveFirst
  <2> HIDE DEF o, r
  <2>4. /\ o \o r \in Seq(Task) /\ IsInjective(o \o r)
        /\ \A u : Contains(o \o r, u) <=> Contains(o, u) \/ Contains(r, u)
    BY <2>1, <2>2, ConcatOnce
  <2> QED BY <1>2, <2>1, <2>2, <2>3, <2>4
<1> QED BY <1>1, <1>2

\* An order that tasks are woken in holds each of them once.
LEMMA OrdersOnce ==
  ASSUME NEW S \in SUBSET Task, NEW o \in Orders(S)
  PROVE  /\ o \in Seq(Task)
         /\ IsInjective(o)
         /\ \A u : Contains(o, u) <=> u \in S
<1> DEFINE n == Cardinality(S)
<1>1. n \in Nat
  BY TaskAssumption, FS_Subset, FS_CardinalityType
<1> HIDE DEF n
<1>2. o \in [1 .. n -> S] /\ IsInjective(o) /\ \A u \in S : \E i \in 1 .. n : o[i] = u
  BY DEF Orders, Bijection, Injection, Surjection, n
<1>3. o \in Seq(S) /\ Len(o) = n
  BY <1>1, <1>2
<1>4. o \in Seq(Task)
  BY <1>3
<1>5. \A u : Contains(o, u) <=> u \in S
  BY <1>2, <1>3 DEF Contains
<1> QED BY <1>2, <1>4, <1>5

-----------------------------------------------------------------------------
(* The scheduler: what it makes of a line that holds each awake task once. *)

LEMMA WokenWaits ==
  ASSUME NEW w \in [Task -> Waits], NEW S
  PROVE  /\ Woken(w, S) \in [Task -> Waits]
         /\ \A u \in Task : Asleep(Woken(w, S), u) <=> Asleep(w, u) /\ u \notin S
         /\ \A u \in Task : ~Asleep(w, u) => Woken(w, S)[u] = w[u]
BY DEF Woken, Waits, Asleep

LEMMA EnterOnce ==
  ASSUME NEW w, NEW l \in Seq(Task), IsInjective(l), NEW x \in Task
  PROVE  /\ Enter(w, l, x) \in Seq(Task)
         /\ IsInjective(Enter(w, l, x))
         /\ \A u : Contains(Enter(w, l, x), u)
                     <=> \/ Contains(l, u)
                         \/ u = x /\ Asleep(w, x) /\ x # current
<1>1. CASE Asleep(w, x) /\ ~Contains(l, x) /\ x # current
  <2>1. /\ Append(l, x) \in Seq(Task) /\ IsInjective(Append(l, x))
        /\ \A u : Contains(Append(l, x), u) <=> Contains(l, u) \/ u = x
    BY <1>1, AppendOnce
  <2> QED BY <1>1, <2>1 DEF Enter
<1>2. CASE ~(Asleep(w, x) /\ ~Contains(l, x) /\ x # current)
  <2>1. Enter(w, l, x) = l
    BY <1>2 DEF Enter
  <2> QED BY <1>2, <2>1
<1> QED BY <1>1, <1>2

\* A grant takes the task it switches to out of the line, and loses no other.
LEMMA GrantOnce ==
  ASSUME NEW l \in Seq(Task), IsInjective(l), NEW alive \in SUBSET Task,
         locked \in Task \cup {None}, Grant(l, alive)
  PROVE  /\ line' \in Seq(Task)
         /\ IsInjective(line')
         /\ current' \in alive \cup {None}
         /\ ~Contains(line', current')
         /\ \A u \in alive : Contains(line', u) \/ u = current' <=> Contains(l, u)
         /\ \A u : Contains(line', u) => Contains(l, u)
         /\ current' = None /\ locked \notin alive
              => \A u \in alive : ~Contains(line', u)
         /\ locked \in alive => current' \in {locked, None}
<1> USE TaskAssumption
<1>1. CASE /\ locked \in alive
           /\ current' = IF Contains(l, locked) THEN locked ELSE None
           /\ line' = Without(l, locked)
  <2>1. /\ line' \in Seq(Task) /\ IsInjective(line')
        /\ \A u : Contains(line', u) <=> Contains(l, u) /\ u # locked
    BY <1>1, WithoutOnce
  <2>2. ~Contains(line', None)
    BY <2>1 DEF Contains
  <2> QED BY <1>1, <2>1, <2>2
<1>2. CASE /\ locked \notin alive
           /\ \A i \in DOMAIN l : l[i] \notin alive
           /\ current' = None
           /\ line' = <<>>
  <2>1. \A u : ~Contains(line', u)
    BY <1>2 DEF Contains
  <2>2. \A u \in alive : ~Contains(l, u)
    BY <1>2 DEF Contains
  <2>3. line' \in Seq(Task) /\ IsInjective(line')
    BY <1>2 DEF IsInjective
  <2> QED BY <1>2, <2>1, <2>2, <2>3
<1>3. CASE /\ locked \notin alive
           /\ \E i \in DOMAIN l :
                /\ l[i] \in alive
                /\ \A j \in 1 .. i - 1 : l[j] \notin alive
                /\ current' = l[i]
                /\ line' = SubSeq(l, i + 1, Len(l))
  <2>1. PICK i \in DOMAIN l : /\ l[i] \in alive
                              /\ \A j \in 1 .. i - 1 : l[j] \notin alive
                              /\ current' = l[i]
                              /\ line' = SubSeq(l, i + 1, Len(l))
    BY <1>3
  <2>2. /\ line' \in Seq(Task) /\ IsInjective(line')
        /\ \A u : Contains(line', u) <=> \E k \in i + 1 .. Len(l) : l[k] = u
    BY <2>1, SuffixOnce
  <2>3. Len(l) \in Nat /\ DOMAIN l = 1 .. Len(l) /\ i \in 1 .. Len(l)
    OBVIOUS
  <2>4. ~Contains(line', current')
    <3>1. ~ \E k \in i + 1 .. Len(l) : l[k] = l[i]
      BY <2>3 DEF IsInjective
    <3> QED BY <2>1, <2>2, <3>1
  <2>5. ASSUME NEW u, Contains(line', u) PROVE Contains(l, u)
    <3>1. PICK k \in i + 1 .. Len(l) : l[k] = u
      BY <2>2, <2>5
    <3>2. k \in 1 .. Len(l)
      BY <2>3
    <3> QED BY <3>1, <3>2 DEF Contains
  <2>6. Contains(l, current')
    <3>1. i \in 1 .. Len(l) /\ l[i] = current'
      BY <2>1, <2>3
    <3> QED BY <3>1 DEF Contains
  <2>7. ASSUME NEW u \in alive, Contains(l, u)
        PROVE  Contains(line', u) \/ u = current'
    <3>1. PICK k \in 1 .. Len(l) : l[k] = u
      BY <2>7 DEF Contains
    <3>2. k >= i
      BY <2>1, <2>3, <3>1
    <3> QED BY <2>1, <2>2, <2>3, <3>1, <3>2
  <2>8. current' \in alive /\ current' # None
    BY <2>1
  <2> QED BY <1>3, <2>2, <2>4, <2>5, <2>6, <2>7, <2>8
<1> QED BY <1>1, <1>2, <1>3 DEF Grant, PassOver

\* What a step of the scheduler's leaves, alive being the live tasks after it.
Turned(alive) ==
  /\ wait' \in [Task -> Waits]
  /\ line' \in Seq(Task)
  /\ IsInjective(line')
  /\ current' \in alive \cup {None}
  /\ ~Contains(line', current')
  /\ \A u \in alive : Contains(line', u) \/ u = current' <=> ~Asleep(wait', u)
  /\ current' = None /\ locked \notin alive
       => \A u \in alive : ~Contains(line', u)
  /\ \A u \in Task : life'[u] = "unmade"
                       => wait'[u] = "Running" /\ ~Contains(line', u)
  /\ locked \in alive => current' \in {current, locked, None}

\* What holds of waits and of a line whatever a step makes of the processor.
Sound(w, l, alive) ==
  /\ w \in [Task -> Waits]
  /\ l \in Seq(Task)
  /\ IsInjective(l)
  /\ alive \subseteq Task
  /\ \A u \in Task : life'[u] = "unmade" => w[u] = "Running" /\ ~Contains(l, u)
  /\ locked \in Task \cup {None}

\* The waits and the line that the processor is granted with; those with t
\* still to be told where it goes; those beside the task that has it.
Ready(w, l, alive) ==
  /\ Sound(w, l, alive)
  /\ \A u \in alive : Contains(l, u) <=> ~Asleep(w, u)
Beside(t, w, l, alive) ==
  /\ Sound(w, l, alive)
  /\ ~Contains(l, t)
  /\ life'[t] # "unmade"
  /\ \A u \in alive \ {t} : Contains(l, u) <=> ~Asleep(w, u)
Standing(w, l, alive) ==
  /\ Sound(w, l, alive)
  /\ current \in alive \cup {None}
  /\ ~Contains(l, current)
  /\ \A u \in alive : Contains(l, u) \/ u = current <=> ~Asleep(w, u)

LEMMA GrantTurns ==
  ASSUME NEW w, NEW l, NEW alive,
         Ready(w, l, alive), wait' = w, Grant(l, alive)
  PROVE  Turned(alive)
BY GrantOnce DEF Turned, Ready, Sound

\* Those with a window due are put behind a line that holds none of them.
LEMMA ReleaseTurns ==
  ASSUME NEW t \in Task, NEW w, NEW l, NEW alive, Live \subseteq alive,
         Ready(w, l, alive), Release(t, w, l, alive)
  PROVE  Turned(alive)
<1> DEFINE D == Due(t, w)
<1>1. D \in SUBSET Task /\ \A u \in D : Asleep(w, u) /\ u \in alive
  BY DEF Due, Live
<1>2. PICK o \in Orders(D) : wait' = Woken(w, D) /\ Grant(l \o o, alive)
  BY DEF Release
<1> HIDE DEF D
<1>3. o \in Seq(Task) /\ IsInjective(o) /\ \A u : Contains(o, u) <=> u \in D
  BY <1>1, OrdersOnce
<1> DEFINE m == l \o o
           v == Woken(w, D)
<1>4. /\ m \in Seq(Task) /\ IsInjective(m)
      /\ \A u : Contains(m, u) <=> Contains(l, u) \/ u \in D
  <2>1. \A u : ~(Contains(l, u) /\ Contains(o, u))
    BY <1>1, <1>3 DEF Ready
  <2> QED BY <1>3, <2>1, ConcatOnce DEF Ready, Sound
<1>5. /\ v \in [Task -> Waits]
      /\ \A u \in Task : Asleep(v, u) <=> Asleep(w, u) /\ u \notin D
      /\ \A u \in Task : ~Asleep(w, u) => v[u] = w[u]
  BY WokenWaits DEF Ready, Sound
<1>6. Grant(m, alive) /\ wait' = v
  BY <1>2
<1> HIDE DEF m, v
<1>7. \A u \in alive : Contains(m, u) <=> ~Asleep(v, u)
  BY <1>1, <1>4, <1>5 DEF Ready, Sound
<1>8. \A u \in Task : life'[u] = "unmade" => v[u] = "Running" /\ ~Contains(m, u)
  <2> SUFFICES ASSUME NEW u \in Task, life'[u] = "unmade"
               PROVE  v[u] = "Running" /\ ~Contains(m, u)
    OBVIOUS
  <2>1. w[u] = "Running" /\ ~Contains(l, u) /\ ~Asleep(w, u)
    BY DEF Ready, Sound, Asleep
  <2> QED BY <1>1, <1>4, <1>5, <2>1
<1>9. Ready(v, m, alive)
  BY <1>4, <1>5, <1>7, <1>8 DEF Ready, Sound
<1> QED BY <1>6, <1>9, GrantTurns

LEMMA SettleTurns ==
  ASSUME NEW w, NEW l, NEW alive,
         Standing(w, l, alive), wait' = w, Settle(l, alive)
  PROVE  Turned(alive)
<1> USE TaskAssumption
<1>1. CASE current = None /\ Grant(l, alive)
  <2>1. Ready(w, l, alive)
    BY <1>1 DEF Standing, Ready, Sound
  <2> QED BY <2>1, <1>1, GrantTurns
<1>2. CASE current # None /\ line' = l /\ current' = current
  BY <1>2 DEF Standing, Turned, Sound
<1> QED BY <1>1, <1>2 DEF Settle

\* A task that sleeps, or goes behind the line.
LEMMA SleepReady ==
  ASSUME NEW t \in Task, NEW w, NEW l, NEW alive, Beside(t, w, l, alive),
         NEW x \in {"Waiting", "Timed"}
  PROVE  Ready([w EXCEPT ![t] = x], l, alive)
BY DEF Beside, Ready, Sound, Asleep, Waits

LEMMA YieldReady ==
  ASSUME NEW t \in Task, NEW w, NEW l, NEW alive, Beside(t, w, l, alive),
         ~Asleep(w, t)
  PROVE  Ready(w, Append(l, t), alive)
<1>1. /\ Append(l, t) \in Seq(Task) /\ IsInjective(Append(l, t))
      /\ \A u : Contains(Append(l, t), u) <=> Contains(l, u) \/ u = t
  BY AppendOnce DEF Beside, Sound
<1> QED BY <1>1 DEF Beside, Ready, Sound

LEMMA FirstBeside ==
  ASSUME NEW t \in Task, NEW w, NEW l, NEW alive, Beside(t, w, l, alive),
         NEW u \in Task
  PROVE  Beside(t, w, MoveFirst(l, u), alive)
BY MoveFirstOnce DEF Beside, Sound

-----------------------------------------------------------------------------
(* The invariant, and what each step makes of the processor.               *)

\* What a slot no task was made in yet is: neither asleep nor in line, so
\* that the task made in it can be put there once.
UnmadeOut ==
  \A u \in Task : life[u] = "unmade"
                    => wait[u] = "Running" /\ ~Contains(line, u)

\* The inductive invariant: the type, the turns and the unmade slots, and
\* that nobody in line is left while nobody has the processor.
IInv == TypeOK /\ OneTurnEach /\ NoIdleProcessor /\ UnmadeOut

\* A step that leaves the scheduler and the tasks' lives as they are.
LEMMA UnchangedTurns ==
  ASSUME IInv, life' = life, current' = current, line' = line, wait' = wait
  PROVE  Turned(Live)
BY DEF IInv, TypeOK, OneTurnEach, NoIdleProcessor, UnmadeOut, Turned, Live

\* A task that has the processor is beside the line.
LEMMA RunningBeside ==
  ASSUME IInv, NEW t \in Task, current = t, life' = life
  PROVE  Beside(t, wait, line, Live) /\ ~Asleep(wait, t) /\ t \in Live
<1> USE TaskAssumption
<1>1. t \in Live
  BY DEF IInv, OneTurnEach
<1>2. ~Asleep(wait, t) /\ ~Contains(line, t)
  BY <1>1 DEF IInv, OneTurnEach
<1>3. Sound(wait, line, Live)
  BY DEF IInv, TypeOK, OneTurnEach, UnmadeOut, Sound, Live
<1>4. \A u \in Live \ {t} : Contains(line, u) <=> ~Asleep(wait, u)
  BY DEF IInv, OneTurnEach
<1> QED BY <1>1, <1>2, <1>3, <1>4 DEF Beside, Live

\* A task signalled is asleep no more and in line, where it was asleep.
LEMMA SignalStanding ==
  ASSUME IInv, NEW u \in Task, life' = life
  PROVE  Standing(Woken(wait, {u}), Enter(wait, line, u), Live)
<1> DEFINE w == Woken(wait, {u})
           l == Enter(wait, line, u)
<1>1. /\ w \in [Task -> Waits]
      /\ \A v \in Task : Asleep(w, v) <=> Asleep(wait, v) /\ v \notin {u}
      /\ \A v \in Task : ~Asleep(wait, v) => w[v] = wait[v]
  BY WokenWaits DEF IInv, TypeOK
<1>2. /\ l \in Seq(Task) /\ IsInjective(l)
      /\ \A v : Contains(l, v) <=> \/ Contains(line, v)
                                   \/ v = u /\ Asleep(wait, u) /\ u # current
  BY EnterOnce DEF IInv, TypeOK, OneTurnEach
<1> HIDE DEF w, l
<1>3. \A v \in Task : life'[v] = "unmade" => w[v] = "Running" /\ ~Contains(l, v)
  <2> SUFFICES ASSUME NEW v \in Task, life[v] = "unmade"
               PROVE  w[v] = "Running" /\ ~Contains(l, v)
    OBVIOUS
  <2>1. wait[v] = "Running" /\ ~Contains(line, v)
    BY DEF IInv, UnmadeOut
  <2>2. ~Asleep(wait, v)
    BY <2>1 DEF Asleep
  <2> QED BY <1>1, <1>2, <2>1, <2>2
<1>4. Sound(w, l, Live)
  BY <1>1, <1>2, <1>3 DEF Sound, IInv, TypeOK, Live
<1>5. current \in Live \cup {None} /\ ~Contains(l, current)
  BY <1>2 DEF IInv, OneTurnEach
<1>6. \A v \in Live : Contains(l, v) \/ v = current <=> ~Asleep(w, v)
  BY <1>1, <1>2 DEF IInv, OneTurnEach, Live
<1> QED BY <1>4, <1>5, <1>6 DEF Standing, w, l

LEMMA SignalTurns ==
  ASSUME IInv, NEW u \in Task, life' = life, current # None,
         wait' = Woken(wait, {u}), line' = Enter(wait, line, u),
         current' = current
  PROVE  Turned(Live)
<1>1. Standing(Woken(wait, {u}), Enter(wait, line, u), Live)
  BY SignalStanding
<1>2. Settle(Enter(wait, line, u), Live)
  BY DEF Settle
<1> QED BY <1>1, <1>2, SettleTurns

LEMMA SignalBeside ==
  ASSUME IInv, NEW t \in Task, NEW u \in Task, current = t, life' = life
  PROVE  Beside(t, Woken(wait, {u}), Enter(wait, line, u), Live)
<1>1. Standing(Woken(wait, {u}), Enter(wait, line, u), Live)
  BY SignalStanding
<1>2. life[t] # "unmade"
  BY RunningBeside DEF Live
<1> QED BY <1>1, <1>2 DEF Standing, Beside

\* A task that waits, having woken none.
LEMMA SleepTurns ==
  ASSUME IInv, NEW t \in Task, current = t, life' = life,
         NEW x \in {"Waiting", "Timed"},
         Release(t, [wait EXCEPT ![t] = x], line, Live)
  PROVE  Turned(Live)
<1>1. Ready([wait EXCEPT ![t] = x], line, Live)
  BY RunningBeside, SleepReady
<1> QED BY <1>1, ReleaseTurns

LEMMA ResumeTurns ==
  ASSUME IInv, NEW t \in Task, Resume(t)
  PROVE  Turned(Live)
<1>1. current = t /\ wait' = [wait EXCEPT ![t] = "Running"]
      /\ life' = life /\ current' = current /\ line' = line
  BY DEF Resume
<1>2. /\ t \in Live /\ wait' \in [Task -> Waits]
      /\ \A u \in Task : Asleep(wait', u) <=> Asleep(wait, u)
      /\ \A u \in Task : life[u] = "unmade" => wait'[u] = "Running"
  BY <1>1, RunningBeside DEF IInv, TypeOK, Waits, Asleep, UnmadeOut
<1> QED BY <1>1, <1>2 DEF IInv, TypeOK, OneTurnEach, NoIdleProcessor,
                          UnmadeOut, Turned, Live

\* A task sent to goes first, and its sender waits.
LEMMA SendTurns ==
  ASSUME IInv, NEW t \in Task, NEW u \in Task, Send(t, u)
  PROVE  Turned(Live)
<1> DEFINE w == Woken(wait, {u})
           l == MoveFirst(Enter(wait, line, u), u)
<1>1. /\ current = t /\ life' = life
      /\ Release(t, [w EXCEPT ![t] = "Waiting"], l, Live)
  BY DEF Send, Makes, InGuest
<1>2. Beside(t, w, l, Live)
  BY <1>1, SignalBeside, FirstBeside
<1> HIDE DEF w, l
<1>3. Ready([w EXCEPT ![t] = "Waiting"], l, Live)
  BY <1>2, SleepReady
<1> QED BY <1>1, <1>3, ReleaseTurns

\* An answer: its sender first, and the one that answers behind the line.
LEMMA HandBackTurns ==
  ASSUME IInv, NEW t \in Task, NEW to \in Task, current = t, life' = life,
         HandBack(t, to)
  PROVE  Turned(Live)
<1> DEFINE w == Woken(wait, {to})
           l == Enter(wait, line, to)
<1>1. CASE /\ Contains(l, to)
           /\ Release(t, w, Append(MoveFirst(l, to), t), Live)
  <2>1. Beside(t, w, MoveFirst(l, to), Live)
    BY SignalBeside, FirstBeside
  <2>2. ~Asleep(w, t)
    BY RunningBeside, WokenWaits DEF IInv, TypeOK
  <2> HIDE DEF w, l
  <2>3. Ready(w, Append(MoveFirst(l, to), t), Live)
    BY <2>1, <2>2, YieldReady
  <2> QED BY <1>1, <2>3, ReleaseTurns
<1>2. CASE wait' = w /\ line' = l /\ current' = current
  BY <1>2, SignalTurns, TaskAssumption
<1> QED BY <1>1, <1>2 DEF HandBack

LEMMA YieldTurns ==
  ASSUME IInv, NEW t \in Task, Yield(t)
  PROVE  Turned(Live)
<1> DEFINE D == Due(t, wait)
<1>1. current = t /\ life' = life
  BY DEF Yield, Makes, InGuest
<1>2. Beside(t, wait, line, Live) /\ ~Asleep(wait, t) /\ t \in Live
  BY <1>1, RunningBeside
<1>3. CASE Release(t, wait, Append(line, t), Live)
  BY <1>2, <1>3, YieldReady, ReleaseTurns
<1>4. CASE /\ line = <<>>
           /\ \E order \in Orders(D) : /\ wait' = Woken(wait, D)
                                       /\ Grant(Append(order, t), Live)
  <2>1. D \in SUBSET Task /\ \A u \in D : Asleep(wait, u) /\ u \in Live /\ u # t
    BY DEF Due, Live
  <2>2. PICK o \in Orders(D) : wait' = Woken(wait, D) /\ Grant(Append(o, t), Live)
    BY <1>4
  <2> DEFINE w == Woken(wait, D)
  <2> HIDE DEF D
  <2>3. o \in Seq(Task) /\ IsInjective(o) /\ \A u : Contains(o, u) <=> u \in D
    BY <2>1, OrdersOnce
  <2>4. /\ w \in [Task -> Waits]
        /\ \A u \in Task : Asleep(w, u) <=> Asleep(wait, u) /\ u \notin D
        /\ \A u \in Task : ~Asleep(wait, u) => w[u] = wait[u]
    BY WokenWaits DEF IInv, TypeOK
  <2>5. wait' = w
    BY <2>2
  <2> HIDE DEF w
  <2>6. \A u \in Live \ {t} : Contains(o, u) <=> ~Asleep(w, u)
    <3>1. \A u \in Live \ {t} : Asleep(wait, u)
      <4>1. \A u : ~Contains(line, u)
        BY <1>4 DEF Contains
      <4> QED BY <1>1, <4>1 DEF IInv, OneTurnEach
    <3> QED BY <2>3, <2>4, <3>1 DEF Live
  <2>7. \A u \in Task : life'[u] = "unmade"
                          => w[u] = "Running" /\ ~Contains(o, u)
    <3> SUFFICES ASSUME NEW u \in Task, life[u] = "unmade"
                 PROVE  w[u] = "Running" /\ ~Contains(o, u)
      BY <1>1
    <3>1. wait[u] = "Running" /\ ~Asleep(wait, u)
      BY DEF IInv, UnmadeOut, Asleep
    <3> QED BY <2>1, <2>3, <2>4, <3>1
  <2>8. Beside(t, w, o, Live) /\ ~Asleep(w, t)
    BY <1>1, <1>2, <2>1, <2>3, <2>4, <2>6, <2>7
       DEF Beside, Sound, Live, IInv, TypeOK
  <2> QED BY <2>2, <2>5, <2>8, YieldReady, GrantTurns
<1>5. CASE UNCHANGED sched
  BY <1>1, <1>5, UnchangedTurns DEF sched
<1> QED BY <1>3, <1>4, <1>5 DEF Yield

LEMMA DirectedYieldTurns ==
  ASSUME IInv, NEW t \in Task, NEW u \in Task, DirectedYield(t, u)
  PROVE  Turned(Live)
<1> DEFINE l == IF u \in Live THEN MoveFirst(line, u) ELSE line
<1>1. /\ current = t /\ life' = life
      /\ Release(t, wait, Append(l, t), Live)
  BY DEF DirectedYield, Makes, InGuest
<1>2. Beside(t, wait, line, Live) /\ ~Asleep(wait, t)
  BY <1>1, RunningBeside
<1>3. Beside(t, wait, MoveFirst(line, u), Live)
  BY <1>2, FirstBeside
<1>4. Beside(t, wait, l, Live)
  BY <1>2, <1>3
<1> HIDE DEF l
<1> QED BY <1>1, <1>2, <1>4, YieldReady, ReleaseTurns

\* A task made is not in line yet, so that the line holds it once.
LEMMA ExecTurns ==
  ASSUME IInv, NEW t \in Task, NEW u \in Task, Exec(t, u)
  PROVE  Turned(Live \cup {u})
<1> DEFINE o == <<u>>
           l == o \o line
           alive == Live \cup {u}
<1>1. /\ current = t /\ life[u] = "unmade" /\ life' = [life EXCEPT ![u] = "live"]
      /\ Release(t, wait, Append(l, t), alive)
  BY DEF Exec, Made, Makes, InGuest
<1>2. t \in Live /\ ~Asleep(wait, t) /\ ~Contains(line, t) /\ t # u
  <2>1. t \in Live
    BY <1>1, TaskAssumption DEF IInv, OneTurnEach
  <2> QED BY <1>1, <2>1 DEF IInv, OneTurnEach, Live
<1>3. wait[u] = "Running" /\ ~Asleep(wait, u) /\ ~Contains(line, u)
  BY <1>1 DEF IInv, UnmadeOut, Asleep
<1>4. o \in Seq(Task) /\ IsInjective(o) /\ \A v : Contains(o, v) <=> v = u
  BY DEF IsInjective, Contains
<1> HIDE DEF o
<1>5. /\ l \in Seq(Task) /\ IsInjective(l)
      /\ \A v : Contains(l, v) <=> v = u \/ Contains(line, v)
  <2>1. line \in Seq(Task) /\ IsInjective(line)
    BY DEF IInv, TypeOK, OneTurnEach
  <2>2. \A v : ~(Contains(o, v) /\ Contains(line, v))
    BY <1>3, <1>4
  <2> QED BY <1>4, <2>1, <2>2, ConcatOnce
<1> HIDE DEF l
<1>6. \A v \in alive \ {t} : Contains(l, v) <=> ~Asleep(wait, v)
  BY <1>1, <1>3, <1>5 DEF IInv, OneTurnEach
<1>7. \A v \in Task : life'[v] = "unmade"
                        => wait[v] = "Running" /\ ~Contains(l, v)
  BY <1>1, <1>5 DEF IInv, UnmadeOut, TypeOK
<1>8. life'[t] # "unmade" /\ alive \subseteq Task /\ wait \in [Task -> Waits]
      /\ locked \in Task \cup {None}
  BY <1>1, <1>2 DEF Live, IInv, TypeOK
<1>9. Beside(t, wait, l, alive)
  BY <1>2, <1>5, <1>6, <1>7, <1>8 DEF Beside, Sound
<1>10. Live \subseteq alive
  OBVIOUS
<1> HIDE DEF alive
<1>11. Turned(alive)
  BY <1>1, <1>2, <1>9, <1>10, YieldReady, ReleaseTurns
<1> QED BY <1>11 DEF alive

LEMMA LaunchTurns ==
  ASSUME IInv, NEW u \in Task, Launch(u)
  PROVE  Turned(Live \cup {u})
<1> DEFINE alive == Live \cup {u}
           l == Append(line, u)
<1>1. /\ life[u] = "unmade" /\ life' = [life EXCEPT ![u] = "live"]
      /\ Settle(l, alive) /\ wait' = wait
  BY DEF Launch, Made
<1>2. wait[u] = "Running" /\ ~Asleep(wait, u) /\ ~Contains(line, u)
  BY <1>1 DEF IInv, UnmadeOut, Asleep
<1>3. /\ l \in Seq(Task) /\ IsInjective(l)
      /\ \A v : Contains(l, v) <=> Contains(line, v) \/ v = u
  BY <1>2, AppendOnce DEF IInv, TypeOK, OneTurnEach
<1>4. u # current /\ current \in Live \cup {None}
  BY <1>1, TaskAssumption DEF IInv, OneTurnEach, Live, TypeOK
<1> HIDE DEF l
<1>5. \A v \in Task : life'[v] = "unmade"
                        => wait[v] = "Running" /\ ~Contains(l, v)
  BY <1>1, <1>3 DEF IInv, UnmadeOut, TypeOK
<1>6. Sound(wait, l, alive)
  BY <1>3, <1>5 DEF Sound, IInv, TypeOK, Live
<1>7. \A v \in alive : Contains(l, v) \/ v = current <=> ~Asleep(wait, v)
  BY <1>2, <1>3 DEF IInv, OneTurnEach
<1>8. Standing(wait, l, alive)
  BY <1>3, <1>4, <1>6, <1>7 DEF Standing, IInv, OneTurnEach
<1> HIDE DEF alive
<1>9. Turned(alive)
  BY <1>1, <1>8, SettleTurns
<1> QED BY <1>9 DEF alive

LEMMA ExitTurns ==
  ASSUME IInv, NEW t \in Task, Exit(t)
  PROVE  Turned(Live \ {t})
<1> DEFINE l == Without(line, t)
<1>1. /\ current = t /\ life' = [life EXCEPT ![t] = "ended"] /\ wait' = wait
      /\ Grant(l, Live \ {t})
  BY DEF Exit, Gone, Makes, InGuest
<1>2. /\ l \in Seq(Task) /\ IsInjective(l)
      /\ \A u : Contains(l, u) <=> Contains(line, u) /\ u # t
  BY WithoutOnce DEF IInv, TypeOK, OneTurnEach
<1> HIDE DEF l
<1>3. \A u \in Live \ {t} : Contains(l, u) <=> ~Asleep(wait, u)
  BY <1>1, <1>2 DEF IInv, OneTurnEach
<1>4. Sound(wait, l, Live \ {t})
  BY <1>1, <1>2 DEF Sound, IInv, TypeOK, UnmadeOut, Live
<1>5. Ready(wait, l, Live \ {t})
  BY <1>3, <1>4 DEF Ready
<1> QED BY <1>1, <1>5, GrantTurns

LEMMA TerminateTurns ==
  ASSUME IInv, NEW t \in Task, NEW u \in Task, Terminate(t, u)
  PROVE  Turned(Live \ {u})
<1>1. /\ current = t /\ u # t /\ life' = [life EXCEPT ![u] = "ended"]
      /\ wait' = wait /\ line' = Without(line, u) /\ current' = current
  BY DEF Terminate, Gone, Makes, InGuest
<1>2. /\ line' \in Seq(Task) /\ IsInjective(line')
      /\ \A v : Contains(line', v) <=> Contains(line, v) /\ v # u
  BY <1>1, WithoutOnce DEF IInv, TypeOK, OneTurnEach
<1>3. t \in Live /\ t # None
  BY <1>1, TaskAssumption DEF IInv, OneTurnEach
<1> QED BY <1>1, <1>2, <1>3
        DEF Turned, IInv, TypeOK, OneTurnEach, UnmadeOut, Live

LEMMA PostTurns ==
  ASSUME IInv, NEW u \in Task, life' = life, current # None, PostTo(u)
  PROVE  Turned(Live)
BY SignalTurns, UnchangedTurns DEF PostTo, sched

LEMMA WakeUpTurns ==
  ASSUME IInv, NEW u \in Task, life' = life, WakeUp(u)
  PROVE  Turned(Live)
<1>1. wait' = Woken(wait, {u})
  BY DEF WakeUp
<1>2. CASE Asleep(wait, u) /\ Settle(Enter(wait, line, u), Live)
  BY <1>1, <1>2, SignalStanding, SettleTurns
<1>3. CASE ~Asleep(wait, u) /\ UNCHANGED <<current, line>>
  <2>1. wait' = wait
    BY <1>1, <1>3 DEF Woken, IInv, TypeOK
  <2> QED BY <1>3, <2>1, UnchangedTurns
<1> QED BY <1>2, <1>3 DEF WakeUp

-----------------------------------------------------------------------------
(* The turns: each action, then every step.                                *)

\* What a step must leave of the turns.
SchedTyped ==
  /\ current \in Task \cup {None}
  /\ line \in Seq(Task)
  /\ wait \in [Task -> Waits]

TurnsOK == SchedTyped /\ OneTurnEach /\ NoIdleProcessor /\ UnmadeOut

\* While a locked task lives on, no other is switched to.
LockStep == locked' = locked /\ locked \in Live /\ life'[locked] = "live"
              => current' \in {current, locked, None}

LEMMA TurnedKeeps ==
  ASSUME Turned(Live'), locked' = locked
  PROVE  TurnsOK' /\ LockStep
BY DEF Turned, TurnsOK, SchedTyped, LockStep, OneTurnEach, NoIdleProcessor, UnmadeOut,
       Live, Asleep

\* The task a frame answers is one that there is.
LEMMA AnsweredTask ==
  ASSUME TypeOK, NEW t \in Task, NEW i \in DOMAIN stack[t],
         stack[t][i].at = "answer"
  PROVE  stack[t][i].peer \in Task
<1>1. stack[t] \in Seq(Frame)
  BY DEF TypeOK
<1>2. stack[t][i] \in Frame
  BY <1>1
<1> QED BY <1>2 DEF Frame

LEMMA TopIn ==
  ASSUME TypeOK, NEW t \in Task, stack[t] # <<>>
  PROVE  Len(stack[t]) \in DOMAIN stack[t] /\ Top(t) = stack[t][Len(stack[t])]
<1>1. stack[t] \in Seq(Frame)
  BY DEF TypeOK
<1> QED BY <1>1 DEF Top

LEMMA EngineTurns ==
  ASSUME IInv, NEW t \in Task, Engine(t)
  PROVE  TurnsOK' /\ LockStep
<1>1. CASE \/ Start(t) \/ TakeNext(t) \/ YieldDone(t) \/ ReadPosted(t)
           \/ ReadInput(t) \/ ReadThroughHook(t)
  <2>1. /\ life' = life /\ locked' = locked
        /\ current' = current /\ line' = line /\ wait' = wait
    BY <1>1 DEF Start, TakeNext, YieldDone, ReadPosted, ReadInput,
                ReadThroughHook, sched
  <2> QED BY <2>1, UnchangedTurns, TurnedKeeps DEF Live
<1>2. CASE Resume(t)
  <2>1. life' = life /\ locked' = locked
    BY <1>2 DEF Resume
  <2> QED BY <1>2, <2>1, ResumeTurns, TurnedKeeps DEF Live
<1>3. CASE SendDone(t)
  <2>1. life' = life /\ locked' = locked /\ current = t
    BY <1>3 DEF SendDone, At
  <2>2. CASE UNCHANGED sched
    BY <2>1, <2>2, UnchangedTurns, TurnedKeeps DEF Live, sched
  <2>3. CASE Release(t, [wait EXCEPT ![t] = "Waiting"], line, Live)
    BY <2>1, <2>3, SleepTurns, TurnedKeeps DEF Live
  <2> QED BY <1>3, <2>2, <2>3 DEF SendDone
<1>4. CASE LookFurther(t)
  <2>1. life' = life /\ locked' = locked /\ current = t
    BY <1>4 DEF LookFurther, Reading, At
  <2>2. CASE UNCHANGED sched
    BY <2>1, <2>2, UnchangedTurns, TurnedKeeps DEF Live, sched
  <2>3. ASSUME NEW x \in {"Waiting", "Timed"},
               Release(t, [wait EXCEPT ![t] = x], line, Live)
        PROVE  TurnsOK' /\ LockStep
    BY <2>1, <2>3, SleepTurns, TurnedKeeps DEF Live
  <2> QED BY <1>4, <2>2, <2>3 DEF LookFurther
<1>5. ASSUME NEW u \in Task, ReadHotKey(t, u) PROVE TurnsOK' /\ LockStep
  <2>1. life' = life /\ locked' = locked /\ current = t /\ PostTo(u)
    BY <1>5 DEF ReadHotKey, Reading, At
  <2> QED BY <2>1, PostTurns, TurnedKeeps, TaskAssumption DEF Live
<1> QED BY <1>1, <1>2, <1>3, <1>4, <1>5 DEF Engine

LEMMA ProgramTurns ==
  ASSUME IInv, NEW t \in Task, Program(t)
  PROVE  TurnsOK' /\ LockStep
<1>1. CASE GetMessage(t) \/ HookReturn(t) \/ BeginPaint(t)
  <2>1. /\ life' = life /\ locked' = locked
        /\ current' = current /\ line' = line /\ wait' = wait
    BY <1>1 DEF GetMessage, HookReturn, BeginPaint, sched
  <2> QED BY <2>1, UnchangedTurns, TurnedKeeps DEF Live
<1>2. CASE ReturnAnswer(t)
  <2>1. life' = life /\ locked' = locked /\ current = t
        /\ stack[t] # <<>> /\ Top(t).at = "answer"
    BY <1>2 DEF ReturnAnswer, At
  <2>2. Top(t).peer \in Task
    BY <2>1, TopIn, AnsweredTask DEF IInv
  <2>3. CASE UNCHANGED sched
    BY <2>1, <2>3, UnchangedTurns, TurnedKeeps DEF Live, sched
  <2>4. CASE HandBack(t, Top(t).peer)
    BY <2>1, <2>2, <2>4, HandBackTurns, TurnedKeeps DEF Live
  <2> QED BY <1>2, <2>3, <2>4 DEF ReturnAnswer
<1>3. CASE Reply(t)
  <2>1. life' = life /\ locked' = locked /\ current = t
    BY <1>3 DEF Reply, Makes, InGuest
  <2>2. PICK i \in DOMAIN stack[t] : /\ stack[t][i].at = "answer"
                                     /\ HandBack(t, stack[t][i].peer)
    BY <1>3 DEF Reply
  <2>3. stack[t][i].peer \in Task
    BY <2>2, AnsweredTask DEF IInv
  <2> QED BY <2>1, <2>2, <2>3, HandBackTurns, TurnedKeeps DEF Live
<1>4. CASE Yield(t)
  <2>1. life' = life /\ locked' = locked
    BY <1>4 DEF Yield
  <2> QED BY <1>4, <2>1, YieldTurns, TurnedKeeps DEF Live
<1>5. CASE Lock(t)
  <2>1. /\ life' = life /\ current = t
        /\ current' = current /\ line' = line /\ wait' = wait
    BY <1>5 DEF Lock, Makes, InGuest, sched
  <2>2. t # None /\ Live' = Live
    BY <2>1, TaskAssumption DEF Live
  <2> QED BY <2>1, <2>2 DEF IInv, TypeOK, TurnsOK, SchedTyped, LockStep, OneTurnEach,
                            NoIdleProcessor, UnmadeOut, Asleep
<1>6. CASE Exit(t)
  <2>1. locked' = locked /\ life' = [life EXCEPT ![t] = "ended"]
    BY <1>6 DEF Exit, Gone
  <2>2. Live' = Live \ {t}
    BY <2>1 DEF Live, IInv, TypeOK
  <2> QED BY <1>6, <2>1, <2>2, ExitTurns, TurnedKeeps
<1>7. ASSUME NEW u \in Task, Send(t, u) PROVE TurnsOK' /\ LockStep
  <2>1. life' = life /\ locked' = locked
    BY <1>7 DEF Send
  <2> QED BY <1>7, <2>1, SendTurns, TurnedKeeps DEF Live
<1>8. ASSUME NEW u \in Task, DirectedYield(t, u) PROVE TurnsOK' /\ LockStep
  <2>1. life' = life /\ locked' = locked
    BY <1>8 DEF DirectedYield
  <2> QED BY <1>8, <2>1, DirectedYieldTurns, TurnedKeeps DEF Live
<1>9. ASSUME NEW u \in Task, Exec(t, u) PROVE TurnsOK' /\ LockStep
  <2>1. locked' = locked /\ life' = [life EXCEPT ![u] = "live"]
    BY <1>9 DEF Exec, Made
  <2>2. Live' = Live \cup {u}
    BY <2>1 DEF Live, IInv, TypeOK
  <2> QED BY <1>9, <2>1, <2>2, ExecTurns, TurnedKeeps
<1>10. ASSUME NEW u \in Task, Post(t, u) PROVE TurnsOK' /\ LockStep
  <2>1. life' = life /\ locked' = locked /\ current = t /\ PostTo(u)
    BY <1>10 DEF Post, Makes, InGuest
  <2> QED BY <2>1, PostTurns, TurnedKeeps, TaskAssumption DEF Live
<1>11. ASSUME NEW u \in Task, Invalidate(t, u) PROVE TurnsOK' /\ LockStep
  <2>1. /\ life' = life /\ locked' = locked
        /\ current' = current /\ line' = line /\ wait' = wait
    BY <1>11 DEF Invalidate, sched
  <2> QED BY <2>1, UnchangedTurns, TurnedKeeps DEF Live
<1>12. ASSUME NEW u \in Task, Terminate(t, u) PROVE TurnsOK' /\ LockStep
  <2>1. locked' = locked /\ life' = [life EXCEPT ![u] = "ended"]
    BY <1>12 DEF Terminate, Gone
  <2>2. Live' = Live \ {u}
    BY <2>1 DEF Live, IInv, TypeOK
  <2> QED BY <1>12, <2>1, <2>2, TerminateTurns, TurnedKeeps
<1> QED BY <1>1, <1>2, <1>3, <1>4, <1>5, <1>6, <1>7, <1>8, <1>9, <1>10,
           <1>11, <1>12 DEF Program

LEMMA HostTurns ==
  ASSUME IInv, Host
  PROVE  TurnsOK' /\ LockStep
<1>1. ASSUME NEW u \in Task, TimeComes(u) \/ HostInput(u)
      PROVE  TurnsOK' /\ LockStep
  <2>1. life' = life /\ locked' = locked /\ WakeUp(u)
    BY <1>1 DEF TimeComes, HostInput
  <2> QED BY <2>1, WakeUpTurns, TurnedKeeps DEF Live
<1>2. ASSUME NEW u \in Task, Launch(u) PROVE TurnsOK' /\ LockStep
  <2>1. locked' = locked /\ life' = [life EXCEPT ![u] = "live"]
    BY <1>2 DEF Launch, Made
  <2>2. Live' = Live \cup {u}
    BY <2>1 DEF Live, IInv, TypeOK
  <2> QED BY <1>2, <2>1, <2>2, LaunchTurns, TurnedKeeps
<1> QED BY <1>1, <1>2 DEF Host

-----------------------------------------------------------------------------
(* The types of what the scheduler does not keep.                          *)

\* A stack with a frame put on it, taken off it, or put in another's place.
LEMMA PushTyped ==
  ASSUME NEW s \in [Task -> Seq(Frame)], NEW t \in Task, NEW f \in Frame
  PROVE  Push(s, t, f) \in [Task -> Seq(Frame)]
BY DEF Push

LEMMA PopTyped ==
  ASSUME NEW s \in [Task -> Seq(Frame)], NEW t \in Task
  PROVE  Pop(s, t) \in [Task -> Seq(Frame)]
<1> DEFINE q == s[t]
<1>1. q \in Seq(Frame) /\ Len(q) \in Nat
  OBVIOUS
<1>2. SubSeq(q, 1, Len(q) - 1) \in Seq(Frame)
  <2> HIDE DEF q
  <2>2. CASE Len(q) = 0
    <3>1. SubSeq(q, 1, Len(q) - 1) = <<>>
      BY <1>1, <2>2, SubSeqEmpty
    <3>2. <<>> \in Seq(Frame)
      OBVIOUS
    <3> QED BY <3>1, <3>2, Zenon
  <2>3. CASE Len(q) # 0
    <3>1. 1 \in Nat \ {0} /\ Len(q) - 1 \in Nat /\ 1 <= Len(q) - 1 + 1
          /\ Len(q) - 1 <= Len(q)
      BY <1>1, <2>3
    <3> QED BY <1>1, <3>1, Stretch
  <2> QED BY <2>2, <2>3
<1> QED BY <1>2 DEF Pop

LEMMA PutTyped ==
  ASSUME NEW s \in [Task -> Seq(Frame)], NEW t \in Task,
         NEW i \in DOMAIN s[t], NEW f \in Frame
  PROVE  [s EXCEPT ![t][i] = f] \in [Task -> Seq(Frame)]
<1> DEFINE q == s[t]
           r == [q EXCEPT ![i] = f]
<1>1. q \in Seq(Frame) /\ Len(q) \in Nat /\ DOMAIN q = 1 .. Len(q)
  OBVIOUS
<1>2. r \in [1 .. Len(q) -> Frame]
  BY <1>1
<1>3. r \in Seq(Frame)
  BY <1>1, <1>2
<1> QED BY <1>3

\* The frames the machine makes.
LEMMA FramesTyped ==
  /\ \A place \in {"start", "yield", "look", "reading", "hook"} :
       Plain(place) \in Frame
  /\ \A u \in Task : SendTo(u) \in Frame
  /\ \A m \in Message : AnswerTo(m) \in Frame
  /\ \A f \in Frame : [f EXCEPT !.done = TRUE] \in Frame
BY TaskAssumption DEF Plain, SendTo, AnswerTo, Frame, Message, Places

LEMMA AnswerTyped ==
  ASSUME NEW s \in [Task -> Seq(Frame)], NEW f, f.peer \in Task
  PROVE  GiveAnswer(s, f) \in [Task -> Seq(Frame)]
<1>1. CASE f.depth \in DOMAIN s[f.peer]
  <2> DEFINE u == f.peer
             i == f.depth
             g == [s[u][i] EXCEPT !.done = TRUE]
  <2>1. g \in Frame
    BY <1>1, FramesTyped
  <2>2. GiveAnswer(s, f) = [s EXCEPT ![u][i] = g]
    BY <1>1 DEF GiveAnswer
  <2> HIDE DEF g
  <2> QED BY <1>1, <2>1, <2>2, PutTyped
<1>2. CASE f.depth \notin DOMAIN s[f.peer]
  BY <1>2 DEF GiveAnswer
<1> QED BY <1>1, <1>2

\* A message put last among, or the first taken from, those sent to a task.
LEMMA SentTyped ==
  ASSUME NEW s \in [Task -> Seq(Message)], NEW u \in Task
  PROVE  /\ \A m \in Message : [s EXCEPT ![u] = Append(@, m)]
                                 \in [Task -> Seq(Message)]
         /\ s[u] # <<>> => /\ Head(s[u]) \in Message
                           /\ [s EXCEPT ![u] = Tail(@)] \in [Task -> Seq(Message)]
<1>1. s[u] \in Seq(Message)
  OBVIOUS
<1>2. s[u] # <<>> => Head(s[u]) \in Message /\ Tail(s[u]) \in Seq(Message)
  BY <1>1, HeadTailProperties
<1> QED BY <1>1, <1>2

\* The types of all but the scheduler's own state.
RestTyped ==
  /\ life \in [Task -> {"unmade", "live", "ended"}]
  /\ locked \in Task \cup {None}
  /\ stack \in [Task -> Seq(Frame)]
  /\ sent \in [Task -> Seq(Message)]
  /\ posted \in [Task -> Nat]
  /\ paint \in [Task -> BOOLEAN]
  /\ input \in [Task -> BOOLEAN]

LEMMA PostTyped ==
  ASSUME TypeOK, NEW u \in Task, PostTo(u)
  PROVE  posted' \in [Task -> Nat]
<1>1. CASE posted[u] < RingSize
  <2>1. posted' = [posted EXCEPT ![u] = @ + 1]
    BY <1>1 DEF PostTo
  <2> QED BY <2>1 DEF TypeOK
<1>2. CASE ~(posted[u] < RingSize)
  BY <1>2 DEF PostTo, TypeOK
<1> QED BY <1>1, <1>2

LEMMA EngineTyped ==
  ASSUME TypeOK, NEW t \in Task, Engine(t)
  PROVE  RestTyped'
<1> USE DEF TypeOK, RestTyped, sched, queues
<1>1. CASE Start(t)
  BY <1>1, PopTyped DEF Start, At
<1>2. CASE Resume(t)
  <2>1. stack' = Pop(stack, t) \/ stack' = stack
    BY <1>2 DEF Resume
  <2>2. stack' \in [Task -> Seq(Frame)]
    BY <2>1, PopTyped
  <2> QED BY <1>2, <2>2 DEF Resume
<1>3. CASE TakeNext(t)
  <2>1. Head(sent[t]) \in Message /\ sent' \in [Task -> Seq(Message)]
    BY <1>3, SentTyped DEF TakeNext
  <2>2. AnswerTo(Head(sent[t])) \in Frame
    BY <2>1, FramesTyped
  <2>3. stack' \in [Task -> Seq(Frame)]
    BY <1>3, <2>2, PushTyped DEF TakeNext
  <2> QED BY <1>3, <2>1, <2>3 DEF TakeNext
<1>4. CASE YieldDone(t)
  BY <1>4, PopTyped DEF YieldDone, At
<1>5. CASE SendDone(t)
  BY <1>5, PopTyped DEF SendDone, At
<1>6. CASE ReadPosted(t)
  <2>1. posted[t] > 0 /\ posted' = [posted EXCEPT ![t] = @ - 1]
    BY <1>6 DEF ReadPosted
  <2>2. posted' \in [Task -> Nat]
    BY <2>1
  <2> QED BY <1>6, <2>2, PopTyped DEF ReadPosted
<1>7. CASE ReadInput(t)
  BY <1>7, PopTyped DEF ReadInput, Reading, At
<1> DEFINE n == Len(stack[t])
<1>8. ASSUME stack[t] # <<>>, NEW f \in Frame
      PROVE  [stack EXCEPT ![t][n] = f] \in [Task -> Seq(Frame)]
  BY <1>8, TopIn, PutTyped
<1>9. Plain("look") \in Frame /\ Plain("reading") \in Frame
      /\ Plain("hook") \in Frame
  BY FramesTyped
<1>10. CASE ReadThroughHook(t)
  <2>1. stack[t] # <<>> /\ stack' = Push(PastPosted(t), t, Plain("hook"))
    BY <1>10 DEF ReadThroughHook, Reading, At
  <2>2. PastPosted(t) \in [Task -> Seq(Frame)]
    BY <1>8, <1>9, <2>1 DEF PastPosted
  <2>3. stack' \in [Task -> Seq(Frame)]
    BY <1>9, <2>1, <2>2, PushTyped
  <2> QED BY <1>10, <2>3 DEF ReadThroughHook
<1>11. CASE LookFurther(t)
  <2>1. stack[t] # <<>>
    BY <1>11 DEF LookFurther, Reading, At
  <2>2. stack' = Pop(stack, t) \/ stack' = [stack EXCEPT ![t][n] = Plain("look")]
    BY <1>11 DEF LookFurther
  <2>3. stack' \in [Task -> Seq(Frame)]
    <3>1. CASE stack' = Pop(stack, t)
      BY <3>1, PopTyped
    <3>2. CASE stack' = [stack EXCEPT ![t][n] = Plain("look")]
      BY <1>8, <1>9, <2>1, <3>2
    <3> QED BY <2>2, <3>1, <3>2
  <2>4. UNCHANGED <<life, locked, sent, queues>>
    BY <1>11 DEF LookFurther
  <2> QED BY <2>3, <2>4
<1>12. ASSUME NEW u \in Task, ReadHotKey(t, u) PROVE RestTyped'
  <2>1. stack[t] # <<>>
    BY <1>12 DEF ReadHotKey, Reading, At
  <2>2. stack' \in [Task -> Seq(Frame)]
    BY <1>8, <1>9, <1>12, <2>1 DEF PastPosted, ReadHotKey
  <2>3. posted' \in [Task -> Nat]
    BY <1>12, PostTyped DEF ReadHotKey
  <2> QED BY <1>12, <2>2, <2>3 DEF ReadHotKey
<1> QED BY <1>1, <1>2, <1>3, <1>4, <1>5, <1>6, <1>7, <1>10, <1>11, <1>12
        DEF Engine

LEMMA ProgramTyped ==
  ASSUME TypeOK, NEW t \in Task, Program(t)
  PROVE  RestTyped'
<1> USE DEF TypeOK, RestTyped, sched, queues
<1>1. CASE GetMessage(t)
  BY <1>1, FramesTyped, PushTyped DEF GetMessage
<1>2. CASE ReturnAnswer(t)
  <2>1. stack[t] # <<>> /\ Top(t).at = "answer"
    BY <1>2 DEF ReturnAnswer, At
  <2>2. Top(t).peer \in Task
    BY <2>1, TopIn, AnsweredTask
  <2>3. Pop(stack, t) \in [Task -> Seq(Frame)]
    BY PopTyped
  <2>4. GiveAnswer(Pop(stack, t), Top(t)) \in [Task -> Seq(Frame)]
    BY <2>2, <2>3, AnswerTyped
  <2>5. \/ stack' = Pop(stack, t)
        \/ stack' = GiveAnswer(Pop(stack, t), Top(t))
    BY <1>2 DEF ReturnAnswer
  <2>6. UNCHANGED <<life, locked, sent, queues>>
    BY <1>2 DEF ReturnAnswer
  <2> QED BY <2>3, <2>4, <2>5, <2>6
<1>3. CASE HookReturn(t)
  <2>1. Pop(stack, t) \in [Task -> Seq(Frame)]
    BY PopTyped
  <2>2. Pop(Pop(stack, t), t) \in [Task -> Seq(Frame)]
    BY <2>1, PopTyped
  <2> QED BY <1>3, <2>1, <2>2 DEF HookReturn
<1>4. CASE Reply(t)
  <2>1. PICK i \in DOMAIN stack[t] :
          /\ stack[t][i].at = "answer"
          /\ stack' = GiveAnswer([stack EXCEPT ![t][i].done = TRUE],
                                 stack[t][i])
    BY <1>4 DEF Reply
  <2> DEFINE g == [stack[t][i] EXCEPT !.done = TRUE]
             s == [stack EXCEPT ![t][i] = g]
  <2>2. stack[t] \in Seq(Frame) /\ stack[t][i] \in Frame
    BY <2>1
  <2>3. g \in Frame
    BY <2>2, FramesTyped
  <2>4. stack' = GiveAnswer(s, stack[t][i])
    BY <2>1
  <2> HIDE DEF g
  <2>5. s \in [Task -> Seq(Frame)]
    BY <2>3, PutTyped
  <2> HIDE DEF s
  <2>6. stack[t][i].peer \in Task
    BY <2>1, AnsweredTask
  <2>7. stack' \in [Task -> Seq(Frame)]
    BY <2>4, <2>5, <2>6, AnswerTyped
  <2>8. UNCHANGED <<life, locked, sent, queues>>
    BY <1>4 DEF Reply
  <2> QED BY <2>7, <2>8
<1>5. CASE Yield(t)
  <2>1. stack' \in [Task -> Seq(Frame)]
    BY <1>5, FramesTyped, PushTyped DEF Yield
  <2>2. UNCHANGED <<life, locked, sent, queues>>
    BY <1>5 DEF Yield
  <2> QED BY <2>1, <2>2
<1>6. CASE BeginPaint(t)
  BY <1>6 DEF BeginPaint
<1>7. CASE Lock(t)
  BY <1>7 DEF Lock
<1>8. ASSUME NEW u \in Task, Gone(u) PROVE RestTyped'
  <2>1. <<>> \in Seq(Frame)
    OBVIOUS
  <2> QED BY <1>8, <2>1 DEF Gone
<1>9. CASE Exit(t)
  BY <1>8, <1>9 DEF Exit
<1>10. ASSUME NEW u \in Task, Terminate(t, u) PROVE RestTyped'
  BY <1>8, <1>10 DEF Terminate
<1>11. ASSUME NEW u \in Task, Send(t, u) PROVE RestTyped'
  <2> DEFINE m == [from |-> t, depth |-> Len(stack[t]) + 1]
  <2>1. m \in Message
    <3>1. stack[t] \in Seq(Frame)
      OBVIOUS
    <3> QED BY <3>1 DEF Message
  <2>2. sent' = [sent EXCEPT ![u] = Append(@, m)]
    BY <1>11 DEF Send
  <2> HIDE DEF m
  <2>3. sent' \in [Task -> Seq(Message)]
    BY <2>1, <2>2, SentTyped
  <2>4. stack' \in [Task -> Seq(Frame)]
    BY <1>11, FramesTyped, PushTyped DEF Send
  <2>5. UNCHANGED <<life, locked, queues>>
    BY <1>11 DEF Send
  <2> QED BY <2>3, <2>4, <2>5
<1>12. ASSUME NEW u \in Task, DirectedYield(t, u) PROVE RestTyped'
  <2>1. stack' \in [Task -> Seq(Frame)]
    BY <1>12, FramesTyped, PushTyped DEF DirectedYield
  <2>2. UNCHANGED <<life, locked, sent, queues>>
    BY <1>12 DEF DirectedYield
  <2> QED BY <2>1, <2>2
<1>13. ASSUME NEW u \in Task, Exec(t, u) PROVE RestTyped'
  <2>1. /\ stack' = Push(Push(stack, u, Plain("start")), t, Plain("yield"))
        /\ life' = [life EXCEPT ![u] = "live"]
        /\ UNCHANGED <<locked, sent, queues>>
    BY <1>13 DEF Exec, Made
  <2>2. Push(stack, u, Plain("start")) \in [Task -> Seq(Frame)]
    BY FramesTyped, PushTyped
  <2>3. stack' \in [Task -> Seq(Frame)]
    BY <2>1, <2>2, FramesTyped, PushTyped
  <2> QED BY <2>1, <2>3
<1>14. ASSUME NEW u \in Task, Post(t, u) PROVE RestTyped'
  BY <1>14, PostTyped DEF Post
<1>15. ASSUME NEW u \in Task, Invalidate(t, u) PROVE RestTyped'
  BY <1>15 DEF Invalidate
<1> QED BY <1>1, <1>2, <1>3, <1>4, <1>5, <1>6, <1>7, <1>9, <1>10, <1>11,
           <1>12, <1>13, <1>14, <1>15 DEF Program

LEMMA HostTyped ==
  ASSUME TypeOK, Host
  PROVE  RestTyped'
<1> USE DEF TypeOK, RestTyped, queues
<1>1. ASSUME NEW u \in Task, TimeComes(u) PROVE RestTyped'
  BY <1>1 DEF TimeComes
<1>2. ASSUME NEW u \in Task, HostInput(u) PROVE RestTyped'
  BY <1>2 DEF HostInput
<1>3. ASSUME NEW u \in Task, Launch(u) PROVE RestTyped'
  BY <1>3, FramesTyped, PushTyped DEF Launch, Made
<1> QED BY <1>1, <1>2, <1>3 DEF Host

-----------------------------------------------------------------------------
(* The theorems about the turns.                                           *)

LEMMA InitKeeps == Init => IInv
<1> SUFFICES ASSUME Init PROVE IInv
  OBVIOUS
<1> USE TaskAssumption DEF Init
<1>1. TypeOK
  <2>1. /\ line \in Seq(Task)
        /\ stack \in [Task -> Seq(Frame)] /\ sent \in [Task -> Seq(Message)]
    OBVIOUS
  <2>2. wait \in [Task -> Waits]
    BY DEF Waits
  <2> QED BY <2>1, <2>2 DEF TypeOK
<1>2. \A u : ~Contains(line, u)
  BY DEF Contains
<1>3. Live = {First}
  BY DEF Live
<1>4. \A u \in Task : ~Asleep(wait, u) /\ wait[u] = "Running"
  BY DEF Asleep
<1>5. IsInjective(line)
  BY DEF IsInjective
<1>6. current = First /\ current # None
  OBVIOUS
<1>7. OneTurnEach
  BY <1>2, <1>3, <1>4, <1>5, <1>6 DEF OneTurnEach
<1> QED BY <1>1, <1>2, <1>4, <1>6, <1>7 DEF IInv, NoIdleProcessor, UnmadeOut

LEMMA StutterKeeps ==
  ASSUME IInv, UNCHANGED vars
  PROVE  IInv' /\ LockStep
<1>1. /\ life' = life /\ current' = current /\ line' = line /\ wait' = wait
      /\ locked' = locked /\ stack' = stack /\ sent' = sent
      /\ posted' = posted /\ paint' = paint /\ input' = input
  BY DEF vars
<1> QED BY <1>1 DEF IInv, TypeOK, OneTurnEach, NoIdleProcessor, UnmadeOut,
                    Live, Asleep, LockStep

LEMMA StepKeeps ==
  ASSUME IInv, [Next]_vars
  PROVE  IInv' /\ LockStep
<1>1. CASE Next
  <2>1. TurnsOK' /\ LockStep
    BY <1>1, EngineTurns, ProgramTurns, HostTurns DEF Next
  <2>2. RestTyped'
    BY <1>1, EngineTyped, ProgramTyped, HostTyped DEF Next, IInv
  <2> QED BY <2>1, <2>2 DEF IInv, TurnsOK, SchedTyped, RestTyped, TypeOK
<1>2. CASE UNCHANGED vars
  BY <1>2, StutterKeeps
<1> QED BY <1>1, <1>2

\* The inductive invariant holds of every state the tasks can come to.
THEOREM InductiveInvariant == Spec => []IInv
<1>1. Init => IInv
  BY InitKeeps
<1>2. IInv /\ [Next]_vars => IInv'
  BY StepKeeps
<1> QED BY <1>1, <1>2, PTL DEF Spec

\* Every state is of its type, whatever the tasks do (TypeOK).
THEOREM TypeCorrect == Spec => []TypeOK
<1>1. IInv => TypeOK
  BY DEF IInv
<1> QED BY <1>1, InductiveInvariant, PTL

\* However many tasks there are and however deep they call each other, each
\* live one has its turn in one way: it has the processor, is in line once,
\* or sleeps; none has two turns and none is forgotten (scheduler.rs).
THEOREM TurnsKept == Spec => []OneTurnEach
<1>1. IInv => OneTurnEach
  BY DEF IInv
<1> QED BY <1>1, InductiveInvariant, PTL

\* No live task is left in line with the processor nobody's, unless a task
\* has it locked (scheduler.rs: grant, queue_for_processor).
THEOREM ProcessorUsed == Spec => []NoIdleProcessor
<1>1. IInv => NoIdleProcessor
  BY DEF IInv
<1> QED BY <1>1, InductiveInvariant, PTL

\* While a locked task lives on, no step switches to another (scheduler.rs:
\* grant).
THEOREM LockKept == Spec => LockHolds
<1>1. IInv /\ [Next]_vars => [LockStep]_vars
  BY StepKeeps
<1> QED BY <1>1, InductiveInvariant, PTL DEF Spec, LockHolds, LockStep

-----------------------------------------------------------------------------
(* The calls: the invariant.                                               *)

\* A frame of a call that is not answered yet: its sender's, or that of the
\* procedure that is to answer it.
OpenFrame(s, u, i) ==
  i \in DOMAIN s[u] /\ s[u][i].at \in {"send", "answer"} /\ ~s[u][i].done

\* t waits at depth d for u's answer.
Awaits(s, t, d, u) ==
  OpenFrame(s, t, d) /\ s[t][d].at = "send" /\ s[t][d].peer = u

\* What lies at u, or is in a procedure of u's, is another task's, and waited
\* for where it says unless that task has ended.
FromSender(l, s, t, d, u) == t # u /\ (l[t] # "ended" => Awaits(s, t, d, u))

\* A procedure of u's that is to answer the call that t makes at depth d.
Answering(s, u, i, t, d) ==
  /\ OpenFrame(s, u, i)
  /\ s[u][i].at = "answer"
  /\ s[u][i].peer = t
  /\ s[u][i].depth = d

QueuedAt(q, u, i, t, d) ==
  i \in DOMAIN q[u] /\ q[u][i].from = t /\ q[u][i].depth = d

\* Only a live task has frames.
StacksLive == \A u \in Task : life[u] # "live" => stack[u] = <<>>

\* A hook's frame is above the read that called it, that of a procedure above
\* a point where what is sent is taken, and none is below one yet to begin.
Shaped(s) ==
  \A u \in Task : \A i \in DOMAIN s[u] :
    /\ s[u][i].at = "hook" => i > 1 /\ s[u][i - 1].at = "reading"
    /\ s[u][i].at = "answer" => i > 1 /\ s[u][i - 1].at \in {"yield", "send", "look"}
    /\ s[u][i].at = "start" => i = 1

\* Each message taken or yet to be is waited for; each is there once; and each
\* that is waited for is there.
AllAwaited ==
  \A t, u \in Task : \A d, i \in Nat :
    QueuedAt(sent, u, i, t, d) \/ Answering(stack, u, i, t, d) => FromSender(life, stack, t, d, u)
Once(q, s, t, u, d, i, j) ==
  /\ QueuedAt(q, u, i, t, d) /\ QueuedAt(q, u, j, t, d) => i = j
  /\ Answering(s, u, i, t, d) /\ Answering(s, u, j, t, d) => i = j
  /\ ~(QueuedAt(q, u, i, t, d) /\ Answering(s, u, j, t, d))
NoneTwice ==
  \A t, u \in Task : \A d, i, j \in Nat : Once(sent, stack, t, u, d, i, j)
NoneLost ==
  \A t, u \in Task : \A d \in Nat :
    Awaits(stack, t, d, u) /\ life[u] # "ended" =>
      \E i \in Nat : QueuedAt(sent, u, i, t, d) \/ Answering(stack, u, i, t, d)

\* The inductive invariant of the calls.
CallsPlaced == AllAwaited /\ NoneTwice /\ NoneLost
CallsInv == StacksLive /\ Shaped(stack) /\ CallsPlaced

-----------------------------------------------------------------------------
(* Stacks with a frame put on, taken off or put in another's place.        *)

LEMMA Pushed ==
  ASSUME NEW s \in [Task -> Seq(Frame)], NEW t \in Task, NEW f
  PROVE  /\ Len(s[t]) \in Nat
         /\ DOMAIN s[t] = 1 .. Len(s[t])
         /\ DOMAIN Push(s, t, f)[t] = 1 .. Len(s[t]) + 1
         /\ \A i \in DOMAIN s[t] : Push(s, t, f)[t][i] = s[t][i]
         /\ Push(s, t, f)[t][Len(s[t]) + 1] = f
         /\ \A u \in Task \ {t} : Push(s, t, f)[u] = s[u]
<1>1. s[t] \in Seq(Frame)
  OBVIOUS
<1> DEFINE a == Append(s[t], f)
<1>2. /\ Len(s[t]) \in Nat /\ DOMAIN s[t] = 1 .. Len(s[t])
      /\ DOMAIN a = 1 .. Len(s[t]) + 1
      /\ \A i \in 1 .. Len(s[t]) : a[i] = s[t][i]
      /\ a[Len(s[t]) + 1] = f
  <2>1. s[t] \in Seq(Frame \cup {f})
    BY <1>1
  <2> QED BY <2>1
<1>3. Push(s, t, f) = [s EXCEPT ![t] = a]
  BY DEF Push
<1> HIDE DEF a
<1>4. Push(s, t, f)[t] = a /\ \A u \in Task \ {t} : Push(s, t, f)[u] = s[u]
  BY <1>3
<1> QED BY <1>2, <1>4

LEMMA Popped ==
  ASSUME NEW s \in [Task -> Seq(Frame)], NEW t \in Task, s[t] # <<>>
  PROVE  /\ Len(s[t]) \in Nat \ {0}
         /\ DOMAIN s[t] = 1 .. Len(s[t])
         /\ DOMAIN Pop(s, t)[t] = 1 .. Len(s[t]) - 1
         /\ Len(Pop(s, t)[t]) = Len(s[t]) - 1
         /\ \A i \in 1 .. Len(s[t]) - 1 : Pop(s, t)[t][i] = s[t][i]
         /\ \A u \in Task \ {t} : Pop(s, t)[u] = s[u]
<1> DEFINE q == s[t]
           n == Len(q)
           a == SubSeq(q, 1, n - 1)
<1>1. q \in Seq(Frame) /\ n \in Nat \ {0} /\ DOMAIN q = 1 .. n
  OBVIOUS
<1>2. Pop(s, t)[t] = a /\ \A u \in Task \ {t} : Pop(s, t)[u] = s[u]
  BY DEF Pop
<1>3. /\ Len(a) = n - 1 /\ DOMAIN a = 1 .. n - 1
      /\ \A i \in 1 .. n - 1 : a[i] = q[i]
  <2> HIDE DEF q
  <2>1. 1 \in Nat \ {0} /\ n - 1 \in Nat /\ 1 <= n - 1 + 1 /\ n - 1 <= Len(q)
    BY <1>1
  <2>2. /\ Len(a) = n - 1 + 1 - 1 /\ DOMAIN a = 1 .. n - 1 + 1 - 1
        /\ \A i \in 1 .. n - 1 + 1 - 1 : a[i] = q[1 + i - 1]
    BY <1>1, <2>1, Stretch
  <2> QED BY <1>1, <2>2
<1> QED BY <1>1, <1>2, <1>3

LEMMA Put ==
  ASSUME NEW s \in [Task -> Seq(Frame)], NEW t \in Task, NEW i \in DOMAIN s[t], NEW f
  PROVE  /\ Len(s[t]) \in Nat
         /\ DOMAIN s[t] = 1 .. Len(s[t])
         /\ DOMAIN [s EXCEPT ![t][i] = f][t] = DOMAIN s[t]
         /\ [s EXCEPT ![t][i] = f][t][i] = f
         /\ \A j \in DOMAIN s[t] \ {i} : [s EXCEPT ![t][i] = f][t][j] = s[t][j]
         /\ \A u \in Task \ {t} : [s EXCEPT ![t][i] = f][u] = s[u]
<1>1. s[t] \in Seq(Frame)
  OBVIOUS
<1> QED BY <1>1

\* From the stacks s to r the open frames at the places C are closed, and no
\* other changes.
Closes(s, r, C) ==
  \A u \in Task : \A i \in Nat :
    /\ OpenFrame(r, u, i) <=> OpenFrame(s, u, i) /\ <<u, i>> \notin C
    /\ OpenFrame(r, u, i) => /\ r[u][i].at = s[u][i].at
                             /\ r[u][i].peer = s[u][i].peer
                             /\ r[u][i].depth = s[u][i].depth

\* What each of them closes.
LEMMA PushCloses ==
  ASSUME NEW s \in [Task -> Seq(Frame)], NEW t \in Task, NEW f,
         f.at \notin {"send", "answer"}
  PROVE  Closes(s, Push(s, t, f), {})
BY Pushed DEF Closes, OpenFrame

LEMMA PopCloses ==
  ASSUME NEW s \in [Task -> Seq(Frame)], NEW t \in Task, s[t] # <<>>
  PROVE  Closes(s, Pop(s, t), {<<t, Len(s[t])>>})
BY Popped DEF Closes, OpenFrame

LEMMA PopNoCall ==
  ASSUME NEW s \in [Task -> Seq(Frame)], NEW t \in Task, s[t] # <<>>,
         ~OpenFrame(s, t, Len(s[t]))
  PROVE  Closes(s, Pop(s, t), {})
BY PopCloses DEF Closes

LEMMA PutCloses ==
  ASSUME NEW s \in [Task -> Seq(Frame)], NEW t \in Task, NEW i \in DOMAIN s[t], NEW f,
         ~OpenFrame(s, t, i), f.at \notin {"send", "answer"}
  PROVE  Closes(s, [s EXCEPT ![t][i] = f], {})
BY Put DEF Closes, OpenFrame

LEMMA DoneCloses ==
  ASSUME NEW s \in [Task -> Seq(Frame)], NEW t \in Task, NEW i \in DOMAIN s[t]
  PROVE  Closes(s, [s EXCEPT ![t][i].done = TRUE], {<<t, i>>})
<1> DEFINE f == [s[t][i] EXCEPT !.done = TRUE]
<1>1. s[t][i] \in Frame
  <2>1. s[t] \in Seq(Frame)
    OBVIOUS
  <2> QED BY <2>1
<1>2. f.done
  BY <1>1 DEF Frame
<1> HIDE DEF f
<1>3. Closes(s, [s EXCEPT ![t][i] = f], {<<t, i>>})
  BY <1>2, Put DEF Closes, OpenFrame
<1> QED BY <1>3 DEF f

LEMMA GiveCloses ==
  ASSUME NEW s \in [Task -> Seq(Frame)], NEW f, f.peer \in Task
  PROVE  Closes(s, GiveAnswer(s, f), {<<f.peer, f.depth>>})
<1>1. CASE f.depth \in DOMAIN s[f.peer]
  BY <1>1, DoneCloses DEF GiveAnswer
<1>2. CASE f.depth \notin DOMAIN s[f.peer]
  BY <1>2 DEF GiveAnswer, Closes, OpenFrame
<1> QED BY <1>1, <1>2

LEMMA ClosesBoth ==
  ASSUME NEW s, NEW r, NEW q, NEW C, NEW D, Closes(s, r, C), Closes(r, q, D)
  PROVE  Closes(s, q, C \cup D)
BY DEF Closes

\* The shape each of them leaves.
LEMMA PushShaped ==
  ASSUME NEW s \in [Task -> Seq(Frame)], NEW t \in Task, NEW f, Shaped(s),
         f.at = "hook" => s[t] # <<>> /\ s[t][Len(s[t])].at = "reading",
         f.at = "answer" => s[t] # <<>> /\ s[t][Len(s[t])].at \in {"yield", "send", "look"},
         f.at = "start" => s[t] = <<>>
  PROVE  Shaped(Push(s, t, f))
<1> DEFINE r == Push(s, t, f)
           n == Len(s[t])
<1>1. /\ n \in Nat
      /\ DOMAIN s[t] = 1 .. n
      /\ DOMAIN r[t] = 1 .. n + 1
      /\ \A i \in DOMAIN s[t] : r[t][i] = s[t][i]
      /\ r[t][n + 1] = f
      /\ \A u \in Task \ {t} : r[u] = s[u]
  BY Pushed
<1>2. s[t] # <<>> <=> n # 0
  OBVIOUS
<1> HIDE DEF r, n
<1>3. ASSUME NEW u \in Task, NEW i \in DOMAIN r[u]
      PROVE  /\ r[u][i].at = "hook" => i > 1 /\ r[u][i - 1].at = "reading"
             /\ r[u][i].at = "answer" => i > 1 /\ r[u][i - 1].at \in {"yield", "send", "look"}
             /\ r[u][i].at = "start" => i = 1
  <2>1. CASE u = t /\ i = n + 1
    <3>1. n # 0 => n \in DOMAIN s[t] /\ r[t][i - 1] = s[t][n] /\ i > 1
      BY <1>1, <2>1
    <3> QED BY <1>1, <1>2, <2>1, <3>1 DEF n
  <2>2. CASE u = t /\ i \in DOMAIN s[t]
    <3>1. i > 1 => i - 1 \in DOMAIN s[t] /\ r[t][i - 1] = s[t][i - 1]
      BY <1>1, <2>2
    <3> QED BY <1>1, <2>2, <3>1 DEF Shaped
  <2>3. CASE u # t
    BY <1>1, <2>3 DEF Shaped
  <2> QED BY <1>1, <1>3, <2>1, <2>2, <2>3
<1> QED BY <1>3 DEF Shaped, r

LEMMA PopShaped ==
  ASSUME NEW s \in [Task -> Seq(Frame)], NEW t \in Task, s[t] # <<>>, Shaped(s)
  PROVE  Shaped(Pop(s, t))
<1> DEFINE r == Pop(s, t)
           n == Len(s[t])
<1>1. /\ n \in Nat \ {0}
      /\ DOMAIN s[t] = 1 .. n
      /\ DOMAIN r[t] = 1 .. n - 1
      /\ \A i \in 1 .. n - 1 : r[t][i] = s[t][i]
      /\ \A u \in Task \ {t} : r[u] = s[u]
  BY Popped
<1> HIDE DEF r, n
<1>2. ASSUME NEW u \in Task, NEW i \in DOMAIN r[u]
      PROVE  /\ r[u][i].at = "hook" => i > 1 /\ r[u][i - 1].at = "reading"
             /\ r[u][i].at = "answer" => i > 1 /\ r[u][i - 1].at \in {"yield", "send", "look"}
             /\ r[u][i].at = "start" => i = 1
  <2>1. CASE u = t
    <3>1. i \in DOMAIN s[t] /\ r[t][i] = s[t][i]
      BY <1>1, <1>2, <2>1
    <3>2. i > 1 => i - 1 \in 1 .. n - 1 /\ r[t][i - 1] = s[t][i - 1]
      BY <1>1, <1>2, <2>1
    <3> QED BY <2>1, <3>1, <3>2 DEF Shaped
  <2>2. CASE u # t
    <3>1. r[u] = s[u] /\ i \in DOMAIN s[u]
      BY <1>1, <1>2, <2>2
    <3> QED BY <3>1 DEF Shaped
  <2> QED BY <2>1, <2>2
<1> QED BY <1>2 DEF Shaped, r

LEMMA PutShaped ==
  ASSUME NEW s \in [Task -> Seq(Frame)], NEW t \in Task, s[t] # <<>>, Shaped(s),
         NEW f, f.at \notin {"hook", "answer", "start"}
  PROVE  Shaped([s EXCEPT ![t][Len(s[t])] = f])
<1>1. s[t] \in Seq(Frame) /\ Len(s[t]) \in DOMAIN s[t]
  OBVIOUS
<1> QED BY <1>1, Put DEF Shaped

LEMMA DoneShaped ==
  ASSUME NEW s \in [Task -> Seq(Frame)], NEW t \in Task, NEW i \in DOMAIN s[t], Shaped(s)
  PROVE  Shaped([s EXCEPT ![t][i].done = TRUE])
<1> DEFINE f == [s[t][i] EXCEPT !.done = TRUE]
<1>1. s[t][i] \in Frame
  <2>1. s[t] \in Seq(Frame)
    OBVIOUS
  <2> QED BY <2>1
<1>2. f.at = s[t][i].at
  BY <1>1 DEF Frame
<1> HIDE DEF f
<1>3. Shaped([s EXCEPT ![t][i] = f])
  BY <1>2, Put DEF Shaped
<1> QED BY <1>3 DEF f

LEMMA GiveShaped ==
  ASSUME NEW s \in [Task -> Seq(Frame)], NEW f, f.peer \in Task, Shaped(s)
  PROVE  Shaped(GiveAnswer(s, f))
<1>1. CASE f.depth \in DOMAIN s[f.peer]
  BY <1>1, DoneShaped DEF GiveAnswer
<1>2. CASE f.depth \notin DOMAIN s[f.peer]
  BY <1>2 DEF GiveAnswer
<1> QED BY <1>1, <1>2

-----------------------------------------------------------------------------
(* What each kind of step makes of the calls.                              *)

\* Nothing sent, taken or answered.
LEMMA NothingPlaced ==
  ASSUME CallsPlaced, Closes(stack, stack', {}), sent' = sent,
         \A u \in Task : life'[u] = "ended" <=> life[u] = "ended"
  PROVE  CallsPlaced'
<1>1. \A t, u \in Task : \A d, i \in Nat :
        /\ Awaits(stack', t, d, u) <=> Awaits(stack, t, d, u)
        /\ Answering(stack', u, i, t, d) <=> Answering(stack, u, i, t, d)
        /\ QueuedAt(sent', u, i, t, d) <=> QueuedAt(sent, u, i, t, d)
  BY DEF Closes, Awaits, Answering, QueuedAt
<1>2. AllAwaited'
  BY <1>1 DEF CallsPlaced, AllAwaited, FromSender
<1>3. NoneTwice'
  <2> SUFFICES ASSUME NEW t \in Task, NEW u \in Task, NEW d \in Nat,
                      NEW i \in Nat, NEW j \in Nat
               PROVE  Once(sent', stack', t, u, d, i, j)
    BY DEF NoneTwice
  <2> QED BY <1>1 DEF CallsPlaced, NoneTwice, Once
<1>4. NoneLost'
  BY <1>1 DEF CallsPlaced, NoneLost
<1> QED BY <1>2, <1>3, <1>4 DEF CallsPlaced

\* A call answered: its sender's frame and its procedure's closed at once.
LEMMA AnswerPlaced ==
  ASSUME CallsPlaced, NEW t \in Task, NEW i \in Nat, NEW p \in Task, NEW d \in Nat,
         Answering(stack, t, i, p, d), Closes(stack, stack', {<<t, i>>, <<p, d>>}),
         sent' = sent, life' = life
  PROVE  CallsPlaced'
<1> DEFINE C == {<<t, i>>, <<p, d>>}
<1>1. \A x, u \in Task : \A e, j \in Nat :
        /\ Awaits(stack', x, e, u) <=> Awaits(stack, x, e, u) /\ <<x, e>> \notin C
        /\ Answering(stack', u, j, x, e) <=> Answering(stack, u, j, x, e) /\ <<u, j>> \notin C
        /\ QueuedAt(sent', u, j, x, e) <=> QueuedAt(sent, u, j, x, e)
  BY DEF Closes, Awaits, Answering, QueuedAt
<1>2. FromSender(life, stack, p, d, t)
  BY DEF CallsPlaced, AllAwaited
<1>3. stack[t][i].at = "answer" /\ stack[t][i].peer = p /\ stack[t][i].depth = d
  BY DEF Answering
<1>4. AllAwaited'
  <2> SUFFICES ASSUME NEW x \in Task, NEW u \in Task, NEW e \in Nat, NEW j \in Nat,
                      QueuedAt(sent', u, j, x, e) \/ Answering(stack', u, j, x, e)
               PROVE  FromSender(life', stack', x, e, u)
    BY DEF AllAwaited
  <2>1. QueuedAt(sent, u, j, x, e) \/ Answering(stack, u, j, x, e)
    BY <1>1
  <2>2. FromSender(life, stack, x, e, u)
    BY <2>1 DEF CallsPlaced, AllAwaited
  <2>3. CASE life[x] = "ended"
    BY <2>2, <2>3 DEF FromSender
  <2>4. CASE life[x] # "ended"
    <3>1. Awaits(stack, x, e, u)
      BY <2>2, <2>4 DEF FromSender
    <3>2. <<x, e>> # <<t, i>>
      BY <1>3, <3>1 DEF Awaits
    <3>3. ASSUME x = p, e = d PROVE FALSE
      <4>1. u = t
        BY <1>2, <2>4, <3>1, <3>3 DEF FromSender, Awaits
      <4>2. ~QueuedAt(sent, t, j, p, d)
        BY DEF CallsPlaced, NoneTwice, Once
      <4>3. Answering(stack', t, j, p, d) /\ j # i
        BY <1>1, <2>1, <3>3, <4>1, <4>2
      <4>4. Answering(stack, t, j, p, d)
        BY <1>1, <4>3
      <4> QED BY <4>3, <4>4 DEF CallsPlaced, NoneTwice, Once
    <3>4. Awaits(stack', x, e, u)
      BY <1>1, <3>1, <3>2, <3>3
    <3> QED BY <2>2, <3>4 DEF FromSender
  <2> QED BY <2>3, <2>4
<1>5. NoneTwice'
  BY <1>1 DEF CallsPlaced, NoneTwice, Once
<1>6. NoneLost'
  <2> SUFFICES ASSUME NEW x \in Task, NEW u \in Task, NEW e \in Nat,
                      Awaits(stack', x, e, u), life[u] # "ended"
               PROVE  \E j \in Nat : QueuedAt(sent', u, j, x, e) \/ Answering(stack', u, j, x, e)
    BY DEF NoneLost
  <2>1. Awaits(stack, x, e, u) /\ <<x, e>> # <<p, d>>
    BY <1>1
  <2>2. PICK j \in Nat : QueuedAt(sent, u, j, x, e) \/ Answering(stack, u, j, x, e)
    BY <2>1 DEF CallsPlaced, NoneLost
  <2>3. Answering(stack, u, j, x, e) => <<u, j>> \notin C
    <3> SUFFICES ASSUME Answering(stack, u, j, x, e) PROVE <<u, j>> \notin C
      OBVIOUS
    <3>1. <<u, j>> # <<t, i>>
      BY <1>3, <2>1 DEF Answering
    <3>2. <<u, j>> # <<p, d>>
      <4> SUFFICES ASSUME u = p, j = d PROVE FALSE
        OBVIOUS
      <4>1. life[p] # "ended"
        BY <2>1 DEF Answering, Awaits, OpenFrame
      <4> QED BY <1>2, <4>1 DEF FromSender, Awaits, Answering
    <3> QED BY <3>1, <3>2
  <2> QED BY <1>1, <2>2, <2>3
<1> QED BY <1>4, <1>5, <1>6 DEF CallsPlaced

\* A task ended: what it waited for and was to answer is closed.
LEMMA EndPlaced ==
  ASSUME CallsPlaced, NEW t \in Task, TypeOK,
         stack' = [stack EXCEPT ![t] = <<>>], sent' = sent,
         life' = [life EXCEPT ![t] = "ended"]
  PROVE  CallsPlaced'
<1>1. \A x, u \in Task : \A e, j \in Nat :
        /\ Awaits(stack', x, e, u) <=> Awaits(stack, x, e, u) /\ x # t
        /\ Answering(stack', u, j, x, e) <=> Answering(stack, u, j, x, e) /\ u # t
        /\ QueuedAt(sent', u, j, x, e) <=> QueuedAt(sent, u, j, x, e)
  <2>1. \A u \in Task : \A i \in Nat :
          /\ OpenFrame(stack', u, i) <=> OpenFrame(stack, u, i) /\ u # t
          /\ OpenFrame(stack', u, i) => stack'[u][i] = stack[u][i]
    BY DEF OpenFrame, TypeOK
  <2> TAKE x, u \in Task
  <2> TAKE e, j \in Nat
  <2>2. Awaits(stack', x, e, u) <=> Awaits(stack, x, e, u) /\ x # t
    BY <2>1 DEF Awaits
  <2>3. Answering(stack', u, j, x, e) <=> Answering(stack, u, j, x, e) /\ u # t
    BY <2>1 DEF Answering
  <2> QED BY <2>2, <2>3 DEF QueuedAt
<1>2. \A u \in Task : life'[u] = IF u = t THEN "ended" ELSE life[u]
  BY DEF TypeOK
<1>3. AllAwaited'
  BY <1>1, <1>2 DEF CallsPlaced, AllAwaited, FromSender
<1>4. NoneTwice'
  <2> SUFFICES ASSUME NEW x \in Task, NEW u \in Task, NEW e \in Nat,
                      NEW i \in Nat, NEW j \in Nat
               PROVE  Once(sent', stack', x, u, e, i, j)
    BY DEF NoneTwice
  <2>1. Once(sent, stack, x, u, e, i, j)
    BY DEF CallsPlaced, NoneTwice
  <2> QED BY <1>1, <2>1 DEF Once
<1>5. NoneLost'
  BY <1>1, <1>2 DEF CallsPlaced, NoneLost
<1> QED BY <1>3, <1>4, <1>5 DEF CallsPlaced

\* The oldest message sent a task taken, and its procedure called.
LEMMA TakePlaced ==
  ASSUME TypeOK, CallsPlaced, NEW t \in Task, sent[t] # <<>>, life' = life,
         sent' = [sent EXCEPT ![t] = Tail(@)],
         stack' = Push(stack, t, AnswerTo(Head(sent[t])))
  PROVE  CallsPlaced'
<1> DEFINE m == Head(sent[t])
           n == Len(stack[t])
<1>1. sent[t] \in Seq(Message) /\ sent \in [Task -> Seq(Message)]
  BY DEF TypeOK
<1>2. /\ m \in Message /\ m = sent[t][1] /\ 1 \in DOMAIN sent[t]
      /\ DOMAIN sent'[t] = 1 .. Len(sent[t]) - 1
      /\ \A j \in 1 .. Len(sent[t]) - 1 : sent'[t][j] = sent[t][j + 1]
      /\ \A u \in Task \ {t} : sent'[u] = sent[u]
      /\ Len(sent[t]) \in Nat /\ DOMAIN sent[t] = 1 .. Len(sent[t])
  BY <1>1
<1>3. /\ n \in Nat /\ DOMAIN stack[t] = 1 .. n /\ DOMAIN stack'[t] = 1 .. n + 1
      /\ \A i \in 1 .. n : stack'[t][i] = stack[t][i]
      /\ stack'[t][n + 1] = AnswerTo(m)
      /\ \A u \in Task \ {t} : stack'[u] = stack[u]
  <2> DEFINE f == AnswerTo(m)
  <2>1. stack \in [Task -> Seq(Frame)] /\ stack' = Push(stack, t, f)
    BY DEF TypeOK
  <2> HIDE DEF f
  <2>2. /\ n \in Nat /\ DOMAIN stack[t] = 1 .. n /\ DOMAIN stack'[t] = 1 .. n + 1
        /\ \A i \in 1 .. n : stack'[t][i] = stack[t][i]
        /\ stack'[t][n + 1] = f
        /\ \A u \in Task \ {t} : stack'[u] = stack[u]
    BY <2>1, Pushed
  <2> QED BY <2>2 DEF f
<1>4. AnswerTo(m).at = "answer" /\ AnswerTo(m).peer = m.from
      /\ AnswerTo(m).depth = m.depth /\ AnswerTo(m).done = FALSE
  BY DEF AnswerTo
<1> HIDE DEF m, n
<1>5. \A u \in Task : \A i \in Nat :
        OpenFrame(stack', u, i) <=> OpenFrame(stack, u, i) \/ (u = t /\ i = n + 1)
  BY <1>3, <1>4 DEF OpenFrame
<1>6. \A u \in Task : \A i \in Nat :
        OpenFrame(stack, u, i) => stack'[u][i] = stack[u][i] /\ ~(u = t /\ i = n + 1)
  BY <1>3 DEF OpenFrame
<1>7. \A x, u \in Task : \A e, j \in Nat :
        /\ Awaits(stack', x, e, u) <=> Awaits(stack, x, e, u)
        /\ Answering(stack', u, j, x, e)
             <=> \/ Answering(stack, u, j, x, e)
                 \/ u = t /\ j = n + 1 /\ x = m.from /\ e = m.depth
        /\ ~Answering(stack, t, n + 1, x, e)
  BY <1>3, <1>4, <1>5, <1>6 DEF Awaits, Answering
<1>8. \A x, u \in Task : \A e, j \in Nat :
        QueuedAt(sent', u, j, x, e)
          <=> IF u = t THEN j # 0 /\ QueuedAt(sent, t, j + 1, x, e)
                       ELSE QueuedAt(sent, u, j, x, e)
  BY <1>2 DEF QueuedAt
<1>9. m.from \in Task /\ m.depth \in Nat /\ QueuedAt(sent, t, 1, m.from, m.depth)
  BY <1>2 DEF QueuedAt, Message
<1>10. AllAwaited'
  <2> SUFFICES ASSUME NEW x \in Task, NEW u \in Task, NEW e \in Nat, NEW j \in Nat,
                      QueuedAt(sent', u, j, x, e) \/ Answering(stack', u, j, x, e)
               PROVE  FromSender(life', stack', x, e, u)
    BY DEF AllAwaited
  <2>1. PICK k \in Nat : QueuedAt(sent, u, k, x, e) \/ Answering(stack, u, k, x, e)
    <3>1. CASE QueuedAt(sent', u, j, x, e)
      <4>1. j + 1 \in Nat
        OBVIOUS
      <4> QED BY <1>8, <3>1, <4>1
    <3>2. CASE Answering(stack', u, j, x, e)
      <4>1. CASE Answering(stack, u, j, x, e)
        BY <4>1
      <4>2. CASE u = t /\ x = m.from /\ e = m.depth
        <5>1. 1 \in Nat
          OBVIOUS
        <5> QED BY <1>9, <4>2, <5>1
      <4> QED BY <1>7, <3>2, <4>1, <4>2
    <3> QED BY <3>1, <3>2
  <2>2. FromSender(life, stack, x, e, u)
    BY <2>1 DEF CallsPlaced, AllAwaited
  <2> QED BY <1>7, <2>2 DEF FromSender
<1>11. NoneTwice'
  <2> SUFFICES ASSUME NEW x \in Task, NEW u \in Task, NEW e \in Nat,
                      NEW i \in Nat, NEW j \in Nat
               PROVE  Once(sent', stack', x, u, e, i, j)
    BY DEF NoneTwice
  <2>1. /\ QueuedAt(sent, u, i, x, e) /\ QueuedAt(sent, u, j, x, e) => i = j
        /\ QueuedAt(sent, u, i + 1, x, e) /\ QueuedAt(sent, u, j + 1, x, e) => i = j
        /\ QueuedAt(sent, u, i + 1, x, e) /\ QueuedAt(sent, u, 1, x, e) => i = 0
        /\ ~(QueuedAt(sent, u, 1, x, e) /\ Answering(stack, u, i, x, e))
        /\ ~(QueuedAt(sent, u, 1, x, e) /\ Answering(stack, u, j, x, e))
        /\ Answering(stack, u, i, x, e) /\ Answering(stack, u, j, x, e) => i = j
        /\ ~(QueuedAt(sent, u, i, x, e) /\ Answering(stack, u, j, x, e))
        /\ ~(QueuedAt(sent, u, i + 1, x, e) /\ Answering(stack, u, j, x, e))
    BY DEF CallsPlaced, NoneTwice, Once
  <2>2. /\ QueuedAt(sent', u, i, x, e)
             <=> IF u = t THEN i # 0 /\ QueuedAt(sent, t, i + 1, x, e)
                          ELSE QueuedAt(sent, u, i, x, e)
        /\ QueuedAt(sent', u, j, x, e)
             <=> IF u = t THEN j # 0 /\ QueuedAt(sent, t, j + 1, x, e)
                          ELSE QueuedAt(sent, u, j, x, e)
    BY <1>8
  <2>3. /\ Answering(stack', u, i, x, e)
             <=> \/ Answering(stack, u, i, x, e)
                 \/ u = t /\ i = n + 1 /\ x = m.from /\ e = m.depth
        /\ Answering(stack', u, j, x, e)
             <=> \/ Answering(stack, u, j, x, e)
                 \/ u = t /\ j = n + 1 /\ x = m.from /\ e = m.depth
    BY <1>7
  <2>4. u = t /\ x = m.from /\ e = m.depth => QueuedAt(sent, u, 1, x, e)
    BY <1>9
  <2>5. QueuedAt(sent', u, i, x, e) /\ QueuedAt(sent', u, j, x, e) => i = j
    BY <2>1, <2>2
  <2>6. Answering(stack', u, i, x, e) /\ Answering(stack', u, j, x, e) => i = j
    BY <2>1, <2>3, <2>4
  <2>7. ~(QueuedAt(sent', u, i, x, e) /\ Answering(stack', u, j, x, e))
    BY <2>1, <2>2, <2>3, <2>4
  <2> QED BY <2>5, <2>6, <2>7 DEF Once
<1>12. NoneLost'
  <2> SUFFICES ASSUME NEW x \in Task, NEW u \in Task, NEW e \in Nat,
                      Awaits(stack', x, e, u), life[u] # "ended"
               PROVE  \E j \in Nat : \/ QueuedAt(sent', u, j, x, e)
                                     \/ Answering(stack', u, j, x, e)
    BY DEF NoneLost
  <2>1. PICK j \in Nat : QueuedAt(sent, u, j, x, e) \/ Answering(stack, u, j, x, e)
    BY <1>7 DEF CallsPlaced, NoneLost
  <2>2. CASE Answering(stack, u, j, x, e) \/ u # t
    BY <1>7, <1>8, <2>1, <2>2
  <2>3. CASE QueuedAt(sent, t, j, x, e) /\ u = t /\ j = 1
    BY <1>2, <1>3, <1>7, <2>3 DEF QueuedAt
  <2>4. CASE QueuedAt(sent, t, j, x, e) /\ u = t /\ j # 1
    <3>1. j - 1 \in Nat /\ j - 1 # 0 /\ j - 1 + 1 = j
      BY <1>2, <2>4 DEF QueuedAt
    <3> QED BY <1>8, <2>4, <3>1
  <2> QED BY <2>1, <2>2, <2>3, <2>4
<1> QED BY <1>10, <1>11, <1>12 DEF CallsPlaced

\* A message sent: its sender waits, and it is queued.
LEMMA AskPlaced ==
  ASSUME TypeOK, CallsPlaced, NEW t \in Task, NEW u \in Task, u # t,
         life[t] = "live", life' = life,
         sent' = [sent EXCEPT ![u] = Append(@, [from |-> t, depth |-> Len(stack[t]) + 1])],
         stack' = Push(stack, t, SendTo(u))
  PROVE  CallsPlaced'
<1> DEFINE n == Len(stack[t])
           m == [from |-> t, depth |-> n + 1]
           k == Len(sent[u]) + 1
<1>1. sent[u] \in Seq(Message) /\ sent \in [Task -> Seq(Message)]
  BY DEF TypeOK
<1>2. /\ n \in Nat /\ DOMAIN stack[t] = 1 .. n /\ DOMAIN stack'[t] = 1 .. n + 1
      /\ \A i \in 1 .. n : stack'[t][i] = stack[t][i]
      /\ stack'[t][n + 1] = SendTo(u)
      /\ \A v \in Task \ {t} : stack'[v] = stack[v]
  <2>1. stack \in [Task -> Seq(Frame)]
    BY DEF TypeOK
  <2> QED BY <2>1, Pushed
<1>3. m \in Message /\ m.from = t /\ m.depth = n + 1
  BY <1>2 DEF Message
<1> HIDE DEF n
<1>4. sent' = [sent EXCEPT ![u] = Append(@, m)]
  BY DEF n
<1> HIDE DEF m
<1>5. /\ k \in Nat /\ k # 0 /\ DOMAIN sent[u] = 1 .. k - 1 /\ DOMAIN sent'[u] = 1 .. k
      /\ \A j \in 1 .. k - 1 : sent'[u][j] = sent[u][j]
      /\ sent'[u][k] = m
      /\ \A v \in Task \ {u} : sent'[v] = sent[v]
  BY <1>1, <1>3, <1>4
<1> HIDE DEF k
<1>6. SendTo(u).at = "send" /\ SendTo(u).peer = u /\ SendTo(u).done = FALSE
  BY DEF SendTo
<1>7. \A v \in Task : \A i \in Nat :
        /\ OpenFrame(stack', v, i) <=> OpenFrame(stack, v, i) \/ (v = t /\ i = n + 1)
        /\ OpenFrame(stack, v, i)
             => stack'[v][i] = stack[v][i] /\ ~(v = t /\ i = n + 1)
  BY <1>2, <1>6 DEF OpenFrame
<1>8. \A x, v \in Task : \A e, j \in Nat :
        /\ Awaits(stack', x, e, v)
             <=> Awaits(stack, x, e, v) \/ (x = t /\ e = n + 1 /\ v = u)
        /\ ~Awaits(stack, t, n + 1, v)
        /\ Answering(stack', v, j, x, e) <=> Answering(stack, v, j, x, e)
  BY <1>2, <1>6, <1>7 DEF Awaits, Answering
<1>9. \A x, v \in Task : \A e, j \in Nat :
        /\ QueuedAt(sent', v, j, x, e)
             <=> QueuedAt(sent, v, j, x, e) \/ (v = u /\ j = k /\ x = t /\ e = n + 1)
  BY <1>3, <1>5 DEF QueuedAt
<1>10. \A v \in Task : \A j \in Nat :
         ~QueuedAt(sent, v, j, t, n + 1) /\ ~Answering(stack, v, j, t, n + 1)
  BY <1>2, <1>8 DEF CallsPlaced, AllAwaited, FromSender
<1>11. AllAwaited'
  BY <1>8, <1>9 DEF CallsPlaced, AllAwaited, FromSender
<1>12. NoneTwice'
  <2> SUFFICES ASSUME NEW x \in Task, NEW v \in Task, NEW e \in Nat,
                      NEW i \in Nat, NEW j \in Nat
               PROVE  Once(sent', stack', x, v, e, i, j)
    BY DEF NoneTwice
  <2>1. Once(sent, stack, x, v, e, i, j)
    BY DEF CallsPlaced, NoneTwice
  <2>2. /\ QueuedAt(sent', v, i, x, e)
             <=> QueuedAt(sent, v, i, x, e) \/ (v = u /\ i = k /\ x = t /\ e = n + 1)
        /\ QueuedAt(sent', v, j, x, e)
             <=> QueuedAt(sent, v, j, x, e) \/ (v = u /\ j = k /\ x = t /\ e = n + 1)
    BY <1>9
  <2>3. /\ Answering(stack', v, i, x, e) <=> Answering(stack, v, i, x, e)
        /\ Answering(stack', v, j, x, e) <=> Answering(stack, v, j, x, e)
    BY <1>8
  <2>4. x = t /\ e = n + 1 => /\ ~QueuedAt(sent, v, i, x, e)
                             /\ ~QueuedAt(sent, v, j, x, e)
                             /\ ~Answering(stack, v, j, x, e)
    BY <1>10
  <2> QED BY <2>1, <2>2, <2>3, <2>4 DEF Once
<1>13. NoneLost'
  <2> SUFFICES ASSUME NEW x \in Task, NEW v \in Task, NEW e \in Nat,
                      Awaits(stack', x, e, v), life[v] # "ended"
               PROVE  \E j \in Nat : \/ QueuedAt(sent', v, j, x, e)
                                     \/ Answering(stack', v, j, x, e)
    BY DEF NoneLost
  <2>1. CASE Awaits(stack, x, e, v)
    BY <1>8, <1>9, <2>1 DEF CallsPlaced, NoneLost
  <2>2. CASE x = t /\ e = n + 1 /\ v = u
    BY <1>5, <1>9, <2>2
  <2> QED BY <1>8, <2>1, <2>2
<1> QED BY <1>11, <1>12, <1>13 DEF CallsPlaced

-----------------------------------------------------------------------------
(* Each action keeps the calls as they are to be.                          *)

\* A step that sends, takes and answers nothing.
LEMMA NothingKept ==
  ASSUME IInv, CallsInv, NEW t \in Task, life[t] = "live",
         life' = life, sent' = sent,
         \A u \in Task \ {t} : stack'[u] = stack[u],
         Closes(stack, stack', {}), Shaped(stack')
  PROVE  CallsInv'
<1>1. CallsPlaced'
  BY NothingPlaced DEF CallsInv
<1>2. StacksLive'
  BY DEF CallsInv, StacksLive
<1> QED BY <1>1, <1>2 DEF CallsInv

LEMMA PopKept ==
  ASSUME IInv, CallsInv, NEW t \in Task, life[t] = "live",
         life' = life, sent' = sent, stack[t] # <<>>,
         Top(t).at \notin {"send", "answer"} \/ Top(t).done,
         stack' = Pop(stack, t)
  PROVE  CallsInv'
<1>1. stack \in [Task -> Seq(Frame)]
  BY DEF IInv, TypeOK
<1>2. Closes(stack, stack', {})
  BY <1>1, PopNoCall DEF OpenFrame, Top
<1>3. Shaped(stack')
  BY <1>1, PopShaped DEF CallsInv
<1>4. \A u \in Task \ {t} : stack'[u] = stack[u]
  BY <1>1, Popped
<1> QED BY <1>2, <1>3, <1>4, NothingKept

LEMMA PushKept ==
  ASSUME IInv, CallsInv, NEW t \in Task, life[t] = "live",
         life' = life, sent' = sent,
         NEW f, f.at \notin {"send", "answer", "hook", "start"},
         stack' = Push(stack, t, f)
  PROVE  CallsInv'
<1>1. stack \in [Task -> Seq(Frame)]
  BY DEF IInv, TypeOK
<1>2. Closes(stack, stack', {})
  BY <1>1, PushCloses
<1>3. Shaped(stack')
  BY <1>1, PushShaped DEF CallsInv
<1>4. \A u \in Task \ {t} : stack'[u] = stack[u]
  BY <1>1, Pushed
<1> QED BY <1>2, <1>3, <1>4, NothingKept

\* A look goes back to the head of its loop, or past the posted messages.
LEMMA LookMoved ==
  ASSUME IInv, CallsInv, NEW t \in Task, stack[t] # <<>>,
         Top(t).at \in {"look", "reading"}, NEW place \in {"look", "reading"}
  PROVE  LET r == [stack EXCEPT ![t][Len(stack[t])] = Plain(place)]
         IN /\ r \in [Task -> Seq(Frame)]
            /\ Closes(stack, r, {})
            /\ Shaped(r)
            /\ \A u \in Task \ {t} : r[u] = stack[u]
            /\ r[t] # <<>> /\ Len(r[t]) = Len(stack[t])
            /\ r[t][Len(r[t])] = Plain(place)
<1> DEFINE n == Len(stack[t])
           r == [stack EXCEPT ![t][n] = Plain(place)]
<1>1. stack \in [Task -> Seq(Frame)] /\ n \in DOMAIN stack[t]
  <2>1. TypeOK
    BY DEF IInv
  <2> QED BY <2>1, TopIn DEF TypeOK
<1>2. Plain(place) \in Frame /\ Plain(place).at = place
  BY FramesTyped DEF Plain
<1>3. r \in [Task -> Seq(Frame)]
  BY <1>1, <1>2, PutTyped
<1>4. ~OpenFrame(stack, t, n)
  BY DEF OpenFrame, Top
<1>5. Closes(stack, r, {})
  BY <1>1, <1>2, <1>4, PutCloses
<1>6. Shaped(r)
  BY <1>1, <1>2, PutShaped DEF CallsInv
<1>7. /\ \A u \in Task \ {t} : r[u] = stack[u]
      /\ DOMAIN r[t] = DOMAIN stack[t] /\ r[t][n] = Plain(place)
  BY <1>1, Put
<1>8. r[t] # <<>> /\ Len(r[t]) = n
  <2>1. r[t] \in Seq(Frame) /\ stack[t] \in Seq(Frame)
    BY <1>1, <1>3
  <2> HIDE DEF r
  <2> QED BY <1>1, <1>7, <2>1
<1> QED BY <1>3, <1>5, <1>6, <1>7, <1>8

LEMMA RunningLive ==
  ASSUME IInv, NEW t \in Task, current = t
  PROVE  life[t] = "live"
BY TaskAssumption DEF IInv, OneTurnEach, Live

LEMMA EngineCalls ==
  ASSUME IInv, CallsInv, NEW t \in Task, Engine(t)
  PROVE  CallsInv'
<1>1. CASE Start(t) \/ YieldDone(t) \/ ReadPosted(t)
  <2>1. /\ current = t /\ stack[t] # <<>> /\ Top(t).at \in {"start", "yield", "look"}
        /\ stack' = Pop(stack, t) /\ life' = life /\ sent' = sent
    BY <1>1 DEF Start, YieldDone, ReadPosted, At
  <2> QED BY <2>1, PopKept, RunningLive
<1>2. CASE ReadInput(t)
  <2>1. /\ current = t /\ stack[t] # <<>> /\ Top(t).at \in {"look", "reading"}
        /\ stack' = Pop(stack, t) /\ life' = life /\ sent' = sent
    BY <1>2 DEF ReadInput, Reading, At
  <2> QED BY <2>1, PopKept, RunningLive
<1>3. CASE Resume(t)
  <2>1. current = t /\ life' = life /\ sent' = sent
    BY <1>3 DEF Resume
  <2>2. CASE stack' = stack
    BY <2>1, <2>2, RunningLive, NothingKept DEF Closes, CallsInv
  <2>3. CASE Top(t).at = "send" /\ Top(t).done /\ stack[t] # <<>> /\ stack' = Pop(stack, t)
    BY <2>1, <2>3, PopKept, RunningLive
  <2>4. CASE stack[t] = <<>> /\ stack' = Pop(stack, t)
    <3>1. stack' = stack
      <4>1. stack \in [Task -> Seq(Frame)] /\ SubSeq(stack[t], 1, Len(stack[t]) - 1) = stack[t]
        BY <2>4, SubSeqEmpty DEF IInv, TypeOK
      <4> QED BY <2>4, <4>1 DEF Pop
    <3> QED BY <2>2, <3>1
  <2> QED BY <1>3, <2>2, <2>3, <2>4 DEF Resume
<1>4. CASE TakeNext(t)
  <2>1. /\ current = t /\ stack[t] # <<>> /\ Top(t).at \in {"yield", "send", "look"}
        /\ sent[t] # <<>> /\ life' = life /\ sent' = [sent EXCEPT ![t] = Tail(@)]
        /\ stack' = Push(stack, t, AnswerTo(Head(sent[t])))
    BY <1>4 DEF TakeNext, At
  <2>2. CallsPlaced'
    BY <2>1, TakePlaced DEF CallsInv, IInv
  <2> DEFINE f == AnswerTo(Head(sent[t]))
  <2>3. f.at = "answer" /\ stack \in [Task -> Seq(Frame)] /\ stack' = Push(stack, t, f)
    BY <2>1 DEF AnswerTo, IInv, TypeOK
  <2> HIDE DEF f
  <2>4. Shaped(stack')
    BY <2>1, <2>3, PushShaped DEF CallsInv, Top
  <2>5. StacksLive'
    <3>1. \A u \in Task \ {t} : stack'[u] = stack[u]
      BY <2>3, Pushed
    <3> QED BY <2>1, <3>1, RunningLive DEF CallsInv, StacksLive
  <2> QED BY <2>2, <2>4, <2>5 DEF CallsInv
<1>5. CASE SendDone(t)
  <2>1. /\ current = t /\ stack[t] # <<>> /\ Top(t).at = "send"
        /\ life' = life /\ sent' = sent
        /\ \/ Top(t).done /\ stack' = Pop(stack, t)
           \/ stack' = stack
    BY <1>5 DEF SendDone, At
  <2>2. CASE stack' = stack
    BY <2>1, <2>2, RunningLive, NothingKept DEF Closes, CallsInv
  <2> QED BY <2>1, <2>2, PopKept, RunningLive
<1>6. CASE LookFurther(t)
  <2>1. /\ current = t /\ stack[t] # <<>> /\ Top(t).at \in {"look", "reading"}
        /\ life' = life /\ sent' = sent
        /\ \/ stack' = Pop(stack, t)
           \/ stack' = [stack EXCEPT ![t][Len(stack[t])] = Plain("look")]
    BY <1>6 DEF LookFurther, Reading, At
  <2>2. CASE stack' = Pop(stack, t)
    BY <2>1, <2>2, PopKept, RunningLive
  <2>3. CASE stack' = [stack EXCEPT ![t][Len(stack[t])] = Plain("look")]
    BY <2>1, <2>3, LookMoved, NothingKept, RunningLive
  <2> QED BY <2>1, <2>2, <2>3
<1>7. ASSUME NEW u \in Task, ReadHotKey(t, u) PROVE CallsInv'
  <2>1. /\ current = t /\ stack[t] # <<>> /\ Top(t).at \in {"look", "reading"}
        /\ life' = life /\ sent' = sent /\ stack' = PastPosted(t)
    BY <1>7 DEF ReadHotKey, Reading, At
  <2> QED BY <2>1, LookMoved, NothingKept, RunningLive DEF PastPosted
<1>8. CASE ReadThroughHook(t)
  <2> DEFINE r == PastPosted(t)
  <2>1. /\ current = t /\ stack[t] # <<>> /\ Top(t).at \in {"look", "reading"}
        /\ life' = life /\ sent' = sent /\ stack' = Push(r, t, Plain("hook"))
    BY <1>8 DEF ReadThroughHook, Reading, At
  <2>2. /\ r \in [Task -> Seq(Frame)] /\ Closes(stack, r, {}) /\ Shaped(r)
        /\ \A u \in Task \ {t} : r[u] = stack[u]
        /\ r[t] # <<>> /\ r[t][Len(r[t])] = Plain("reading")
    BY <2>1, LookMoved DEF PastPosted
  <2> HIDE DEF r
  <2>3. Plain("hook").at = "hook" /\ Plain("reading").at = "reading"
    BY DEF Plain
  <2>4. Closes(r, stack', {}) /\ Shaped(stack') /\ \A u \in Task \ {t} : stack'[u] = r[u]
    BY <2>1, <2>2, <2>3, PushCloses, PushShaped, Pushed
  <2>5. Closes(stack, stack', {})
    BY <2>2, <2>4 DEF Closes
  <2> QED BY <2>1, <2>2, <2>4, <2>5, NothingKept, RunningLive
<1> QED BY <1>1, <1>2, <1>3, <1>4, <1>5, <1>6, <1>7, <1>8 DEF Engine

\* A task answers, the frame of the procedure left or told that it has.
LEMMA AnswerKept ==
  ASSUME IInv, CallsInv, NEW t \in Task, NEW i \in DOMAIN stack[t],
         stack[t][i].at = "answer", ~stack[t][i].done,
         life' = life, sent' = sent,
         NEW r \in [Task -> Seq(Frame)], Closes(stack, r, {<<t, i>>}), Shaped(r),
         \A u \in Task \ {t} : r[u] = stack[u],
         stack' = GiveAnswer(r, stack[t][i])
  PROVE  CallsInv'
<1> DEFINE f == stack[t][i]
           p == f.peer
           d == f.depth
<1>1. f \in Frame /\ i \in Nat
  <2>1. stack[t] \in Seq(Frame)
    BY DEF IInv, TypeOK
  <2> QED BY <2>1
<1>2. p \in Task /\ d \in Nat
  BY <1>1 DEF Frame
<1>3. Answering(stack, t, i, p, d)
  BY DEF Answering, OpenFrame
<1>4. Closes(r, stack', {<<p, d>>}) /\ Shaped(stack')
  BY <1>2, GiveCloses, GiveShaped
<1>5. FromSender(life, stack, p, d, t)
  BY <1>1, <1>2, <1>3 DEF CallsInv, CallsPlaced, AllAwaited
<1>6. stack' = IF d \in DOMAIN r[p] THEN [r EXCEPT ![p][d].done = TRUE] ELSE r
  BY DEF GiveAnswer
<1> HIDE DEF f, p, d
<1>7. Closes(stack, stack', {<<t, i>>, <<p, d>>})
  BY <1>4 DEF Closes
<1>8. CallsPlaced'
  BY <1>1, <1>2, <1>3, <1>7, AnswerPlaced DEF CallsInv
<1>9. StacksLive'
  <2> SUFFICES ASSUME NEW u \in Task, life[u] # "live" PROVE stack'[u] = <<>>
    BY DEF StacksLive
  <2>1. stack[u] = <<>> /\ u # t
    BY DEF CallsInv, StacksLive
  <2>2. r[u] = <<>>
    BY <2>1
  <2>3. CASE u = p
    BY <1>6, <2>2, <2>3
  <2>4. CASE u # p
    BY <1>6, <2>2, <2>4
  <2> QED BY <2>3, <2>4
<1> QED BY <1>4, <1>8, <1>9 DEF CallsInv

\* A task ended.
LEMMA GoneKept ==
  ASSUME IInv, CallsInv, NEW u \in Task, Gone(u)
  PROVE  CallsInv'
<1>1. /\ life' = [life EXCEPT ![u] = "ended"] /\ stack' = [stack EXCEPT ![u] = <<>>]
      /\ sent' = sent
  BY DEF Gone
<1>2. CallsPlaced'
  BY <1>1, EndPlaced DEF IInv, CallsInv
<1>3. StacksLive'
  BY <1>1 DEF IInv, TypeOK, CallsInv, StacksLive
<1>4. Shaped(stack')
  <2>1. \A v \in Task : \A i \in DOMAIN stack'[v] : stack'[v] = stack[v]
    BY <1>1 DEF IInv, TypeOK
  <2> QED BY <2>1 DEF CallsInv, Shaped
<1> QED BY <1>2, <1>3, <1>4 DEF CallsInv

\* A task made: its future not yet begun.
LEMMA MadeKept ==
  ASSUME IInv, CallsInv, NEW u \in Task, Made(u), sent' = sent,
         stack' = Push(stack, u, Plain("start"))
  PROVE  CallsInv'
<1>1. life[u] = "unmade" /\ life' = [life EXCEPT ![u] = "live"]
  BY DEF Made
<1>2. stack[u] = <<>> /\ stack \in [Task -> Seq(Frame)]
  BY <1>1 DEF CallsInv, StacksLive, IInv, TypeOK
<1>3. Plain("start").at = "start"
  BY DEF Plain
<1>4. Closes(stack, stack', {}) /\ Shaped(stack') /\ \A v \in Task \ {u} : stack'[v] = stack[v]
  BY <1>2, <1>3, PushCloses, PushShaped, Pushed DEF CallsInv
<1>5. \A v \in Task : life'[v] = IF v = u THEN "live" ELSE life[v]
  BY <1>1 DEF IInv, TypeOK
<1>6. CallsPlaced'
  BY <1>1, <1>4, <1>5, NothingPlaced DEF CallsInv
<1>7. StacksLive'
  BY <1>4, <1>5 DEF CallsInv, StacksLive
<1> QED BY <1>4, <1>6, <1>7 DEF CallsInv

LEMMA ProgramCalls ==
  ASSUME IInv, CallsInv, NEW t \in Task, Program(t)
  PROVE  CallsInv'
<1>1. CASE GetMessage(t) \/ Yield(t) \/ \E u \in Task : DirectedYield(t, u)
  <2>1. PICK f : /\ current = t /\ life' = life /\ sent' = sent
                 /\ f \in {Plain("look"), Plain("yield")}
                 /\ stack' = Push(stack, t, f)
    BY <1>1 DEF GetMessage, Yield, DirectedYield, Makes, InGuest
  <2>2. f.at \notin {"send", "answer", "hook", "start"}
    BY <2>1 DEF Plain
  <2> QED BY <2>1, <2>2, PushKept, RunningLive
<1>2. CASE \/ BeginPaint(t) \/ Lock(t)
           \/ \E u \in Task : Post(t, u) \/ Invalidate(t, u)
  <2>1. current = t /\ life' = life /\ sent' = sent /\ stack' = stack
    BY <1>2 DEF BeginPaint, Lock, Post, Invalidate, Makes, InGuest
  <2> QED BY <2>1, RunningLive, NothingKept DEF Closes, CallsInv
<1>3. CASE HookReturn(t)
  <2>1. /\ current = t /\ stack[t] # <<>> /\ Top(t).at = "hook"
        /\ life' = life /\ sent' = sent
        /\ stack' = Pop(stack, t) \/ stack' = Pop(Pop(stack, t), t)
    BY <1>3 DEF HookReturn, At
  <2>2. CASE stack' = Pop(stack, t)
    BY <2>1, <2>2, PopKept, RunningLive
  <2>3. CASE stack' = Pop(Pop(stack, t), t)
    <3> DEFINE r == Pop(stack, t)
               n == Len(stack[t])
    <3>1. stack \in [Task -> Seq(Frame)] /\ r \in [Task -> Seq(Frame)]
      BY PopTyped DEF IInv, TypeOK
    <3>2. /\ n \in Nat \ {0} /\ DOMAIN stack[t] = 1 .. n /\ Len(r[t]) = n - 1
          /\ DOMAIN r[t] = 1 .. n - 1
          /\ \A i \in 1 .. n - 1 : r[t][i] = stack[t][i]
          /\ \A u \in Task \ {t} : r[u] = stack[u]
      BY <2>1, <3>1, Popped
    <3>3. n > 1 /\ stack[t][n - 1].at = "reading"
      <4>1. n \in DOMAIN stack[t] /\ stack[t][n].at = "hook"
        BY <2>1, <3>2 DEF Top
      <4> HIDE DEF n
      <4> QED BY <4>1 DEF CallsInv, Shaped
    <3>4. stack' = Pop(r, t)
      BY <2>3
    <3>5. Closes(stack, r, {}) /\ Shaped(r)
      BY <2>1, <3>1, PopNoCall, PopShaped DEF OpenFrame, Top, CallsInv
    <3> HIDE DEF r
    <3>6. r[t] # <<>> /\ r[t][Len(r[t])].at = "reading"
      BY <3>1, <3>2, <3>3
    <3>7. Closes(r, stack', {}) /\ Shaped(stack') /\ \A u \in Task \ {t} : stack'[u] = r[u]
      BY <3>1, <3>4, <3>5, <3>6, PopNoCall, PopShaped, Popped DEF OpenFrame
    <3>8. Closes(stack, stack', {})
      BY <3>5, <3>7 DEF Closes
    <3> QED BY <2>1, <3>2, <3>7, <3>8, NothingKept, RunningLive
  <2> QED BY <2>1, <2>2, <2>3
<1>4. CASE ReturnAnswer(t)
  <2> DEFINE n == Len(stack[t])
             r == Pop(stack, t)
  <2>1. /\ current = t /\ stack[t] # <<>> /\ Top(t).at = "answer"
        /\ life' = life /\ sent' = sent
        /\ \/ Top(t).done /\ stack' = r
           \/ ~Top(t).done /\ stack' = GiveAnswer(r, Top(t))
    BY <1>4 DEF ReturnAnswer, At
  <2>2. CASE Top(t).done /\ stack' = r
    BY <2>1, <2>2, PopKept, RunningLive
  <2>3. CASE ~Top(t).done /\ stack' = GiveAnswer(r, Top(t))
    <3>1. n \in DOMAIN stack[t] /\ Top(t) = stack[t][n]
      BY <2>1, TopIn DEF IInv
    <3>2. stack \in [Task -> Seq(Frame)] /\ r \in [Task -> Seq(Frame)]
      BY PopTyped DEF IInv, TypeOK
    <3>3. /\ Closes(stack, r, {<<t, n>>}) /\ Shaped(r)
          /\ \A u \in Task \ {t} : r[u] = stack[u]
      BY <2>1, <3>2, PopCloses, PopShaped, Popped DEF CallsInv
    <3> HIDE DEF r, n
    <3> QED BY <2>1, <2>3, <3>1, <3>2, <3>3, AnswerKept
  <2> QED BY <2>1, <2>2, <2>3
<1>5. CASE Reply(t)
  <2>1. PICK i \in DOMAIN stack[t] :
          /\ stack[t][i].at = "answer" /\ ~stack[t][i].done
          /\ stack' = GiveAnswer([stack EXCEPT ![t][i].done = TRUE], stack[t][i])
    BY <1>5 DEF Reply
  <2>2. life' = life /\ sent' = sent
    BY <1>5 DEF Reply
  <2> DEFINE f == [stack[t][i] EXCEPT !.done = TRUE]
             r == [stack EXCEPT ![t][i].done = TRUE]
  <2>3. stack \in [Task -> Seq(Frame)]
    BY DEF IInv, TypeOK
  <2>4. r \in [Task -> Seq(Frame)] /\ \A u \in Task \ {t} : r[u] = stack[u]
    <3>1. f \in Frame
      <4>1. stack[t] \in Seq(Frame)
        BY <2>3
      <4> QED BY <4>1, FramesTyped
    <3>2. r = [stack EXCEPT ![t][i] = f]
      OBVIOUS
    <3> HIDE DEF r, f
    <3> QED BY <2>3, <3>1, <3>2, PutTyped, Put
  <2>5. Closes(stack, r, {<<t, i>>}) /\ Shaped(r)
    BY <2>3, DoneCloses, DoneShaped DEF CallsInv
  <2>6. stack' = GiveAnswer(r, stack[t][i])
    BY <2>1
  <2> HIDE DEF r
  <2> QED BY <2>1, <2>2, <2>4, <2>5, <2>6, AnswerKept
<1>6. ASSUME NEW u \in Task, Send(t, u) PROVE CallsInv'
  <2>1. /\ current = t /\ u # t /\ life' = life /\ stack' = Push(stack, t, SendTo(u))
        /\ sent' = [sent EXCEPT
                      ![u] = Append(@, [from |-> t, depth |-> Len(stack[t]) + 1])]
    BY <1>6 DEF Send, Makes, InGuest
  <2>2. life[t] = "live"
    BY <2>1, RunningLive
  <2>3. CallsPlaced'
    BY <2>1, <2>2, AskPlaced DEF CallsInv, IInv
  <2>4. SendTo(u).at = "send" /\ stack \in [Task -> Seq(Frame)]
    BY DEF SendTo, IInv, TypeOK
  <2> DEFINE f == SendTo(u)
  <2>5. Shaped(stack') /\ \A v \in Task \ {t} : stack'[v] = stack[v]
    <3>1. stack' = Push(stack, t, f) /\ f.at = "send" /\ Shaped(stack)
      BY <2>1, <2>4 DEF CallsInv
    <3> HIDE DEF f
    <3>2. Shaped(stack')
      BY <2>4, <3>1, PushShaped
    <3>3. \A v \in Task \ {t} : stack'[v] = stack[v]
      BY <2>4, <3>1 DEF Push
    <3> QED BY <3>2, <3>3
  <2>6. StacksLive'
    BY <2>1, <2>2, <2>5 DEF CallsInv, StacksLive
  <2> QED BY <2>3, <2>5, <2>6 DEF CallsInv
<1>7. ASSUME NEW u \in Task, Exec(t, u) PROVE CallsInv'
  <2> DEFINE r == Push(stack, u, Plain("start"))
  <2>1. /\ current = t /\ Made(u) /\ sent' = sent
        /\ life[u] = "unmade" /\ life' = [life EXCEPT ![u] = "live"]
        /\ stack' = Push(r, t, Plain("yield"))
    BY <1>7 DEF Exec, Made, Makes, InGuest
  <2>2. stack \in [Task -> Seq(Frame)] /\ r \in [Task -> Seq(Frame)]
    BY PushTyped, FramesTyped DEF IInv, TypeOK
  <2>3. stack[u] = <<>> /\ life[t] = "live"
    BY <2>1, RunningLive DEF CallsInv, StacksLive
  <2>4. Plain("start").at = "start" /\ Plain("yield").at = "yield"
    BY DEF Plain
  <2> DEFINE f == Plain("start")
             g == Plain("yield")
  <2>5. Closes(stack, r, {}) /\ Shaped(r) /\ \A v \in Task \ {u} : r[v] = stack[v]
    <3>1. r = Push(stack, u, f) /\ f.at = "start" /\ Shaped(stack)
      BY <2>4 DEF CallsInv
    <3> HIDE DEF f, r
    <3>2. Closes(stack, r, {})
      BY <2>2, <3>1, PushCloses
    <3>3. Shaped(r)
      BY <2>2, <2>3, <3>1, PushShaped
    <3>4. \A v \in Task \ {u} : r[v] = stack[v]
      BY <2>2, <3>1 DEF Push
    <3> QED BY <3>2, <3>3, <3>4
  <2> HIDE DEF r
  <2>6. Closes(r, stack', {}) /\ Shaped(stack') /\ \A v \in Task \ {t} : stack'[v] = r[v]
    <3>1. stack' = Push(r, t, g) /\ g.at = "yield" /\ Shaped(r)
      BY <2>1, <2>4, <2>5
    <3> HIDE DEF g
    <3>2. Closes(r, stack', {})
      BY <2>2, <3>1, PushCloses
    <3>3. Shaped(stack')
      BY <2>2, <3>1, PushShaped
    <3>4. \A v \in Task \ {t} : stack'[v] = r[v]
      BY <2>2, <3>1 DEF Push
    <3> QED BY <3>2, <3>3, <3>4
  <2>7. Closes(stack, stack', {})
    BY <2>5, <2>6 DEF Closes
  <2>8. \A v \in Task : life'[v] = IF v = u THEN "live" ELSE life[v]
    BY <2>1 DEF IInv, TypeOK
  <2>9. CallsPlaced'
    BY <2>1, <2>7, <2>8, NothingPlaced DEF CallsInv
  <2>10. StacksLive'
    BY <2>3, <2>5, <2>6, <2>8 DEF CallsInv, StacksLive
  <2> QED BY <2>6, <2>9, <2>10 DEF CallsInv
<1>8. CASE Exit(t) \/ \E u \in Task : Terminate(t, u)
  BY <1>8, GoneKept DEF Exit, Terminate
<1> QED BY <1>1, <1>2, <1>3, <1>4, <1>5, <1>6, <1>7, <1>8 DEF Program

LEMMA HostCalls ==
  ASSUME IInv, CallsInv, Host
  PROVE  CallsInv'
<1>1. ASSUME NEW u \in Task, TimeComes(u) \/ HostInput(u) PROVE CallsInv'
  <2>1. life' = life /\ stack' = stack /\ sent' = sent
    BY <1>1 DEF TimeComes, HostInput, queues
  <2>2. CallsPlaced'
    BY <2>1, NothingPlaced DEF CallsInv, Closes
  <2> QED BY <2>1, <2>2 DEF CallsInv, StacksLive
<1>2. ASSUME NEW u \in Task, Launch(u) PROVE CallsInv'
  BY <1>2, MadeKept DEF Launch
<1> QED BY <1>1, <1>2 DEF Host

-----------------------------------------------------------------------------
(* The theorems about calls.                                               *)

\* The inductive invariant of the calls holds of every state the tasks can
\* come to.
THEOREM CallsInvariant == Spec => []CallsInv
<1>1. Init => CallsInv
  <2> SUFFICES ASSUME Init PROVE CallsInv
    OBVIOUS
  <2>1. \A u \in Task : stack[u] = <<>> /\ sent[u] = <<>>
    BY DEF Init
  <2>2. \A u \in Task : \A i : ~OpenFrame(stack, u, i) /\ i \notin DOMAIN sent[u]
    BY <2>1 DEF OpenFrame
  <2> QED BY <2>1, <2>2 DEF CallsInv, StacksLive, Shaped, CallsPlaced, AllAwaited, NoneTwice,
                            Once, NoneLost, QueuedAt, Answering, Awaits
<1>2. IInv /\ CallsInv /\ [Next]_vars => CallsInv'
  <2> SUFFICES ASSUME IInv, CallsInv, [Next]_vars PROVE CallsInv'
    OBVIOUS
  <2>1. CASE Next
    BY <2>1, EngineCalls, ProgramCalls, HostCalls DEF Next
  <2>2. CASE UNCHANGED vars
    <3>1. life' = life /\ stack' = stack /\ sent' = sent
      BY <2>2 DEF vars
    <3>2. CallsPlaced'
      BY <3>1, NothingPlaced DEF CallsInv, Closes
    <3> QED BY <3>1, <3>2 DEF CallsInv, StacksLive
  <2> QED BY <2>1, <2>2
<1> QED BY <1>1, <1>2, InductiveInvariant, PTL DEF Spec

\* A message sent is in one place until it is answered, its target's queue or
\* one procedure of its target's, and in neither once it is: none is lost, and
\* none answered twice (tasks.rs: send_across, take_sent; ReplyMessage).
THEOREM CallsAreHeld == Spec => []CallsHeld
<1>1. IInv /\ CallsInv => CallsHeld
  <2> SUFFICES ASSUME IInv, CallsInv, NEW t \in Live, NEW d \in DOMAIN stack[t],
                      stack[t][d].at = "send", stack[t][d].peer \in Live
               PROVE  LET f == stack[t][d]
                      IN Cardinality(Queued(t, d, f.peer)) + Cardinality(Handled(t, d, f.peer))
                           = IF f.done THEN 0 ELSE 1
    BY DEF CallsHeld
  <2> DEFINE u == stack[t][d].peer
             Q == Queued(t, d, u)
             H == Handled(t, d, u)
  <2>1. /\ t \in Task /\ life[t] = "live" /\ u \in Task /\ life[u] = "live"
        /\ d \in Nat /\ stack[u] \in Seq(Frame) /\ sent[u] \in Seq(Message)
    <3>1. stack[t] \in Seq(Frame)
      BY DEF Live, IInv, TypeOK
    <3> QED BY <3>1 DEF Live, IInv, TypeOK
  <2>2. \A i : i \in Q <=> i \in Nat /\ QueuedAt(sent, u, i, t, d)
    <3>1. \A i \in DOMAIN sent[u] : i \in Nat /\ sent[u][i] \in Message
      BY <2>1
    <3>2. \A m \in Message : m = [from |-> t, depth |-> d] <=> m.from = t /\ m.depth = d
      BY <2>1 DEF Message
    <3> QED BY <3>1, <3>2 DEF Queued, QueuedAt
  <2>3. \A i : i \in H <=> i \in Nat /\ Answering(stack, u, i, t, d)
    BY <2>1 DEF Handled, Answering, OpenFrame
  <2> HIDE DEF Q, H
  <2>4. stack[t][d].done => Q = {} /\ H = {}
    <3> SUFFICES ASSUME stack[t][d].done, NEW i, i \in Q \/ i \in H PROVE FALSE
      OBVIOUS
    <3>1. FromSender(life, stack, t, d, u)
      BY <2>1, <2>2, <2>3 DEF CallsInv, CallsPlaced, AllAwaited
    <3> QED BY <2>1, <3>1 DEF FromSender, Awaits, OpenFrame
  <2>5. ~stack[t][d].done => \E i : (Q = {i} /\ H = {}) \/ (Q = {} /\ H = {i})
    <3> SUFFICES ASSUME ~stack[t][d].done
                 PROVE  \E i : (Q = {i} /\ H = {}) \/ (Q = {} /\ H = {i})
      OBVIOUS
    <3>1. Awaits(stack, t, d, u)
      BY DEF Awaits, OpenFrame
    <3>2. PICK i \in Nat : QueuedAt(sent, u, i, t, d) \/ Answering(stack, u, i, t, d)
      BY <2>1, <3>1 DEF CallsInv, CallsPlaced, NoneLost
    <3>3. \A j, k \in Nat : Once(sent, stack, t, u, d, j, k)
      BY <2>1 DEF CallsInv, CallsPlaced, NoneTwice
    <3>4. CASE QueuedAt(sent, u, i, t, d)
      BY <2>2, <2>3, <3>3, <3>4 DEF Once
    <3>5. CASE Answering(stack, u, i, t, d)
      BY <2>2, <2>3, <3>3, <3>5 DEF Once
    <3> QED BY <3>2, <3>4, <3>5
  <2>6. Cardinality({}) = 0 /\ \A i : Cardinality({i}) = 1
    BY FS_EmptySet, FS_Singleton
  <2>7. CASE stack[t][d].done
    <3>1. Cardinality(Q) + Cardinality(H) = 0
      BY <2>4, <2>6, <2>7
    <3> QED BY <2>7, <3>1 DEF Q, H
  <2>8. CASE ~stack[t][d].done
    <3>1. Cardinality(Q) + Cardinality(H) = 1
      <4>1. PICK i : (Q = {i} /\ H = {}) \/ (Q = {} /\ H = {i})
        BY <2>5, <2>8
      <4>2. Cardinality({}) = 0 /\ Cardinality({i}) = 1
        BY <2>6
      <4>3. CASE Q = {i} /\ H = {}
        BY <4>2, <4>3
      <4>4. CASE Q = {} /\ H = {i}
        BY <4>2, <4>4
      <4> QED BY <4>1, <4>3, <4>4
    <3> QED BY <2>8, <3>1 DEF Q, H
  <2> QED BY <2>7, <2>8
<1> QED BY <1>1, InductiveInvariant, CallsInvariant, PTL

-----------------------------------------------------------------------------
(* The processor handed over with a call, and back with its answer.        *)

\* With none locked, the first in a line, alive, is granted the processor.
LEMMA FirstGranted ==
  ASSUME NEW m \in Seq(Task), NEW alive, m # <<>>, m[1] \in alive,
         locked \notin alive, Grant(m, alive)
  PROVE  current' = m[1]
<1>1. 1 \in DOMAIN m /\ \A i \in DOMAIN m : i # 1 => 1 \in 1 .. i - 1
  OBVIOUS
<1> QED BY <1>1 DEF Grant, PassOver

LEMMA FirstReleased ==
  ASSUME NEW t, NEW w, NEW l \in Seq(Task), NEW alive, l # <<>>,
         l[1] \in alive, locked \notin alive, Release(t, w, l, alive)
  PROVE  current' = l[1]
<1>1. Due(t, w) \in SUBSET Task
  BY DEF Due, Live
<1>2. PICK o \in Orders(Due(t, w)) : Grant(l \o o, alive)
  BY DEF Release
<1>3. o \in Seq(Task)
  BY <1>1, OrdersOnce
<1> DEFINE m == l \o o
<1>4. m \in Seq(Task) /\ m # <<>> /\ m[1] = l[1]
  BY <1>3
<1>5. Grant(m, alive)
  BY <1>2
<1> HIDE DEF m
<1> QED BY <1>4, <1>5, FirstGranted

\* A task moved first in a line it is in.
LEMMA MovedFirst ==
  ASSUME NEW l \in Seq(Task), IsInjective(l), NEW u \in Task, Contains(l, u)
  PROVE  /\ MoveFirst(l, u) \in Seq(Task)
         /\ MoveFirst(l, u) # <<>>
         /\ MoveFirst(l, u)[1] = u
<1> DEFINE r == Without(l, u)
<1>1. r \in Seq(Task)
  BY WithoutOnce
<1>2. MoveFirst(l, u) = <<u>> \o r
  BY DEF MoveFirst
<1> HIDE DEF r
<1> QED BY <1>1, <1>2

\* A live task without the processor, signalled, is in line.
LEMMA SignalledInLine ==
  ASSUME IInv, NEW u \in Live, u # current
  PROVE  /\ Enter(wait, line, u) \in Seq(Task)
         /\ IsInjective(Enter(wait, line, u))
         /\ Contains(Enter(wait, line, u), u)
<1>1. /\ u \in Task /\ line \in Seq(Task) /\ IsInjective(line)
      /\ Contains(line, u) \/ u = current <=> ~Asleep(wait, u)
  BY DEF IInv, TypeOK, OneTurnEach, Live
<1> QED BY <1>1, EnterOnce

LEMMA SentToRuns ==
  ASSUME IInv, locked \notin Live, NEW t \in Task, NEW u \in Task, Send(t, u)
  PROVE  current' = u
<1> DEFINE l == Enter(wait, line, u)
           w == [Woken(wait, {u}) EXCEPT ![t] = "Waiting"]
<1>1. u \in Live /\ u # current
  BY DEF Send, HasRun, Makes, InGuest
<1>2. Release(t, w, MoveFirst(l, u), Live)
  BY DEF Send
<1>3. l \in Seq(Task) /\ IsInjective(l) /\ Contains(l, u)
  BY <1>1, SignalledInLine
<1> HIDE DEF l, w
<1>4. MoveFirst(l, u) \in Seq(Task) /\ MoveFirst(l, u) # <<>> /\ MoveFirst(l, u)[1] = u
  BY <1>3, MovedFirst
<1> QED BY <1>1, <1>2, <1>4, FirstReleased

LEMMA HandedBackRuns ==
  ASSUME IInv, locked \notin Live, NEW t \in Task, NEW u \in Live, current = t,
         u # t, HandBack(t, u)
  PROVE  current' = u
<1> DEFINE l == Enter(wait, line, u)
           m == Append(MoveFirst(l, u), t)
           w == Woken(wait, {u})
<1>1. u \in Task
  BY DEF Live
<1>2. l \in Seq(Task) /\ IsInjective(l) /\ Contains(l, u)
  BY SignalledInLine
<1>3. Release(t, w, m, Live)
  BY <1>2 DEF HandBack
<1>4. m \in Seq(Task) /\ m # <<>> /\ m[1] = u
  <2> HIDE DEF l
  <2> DEFINE q == MoveFirst(l, u)
  <2>1. q \in Seq(Task) /\ q # <<>> /\ q[1] = u
    BY <1>1, <1>2, MovedFirst
  <2> HIDE DEF q
  <2> QED BY <2>1 DEF q
<1> HIDE DEF m, w
<1> QED BY <1>3, <1>4, FirstReleased

\* No call is answered from the stacks s to r.
NoneAnswered(s, r) ==
  \A u \in Task : \A i \in DOMAIN s[u] \cap DOMAIN r[u] :
    s[u][i].at = "send" => r[u][i] = s[u][i]

\* The call that the answer in t's frame at n is given to, and no other, is
\* answered, its sender a live task that is not t.
LEMMA AnswerGiven ==
  ASSUME IInv, CallsInv, NEW t \in Task, NEW n \in DOMAIN stack[t],
         stack[t][n].at = "answer", ~stack[t][n].done,
         NEW r \in [Task -> Seq(Frame)], NoneAnswered(stack, r),
         \A u \in Task \ {t} : r[u] = stack[u],
         stack' = GiveAnswer(r, stack[t][n]),
         NEW u \in Task, NEW i \in DOMAIN stack[u] \cap DOMAIN stack'[u],
         stack[u][i].at = "send", ~stack[u][i].done, stack'[u][i].done
  PROVE  u = stack[t][n].peer /\ u \in Live /\ u # t
<1> DEFINE f == stack[t][n]
<1>1. stack[u] \in Seq(Frame) /\ stack[t] \in Seq(Frame)
  BY DEF IInv, TypeOK
<1>2. u \in Live /\ i \in Nat
  BY <1>1 DEF CallsInv, StacksLive, Live
<1>3. f.peer \in Task /\ f.depth \in Nat
  BY <1>1, AnsweredTask DEF IInv, Frame
<1>4. u = f.peer
  <2> SUFFICES ASSUME u # f.peer PROVE FALSE
    OBVIOUS
  <2>1. stack'[u] = r[u]
    BY DEF GiveAnswer
  <2> QED BY <2>1 DEF NoneAnswered
<1>5. n \in Nat /\ Answering(stack, t, n, u, f.depth)
  BY <1>1, <1>4 DEF Answering, OpenFrame
<1>6. FromSender(life, stack, u, f.depth, t)
  BY <1>3, <1>5 DEF CallsInv, CallsPlaced, AllAwaited
<1> QED BY <1>2, <1>4, <1>6 DEF FromSender

\* What leaves the calls on the stacks unanswered.
LEMMA NotPut ==
  ASSUME NEW s \in [Task -> Seq(Frame)], NEW t \in Task, NEW i \in DOMAIN s[t], NEW f,
         s[t][i].at # "send"
  PROVE  NoneAnswered(s, [s EXCEPT ![t][i] = f])
BY Put DEF NoneAnswered

LEMMA NotPopped ==
  ASSUME NEW s \in [Task -> Seq(Frame)], NEW t \in Task, s[t] # <<>>
  PROVE  NoneAnswered(s, Pop(s, t))
<1> DEFINE r == Pop(s, t)
<1>1. /\ Len(s[t]) \in Nat /\ DOMAIN s[t] = 1 .. Len(s[t]) /\ DOMAIN r[t] = 1 .. Len(s[t]) - 1
      /\ \A i \in 1 .. Len(s[t]) - 1 : r[t][i] = s[t][i]
      /\ \A u \in Task \ {t} : r[u] = s[u]
  BY Popped
<1> HIDE DEF r
<1>2. \A u \in Task : \A i \in DOMAIN s[u] \cap DOMAIN r[u] : r[u][i] = s[u][i]
  BY <1>1
<1> QED BY <1>2 DEF NoneAnswered, r

LEMMA NotPushed ==
  ASSUME NEW s \in [Task -> Seq(Frame)], NEW t \in Task, NEW f
  PROVE  /\ NoneAnswered(s, Push(s, t, f))
         /\ \A u \in Task : DOMAIN s[u] \subseteq DOMAIN Push(s, t, f)[u]
<1> DEFINE r == Push(s, t, f)
<1>1. /\ Len(s[t]) \in Nat /\ DOMAIN s[t] = 1 .. Len(s[t]) /\ DOMAIN r[t] = 1 .. Len(s[t]) + 1
      /\ \A i \in DOMAIN s[t] : r[t][i] = s[t][i]
  BY Pushed
<1>2. \A u \in Task \ {t} : r[u] = s[u]
  BY DEF Push
<1> HIDE DEF r
<1>3. \A u \in Task : \A i \in DOMAIN s[u] : i \in DOMAIN r[u] /\ r[u][i] = s[u][i]
  BY <1>1, <1>2
<1> QED BY <1>3 DEF NoneAnswered, r

\* One after the other.
LEMMA NotEither ==
  ASSUME NEW s, NEW r, NEW q, NoneAnswered(s, r), NoneAnswered(r, q),
         \A u \in Task : DOMAIN s[u] \cap DOMAIN q[u] \subseteq DOMAIN r[u]
  PROVE  NoneAnswered(s, q)
BY DEF NoneAnswered

LEMMA EngineAnswersNone ==
  ASSUME IInv, NEW t \in Task, Engine(t)
  PROVE  NoneAnswered(stack, stack')
<1>1. stack \in [Task -> Seq(Frame)]
  BY DEF IInv, TypeOK
<1> DEFINE n == Len(stack[t])
           s == PastPosted(t)
<1>2. \A i : i \in DOMAIN stack[t] /\ stack[t][i].at # "send" =>
               \A f : NoneAnswered(stack, [stack EXCEPT ![t][i] = f])
  BY <1>1, NotPut
<1>3. stack[t] # <<>> => n \in DOMAIN stack[t] /\ Top(t) = stack[t][n]
  BY TopIn DEF IInv
<1>4. CASE stack' = stack
  BY <1>4 DEF NoneAnswered
<1>5. CASE stack[t] # <<>> /\ stack' = Pop(stack, t)
  BY <1>1, <1>5, NotPopped
<1>6. CASE \E f : stack' = Push(stack, t, f)
  BY <1>1, <1>6, NotPushed
<1>7. CASE /\ stack[t] # <<>> /\ Top(t).at # "send"
           /\ \E f : stack' = [stack EXCEPT ![t][n] = f]
  <2>1. PICK f : stack' = [stack EXCEPT ![t][n] = f]
    BY <1>7
  <2>2. n \in DOMAIN stack[t] /\ stack[t][n].at # "send"
    BY <1>3, <1>7
  <2> HIDE DEF n
  <2> QED BY <1>1, <2>1, <2>2, NotPut
<1>8. CASE /\ stack[t] # <<>> /\ Top(t).at # "send"
           /\ stack' = Push(s, t, Plain("hook"))
  <2>1. s = [stack EXCEPT ![t][n] = Plain("reading")]
    BY DEF PastPosted
  <2> HIDE DEF n, s
  <2>2. s \in [Task -> Seq(Frame)] /\ \A u \in Task : DOMAIN s[u] = DOMAIN stack[u]
    <3>1. Plain("reading") \in Frame
      BY FramesTyped
    <3> QED BY <1>1, <1>3, <1>8, <2>1, <3>1, PutTyped, Put
  <2>3. NoneAnswered(stack, s)
    BY <1>2, <1>3, <1>8, <2>1
  <2>4. NoneAnswered(s, stack')
    BY <1>8, <2>2, NotPushed
  <2> QED BY <2>2, <2>3, <2>4, NotEither
<1> USE DEF At
<1>9. CASE Resume(t)
  <2>1. stack' = stack \/ (Top(t).at = "send" /\ stack' = Pop(stack, t))
    BY <1>9 DEF Resume
  <2>2. CASE stack[t] = <<>>
    <3>1. \A i \in DOMAIN Pop(stack, t)[t] : i \notin DOMAIN stack[t]
      BY <2>2
    <3> QED BY <1>1, <1>4, <2>1, <2>2, <3>1 DEF NoneAnswered, Pop
  <2> QED BY <1>4, <1>5, <2>1, <2>2
<1>10. CASE \/ Start(t) \/ TakeNext(t) \/ YieldDone(t) \/ SendDone(t)
            \/ ReadPosted(t) \/ ReadInput(t)
  BY <1>10, <1>4, <1>5, <1>6
     DEF Start, TakeNext, YieldDone, SendDone, ReadPosted, ReadInput, Reading
<1>11. CASE ReadThroughHook(t)
  BY <1>8, <1>11 DEF ReadThroughHook, Reading
<1>12. CASE LookFurther(t)
  BY <1>5, <1>7, <1>12 DEF LookFurther, Reading
<1>13. CASE \E u \in Task : ReadHotKey(t, u)
  BY <1>7, <1>13 DEF ReadHotKey, Reading, PastPosted
<1> QED BY <1>9, <1>10, <1>11, <1>12, <1>13 DEF Engine

\* A program answers a call where it hands the processor back, and only there.
LEMMA ProgramAnswers ==
  ASSUME IInv, NEW t \in Task, Program(t)
  PROVE  \/ NoneAnswered(stack, stack')
         \/ /\ current = t
            /\ \E n \in DOMAIN stack[t] :
                 /\ stack[t][n].at = "answer" /\ ~stack[t][n].done
                 /\ HandBack(t, stack[t][n].peer)
                 /\ \E r \in [Task -> Seq(Frame)] :
                      /\ NoneAnswered(stack, r)
                      /\ \A u \in Task \ {t} : r[u] = stack[u]
                      /\ stack' = GiveAnswer(r, stack[t][n])
<1>1. stack \in [Task -> Seq(Frame)]
  BY DEF IInv, TypeOK
<1>2. CASE stack' = stack
  BY <1>2 DEF NoneAnswered
<1>3. CASE stack[t] # <<>> /\ stack' = Pop(stack, t)
  BY <1>1, <1>3, NotPopped
<1>4. CASE \E f : stack' = Push(stack, t, f)
  BY <1>1, <1>4, NotPushed
<1>5. CASE HookReturn(t) /\ stack' = Pop(Pop(stack, t), t)
  <2> DEFINE r == Pop(stack, t)
  <2>1. r \in [Task -> Seq(Frame)] /\ stack[t] # <<>>
    BY <1>1, <1>5, PopTyped DEF HookReturn, At
  <2>2. NoneAnswered(stack, r)
    BY <1>1, <2>1, NotPopped
  <2> DEFINE q == Pop(r, t)
  <2>3. CASE r[t] = <<>>
    <3>1. stack'[t] = <<>> /\ \A u \in Task \ {t} : stack'[u] = r[u]
      BY <1>5, <2>1, <2>3 DEF Pop
    <3> HIDE DEF r
    <3> QED BY <2>2, <3>1 DEF NoneAnswered
  <2>4. CASE r[t] # <<>>
    <3>1. /\ Len(r[t]) \in Nat /\ DOMAIN r[t] = 1 .. Len(r[t]) /\ DOMAIN q[t] = 1 .. Len(r[t]) - 1
          /\ \A u \in Task \ {t} : q[u] = r[u]
      BY <2>1, <2>4, Popped
    <3>2. NoneAnswered(r, q)
      BY <2>1, <2>4, NotPopped
    <3>3. stack' = q
      BY <1>5
    <3> HIDE DEF r, q
    <3>4. \A u \in Task : DOMAIN q[u] \subseteq DOMAIN r[u]
      BY <3>1
    <3> QED BY <2>2, <3>2, <3>3, <3>4, NotEither
  <2> QED BY <2>3, <2>4
<1>6. CASE ReturnAnswer(t)
  <2> DEFINE n == Len(stack[t])
             r == Pop(stack, t)
  <2>1. /\ current = t /\ stack[t] # <<>> /\ Top(t).at = "answer"
        /\ \/ stack' = r
           \/ ~Top(t).done /\ stack' = GiveAnswer(r, Top(t)) /\ HandBack(t, Top(t).peer)
    BY <1>6 DEF ReturnAnswer, At
  <2>2. n \in DOMAIN stack[t] /\ Top(t) = stack[t][n]
    BY <2>1, TopIn DEF IInv
  <2>3. r \in [Task -> Seq(Frame)] /\ \A u \in Task \ {t} : r[u] = stack[u]
    BY <1>1, <2>1, PopTyped, Popped
  <2>4. NoneAnswered(stack, r)
    BY <1>1, <2>1, NotPopped
  <2> HIDE DEF n, r
  <2> QED BY <2>1, <2>2, <2>3, <2>4
<1>7. CASE Reply(t)
  <2>1. PICK i \in DOMAIN stack[t] :
          /\ stack[t][i].at = "answer" /\ ~stack[t][i].done
          /\ stack' = GiveAnswer([stack EXCEPT ![t][i].done = TRUE], stack[t][i])
          /\ HandBack(t, stack[t][i].peer)
    BY <1>7 DEF Reply
  <2> DEFINE f == [stack[t][i] EXCEPT !.done = TRUE]
             r == [stack EXCEPT ![t][i].done = TRUE]
  <2>2. f \in Frame
    <3>1. stack[t] \in Seq(Frame)
      BY <1>1
    <3> QED BY <3>1, FramesTyped
  <2>3. r = [stack EXCEPT ![t][i] = f] /\ current = t
    BY <1>7 DEF Reply, Makes, InGuest
  <2>4. stack' = GiveAnswer(r, stack[t][i])
    BY <2>1
  <2> HIDE DEF r, f
  <2>5. /\ r \in [Task -> Seq(Frame)] /\ NoneAnswered(stack, r)
        /\ \A u \in Task \ {t} : r[u] = stack[u]
    BY <1>1, <2>1, <2>2, <2>3, PutTyped, Put, NotPut
  <2> QED BY <2>1, <2>3, <2>4, <2>5
<1>8. ASSUME NEW u \in Task, stack' = [stack EXCEPT ![u] = <<>>]
      PROVE  NoneAnswered(stack, stack')
  BY <1>1, <1>8 DEF NoneAnswered
<1>9. ASSUME NEW u \in Task, stack' = Push(Push(stack, u, Plain("start")), t, Plain("yield"))
      PROVE  NoneAnswered(stack, stack')
  <2> DEFINE f == Plain("start")
             g == Plain("yield")
             r == Push(stack, u, f)
  <2>1. r \in [Task -> Seq(Frame)]
    BY <1>1, PushTyped, FramesTyped
  <2>2. stack' = Push(r, t, g)
    BY <1>9
  <2> HIDE DEF f, g
  <2>3. NoneAnswered(stack, r) /\ \A v \in Task : DOMAIN stack[v] \subseteq DOMAIN r[v]
    BY <1>1, NotPushed
  <2> HIDE DEF r
  <2>4. NoneAnswered(r, stack')
    BY <2>1, <2>2, NotPushed
  <2> QED BY <2>3, <2>4, NotEither
<1>10. CASE GetMessage(t) \/ Yield(t) \/ \E u \in Task : DirectedYield(t, u) \/ Send(t, u)
  BY <1>4, <1>10 DEF GetMessage, Yield, DirectedYield, Send
<1>11. CASE \/ BeginPaint(t) \/ Lock(t)
            \/ \E u \in Task : Post(t, u) \/ Invalidate(t, u)
  BY <1>2, <1>11 DEF BeginPaint, Lock, Post, Invalidate
<1>12. CASE HookReturn(t)
  BY <1>3, <1>5, <1>12 DEF HookReturn, At
<1>13. CASE Exit(t) \/ \E u \in Task : Terminate(t, u)
  BY <1>8, <1>13 DEF Exit, Terminate, Gone
<1>14. CASE \E u \in Task : Exec(t, u)
  BY <1>9, <1>14 DEF Exec
<1> QED BY <1>6, <1>7, <1>10, <1>11, <1>12, <1>13, <1>14 DEF Program

\* What HandedOver says of a step.
HandStep ==
  locked \notin Live =>
    \A u \in Task :
      /\ (\E t \in Task : Send(t, u)) => current' = u
      /\ \A i \in DOMAIN stack[u] \cap DOMAIN stack'[u] :
           stack[u][i].at = "send" /\ ~stack[u][i].done
             /\ stack'[u][i].done => current' = u

\* With no live task locking it, a send gives the processor to the task sent
\* to, and an answer gives it back to the sender that waits for it, whoever
\* else is in line (tasks.rs: send_across, hand_back).
THEOREM CallsHandOver == Spec => HandedOver
<1>1. IInv /\ CallsInv /\ [Next]_vars => [HandStep]_vars
  <2> SUFFICES ASSUME IInv, CallsInv, Next PROVE HandStep
    OBVIOUS
  <2> SUFFICES ASSUME locked \notin Live, NEW u \in Task
               PROVE  /\ (\E t \in Task : Send(t, u)) => current' = u
                      /\ \A i \in DOMAIN stack[u] \cap DOMAIN stack'[u] :
                           stack[u][i].at = "send" /\ ~stack[u][i].done
                             /\ stack'[u][i].done => current' = u
    BY DEF HandStep
  <2>1. (\E t \in Task : Send(t, u)) => current' = u
    BY SentToRuns
  <2>2. ASSUME NEW i \in DOMAIN stack[u] \cap DOMAIN stack'[u], stack[u][i].at = "send",
               ~stack[u][i].done, stack'[u][i].done
        PROVE  current' = u
    <3>1. ~NoneAnswered(stack, stack')
      BY <2>2 DEF NoneAnswered
    <3>2. ~Host
      <4>1. stack \in [Task -> Seq(Frame)]
        BY DEF IInv, TypeOK
      <4>2. Host => stack' = stack \/ \E v \in Task : \E f : stack' = Push(stack, v, f)
        BY DEF Host, TimeComes, HostInput, Launch
      <4> QED BY <2>2, <3>1, <4>1, <4>2, NotPushed
    <3>3. PICK t \in Task : Program(t)
      BY <3>1, <3>2, EngineAnswersNone DEF Next
    <3>4. PICK n \in DOMAIN stack[t] :
            /\ current = t
            /\ stack[t][n].at = "answer" /\ ~stack[t][n].done
            /\ HandBack(t, stack[t][n].peer)
            /\ \E r \in [Task -> Seq(Frame)] :
                 /\ NoneAnswered(stack, r)
                 /\ \A v \in Task \ {t} : r[v] = stack[v]
                 /\ stack' = GiveAnswer(r, stack[t][n])
      BY <3>1, <3>3, ProgramAnswers
    <3>5. u = stack[t][n].peer /\ u \in Live /\ u # t
      BY <2>2, <3>4, AnswerGiven
    <3> QED BY <3>4, <3>5, HandedBackRuns
  <2> QED BY <2>1, <2>2
<1> QED BY <1>1, InductiveInvariant, CallsInvariant, PTL DEF Spec, HandedOver, HandStep

-----------------------------------------------------------------------------
(* What a step of the task that has the processor makes of the turns.      *)

\* The places at which what is sent to a task is taken.
Taking == {"yield", "send", "look"}

\* A task's innermost frame, and whether it is a call answered already.
Inner(s, u) == s[u][Len(s[u])]
Answered(s, u) == Inner(s, u).at = "send" /\ Inner(s, u).done

\* The tasks but t are at most woken.
OthersWoken(t, w) ==
  \A v \in Task \ {t} : w[v] = wait[v] \/ (Asleep(wait, v) /\ w[v] = "Woken")

\* None but t sleeps with a window due.
DueWoken(t) == \A v \in Live \ {t} : paint[v] => ~Asleep(wait', v)

\* t goes to sleep: for an answer not given, or having looked at all there is.
ToSleep(t) ==
  /\ stack'[t] # <<>>
  /\ \/ Inner(stack', t).at = "send" /\ ~Inner(stack', t).done
     \/ Inner(stack', t).at = "look" /\ Reading(t) /\ ~paint[t]
  /\ posted' = posted /\ paint' = paint

\* t gives the processor up where it will take what is sent to it.
LeftTaking(t) ==
  /\ stack'[t] # <<>>
  /\ Inner(stack', t).at \in Taking
  /\ Answered(stack', t) => wait'[t] = "Running"

Turn(t) ==
  /\ OthersWoken(t, wait')
  /\ current' # t => "exit" \in Calls \/ (DueWoken(t) /\ paint' = paint)
  /\ Asleep(wait', t) => ToSleep(t)
  /\ current' # t /\ life'[t] = "live" /\ ~Reply(t) => LeftTaking(t)

LEMMA ReleaseWakes ==
  ASSUME NEW t \in Task, NEW w \in [Task -> Waits], NEW l, NEW alive,
         OthersWoken(t, w), Release(t, w, l, alive)
  PROVE  OthersWoken(t, wait') /\ DueWoken(t) /\ wait'[t] = w[t]
<1> DEFINE D == Due(t, w)
<1>1. /\ wait' = Woken(w, D)
      /\ t \notin D
      /\ \A v \in Live \ {t} : v \in D <=> paint[v] /\ Asleep(w, v)
  BY DEF Release, Due
<1> HIDE DEF D
<1>2. \A v \in Task : wait'[v] = IF v \in D /\ Asleep(w, v) THEN "Woken" ELSE w[v]
  BY <1>1 DEF Woken
<1> QED BY <1>1, <1>2 DEF OthersWoken, DueWoken, Asleep, Live

LEMMA SignalWakes ==
  ASSUME IInv, NEW t \in Task, NEW u \in Task, current = t
  PROVE  LET w == Woken(wait, {u}) IN
         w \in [Task -> Waits] /\ OthersWoken(t, w) /\ w[t] = wait[t]
<1>1. wait \in [Task -> Waits] /\ ~Asleep(wait, t)
  BY TaskAssumption DEF IInv, TypeOK, OneTurnEach
<1> QED BY <1>1, WokenWaits DEF Woken, OthersWoken, Asleep

\* The innermost frame of a stack with one put on it, or in its place.
LEMMA InnerPushed ==
  ASSUME NEW s \in [Task -> Seq(Frame)], NEW t \in Task, NEW f
  PROVE  Push(s, t, f)[t] # <<>> /\ Inner(Push(s, t, f), t) = f
<1> DEFINE r == Push(s, t, f)
           q == s[t]
<1>1. r[t] = Append(q, f) /\ q \in Seq(Frame)
  BY DEF Push
<1> HIDE DEF r, q
<1> DEFINE S == Frame \cup {f}
<1>2. q \in Seq(S) /\ f \in S
  BY <1>1
<1> HIDE DEF S
<1>3. Append(q, f) # <<>> /\ Len(Append(q, f)) = Len(q) + 1 /\ Append(q, f)[Len(q) + 1] = f
  BY <1>2, AppendProperties
<1> QED BY <1>1, <1>3 DEF Inner, r

LEMMA InnerPut ==
  ASSUME NEW s \in [Task -> Seq(Frame)], NEW t \in Task, s[t] # <<>>, NEW f
  PROVE  LET r == [s EXCEPT ![t][Len(s[t])] = f] IN r[t] # <<>> /\ Inner(r, t) = f
<1> DEFINE q == s[t]
           n == Len(q)
           r == [s EXCEPT ![t][n] = f]
<1>1. q \in Seq(Frame) /\ n \in DOMAIN q /\ n \in Nat \ {0} /\ DOMAIN q = 1 .. n
  OBVIOUS
<1>2. r[t] = [q EXCEPT ![n] = f]
  OBVIOUS
<1> HIDE DEF r, q
<1>3. /\ [q EXCEPT ![n] = f] # <<>> /\ Len([q EXCEPT ![n] = f]) = n
      /\ [q EXCEPT ![n] = f][n] = f
  <2>1. q \in Seq(Frame \cup {f})
    BY <1>1
  <2>2. [q EXCEPT ![n] = f] \in Seq(Frame \cup {f})
    <3>1. [q EXCEPT ![n] = f] \in [1 .. n -> Frame \cup {f}]
      BY <1>1, <2>1
    <3> HIDE DEF n
    <3> QED BY <1>1, <3>1
  <2>3. DOMAIN [q EXCEPT ![n] = f] = 1 .. n
    BY <1>1
  <2> HIDE DEF n
  <2> QED BY <1>1, <2>2, <2>3
<1> QED BY <1>2, <1>3 DEF Inner, r, q

-----------------------------------------------------------------------------
(* The steps of the task that has the processor, one after the other.      *)

\* A step after which it has the processor still, and has at most woken one.
LEMMA KeptTurn ==
  ASSUME IInv, NEW t \in Task, current = t, current' = t,
         wait' = wait \/ \E u \in Task : wait' = Woken(wait, {u})
  PROVE  Turn(t)
<1>1. ~Asleep(wait, t)
  BY TaskAssumption DEF IInv, OneTurnEach
<1>2. CASE wait' = wait
  BY <1>1, <1>2 DEF Turn, OthersWoken
<1>3. ASSUME NEW u \in Task, wait' = Woken(wait, {u}) PROVE Turn(t)
  BY <1>1, <1>3, SignalWakes DEF Turn, Asleep
<1> QED BY <1>2, <1>3

\* A step that gives the processor up.
LEMMA GivenTurn ==
  ASSUME IInv, NEW t \in Task, current = t,
         NEW w \in [Task -> Waits], NEW l, NEW alive, OthersWoken(t, w), Release(t, w, l, alive),
         paint' = paint,
         Asleep(w, t) => ToSleep(t),
         life'[t] = "live" /\ ~Reply(t) =>
           /\ stack'[t] # <<>>
           /\ Inner(stack', t).at \in Taking
           /\ Answered(stack', t) => w[t] = "Running"
  PROVE  Turn(t)
<1>1. OthersWoken(t, wait') /\ DueWoken(t) /\ wait'[t] = w[t]
  BY ReleaseWakes
<1> QED BY <1>1 DEF Turn, LeftTaking, Asleep

LEMMA EngineTurn ==
  ASSUME IInv, NEW t \in Task, Engine(t)
  PROVE  current = t /\ Turn(t)
<1>0. /\ stack \in [Task -> Seq(Frame)] /\ wait \in [Task -> Waits]
  BY DEF IInv, TypeOK
<1>1. CASE \/ Start(t) \/ TakeNext(t) \/ YieldDone(t) \/ ReadPosted(t)
           \/ ReadInput(t) \/ ReadThroughHook(t)
  <2>1. current = t /\ current' = t /\ wait' = wait
    BY <1>1 DEF Start, TakeNext, YieldDone, ReadPosted, ReadInput,
                ReadThroughHook, Reading, At, sched
  <2> QED BY <2>1, KeptTurn
<1>2. CASE Resume(t)
  <2>1. current = t /\ current' = t /\ wait' = [wait EXCEPT ![t] = "Running"]
    BY <1>2 DEF Resume
  <2> QED BY <1>0, <2>1 DEF Turn, OthersWoken, Asleep
<1>3. CASE SendDone(t)
  <2>1. current = t /\ stack[t] # <<>> /\ Top(t).at = "send" /\ posted' = posted /\ paint' = paint
    BY <1>3 DEF SendDone, At, queues
  <2>2. CASE UNCHANGED sched
    BY <2>1, <2>2, KeptTurn DEF sched
  <2>3. CASE /\ ~Top(t).done
             /\ Release(t, [wait EXCEPT ![t] = "Waiting"], line, Live)
             /\ stack' = stack
    <3> DEFINE w == [wait EXCEPT ![t] = "Waiting"]
    <3>1. w \in [Task -> Waits] /\ OthersWoken(t, w)
      BY <1>0 DEF OthersWoken, Waits
    <3>2. Inner(stack', t) = Top(t) /\ stack'[t] # <<>>
      BY <2>1, <2>3 DEF Inner, Top
    <3>3. Release(t, w, line, Live)
      BY <2>3
    <3> HIDE DEF w
    <3>4. ToSleep(t)
      BY <2>1, <2>3, <3>2 DEF ToSleep
    <3> QED BY <2>1, <2>3, <3>1, <3>2, <3>3, <3>4, GivenTurn DEF Taking, Answered
  <2> QED BY <1>3, <2>1, <2>2, <2>3 DEF SendDone
<1>4. CASE LookFurther(t)
  <2>1. /\ current = t /\ stack[t] # <<>> /\ Reading(t) /\ posted' = posted /\ paint' = paint
    BY <1>4 DEF LookFurther, Reading, At, queues
  <2>2. CASE UNCHANGED sched
    BY <2>1, <2>2, KeptTurn DEF sched
  <2>3. ASSUME ~paint[t], stack' = [stack EXCEPT ![t][Len(stack[t])] = Plain("look")],
               NEW x \in {"Waiting", "Timed"},
               Release(t, [wait EXCEPT ![t] = x], line, Live)
        PROVE  Turn(t)
    <3> DEFINE w == [wait EXCEPT ![t] = x]
               f == Plain("look")
    <3>1. w \in [Task -> Waits] /\ OthersWoken(t, w)
      BY <1>0 DEF OthersWoken, Waits
    <3>2. f.at = "look"
      BY DEF Plain
    <3>3. Release(t, w, line, Live) /\ stack' = [stack EXCEPT ![t][Len(stack[t])] = f]
      BY <2>3
    <3> HIDE DEF w, f
    <3>4. Inner(stack', t) = f /\ stack'[t] # <<>>
      BY <1>0, <2>1, <3>3, InnerPut
    <3>5. ToSleep(t)
      BY <2>1, <2>3, <3>2, <3>4 DEF ToSleep
    <3> QED BY <2>1, <3>1, <3>2, <3>3, <3>4, <3>5, GivenTurn DEF Taking, Answered
  <2> QED BY <1>4, <2>1, <2>2, <2>3 DEF LookFurther
<1>5. ASSUME NEW u \in Task, ReadHotKey(t, u) PROVE current = t /\ Turn(t)
  <2>1. current = t /\ PostTo(u)
    BY <1>5 DEF ReadHotKey, Reading, At
  <2> QED BY <2>1, KeptTurn DEF PostTo, sched
<1> QED BY <1>1, <1>2, <1>3, <1>4, <1>5 DEF Engine

\* A hand-back of the processor, with what it leaves of the stacks.
LEMMA HandTurn ==
  ASSUME IInv, NEW t \in Task, NEW to \in Task, current = t, HandBack(t, to),
         wait[t] = "Running", paint' = paint,
         life'[t] = "live" /\ ~Reply(t) => stack'[t] # <<>> /\ Inner(stack', t).at \in Taking
  PROVE  Turn(t)
<1> DEFINE w == Woken(wait, {to})
           l == Append(MoveFirst(Enter(wait, line, to), to), t)
<1>1. w \in [Task -> Waits] /\ OthersWoken(t, w) /\ w[t] = "Running" /\ ~Asleep(w, t)
  BY SignalWakes DEF Asleep
<1>2. CASE Release(t, w, l, Live)
  <2> HIDE DEF w, l
  <2> QED BY <1>1, <1>2, GivenTurn
<1>3. CASE wait' = w /\ current' = current
  BY <1>3, KeptTurn
<1> QED BY <1>2, <1>3 DEF HandBack

LEMMA ProgramTurn ==
  ASSUME IInv, CallsInv, NEW t \in Task, Program(t)
  PROVE  current = t /\ Turn(t)
<1>0. /\ stack \in [Task -> Seq(Frame)] /\ wait \in [Task -> Waits]
      /\ (current = t => ~Asleep(wait, t))
  BY TaskAssumption DEF IInv, TypeOK, OneTurnEach
<1>1. CASE \/ GetMessage(t) \/ HookReturn(t) \/ BeginPaint(t) \/ Lock(t)
           \/ \E u \in Task : Invalidate(t, u) \/ Terminate(t, u)
  <2>1. current = t /\ current' = t /\ wait' = wait
    BY <1>1 DEF GetMessage, HookReturn, BeginPaint, Lock, Invalidate, Terminate, Gone,
                Makes, InGuest, At, sched
  <2> QED BY <2>1, KeptTurn
<1>2. ASSUME NEW u \in Task, Post(t, u) PROVE current = t /\ Turn(t)
  <2>1. current = t /\ PostTo(u)
    BY <1>2 DEF Post, Makes, InGuest
  <2> QED BY <2>1, KeptTurn DEF PostTo, sched
<1>3. CASE Exit(t)
  <2>1. current = t /\ "exit" \in Calls /\ life'[t] = "ended" /\ wait' = wait
    BY <1>3 DEF Exit, Gone, Makes, InGuest, IInv, TypeOK
  <2> QED BY <1>0, <2>1 DEF Turn, OthersWoken
<1>4. CASE ReturnAnswer(t)
  <2> DEFINE n == Len(stack[t])
             r == Pop(stack, t)
             to == Top(t).peer
  <2>1. /\ current = t /\ stack[t] # <<>> /\ Top(t).at = "answer" /\ wait[t] = "Running"
        /\ paint' = paint
    BY <1>4 DEF ReturnAnswer, At, queues
  <2>2. n \in DOMAIN stack[t] /\ Top(t) = stack[t][n] /\ to \in Task
    BY <2>1, TopIn, AnsweredTask DEF IInv
  <2>3. CASE UNCHANGED sched
    BY <2>1, <2>3, KeptTurn DEF sched
  <2>4. CASE ~Top(t).done /\ stack' = GiveAnswer(r, Top(t)) /\ HandBack(t, to)
    <3>1. to # t
      <4>1. stack[t] \in Seq(Frame) /\ stack[t][n] \in Frame
        <5>1. stack[t] \in Seq(Frame)
          BY <1>0
        <5> HIDE DEF n
        <5> QED BY <2>2, <5>1
      <4>2. n \in Nat /\ Top(t).depth \in Nat
        BY <2>2, <4>1 DEF Frame
      <4>3. Answering(stack, t, n, to, Top(t).depth)
        BY <2>1, <2>2, <2>4 DEF Answering, OpenFrame
      <4>4. FromSender(life, stack, to, Top(t).depth, t)
        BY <2>2, <4>2, <4>3 DEF CallsInv, CallsPlaced, AllAwaited
      <4> QED BY <4>4 DEF FromSender
    <3>2. /\ n \in Nat /\ n > 1 /\ stack[t][n - 1].at \in Taking
      <4>1. n \in DOMAIN stack[t] /\ stack[t][n].at = "answer" /\ n \in Nat
        BY <1>0, <2>1, <2>2
      <4> HIDE DEF n
      <4> QED BY <4>1 DEF CallsInv, Shaped, Taking
    <3>3. /\ Len(r[t]) = n - 1 /\ \A i \in 1 .. n - 1 : r[t][i] = stack[t][i]
      BY <1>0, <2>1, Popped
    <3>4. stack'[t] = r[t]
      <4> HIDE DEF r
      <4> QED BY <2>4, <3>1 DEF GiveAnswer
    <3>5. stack'[t] # <<>> /\ Inner(stack', t).at \in Taking
      <4> HIDE DEF n, r
      <4>1. n - 1 \in 1 .. n - 1
        BY <3>2
      <4>2. r[t][n - 1] = stack[t][n - 1]
        BY <3>3, <4>1
      <4>3. r[t] # <<>>
        BY <3>2, <3>3
      <4> QED BY <3>2, <3>3, <3>4, <4>2, <4>3 DEF Inner
    <3> QED BY <2>1, <2>2, <2>4, <3>5, HandTurn
  <2> QED BY <1>4, <2>1, <2>3, <2>4 DEF ReturnAnswer
<1>5. CASE Reply(t)
  <2>1. current = t /\ wait[t] = "Running" /\ paint' = paint
    BY <1>5 DEF Reply, Makes, InGuest, queues
  <2>2. PICK i \in DOMAIN stack[t] :
          stack[t][i].at = "answer" /\ HandBack(t, stack[t][i].peer)
    BY <1>5 DEF Reply
  <2>3. stack[t][i].peer \in Task
    BY <2>2, AnsweredTask DEF IInv
  <2> QED BY <1>5, <2>1, <2>2, <2>3, HandTurn
<1>6. ASSUME current = t, wait[t] = "Running", NEW s \in [Task -> Seq(Frame)],
             stack' = Push(s, t, Plain("yield"))
      PROVE  stack'[t] # <<>> /\ Inner(stack', t).at = "yield"
  <2> DEFINE f == Plain("yield")
  <2>1. stack' = Push(s, t, f) /\ f.at = "yield"
    BY <1>6 DEF Plain
  <2> HIDE DEF f
  <2> QED BY <2>1, InnerPushed
<1>7. ASSUME current = t, wait[t] = "Running", NEW s \in [Task -> Seq(Frame)],
             stack' = Push(s, t, Plain("yield")),
             NEW l, NEW alive, Release(t, wait, l, alive), paint' = paint
      PROVE  Turn(t)
  <2>1. OthersWoken(t, wait) /\ ~Asleep(wait, t)
    BY <1>7 DEF OthersWoken, Asleep
  <2>2. stack'[t] # <<>> /\ Inner(stack', t).at = "yield"
    BY <1>6, <1>7
  <2> QED BY <1>0, <1>7, <2>1, <2>2, GivenTurn DEF Taking
<1>8. CASE Yield(t)
  <2> DEFINE D == Due(t, wait)
  <2>1. /\ current = t /\ wait[t] = "Running" /\ stack' = Push(stack, t, Plain("yield"))
        /\ paint' = paint
    BY <1>8 DEF Yield, Makes, InGuest, queues
  <2>2. CASE Release(t, wait, Append(line, t), Live)
    BY <1>0, <1>7, <2>1, <2>2
  <2>3. CASE wait' = Woken(wait, D)
    <3>1. t \notin D /\ \A v \in Live \ {t} : v \in D <=> paint[v] /\ Asleep(wait, v)
      BY DEF Due
    <3> HIDE DEF D
    <3>2. \A v \in Task : wait'[v] = IF v \in D /\ Asleep(wait, v) THEN "Woken" ELSE wait[v]
      BY <2>3 DEF Woken
    <3>3. stack'[t] # <<>> /\ Inner(stack', t).at = "yield"
      BY <1>0, <1>6, <2>1
    <3>4. wait'[t] = "Running"
      BY <2>1, <3>1, <3>2
    <3> QED BY <1>0, <2>1, <3>1, <3>2, <3>3, <3>4
            DEF Turn, OthersWoken, DueWoken, LeftTaking, Asleep, Live, Taking
  <2>4. CASE UNCHANGED sched
    BY <2>1, <2>4, KeptTurn DEF sched
  <2> QED BY <1>8, <2>1, <2>2, <2>3, <2>4 DEF Yield
<1>9. ASSUME NEW u \in Task, DirectedYield(t, u) PROVE current = t /\ Turn(t)
  <2>1. /\ current = t /\ wait[t] = "Running" /\ stack' = Push(stack, t, Plain("yield"))
        /\ \E l : Release(t, wait, l, Live)
        /\ paint' = paint
    BY <1>9 DEF DirectedYield, Makes, InGuest, queues
  <2> QED BY <1>0, <1>7, <2>1
<1>10. ASSUME NEW u \in Task, Exec(t, u) PROVE current = t /\ Turn(t)
  <2> DEFINE s == Push(stack, u, Plain("start"))
  <2>1. /\ current = t /\ wait[t] = "Running" /\ stack' = Push(s, t, Plain("yield"))
        /\ \E l : Release(t, wait, l, Live \cup {u})
        /\ paint' = paint
    BY <1>10 DEF Exec, Makes, InGuest, queues
  <2>2. s \in [Task -> Seq(Frame)]
    BY <1>0, PushTyped, FramesTyped
  <2> HIDE DEF s
  <2> QED BY <1>7, <2>1, <2>2
<1>11. ASSUME NEW u \in Task, Send(t, u) PROVE current = t /\ Turn(t)
  <2> DEFINE v == Woken(wait, {u})
             w == [v EXCEPT ![t] = "Waiting"]
             l == MoveFirst(Enter(wait, line, u), u)
             f == SendTo(u)
  <2>1. /\ current = t /\ stack' = Push(stack, t, f) /\ posted' = posted /\ paint' = paint
        /\ Release(t, w, l, Live)
    BY <1>11 DEF Send, Makes, InGuest, queues
  <2>2. v \in [Task -> Waits] /\ OthersWoken(t, v)
    BY <2>1, SignalWakes
  <2>3. f.at = "send" /\ ~f.done
    BY DEF SendTo
  <2> HIDE DEF v, l, f
  <2>4. w \in [Task -> Waits] /\ OthersWoken(t, w)
    BY <2>2 DEF OthersWoken, Waits
  <2> HIDE DEF w
  <2>5. stack'[t] # <<>> /\ Inner(stack', t) = f
    BY <1>0, <2>1, InnerPushed
  <2>6. ToSleep(t)
    BY <2>1, <2>3, <2>5 DEF ToSleep
  <2> QED BY <2>1, <2>3, <2>4, <2>5, <2>6, GivenTurn DEF Answered, Taking
<1> QED BY <1>1, <1>2, <1>3, <1>4, <1>5, <1>8, <1>9, <1>10, <1>11 DEF Program

-----------------------------------------------------------------------------
(* What a step makes of the other tasks, and of those made.                *)

\* A task's stack is as it was, or an answer was handed to a call on it.
FramesKept(t, v) ==
  \/ stack'[v] = stack[v]
  \/ /\ HandBack(t, v)
     /\ \E i \in DOMAIN stack[v] : stack'[v] = [stack[v] EXCEPT ![i].done = TRUE]

LEMMA EngineKeepsFrames ==
  ASSUME IInv, NEW t \in Task, Engine(t), NEW v \in Task \ {t}
  PROVE  stack'[v] = stack[v]
BY DEF IInv, TypeOK, Engine, Start, Resume, TakeNext, YieldDone, SendDone, ReadPosted, ReadInput,
       ReadThroughHook, LookFurther, ReadHotKey, Push, Pop, PastPosted

LEMMA ProgramKeepsFrames ==
  ASSUME IInv, NEW t \in Task, Program(t), NEW v \in Live \ {t}, life'[v] = "live"
  PROVE  FramesKept(t, v)
<1>1. v \in Task /\ v # t /\ life[v] = "live" /\ stack \in [Task -> Seq(Frame)]
  BY DEF Live, IInv, TypeOK
<1>2. CASE \/ GetMessage(t) \/ HookReturn(t) \/ Yield(t) \/ BeginPaint(t) \/ Lock(t)
           \/ \E u \in Task : \/ Send(t, u) \/ DirectedYield(t, u) \/ Post(t, u)
                              \/ Invalidate(t, u)
  <2>1. stack'[v] = stack[v]
    BY <1>1, <1>2 DEF GetMessage, HookReturn, Yield, BeginPaint, Lock, Send, DirectedYield, Post,
                      Invalidate, Push, Pop
  <2> QED BY <2>1 DEF FramesKept
<1>3. CASE Exit(t) \/ \E u \in Task : Terminate(t, u)
  <2>1. PICK u \in Task : Gone(u)
    BY <1>3 DEF Exit, Terminate
  <2>2. u # v
    BY <1>1, <2>1 DEF Gone, IInv, TypeOK
  <2> QED BY <1>1, <2>1, <2>2 DEF Gone, FramesKept
<1>4. ASSUME NEW u \in Task, Exec(t, u) PROVE FramesKept(t, v)
  <2>1. u # v
    BY <1>1, <1>4 DEF Exec, Made
  <2> QED BY <1>1, <1>4, <2>1 DEF Exec, Push, FramesKept
<1>5. ASSUME NEW f \in Frame, NEW r, r[v] = stack[v], stack' = GiveAnswer(r, f),
             HandBack(t, f.peer), r \in [Task -> Seq(Frame)]
      PROVE  FramesKept(t, v)
  <2>1. CASE v # f.peer \/ f.depth \notin DOMAIN r[f.peer]
    BY <1>1, <1>5, <2>1 DEF GiveAnswer, FramesKept
  <2>2. CASE v = f.peer /\ f.depth \in DOMAIN r[v]
    BY <1>1, <1>5, <2>2 DEF GiveAnswer, FramesKept
  <2> QED BY <2>1, <2>2
<1>6. \A i \in DOMAIN stack[t] : stack[t][i] \in Frame
  <2>1. stack[t] \in Seq(Frame)
    BY <1>1
  <2> QED BY <2>1
<1>7. CASE ReturnAnswer(t)
  <2> DEFINE r == Pop(stack, t)
  <2>1. /\ stack[t] # <<>>
        /\ \/ stack' = r
           \/ stack' = GiveAnswer(r, Top(t)) /\ HandBack(t, Top(t).peer)
    BY <1>7 DEF ReturnAnswer, At
  <2>2. r[v] = stack[v] /\ r \in [Task -> Seq(Frame)] /\ Top(t) \in Frame
    BY <1>1, <1>6, <2>1, PopTyped, TopIn DEF Pop, IInv
  <2> HIDE DEF r
  <2> QED BY <1>5, <2>1, <2>2 DEF FramesKept
<1>8. CASE Reply(t)
  <2>1. PICK i \in DOMAIN stack[t] :
          /\ stack' = GiveAnswer([stack EXCEPT ![t][i].done = TRUE], stack[t][i])
          /\ HandBack(t, stack[t][i].peer)
    BY <1>8 DEF Reply
  <2> DEFINE f == [stack[t][i] EXCEPT !.done = TRUE]
             r == [stack EXCEPT ![t][i] = f]
  <2>2. f \in Frame
    <3>1. stack[t] \in Seq(Frame)
      BY <1>1
    <3> QED BY <3>1, FramesTyped
  <2>3. stack' = GiveAnswer(r, stack[t][i])
    BY <2>1
  <2>4. r[v] = stack[v]
    BY <1>1
  <2> HIDE DEF f
  <2>5. r \in [Task -> Seq(Frame)]
    BY <1>1, <2>2, PutTyped
  <2> HIDE DEF r
  <2> QED BY <1>5, <1>6, <2>1, <2>3, <2>4, <2>5
<1> QED BY <1>2, <1>3, <1>4, <1>7, <1>8 DEF Program

\* A host's step wakes one task at most, or makes one.
LEMMA HostStep ==
  ASSUME IInv, Host
  PROVE  /\ current # None => current' = current
         /\ posted' = posted /\ paint' = paint /\ sent' = sent /\ locked' = locked
         /\ wait' = wait \/ \E u \in Task : wait' = Woken(wait, {u})
         /\ \A v \in Live : life'[v] = "live" /\ stack'[v] = stack[v]
<1>1. ASSUME NEW u \in Task, TimeComes(u) \/ HostInput(u)
      PROVE  /\ current # None => current' = current
             /\ posted' = posted /\ paint' = paint /\ sent' = sent /\ locked' = locked
             /\ wait' = Woken(wait, {u})
             /\ life' = life /\ stack' = stack
  BY <1>1 DEF TimeComes, HostInput, WakeUp, Settle, queues
<1>2. ASSUME NEW u \in Task, Launch(u)
      PROVE  /\ current # None => current' = current
             /\ posted' = posted /\ paint' = paint /\ sent' = sent /\ locked' = locked
             /\ wait' = wait
             /\ \A v \in Live : life'[v] = "live" /\ stack'[v] = stack[v]
  BY <1>2 DEF Launch, Made, Settle, queues, Push, Live, IInv, TypeOK
<1> QED BY <1>1, <1>2 DEF Host, Live

\* A task made has a future that is not begun, and none has been made twice.
LEMMA MadeFresh ==
  ASSUME IInv, StacksLive, Next, NEW v \in Task, v \notin Live, life'[v] = "live"
  PROVE  /\ life[v] = "unmade" /\ ~Asleep(wait', v)
         /\ stack'[v] # <<>> /\ Inner(stack', v).at = "start"
         /\ sent' = sent
<1>1. stack \in [Task -> Seq(Frame)] /\ life[v] # "live"
  BY DEF IInv, TypeOK, Live
<1>2. PICK u \in Task : Launch(u) \/ \E t \in Task : Exec(t, u)
  <2>1. ASSUME NEW t \in Task, Engine(t) PROVE life' = life
    BY <2>1 DEF Engine, Start, Resume, TakeNext, YieldDone, SendDone, ReadPosted, ReadInput,
                ReadThroughHook, LookFurther, ReadHotKey
  <2>2. ASSUME NEW u \in Task, TimeComes(u) \/ HostInput(u) PROVE life' = life
    BY <2>2 DEF TimeComes, HostInput
  <2>3. ASSUME NEW u \in Task, Gone(u) PROVE life'[v] = "live" => life[v] = "live"
    BY <2>3 DEF Gone, IInv, TypeOK
  <2>4. ASSUME NEW t \in Task, Program(t)
        PROVE  \/ life' = life \/ \E u \in Task : Gone(u) \/ Exec(t, u)
    BY <2>4 DEF Program, GetMessage, ReturnAnswer, HookReturn, Reply, Yield, BeginPaint, Lock, Exit,
                Send, DirectedYield, Post, Invalidate, Terminate
  <2> QED BY <1>1, <2>1, <2>2, <2>3, <2>4 DEF Next, Host
<1>3. Made(u)
  BY <1>2 DEF Launch, Exec
<1>4. u = v /\ life[v] = "unmade"
  BY <1>1, <1>3 DEF Made, IInv, TypeOK
<1>5. ~Asleep(wait, v)
  BY <1>4 DEF IInv, UnmadeOut, Asleep
<1> DEFINE f == Plain("start")
           s == Push(stack, v, f)
<1>6. s[v] # <<>> /\ Inner(s, v) = f /\ f.at = "start"
  <2>1. f.at = "start"
    BY DEF Plain
  <2> HIDE DEF f
  <2> QED BY <1>1, <2>1, InnerPushed
<1>7. CASE Launch(v)
  <2>1. stack' = s /\ wait' = wait /\ sent' = sent
    BY <1>7 DEF Launch
  <2> HIDE DEF s, f
  <2> QED BY <1>4, <1>5, <1>6, <2>1 DEF Inner
<1>8. ASSUME NEW t \in Task, Exec(t, v)
      PROVE  ~Asleep(wait', v) /\ stack'[v] # <<>> /\ Inner(stack', v).at = "start" /\ sent' = sent
  <2>1. /\ current = t /\ stack' = Push(s, t, Plain("yield")) /\ sent' = sent
        /\ Program(t)
    BY <1>8 DEF Exec, Makes, InGuest, Program
  <2>2. t \in Live /\ t # v
    BY <2>1, TaskAssumption DEF IInv, OneTurnEach, Live
  <2>3. s \in [Task -> Seq(Frame)]
    BY <1>1, PushTyped, FramesTyped
  <2>4. stack'[v] = s[v]
    <3> HIDE DEF s
    <3> QED BY <2>1, <2>2, <2>3 DEF Push
  <2>5. PICK l, alive : Release(t, wait, l, alive)
    BY <1>8 DEF Exec
  <2>6. OthersWoken(t, wait')
    BY <2>5, ReleaseWakes DEF OthersWoken, IInv, TypeOK
  <2> HIDE DEF s, f
  <2> QED BY <1>5, <1>6, <2>1, <2>2, <2>4, <2>6 DEF OthersWoken, Asleep, Inner
<1> QED BY <1>2, <1>4, <1>7, <1>8

-----------------------------------------------------------------------------
(* The invariants.                                                         *)

\* A message sent and not yet taken is alone, at the task that has the
\* processor, which is where it takes it -- before it goes on with an answer.
PendingRuns ==
  \A u \in Live : sent[u] # <<>> =>
    /\ u = current
    /\ Len(sent[u]) = 1
    /\ stack[u] # <<>>
    /\ Inner(stack, u).at \in Taking
    /\ Answered(stack, u) => wait[u] = "Running"

\* A task without the processor is where it would take a message, or has yet
\* to begin; with the answer to its call there, it does not wait for it.
OutOfTurn ==
  \A u \in Live \ {current} :
    /\ stack[u] # <<>>
    /\ Inner(stack, u).at \in Taking \cup {"start"}
    /\ Answered(stack, u) => wait[u] = "Running"

NoneYetSent == \A u \in Task : life[u] = "unmade" => sent[u] = <<>>

\* The inductive invariant of what is sent, where none replies before it
\* returns and none is locked.
SentInv == locked = None /\ PendingRuns /\ OutOfTurn /\ NoneYetSent

\* None is in the middle of a read of the input, where none is interrupted.
Uninterrupted(s) ==
  \A u \in Task : \A i \in DOMAIN s[u] : s[u][i].at \notin {"reading", "hook"}
NoneReading == Uninterrupted(stack)

-----------------------------------------------------------------------------
(* What was posted.                                                        *)

\* Whether stack v's innermost frame is a look is not changed by an answer.
LEMMA InnerKept ==
  ASSUME IInv, NEW t, NEW v \in Task, FramesKept(t, v)
  PROVE  Inner(stack', v).at = Inner(stack, v).at
<1>1. stack[v] \in Seq(Frame) /\ \A i \in DOMAIN stack[v] : stack[v][i] \in Frame
  <2>1. stack[v] \in Seq(Frame)
    BY DEF IInv, TypeOK
  <2> QED BY <2>1
<1>2. CASE stack'[v] = stack[v]
  BY <1>2 DEF Inner
<1>3. ASSUME NEW i \in DOMAIN stack[v], stack'[v] = [stack[v] EXCEPT ![i].done = TRUE]
      PROVE  Inner(stack', v).at = Inner(stack, v).at
  <2> DEFINE q == stack[v]
             f == [q[i] EXCEPT !.done = TRUE]
             r == [q EXCEPT ![i] = f]
             n == Len(q)
  <2>1. /\ n \in Nat /\ DOMAIN q = 1 .. n /\ stack'[v] = r
        /\ f \in Frame /\ f.at = q[i].at
    <3>1. n \in Nat /\ DOMAIN q = 1 .. n /\ stack'[v] = r
      BY <1>1, <1>3
    <3>2. f \in Frame
      BY <1>1, <1>3, FramesTyped
    <3>3. q[i] \in Frame
      BY <1>1, <1>3
    <3> HIDE DEF q
    <3>4. f.at = q[i].at
      BY <3>3 DEF Frame
    <3> QED BY <3>1, <3>2, <3>4
  <2>2. r \in [1 .. n -> Frame] /\ n \in DOMAIN q
    BY <1>1, <2>1
  <2>3. r \in Seq(Frame) /\ Len(r) = n
    <3> HIDE DEF r, n
    <3> QED BY <2>1, <2>2
  <2>4. r[n].at = q[n].at
    <3> HIDE DEF f, n, q
    <3> QED BY <2>1, <2>2
  <2> HIDE DEF r
  <2> QED BY <2>1, <2>3, <2>4 DEF Inner
<1> QED BY <1>2, <1>3 DEF FramesKept

\* None asleep has been posted a message since it went to sleep.
LEMMA PostedAwake ==
  ASSUME IInv, Next, NEW v \in Task, posted[v] = 0, Asleep(wait', v)
  PROVE  posted'[v] = 0
<1>1. posted \in [Task -> Nat] /\ wait \in [Task -> Waits]
  BY DEF IInv, TypeOK
<1>2. ASSUME NEW u \in Task, PostTo(u) PROVE posted'[v] = 0
  BY <1>1, <1>2 DEF PostTo, Woken, Asleep
<1>3. ASSUME NEW u \in Task, Gone(u) PROVE posted'[v] = 0
  BY <1>1, <1>3 DEF Gone
<1>4. ASSUME NEW t \in Task, Engine(t) PROVE posted'[v] = 0
  BY <1>1, <1>2, <1>4 DEF Engine, Start, Resume, TakeNext, YieldDone, SendDone, ReadPosted, ReadInput,
              ReadThroughHook, LookFurther, ReadHotKey, queues
<1>5. ASSUME NEW t \in Task, Program(t) PROVE posted'[v] = 0
  BY <1>2, <1>3, <1>5 DEF Program, GetMessage, ReturnAnswer, HookReturn, Reply, Yield, BeginPaint,
              Lock, Exit, Send, DirectedYield, Exec, Post, Invalidate, Terminate, queues
<1> QED BY <1>4, <1>5, HostStep DEF Next

\* What a task that sleeps after a step was before it, and where.
LEMMA SleptBefore ==
  ASSUME IInv, CallsInv, Next, NEW v \in Task, life'[v] = "live", Asleep(wait', v)
  PROVE  \/ /\ v \in Live /\ Asleep(wait, v)
            /\ Inner(stack', v).at = Inner(stack, v).at
            /\ \/ Host
               \/ \E t \in Task : v # t /\ (Engine(t) \/ Program(t)) /\ current = t /\ Turn(t)
         \/ v \in Live /\ v = current /\ ToSleep(v)
<1>1. v \in Live
  BY MadeFresh DEF CallsInv
<1>2. CASE Host
  <2>1. stack'[v] = stack[v] /\ (wait' = wait \/ \E u \in Task : wait' = Woken(wait, {u}))
    BY <1>1, <1>2, HostStep
  <2>2. Asleep(wait, v)
    BY <2>1 DEF Woken, Asleep
  <2> QED BY <1>1, <1>2, <2>1, <2>2 DEF Inner
<1>3. ASSUME NEW t \in Task, Engine(t) \/ Program(t), v # t
      PROVE  /\ v \in Live /\ Asleep(wait, v)
             /\ Inner(stack', v).at = Inner(stack, v).at
             /\ current = t /\ Turn(t)
  <2>1. current = t /\ Turn(t)
    BY <1>3, EngineTurn, ProgramTurn
  <2>2. Asleep(wait, v)
    BY <1>3, <2>1 DEF Turn, OthersWoken, Asleep
  <2>3. FramesKept(t, v)
    BY <1>1, <1>3, EngineKeepsFrames, ProgramKeepsFrames DEF FramesKept
  <2> QED BY <1>1, <2>1, <2>2, <2>3, InnerKept
<1>4. ASSUME Engine(v) \/ Program(v) PROVE v = current /\ ToSleep(v)
  BY <1>4, EngineTurn, ProgramTurn DEF Turn
<1> QED BY <1>1, <1>2, <1>3, <1>4 DEF Next

LEMMA UninterruptedPushed ==
  ASSUME NEW s \in [Task -> Seq(Frame)], Uninterrupted(s), NEW t \in Task, NEW f,
         f.at \notin {"reading", "hook"}
  PROVE  Uninterrupted(Push(s, t, f))
<1> DEFINE r == Push(s, t, f)
<1>1. /\ Len(s[t]) \in Nat /\ DOMAIN s[t] = 1 .. Len(s[t]) /\ DOMAIN r[t] = 1 .. Len(s[t]) + 1
      /\ \A i \in DOMAIN s[t] : r[t][i] = s[t][i]
      /\ r[t][Len(s[t]) + 1] = f
  BY Pushed
<1>2. \A u \in Task \ {t} : r[u] = s[u]
  BY DEF Push
<1> HIDE DEF r
<1>3. Uninterrupted(r)
  BY <1>1, <1>2 DEF Uninterrupted
<1> QED BY <1>3 DEF r

LEMMA UninterruptedPopped ==
  ASSUME NEW s \in [Task -> Seq(Frame)], Uninterrupted(s), NEW t \in Task, s[t] # <<>>
  PROVE  Uninterrupted(Pop(s, t))
<1> DEFINE r == Pop(s, t)
<1>1. /\ Len(s[t]) \in Nat /\ DOMAIN s[t] = 1 .. Len(s[t]) /\ DOMAIN r[t] = 1 .. Len(s[t]) - 1
      /\ \A i \in 1 .. Len(s[t]) - 1 : r[t][i] = s[t][i]
      /\ \A u \in Task \ {t} : r[u] = s[u]
  BY Popped
<1> HIDE DEF r
<1>2. Uninterrupted(r)
  BY <1>1 DEF Uninterrupted
<1> QED BY <1>2 DEF r

LEMMA UninterruptedPut ==
  ASSUME NEW s \in [Task -> Seq(Frame)], Uninterrupted(s), NEW t \in Task, NEW i \in DOMAIN s[t],
         NEW f, f.at \notin {"reading", "hook"}
  PROVE  Uninterrupted([s EXCEPT ![t][i] = f])
BY Put DEF Uninterrupted

\* An answer given, or noted as given, interrupts nothing.
LEMMA UninterruptedDone ==
  ASSUME NEW s \in [Task -> Seq(Frame)], Uninterrupted(s), NEW t \in Task, NEW i \in DOMAIN s[t]
  PROVE  /\ [s EXCEPT ![t][i].done = TRUE] \in [Task -> Seq(Frame)]
         /\ Uninterrupted([s EXCEPT ![t][i].done = TRUE])
<1> DEFINE f == [s[t][i] EXCEPT !.done = TRUE]
           r == [s EXCEPT ![t][i] = f]
<1>1. s[t] \in Seq(Frame)
  OBVIOUS
<1>2. f \in Frame /\ s[t][i] \in Frame
  BY <1>1, FramesTyped
<1>3. f.at = s[t][i].at
  BY <1>2 DEF Frame
<1>4. f.at \notin {"reading", "hook"}
  BY <1>3 DEF Uninterrupted
<1>5. [s EXCEPT ![t][i].done = TRUE] = r
  OBVIOUS
<1> HIDE DEF f
<1>6. r \in [Task -> Seq(Frame)] /\ Uninterrupted(r)
  BY <1>2, <1>4, PutTyped, UninterruptedPut
<1> QED BY <1>5, <1>6

LEMMA UninterruptedAnswer ==
  ASSUME NEW s \in [Task -> Seq(Frame)], Uninterrupted(s), NEW f, f.peer \in Task
  PROVE  Uninterrupted(GiveAnswer(s, f))
BY UninterruptedDone DEF GiveAnswer

\* With no hook and no hot key, no read of the input is interrupted.
LEMMA ReadingKept ==
  ASSUME "hook" \notin Calls, "hotkey" \notin Calls, IInv, NoneReading, Next
  PROVE  NoneReading'
<1>1. stack \in [Task -> Seq(Frame)] /\ Uninterrupted(stack)
  BY DEF NoneReading, IInv, TypeOK
<1>2. SUFFICES Uninterrupted(stack')
  BY DEF NoneReading
<1>3. CASE stack' = stack
  BY <1>1, <1>3
<1>4. ASSUME NEW t \in Task, stack[t] # <<>>, stack' = Pop(stack, t) PROVE Uninterrupted(stack')
  BY <1>1, <1>4, UninterruptedPopped
<1>5. ASSUME NEW t \in Task, NEW f, f.at \notin {"reading", "hook"}, stack' = Push(stack, t, f)
      PROVE  Uninterrupted(stack')
  BY <1>1, <1>5, UninterruptedPushed
<1>7. \A m : AnswerTo(m).at = "answer" /\ SendTo(m).at = "send"
  BY DEF AnswerTo, SendTo
<1>8. \A t \in Task : ~At(t, {"hook"}) /\ ~At(t, {"reading"})
  BY <1>1, TopIn DEF At, Uninterrupted, IInv
<1>9. ASSUME NEW t \in Task, Resume(t) PROVE Uninterrupted(stack')
  <2>1. CASE stack[t] = <<>>
    <3>1. stack' = stack \/ stack' = Pop(stack, t)
      BY <1>9 DEF Resume
    <3>2. DOMAIN Pop(stack, t)[t] = {} /\ \A u \in Task \ {t} : Pop(stack, t)[u] = stack[u]
      BY <1>1, <2>1 DEF Pop
    <3> QED BY <1>1, <1>3, <3>1, <3>2 DEF Uninterrupted
  <2> QED BY <1>3, <1>4, <1>9, <2>1 DEF Resume
<1>10. ASSUME NEW t \in Task, LookFurther(t) PROVE Uninterrupted(stack')
  <2> DEFINE n == Len(stack[t])
             f == Plain("look")
  <2>1. /\ stack[t] # <<>>
        /\ stack' = Pop(stack, t) \/ stack' = [stack EXCEPT ![t][n] = f]
    BY <1>10 DEF LookFurther, Reading, At
  <2>2. n \in DOMAIN stack[t] /\ f.at = "look"
    BY <2>1, TopIn DEF IInv, Plain
  <2>3. n \in DOMAIN stack[t] /\ f.at \notin {"reading", "hook"}
    BY <2>2
  <2> HIDE DEF n, f
  <2>4. CASE stack' = Pop(stack, t)
    BY <1>4, <2>1, <2>4
  <2>5. CASE stack' = [stack EXCEPT ![t][n] = f]
    BY <1>1, <2>3, <2>5, UninterruptedPut
  <2> QED BY <2>1, <2>4, <2>5
<1>11. ASSUME NEW t \in Task, Engine(t) PROVE Uninterrupted(stack')
  <2>1. CASE \/ Start(t) \/ YieldDone(t) \/ SendDone(t) \/ ReadPosted(t) \/ ReadInput(t)
    <3>1. stack[t] # <<>> /\ (stack' = stack \/ stack' = Pop(stack, t))
      BY <2>1 DEF Start, YieldDone, SendDone, ReadPosted, ReadInput, Reading, At
    <3> QED BY <1>3, <1>4, <3>1
  <2>2. CASE TakeNext(t)
    <3> DEFINE f == AnswerTo(Head(sent[t]))
    <3>1. stack' = Push(stack, t, f) /\ f.at = "answer"
      BY <1>7, <2>2 DEF TakeNext
    <3> HIDE DEF f
    <3> QED BY <1>5, <3>1
  <2> QED BY <1>9, <1>10, <1>11, <2>1, <2>2 DEF Engine, ReadThroughHook, ReadHotKey
<1>12. ASSUME NEW u \in Task, Gone(u) PROVE Uninterrupted(stack')
  BY <1>1, <1>12 DEF Gone, Uninterrupted
<1>13. ASSUME NEW t \in Task, NEW u \in Task, Exec(t, u) PROVE Uninterrupted(stack')
  <2> DEFINE f == Plain("start")
             g == Plain("yield")
             r == Push(stack, u, f)
  <2>1. r \in [Task -> Seq(Frame)]
    BY <1>1, PushTyped, FramesTyped
  <2>2. stack' = Push(r, t, g) /\ f.at = "start" /\ g.at = "yield"
    BY <1>13 DEF Exec, Plain
  <2> HIDE DEF f, g
  <2>3. Uninterrupted(r)
    BY <1>1, <2>2, UninterruptedPushed
  <2> HIDE DEF r
  <2> QED BY <2>1, <2>2, <2>3, UninterruptedPushed
<1>14. ASSUME NEW t \in Task, ReturnAnswer(t) PROVE Uninterrupted(stack')
  <2> DEFINE r == Pop(stack, t)
  <2>1. /\ stack[t] # <<>> /\ Top(t).at = "answer"
        /\ stack' = r \/ stack' = GiveAnswer(r, Top(t))
    BY <1>14 DEF ReturnAnswer, At
  <2>2. r \in [Task -> Seq(Frame)] /\ Uninterrupted(r) /\ Top(t).peer \in Task
    BY <1>1, <2>1, PopTyped, UninterruptedPopped, TopIn, AnsweredTask DEF IInv
  <2> HIDE DEF r
  <2> QED BY <2>1, <2>2, UninterruptedAnswer
<1>15. ASSUME NEW t \in Task, Reply(t) PROVE Uninterrupted(stack')
  <2>1. PICK i \in DOMAIN stack[t] :
          /\ stack[t][i].at = "answer"
          /\ stack' = GiveAnswer([stack EXCEPT ![t][i].done = TRUE], stack[t][i])
    BY <1>15 DEF Reply
  <2> DEFINE r == [stack EXCEPT ![t][i].done = TRUE]
  <2>2. r \in [Task -> Seq(Frame)] /\ Uninterrupted(r) /\ stack[t][i].peer \in Task
    BY <1>1, <2>1, UninterruptedDone, AnsweredTask DEF IInv
  <2>3. stack' = GiveAnswer(r, stack[t][i])
    BY <2>1
  <2> HIDE DEF r
  <2> QED BY <2>2, <2>3, UninterruptedAnswer
<1>16. ASSUME NEW t \in Task, Program(t) PROVE Uninterrupted(stack')
  <2>1. CASE GetMessage(t) \/ Yield(t) \/ \E u \in Task : DirectedYield(t, u) \/ Send(t, u)
    <3>1. PICK f : f.at \in Taking /\ stack' = Push(stack, t, f)
      <4>1. stack' = Push(stack, t, Plain("look")) \/ stack' = Push(stack, t, Plain("yield"))
              \/ \E u \in Task : stack' = Push(stack, t, SendTo(u))
        BY <2>1 DEF GetMessage, Yield, DirectedYield, Send
      <4>2. Plain("look").at = "look" /\ Plain("yield").at = "yield"
        BY DEF Plain
      <4> QED BY <1>7, <4>1, <4>2 DEF Taking
    <3> QED BY <1>5, <3>1 DEF Taking
  <2>2. CASE BeginPaint(t) \/ Lock(t) \/ \E u \in Task : Post(t, u) \/ Invalidate(t, u)
    BY <1>3, <2>2 DEF BeginPaint, Lock, Post, Invalidate
  <2> QED BY <1>8, <1>12, <1>13, <1>14, <1>15, <1>16, <2>1, <2>2
          DEF Program, HookReturn, Exit, Terminate
<1>17. ASSUME NEW u \in Task, TimeComes(u) \/ HostInput(u) \/ Launch(u)
       PROVE  Uninterrupted(stack')
  <2>1. CASE TimeComes(u) \/ HostInput(u)
    BY <1>3, <2>1 DEF TimeComes, HostInput
  <2>2. CASE Launch(u)
    <3> DEFINE f == Plain("start")
    <3>1. stack' = Push(stack, u, f) /\ f.at = "start"
      BY <2>2 DEF Launch, Plain
    <3> HIDE DEF f
    <3> QED BY <1>5, <3>1
  <2> QED BY <1>17, <2>1, <2>2
<1> QED BY <1>11, <1>16, <1>17 DEF Next, Host

\* No task sleeps in GetMessage over a message posted to it, unless the read
\* of the input was interrupted after it looked at what was posted: by a hook,
\* or a hot key, which is the machine's own (tasks_hotkey) (queue.rs: look;
\* engine.rs: wait_for_wake).
THEOREM PostedSeen ==
  ASSUME "hook" \notin Calls, "hotkey" \notin Calls
  PROVE  Spec => []NoSleepOverPosted
<1> DEFINE J == NoneReading /\ NoSleepOverPosted
<1>1. Init => J
  <2> SUFFICES ASSUME Init PROVE J
    OBVIOUS
  <2>1. \A u \in Task : stack[u] = <<>> /\ wait[u] = "Running"
    BY DEF Init
  <2> QED BY <2>1 DEF NoneReading, Uninterrupted, NoSleepOverPosted, Asleep, Live
<1>2. IInv /\ CallsInv /\ J /\ [Next]_vars => J'
  <2>1. ASSUME IInv, CallsInv, J, Next PROVE NoSleepOverPosted'
    <3> SUFFICES ASSUME NEW v \in Task, life'[v] = "live", Asleep(wait', v),
                        Inner(stack', v).at = "look"
                 PROVE  posted'[v] = 0
      BY DEF NoSleepOverPosted, Live, Top, Inner, Asleep
    <3>1. CASE v \in Live /\ Asleep(wait, v) /\ Inner(stack', v).at = Inner(stack, v).at
      <4>1. posted[v] = 0
        BY <2>1, <3>1 DEF NoSleepOverPosted, Top, Inner
      <4> QED BY <2>1, <4>1, PostedAwake
    <3>2. CASE ToSleep(v)
      <4>1. Reading(v) /\ posted' = posted
        BY <3>2 DEF ToSleep
      <4>2. ~At(v, {"reading"})
        BY <2>1, TopIn DEF At, NoneReading, Uninterrupted, IInv
      <4> QED BY <4>1, <4>2 DEF Reading
    <3> QED BY <2>1, <3>1, <3>2, SleptBefore
  <2>2. ASSUME J, UNCHANGED vars PROVE J'
    BY <2>2 DEF vars, NoneReading, Uninterrupted, NoSleepOverPosted, Live, Top, Asleep
  <2> QED BY <2>1, <2>2, ReadingKept
<1>3. J => NoSleepOverPosted
  OBVIOUS
<1> HIDE DEF J
<1> QED BY <1>1, <1>2, <1>3, InductiveInvariant, CallsInvariant, PTL DEF Spec

\* With nobody running, no task sleeps in GetMessage over a window due to be
\* painted, unless a program ended: the processor is given up every other way
\* with those that have one woken (tasks_exit_paint) (raster_input.rs:
\* wake_except).
THEOREM PaintSeen ==
  ASSUME "exit" \notin Calls
  PROVE  Spec => []NoSleepOverPaint
<1>1. Init => NoSleepOverPaint
  BY TaskAssumption DEF Init, NoSleepOverPaint
<1>2. IInv /\ CallsInv /\ NoSleepOverPaint /\ [Next]_vars => NoSleepOverPaint'
  <2>1. ASSUME IInv, CallsInv, NoSleepOverPaint, Next PROVE NoSleepOverPaint'
    <3> SUFFICES ASSUME current' = None, NEW v \in Task, life'[v] = "live", Asleep(wait', v),
                        Inner(stack', v).at = "look"
                 PROVE  ~paint'[v]
      BY DEF NoSleepOverPaint, Live, Top, Inner, Asleep
    <3>1. CASE Host /\ v \in Live /\ Asleep(wait, v) /\ Inner(stack', v).at = Inner(stack, v).at
      <4>1. current = None /\ paint' = paint
        BY <2>1, <3>1, HostStep
      <4> QED BY <2>1, <3>1, <4>1 DEF NoSleepOverPaint, Top, Inner
    <3>2. ASSUME NEW t \in Task, v # t, current = t, Turn(t), v \in Live PROVE ~paint'[v]
      <4>1. current' # t
        BY TaskAssumption
      <4> QED BY <3>2, <4>1 DEF Turn, DueWoken
    <3>3. CASE ToSleep(v)
      BY <3>3 DEF ToSleep
    <3> QED BY <2>1, <3>1, <3>2, <3>3, SleptBefore
  <2>2. ASSUME NoSleepOverPaint, UNCHANGED vars PROVE NoSleepOverPaint'
    BY <2>2 DEF vars, NoSleepOverPaint, Live, Top, Asleep
  <2> QED BY <2>1, <2>2
<1> QED BY <1>1, <1>2, InductiveInvariant, CallsInvariant, PTL DEF Spec

-----------------------------------------------------------------------------
(* What was sent.                                                          *)

LEMMA SentChanges ==
  ASSUME Next
  PROVE  \/ sent' = sent
         \/ \E t \in Task : TakeNext(t) \/ \E u \in Task : Send(t, u)
<1>1. ASSUME NEW t \in Task, Engine(t) PROVE sent' = sent \/ TakeNext(t)
  BY <1>1 DEF Engine, Start, Resume, YieldDone, SendDone, ReadPosted, ReadInput, ReadThroughHook,
              LookFurther, ReadHotKey
<1>2. ASSUME NEW t \in Task, Program(t) PROVE sent' = sent \/ \E u \in Task : Send(t, u)
  BY <1>2 DEF Program, GetMessage, ReturnAnswer, HookReturn, Reply, Yield, BeginPaint, Lock, Exit,
              DirectedYield, Exec, Post, Invalidate, Terminate, Gone
<1>3. Host => sent' = sent
  BY DEF Host, TimeComes, HostInput, Launch
<1> QED BY <1>1, <1>2, <1>3 DEF Next

LEMMA StillUnmade ==
  ASSUME IInv, Next, NEW v \in Task, life'[v] = "unmade"
  PROVE  life[v] = "unmade"
<1>1. ASSUME NEW u \in Task, Made(u) \/ Gone(u) PROVE life[v] = "unmade"
  BY <1>1 DEF Made, Gone, IInv, TypeOK
<1>2. ASSUME NEW t \in Task, Engine(t) PROVE life' = life
  BY <1>2 DEF Engine, Start, Resume, TakeNext, YieldDone, SendDone, ReadPosted, ReadInput,
              ReadThroughHook, LookFurther, ReadHotKey
<1>3. ASSUME NEW t \in Task, Program(t)
      PROVE  life' = life \/ \E u \in Task : Made(u) \/ Gone(u)
  BY <1>3 DEF Program, GetMessage, ReturnAnswer, HookReturn, Reply, Yield, BeginPaint, Lock, Exit,
              Send, DirectedYield, Exec, Post, Invalidate, Terminate
<1>4. Host => life' = life \/ \E u \in Task : Made(u)
  BY DEF Host, TimeComes, HostInput, Launch
<1> QED BY <1>1, <1>2, <1>3, <1>4 DEF Next

LEMMA NeverLocked ==
  ASSUME "lock" \notin Calls, Next
  PROVE  locked' = locked
<1>1. ASSUME NEW t \in Task, Engine(t) PROVE locked' = locked
  BY <1>1 DEF Engine, Start, Resume, TakeNext, YieldDone, SendDone, ReadPosted, ReadInput,
              ReadThroughHook, LookFurther, ReadHotKey
<1>2. ASSUME NEW t \in Task, Program(t) PROVE locked' = locked
  BY <1>2 DEF Program, GetMessage, ReturnAnswer, HookReturn, Reply, Yield, BeginPaint, Lock, Exit,
              Send, DirectedYield, Exec, Post, Invalidate, Terminate, Gone, Makes
<1>3. Host => locked' = locked
  BY DEF Host, TimeComes, HostInput, Launch
<1> QED BY <1>1, <1>2, <1>3 DEF Next

\* A task with a message to take comes to itself and takes it, and nothing else.
LEMMA PendingTakes ==
  ASSUME NEW t \in Task, Engine(t) \/ Program(t), sent[t] # <<>>, stack[t] # <<>>,
         Inner(stack, t).at \in Taking
  PROVE  Resume(t) \/ TakeNext(t)
<1>1. Top(t) = Inner(stack, t)
  BY DEF Top, Inner
<1>2. ~InGuest(t)
  BY <1>1 DEF InGuest, Taking
<1>3. ~At(t, {"start"}) /\ ~At(t, {"answer"}) /\ ~At(t, {"hook"}) /\ ~Reading(t)
  BY <1>1 DEF At, Taking, Reading
<1>4. ~Program(t)
  BY <1>2, <1>3 DEF Program, GetMessage, ReturnAnswer, HookReturn, Reply, Yield, BeginPaint, Lock,
                    Exit, Send, DirectedYield, Exec, Post, Invalidate, Terminate, Makes
<1>5. ~Start(t) /\ ~YieldDone(t) /\ ~SendDone(t) /\ ~ReadPosted(t) /\ ~ReadInput(t)
      /\ ~ReadThroughHook(t) /\ ~LookFurther(t) /\ \A u \in Task : ~ReadHotKey(t, u)
  BY <1>3 DEF Start, YieldDone, SendDone, ReadPosted, ReadInput, ReadThroughHook, LookFurther,
              ReadHotKey
<1> QED BY <1>4, <1>5 DEF Engine

\* A task woken while it does not sleep is as it was.
LEMMA AwakeStays ==
  ASSUME NEW u \in Task, NEW v \in Task, wait[v] = "Running"
  PROVE  Woken(wait, {u})[v] = "Running"
BY DEF Woken, Asleep

LEMMA OutOfTurnKept ==
  ASSUME "reply" \notin Calls, IInv, CallsInv, SentInv, Next,
         NEW v \in Task, life'[v] = "live", v # current'
  PROVE  /\ stack'[v] # <<>>
         /\ Inner(stack', v).at \in Taking \cup {"start"}
         /\ Answered(stack', v) => wait'[v] = "Running"
<1>1. CASE v \notin Live
  <2>1. stack'[v] # <<>> /\ Inner(stack', v).at = "start"
    BY <1>1, MadeFresh DEF CallsInv
  <2> QED BY <2>1 DEF Answered
<1>2. ASSUME v \in Live, v # current, stack'[v] = stack[v],
             wait[v] = "Running" => wait'[v] = "Running"
      PROVE  /\ stack'[v] # <<>>
             /\ Inner(stack', v).at \in Taking \cup {"start"}
             /\ Answered(stack', v) => wait'[v] = "Running"
  BY <1>2 DEF SentInv, OutOfTurn, Answered, Inner
<1>3. CASE v \in Live /\ Host
  <2>1. /\ current # None => current' = current
        /\ stack'[v] = stack[v]
        /\ wait' = wait \/ \E u \in Task : wait' = Woken(wait, {u})
    BY <1>3, HostStep
  <2>2. v # current
    BY <2>1, TaskAssumption
  <2>3. wait[v] = "Running" => wait'[v] = "Running"
    BY <2>1, AwakeStays
  <2> QED BY <1>2, <1>3, <2>1, <2>2, <2>3
<1>4. ASSUME NEW t \in Task, Engine(t) \/ Program(t), v \in Live
      PROVE  /\ stack'[v] # <<>>
             /\ Inner(stack', v).at \in Taking \cup {"start"}
             /\ Answered(stack', v) => wait'[v] = "Running"
  <2>1. current = t /\ Turn(t) /\ ~Reply(t)
    BY <1>4, EngineTurn, ProgramTurn DEF Reply, Makes
  <2>2. CASE v = t
    BY <2>1, <2>2 DEF Turn, LeftTaking
  <2>3. CASE v # t
    <3>1. ~HandBack(t, v)
      BY <1>4, <2>1, <2>3, HandedBackRuns, TaskAssumption DEF SentInv, Live
    <3>2. stack'[v] = stack[v]
      BY <1>4, <2>3, <3>1, EngineKeepsFrames, ProgramKeepsFrames DEF FramesKept
    <3>3. wait[v] = "Running" => wait'[v] = "Running"
      BY <2>1, <2>3 DEF Turn, OthersWoken, Asleep
    <3> QED BY <1>2, <1>4, <2>1, <2>3, <3>2, <3>3
  <2> QED BY <2>2, <2>3
<1> QED BY <1>1, <1>3, <1>4 DEF Next

LEMMA TailOfOne ==
  ASSUME NEW S, NEW s \in Seq(S), Len(s) = 1
  PROVE  Tail(s) = <<>>
<1>1. s # <<>>
  OBVIOUS
<1>2. Tail(s) \in Seq(S) /\ Len(Tail(s)) = Len(s) - 1
  BY <1>1, HeadTailProperties
<1> DEFINE r == Tail(s)
<1>3. r \in Seq(S) /\ Len(r) = 0
  BY <1>2
<1> HIDE DEF r
<1>4. r = <<>>
  BY <1>3
<1> QED BY <1>4 DEF r

LEMMA PendingKept ==
  ASSUME "reply" \notin Calls, IInv, CallsInv, SentInv, Next,
         NEW v \in Task, life'[v] = "live", sent'[v] # <<>>
  PROVE  /\ v = current'
         /\ Len(sent'[v]) = 1
         /\ stack'[v] # <<>>
         /\ Inner(stack', v).at \in Taking
         /\ Answered(stack', v) => wait'[v] = "Running"
<1> DEFINE Goal == /\ v = current'
                   /\ Len(sent'[v]) = 1
                   /\ stack'[v] # <<>>
                   /\ Inner(stack', v).at \in Taking
                   /\ Answered(stack', v) => wait'[v] = "Running"
<1>0. /\ stack \in [Task -> Seq(Frame)] /\ sent \in [Task -> Seq(Message)]
      /\ locked \notin Live
  BY TaskAssumption DEF IInv, TypeOK, SentInv, Live
<1>1. v \in Live
  <2> SUFFICES ASSUME v \notin Live PROVE FALSE
    OBVIOUS
  <2>1. life[v] = "unmade" /\ sent' = sent
    BY MadeFresh DEF CallsInv
  <2> QED BY <2>1 DEF SentInv, NoneYetSent
<1>2. sent[v] # <<>> =>
        /\ v = current
        /\ Len(sent[v]) = 1
        /\ stack[v] # <<>>
        /\ Inner(stack, v).at \in Taking
        /\ Answered(stack, v) => wait[v] = "Running"
  BY <1>1 DEF SentInv, PendingRuns
<1>3. CASE sent' = sent
  <2>1. CASE Host
    <3>1. /\ current' = current /\ stack'[v] = stack[v]
          /\ wait' = wait \/ \E u \in Task : wait' = Woken(wait, {u})
      BY <1>1, <1>2, <1>3, <2>1, HostStep, TaskAssumption
    <3>2. wait[v] = "Running" => wait'[v] = "Running"
      BY <3>1, AwakeStays
    <3> QED BY <1>2, <1>3, <3>1, <3>2 DEF Inner, Answered
  <2>2. ASSUME NEW t \in Task, Engine(t) \/ Program(t) PROVE Goal
    <3>1. t = v
      BY <1>2, <1>3, <2>2, EngineTurn, ProgramTurn
    <3>2. Resume(v)
      <4>1. Resume(v) \/ TakeNext(v)
        BY <1>2, <1>3, <2>2, <3>1, PendingTakes
      <4>2. TakeNext(v) => sent'[v] = Tail(sent[v])
        BY <1>0 DEF TakeNext
      <4>3. sent[v] \in Seq(Message) /\ Len(sent[v]) = 1
        BY <1>0, <1>2, <1>3
      <4>4. Tail(sent[v]) = <<>>
        BY <4>3, TailOfOne
      <4> QED BY <1>3, <4>1, <4>2, <4>4
    <3>3. ~Answered(stack, v) /\ Top(v) = Inner(stack, v)
      BY <1>2, <1>3, <3>2 DEF Resume, Top, Inner
    <3>4. stack' = stack /\ current' = v /\ wait' = [wait EXCEPT ![v] = "Running"]
      BY <3>2, <3>3 DEF Resume, Answered
    <3>5. wait'[v] = "Running"
      BY <3>4 DEF IInv, TypeOK
    <3> QED BY <1>2, <1>3, <3>4, <3>5
  <2> QED BY <2>1, <2>2 DEF Next
<1>4. ASSUME NEW t \in Task, TakeNext(t) PROVE Goal
  <2>1. current = t /\ sent' = [sent EXCEPT ![t] = Tail(@)]
    BY <1>4 DEF TakeNext, At
  <2>2. CASE v # t
    BY <1>0, <1>2, <2>1, <2>2
  <2>3. CASE v = t
    <3>1. sent'[v] = Tail(sent[v]) /\ sent[v] # <<>> /\ sent[v] \in Seq(Message)
      BY <1>0, <1>4, <2>1, <2>3 DEF TakeNext
    <3>2. Tail(sent[v]) = <<>>
      BY <1>2, <3>1, TailOfOne
    <3> QED BY <3>1, <3>2
  <2> QED BY <2>2, <2>3
<1>5. ASSUME NEW t \in Task, NEW u \in Task, Send(t, u) PROVE Goal
  <2> DEFINE m == [from |-> t, depth |-> Len(stack[t]) + 1]
  <2>1. /\ InGuest(t) /\ current = t /\ u # t /\ HasRun(u)
        /\ sent' = [sent EXCEPT ![u] = Append(@, m)]
        /\ stack' = Push(stack, t, SendTo(u))
        /\ Program(t)
    BY <1>5 DEF Send, Makes, InGuest, Program
  <2> HIDE DEF m
  <2>2. CASE v # u
    <3>1. sent'[v] = sent[v]
      BY <1>0, <2>1, <2>2
    <3>2. v = t /\ stack[t] # <<>> /\ Inner(stack, t).at \in Taking
      BY <1>2, <2>1, <3>1
    <3> QED BY <2>1, <3>2 DEF InGuest, Inner, Top, Taking
  <2>3. CASE v = u
    <3>1. sent[u] = <<>> /\ sent'[u] = Append(sent[u], m)
      BY <1>0, <1>2, <2>1, <2>3
    <3>2. Len(sent'[u]) = 1
      BY <3>1
    <3>3. current' = u
      BY <1>0, <1>5, SentToRuns
    <3>4. /\ stack[u] # <<>>
          /\ Inner(stack, u).at \in Taking \cup {"start"}
          /\ Answered(stack, u) => wait[u] = "Running"
      BY <1>1, <2>1, <2>3 DEF SentInv, OutOfTurn
    <3>5. Inner(stack, u).at # "start"
      <4> DEFINE n == Len(stack[u])
      <4>1. n \in DOMAIN stack[u]
        BY <1>0, <3>4
      <4> HIDE DEF n
      <4>2. stack[u][n].at = "start" => n = 1
        BY <4>1 DEF CallsInv, Shaped
      <4> QED BY <2>1, <3>4, <4>2 DEF HasRun, Inner, n
    <3>6. stack'[u] = stack[u]
      BY <1>0, <2>1 DEF Push
    <3>7. wait[u] = "Running" => wait'[u] = "Running"
      BY <2>1, ProgramTurn DEF Turn, OthersWoken, Asleep
    <3> QED BY <2>3, <3>2, <3>3, <3>4, <3>5, <3>6, <3>7 DEF Inner, Answered
  <2> QED BY <2>2, <2>3
<1> QED BY <1>3, <1>4, <1>5, SentChanges

LEMMA SentInvKept ==
  ASSUME "reply" \notin Calls, "lock" \notin Calls, IInv, CallsInv, SentInv, Next
  PROVE  SentInv'
<1>1. locked' = None
  BY NeverLocked DEF SentInv
<1>2. PendingRuns'
  BY PendingKept DEF PendingRuns, Live, Inner, Answered
<1>3. OutOfTurn'
  BY OutOfTurnKept DEF OutOfTurn, Live, Inner, Answered
<1>4. NoneYetSent'
  <2> SUFFICES ASSUME NEW v \in Task, life'[v] = "unmade" PROVE sent'[v] = <<>>
    BY DEF NoneYetSent
  <2>1. life[v] = "unmade" /\ sent[v] = <<>>
    BY StillUnmade DEF SentInv, NoneYetSent
  <2>2. ASSUME NEW t \in Task, TakeNext(t) PROVE sent'[v] = sent[v]
    BY <2>1, <2>2 DEF TakeNext, IInv, TypeOK
  <2>3. ASSUME NEW t \in Task, NEW u \in Task, Send(t, u) PROVE sent'[v] = sent[v]
    BY <2>1, <2>3 DEF Send, HasRun, Live, IInv, TypeOK
  <2> QED BY <2>1, <2>2, <2>3, SentChanges
<1> QED BY <1>1, <1>2, <1>3, <1>4 DEF SentInv

\* Where none replies before it returns and none locks the processor, what is
\* sent and not yet taken is alone, at the task that runs.
THEOREM SentInvariant ==
  ASSUME "reply" \notin Calls, "lock" \notin Calls
  PROVE  Spec => []SentInv
<1>1. Init => SentInv
  BY DEF Init, SentInv, PendingRuns, OutOfTurn, NoneYetSent, Live
<1>2. IInv /\ CallsInv /\ SentInv /\ [Next]_vars => SentInv'
  <2>1. ASSUME SentInv, UNCHANGED vars PROVE SentInv'
    BY <2>1 DEF vars, SentInv, PendingRuns, OutOfTurn, NoneYetSent, Live, Inner, Answered
  <2> QED BY <2>1, SentInvKept
<1> QED BY <1>1, <1>2, InductiveInvariant, CallsInvariant, PTL DEF Spec

\* No task sleeps over a message sent to it, nor over the answer to the one it
\* sent: a task sent to runs next and takes what was sent before anything
\* else.  ReplyMessage breaks that, for its task goes on with its procedure
\* when it runs again; and so does a lock, that keeps another from running
\* (tasks.rs: send_across, take_sent).
THEOREM SentSeen ==
  ASSUME "reply" \notin Calls, "lock" \notin Calls
  PROVE  Spec => []NoSleepOverSent
<1>1. IInv /\ SentInv => NoSleepOverSent
  <2> SUFFICES ASSUME IInv, SentInv, NEW u \in Live, Asleep(wait, u)
               PROVE  sent[u] = <<>> /\ (Top(u).at = "send" => ~Top(u).done)
    BY DEF NoSleepOverSent
  <2>1. u # current /\ wait[u] # "Running"
    BY DEF IInv, OneTurnEach, Asleep
  <2> QED BY <2>1 DEF SentInv, PendingRuns, OutOfTurn, Answered, Inner, Top
<1> QED BY <1>1, InductiveInvariant, SentInvariant, PTL

\* Two tasks never have a message each queued for the other, in the same
\* instances (tasks.rs: send_across, "never cross").
THEOREM SendsNeverCross ==
  ASSUME "reply" \notin Calls, "lock" \notin Calls
  PROVE  Spec => []NeverCross
<1>1. IInv /\ CallsInv /\ SentInv => NeverCross
  <2> SUFFICES ASSUME IInv, CallsInv, SentInv, NEW t \in Live, NEW u \in Live,
                      NEW i \in DOMAIN sent[t], sent[t][i].from = u,
                      NEW j \in DOMAIN sent[u], sent[u][j].from = t
               PROVE  FALSE
    BY DEF NeverCross
  <2>1. t \in Task /\ sent[t] \in Seq(Message) /\ sent[t] # <<>> /\ sent[u] # <<>>
    BY DEF Live, IInv, TypeOK
  <2>2. t = current /\ u = current
    BY <2>1 DEF SentInv, PendingRuns
  <2>3. i \in Nat /\ sent[t][i].depth \in Nat
    <3>1. i \in Nat /\ sent[t][i] \in Message
      BY <2>1
    <3> QED BY <3>1 DEF Message
  <2>4. QueuedAt(sent, t, i, t, sent[t][i].depth)
    BY <2>2 DEF QueuedAt
  <2> QED BY <2>1, <2>3, <2>4 DEF CallsInv, CallsPlaced, AllAwaited, FromSender
<1> QED BY <1>1, InductiveInvariant, CallsInvariant, SentInvariant, PTL
-----------------------------------------------------------------------------
(* The refinement: the tasks' calls, read off their stacks, as SendCall's. *)

\* Above a call that its task still makes lies only what the task took while
\* it waits; and only a procedure of a message taken, or a future not begun,
\* lies deeper than a program may call.
Nested(s) ==
  \A u \in Task :
    /\ Len(s[u]) <= MaxDepth + 1
    /\ Len(s[u]) = MaxDepth + 1 => s[u][Len(s[u])].at \in {"answer", "start"}
    /\ \A i \in DOMAIN s[u] :
         i > 1 /\ s[u][i - 1].at = "send" => s[u][i].at = "answer"

\* A frame the mapping reads: a call's, or that of a message taken.
CallFrame(s, u, i) == i \in DOMAIN s[u] /\ s[u][i].at \in {"send", "answer"}

\* From the stacks s to r nothing the mapping reads changes but at t's place d.
ChangedAt(s, r, t, d) ==
  \A u \in Task : \A i \in Nat : u # t \/ i # d =>
    /\ CallFrame(r, u, i) <=> CallFrame(s, u, i)
    /\ CallFrame(s, u, i) => r[u][i] = s[u][i]

\* Nothing the mapping reads changes at all.
SameCalls(s, r) ==
  \A u \in Task : \A i \in Nat :
    /\ CallFrame(r, u, i) <=> CallFrame(s, u, i)
    /\ CallFrame(s, u, i) => r[u][i] = s[u][i]

-----------------------------------------------------------------------------
(* What the mapping reads off the stacks.                                  *)

\* An answer noted in a frame of the stacks s; in a message as the mapping
\* reads it; and the calls or the messages of s with what is at one place put
\* in another's stead.
DoneAt(s, t, i) == [s EXCEPT ![t][i].done = TRUE]
Replied(m) == [m EXCEPT !.replied = TRUE]
CallsPut(s, t, d, c) == [CallsOn(s) EXCEPT ![t][d] = c]
AnswersPut(s, t, A) == [AnswersOn(s) EXCEPT ![t] = A]

LEMMA AnswersRead ==
  ASSUME NEW s, NEW t \in Task, NEW m
  PROVE  m \in AnswersOn(s)[t] <=>
           \E i \in DOMAIN s[t] : s[t][i].at = "answer" /\ m = AnswerAt(s, t, i)
BY DEF AnswersOn

LEMMA CallsRead ==
  ASSUME NEW s, NEW t \in Task, NEW d \in Depths
  PROVE  CallsOn(s)[t][d] = CallAt(s, t, d)
BY DEF CallsOn

\* Of two stacks that differ for the mapping in one place at most, the calls;
\* and the messages handled.
LEMMA CallsMapped ==
  ASSUME NEW s \in [Task -> Seq(Frame)], NEW r \in [Task -> Seq(Frame)],
         NEW t \in Task, NEW d \in Depths, ChangedAt(s, r, t, d)
  PROVE  CallsOn(r) = CallsPut(s, t, d, CallAt(r, t, d))
<1>1. Depths \subseteq Nat
  BY BoundAssumption DEF Depths
<1>2. \A u \in Task : \A e \in Depths :
        u # t \/ e # d => CallAt(r, u, e) = CallAt(s, u, e)
  BY <1>1 DEF ChangedAt, CallFrame, CallAt
<1> QED BY <1>2, Zenon DEF CallsOn, CallsPut

LEMMA AnswersMapped ==
  ASSUME NEW s \in [Task -> Seq(Frame)], NEW r \in [Task -> Seq(Frame)],
         NEW t \in Task, NEW d \in Nat, ChangedAt(s, r, t, d)
  PROVE  /\ \A u \in Task \ {t} : AnswersOn(r)[u] = AnswersOn(s)[u]
         /\ \A m : m \in AnswersOn(r)[t] <=>
              \/ m \in AnswersOn(s)[t] /\ m.at # d
              \/ CallFrame(r, t, d) /\ r[t][d].at = "answer" /\ m = AnswerAt(r, t, d)
<1>1. \A u \in Task : DOMAIN s[u] \subseteq Nat /\ DOMAIN r[u] \subseteq Nat
  <2> SUFFICES ASSUME NEW u \in Task
               PROVE  DOMAIN s[u] \subseteq Nat /\ DOMAIN r[u] \subseteq Nat
    OBVIOUS
  <2>1. s[u] \in Seq(Frame) /\ r[u] \in Seq(Frame)
    OBVIOUS
  <2> QED BY <2>1
<1>2. ASSUME NEW u \in Task, NEW i \in Nat, u # t \/ i # d
      PROVE  /\ i \in DOMAIN r[u] /\ r[u][i].at = "answer"
                  <=> i \in DOMAIN s[u] /\ s[u][i].at = "answer"
             /\ i \in DOMAIN s[u] /\ s[u][i].at = "answer" =>
                  AnswerAt(r, u, i) = AnswerAt(s, u, i)
  BY <1>2 DEF ChangedAt, CallFrame, AnswerAt
<1>3. ASSUME NEW u \in Task \ {t} PROVE AnswersOn(r)[u] = AnswersOn(s)[u]
  <2>1. ASSUME NEW m PROVE m \in AnswersOn(r)[u] <=> m \in AnswersOn(s)[u]
    <3>1. m \in AnswersOn(r)[u] <=>
            \E i \in DOMAIN r[u] : r[u][i].at = "answer" /\ m = AnswerAt(r, u, i)
      BY AnswersRead
    <3>2. m \in AnswersOn(s)[u] <=>
            \E i \in DOMAIN s[u] : s[u][i].at = "answer" /\ m = AnswerAt(s, u, i)
      BY AnswersRead
    <3> QED BY <1>1, <1>2, <3>1, <3>2
  <2> QED BY <2>1 DEF AnswersOn
<1>4. ASSUME NEW m
      PROVE  m \in AnswersOn(r)[t] <=>
              \/ m \in AnswersOn(s)[t] /\ m.at # d
              \/ CallFrame(r, t, d) /\ r[t][d].at = "answer" /\ m = AnswerAt(r, t, d)
  <2>1. m \in AnswersOn(r)[t] <=>
          \E i \in DOMAIN r[t] : r[t][i].at = "answer" /\ m = AnswerAt(r, t, i)
    BY AnswersRead
  <2>2. m \in AnswersOn(s)[t] <=>
          \E i \in DOMAIN s[t] : s[t][i].at = "answer" /\ m = AnswerAt(s, t, i)
    BY AnswersRead
  <2>3. \A i : AnswerAt(s, t, i).at = i /\ AnswerAt(r, t, i).at = i
    BY DEF AnswerAt
  <2>4. CallFrame(r, t, d) /\ r[t][d].at = "answer" <=> d \in DOMAIN r[t] /\ r[t][d].at = "answer"
    BY DEF CallFrame
  <2> QED BY <1>1, <1>2, <2>1, <2>2, <2>3, <2>4
<1> QED BY <1>3, <1>4

LEMMA AnswersEqual ==
  ASSUME NEW s, NEW r, \A u \in Task : AnswersOn(r)[u] = AnswersOn(s)[u]
  PROVE  AnswersOn(r) = AnswersOn(s)
<1>1. /\ AnswersOn(r) = [u \in Task |-> AnswersOn(r)[u]]
      /\ AnswersOn(s) = [u \in Task |-> AnswersOn(s)[u]]
  BY DEF AnswersOn
<1> QED BY <1>1, Zenon

LEMMA CallsSame ==
  ASSUME NEW s, NEW t \in Task, NEW d \in Depths
  PROVE  CallsPut(s, t, d, CallsOn(s)[t][d]) = CallsOn(s)
BY DEF CallsOn, CallsPut

LEMMA AnswersChanged ==
  ASSUME NEW s, NEW r, NEW t \in Task,
         \A u \in Task \ {t} : AnswersOn(r)[u] = AnswersOn(s)[u]
  PROVE  AnswersOn(r) = AnswersPut(s, t, AnswersOn(r)[t])
<1> DEFINE a == AnswersOn(r)
           b == AnswersOn(s)
<1>1. a = [u \in Task |-> a[u]] /\ b = [u \in Task |-> b[u]]
  BY DEF AnswersOn
<1>2. \A u \in Task \ {t} : a[u] = b[u]
  OBVIOUS
<1> HIDE DEF a, b
<1>3. a = [b EXCEPT ![t] = a[t]]
  BY <1>1, <1>2
<1> QED BY <1>3 DEF a, b, AnswersPut

LEMMA SameMapped ==
  ASSUME NEW s \in [Task -> Seq(Frame)], NEW r \in [Task -> Seq(Frame)], SameCalls(s, r)
  PROVE  CallsOn(r) = CallsOn(s) /\ AnswersOn(r) = AnswersOn(s)
<1>1. Depths \subseteq Nat
  BY BoundAssumption DEF Depths
<1>2. \A u \in Task : \A e \in Depths : CallAt(r, u, e) = CallAt(s, u, e)
  BY <1>1 DEF SameCalls, CallFrame, CallAt
<1>3. CallsOn(r) = CallsOn(s)
  BY <1>2, Zenon DEF CallsOn
<1>4. \A u \in Task : DOMAIN s[u] \subseteq Nat /\ DOMAIN r[u] \subseteq Nat
  <2> SUFFICES ASSUME NEW u \in Task
               PROVE  DOMAIN s[u] \subseteq Nat /\ DOMAIN r[u] \subseteq Nat
    OBVIOUS
  <2>1. s[u] \in Seq(Frame) /\ r[u] \in Seq(Frame)
    OBVIOUS
  <2> QED BY <2>1
<1>5. ASSUME NEW u \in Task, NEW i \in Nat
      PROVE  /\ i \in DOMAIN r[u] /\ r[u][i].at = "answer"
                  <=> i \in DOMAIN s[u] /\ s[u][i].at = "answer"
             /\ i \in DOMAIN s[u] /\ s[u][i].at = "answer" =>
                  AnswerAt(r, u, i) = AnswerAt(s, u, i)
  BY <1>5 DEF SameCalls, CallFrame, AnswerAt
<1>6. ASSUME NEW u \in Task PROVE AnswersOn(r)[u] = AnswersOn(s)[u]
  <2>1. ASSUME NEW m PROVE m \in AnswersOn(r)[u] <=> m \in AnswersOn(s)[u]
    <3>1. m \in AnswersOn(r)[u] <=>
            \E i \in DOMAIN r[u] : r[u][i].at = "answer" /\ m = AnswerAt(r, u, i)
      BY AnswersRead
    <3>2. m \in AnswersOn(s)[u] <=>
            \E i \in DOMAIN s[u] : s[u][i].at = "answer" /\ m = AnswerAt(s, u, i)
      BY AnswersRead
    <3> QED BY <1>4, <1>5, <3>1, <3>2
  <2> QED BY <2>1 DEF AnswersOn
<1>7. AnswersOn(r) = AnswersOn(s)
  BY <1>6, AnswersEqual
<1> QED BY <1>3, <1>7

\* What changes in one place that the mapping reads on neither stack is nothing.
LEMMA UnreadChange ==
  ASSUME NEW s, NEW r, NEW t \in Task, NEW d \in Nat, ChangedAt(s, r, t, d),
         ~CallFrame(s, t, d), ~CallFrame(r, t, d)
  PROVE  SameCalls(s, r)
BY DEF ChangedAt, SameCalls

\* What a push, a pop, and a frame put in another's place change.
LEMMA PushChanges ==
  ASSUME NEW s \in [Task -> Seq(Frame)], NEW t \in Task, NEW f
  PROVE  /\ ChangedAt(s, Push(s, t, f), t, Len(s[t]) + 1)
         /\ (f.at \notin {"send", "answer"} => SameCalls(s, Push(s, t, f)))
<1> DEFINE r == Push(s, t, f)
           n == Len(s[t])
<1>1. /\ n \in Nat /\ DOMAIN s[t] = 1 .. n /\ DOMAIN r[t] = 1 .. n + 1
      /\ \A i \in DOMAIN s[t] : r[t][i] = s[t][i]
      /\ r[t][n + 1] = f
      /\ \A u \in Task \ {t} : r[u] = s[u]
  BY Pushed
<1> HIDE DEF r, n
<1>2. ChangedAt(s, r, t, n + 1)
  BY <1>1 DEF ChangedAt, CallFrame
<1>3. ASSUME f.at \notin {"send", "answer"} PROVE SameCalls(s, r)
  <2>1. n + 1 \in Nat /\ ~CallFrame(s, t, n + 1) /\ ~CallFrame(r, t, n + 1)
    BY <1>1, <1>3 DEF CallFrame
  <2> QED BY <1>2, <2>1, UnreadChange
<1> QED BY <1>2, <1>3 DEF r, n

LEMMA PopChanges ==
  ASSUME NEW s \in [Task -> Seq(Frame)], NEW t \in Task, s[t] # <<>>
  PROVE  /\ ChangedAt(s, Pop(s, t), t, Len(s[t]))
         /\ ~CallFrame(Pop(s, t), t, Len(s[t]))
         /\ (s[t][Len(s[t])].at \notin {"send", "answer"} => SameCalls(s, Pop(s, t)))
<1> DEFINE r == Pop(s, t)
           n == Len(s[t])
<1>1. /\ n \in Nat \ {0} /\ DOMAIN s[t] = 1 .. n /\ DOMAIN r[t] = 1 .. n - 1
      /\ \A i \in 1 .. n - 1 : r[t][i] = s[t][i]
      /\ \A u \in Task \ {t} : r[u] = s[u]
  BY Popped
<1>2. n = Len(s[t])
  OBVIOUS
<1> HIDE DEF r, n
<1>3. ChangedAt(s, r, t, n)
  BY <1>1 DEF ChangedAt, CallFrame
<1>4. ~CallFrame(r, t, n)
  BY <1>1 DEF CallFrame
<1>5. ASSUME s[t][n].at \notin {"send", "answer"} PROVE SameCalls(s, r)
  BY <1>1, <1>3, <1>4, <1>5, UnreadChange DEF CallFrame
<1> QED BY <1>3, <1>4, <1>5 DEF r, n

LEMMA PutChanges ==
  ASSUME NEW s \in [Task -> Seq(Frame)], NEW t \in Task, NEW i \in DOMAIN s[t], NEW f
  PROVE  /\ ChangedAt(s, [s EXCEPT ![t][i] = f], t, i)
         /\ (s[t][i].at \notin {"send", "answer"} /\ f.at \notin {"send", "answer"} =>
              SameCalls(s, [s EXCEPT ![t][i] = f]))
<1> DEFINE r == [s EXCEPT ![t][i] = f]
<1>1. /\ Len(s[t]) \in Nat /\ DOMAIN s[t] = 1 .. Len(s[t]) /\ DOMAIN r[t] = DOMAIN s[t]
      /\ r[t][i] = f
      /\ \A j \in DOMAIN s[t] \ {i} : r[t][j] = s[t][j]
      /\ \A u \in Task \ {t} : r[u] = s[u]
  BY Put
<1> HIDE DEF r
<1>2. ChangedAt(s, r, t, i)
  BY <1>1 DEF ChangedAt, CallFrame
<1>3. i \in Nat
  BY <1>1
<1>4. ASSUME s[t][i].at \notin {"send", "answer"}, f.at \notin {"send", "answer"}
      PROVE  SameCalls(s, r)
  BY <1>1, <1>2, <1>3, <1>4, UnreadChange DEF CallFrame
<1> QED BY <1>2, <1>4 DEF r

LEMMA SameBoth ==
  ASSUME NEW s, NEW r, NEW q, SameCalls(s, r), SameCalls(r, q)
  PROVE  SameCalls(s, q)
BY DEF SameCalls

-----------------------------------------------------------------------------
(* The nesting kept.                                                       *)

\* A frame put on the stack, where it is as deep as it may be, and taken off.
LEMMA PushNested ==
  ASSUME NEW s \in [Task -> Seq(Frame)], NEW t \in Task, NEW f, Nested(s),
         Len(s[t]) <= MaxDepth,
         Len(s[t]) = MaxDepth => f.at \in {"answer", "start"},
         s[t] # <<>> /\ s[t][Len(s[t])].at = "send" => f.at = "answer"
  PROVE  Nested(Push(s, t, f))
<1> DEFINE r == Push(s, t, f)
           n == Len(s[t])
<1>1. /\ n \in Nat /\ DOMAIN s[t] = 1 .. n /\ DOMAIN r[t] = 1 .. n + 1
      /\ \A i \in DOMAIN s[t] : r[t][i] = s[t][i]
      /\ r[t][n + 1] = f
      /\ \A u \in Task \ {t} : r[u] = s[u]
  BY Pushed
<1>2. Len(r[t]) = n + 1
  BY DEF Push
<1>3. s[t] # <<>> <=> n # 0
  OBVIOUS
<1>4. n <= MaxDepth /\ (n = MaxDepth => f.at \in {"answer", "start"})
  OBVIOUS
<1> HIDE DEF r, n
<1>5. ASSUME NEW i \in DOMAIN r[t], i > 1, r[t][i - 1].at = "send" PROVE r[t][i].at = "answer"
  <2>1. i - 1 \in DOMAIN s[t]
    BY <1>1, <1>5
  <2>2. CASE i = n + 1
    BY <1>1, <1>3, <1>5, <2>1, <2>2 DEF n
  <2>3. CASE i \in DOMAIN s[t]
    BY <1>1, <1>5, <2>1, <2>3 DEF Nested
  <2> QED BY <1>1, <2>2, <2>3
<1>6. /\ Len(r[t]) <= MaxDepth + 1
      /\ (Len(r[t]) = MaxDepth + 1 => r[t][Len(r[t])].at \in {"answer", "start"})
  BY <1>1, <1>2, <1>4, BoundAssumption
<1>7. \A u \in Task \ {t} :
        /\ Len(r[u]) <= MaxDepth + 1
        /\ (Len(r[u]) = MaxDepth + 1 => r[u][Len(r[u])].at \in {"answer", "start"})
        /\ \A i \in DOMAIN r[u] : i > 1 /\ r[u][i - 1].at = "send" => r[u][i].at = "answer"
  BY <1>1 DEF Nested
<1> QED BY <1>5, <1>6, <1>7 DEF Nested, r

LEMMA PopNested ==
  ASSUME NEW s \in [Task -> Seq(Frame)], NEW t \in Task, s[t] # <<>>, Nested(s)
  PROVE  Nested(Pop(s, t)) /\ Len(Pop(s, t)[t]) <= MaxDepth
<1> DEFINE r == Pop(s, t)
           n == Len(s[t])
<1>1. /\ n \in Nat \ {0} /\ DOMAIN s[t] = 1 .. n /\ DOMAIN r[t] = 1 .. n - 1
      /\ Len(r[t]) = n - 1
      /\ \A i \in 1 .. n - 1 : r[t][i] = s[t][i]
      /\ \A u \in Task \ {t} : r[u] = s[u]
  BY Popped
<1>2. n <= MaxDepth + 1
  BY DEF Nested
<1> HIDE DEF r, n
<1>3. ASSUME NEW i \in DOMAIN r[t], i > 1, r[t][i - 1].at = "send" PROVE r[t][i].at = "answer"
  <2>1. i \in DOMAIN s[t] /\ r[t][i] = s[t][i] /\ r[t][i - 1] = s[t][i - 1]
    BY <1>1, <1>3
  <2> QED BY <1>3, <2>1 DEF Nested
<1>4. Len(r[t]) <= MaxDepth
  BY <1>1, <1>2, BoundAssumption
<1>5. \A u \in Task \ {t} :
        /\ Len(r[u]) <= MaxDepth + 1
        /\ (Len(r[u]) = MaxDepth + 1 => r[u][Len(r[u])].at \in {"answer", "start"})
        /\ \A i \in DOMAIN r[u] : i > 1 /\ r[u][i - 1].at = "send" => r[u][i].at = "answer"
  BY <1>1 DEF Nested
<1>6. Len(r[t]) <= MaxDepth + 1 /\ Len(r[t]) # MaxDepth + 1
  BY <1>1, <1>4, BoundAssumption
<1> QED BY <1>3, <1>4, <1>5, <1>6 DEF Nested, r

\* A frame put in the place of another of its kind, or a look's in that of one.
LEMMA PutNested ==
  ASSUME NEW s \in [Task -> Seq(Frame)], NEW t \in Task, NEW i \in DOMAIN s[t], NEW f, Nested(s),
         \/ f.at = s[t][i].at
         \/ i = Len(s[t]) /\ {f.at, s[t][i].at} \subseteq {"look", "reading"}
  PROVE  Nested([s EXCEPT ![t][i] = f])
<1> DEFINE r == [s EXCEPT ![t][i] = f]
           n == Len(s[t])
<1>1. /\ n \in Nat /\ DOMAIN s[t] = 1 .. n /\ DOMAIN r[t] = DOMAIN s[t]
      /\ r[t][i] = f
      /\ \A j \in DOMAIN s[t] \ {i} : r[t][j] = s[t][j]
      /\ \A u \in Task \ {t} : r[u] = s[u]
  BY Put
<1>2. Len(r[t]) = n
  BY DEF r
<1>3. n = Len(s[t])
  OBVIOUS
<1> HIDE DEF r, n
<1>4. ASSUME NEW j \in DOMAIN r[t], j > 1, r[t][j - 1].at = "send" PROVE r[t][j].at = "answer"
  <2>1. j \in DOMAIN s[t] /\ j - 1 \in DOMAIN s[t]
    BY <1>1, <1>4
  <2>2. s[t][j - 1].at = "send"
    BY <1>1, <1>3, <1>4, <2>1
  <2>3. s[t][j].at = "answer"
    BY <1>4, <2>1, <2>2 DEF Nested
  <2> QED BY <1>1, <2>1, <2>3
<1>5. /\ Len(r[t]) <= MaxDepth + 1
      /\ (Len(r[t]) = MaxDepth + 1 => r[t][Len(r[t])].at \in {"answer", "start"})
  <2>1. n <= MaxDepth + 1 /\ (n = MaxDepth + 1 => s[t][n].at \in {"answer", "start"})
    BY <1>3 DEF Nested
  <2>2. n \in DOMAIN s[t]
    BY <1>1
  <2> QED BY <1>1, <1>2, <1>3, <2>1, <2>2
<1>6. \A u \in Task \ {t} :
        /\ Len(r[u]) <= MaxDepth + 1
        /\ (Len(r[u]) = MaxDepth + 1 => r[u][Len(r[u])].at \in {"answer", "start"})
        /\ \A j \in DOMAIN r[u] : j > 1 /\ r[u][j - 1].at = "send" => r[u][j].at = "answer"
  BY <1>1 DEF Nested
<1> QED BY <1>4, <1>5, <1>6 DEF Nested, r

LEMMA DoneNested ==
  ASSUME NEW s \in [Task -> Seq(Frame)], NEW t \in Task, NEW i \in DOMAIN s[t], Nested(s)
  PROVE  Nested([s EXCEPT ![t][i].done = TRUE])
<1> DEFINE f == [s[t][i] EXCEPT !.done = TRUE]
<1>1. s[t][i] \in Frame
  <2>1. s[t] \in Seq(Frame)
    OBVIOUS
  <2> QED BY <2>1
<1>2. f.at = s[t][i].at
  BY <1>1 DEF Frame
<1> HIDE DEF f
<1>3. Nested([s EXCEPT ![t][i] = f])
  BY <1>2, PutNested
<1> QED BY <1>3 DEF f

LEMMA GiveNested ==
  ASSUME NEW s \in [Task -> Seq(Frame)], NEW f, f.peer \in Task, Nested(s)
  PROVE  Nested(GiveAnswer(s, f))
<1>1. CASE f.depth \in DOMAIN s[f.peer]
  BY <1>1, DoneNested DEF GiveAnswer
<1>2. CASE f.depth \notin DOMAIN s[f.peer]
  BY <1>2 DEF GiveAnswer
<1> QED BY <1>1, <1>2

-----------------------------------------------------------------------------
(* Each step of the tasks' is a step of SendCall's, or none of its.        *)

\* What each step is of SendCall.
SendStep == Across!Next \/ UNCHANGED Across!calls

LEMMA QuietStep ==
  ASSUME IInv, IInv', SameCalls(stack, stack'), sent' = sent,
         \A u \in Task : life'[u] = "ended" <=> life[u] = "ended"
  PROVE  SendStep
<1>1. stack \in [Task -> Seq(Frame)] /\ stack' \in [Task -> Seq(Frame)]
  BY DEF IInv, TypeOK
<1>2. CallsOn(stack') = CallsOn(stack) /\ AnswersOn(stack') = AnswersOn(stack)
  BY <1>1, SameMapped
<1>3. CallsOn(stack)' = CallsOn(stack') /\ AnswersOn(stack)' = AnswersOn(stack')
  BY DEF CallsOn, AnswersOn, CallAt, AnswerAt
<1>4. {u \in Task : life[u] = "ended"}' = {u \in Task : life[u] = "ended"}
  OBVIOUS
<1> QED BY <1>2, <1>3, <1>4 DEF SendStep, Across!calls

\* The places of a task's frames are depths.
LEMMA DepthsOf ==
  ASSUME IInv, Nested(stack), NEW t \in Task
  PROVE  /\ stack[t] \in Seq(Frame) /\ Len(stack[t]) \in Nat
         /\ DOMAIN stack[t] = 1 .. Len(stack[t])
         /\ DOMAIN stack[t] \subseteq Depths
         /\ Depths \subseteq Nat
<1>1. stack[t] \in Seq(Frame)
  BY DEF IInv, TypeOK
<1>2. Len(stack[t]) \in Nat /\ DOMAIN stack[t] = 1 .. Len(stack[t])
  BY <1>1
<1>3. Len(stack[t]) <= MaxDepth + 1
  BY DEF Nested
<1> QED BY <1>1, <1>2, <1>3, BoundAssumption DEF Depths

\* Nothing is called or handled from a place up where no frame of either is.
LEMMA ClearFrom ==
  ASSUME IInv, Nested(stack), NEW t \in Task, NEW d \in Nat,
         \A i \in DOMAIN stack[t] : i >= d => stack[t][i].at \notin {"send", "answer"}
  PROVE  Across!Clear(t, d)
<1>1. \A e \in Depths : e >= d => CallsOn(stack)[t][e] = "none"
  BY CallsRead DEF CallAt
<1>2. \A m \in AnswersOn(stack)[t] : m.at < d
  <2> SUFFICES ASSUME NEW m \in AnswersOn(stack)[t] PROVE m.at < d
    OBVIOUS
  <2>1. PICK i \in DOMAIN stack[t] : stack[t][i].at = "answer" /\ m = AnswerAt(stack, t, i)
    BY AnswersRead
  <2>2. m.at = i
    BY <2>1 DEF AnswerAt
  <2>3. i \in Nat
    BY DepthsOf
  <2> QED BY <2>1, <2>2, <2>3
<1> QED BY <1>1, <1>2 DEF Across!Clear

\* The mapping of the next state is that of its stacks.
LEMMA Primed ==
  /\ CallsOn(stack)' = CallsOn(stack')
  /\ AnswersOn(stack)' = AnswersOn(stack')
BY DEF CallsOn, AnswersOn, CallAt, AnswerAt

\* The calls and the messages handled where a frame is put on a task's stack.
LEMMA PushRead ==
  ASSUME NEW s \in [Task -> Seq(Frame)], NEW t \in Task, NEW f \in Frame,
         Len(s[t]) <= MaxDepth
  PROVE  LET r == Push(s, t, f)
             k == Len(s[t]) + 1
         IN /\ k \in Depths
            /\ (f.at = "send" /\ ~f.done =>
                  /\ CallsOn(r) = CallsPut(s, t, k, "open")
                  /\ AnswersOn(r) = AnswersOn(s))
            /\ (f.at = "answer" =>
                  /\ CallsOn(r) = CallsOn(s)
                  /\ AnswersOn(r) = AnswersPut(s, t, AnswersOn(s)[t] \cup
                       {[at |-> k, from |-> f.peer, depth |-> f.depth, replied |-> f.done]}))
<1> DEFINE n == Len(s[t])
           r == Push(s, t, f)
           k == n + 1
<1>1. /\ n \in Nat /\ DOMAIN s[t] = 1 .. n /\ DOMAIN r[t] = 1 .. n + 1
      /\ r[t][n + 1] = f
  BY Pushed
<1>2. k \in Depths /\ k \in Nat
  <2>1. n <= MaxDepth
    OBVIOUS
  <2> QED BY <1>1, <2>1, BoundAssumption DEF Depths
<1>3. /\ ChangedAt(s, r, t, k)
      /\ s \in [Task -> Seq(Frame)] /\ r \in [Task -> Seq(Frame)]
  BY PushChanges, PushTyped
<1>4. r[t][k] = f /\ k \in DOMAIN r[t] /\ k \notin DOMAIN s[t]
  BY <1>1
<1> HIDE DEF n, k, r
<1>5. CallsOn(r) = CallsPut(s, t, k, CallAt(r, t, k))
  BY <1>2, <1>3, CallsMapped
<1>6. /\ \A v \in Task \ {t} : AnswersOn(r)[v] = AnswersOn(s)[v]
      /\ \A m : m \in AnswersOn(r)[t] <=>
           \/ m \in AnswersOn(s)[t] /\ m.at # k
           \/ CallFrame(r, t, k) /\ r[t][k].at = "answer" /\ m = AnswerAt(r, t, k)
  BY <1>2, <1>3, AnswersMapped
<1>7. \A m \in AnswersOn(s)[t] : m.at # k
  BY <1>4, AnswersRead DEF AnswerAt
<1>8. ASSUME f.at = "send", ~f.done
      PROVE  /\ CallsOn(r) = CallsPut(s, t, k, "open")
             /\ AnswersOn(r) = AnswersOn(s)
  <2>1. CallAt(r, t, k) = "open"
    BY <1>4, <1>8 DEF CallAt
  <2>2. AnswersOn(r)[t] = AnswersOn(s)[t]
    <3>1. \A m : m \in AnswersOn(r)[t] <=> m \in AnswersOn(s)[t]
      BY <1>4, <1>6, <1>7, <1>8
    <3> QED BY <3>1 DEF AnswersOn
  <2>3. AnswersOn(r) = AnswersOn(s)
    <3>1. \A v \in Task : AnswersOn(r)[v] = AnswersOn(s)[v]
      BY <1>6, <2>2
    <3> QED BY <3>1, AnswersEqual
  <2> QED BY <1>5, <2>1, <2>3
<1>9. ASSUME f.at = "answer"
      PROVE  /\ CallsOn(r) = CallsOn(s)
             /\ AnswersOn(r) = AnswersPut(s, t, AnswersOn(s)[t] \cup
                  {[at |-> k, from |-> f.peer, depth |-> f.depth, replied |-> f.done]})
  <2> DEFINE a == [at |-> k, from |-> f.peer, depth |-> f.depth, replied |-> f.done]
             A == AnswersOn(s)[t] \cup {a}
  <2>1. CallAt(r, t, k) = "none" /\ CallsOn(s)[t][k] = "none"
    BY <1>2, <1>4, <1>9, CallsRead DEF CallAt
  <2>2. CallsOn(r) = CallsOn(s)
    BY <1>2, <1>5, <2>1, CallsSame
  <2>3. AnswerAt(r, t, k) = a /\ CallFrame(r, t, k) /\ r[t][k].at = "answer"
    BY <1>4, <1>9 DEF AnswerAt, CallFrame
  <2> HIDE DEF a
  <2>4. \A m : m \in AnswersOn(r)[t] <=> m \in AnswersOn(s)[t] \/ m = a
    BY <1>6, <1>7, <2>3
  <2>5. AnswersOn(r)[t] = A
    BY <2>4 DEF AnswersOn
  <2> HIDE DEF A
  <2>6. AnswersOn(r) = AnswersPut(s, t, A)
    <3>1. \A v \in Task \ {t} : AnswersOn(r)[v] = AnswersOn(s)[v]
      BY <1>6
    <3>2. AnswersOn(r) = AnswersPut(s, t, AnswersOn(r)[t])
      BY <3>1, AnswersChanged
    <3> QED BY <2>5, <3>2
  <2> QED BY <2>2, <2>6 DEF a, A
<1> QED BY <1>2, <1>8, <1>9 DEF k, n, r

\* A message sent.
LEMMA AskStep ==
  ASSUME IInv, IInv', Nested(stack), NEW t \in Task, NEW u \in Task, Send(t, u)
  PROVE  SendStep /\ Nested(stack')
<1> DEFINE n == Len(stack[t])
           f == SendTo(u)
<1>1. /\ current = t /\ u # t /\ life' = life /\ life[u] = "live"
      /\ sent' = [sent EXCEPT ![u] = Append(@, [from |-> t, depth |-> n + 1])]
  BY DEF Send, Makes, InGuest, HasRun, Live
<1>2. stack' = Push(stack, t, f)
  BY DEF Send
<1>3. f.at = "send" /\ ~f.done /\ f \in Frame
  BY FramesTyped DEF SendTo
<1>4. n < MaxDepth /\ (stack[t] # <<>> => stack[t][n].at \in {"answer", "hook"})
  BY DEF Send, Makes, InGuest, Deeper, Top
<1>5. stack \in [Task -> Seq(Frame)] /\ stack' \in [Task -> Seq(Frame)]
  BY DEF IInv, TypeOK
<1>6. n \in Nat /\ n <= MaxDepth /\ n # MaxDepth
  BY <1>4, DepthsOf, BoundAssumption
<1> HIDE DEF f
<1>7. Nested(stack')
  BY <1>2, <1>3, <1>4, <1>5, <1>6, PushNested
<1>8. /\ n + 1 \in Depths
      /\ CallsOn(stack') = CallsPut(stack, t, n + 1, "open")
      /\ AnswersOn(stack') = AnswersOn(stack)
  BY <1>2, <1>3, <1>5, <1>6, PushRead
<1>12. Across!Clear(t, n + 1)
  BY <1>6, DepthsOf, ClearFrom
<1>9. {v \in Task : life[v] = "ended"}' = {v \in Task : life[v] = "ended"}
  BY <1>1
<1>10. {t, u} \cap {v \in Task : life[v] = "ended"} = {}
  BY <1>1, RunningLive
<1>11. Across!Ask(t, u, n + 1)
  BY <1>1, <1>8, <1>9, <1>10, <1>12, Primed DEF Across!Ask, CallsPut
<1> QED BY <1>7, <1>8, <1>11 DEF SendStep, Across!Next

\* A message taken.
LEMMA TakeStep ==
  ASSUME IInv, IInv', Nested(stack), NEW t \in Task, TakeNext(t)
  PROVE  SendStep /\ Nested(stack')
<1> DEFINE n == Len(stack[t])
           h == Head(sent[t])
           f == AnswerTo(h)
<1>1. /\ current = t /\ life' = life /\ sent[t] # <<>>
      /\ sent' = [sent EXCEPT ![t] = Tail(@)]
  BY DEF TakeNext, At
<1>2. stack' = Push(stack, t, f)
  BY DEF TakeNext
<1>3. stack[t] # <<>> /\ stack[t][n].at \in {"yield", "send", "look"}
  BY DEF TakeNext, At, Top
<1>4. /\ stack \in [Task -> Seq(Frame)] /\ stack' \in [Task -> Seq(Frame)]
      /\ h \in Message
  BY <1>1, SentTyped DEF IInv, TypeOK
<1>5. f.at = "answer" /\ f.peer = h.from /\ f.depth = h.depth /\ f.done = FALSE /\ f \in Frame
  BY <1>4, FramesTyped DEF AnswerTo
<1>6. n \in Nat /\ n <= MaxDepth
  <2>1. n \in Nat /\ n <= MaxDepth + 1 /\ n # MaxDepth + 1
    BY <1>3, DepthsOf DEF Nested
  <2> QED BY <2>1, BoundAssumption
<1>7. Across!Clear(t, n + 1)
  BY <1>6, DepthsOf, ClearFrom
<1> HIDE DEF f, h
<1>8. Nested(stack')
  BY <1>2, <1>4, <1>5, <1>6, PushNested
<1>9. /\ n + 1 \in Depths
      /\ CallsOn(stack') = CallsOn(stack)
      /\ AnswersOn(stack') = AnswersPut(stack, t, AnswersOn(stack)[t] \cup
           {[at |-> n + 1, from |-> f.peer, depth |-> f.depth, replied |-> f.done]})
  BY <1>2, <1>4, <1>5, <1>6, PushRead
<1>10. AnswersOn(stack') = [AnswersOn(stack) EXCEPT ![t] = @ \cup
           {[at |-> n + 1, from |-> h.from, depth |-> h.depth, replied |-> FALSE]}]
  BY <1>5, <1>9 DEF AnswersPut
<1>11. {v \in Task : life[v] = "ended"}' = {v \in Task : life[v] = "ended"}
  BY <1>1
<1>12. t \notin {v \in Task : life[v] = "ended"}
  BY <1>1, RunningLive
<1>13. Across!Take(t, n + 1)
  BY <1>1, <1>7, <1>9, <1>10, <1>11, <1>12, Primed DEF Across!Take, h
<1> QED BY <1>8, <1>9, <1>13 DEF SendStep, Across!Next

\* The calls and the messages handled where a frame is taken off a stack.
LEMMA PopRead ==
  ASSUME NEW s \in [Task -> Seq(Frame)], NEW t \in Task, s[t] # <<>>,
         Len(s[t]) <= MaxDepth + 1
  PROVE  LET r == Pop(s, t)
             k == Len(s[t])
         IN /\ k \in Depths
            /\ (s[t][k].at = "send" =>
                  /\ CallsOn(r) = CallsPut(s, t, k, "none")
                  /\ AnswersOn(r) = AnswersOn(s))
            /\ (s[t][k].at = "answer" =>
                  /\ CallsOn(r) = CallsOn(s)
                  /\ AnswersOn(r) = AnswersPut(s, t, AnswersOn(s)[t] \ {AnswerAt(s, t, k)}))
<1> DEFINE r == Pop(s, t)
           k == Len(s[t])
<1>1. /\ k \in Nat \ {0} /\ DOMAIN s[t] = 1 .. k /\ DOMAIN r[t] = 1 .. k - 1
  BY Popped
<1>2. k \in Depths /\ k \in Nat
  <2>1. k <= MaxDepth + 1
    OBVIOUS
  <2> QED BY <1>1, <2>1, BoundAssumption DEF Depths
<1>3. /\ ChangedAt(s, r, t, k)
      /\ s \in [Task -> Seq(Frame)] /\ r \in [Task -> Seq(Frame)]
  BY PopChanges, PopTyped
<1>4. k \in DOMAIN s[t] /\ k \notin DOMAIN r[t]
  BY <1>1
<1> HIDE DEF k, r
<1>5. CallsOn(r) = CallsPut(s, t, k, "none")
  <2>1. CallsOn(r) = CallsPut(s, t, k, CallAt(r, t, k))
    BY <1>2, <1>3, CallsMapped
  <2>2. CallAt(r, t, k) = "none"
    BY <1>4 DEF CallAt
  <2> QED BY <2>1, <2>2
<1>6. /\ \A v \in Task \ {t} : AnswersOn(r)[v] = AnswersOn(s)[v]
      /\ \A m : m \in AnswersOn(r)[t] <=> m \in AnswersOn(s)[t] /\ m.at # k
  <2>1. ~CallFrame(r, t, k)
    BY <1>4 DEF CallFrame
  <2> QED BY <1>2, <1>3, <2>1, AnswersMapped
<1>7. ASSUME s[t][k].at = "send" PROVE AnswersOn(r) = AnswersOn(s)
  <2>1. \A m \in AnswersOn(s)[t] : m.at # k
    BY <1>7, AnswersRead DEF AnswerAt
  <2>2. \A m : m \in AnswersOn(r)[t] <=> m \in AnswersOn(s)[t]
    BY <1>6, <2>1
  <2>3. AnswersOn(r)[t] = AnswersOn(s)[t]
    BY <2>2 DEF AnswersOn
  <2>4. \A v \in Task : AnswersOn(r)[v] = AnswersOn(s)[v]
    BY <1>6, <2>3
  <2> QED BY <2>4, AnswersEqual
<1>8. ASSUME s[t][k].at = "answer"
      PROVE  /\ CallsOn(r) = CallsOn(s)
             /\ AnswersOn(r) = AnswersPut(s, t, AnswersOn(s)[t] \ {AnswerAt(s, t, k)})
  <2> DEFINE a == AnswerAt(s, t, k)
             A == AnswersOn(s)[t] \ {a}
  <2>1. CallsOn(r) = CallsOn(s)
    <3>1. CallsOn(s)[t][k] = "none"
      BY <1>2, <1>8, CallsRead DEF CallAt
    <3> QED BY <1>2, <1>5, <3>1, CallsSame
  <2>2. \A m \in AnswersOn(s)[t] : m.at = k <=> m = a
    BY AnswersRead DEF AnswerAt
  <2> HIDE DEF a
  <2>3. AnswersOn(r)[t] = A
    <3>1. \A m : m \in AnswersOn(r)[t] <=> m \in AnswersOn(s)[t] /\ m # a
      BY <1>6, <2>2
    <3> QED BY <3>1 DEF AnswersOn
  <2> HIDE DEF A
  <2>4. AnswersOn(r) = AnswersPut(s, t, A)
    <3>1. \A v \in Task \ {t} : AnswersOn(r)[v] = AnswersOn(s)[v]
      BY <1>6
    <3>2. AnswersOn(r) = AnswersPut(s, t, AnswersOn(r)[t])
      BY <3>1, AnswersChanged
    <3> QED BY <2>3, <3>2
  <2> QED BY <2>1, <2>4 DEF a, A
<1> QED BY <1>2, <1>5, <1>7, <1>8 DEF k, r

\* A call answered is left.
LEMMA ReturnStep ==
  ASSUME IInv, IInv', Nested(stack), NEW t \in Task, stack[t] # <<>>,
         Top(t).at = "send", Top(t).done, life' = life, sent' = sent,
         stack' = Pop(stack, t)
  PROVE  SendStep
<1> DEFINE n == Len(stack[t])
<1>1. stack \in [Task -> Seq(Frame)]
  BY DEF IInv, TypeOK
<1>2. n \in DOMAIN stack[t] /\ stack[t][n].at = "send" /\ stack[t][n].done
  BY TopIn DEF IInv, Top
<1>3. /\ n \in Depths
      /\ CallsOn(stack') = CallsPut(stack, t, n, "none")
      /\ AnswersOn(stack') = AnswersOn(stack)
  <2>1. Len(stack[t]) <= MaxDepth + 1
    BY DEF Nested
  <2> QED BY <1>1, <1>2, <2>1, PopRead
<1>4. CallsOn(stack)[t][n] = "answered"
  BY <1>2, <1>3, CallsRead DEF CallAt
<1>5. Across!Clear(t, n + 1)
  BY DepthsOf, ClearFrom
<1>6. {v \in Task : life[v] = "ended"}' = {v \in Task : life[v] = "ended"}
  OBVIOUS
<1>7. Across!Return(t, n)
  BY <1>3, <1>4, <1>5, <1>6, Primed DEF Across!Return, CallsPut
<1> QED BY <1>3, <1>7 DEF SendStep, Across!Next

\* The calls and the messages handled where an answer is noted in a frame.
LEMMA DoneRead ==
  ASSUME NEW s \in [Task -> Seq(Frame)], NEW t \in Task, NEW i \in DOMAIN s[t], i \in Depths,
         NEW r, r = DoneAt(s, t, i)
  PROVE  LET m == AnswerAt(s, t, i)
         IN /\ r \in [Task -> Seq(Frame)]
            /\ (s[t][i].at = "send" =>
                  /\ CallsOn(r) = CallsPut(s, t, i, "answered")
                  /\ AnswersOn(r) = AnswersOn(s))
            /\ (s[t][i].at = "answer" =>
                  /\ CallsOn(r) = CallsOn(s)
                  /\ AnswersOn(r) = AnswersPut(s, t, (AnswersOn(s)[t] \ {m}) \cup {Replied(m)}))
<1> DEFINE f == [s[t][i] EXCEPT !.done = TRUE]
           m == AnswerAt(s, t, i)
<1>1. s[t][i] \in Frame /\ f \in Frame
  <2>1. s[t] \in Seq(Frame)
    OBVIOUS
  <2> QED BY <2>1, FramesTyped
<1>2. f.at = s[t][i].at /\ f.done = TRUE /\ f.peer = s[t][i].peer /\ f.depth = s[t][i].depth
  BY <1>1 DEF Frame
<1>3. r = [s EXCEPT ![t][i] = f]
  BY DEF DoneAt
<1> HIDE DEF f
<1>4. r[t][i] = f /\ DOMAIN r[t] = DOMAIN s[t]
  BY <1>3, Put
<1>5. i \in Nat
  BY BoundAssumption DEF Depths
<1>6. /\ ChangedAt(s, r, t, i)
      /\ s \in [Task -> Seq(Frame)] /\ r \in [Task -> Seq(Frame)]
  <2>1. ChangedAt(s, r, t, i)
    <3>1. ChangedAt(s, [s EXCEPT ![t][i] = f], t, i)
      BY PutChanges
    <3> QED BY <1>3, <3>1
  <2>2. r \in [Task -> Seq(Frame)]
    BY <1>1, <1>3, PutTyped
  <2> QED BY <2>1, <2>2
<1>7. CallsOn(r) = CallsPut(s, t, i, CallAt(r, t, i))
  BY <1>6, CallsMapped
<1>8. /\ \A v \in Task \ {t} : AnswersOn(r)[v] = AnswersOn(s)[v]
      /\ \A n : n \in AnswersOn(r)[t] <=>
           \/ n \in AnswersOn(s)[t] /\ n.at # i
           \/ CallFrame(r, t, i) /\ r[t][i].at = "answer" /\ n = AnswerAt(r, t, i)
  BY <1>5, <1>6, AnswersMapped
<1>9. ASSUME s[t][i].at = "send"
      PROVE  /\ CallsOn(r) = CallsPut(s, t, i, "answered")
             /\ AnswersOn(r) = AnswersOn(s)
  <2>1. CallAt(r, t, i) = "answered"
    BY <1>2, <1>4, <1>9 DEF CallAt
  <2>2. \A n \in AnswersOn(s)[t] : n.at # i
    BY <1>9, AnswersRead DEF AnswerAt
  <2>3. r[t][i].at # "answer"
    BY <1>2, <1>4, <1>9
  <2>4. \A n : n \in AnswersOn(r)[t] <=> n \in AnswersOn(s)[t]
    BY <1>8, <2>2, <2>3
  <2>5. AnswersOn(r)[t] = AnswersOn(s)[t]
    BY <2>4 DEF AnswersOn
  <2>6. \A v \in Task : AnswersOn(r)[v] = AnswersOn(s)[v]
    BY <1>8, <2>5
  <2>7. AnswersOn(r) = AnswersOn(s)
    BY <2>6, AnswersEqual
  <2> QED BY <1>7, <2>1, <2>7
<1>10. ASSUME s[t][i].at = "answer"
       PROVE  /\ CallsOn(r) = CallsOn(s)
              /\ AnswersOn(r) = AnswersPut(s, t, (AnswersOn(s)[t] \ {m}) \cup {Replied(m)})
  <2> DEFINE a == Replied(m)
             A == (AnswersOn(s)[t] \ {m}) \cup {a}
  <2>1. CallsOn(r) = CallsOn(s)
    <3>1. CallAt(r, t, i) = "none" /\ CallsOn(s)[t][i] = "none"
      BY <1>2, <1>4, <1>10, CallsRead DEF CallAt
    <3> QED BY <1>7, <3>1, CallsSame
  <2>2. \A n \in AnswersOn(s)[t] : n.at = i <=> n = m
    BY AnswersRead DEF AnswerAt
  <2>3. CallFrame(r, t, i) /\ r[t][i].at = "answer"
    BY <1>2, <1>4, <1>10 DEF CallFrame
  <2>4. AnswerAt(r, t, i) = a
    <3>1. AnswerAt(r, t, i) = [at |-> i, from |-> s[t][i].peer, depth |-> s[t][i].depth,
                               replied |-> TRUE]
      BY <1>2, <1>4 DEF AnswerAt
    <3>2. a = [at |-> i, from |-> s[t][i].peer, depth |-> s[t][i].depth, replied |-> TRUE]
      <4> DEFINE x == TRUE
      <4> HIDE DEF x
      <4>1. [m EXCEPT !.replied = x] = [at |-> i, from |-> s[t][i].peer,
                                        depth |-> s[t][i].depth, replied |-> x]
        BY DEF AnswerAt
      <4> QED BY <4>1 DEF x, Replied
    <3> HIDE DEF a
    <3> QED BY <3>1, <3>2
  <2> HIDE DEF a, m
  <2>5. AnswersOn(r)[t] = A
    <3>1. \A n : n \in AnswersOn(r)[t] <=> (n \in AnswersOn(s)[t] /\ n # m) \/ n = a
      BY <1>8, <2>2, <2>3, <2>4
    <3> QED BY <3>1 DEF AnswersOn
  <2> HIDE DEF A
  <2>6. AnswersOn(r) = AnswersPut(s, t, A)
    <3>1. \A v \in Task \ {t} : AnswersOn(r)[v] = AnswersOn(s)[v]
      BY <1>8
    <3>2. AnswersOn(r) = AnswersPut(s, t, AnswersOn(r)[t])
      BY <3>1, AnswersChanged
    <3> QED BY <2>5, <3>2
  <2> QED BY <2>1, <2>6 DEF a, A
<1> QED BY <1>6, <1>9, <1>10 DEF m

\* An answer given is the answer to the message taken, and nothing else.
LEMMA AnswerStep ==
  ASSUME IInv, CallsInv, Nested(stack), NEW t \in Task, NEW i \in DOMAIN stack[t],
         stack[t][i].at = "answer", ~stack[t][i].done,
         NEW r \in [Task -> Seq(Frame)], CallsOn(r) = CallsOn(stack),
         \A u \in Task \ {t} : r[u] = stack[u],
         stack' = GiveAnswer(r, stack[t][i])
  PROVE  /\ AnswersOn(stack') = AnswersOn(r)
         /\ Across!Answers(AnswerAt(stack, t, i))
<1> DEFINE f == stack[t][i]
           p == f.peer
           d == f.depth
           m == AnswerAt(stack, t, i)
<1>1. f \in Frame /\ i \in Nat
  <2>1. stack[t] \in Seq(Frame)
    BY DEF IInv, TypeOK
  <2> QED BY <2>1
<1>2. p \in Task /\ d \in Nat
  BY <1>1 DEF Frame
<1>3. FromSender(life, stack, p, d, t)
  <2>1. Answering(stack, t, i, p, d)
    BY DEF Answering, OpenFrame
  <2> QED BY <1>1, <1>2, <2>1 DEF CallsInv, CallsPlaced, AllAwaited
<1>4. m.from = p /\ m.depth = d /\ ~m.replied
  BY DEF AnswerAt
<1>5. stack' = IF d \in DOMAIN r[p] THEN [r EXCEPT ![p][d].done = TRUE] ELSE r
  BY DEF GiveAnswer
<1>6. p # t /\ r[p] = stack[p]
  BY <1>2, <1>3 DEF FromSender
<1> HIDE DEF f, p, d, m
<1>7. CASE life[p] = "ended"
  <2>1. r[p] = <<>>
    BY <1>2, <1>6, <1>7 DEF CallsInv, StacksLive
  <2>2. stack' = r
    BY <1>5, <2>1
  <2>3. p \in {v \in Task : life[v] = "ended"}
    BY <1>2, <1>7
  <2>4. Across!Answers(m)
    BY <1>4, <2>2, <2>3, Primed DEF Across!Answers
  <2> QED BY <2>2, <2>4 DEF m
<1>8. CASE life[p] # "ended"
  <2>1. d \in DOMAIN stack[p] /\ stack[p][d].at = "send" /\ ~stack[p][d].done
    BY <1>3, <1>8 DEF FromSender, Awaits, OpenFrame
  <2>2. d \in Depths
    BY <1>2, <2>1, DepthsOf
  <2>3. d \in DOMAIN r[p] /\ r[p][d].at = "send" /\ stack' = DoneAt(r, p, d)
    BY <1>5, <1>6, <2>1 DEF DoneAt
  <2>4. /\ CallsOn(stack') = CallsPut(stack, p, d, "answered")
        /\ AnswersOn(stack') = AnswersOn(r)
    <3>1. CallsOn(stack') = CallsPut(r, p, d, "answered") /\ AnswersOn(stack') = AnswersOn(r)
      <4>1. p \in Task
        BY <1>2
      <4>2. d \in DOMAIN r[p] /\ r[p][d].at = "send"
        BY <2>3
      <4>3. stack' = DoneAt(r, p, d)
        BY <2>3
      <4> DEFINE q == stack'
      <4> HIDE DEF q
      <4>4. q = DoneAt(r, p, d)
        BY <4>3 DEF q
      <4>5. CallsOn(q) = CallsPut(r, p, d, "answered") /\ AnswersOn(q) = AnswersOn(r)
        BY <2>2, <4>1, <4>2, <4>4, DoneRead
      <4> QED BY <4>5 DEF q
    <3> QED BY <3>1 DEF CallsPut
  <2>5. CallsOn(stack)[p][d] = "open"
    BY <1>2, <2>1, <2>2, CallsRead DEF CallAt
  <2>6. p \notin {v \in Task : life[v] = "ended"}
    BY <1>8
  <2>7. Across!Answers(m)
    BY <1>4, <2>4, <2>5, <2>6, Primed DEF Across!Answers, CallsPut
  <2> QED BY <2>4, <2>7 DEF m
<1> QED BY <1>7, <1>8

\* The procedure of a message taken returns.
LEMMA FinishStep ==
  ASSUME IInv, IInv', CallsInv, Nested(stack), NEW t \in Task, ReturnAnswer(t)
  PROVE  SendStep /\ Nested(stack')
<1> DEFINE n == Len(stack[t])
           f == stack[t][n]
           m == AnswerAt(stack, t, n)
           r == Pop(stack, t)
<1>1. /\ stack[t] # <<>> /\ f.at = "answer" /\ life' = life /\ sent' = sent
      /\ \/ f.done /\ stack' = r
         \/ ~f.done /\ stack' = GiveAnswer(r, f)
  BY DEF ReturnAnswer, At, Top
<1>2. stack \in [Task -> Seq(Frame)] /\ r \in [Task -> Seq(Frame)]
  BY PopTyped DEF IInv, TypeOK
<1>3. n \in DOMAIN stack[t] /\ n \in Nat /\ f \in Frame
  BY <1>1, DepthsOf, TopIn DEF IInv, Top
<1>4. f.peer \in Task
  BY <1>1, <1>3 DEF Frame
<1>5. Nested(r)
  BY <1>1, <1>2, PopNested
<1>6. CallsOn(r) = CallsOn(stack) /\ AnswersOn(r) = AnswersPut(stack, t, AnswersOn(stack)[t] \ {m})
  <2>1. Len(stack[t]) <= MaxDepth + 1
    BY DEF Nested
  <2> QED BY <1>1, <1>2, <2>1, PopRead
<1>7. \A u \in Task \ {t} : r[u] = stack[u]
  BY <1>1, <1>2, Popped
<1>8. m \in AnswersOn(stack)[t] /\ Across!Latest(t, m)
  <2>1. m \in AnswersOn(stack)[t]
    BY <1>1, <1>3, AnswersRead
  <2>2. m.at = n
    BY DEF AnswerAt
  <2>3. Across!Clear(t, n + 1)
    BY <1>3, DepthsOf, ClearFrom
  <2> HIDE DEF m
  <2> QED BY <2>1, <2>2, <2>3 DEF Across!Latest
<1>9. m.replied = f.done
  BY DEF AnswerAt
<1>10. {v \in Task : life[v] = "ended"}' = {v \in Task : life[v] = "ended"}
  BY <1>1
<1> HIDE DEF r, f, m
<1>11. CASE f.done /\ stack' = r
  <2>1. Across!Finish(t, m)
    BY <1>1, <1>6, <1>8, <1>9, <1>10, <1>11, Primed DEF Across!Finish, AnswersPut
  <2> QED BY <1>5, <1>8, <1>11, <2>1 DEF SendStep, Across!Next
<1>12. CASE ~f.done /\ stack' = GiveAnswer(r, f)
  <2>1. AnswersOn(stack') = AnswersOn(r) /\ Across!Answers(m)
    BY <1>1, <1>2, <1>3, <1>6, <1>7, <1>12, AnswerStep DEF f, m
  <2>2. Across!Finish(t, m)
    BY <1>1, <1>6, <1>8, <1>10, <2>1, Primed DEF Across!Finish, AnswersPut
  <2>3. Nested(stack')
    BY <1>2, <1>4, <1>5, <1>12, GiveNested
  <2> QED BY <1>8, <2>2, <2>3 DEF SendStep, Across!Next
<1> QED BY <1>1, <1>11, <1>12

\* A program answers by ReplyMessage the latest message it took.
LEMMA ReplyStep ==
  ASSUME IInv, IInv', CallsInv, Nested(stack), NEW t \in Task, Reply(t)
  PROVE  SendStep /\ Nested(stack')
<1>1. PICK i \in DOMAIN stack[t] :
        /\ stack[t][i].at = "answer"
        /\ \A j \in DOMAIN stack[t] : j > i => stack[t][j].at # "answer"
        /\ ~stack[t][i].done
        /\ stack' = GiveAnswer([stack EXCEPT ![t][i].done = TRUE], stack[t][i])
  BY DEF Reply
<1>2. life' = life /\ sent' = sent
  BY DEF Reply
<1>3. stack[t] # <<>> => stack[t][Len(stack[t])].at \in {"answer", "hook"}
  BY DEF Reply, Makes, InGuest, Top
<1> DEFINE f == stack[t][i]
           m == AnswerAt(stack, t, i)
           r == DoneAt(stack, t, i)
<1>4. stack' = GiveAnswer(r, f)
  BY <1>1 DEF DoneAt
<1>5. stack \in [Task -> Seq(Frame)]
  BY DEF IInv, TypeOK
<1>6. i \in Depths /\ i \in Nat /\ f \in Frame
  BY DepthsOf DEF IInv, TypeOK
<1>7. f.peer \in Task /\ m.replied = f.done /\ m.at = i
  BY <1>1, <1>6 DEF Frame, AnswerAt
<1>8. /\ r \in [Task -> Seq(Frame)] /\ CallsOn(r) = CallsOn(stack)
      /\ AnswersOn(r) = AnswersPut(stack, t, (AnswersOn(stack)[t] \ {m}) \cup {Replied(m)})
  <2>1. stack[t][i].at = "answer" /\ i \in Depths /\ r = DoneAt(stack, t, i)
    BY <1>1, <1>6
  <2> HIDE DEF r
  <2> QED BY <1>5, <2>1, DoneRead
<1>9. Nested(r)
  BY <1>5, DoneNested DEF DoneAt
<1>10. \A u \in Task \ {t} : r[u] = stack[u]
  BY DEF DoneAt
<1>11. \A j \in DOMAIN stack[t] : j >= i + 1 => stack[t][j].at \notin {"send", "answer"}
  <2> SUFFICES ASSUME NEW j \in DOMAIN stack[t], j >= i + 1, stack[t][j].at = "send"
               PROVE  FALSE
    BY <1>1, <1>6, DepthsOf
  <2>1. j \in 1 .. Len(stack[t]) /\ Len(stack[t]) \in Nat /\ DOMAIN stack[t] = 1 .. Len(stack[t])
    BY DepthsOf
  <2>2. j # Len(stack[t])
    BY <1>3, <2>1
  <2>3. j + 1 \in DOMAIN stack[t] /\ j + 1 > 1 /\ j + 1 - 1 = j /\ j + 1 > i
    BY <1>6, <2>1, <2>2
  <2>4. stack[t][j + 1].at = "answer"
    BY <2>3 DEF Nested
  <2> QED BY <1>1, <2>3, <2>4
<1>12. Across!Latest(t, m)
  <2>1. m \in AnswersOn(stack)[t]
    BY <1>1, AnswersRead
  <2>2. Across!Clear(t, i + 1)
    BY <1>6, <1>11, ClearFrom
  <2> QED BY <1>7, <2>1, <2>2 DEF Across!Latest
<1>13. {v \in Task : life[v] = "ended"}' = {v \in Task : life[v] = "ended"}
  BY <1>2
<1> HIDE DEF r, f, m
<1>14. AnswersOn(stack') = AnswersOn(r) /\ Across!Answers(m)
  BY <1>1, <1>4, <1>8, <1>10, AnswerStep DEF f, m
<1>15. Across!Reply(t, m)
  BY <1>2, <1>8, <1>12, <1>13, <1>14, Primed DEF Across!Reply, AnswersPut, Replied
<1>16. Nested(stack')
  BY <1>4, <1>7, <1>8, <1>9, GiveNested
<1> QED BY <1>12, <1>15, <1>16 DEF SendStep, Across!Next, Across!Latest

\* A task ends.
LEMMA EndStep ==
  ASSUME IInv, IInv', Nested(stack), NEW t \in Task, life[t] = "live", Gone(t)
  PROVE  SendStep /\ Nested(stack')
<1>1. /\ life' = [life EXCEPT ![t] = "ended"] /\ sent' = sent
      /\ stack' = [stack EXCEPT ![t] = <<>>]
  BY DEF Gone
<1>2. \A u \in Task : stack'[u] = IF u = t THEN <<>> ELSE stack[u]
  BY <1>1 DEF IInv, TypeOK
<1>3. Nested(stack')
  BY <1>2, BoundAssumption DEF Nested
<1>4. {v \in Task : life[v] = "ended"}' = {v \in Task : life[v] = "ended"} \cup {t}
  BY <1>1 DEF IInv, TypeOK
<1>5. CallsOn(stack') = [CallsOn(stack) EXCEPT ![t] = [d \in Depths |-> "none"]]
  <2> DEFINE x == CallsOn(stack')
             y == CallsOn(stack)
             z == [d \in Depths |-> "none"]
  <2>1. x = [u \in Task |-> x[u]] /\ y = [u \in Task |-> y[u]]
    BY DEF CallsOn
  <2>2. x[t] = z
    BY <1>2 DEF CallsOn, CallAt
  <2>3. \A u \in Task \ {t} : x[u] = y[u]
    BY <1>2 DEF CallsOn, CallAt
  <2> HIDE DEF x, y, z
  <2>4. x = [y EXCEPT ![t] = z]
    BY <2>1, <2>2, <2>3
  <2> QED BY <2>4 DEF x, y, z
<1>6. AnswersOn(stack') = [AnswersOn(stack) EXCEPT ![t] = {}]
  <2>1. AnswersOn(stack')[t] = {}
    BY <1>2 DEF AnswersOn
  <2>2. \A u \in Task \ {t} : AnswersOn(stack')[u] = AnswersOn(stack)[u]
    BY <1>2 DEF AnswersOn, AnswerAt
  <2>3. AnswersOn(stack') = AnswersPut(stack, t, AnswersOn(stack')[t])
    BY <2>2, AnswersChanged
  <2> QED BY <2>1, <2>3 DEF AnswersPut
<1>7. t \notin {v \in Task : life[v] = "ended"}
  OBVIOUS
<1>8. Across!End(t)
  BY <1>1, <1>4, <1>5, <1>6, <1>7, Primed DEF Across!End
<1> QED BY <1>3, <1>8 DEF SendStep, Across!Next

LEMMA ReturnedStep ==
  ASSUME IInv, IInv', Nested(stack), NEW t \in Task, stack[t] # <<>>,
         Top(t).at = "send", Top(t).done, life' = life, sent' = sent,
         stack' = Pop(stack, t)
  PROVE  SendStep /\ Nested(stack')
<1>1. stack \in [Task -> Seq(Frame)]
  BY DEF IInv, TypeOK
<1> QED BY <1>1, ReturnStep, PopNested

\* Steps that the mapping does not see.
LEMMA KeptStep ==
  ASSUME IInv, IInv', Nested(stack), life' = life, sent' = sent, stack' = stack
  PROVE  SendStep /\ Nested(stack')
BY QuietStep DEF SameCalls

LEMMA PopStep ==
  ASSUME IInv, IInv', Nested(stack), NEW t \in Task, stack[t] # <<>>,
         Top(t).at \notin {"send", "answer"}, life' = life, sent' = sent,
         stack' = Pop(stack, t)
  PROVE  SendStep /\ Nested(stack')
<1>1. stack \in [Task -> Seq(Frame)]
  BY DEF IInv, TypeOK
<1>2. SameCalls(stack, stack') /\ Nested(stack')
  BY <1>1, PopChanges, PopNested DEF Top
<1> QED BY <1>2, QuietStep

LEMMA PushStep ==
  ASSUME IInv, IInv', Nested(stack), NEW t \in Task, NEW f,
         f.at \notin {"send", "answer"}, Deeper(t), InGuest(t),
         life' = life, sent' = sent, stack' = Push(stack, t, f)
  PROVE  SendStep /\ Nested(stack')
<1>1. stack \in [Task -> Seq(Frame)]
  BY DEF IInv, TypeOK
<1>2. Len(stack[t]) \in Nat /\ Len(stack[t]) <= MaxDepth /\ Len(stack[t]) # MaxDepth
  BY DepthsOf, BoundAssumption DEF Deeper
<1>3. stack[t] # <<>> => stack[t][Len(stack[t])].at # "send"
  BY DEF InGuest, Top
<1>4. SameCalls(stack, stack')
  BY <1>1, PushChanges
<1>5. Nested(stack')
  BY <1>1, <1>2, <1>3, PushNested
<1> QED BY <1>4, <1>5, QuietStep

\* A look goes back to the head of its loop, or past the posted messages.
LEMMA LookRead ==
  ASSUME IInv, Nested(stack), NEW t \in Task, stack[t] # <<>>,
         Top(t).at \in {"look", "reading"}, NEW place \in {"look", "reading"}
  PROVE  LET r == [stack EXCEPT ![t][Len(stack[t])] = Plain(place)]
         IN SameCalls(stack, r) /\ Nested(r)
<1> DEFINE n == Len(stack[t])
           f == Plain(place)
           r == [stack EXCEPT ![t][n] = f]
<1>1. stack \in [Task -> Seq(Frame)] /\ n \in DOMAIN stack[t]
  BY TopIn DEF IInv, TypeOK
<1>2. f.at = place /\ stack[t][n].at \in {"look", "reading"}
  BY DEF Plain, Top
<1> HIDE DEF f
<1>3. SameCalls(stack, r)
  BY <1>1, <1>2, PutChanges
<1>4. Nested(r)
  BY <1>1, <1>2, PutNested
<1> QED BY <1>3, <1>4 DEF f

\* Whatever the tasks and the host do.
LEMMA EngineAcross ==
  ASSUME IInv, IInv', CallsInv, Nested(stack), NEW t \in Task, Engine(t)
  PROVE  SendStep /\ Nested(stack')
<1>1. CASE Start(t) \/ YieldDone(t) \/ ReadPosted(t)
  <2>1. /\ stack[t] # <<>> /\ Top(t).at \in {"start", "yield", "look"}
        /\ stack' = Pop(stack, t) /\ life' = life /\ sent' = sent
    BY <1>1 DEF Start, YieldDone, ReadPosted, At
  <2> QED BY <2>1, PopStep
<1>2. CASE ReadInput(t)
  <2>1. /\ stack[t] # <<>> /\ Top(t).at \in {"look", "reading"}
        /\ stack' = Pop(stack, t) /\ life' = life /\ sent' = sent
    BY <1>2 DEF ReadInput, Reading, At
  <2> QED BY <2>1, PopStep
<1>3. CASE Resume(t)
  <2>1. life' = life /\ sent' = sent
    BY <1>3 DEF Resume
  <2>2. CASE stack' = stack
    BY <2>1, <2>2, KeptStep
  <2>3. CASE Top(t).at = "send" /\ Top(t).done /\ stack[t] # <<>> /\ stack' = Pop(stack, t)
    BY <2>1, <2>3, ReturnedStep
  <2>4. CASE stack[t] = <<>> /\ stack' = Pop(stack, t)
    <3>1. stack \in [Task -> Seq(Frame)] /\ SubSeq(stack[t], 1, Len(stack[t]) - 1) = stack[t]
      BY <2>4, SubSeqEmpty DEF IInv, TypeOK
    <3>2. stack' = stack
      BY <2>4, <3>1 DEF Pop
    <3> QED BY <2>2, <3>2
  <2> QED BY <1>3, <2>2, <2>3, <2>4 DEF Resume
<1>4. CASE TakeNext(t)
  BY <1>4, TakeStep
<1>5. CASE SendDone(t)
  <2>1. /\ stack[t] # <<>> /\ Top(t).at = "send" /\ life' = life /\ sent' = sent
        /\ \/ Top(t).done /\ stack' = Pop(stack, t)
           \/ stack' = stack
    BY <1>5 DEF SendDone, At
  <2>2. CASE stack' = stack
    BY <2>1, <2>2, KeptStep
  <2> QED BY <2>1, <2>2, ReturnedStep
<1>6. CASE LookFurther(t)
  <2>1. /\ stack[t] # <<>> /\ Top(t).at \in {"look", "reading"}
        /\ life' = life /\ sent' = sent
        /\ \/ stack' = Pop(stack, t)
           \/ stack' = [stack EXCEPT ![t][Len(stack[t])] = Plain("look")]
    BY <1>6 DEF LookFurther, Reading, At
  <2>2. CASE stack' = Pop(stack, t)
    BY <2>1, <2>2, PopStep
  <2>3. CASE stack' = [stack EXCEPT ![t][Len(stack[t])] = Plain("look")]
    BY <2>1, <2>3, LookRead, QuietStep
  <2> QED BY <2>1, <2>2, <2>3
<1>7. ASSUME NEW u \in Task, ReadHotKey(t, u) PROVE SendStep /\ Nested(stack')
  <2>1. /\ stack[t] # <<>> /\ Top(t).at \in {"look", "reading"}
        /\ life' = life /\ sent' = sent /\ stack' = PastPosted(t)
    BY <1>7 DEF ReadHotKey, Reading, At
  <2> QED BY <2>1, LookRead, QuietStep DEF PastPosted
<1>8. CASE ReadThroughHook(t)
  <2> DEFINE r == PastPosted(t)
             f == Plain("hook")
  <2>1. /\ stack[t] # <<>> /\ Top(t).at \in {"look", "reading"} /\ Deeper(t)
        /\ life' = life /\ sent' = sent /\ stack' = Push(r, t, f)
    BY <1>8 DEF ReadThroughHook, Reading, At
  <2>2. SameCalls(stack, r) /\ Nested(r)
    BY <2>1, LookRead DEF PastPosted
  <2>3. /\ r \in [Task -> Seq(Frame)] /\ r[t] # <<>>
        /\ Len(r[t]) = Len(stack[t]) /\ r[t][Len(r[t])] = Plain("reading")
    BY <2>1, LookMoved DEF PastPosted
  <2>4. r[t][Len(r[t])].at = "reading" /\ f.at = "hook"
    BY <2>3 DEF Plain
  <2>5. Len(r[t]) \in Nat /\ Len(r[t]) <= MaxDepth /\ Len(r[t]) # MaxDepth
    BY <2>1, <2>3, DepthsOf, BoundAssumption DEF Deeper
  <2> HIDE DEF r, f
  <2>6. SameCalls(r, stack') /\ Nested(stack')
    <3>1. SameCalls(r, stack')
      BY <2>1, <2>3, <2>4, PushChanges
    <3>2. Nested(stack')
      BY <2>1, <2>2, <2>3, <2>4, <2>5, PushNested
    <3> QED BY <3>1, <3>2
  <2>7. SameCalls(stack, stack')
    BY <2>2, <2>6, SameBoth
  <2> QED BY <2>1, <2>6, <2>7, QuietStep
<1> QED BY <1>1, <1>2, <1>3, <1>4, <1>5, <1>6, <1>7, <1>8 DEF Engine

\* A task made, its future not yet begun.
LEMMA MadeRead ==
  ASSUME IInv, CallsInv, Nested(stack), NEW u \in Task, Made(u)
  PROVE  LET r == Push(stack, u, Plain("start"))
         IN /\ SameCalls(stack, r) /\ Nested(r) /\ r \in [Task -> Seq(Frame)]
            /\ \A v \in Task \ {u} : r[v] = stack[v]
            /\ \A v \in Task : life'[v] = "ended" <=> life[v] = "ended"
<1> DEFINE f == Plain("start")
           r == Push(stack, u, f)
<1>1. life[u] = "unmade" /\ life' = [life EXCEPT ![u] = "live"]
  BY DEF Made
<1>2. stack[u] = <<>> /\ stack \in [Task -> Seq(Frame)]
  BY <1>1 DEF CallsInv, StacksLive, IInv, TypeOK
<1>3. f.at = "start" /\ f \in Frame
  BY FramesTyped DEF Plain
<1>4. \A v \in Task : life'[v] = "ended" <=> life[v] = "ended"
  BY <1>1 DEF IInv, TypeOK
<1>5. Len(stack[u]) <= MaxDepth
  BY <1>2, BoundAssumption
<1> HIDE DEF f
<1>6. SameCalls(stack, r)
  BY <1>2, <1>3, PushChanges
<1>7. Nested(r)
  BY <1>2, <1>3, <1>5, PushNested
<1>8. r \in [Task -> Seq(Frame)]
  BY <1>2, <1>3, PushTyped
<1>9. \A v \in Task \ {u} : r[v] = stack[v]
  BY <1>2, Pushed
<1> QED BY <1>4, <1>6, <1>7, <1>8, <1>9 DEF f

LEMMA ProgramAcross ==
  ASSUME IInv, IInv', CallsInv, Nested(stack), NEW t \in Task, Program(t)
  PROVE  SendStep /\ Nested(stack')
<1>1. CASE GetMessage(t) \/ Yield(t) \/ \E u \in Task : DirectedYield(t, u)
  <2>1. PICK f : /\ InGuest(t) /\ Deeper(t) /\ life' = life /\ sent' = sent
                 /\ f \in {Plain("look"), Plain("yield")}
                 /\ stack' = Push(stack, t, f)
    BY <1>1 DEF GetMessage, Yield, DirectedYield, Makes
  <2>2. f.at \notin {"send", "answer"}
    BY <2>1 DEF Plain
  <2> QED BY <2>1, <2>2, PushStep
<1>2. CASE \/ BeginPaint(t) \/ Lock(t)
           \/ \E u \in Task : Post(t, u) \/ Invalidate(t, u)
  <2>1. life' = life /\ sent' = sent /\ stack' = stack
    BY <1>2 DEF BeginPaint, Lock, Post, Invalidate
  <2> QED BY <2>1, KeptStep
<1>3. CASE HookReturn(t)
  <2>1. /\ stack[t] # <<>> /\ Top(t).at = "hook" /\ life' = life /\ sent' = sent
        /\ stack' = Pop(stack, t) \/ stack' = Pop(Pop(stack, t), t)
    BY <1>3 DEF HookReturn, At
  <2>2. CASE stack' = Pop(stack, t)
    BY <2>1, <2>2, PopStep
  <2>3. CASE stack' = Pop(Pop(stack, t), t)
    <3> DEFINE r == Pop(stack, t)
               n == Len(stack[t])
    <3>1. stack \in [Task -> Seq(Frame)] /\ r \in [Task -> Seq(Frame)]
      BY PopTyped DEF IInv, TypeOK
    <3>2. /\ n \in Nat \ {0} /\ DOMAIN stack[t] = 1 .. n /\ Len(r[t]) = n - 1
          /\ \A i \in 1 .. n - 1 : r[t][i] = stack[t][i]
      BY <2>1, <3>1, Popped
    <3>3. n > 1 /\ stack[t][n - 1].at = "reading"
      <4>1. n \in DOMAIN stack[t] /\ stack[t][n].at = "hook"
        BY <2>1, <3>2 DEF Top
      <4> HIDE DEF n
      <4> QED BY <4>1 DEF CallsInv, Shaped
    <3>4. SameCalls(stack, r) /\ Nested(r)
      BY <2>1, <3>1, PopChanges, PopNested DEF Top
    <3>5. stack' = Pop(r, t)
      BY <2>3
    <3> HIDE DEF r
    <3>6. r[t] # <<>> /\ r[t][Len(r[t])].at = "reading"
      BY <3>1, <3>2, <3>3
    <3>7. SameCalls(r, stack') /\ Nested(stack')
      BY <3>1, <3>4, <3>5, <3>6, PopChanges, PopNested
    <3>8. SameCalls(stack, stack')
      BY <3>4, <3>7, SameBoth
    <3> QED BY <2>1, <3>7, <3>8, QuietStep
  <2> QED BY <2>1, <2>2, <2>3
<1>4. CASE ReturnAnswer(t)
  BY <1>4, FinishStep
<1>5. CASE Reply(t)
  BY <1>5, ReplyStep
<1>6. ASSUME NEW u \in Task, Send(t, u) PROVE SendStep /\ Nested(stack')
  BY <1>6, AskStep
<1>7. ASSUME NEW u \in Task, Exec(t, u) PROVE SendStep /\ Nested(stack')
  <2> DEFINE r == Push(stack, u, Plain("start"))
             f == Plain("yield")
  <2>1. /\ Made(u) /\ sent' = sent /\ stack' = Push(r, t, f)
        /\ life[u] = "unmade" /\ current = t
    BY <1>7 DEF Exec, Made, Makes, InGuest
  <2>2. /\ Len(stack[t]) < MaxDepth
        /\ stack[t] # <<>> => stack[t][Len(stack[t])].at # "send"
    BY <1>7 DEF Exec, Makes, InGuest, Deeper, Top
  <2>3. /\ SameCalls(stack, r) /\ Nested(r) /\ r \in [Task -> Seq(Frame)]
        /\ \A v \in Task \ {u} : r[v] = stack[v]
        /\ \A v \in Task : life'[v] = "ended" <=> life[v] = "ended"
    BY <2>1, MadeRead
  <2>4. t # u
    BY <2>1, RunningLive
  <2> HIDE DEF r
  <2>5. r[t] = stack[t]
    BY <2>3, <2>4
  <2>6. f.at = "yield"
    BY DEF Plain
  <2> HIDE DEF f
  <2>7. Len(r[t]) \in Nat /\ Len(r[t]) <= MaxDepth /\ Len(r[t]) # MaxDepth
    BY <2>2, <2>5, DepthsOf, BoundAssumption
  <2>8. SameCalls(r, stack')
    BY <2>1, <2>3, <2>6, PushChanges
  <2>9. Nested(stack')
    <3>1. r[t] # <<>> => r[t][Len(r[t])].at # "send"
      BY <2>2, <2>5
    <3> QED BY <2>1, <2>3, <2>6, <2>7, <3>1, PushNested
  <2>10. SameCalls(stack, stack')
    BY <2>3, <2>8, SameBoth
  <2> QED BY <2>1, <2>3, <2>9, <2>10, QuietStep
<1>8. CASE Exit(t)
  <2>1. life[t] = "live" /\ Gone(t)
    BY <1>8, RunningLive DEF Exit, Makes, InGuest
  <2> QED BY <2>1, EndStep
<1>9. ASSUME NEW u \in Task, Terminate(t, u) PROVE SendStep /\ Nested(stack')
  <2>1. life[u] = "live" /\ Gone(u)
    BY <1>9 DEF Terminate, Live
  <2> QED BY <2>1, EndStep
<1> QED BY <1>1, <1>2, <1>3, <1>4, <1>5, <1>6, <1>7, <1>8, <1>9 DEF Program

LEMMA HostAcross ==
  ASSUME IInv, IInv', CallsInv, Nested(stack), Host
  PROVE  SendStep /\ Nested(stack')
<1>1. ASSUME NEW u \in Task, TimeComes(u) \/ HostInput(u) PROVE SendStep /\ Nested(stack')
  <2>1. life' = life /\ stack' = stack /\ sent' = sent
    BY <1>1 DEF TimeComes, HostInput, queues
  <2> QED BY <2>1, KeptStep
<1>2. ASSUME NEW u \in Task, Launch(u) PROVE SendStep /\ Nested(stack')
  <2>1. Made(u) /\ sent' = sent /\ stack' = Push(stack, u, Plain("start"))
    BY <1>2 DEF Launch
  <2> QED BY <2>1, MadeRead, QuietStep
<1> QED BY <1>1, <1>2 DEF Host

\* Above a call still made lies a message taken, and nothing lies deeper than
\* a program may call but a procedure, in every state the tasks can come to.
CallsNest == Nested(stack)

\* Whatever the tasks interleave, and whichever end, they keep what SendMessage
\* promises: each step of theirs is one of SendCall's or changes nothing there
\* (tasks.rs: send_across, take_sent; reply_message.rs).
THEOREM TasksSendAsCalls == Spec => SendsAsCalls
<1>1. Init => Across!Init /\ CallsNest
  <2> SUFFICES ASSUME Init PROVE Across!Init /\ CallsNest
    OBVIOUS
  <2>1. /\ stack = [u \in Task |-> <<>>] /\ sent = [u \in Task |-> <<>>]
        /\ \A u \in Task : life[u] # "ended"
    BY DEF Init
  <2>2. CallsNest
    BY <2>1, BoundAssumption DEF CallsNest, Nested
  <2>3. CallsOn(stack) = [t \in Task |-> [d \in Depths |-> "none"]]
    BY <2>1 DEF CallsOn, CallAt
  <2>4. AnswersOn(stack) = [t \in Task |-> {}]
    BY <2>1 DEF AnswersOn
  <2> QED BY <2>1, <2>2, <2>3, <2>4 DEF Across!Init
<1>2. IInv /\ IInv' /\ CallsInv /\ CallsNest /\ [Next]_vars =>
        [Across!Next]_(Across!calls) /\ CallsNest'
  <2> SUFFICES ASSUME IInv, IInv', CallsInv, CallsNest, [Next]_vars
               PROVE  [Across!Next]_(Across!calls) /\ CallsNest'
    OBVIOUS
  <2>1. Nested(stack)
    BY DEF CallsNest
  <2>2. ASSUME Next PROVE SendStep /\ Nested(stack')
    BY <2>1, <2>2, EngineAcross, ProgramAcross, HostAcross DEF Next
  <2>3. ASSUME UNCHANGED vars PROVE SendStep /\ Nested(stack')
    BY <2>1, <2>3, KeptStep DEF vars
  <2>4. SendStep /\ Nested(stack')
    BY <2>2, <2>3
  <2>5. CallsNest'
    BY <2>4 DEF CallsNest, Nested
  <2> QED BY <2>4, <2>5 DEF SendStep
<1> QED BY <1>1, <1>2, InductiveInvariant, CallsInvariant, PTL
        DEF Spec, SendsAsCalls, Across!Spec
=============================================================================
