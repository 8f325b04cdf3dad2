-------------------------- MODULE SequenceLemmas ---------------------------
(* What the sequences are that lists are changed to, and that of natural    *)
(* numbers there is a least: what the proofs about several modules need.    *)
EXTENDS Integers, SequencesExt, SequenceTheorems, WellFoundedInduction, TLAPS

\* Of natural numbers there is a least.
LEMMA Least ==
  ASSUME NEW T, T \subseteq Nat, T # {}
  PROVE  \E n \in T : \A k \in T : n <= k
<1> DEFINE R == {ss \in Nat \X Nat : ss[1] < ss[2]}
<1>1. IsWellFoundedOn(R, Nat)
  BY NatLessThanWellFounded DEF OpToRel
<1>2. \E n \in T : \A k \in T : ~ (<<k, n>> \in R)
  BY <1>1, WFMin
<1>3. ASSUME NEW n \in T, \A k \in T : ~ (<<k, n>> \in R)
      PROVE  \A k \in T : n <= k
  <2> SUFFICES ASSUME NEW k \in T PROVE n <= k
    OBVIOUS
  <2>1. <<k, n>> \in Nat \X Nat /\ ~ (<<k, n>> \in R)
    BY <1>3
  <2>2. ~ (k < n)
    BY <2>1 DEF R
  <2> QED BY <2>2
<1> HIDE DEF R
<1> QED BY <1>2, <1>3

\* What SubSeq is, from the start and to the end.
LEMMA Parts ==
  ASSUME NEW S, NEW l \in Seq(S), NEW i \in 1 .. Len(l) + 1
  PROVE  /\ SubSeq(l, 1, i - 1) \in Seq(S)
         /\ Len(SubSeq(l, 1, i - 1)) = i - 1
         /\ \A j \in 1 .. i - 1 : SubSeq(l, 1, i - 1)[j] = l[j]
         /\ SubSeq(l, i, Len(l)) \in Seq(S)
         /\ Len(SubSeq(l, i, Len(l))) = Len(l) + 1 - i
         /\ \A j \in 1 .. Len(l) + 1 - i : SubSeq(l, i, Len(l))[j] = l[j + i - 1]
<1>1. Len(l) \in Nat /\ DOMAIN l = 1 .. Len(l)
  OBVIOUS
<1>2. \A j \in 1 .. Len(l) : l[j] \in S
  BY <1>1
<1>3. \A j \in 1 .. i - 1 : l[j] \in S
  BY <1>1, <1>2
<1>4. \A j \in i .. Len(l) : l[j] \in S
  BY <1>1, <1>2
<1>5. /\ SubSeq(l, 1, i - 1) \in Seq(S)
      /\ Len(SubSeq(l, 1, i - 1)) = i - 1
      /\ \A j \in 1 .. i - 1 : SubSeq(l, 1, i - 1)[j] = l[j]
  BY <1>1, <1>3, SubSeqProperties
<1>6. /\ SubSeq(l, i, Len(l)) \in Seq(S)
      /\ Len(SubSeq(l, i, Len(l))) = Len(l) + 1 - i
      /\ \A j \in 1 .. Len(l) + 1 - i : SubSeq(l, i, Len(l))[j] = l[j + i - 1]
  BY <1>1, <1>4, SubSeqProperties
<1> QED BY <1>5, <1>6

\* A sequence, from the function it is.
LEMMA SeqOfFcn ==
  ASSUME NEW S, NEW n \in Nat, NEW f \in [1 .. n -> S]
  PROVE  f \in Seq(S) /\ DOMAIN f = 1 .. n
BY SeqDef

\* Two sequences one after the other.
LEMMA Joined ==
  ASSUME NEW S, NEW a \in Seq(S), NEW b \in Seq(S)
  PROVE  /\ a \o b \in Seq(S)
         /\ Len(a \o b) = Len(a) + Len(b)
         /\ \A j \in 1 .. Len(a) : (a \o b)[j] = a[j]
         /\ \A j \in Len(a) + 1 .. Len(a) + Len(b) :
              (a \o b)[j] = b[j - Len(a)]
<1>1. Len(a) \in Nat /\ Len(b) \in Nat
  OBVIOUS
<1>2. /\ a \o b \in Seq(S)
      /\ Len(a \o b) = Len(a) + Len(b)
      /\ \A j \in 1 .. Len(a) + Len(b) :
           (a \o b)[j] = IF j <= Len(a) THEN a[j] ELSE b[j - Len(a)]
  BY ConcatProperties
<1>3. ASSUME NEW j \in 1 .. Len(a) PROVE (a \o b)[j] = a[j]
  BY <1>1, <1>2
<1>4. ASSUME NEW j \in Len(a) + 1 .. Len(a) + Len(b)
      PROVE  (a \o b)[j] = b[j - Len(a)]
  BY <1>1, <1>2
<1> QED BY <1>2, <1>3, <1>4

\* The list with an element put in at a place.
LEMMA InsertAtParts ==
  ASSUME NEW S, NEW l \in Seq(S), NEW h \in S, NEW i \in 1 .. Len(l) + 1
  PROVE  /\ InsertAt(l, i, h) \in Seq(S)
         /\ Len(InsertAt(l, i, h)) = Len(l) + 1
         /\ \A j \in 1 .. i - 1 : InsertAt(l, i, h)[j] = l[j]
         /\ InsertAt(l, i, h)[i] = h
         /\ \A j \in i + 1 .. Len(l) + 1 : InsertAt(l, i, h)[j] = l[j - 1]
<1> DEFINE a == SubSeq(l, 1, i - 1)
           b == SubSeq(l, i, Len(l))
           o == <<h>>
           c == a \o o
<1>1. /\ a \in Seq(S) /\ Len(a) = i - 1 /\ \A j \in 1 .. i - 1 : a[j] = l[j]
      /\ b \in Seq(S) /\ Len(b) = Len(l) + 1 - i
      /\ \A j \in 1 .. Len(l) + 1 - i : b[j] = l[j + i - 1]
  BY Parts
<1>2. Len(l) \in Nat /\ i \in Nat /\ i >= 1 /\ i <= Len(l) + 1
  OBVIOUS
<1>3. o \in Seq(S) /\ Len(o) = 1 /\ o[1] = h
  OBVIOUS
<1> HIDE DEF a, b, o
<1>4. /\ c \in Seq(S) /\ Len(c) = i
      /\ \A j \in 1 .. i - 1 : c[j] = a[j]
      /\ c[i] = h
  <2>1. /\ c \in Seq(S) /\ Len(c) = Len(a) + Len(o)
        /\ \A j \in 1 .. Len(a) : c[j] = a[j]
        /\ \A j \in Len(a) + 1 .. Len(a) + Len(o) : c[j] = o[j - Len(a)]
    <3>1. a \in Seq(S) /\ o \in Seq(S)
      BY <1>1, <1>3
    <3> QED BY <3>1, Joined
  <2>2. c[i] = o[i - (i - 1)]
    <3>1. Len(a) = i - 1 /\ i \in Len(a) + 1 .. Len(a) + Len(o)
      BY <1>1, <1>2, <1>3
    <3>2. c[i] = o[i - Len(a)]
      BY <2>1, <3>1
    <3> QED BY <3>1, <3>2
  <2>3. i - (i - 1) = 1
    BY <1>2
  <2> HIDE DEF c
  <2> QED BY <1>1, <1>2, <1>3, <2>1, <2>2, <2>3
<1> HIDE DEF c
<1>5. /\ c \o b \in Seq(S) /\ Len(c \o b) = Len(l) + 1
      /\ \A j \in 1 .. i : (c \o b)[j] = c[j]
      /\ \A j \in i + 1 .. Len(l) + 1 : (c \o b)[j] = b[j - i]
  <2>1. /\ c \o b \in Seq(S) /\ Len(c \o b) = Len(c) + Len(b)
        /\ \A j \in 1 .. Len(c) : (c \o b)[j] = c[j]
        /\ \A j \in Len(c) + 1 .. Len(c) + Len(b) :
             (c \o b)[j] = b[j - Len(c)]
    <3>1. c \in Seq(S) /\ b \in Seq(S)
      BY <1>1, <1>4
    <3> QED BY <3>1, Joined
  <2> QED BY <1>1, <1>2, <1>4, <2>1
<1>6. \A j \in i + 1 .. Len(l) + 1 : (c \o b)[j] = l[j - 1]
  BY <1>1, <1>2, <1>5
<1>7. \A j \in 1 .. i - 1 : (c \o b)[j] = l[j]
  BY <1>1, <1>2, <1>4, <1>5
<1>8. InsertAt(l, i, h) = c \o b
  BY DEF InsertAt, a, b, o, c
<1> QED BY <1>2, <1>4, <1>5, <1>6, <1>7, <1>8

\* The list without what was at a place.
LEMMA RemoveAtParts ==
  ASSUME NEW S, NEW l \in Seq(S), NEW i \in 1 .. Len(l)
  PROVE  /\ RemoveAt(l, i) \in Seq(S)
         /\ Len(RemoveAt(l, i)) = Len(l) - 1
         /\ \A j \in 1 .. i - 1 : RemoveAt(l, i)[j] = l[j]
         /\ \A j \in i .. Len(l) - 1 : RemoveAt(l, i)[j] = l[j + 1]
<1> DEFINE a == SubSeq(l, 1, i - 1)
           b == SubSeq(l, i + 1, Len(l))
<1>1. Len(l) \in Nat /\ i \in Nat /\ i >= 1 /\ i <= Len(l)
  OBVIOUS
<1>2. /\ a \in Seq(S) /\ Len(a) = i - 1 /\ \A j \in 1 .. i - 1 : a[j] = l[j]
  BY <1>1, Parts
<1>3. /\ b \in Seq(S) /\ Len(b) = Len(l) - i
      /\ \A j \in 1 .. Len(l) - i : b[j] = l[j + i]
  <2> DEFINE k == i + 1
  <2>1. k \in 1 .. Len(l) + 1
    BY <1>1
  <2>2. /\ b \in Seq(S) /\ Len(b) = Len(l) + 1 - k
        /\ \A j \in 1 .. Len(l) + 1 - k : b[j] = l[j + k - 1]
    BY <2>1, Parts
  <2> QED BY <1>1, <2>2
<1> HIDE DEF a, b
<1>4. /\ a \o b \in Seq(S) /\ Len(a \o b) = Len(l) - 1
      /\ \A j \in 1 .. i - 1 : (a \o b)[j] = a[j]
      /\ \A j \in i .. Len(l) - 1 : (a \o b)[j] = b[j - (i - 1)]
  <2>1. /\ a \o b \in Seq(S) /\ Len(a \o b) = Len(a) + Len(b)
        /\ \A j \in 1 .. Len(a) : (a \o b)[j] = a[j]
        /\ \A j \in Len(a) + 1 .. Len(a) + Len(b) :
             (a \o b)[j] = b[j - Len(a)]
    BY <1>2, <1>3, Joined
  <2> QED BY <1>1, <1>2, <1>3, <2>1
<1>5. \A j \in i .. Len(l) - 1 : (a \o b)[j] = l[j + 1]
  BY <1>1, <1>3, <1>4
<1>6. RemoveAt(l, i) = a \o b
  BY DEF RemoveAt, a, b
<1> QED BY <1>2, <1>4, <1>5, <1>6

\* A sequence with an element after it.
LEMMA AppendParts ==
  ASSUME NEW S, NEW l \in Seq(S), NEW x \in S
  PROVE  /\ Append(l, x) \in Seq(S)
         /\ Len(Append(l, x)) = Len(l) + 1
         /\ DOMAIN Append(l, x) = 1 .. Len(l) + 1
         /\ \A j \in 1 .. Len(l) : Append(l, x)[j] = l[j]
         /\ Append(l, x)[Len(l) + 1] = x
         /\ Len(l) \in Nat /\ DOMAIN l = 1 .. Len(l)
<1> DEFINE a == Append(l, x)
<1>1. a \in Seq(S) /\ Len(a) = Len(l) + 1 /\ a[Len(l) + 1] = x
      /\ \A j \in 1 .. Len(l) : a[j] = l[j]
  OBVIOUS
<1>2. Len(l) \in Nat /\ DOMAIN l = 1 .. Len(l)
  OBVIOUS
<1> HIDE DEF a
<1>3. DOMAIN a = 1 .. Len(l) + 1
  BY <1>1
<1> QED BY <1>1, <1>2, <1>3 DEF a

\* A sequence without its last element, and that element.
LEMMA FrontParts ==
  ASSUME NEW S, NEW l \in Seq(S), l # <<>>
  PROVE  /\ Len(l) \in Nat /\ Len(l) > 0 /\ DOMAIN l = 1 .. Len(l)
         /\ Front(l) \in Seq(S)
         /\ Len(Front(l)) = Len(l) - 1
         /\ DOMAIN Front(l) = 1 .. Len(l) - 1
         /\ \A j \in 1 .. Len(l) - 1 : Front(l)[j] = l[j]
         /\ Last(l) = l[Len(l)] /\ Last(l) \in S
<1>1. Len(l) \in Nat /\ Len(l) > 0 /\ DOMAIN l = 1 .. Len(l)
  OBVIOUS
<1>2. Len(l) \in 1 .. Len(l) + 1
  BY <1>1
<1> DEFINE front == SubSeq(l, 1, Len(l) - 1)
<1>3. /\ front \in Seq(S) /\ Len(front) = Len(l) - 1
      /\ \A j \in 1 .. Len(l) - 1 : front[j] = l[j]
  BY <1>2, Parts
<1>4. Front(l) = front
  BY DEF Front
<1> HIDE DEF front
<1>5. DOMAIN front = 1 .. Len(l) - 1
  BY <1>3
<1>6. Last(l) = l[Len(l)] /\ Last(l) \in S
  BY <1>1 DEF Last
<1> QED BY <1>1, <1>3, <1>4, <1>5, <1>6

\* A sequence with its last element another.
LEMMA RetopParts ==
  ASSUME NEW S, NEW l \in Seq(S), l # <<>>, NEW x \in S
  PROVE  /\ Append(Front(l), x) \in Seq(S)
         /\ Len(Append(Front(l), x)) = Len(l)
         /\ DOMAIN Append(Front(l), x) = 1 .. Len(l)
         /\ \A j \in 1 .. Len(l) - 1 : Append(Front(l), x)[j] = l[j]
         /\ Append(Front(l), x)[Len(l)] = x
<1> DEFINE a == Front(l)
<1>1. /\ Len(l) \in Nat /\ Len(l) > 0 /\ a \in Seq(S) /\ Len(a) = Len(l) - 1
      /\ \A j \in 1 .. Len(l) - 1 : a[j] = l[j]
  BY FrontParts
<1> HIDE DEF a
<1>2. /\ Append(a, x) \in Seq(S) /\ Len(Append(a, x)) = Len(a) + 1
      /\ DOMAIN Append(a, x) = 1 .. Len(a) + 1
      /\ \A j \in 1 .. Len(a) : Append(a, x)[j] = a[j]
      /\ Append(a, x)[Len(a) + 1] = x
  BY <1>1, AppendParts
<1>3. Len(a) + 1 = Len(l)
  BY <1>1
<1> QED BY <1>1, <1>2, <1>3 DEF a
=============================================================================
