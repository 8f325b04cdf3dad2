------------------------- MODULE SystemQueueProofs -------------------------
(***************************************************************************)
(* What of the system queue holds of every instance of SystemQueue.        *)
(*                                                                         *)
(* An action puts one frame on a task's stack, in place of the inmost or   *)
(* over it, or takes the inmost away; the other frames stay, but that some *)
(* sleeper may be woken (Steps).  So what is said of the frames one by one *)
(* is to be shown of the new one, and of the others only as the queue and  *)
(* what was given change (StepKeeps).                                      *)
(***************************************************************************)
EXTENDS SystemQueue, FiniteSetTheorems, SequenceLemmas

-----------------------------------------------------------------------------
(* The invariant.                                                          *)

\* The hypothesis of EventOnce: where a hook is asked about the mouse's event,
\* no procedure looks of its own.
HookedOnce == "mousehook" \in Features => MaxDepth <= 1

\* The frames whose event is theirs: nothing else hands it over.
Owns(f) == f.at \in {"told", "asked"} \/ (f.at = "key" /\ f.way.remove)

ReadingAt(f) == f.at \in {"read"} \cup Procedures

\* Of the queue: no serial twice, none not given out yet.
QueueOnce(q, n) ==
  /\ q \in Seq(Event)
  /\ \A i, j \in DOMAIN q : q[i].serial = q[j].serial => i = j
  /\ \A i \in DOMAIN q : q[i].serial <= n

\* Of what was given: nothing twice, and nothing still in the queue.
GivenOnce(g, q, n) ==
  /\ g \in Seq(1 .. MaxEvents)
  /\ \A i, j \in DOMAIN g : g[i] = g[j] => i = j
  /\ \A i \in DOMAIN g : g[i] <= n
  /\ \A i \in DOMAIN g : \A j \in DOMAIN q : q[j].serial # g[i]

\* Of a frame: what it owns was not given, and is in the queue only while the
\* mouse's hook is asked about it.
Framed(f, q, g, n) ==
  /\ f.at # "sent" => f.way \in Ways
  /\ f.at = "asked" => "mousehook" \in Features
  /\ f.at \in Procedures => f.one \in Event /\ f.one.serial <= n
  /\ Owns(f) =>
       /\ \A i \in DOMAIN g : g[i] # f.one.serial
       /\ \A j \in DOMAIN q : q[j].serial = f.one.serial
                                => f.at = "asked" /\ q[j] = f.one

\* No other frame than a task's n-th owns the event of a serial.
Free(t, n, s) ==
  \A u \in Task : \A i \in DOMAIN stack[u] :
    Owns(stack[u][i]) /\ stack[u][i].one.serial = s => u = t /\ i = n

Framing ==
  \A t \in Task : \A i \in DOMAIN stack[t] :
    /\ Framed(stack[t][i], queue, given, serials)
    /\ Owns(stack[t][i]) => Free(t, i, stack[t][i].one.serial)

Shape == \A t \in Task : /\ Len(stack[t]) <= MaxDepth
                         /\ t \notin live => stack[t] = <<>>

\* Where no look is within another, the task that reads holds the input.
ReaderHolds == MaxDepth <= 1 => \A t \in live : Reading(t) => lock = t

\* The types that no other part of the invariant has to do with.
Plain ==
  /\ live \subseteq Task
  /\ serials \in 0 .. MaxEvents
  /\ focus \in Task \cup {None}
  /\ lock \in Task \cup {None}
  /\ first \in BOOLEAN
  /\ posts \in 0 .. MaxPosts
  /\ mark \in 0 .. INPUT_MARK + posts
  /\ taken \in [Task -> 0 .. INPUT_MARK + posts]
  /\ posted \in [Task -> Seq(INPUT_MARK + 1 .. INPUT_MARK + posts)]

QInv ==
  /\ Plain
  /\ stack \in [Task -> Seq(Frame)]
  /\ QueueOnce(queue, serials)
  /\ GivenOnce(given, queue, serials)
  /\ Framing
  /\ Shape
  /\ ReaderHolds

-----------------------------------------------------------------------------
(* Steps of the stacks.                                                    *)

\* A frame as it was, or woken.
Old(g, f) == g = f \/ (f.at = "asleep" /\ g = [f EXCEPT !.at = "woken"])

\* Stacks with some sleeper woken.
Woken(s) ==
  /\ s \in [Task -> Seq(Frame)]
  /\ \A u \in Task : /\ Len(s[u]) = Len(stack[u])
                     /\ \A i \in 1 .. Len(stack[u]) : Old(s[u][i], stack[u][i])

\* Stacks with a task's n-th frame another or gone, and some sleeper woken.
Steps(s, t, n, f) ==
  /\ s \in [Task -> Seq(Frame)]
  /\ \A u \in Task :
       \/ Len(s[u]) <= Len(stack[u])
       \/ u = t /\ t \in live /\ Len(s[t]) <= MaxDepth
  /\ \A u \in Task : \A i \in DOMAIN s[u] :
       \/ u = t /\ i = n /\ s[u][i] = f
       \/ i \in DOMAIN stack[u] /\ (u # t \/ i # n) /\ Old(s[u][i], stack[u][i])

\* The records that frames are.
LEMMA Made ==
  ASSUME NEW f \in Frame, NEW p \in Places, NEW b \in BOOLEAN,
         NEW i \in 1 .. MaxEvents + 1, NEW k \in 1 .. MaxEvents,
         NEW e \in Event \cup {NoEvent}
  PROVE  /\ [f EXCEPT !.at = p] \in Frame
         /\ [f EXCEPT !.at = "read", !.early = b, !.index = i] \in Frame
         /\ [f EXCEPT !.at = "posted", !.early = FALSE] \in Frame
         /\ [f EXCEPT !.at = "read", !.index = i, !.one = NoEvent] \in Frame
         /\ [f EXCEPT !.at = p, !.one = e] \in Frame
         /\ [f EXCEPT !.at = "told", !.one = e, !.back = k] \in Frame
<1>1. "read" \in Places /\ "posted" \in Places /\ "told" \in Places
  BY DEF Places, Machine, Procedures
<1>2. NoEvent \in Event \cup {NoEvent}
  OBVIOUS
<1> HIDE DEF NoEvent
<1>3. f = [at |-> f.at, way |-> f.way, early |-> f.early,
           index |-> f.index, back |-> f.back, one |-> f.one]
      /\ f.at \in Places /\ f.way \in Way /\ f.early \in BOOLEAN
      /\ f.index \in 1 .. MaxEvents + 1 /\ f.back \in 1 .. MaxEvents
      /\ f.one \in Event \cup {NoEvent}
  BY DEF Frame
<1>4. [f EXCEPT !.at = p] \in Frame
  BY <1>3 DEF Frame
<1>5. [f EXCEPT !.at = "read", !.early = b, !.index = i] \in Frame
  BY <1>1, <1>3 DEF Frame
<1>6. [f EXCEPT !.at = "posted", !.early = FALSE] \in Frame
  BY <1>1, <1>3 DEF Frame
<1>7. [f EXCEPT !.at = "read", !.index = i, !.one = NoEvent] \in Frame
  BY <1>1, <1>2, <1>3 DEF Frame
<1>8. [f EXCEPT !.at = p, !.one = e] \in Frame
  BY <1>3 DEF Frame
<1>9. [f EXCEPT !.at = "told", !.one = e, !.back = k] \in Frame
  BY <1>1, <1>3 DEF Frame
<1> QED BY <1>4, <1>5, <1>6, <1>7, <1>8, <1>9

\* The frames of looks as they begin, or wait, and of a message's procedure.
LEMMA LookMade ==
  ASSUME NEW w \in Way
  PROVE  /\ LookFrame("loop", w) \in Frame
         /\ LookFrame("asleep", w) \in Frame
         /\ SentFrame \in Frame
<1>1. {"loop", "asleep", "sent"} \subseteq Places
  BY DEF Places, Machine
<1>2. 1 \in 1 .. MaxEvents + 1 /\ 1 \in 1 .. MaxEvents
  BY LimitsAssumption
<1>3. NoEvent \in Event \cup {NoEvent}
  OBVIOUS
<1> HIDE DEF NoEvent
<1>4. [remove |-> FALSE, wait |-> FALSE, kinds |-> {}] \in Way
  BY DEF Way
<1> QED BY <1>1, <1>2, <1>3, <1>4 DEF Frame, LookFrame, SentFrame

\* A sleeper signalled: the stacks else as they were.
LEMMA SignalParts ==
  ASSUME stack \in [Task -> Seq(Frame)], NEW u
  PROVE  Woken(Signal(stack, u)) /\ Woken(stack)
         /\ \A v \in Task \ {u} : Signal(stack, u)[v] = stack[v]
<1>1. Woken(stack)
  BY DEF Woken, Old
<1>2. CASE ~ (u \in live /\ stack[u] # <<>> /\ Last(stack[u]).at = "asleep")
  BY <1>1, <1>2 DEF Signal
<1>3. CASE u \in live /\ stack[u] # <<>> /\ Last(stack[u]).at = "asleep"
  <2> DEFINE f == [Last(stack[u]) EXCEPT !.at = "woken"]
             l == Append(Front(stack[u]), f)
             s == [stack EXCEPT ![u] = l]
  <2>1. CASE u \in Task
    <3>1. /\ Last(stack[u]) \in Frame /\ Last(stack[u]) = stack[u][Len(stack[u])]
          /\ DOMAIN stack[u] = 1 .. Len(stack[u]) /\ Len(stack[u]) \in Nat
      BY <1>3, <2>1, FrontParts
    <3>2. f \in Frame
      <4>1. "woken" \in Places
        BY DEF Places
      <4> QED BY <3>1, <4>1 DEF Frame
    <3> HIDE DEF f
    <3>3. /\ l \in Seq(Frame) /\ Len(l) = Len(stack[u])
          /\ \A j \in 1 .. Len(stack[u]) - 1 : l[j] = stack[u][j]
          /\ l[Len(stack[u])] = f
      BY <1>3, <2>1, <3>2, RetopParts
    <3> HIDE DEF l
    <3>4. s \in [Task -> Seq(Frame)] /\ s[u] = l
          /\ \A v \in Task \ {u} : s[v] = stack[v]
      BY <2>1, <3>3
    <3> HIDE DEF s
    <3>5. Old(f, stack[u][Len(stack[u])])
      BY <1>3, <3>1 DEF f, Old
    <3>6. ASSUME NEW i \in 1 .. Len(stack[u]) PROVE Old(s[u][i], stack[u][i])
      <4>1. CASE i = Len(stack[u])
        BY <3>3, <3>4, <3>5, <4>1
      <4>2. CASE i # Len(stack[u])
        <5>1. i \in 1 .. Len(stack[u]) - 1
          BY <3>1, <3>6, <4>2
        <5>2. s[u][i] = stack[u][i]
          BY <3>3, <3>4, <5>1
        <5> QED BY <5>2 DEF Old
      <4> QED BY <4>1, <4>2
    <3>7. Woken(s)
      BY <3>3, <3>4, <3>6 DEF Woken, Old
    <3>8. Signal(stack, u) = s
      BY <1>3 DEF Signal, Replace, s, l, f
    <3> QED BY <1>1, <3>4, <3>7, <3>8
  <2>2. CASE u \notin Task
    <3>1. Signal(stack, u) = stack
      BY <1>3, <2>2 DEF Signal, Replace
    <3> QED BY <1>1, <3>1
  <2> QED BY <2>1, <2>2
<1> QED BY <1>2, <1>3

\* The stacks only with a sleeper woken.
LEMMA Whole ==
  ASSUME NEW s, Woken(s), NEW t \in Task, NEW f \in Frame,
         stack \in [Task -> Seq(Frame)]
  PROVE  Steps(s, t, 0, f)
<1>1. \A u \in Task : /\ DOMAIN s[u] = 1 .. Len(s[u])
                      /\ DOMAIN stack[u] = 1 .. Len(stack[u])
  BY DEF Woken
<1>2. ASSUME NEW u \in Task PROVE Len(s[u]) <= Len(stack[u])
  <2>1. Len(stack[u]) \in Nat /\ Len(s[u]) = Len(stack[u])
    BY DEF Woken
  <2> QED BY <2>1
<1>3. ASSUME NEW u \in Task, NEW i \in DOMAIN s[u]
      PROVE  i \in DOMAIN stack[u] /\ (u # t \/ i # 0) /\ Old(s[u][i], stack[u][i])
  <2>1. DOMAIN s[u] = 1 .. Len(stack[u])
    BY <1>1 DEF Woken
  <2>2. i \in 1 .. Len(stack[u]) /\ i # 0
    BY <1>3, <2>1
  <2> QED BY <1>1, <2>2 DEF Woken
<1>4. s \in [Task -> Seq(Frame)]
  BY DEF Woken
<1> QED BY <1>2, <1>3, <1>4 DEF Steps

\* A task's inmost frame another.
LEMMA Retop ==
  ASSUME NEW s, Woken(s), NEW t \in live, live \subseteq Task, NEW f \in Frame,
         stack \in [Task -> Seq(Frame)], stack[t] # <<>>, Shape
  PROVE  /\ Steps(Replace(s, t, f), t, Len(stack[t]), f)
         /\ Len(stack[t]) \in 1 .. MaxDepth
<1> DEFINE n == Len(stack[t])
           l == Append(Front(s[t]), f)
           r == [s EXCEPT ![t] = l]
<1>1. n \in Nat /\ n > 0 /\ n <= MaxDepth /\ t \in Task
  BY LimitsAssumption DEF Shape
<1>2. s[t] \in Seq(Frame) /\ Len(s[t]) = n /\ s \in [Task -> Seq(Frame)]
  BY <1>1 DEF Woken
<1>3. s[t] # <<>>
  BY <1>1, <1>2
<1>4. /\ l \in Seq(Frame) /\ Len(l) = n /\ DOMAIN l = 1 .. n
      /\ \A j \in 1 .. n - 1 : l[j] = s[t][j]
      /\ l[n] = f
  BY <1>2, <1>3, RetopParts
<1> HIDE DEF l
<1>5. r \in [Task -> Seq(Frame)] /\ r[t] = l /\ \A u \in Task \ {t} : r[u] = s[u]
  BY <1>1, <1>2, <1>4
<1> HIDE DEF r
<1>6. \A u \in Task : /\ DOMAIN s[u] = 1 .. Len(s[u]) /\ Len(s[u]) = Len(stack[u])
                      /\ DOMAIN stack[u] = 1 .. Len(stack[u])
                      /\ \A i \in 1 .. Len(stack[u]) : Old(s[u][i], stack[u][i])
  BY DEF Woken
<1>7. ASSUME NEW u \in Task, NEW i \in DOMAIN r[u]
      PROVE  \/ u = t /\ i = n /\ r[u][i] = f
             \/ /\ i \in DOMAIN stack[u] /\ (u # t \/ i # n)
                /\ Old(r[u][i], stack[u][i])
  <2>1. CASE u # t
    BY <1>5, <1>6, <1>7, <2>1
  <2>2. CASE u = t /\ i = n
    BY <1>4, <1>5, <2>2
  <2>3. CASE u = t /\ i # n
    <3>1. i \in 1 .. n - 1
      BY <1>1, <1>4, <1>5, <1>7, <2>3
    <3>2. i \in 1 .. Len(stack[t])
      BY <1>1, <3>1
    <3>3. l[i] = s[t][i]
      BY <1>4, <3>1
    <3> QED BY <1>5, <1>6, <2>3, <3>2, <3>3
  <2> QED BY <2>1, <2>2, <2>3
<1>8. \A u \in Task : Len(r[u]) <= Len(stack[u])
  <2> SUFFICES ASSUME NEW u \in Task PROVE Len(r[u]) <= Len(stack[u])
    OBVIOUS
  <2>1. Len(stack[u]) \in Nat
    OBVIOUS
  <2>2. CASE u = t
    BY <1>1, <1>4, <1>5, <2>2
  <2>3. CASE u # t
    <3>1. r[u] = s[u]
      BY <1>5, <2>3
    <3>2. Len(s[u]) = Len(stack[u])
      BY <1>6
    <3> QED BY <2>1, <3>1, <3>2
  <2> QED BY <2>2, <2>3
<1>9. Steps(r, t, n, f)
  BY <1>5, <1>7, <1>8 DEF Steps
<1>10. Replace(s, t, f) = r
  BY DEF Replace, r, l
<1> QED BY <1>1, <1>9, <1>10

\* A task's inmost frame gone.
LEMMA Pop ==
  ASSUME NEW s, Woken(s), NEW t \in live, live \subseteq Task, NEW f \in Frame,
         stack \in [Task -> Seq(Frame)], stack[t] # <<>>, Shape
  PROVE  /\ Steps([s EXCEPT ![t] = Front(@)], t, Len(stack[t]), f)
         /\ Len(stack[t]) \in 1 .. MaxDepth
<1> DEFINE n == Len(stack[t])
           l == Front(s[t])
           r == [s EXCEPT ![t] = l]
<1>1. n \in Nat /\ n > 0 /\ n <= MaxDepth /\ t \in Task
  BY LimitsAssumption DEF Shape
<1>2. s[t] \in Seq(Frame) /\ Len(s[t]) = n /\ s \in [Task -> Seq(Frame)]
  BY <1>1 DEF Woken
<1>3. s[t] # <<>>
  BY <1>1, <1>2
<1>4. /\ l \in Seq(Frame) /\ Len(l) = n - 1 /\ DOMAIN l = 1 .. n - 1
      /\ \A j \in 1 .. n - 1 : l[j] = s[t][j]
  BY <1>2, <1>3, FrontParts
<1> HIDE DEF l
<1>5. r \in [Task -> Seq(Frame)] /\ r[t] = l /\ \A u \in Task \ {t} : r[u] = s[u]
  BY <1>1, <1>2, <1>4
<1> HIDE DEF r
<1>6. \A u \in Task : /\ DOMAIN s[u] = 1 .. Len(s[u]) /\ Len(s[u]) = Len(stack[u])
                      /\ DOMAIN stack[u] = 1 .. Len(stack[u])
                      /\ \A i \in 1 .. Len(stack[u]) : Old(s[u][i], stack[u][i])
  BY DEF Woken
<1>7. ASSUME NEW u \in Task, NEW i \in DOMAIN r[u]
      PROVE  /\ i \in DOMAIN stack[u] /\ (u # t \/ i # n)
             /\ Old(r[u][i], stack[u][i])
  <2>1. CASE u # t
    BY <1>5, <1>6, <1>7, <2>1
  <2>2. CASE u = t
    <3>1. i \in 1 .. n - 1
      BY <1>4, <1>5, <1>7, <2>2
    <3>2. i \in 1 .. Len(stack[t]) /\ i # n
      BY <1>1, <3>1
    <3>3. l[i] = s[t][i]
      BY <1>4, <3>1
    <3> QED BY <1>5, <1>6, <2>2, <3>2, <3>3
  <2> QED BY <2>1, <2>2
<1>8. \A u \in Task : Len(r[u]) <= Len(stack[u])
  <2> SUFFICES ASSUME NEW u \in Task PROVE Len(r[u]) <= Len(stack[u])
    OBVIOUS
  <2>1. Len(stack[u]) \in Nat
    OBVIOUS
  <2>2. CASE u = t
    BY <1>1, <1>4, <1>5, <2>2
  <2>3. CASE u # t
    <3>1. r[u] = s[u]
      BY <1>5, <2>3
    <3>2. Len(s[u]) = Len(stack[u])
      BY <1>6
    <3> QED BY <2>1, <3>1, <3>2
  <2> QED BY <2>2, <2>3
<1>9. Steps(r, t, n, f)
  BY <1>5, <1>7, <1>8 DEF Steps
<1>10. [s EXCEPT ![t] = Front(@)] = r
  BY DEF r, l
<1>11. n \in 1 .. MaxDepth
  BY <1>1
<1> HIDE DEF n
<1>12. Steps([s EXCEPT ![t] = Front(@)], t, n, f)
  BY <1>9, <1>10
<1> QED BY <1>11, <1>12 DEF n

\* A frame over a task's others.
LEMMA Push ==
  ASSUME NEW s, Woken(s), NEW t \in live, live \subseteq Task, NEW f \in Frame,
         stack \in [Task -> Seq(Frame)], Len(stack[t]) < MaxDepth
  PROVE  /\ Steps([s EXCEPT ![t] = Append(@, f)], t, Len(stack[t]) + 1, f)
         /\ Len(stack[t]) + 1 \in 1 .. MaxDepth
<1> DEFINE n == Len(stack[t])
           l == Append(s[t], f)
           r == [s EXCEPT ![t] = l]
<1>1. n \in Nat /\ n + 1 \in 1 .. MaxDepth /\ t \in Task
  BY LimitsAssumption
<1>2. s[t] \in Seq(Frame) /\ Len(s[t]) = n /\ s \in [Task -> Seq(Frame)]
  BY <1>1 DEF Woken
<1>4. /\ l \in Seq(Frame) /\ Len(l) = n + 1 /\ DOMAIN l = 1 .. n + 1
      /\ \A j \in 1 .. n : l[j] = s[t][j]
      /\ l[n + 1] = f
  BY <1>2, AppendParts
<1> HIDE DEF l
<1>5. r \in [Task -> Seq(Frame)] /\ r[t] = l /\ \A u \in Task \ {t} : r[u] = s[u]
  BY <1>1, <1>2, <1>4
<1> HIDE DEF r
<1>6. \A u \in Task : /\ DOMAIN s[u] = 1 .. Len(s[u]) /\ Len(s[u]) = Len(stack[u])
                      /\ DOMAIN stack[u] = 1 .. Len(stack[u])
                      /\ \A i \in 1 .. Len(stack[u]) : Old(s[u][i], stack[u][i])
  BY DEF Woken
<1>7. ASSUME NEW u \in Task, NEW i \in DOMAIN r[u]
      PROVE  \/ u = t /\ i = n + 1 /\ r[u][i] = f
             \/ /\ i \in DOMAIN stack[u] /\ (u # t \/ i # n + 1)
                /\ Old(r[u][i], stack[u][i])
  <2>1. CASE u # t
    BY <1>5, <1>6, <1>7, <2>1
  <2>2. CASE u = t /\ i = n + 1
    BY <1>4, <1>5, <2>2
  <2>3. CASE u = t /\ i # n + 1
    <3>1. i \in 1 .. n
      BY <1>1, <1>4, <1>5, <1>7, <2>3
    <3>3. l[i] = s[t][i]
      BY <1>4, <3>1
    <3> QED BY <1>5, <1>6, <2>3, <3>1, <3>3
  <2> QED BY <2>1, <2>2, <2>3
<1>8. \A u \in Task : Len(r[u]) <= Len(stack[u])
                      \/ (u = t /\ t \in live /\ Len(r[t]) <= MaxDepth)
  <2> SUFFICES ASSUME NEW u \in Task
               PROVE  Len(r[u]) <= Len(stack[u])
                      \/ (u = t /\ t \in live /\ Len(r[t]) <= MaxDepth)
    OBVIOUS
  <2>1. Len(stack[u]) \in Nat
    OBVIOUS
  <2>2. CASE u = t
    BY <1>1, <1>4, <1>5, <2>2
  <2>3. CASE u # t
    <3>1. r[u] = s[u]
      BY <1>5, <2>3
    <3>2. Len(s[u]) = Len(stack[u])
      BY <1>6
    <3> QED BY <2>1, <3>1, <3>2
  <2> QED BY <2>2, <2>3
<1>9. Steps(r, t, n + 1, f)
  BY <1>5, <1>7, <1>8 DEF Steps
<1>10. [s EXCEPT ![t] = Append(@, f)] = r
  BY DEF r, l
<1> QED BY <1>1, <1>9, <1>10

-----------------------------------------------------------------------------
(* The queue changed.                                                      *)

\* A queue of another's events, in the order they have there.
Within(q, p) ==
  /\ q \in Seq(Event)
  /\ \A j \in DOMAIN q : \E k \in DOMAIN p : q[j] = p[k]
  /\ \A i, j \in DOMAIN q :
       i < j => \E k, l \in DOMAIN p : k < l /\ q[i] = p[k] /\ q[j] = p[l]

\* Such a queue holds no serial twice either.
LEMMA WithinOnce ==
  ASSUME NEW p, NEW q, NEW m, QueueOnce(p, m), Within(q, p)
  PROVE  QueueOnce(q, m)
<1>1. DOMAIN q = 1 .. Len(q) /\ DOMAIN p = 1 .. Len(p)
      /\ Len(q) \in Nat /\ Len(p) \in Nat
  BY DEF Within, QueueOnce
<1>2. ASSUME NEW i \in DOMAIN q, NEW j \in DOMAIN q, i < j
      PROVE  q[i].serial # q[j].serial
  <2>1. PICK k \in DOMAIN p, l \in DOMAIN p :
          k < l /\ q[i] = p[k] /\ q[j] = p[l]
    BY <1>2 DEF Within
  <2>2. k # l
    BY <1>1, <2>1
  <2> QED BY <2>1, <2>2 DEF QueueOnce
<1>3. ASSUME NEW i \in DOMAIN q, NEW j \in DOMAIN q, q[i].serial = q[j].serial
      PROVE  i = j
  <2>1. i < j \/ j < i \/ i = j
    BY <1>1
  <2> QED BY <1>2, <1>3, <2>1
<1>4. \A i \in DOMAIN q : q[i].serial <= m
  BY DEF Within, QueueOnce
<1> QED BY <1>3, <1>4 DEF Within, QueueOnce

\* An event out of the queue: what is left, in its order, is not that event.
LEMMA LessParts ==
  ASSUME NEW e, QueueOnce(queue, serials)
  PROVE  /\ Within(Less(e), queue)
         /\ QueueOnce(Less(e), serials)
         /\ \A j \in DOMAIN Less(e) : Less(e)[j] # e
         /\ Queued(e) => \A j \in DOMAIN Less(e) : Less(e)[j].serial # e.serial
         /\ Queued(e) => Place(e) \in DOMAIN queue /\ queue[Place(e)] = e
<1>1. /\ queue \in Seq(Event) /\ Len(queue) \in Nat
      /\ DOMAIN queue = 1 .. Len(queue)
  BY DEF QueueOnce
<1>2. CASE ~ Queued(e)
  <2>1. Less(e) = queue
    BY <1>2 DEF Less
  <2>2. Within(queue, queue)
    BY <1>1 DEF Within
  <2>3. \A j \in DOMAIN queue : queue[j] # e
    BY <1>2 DEF Queued, Range
  <2> QED BY <1>2, <2>1, <2>2, <2>3
<1>3. CASE Queued(e)
  <2> DEFINE i == Place(e)
             q == RemoveAt(queue, i)
  <2>1. i \in DOMAIN queue /\ queue[i] = e
    BY <1>3 DEF Queued, Range, Place
  <2> HIDE DEF i
  <2>2. /\ q \in Seq(Event) /\ Len(q) = Len(queue) - 1
        /\ \A j \in 1 .. i - 1 : q[j] = queue[j]
        /\ \A j \in i .. Len(queue) - 1 : q[j] = queue[j + 1]
    <3>1. queue \in Seq(Event) /\ i \in 1 .. Len(queue)
      BY <1>1, <2>1
    <3> QED BY <3>1, RemoveAtParts
  <2> HIDE DEF q
  <2> DEFINE to(j) == IF j < i THEN j ELSE j + 1
  <2>3. DOMAIN q = 1 .. Len(queue) - 1
    BY <1>1, <2>2
  <2>4. ASSUME NEW j \in DOMAIN q
        PROVE  /\ to(j) \in DOMAIN queue /\ to(j) # i
               /\ q[j] = queue[to(j)]
    <3>1. j \in Nat /\ j >= 1 /\ j <= Len(queue) - 1 /\ i \in Nat
      BY <1>1, <2>1, <2>3
    <3>2. CASE j < i
      BY <1>1, <2>2, <3>1, <3>2
    <3>3. CASE ~ (j < i)
      BY <1>1, <2>2, <3>1, <3>3
    <3> QED BY <3>2, <3>3
  <2>5. ASSUME NEW j \in DOMAIN q, NEW k \in DOMAIN q, j < k
        PROVE  to(j) < to(k)
    BY <1>1, <2>1, <2>3, <2>5
  <2> HIDE DEF to
  <2>6. Within(q, queue)
    BY <2>2, <2>4, <2>5 DEF Within
  <2>7. QueueOnce(q, serials)
    BY <2>6, WithinOnce
  <2>8. \A j \in DOMAIN q : q[j].serial # e.serial
    BY <2>1, <2>4 DEF QueueOnce
  <2>9. Less(e) = q
    BY <1>3 DEF Less, q, i
  <2>10. i = Place(e)
    BY DEF i
  <2> QED BY <2>1, <2>6, <2>7, <2>8, <2>9, <2>10
<1> QED BY <1>2, <1>3

\* The elements of a sequence.
LEMMA Among ==
  ASSUME NEW S, NEW l \in Seq(S)
  PROVE  /\ Len(l) \in Nat /\ DOMAIN l = 1 .. Len(l)
         /\ \A i \in DOMAIN l : l[i] \in S
OBVIOUS

\* There are no more events in the queue than were put in.
LEMMA LenBound ==
  ASSUME NEW q, NEW m, QueueOnce(q, m)
  PROVE  Len(q) \in Nat /\ Len(q) <= MaxEvents
<1>1. Len(q) \in Nat /\ DOMAIN q = 1 .. Len(q) /\ q \in Seq(Event)
  BY DEF QueueOnce
<1>2. MaxEvents \in Nat
  BY LimitsAssumption
<1> DEFINE f == [i \in 1 .. Len(q) |-> q[i].serial]
<1>3. f \in [1 .. Len(q) -> 1 .. MaxEvents]
  <2>1. ASSUME NEW i \in 1 .. Len(q) PROVE q[i].serial \in 1 .. MaxEvents
    <3>1. q[i] \in Event
      BY <1>1
    <3> QED BY <3>1 DEF Event
  <2> QED BY <2>1
<1>4. \A i, j \in DOMAIN f : f[i] = f[j] => i = j
  BY <1>1 DEF QueueOnce
<1> HIDE DEF f
<1>5. f \in Injection(1 .. Len(q), 1 .. MaxEvents)
  BY <1>3, <1>4 DEF Injection, IsInjective
<1>6. IsFiniteSet(1 .. MaxEvents) /\ Cardinality(1 .. MaxEvents) = MaxEvents
  <2>1. 1 \in Int /\ MaxEvents \in Int
    BY <1>2
  <2>2. /\ IsFiniteSet(1 .. MaxEvents)
        /\ Cardinality(1 .. MaxEvents) =
             IF 1 > MaxEvents THEN 0 ELSE MaxEvents - 1 + 1
    BY <2>1, FS_Interval
  <2> QED BY <1>2, <2>2
<1>7. Cardinality(1 .. Len(q)) = Len(q)
  <2>1. 1 \in Int /\ Len(q) \in Int
    BY <1>1
  <2>2. Cardinality(1 .. Len(q)) = IF 1 > Len(q) THEN 0 ELSE Len(q) - 1 + 1
    BY <2>1, FS_Interval
  <2> QED BY <1>1, <2>2
<1>8. Cardinality(1 .. Len(q)) <= Cardinality(1 .. MaxEvents)
  BY <1>5, <1>6, FS_Injection
<1> QED BY <1>1, <1>6, <1>7, <1>8

\* An event put in: the others are what was there, in its order, and it is
\* the last.
LEMMA PutParts ==
  ASSUME NEW e \in Event, e.serial = serials + 1, serials \in Nat,
         QueueOnce(queue, serials)
  PROVE  /\ QueueOnce(Put(e), serials + 1)
         /\ Len(Put(e)) \in Nat /\ Len(Put(e)) > 0 /\ Put(e)[Len(Put(e))] = e
         /\ DOMAIN Put(e) = 1 .. Len(Put(e))
         /\ \A j \in 1 .. Len(Put(e)) - 1 :
              j \in DOMAIN queue /\ Put(e)[j] = queue[j]
<1>1. /\ queue \in Seq(Event) /\ Len(queue) \in Nat
      /\ DOMAIN queue = 1 .. Len(queue)
  BY DEF QueueOnce
<1> DEFINE q == Put(e)
           n == Len(q)
<1>2. /\ q \in Seq(Event) /\ n \in Nat /\ n > 0 /\ q[n] = e
      /\ DOMAIN q = 1 .. n
      /\ \A j \in 1 .. n - 1 : j \in DOMAIN queue /\ q[j] = queue[j]
  <2>1. CASE e.kind = "move" /\ queue # <<>> /\ Last(queue).kind = "move"
    <3> DEFINE p == Append(Front(queue), e)
    <3>1. q = p
      BY <2>1 DEF Put
    <3>2. /\ p \in Seq(Event) /\ Len(p) = Len(queue)
          /\ DOMAIN p = 1 .. Len(queue)
          /\ \A j \in 1 .. Len(queue) - 1 : p[j] = queue[j]
          /\ p[Len(queue)] = e
      <4>1. queue # <<>> /\ queue \in Seq(Event)
        BY <1>1, <2>1
      <4> QED BY <4>1, RetopParts
    <3>3. Len(queue) > 0
      BY <1>1, <2>1
    <3> HIDE DEF p, q
    <3> QED BY <1>1, <3>1, <3>2, <3>3
  <2>2. CASE ~ (e.kind = "move" /\ queue # <<>> /\ Last(queue).kind = "move")
    <3> DEFINE p == Append(queue, e)
    <3>1. q = p
      BY <2>2 DEF Put
    <3>2. /\ p \in Seq(Event) /\ Len(p) = Len(queue) + 1
          /\ DOMAIN p = 1 .. Len(queue) + 1
          /\ \A j \in 1 .. Len(queue) : p[j] = queue[j]
          /\ p[Len(queue) + 1] = e
      BY <1>1, AppendParts
    <3> HIDE DEF p, q
    <3> QED BY <1>1, <3>1, <3>2
  <2> QED BY <2>1, <2>2
<1> HIDE DEF q, n
<1>3. \A j \in 1 .. n - 1 : q[j].serial <= serials /\ q[j].serial \in Nat
  <2>1. \A j \in 1 .. n - 1 : q[j] \in Event
    BY <1>1, <1>2
  <2> QED BY <1>2, <2>1 DEF QueueOnce, Event
<1>4. \A j \in DOMAIN q : j \in 1 .. n - 1 \/ (j = n /\ q[j].serial = serials + 1)
  BY <1>2
<1>5. ASSUME NEW i \in DOMAIN q, NEW j \in DOMAIN q, q[i].serial = q[j].serial
      PROVE  i = j
  <2>1. CASE i \in 1 .. n - 1 /\ j \in 1 .. n - 1
    BY <1>2, <1>5, <2>1 DEF QueueOnce
  <2>2. CASE i \notin 1 .. n - 1 \/ j \notin 1 .. n - 1
    BY <1>3, <1>4, <1>5, <2>2
  <2> QED BY <2>1, <2>2
<1>6. \A i \in DOMAIN q : q[i].serial <= serials + 1
  BY <1>3, <1>4
<1>7. QueueOnce(q, serials + 1)
  BY <1>2, <1>5, <1>6 DEF QueueOnce
<1> QED BY <1>2, <1>7 DEF q, n

\* An event put back.
LEMMA PutBack ==
  ASSUME NEW e \in Event, NEW i \in 1 .. Len(queue) + 1,
         QueueOnce(queue, serials), e.serial <= serials,
         \A j \in DOMAIN queue : queue[j].serial # e.serial
  PROVE  /\ QueueOnce(InsertAt(queue, i, e), serials)
         /\ \A j \in DOMAIN InsertAt(queue, i, e) :
              \/ InsertAt(queue, i, e)[j] = e
              \/ \E k \in DOMAIN queue : InsertAt(queue, i, e)[j] = queue[k]
<1>1. /\ queue \in Seq(Event) /\ Len(queue) \in Nat
      /\ DOMAIN queue = 1 .. Len(queue)
  BY DEF QueueOnce
<1> DEFINE q == InsertAt(queue, i, e)
           to(j) == IF j < i THEN j ELSE j - 1
<1>2. /\ q \in Seq(Event) /\ Len(q) = Len(queue) + 1
      /\ \A j \in 1 .. i - 1 : q[j] = queue[j]
      /\ q[i] = e
      /\ \A j \in i + 1 .. Len(queue) + 1 : q[j] = queue[j - 1]
  <2>1. queue \in Seq(Event)
    BY <1>1
  <2> QED BY <2>1, InsertAtParts
<1> HIDE DEF q
<1>3. DOMAIN q = 1 .. Len(queue) + 1
  BY <1>1, <1>2
<1>4. ASSUME NEW j \in DOMAIN q, j # i
      PROVE  to(j) \in DOMAIN queue /\ q[j] = queue[to(j)]
  <2>1. j \in Nat /\ j >= 1 /\ j <= Len(queue) + 1
    BY <1>1, <1>3
  <2>2. CASE j < i
    BY <1>1, <1>2, <2>1, <2>2
  <2>3. CASE ~ (j < i)
    BY <1>1, <1>2, <1>4, <2>1, <2>3
  <2> QED BY <2>2, <2>3
<1>5. ASSUME NEW j \in DOMAIN q, NEW k \in DOMAIN q, j # i, k # i, to(j) = to(k)
      PROVE  j = k
  BY <1>1, <1>3, <1>5
<1> HIDE DEF to
<1>6. ASSUME NEW j \in DOMAIN q, NEW k \in DOMAIN q, q[j].serial = q[k].serial
      PROVE  j = k
  <2>1. CASE j = i \/ k = i
    BY <1>2, <1>4, <1>6, <2>1
  <2>2. CASE j # i /\ k # i
    BY <1>4, <1>5, <1>6, <2>2 DEF QueueOnce
  <2> QED BY <2>1, <2>2
<1>7. \A j \in DOMAIN q : q[j].serial <= serials
  BY <1>2, <1>4 DEF QueueOnce
<1>8. QueueOnce(q, serials)
  BY <1>2, <1>6, <1>7 DEF QueueOnce
<1> QED BY <1>2, <1>4, <1>8 DEF q

-----------------------------------------------------------------------------
(* A step keeps what it does not disturb.                                  *)

\* A frame that was one of a procedure's, or of a look that reads, is what it
\* was: nothing but a sleeper is woken.
LEMMA OldSame ==
  ASSUME NEW g, NEW f \in Frame, Old(g, f)
  PROVE  /\ ReadingAt(g) \/ Owns(g) \/ g.at \in Procedures => g = f
         /\ g.at # "sent" => f.at # "sent" /\ g.way = f.way
         /\ g.at = "asleep" => g = f
<1>1. CASE g = f
  BY <1>1
<1>2. CASE f.at = "asleep" /\ g = [f EXCEPT !.at = "woken"]
  <2>1. g.at = "woken" /\ g.way = f.way
    BY <1>2 DEF Frame
  <2> QED BY <1>2, <2>1 DEF ReadingAt, Owns, Procedures
<1> QED BY <1>1, <1>2 DEF Old

\* What the frames own: of a new frame to be shown, and of the others where
\* nothing that another frame owns is put back or given.
LEMMA FramingKeeps ==
  ASSUME QInv, NEW t \in Task, NEW n \in Nat, NEW f \in Frame,
         Steps(stack', t, n, f),
         Framed(f, queue', given', serials'),
         Owns(f) => Free(t, n, f.one.serial),
         serials' \in Nat, serials <= serials',
         \A j \in DOMAIN queue' :
           \/ queue'[j].serial \in Nat /\ queue'[j].serial > serials
           \/ \E i \in DOMAIN queue : queue'[j] = queue[i]
           \/ Free(t, n, queue'[j].serial),
         \A j \in DOMAIN given' :
           (\E i \in DOMAIN given : given'[j] = given[i]) \/ Free(t, n, given'[j])
  PROVE  Framing'
<1>1. /\ \A u \in Task : \A i \in DOMAIN stack[u] :
           /\ Framed(stack[u][i], queue, given, serials)
           /\ Owns(stack[u][i]) => Free(u, i, stack[u][i].one.serial)
           /\ stack[u][i] \in Frame
  BY DEF QInv, Framing
<1>2. serials \in Nat
  BY LimitsAssumption DEF QInv, Plain
<1>3. ASSUME NEW u \in Task, NEW i \in DOMAIN stack'[u]
      PROVE  \/ u = t /\ i = n /\ stack'[u][i] = f
             \/ /\ i \in DOMAIN stack[u] /\ (u # t \/ i # n)
                /\ Old(stack'[u][i], stack[u][i])
  BY DEF Steps
<1>4. ASSUME NEW u \in Task, NEW i \in DOMAIN stack'[u]
      PROVE  /\ Framed(stack'[u][i], queue', given', serials')
             /\ Owns(stack'[u][i]) =>
                  \A v \in Task : \A k \in DOMAIN stack'[v] :
                    /\ Owns(stack'[v][k])
                    /\ stack'[v][k].one.serial = stack'[u][i].one.serial
                    => v = u /\ k = i
  <2> DEFINE g == stack'[u][i]
  <2>1. CASE u = t /\ i = n /\ g = f
    <3>1. ASSUME NEW v \in Task, NEW k \in DOMAIN stack'[v], Owns(f),
                 Owns(stack'[v][k]), stack'[v][k].one.serial = f.one.serial
          PROVE  v = t /\ k = n
      <4>1. CASE /\ k \in DOMAIN stack[v] /\ (v # t \/ k # n)
                 /\ Old(stack'[v][k], stack[v][k])
        <5>1. stack'[v][k] = stack[v][k]
          BY <1>1, <3>1, <4>1, OldSame
        <5> QED BY <3>1, <4>1, <5>1 DEF Free
      <4> QED BY <1>3, <3>1, <4>1
    <3> QED BY <2>1, <3>1
  <2>2. CASE i \in DOMAIN stack[u] /\ (u # t \/ i # n) /\ Old(g, stack[u][i])
    <3> DEFINE h == stack[u][i]
    <3>1. Framed(h, queue, given, serials) /\ h \in Frame
          /\ (Owns(h) => Free(u, i, h.one.serial))
      BY <1>1, <2>2
    <3>2. /\ Owns(g) \/ g.at \in Procedures => g = h
          /\ g.at # "sent" => h.at # "sent" /\ g.way = h.way
      BY <2>2, <3>1, OldSame
    <3> HIDE DEF g
    <3>3. g.at # "sent" => g.way \in Ways
      BY <3>1, <3>2 DEF Framed
    <3>4. g.at = "asked" => "mousehook" \in Features
      BY <3>1, <3>2 DEF Framed, Procedures
    <3>5. g.at \in Procedures => g.one \in Event /\ g.one.serial <= serials'
      <4>1. g.at \in Procedures => g.one \in Event /\ g.one.serial <= serials
        BY <3>1, <3>2 DEF Framed
      <4>2. g.at \in Procedures => g.one.serial \in Nat
        BY <4>1, LimitsAssumption DEF Event
      <4> QED BY <1>2, <4>1, <4>2
    <3>6. ASSUME Owns(g)
          PROVE  /\ \A j \in DOMAIN given' : given'[j] # g.one.serial
                 /\ \A j \in DOMAIN queue' : queue'[j].serial = g.one.serial
                                         => g.at = "asked" /\ queue'[j] = g.one
      <4>1. g = h /\ g.at \in Procedures
        BY <3>2, <3>6 DEF Owns, Procedures
      <4>2. /\ \A j \in DOMAIN given : given[j] # g.one.serial
            /\ \A j \in DOMAIN queue : queue[j].serial = g.one.serial
                                         => g.at = "asked" /\ queue[j] = g.one
            /\ g.one.serial <= serials /\ g.one.serial \in Nat
        BY <3>1, <3>6, <4>1, LimitsAssumption DEF Framed, Event
      <4>3. ~ Free(t, n, g.one.serial)
        BY <2>2, <3>6, <4>1 DEF Free
      <4>4. \A j \in DOMAIN given' : given'[j] # g.one.serial
        BY <4>2, <4>3
      <4>5. ASSUME NEW j \in DOMAIN queue', queue'[j].serial = g.one.serial
            PROVE  g.at = "asked" /\ queue'[j] = g.one
        <5>1. ~ (queue'[j].serial \in Nat /\ queue'[j].serial > serials)
          BY <1>2, <4>2, <4>5
        <5>2. \E k \in DOMAIN queue : queue'[j] = queue[k]
          BY <4>3, <4>5, <5>1
        <5> QED BY <4>2, <4>5, <5>2
      <4> QED BY <4>4, <4>5
    <3>7. Framed(g, queue', given', serials')
      BY <3>3, <3>4, <3>5, <3>6 DEF Framed
    <3>8. ASSUME NEW v \in Task, NEW k \in DOMAIN stack'[v], Owns(g),
                 Owns(stack'[v][k]), stack'[v][k].one.serial = g.one.serial
          PROVE  v = u /\ k = i
      <4>1. g = h /\ Free(u, i, g.one.serial)
        BY <3>1, <3>2, <3>8
      <4>2. CASE /\ k \in DOMAIN stack[v] /\ (v # t \/ k # n)
                 /\ Old(stack'[v][k], stack[v][k])
        <5>1. stack'[v][k] = stack[v][k]
          BY <1>1, <3>8, <4>2, OldSame
        <5> QED BY <3>8, <4>1, <4>2, <5>1 DEF Free
      <4>3. CASE v = t /\ k = n /\ stack'[v][k] = f
        <5>1. Free(t, n, g.one.serial)
          BY <3>8, <4>3
        <5> QED BY <2>2, <3>8, <4>1, <5>1 DEF Free
      <4> QED BY <1>3, <4>2, <4>3
    <3> QED BY <3>7, <3>8 DEF g
  <2> QED BY <1>3, <2>1, <2>2
<1> QED BY <1>4 DEF Framing, Free

\* The depth of the stacks, and none of a task's that ended.
LEMMA ShapeKeeps ==
  ASSUME QInv, NEW t \in Task, NEW n, NEW f, Steps(stack', t, n, f),
         live' \subseteq live,
         \A u \in live \ live' : stack'[u] = <<>>
  PROVE  Shape' /\ stack' \in [Task -> Seq(Frame)]
<1>1. stack' \in [Task -> Seq(Frame)]
  BY DEF Steps
<1>2. ASSUME NEW u \in Task
      PROVE  Len(stack'[u]) <= MaxDepth /\ (u \notin live' => stack'[u] = <<>>)
  <2>1. /\ stack[u] \in Seq(Frame) /\ Len(stack[u]) \in Nat
        /\ stack'[u] \in Seq(Frame) /\ Len(stack'[u]) \in Nat
        /\ MaxDepth \in Nat
    BY <1>1, LimitsAssumption DEF QInv
  <2>2. Len(stack[u]) <= MaxDepth /\ (u \notin live => stack[u] = <<>>)
    BY DEF QInv, Shape
  <2>3. \/ Len(stack'[u]) <= Len(stack[u])
        \/ u = t /\ t \in live /\ Len(stack'[t]) <= MaxDepth
    BY DEF Steps
  <2>4. Len(stack'[u]) <= MaxDepth
    BY <2>1, <2>2, <2>3
  <2>5. ASSUME u \notin live PROVE stack'[u] = <<>>
    <3>1. Len(stack'[u]) <= 0
      BY <2>2, <2>3, <2>5
    <3> QED BY <2>1, <3>1
  <2> QED BY <2>4, <2>5
<1> QED BY <1>1, <1>2 DEF Shape

\* What is to be shown of the input's lock.
Locked(t) ==
  MaxDepth <= 1 => /\ \A u \in live' \ {t} : lock = u => lock' = u
                   /\ t \in live' /\ Reading(t)' => lock' = t

\* The tasks that read.
LEMMA ReadingParts ==
  ASSUME NEW t
  PROVE  Reading(t) <=> \E i \in DOMAIN stack[t] : ReadingAt(stack[t][i])
BY DEF Reading, ReadingAt

LEMMA ReadingNext ==
  ASSUME NEW t
  PROVE  Reading(t)' <=> \E i \in DOMAIN stack'[t] : ReadingAt(stack'[t][i])
BY DEF Reading, ReadingAt

\* Another task reads only if it did, and the one that steps if it did or its
\* new frame reads; not where that does not, and there is no other.
LEMMA ReadingKeeps ==
  ASSUME QInv, NEW t \in Task, NEW n \in 0 .. MaxDepth, NEW f,
         Steps(stack', t, n, f)
  PROVE  /\ \A u \in Task \ {t} : Reading(u)' => Reading(u)
         /\ Reading(t)' => Reading(t) \/ ReadingAt(f)
         /\ (MaxDepth <= 1 /\ n > 0 /\ ~ ReadingAt(f)) => ~ Reading(t)'
<1>1. ASSUME NEW u \in Task, NEW i \in DOMAIN stack'[u]
      PROVE  \/ u = t /\ i = n /\ stack'[u][i] = f
             \/ /\ i \in DOMAIN stack[u] /\ (u # t \/ i # n)
                /\ Old(stack'[u][i], stack[u][i])
  BY DEF Steps
<1>2. \A u \in Task : \A i \in DOMAIN stack[u] : stack[u][i] \in Frame
  BY DEF QInv
<1>3. ASSUME NEW u \in Task, NEW i \in DOMAIN stack'[u], ReadingAt(stack'[u][i])
      PROVE  \/ u = t /\ i = n /\ ReadingAt(f)
             \/ /\ i \in DOMAIN stack[u] /\ (u # t \/ i # n)
                /\ ReadingAt(stack[u][i])
  <2>1. CASE u = t /\ i = n /\ stack'[u][i] = f
    BY <1>3, <2>1
  <2>2. CASE /\ i \in DOMAIN stack[u] /\ (u # t \/ i # n)
             /\ Old(stack'[u][i], stack[u][i])
    <3>1. stack'[u][i] = stack[u][i]
      BY <1>2, <1>3, <2>2, OldSame
    <3> QED BY <1>3, <2>2, <3>1
  <2> QED BY <1>1, <2>1, <2>2
<1>4. \A u \in Task \ {t} : Reading(u)' => Reading(u)
  BY <1>3, ReadingParts, ReadingNext
<1>5. Reading(t)' => Reading(t) \/ ReadingAt(f)
  BY <1>3, ReadingParts, ReadingNext
<1>6. ASSUME MaxDepth <= 1, n > 0, ~ ReadingAt(f), Reading(t)'
      PROVE  FALSE
  <2>1. PICK i \in DOMAIN stack'[t] : ReadingAt(stack'[t][i])
    BY <1>6, ReadingNext
  <2>2. i \in DOMAIN stack[t] /\ i # n
    BY <1>3, <1>6, <2>1
  <2>3. Len(stack[t]) \in Nat /\ DOMAIN stack[t] = 1 .. Len(stack[t])
        /\ Len(stack[t]) <= MaxDepth
    BY DEF QInv, Shape
  <2>4. MaxDepth \in Nat
    BY LimitsAssumption
  <2>5. i = 1 /\ n = 1
    BY <1>6, <2>2, <2>3, <2>4
  <2> QED BY <2>2, <2>5
<1> QED BY <1>4, <1>5, <1>6

\* The reader's lock.
LEMMA ReaderKeeps ==
  ASSUME QInv, NEW t \in Task, NEW n \in 0 .. MaxDepth, NEW f,
         Steps(stack', t, n, f), live' \subseteq live, Locked(t)
  PROVE  ReaderHolds'
<1> SUFFICES ASSUME MaxDepth <= 1, NEW u \in live', Reading(u)'
             PROVE  lock' = u
  BY DEF ReaderHolds
<1>1. CASE u = t
  BY <1>1 DEF Locked
<1>2. CASE u # t
  <2>1. u \in Task /\ u \in live
    BY DEF QInv, Plain
  <2>2. Reading(u)
    BY <1>2, <2>1, ReadingKeeps
  <2>3. lock = u
    BY <2>1, <2>2 DEF QInv, ReaderHolds
  <2> QED BY <1>2, <2>3 DEF Locked
<1> QED BY <1>1, <1>2

-----------------------------------------------------------------------------
(* The kinds of step there are.                                            *)

\* All a step is to be shown to keep.
LEMMA StepKeeps ==
  ASSUME QInv, NEW t \in Task, NEW n \in 0 .. MaxDepth, NEW f \in Frame,
         Steps(stack', t, n, f),
         Framed(f, queue', given', serials'),
         Owns(f) => Free(t, n, f.one.serial),
         Plain', serials <= serials',
         live' \subseteq live, \A u \in live \ live' : stack'[u] = <<>>,
         Locked(t),
         QueueOnce(queue', serials'), GivenOnce(given', queue', serials'),
         \A j \in DOMAIN queue' :
           \/ queue'[j].serial \in Nat /\ queue'[j].serial > serials
           \/ \E i \in DOMAIN queue : queue'[j] = queue[i]
           \/ Free(t, n, queue'[j].serial),
         \A j \in DOMAIN given' :
           (\E i \in DOMAIN given : given'[j] = given[i]) \/ Free(t, n, given'[j])
  PROVE  QInv'
<1>1. n \in Nat /\ serials' \in Nat
  BY LimitsAssumption DEF Plain
<1>2. Framing'
  BY <1>1, FramingKeeps
<1>3. Shape' /\ stack' \in [Task -> Seq(Frame)]
  BY ShapeKeeps
<1>4. ReaderHolds'
  BY ReaderKeeps
<1> QED BY <1>2, <1>3, <1>4 DEF QInv

\* A task's inmost frame.
LEMMA TopParts ==
  ASSUME QInv, NEW t \in Task, NEW P, At(t, P)
  PROVE  /\ t \in live /\ live \subseteq Task /\ stack[t] # <<>>
         /\ stack \in [Task -> Seq(Frame)] /\ Shape
         /\ Top(t) \in Frame /\ Top(t).at \in P
         /\ Len(stack[t]) \in 1 .. MaxDepth
         /\ Len(stack[t]) \in DOMAIN stack[t]
         /\ stack[t][Len(stack[t])] = Top(t)
         /\ Framed(Top(t), queue, given, serials)
         /\ Owns(Top(t)) => Free(t, Len(stack[t]), Top(t).one.serial)
         /\ ReadingAt(Top(t)) => Reading(t)
<1> DEFINE n == Len(stack[t])
<1>1. stack[t] # <<>> /\ Top(t).at \in P
  BY DEF At
<1>2. /\ stack \in [Task -> Seq(Frame)] /\ Shape /\ live \subseteq Task
      /\ Framing
  BY DEF QInv, Plain
<1>3. stack[t] \in Seq(Frame)
  BY <1>2
<1>4. n \in Nat /\ n > 0 /\ n <= MaxDepth /\ t \in live
      /\ DOMAIN stack[t] = 1 .. n
  BY <1>1, <1>2, <1>3 DEF Shape
<1>5. n \in 1 .. MaxDepth /\ n \in DOMAIN stack[t]
  BY <1>4, LimitsAssumption
<1>6. Top(t) = stack[t][n]
  BY DEF Top
<1>7. Top(t) \in Frame
  BY <1>3, <1>5, <1>6
<1>8. /\ Framed(Top(t), queue, given, serials)
      /\ Owns(Top(t)) => Free(t, n, Top(t).one.serial)
  BY <1>2, <1>5, <1>6 DEF Framing
<1>9. ReadingAt(Top(t)) => Reading(t)
  BY <1>5, <1>6, ReadingParts
<1> QED BY <1>1, <1>2, <1>4, <1>5, <1>6, <1>7, <1>8, <1>9

\* The lock as it is, the task reading on or not.
LEMMA LockSame ==
  ASSUME QInv, NEW t \in Task, NEW n \in 0 .. MaxDepth, NEW f,
         Steps(stack', t, n, f), live' \subseteq live,
         lock' = lock, ReadingAt(f) => Reading(t)
  PROVE  Locked(t)
<1>1. Reading(t)' => Reading(t)
  BY ReadingKeeps
<1> QED BY <1>1 DEF Locked, QInv, ReaderHolds

\* The lock let go by a task that does not read on, or not let go.
LEMMA LockLeft ==
  ASSUME QInv, NEW t \in Task, NEW n \in 1 .. MaxDepth, NEW f,
         Steps(stack', t, n, f), live' \subseteq live,
         MaxDepth <= 1 => lock' = lock \/ lock = t, ~ ReadingAt(f)
  PROVE  Locked(t)
<1>1. n \in 0 .. MaxDepth /\ n > 0
  OBVIOUS
<1>2. MaxDepth <= 1 => ~ Reading(t)'
  BY <1>1, ReadingKeeps
<1> QED BY <1>2 DEF Locked

\* The lock taken by a task that may.
LEMMA LockTaken ==
  ASSUME QInv, NEW t \in Task, live' \subseteq live, lock' = t,
         lock = t \/ MayHold(t)
  PROVE  Locked(t)
<1>1. \A u \in live' \ {t} : lock # u
  BY TasksAssumption DEF MayHold, QInv, Plain
<1> QED BY <1>1 DEF Locked

\* Where a task reads, or asks its window what the mouse is on, nothing else
\* owns an event of the queue.
LEMMA ReadFree ==
  ASSUME QInv, HookedOnce, NEW t \in Task, At(t, {"read", "hit"}),
         NEW i \in DOMAIN queue
  PROVE  Free(t, Len(stack[t]), queue[i].serial)
<1> DEFINE n == Len(stack[t])
<1>1. /\ t \in live /\ n \in 1 .. MaxDepth /\ Reading(t)
      /\ stack \in [Task -> Seq(Frame)] /\ Shape
  <2>1. ReadingAt(Top(t))
    BY TopParts DEF ReadingAt, Procedures
  <2> QED BY <2>1, TopParts
<1> SUFFICES ASSUME NEW u \in Task, NEW k \in DOMAIN stack[u],
                    Owns(stack[u][k]),
                    stack[u][k].one.serial = queue[i].serial
             PROVE  u = t /\ k = n
  BY DEF Free
<1>2. stack[u][k].at = "asked" /\ "mousehook" \in Features
  BY DEF QInv, Framing, Framed
<1>3. MaxDepth <= 1 /\ MaxDepth \in Nat
  BY <1>2, LimitsAssumption DEF HookedOnce
<1>4. /\ Len(stack[u]) \in Nat /\ DOMAIN stack[u] = 1 .. Len(stack[u])
      /\ Len(stack[u]) <= MaxDepth
  BY <1>1 DEF Shape
<1>5. k = 1 /\ n = 1
  <2>1. k \in 1 .. Len(stack[u])
    BY <1>4
  <2> HIDE DEF n
  <2> QED BY <1>1, <1>3, <1>4, <2>1
<1>6. u \in live
  <2>1. stack[u] # <<>>
    BY <1>4, <1>5
  <2> QED BY <1>1, <2>1 DEF Shape
<1>7. Reading(u)
  BY <1>2, ReadingParts DEF ReadingAt, Procedures
<1>8. lock = u /\ lock = t
  BY <1>1, <1>3, <1>6, <1>7 DEF QInv, ReaderHolds
<1> QED BY <1>5, <1>8

\* A frame with no event to own.
LEMMA FramedLoose ==
  ASSUME NEW f, NEW q, NEW g, NEW m, f.at \notin Procedures,
         f.at # "sent" => f.way \in Ways
  PROVE  Framed(f, q, g, m) /\ ~ Owns(f)
BY DEF Framed, Owns, Procedures

\* Nothing of the queue nor of what was given changes.
LEMMA StackKeeps ==
  ASSUME QInv, NEW t \in Task, NEW n \in 0 .. MaxDepth, NEW f \in Frame,
         Steps(stack', t, n, f),
         Framed(f, queue, given, serials),
         Owns(f) => Free(t, n, f.one.serial),
         Plain', UNCHANGED <<live, queue, given, serials>>, Locked(t)
  PROVE  QInv'
<1>1. QueueOnce(queue', serials') /\ GivenOnce(given', queue', serials')
  BY DEF QInv
<1>2. \A j \in DOMAIN queue' : \E i \in DOMAIN queue : queue'[j] = queue[i]
  OBVIOUS
<1>3. \A j \in DOMAIN given' : \E i \in DOMAIN given : given'[j] = given[i]
  OBVIOUS
<1>4. serials <= serials' /\ Framed(f, queue', given', serials')
  BY LimitsAssumption DEF QInv, Plain
<1>5. live' \subseteq live /\ \A u \in live \ live' : stack'[u] = <<>>
  OBVIOUS
<1> QED BY <1>1, <1>2, <1>3, <1>4, <1>5, StepKeeps

\* The look goes on with its event, or the next, and what was thrown away or
\* taken is out of the queue.
LEMMA MoveKeeps ==
  ASSUME QInv, NEW t \in Task, NEW f \in Frame,
         At(t, {"read"} \cup Procedures), stack' = Change(t, f),
         Within(queue', queue),
         Framed(f, queue', given, serials),
         Owns(f) => Free(t, Len(stack[t]), f.one.serial),
         Plain', UNCHANGED <<live, given, serials, lock>>
  PROVE  QInv'
<1> DEFINE n == Len(stack[t])
<1>1. Woken(stack)
  BY SignalParts DEF QInv
<1>2. /\ t \in live /\ live \subseteq Task /\ stack[t] # <<>> /\ Shape
      /\ stack \in [Task -> Seq(Frame)] /\ Reading(t)
  <2>1. ReadingAt(Top(t))
    BY TopParts DEF ReadingAt
  <2> QED BY <2>1, TopParts
<1>3. Steps(stack', t, n, f) /\ n \in 1 .. MaxDepth
  BY <1>1, <1>2, Retop DEF Change
<1> HIDE DEF n
<1>4. n \in 0 .. MaxDepth
  BY <1>3
<1>5. Locked(t)
  BY <1>2, <1>3, <1>4, LockSame
<1>6. QueueOnce(queue', serials')
  BY WithinOnce DEF QInv
<1>7. \A j \in DOMAIN queue' : \E i \in DOMAIN queue : queue'[j] = queue[i]
  BY DEF Within
<1>8. GivenOnce(given', queue', serials')
  BY <1>7 DEF QInv, GivenOnce
<1>9. \A j \in DOMAIN given' : \E i \in DOMAIN given : given'[j] = given[i]
  OBVIOUS
<1>10. serials <= serials' /\ Framed(f, queue', given', serials')
  BY LimitsAssumption DEF QInv, Plain
<1>11. live' \subseteq live /\ \A u \in live \ live' : stack'[u] = <<>>
  OBVIOUS
<1>12. Owns(f) => Free(t, n, f.one.serial)
  BY DEF n
<1> QED BY <1>3, <1>4, <1>5, <1>6, <1>7, <1>8, <1>9, <1>10, <1>11, <1>12,
           StepKeeps

\* The look hands its event over.
LEMMA HandOverKeeps ==
  ASSUME QInv, NEW t \in Task, NEW e \in Event,
         At(t, {"read"} \cup Procedures), HandOver(t, e), e.serial <= serials,
         Within(queue', queue),
         Top(t).way.remove =>
           /\ Free(t, Len(stack[t]), e.serial)
           /\ \A i \in DOMAIN given : given[i] # e.serial
           /\ \A j \in DOMAIN queue' : queue'[j].serial # e.serial,
         Plain', UNCHANGED <<live, serials, lock>>
  PROVE  QInv'
<1> DEFINE n == Len(stack[t])
           f == SentFrame
<1>1. Woken(stack)
  BY SignalParts DEF QInv
<1>2. /\ t \in live /\ live \subseteq Task /\ stack[t] # <<>> /\ Shape
      /\ stack \in [Task -> Seq(Frame)]
  BY TopParts
<1>3. f \in Frame
  <2>1. [remove |-> FALSE, wait |-> FALSE, kinds |-> {}] \in Way
    BY DEF Way
  <2> QED BY <2>1, LookMade
<1>4. f.at = "sent"
  BY DEF SentFrame, LookFrame
<1> HIDE DEF f
<1>5. Steps(stack', t, n, f) /\ n \in 1 .. MaxDepth
  BY <1>1, <1>2, <1>3, Pop DEF HandOver, Leave
<1>6. ~ Owns(f) /\ ~ ReadingAt(f) /\ Framed(f, queue', given', serials')
  BY <1>4, FramedLoose DEF ReadingAt, Procedures
<1>7. n \in 0 .. MaxDepth
  BY <1>5
<1>8. Locked(t)
  BY <1>5, <1>6, <1>7, LockSame
<1>9. QueueOnce(queue', serials')
  BY WithinOnce DEF QInv
<1>10. \A j \in DOMAIN queue' : \E i \in DOMAIN queue : queue'[j] = queue[i]
  BY DEF Within
<1>11. /\ GivenOnce(given', queue', serials')
       /\ \A j \in DOMAIN given' :
            (\E i \in DOMAIN given : given'[j] = given[i])
              \/ Free(t, n, given'[j])
  <2>1. GivenOnce(given, queue, serials)
    BY DEF QInv
  <2>2. GivenOnce(given, queue', serials)
    BY <1>10, <2>1 DEF GivenOnce
  <2>3. CASE ~ Top(t).way.remove
    <3>1. given' = given
      BY <2>3 DEF HandOver
    <3> QED BY <2>2, <3>1
  <2>4. CASE Top(t).way.remove
    <3> DEFINE g == Append(given, e.serial)
    <3>1. given' = g
      BY <2>4 DEF HandOver
    <3>2. e.serial \in 1 .. MaxEvents
      BY DEF Event
    <3>3. given \in Seq(1 .. MaxEvents)
      BY <2>1 DEF GivenOnce
    <3>4. /\ g \in Seq(1 .. MaxEvents) /\ Len(given) \in Nat
          /\ DOMAIN given = 1 .. Len(given) /\ DOMAIN g = 1 .. Len(given) + 1
          /\ \A j \in 1 .. Len(given) : g[j] = given[j]
          /\ g[Len(given) + 1] = e.serial
      BY <3>2, <3>3, AppendParts
    <3> HIDE DEF g
    <3>5. \A j \in DOMAIN g : \/ j \in DOMAIN given /\ g[j] = given[j]
                              \/ j = Len(given) + 1 /\ g[j] = e.serial
      BY <3>4
    <3>6. GivenOnce(g, queue', serials)
      <4>1. ASSUME NEW i \in DOMAIN g, NEW j \in DOMAIN g, g[i] = g[j]
            PROVE  i = j
        BY <2>1, <2>4, <3>5, <4>1 DEF GivenOnce
      <4>2. \A i \in DOMAIN g : g[i] <= serials
        BY <2>1, <3>5 DEF GivenOnce
      <4>3. \A i \in DOMAIN g : \A j \in DOMAIN queue' :
              queue'[j].serial # g[i]
        BY <2>2, <2>4, <3>5 DEF GivenOnce
      <4> QED BY <3>4, <4>1, <4>2, <4>3 DEF GivenOnce
    <3> QED BY <2>4, <3>1, <3>5, <3>6
  <2> QED BY <2>3, <2>4
<1>12. serials <= serials'
  BY LimitsAssumption DEF QInv, Plain
<1>13. live' \subseteq live /\ \A u \in live \ live' : stack'[u] = <<>>
  OBVIOUS
<1> HIDE DEF n
<1> QED BY <1>3, <1>5, <1>6, <1>7, <1>8, <1>9, <1>10, <1>11, <1>12, <1>13,
           StepKeeps

-----------------------------------------------------------------------------
(* The types that the frames and the events have nothing to do with.       *)

LEMMA PlainKeeps == QInv /\ [Next]_vars => Plain'
<1> SUFFICES ASSUME QInv, [Next]_vars PROVE Plain'
  OBVIOUS
<1>1. /\ Plain /\ serials \in Nat /\ posts \in Nat /\ INPUT_MARK = 1
      /\ MaxEvents \in Nat /\ MaxPosts \in Nat
  BY LimitsAssumption DEF QInv, Plain, INPUT_MARK
<1> DEFINE Same == UNCHANGED <<live, serials, focus, lock, first, posts, mark,
                               taken, posted>>
<1>2. Same => Plain'
  BY <1>1 DEF Plain
<1>3. ASSUME NEW t \in Task, UNCHANGED <<live, serials, focus, first, posts,
                                        posted>>,
             mark' \in 0 .. INPUT_MARK + posts,
             taken' \in [Task -> 0 .. INPUT_MARK + posts],
             lock' \in Task \cup {None}
      PROVE  Plain'
  BY <1>1, <1>3 DEF Plain
<1>4. ASSUME NEW t \in Task, NEW e, HandOver(t, e)
      PROVE  /\ mark' \in 0 .. INPUT_MARK + posts
             /\ taken' \in [Task -> 0 .. INPUT_MARK + posts]
  BY <1>1, <1>4 DEF HandOver, Plain
<1>5. UNCHANGED <<mark, taken>> => /\ mark' \in 0 .. INPUT_MARK + posts
                                   /\ taken' \in [Task -> 0 .. INPUT_MARK + posts]
  BY <1>1 DEF Plain
<1>6. UNCHANGED lock => lock' \in Task \cup {None}
  BY <1>1 DEF Plain
<1>7. ASSUME NEW kind, NEW u, HostInput(kind, u)
      PROVE  Plain'
  BY <1>1, <1>7 DEF Plain, HostInput
<1>8. ASSUME NEW t \in Task, NEW u \in Task, Post(t, u)
      PROVE  Plain'
  <2>1. /\ posts' = posts + 1 /\ posts' \in 0 .. MaxPosts
        /\ posted' = [posted EXCEPT ![u] = Append(@, NextMark)]
        /\ mark' = IF lock = u THEN NextMark ELSE mark
        /\ UNCHANGED <<live, serials, focus, lock, first, taken>>
    BY <1>1, <1>8 DEF Post, Plain
  <2> DEFINE M == INPUT_MARK + 1 .. INPUT_MARK + posts
             N == INPUT_MARK + 1 .. INPUT_MARK + posts'
  <2>2. /\ M \subseteq N /\ NextMark \in N
        /\ 0 .. INPUT_MARK + posts \subseteq 0 .. INPUT_MARK + posts'
        /\ NextMark \in 0 .. INPUT_MARK + posts'
    BY <1>1, <2>1 DEF NextMark
  <2>3. posted \in [Task -> Seq(M)]
    BY <1>1 DEF Plain
  <2> HIDE DEF M, N
  <2>4. posted' \in [Task -> Seq(N)]
    <3> SUFFICES ASSUME NEW v \in Task
                 PROVE  /\ posted[v] \in Seq(N)
                        /\ Append(posted[v], NextMark) \in Seq(N)
      BY <2>1, <2>3
    <3>1. posted[v] \in Seq(M) /\ Len(posted[v]) \in Nat
          /\ DOMAIN posted[v] = 1 .. Len(posted[v])
      BY <2>3
    <3>2. posted[v] \in [1 .. Len(posted[v]) -> N]
      <4> DEFINE l == posted[v]
      <4> HIDE DEF l
      <4>1. \A i \in 1 .. Len(l) : l[i] \in M
        BY <3>1 DEF l
      <4>2. \A i \in 1 .. Len(l) : l[i] \in N
        BY <2>2, <4>1
      <4>3. l = [i \in 1 .. Len(l) |-> l[i]]
        BY <3>1 DEF l
      <4>4. l \in [1 .. Len(l) -> N]
        BY <4>2, <4>3
      <4> QED BY <4>4 DEF l
    <3>3. posted[v] \in Seq(N)
      BY <3>1, <3>2, SeqOfFcn
    <3> QED BY <2>2, <3>3
  <2>5. mark' \in 0 .. INPUT_MARK + posts'
    BY <1>1, <2>1, <2>2 DEF Plain
  <2>6. taken' \in [Task -> 0 .. INPUT_MARK + posts']
    BY <1>1, <2>1, <2>2 DEF Plain
  <2> QED BY <1>1, <2>1, <2>4, <2>5, <2>6 DEF Plain, N
<1>9. ASSUME NEW t \in Task, NEW u \in Task \cup {None}, SetFocus(t, u)
      PROVE  Plain'
  BY <1>1, <1>9 DEF Plain, SetFocus
<1>10. ASSUME NEW t \in Task, NEW w, Look(t, w)
       PROVE  Plain'
  BY <1>1, <1>10 DEF Plain, Look, LetGo
<1>11. ASSUME NEW t \in Task, Machines(t)
       PROVE  Plain'
  <2>1. CASE Wake(t)
    BY <1>2, <2>1 DEF Wake
  <2>2. ASSUME NEW early, Begin(t, early)
        PROVE  Plain'
    <3>1. (~ Top(t).way.remove) \in BOOLEAN
      OBVIOUS
    <3> QED BY <1>1, <2>2, <3>1 DEF Begin, Plain
  <2>3. CASE BeginEarly(t) \/ BeginRead(t)
    BY <2>2, <2>3 DEF BeginEarly, BeginRead
  <2>4. CASE TakePosted(t)
    <3> DEFINE M == INPUT_MARK + 1 .. INPUT_MARK + posts
    <3>1. posted \in [Task -> Seq(M)] /\ M \subseteq 0 .. INPUT_MARK + posts
          /\ INPUT_MARK \in 0 .. INPUT_MARK + posts
          /\ taken \in [Task -> 0 .. INPUT_MARK + posts]
      BY <1>1 DEF Plain
    <3> HIDE DEF M
    <3>2. posted[t] \in Seq(M) /\ posted[t] # <<>>
      BY <2>4, <3>1 DEF TakePosted, FindsPosted
    <3>3. Head(posted[t]) \in M /\ Tail(posted[t]) \in Seq(M)
      BY <3>2
    <3>4. posted' \in [Task -> Seq(M)]
      BY <2>4, <3>1, <3>3 DEF TakePosted
    <3>5. taken' \in [Task -> 0 .. INPUT_MARK + posts]
      BY <2>4, <3>1, <3>3 DEF TakePosted
    <3>6. UNCHANGED <<live, serials, focus, lock, first, mark, posts>>
      BY <2>4 DEF TakePosted
    <3> QED BY <1>1, <3>4, <3>5, <3>6 DEF Plain, M
  <2>5. ASSUME NEW s, NoInput(t, s)
        PROVE  lock' \in Task \cup {None}
    BY <1>1, <2>5 DEF NoInput, Unheld, Plain
  <2>6. CASE ReadNone(t) \/ ReadEnd(t) \/ Elsewhere(t)
    BY <1>3, <1>5, <2>5, <2>6 DEF ReadNone, ReadEnd, Elsewhere
  <2>7. CASE ForNobody(t) \/ PassOver(t) \/ ReadMouse(t)
    BY <1>2, <2>7 DEF ForNobody, PassOver, ReadMouse
  <2>8. CASE ReadKey(t)
    BY <1>3, <1>4, <1>5, <1>6, <2>8 DEF ReadKey
  <2> QED BY <1>11, <2>1, <2>3, <2>4, <2>6, <2>7, <2>8 DEF Machines
<1>12. ASSUME NEW t \in Task, KeyReturn(t) \/ HitReturn(t) \/ AskedReturn(t)
                              \/ ToldReturn(t)
       PROVE  Plain'
  <2>1. UNCHANGED <<live, serials, focus, first, posts, posted, lock>>
    BY <1>12 DEF KeyReturn, HitReturn, AskedReturn, ToldReturn
  <2>2. (\E e : HandOver(t, e)) \/ UNCHANGED <<mark, taken>>
    BY <1>12 DEF KeyReturn, HitReturn, AskedReturn, ToldReturn, Resolved, Thrown
  <2> QED BY <1>3, <1>4, <1>5, <1>6, <2>1, <2>2
<1>13. ASSUME NEW t \in Task, TakeSent(t) \/ SentReturn(t)
       PROVE  Plain'
  BY <1>2, <1>13 DEF TakeSent, SentReturn
<1>14. ASSUME NEW t \in Task, End(t)
       PROVE  Plain'
  <2>1. <<>> \in Seq(INPUT_MARK + 1 .. INPUT_MARK + posts)
    OBVIOUS
  <2>2. live' \subseteq Task /\ focus' \in Task \cup {None}
    BY <1>1, <1>14 DEF End, Plain
  <2>3. posted' \in [Task -> Seq(INPUT_MARK + 1 .. INPUT_MARK + posts)]
    BY <1>1, <1>14, <2>1 DEF End, Plain
  <2>4. UNCHANGED <<serials, lock, first, mark, taken, posts>>
    BY <1>14 DEF End
  <2> QED BY <1>1, <2>2, <2>3, <2>4 DEF Plain
<1>15. CASE UNCHANGED vars
  BY <1>2, <1>15 DEF vars
<1>16. ASSUME NEW t \in Task, Programs(t)
       PROVE  Plain'
  BY <1>8, <1>9, <1>10, <1>12, <1>13, <1>14, <1>16 DEF Programs
<1> QED BY <1>7, <1>11, <1>15, <1>16 DEF Next

-----------------------------------------------------------------------------
(* The steps, one by one.                                                  *)

\* What the records that frames are have in them.
LEMMA MadeParts ==
  ASSUME NEW f \in Frame, NEW p, NEW b, NEW i, NEW k, NEW e
  PROVE  /\ [f EXCEPT !.at = p].at = p
         /\ [f EXCEPT !.at = p].way = f.way
         /\ [f EXCEPT !.at = "read", !.early = b, !.index = i].at = "read"
         /\ [f EXCEPT !.at = "read", !.early = b, !.index = i].way = f.way
         /\ [f EXCEPT !.at = "read", !.early = b, !.index = i].index = i
         /\ [f EXCEPT !.at = "posted", !.early = FALSE].at = "posted"
         /\ [f EXCEPT !.at = "posted", !.early = FALSE].way = f.way
         /\ [f EXCEPT !.at = "read", !.index = i, !.one = NoEvent].at = "read"
         /\ [f EXCEPT !.at = "read", !.index = i, !.one = NoEvent].way = f.way
         /\ [f EXCEPT !.at = "read", !.index = i, !.one = NoEvent].index = i
         /\ [f EXCEPT !.at = p, !.one = e].at = p
         /\ [f EXCEPT !.at = p, !.one = e].way = f.way
         /\ [f EXCEPT !.at = p, !.one = e].one = e
         /\ [f EXCEPT !.at = p, !.one = e].index = f.index
         /\ [f EXCEPT !.at = "told", !.one = e, !.back = k].at = "told"
         /\ [f EXCEPT !.at = "told", !.one = e, !.back = k].way = f.way
         /\ [f EXCEPT !.at = "told", !.one = e, !.back = k].one = e
         /\ [f EXCEPT !.at = "told", !.one = e, !.back = k].index = f.index
         /\ [f EXCEPT !.at = "told", !.one = e, !.back = k].back = k
BY DEF Frame

\* The read goes on.
LEMMA ReadOnKeeps ==
  ASSUME QInv, NEW t \in Task, NEW i \in 1 .. MaxEvents + 1,
         At(t, {"read"} \cup Procedures), stack' = ReadOn(t, i),
         Within(queue', queue),
         Plain', UNCHANGED <<live, given, serials, lock>>
  PROVE  QInv'
<1> DEFINE f == [Top(t) EXCEPT !.at = "read", !.index = i, !.one = NoEvent]
<1>1. /\ Top(t) \in Frame /\ Framed(Top(t), queue, given, serials)
      /\ Top(t).at \in {"read"} \cup Procedures
  BY TopParts
<1>2. f \in Frame
  <2>1. "read" \in Places /\ 1 \in 1 .. MaxEvents
        /\ NoEvent \in Event \cup {NoEvent}
    BY LimitsAssumption DEF Places, Machine
  <2> QED BY <1>1, <2>1, Made
<1>3. f.at = "read" /\ f.way = Top(t).way
  BY <1>1, MadeParts
<1>4. stack' = Change(t, f)
  BY DEF ReadOn
<1> HIDE DEF f
<1>5. Top(t).way \in Ways
  BY <1>1 DEF Framed, Procedures
<1>6. Framed(f, queue', given, serials) /\ ~ Owns(f)
  <2>1. f.at \notin Procedures /\ (f.at # "sent" => f.way \in Ways)
    BY <1>3, <1>5 DEF Procedures
  <2> QED BY <2>1, FramedLoose
<1> QED BY <1>2, <1>4, <1>6, MoveKeeps

\* A procedure of the look's is called.
LEMMA CallKeeps ==
  ASSUME QInv, NEW t \in Task, NEW f \in Frame, NEW e \in Event,
         At(t, {"read"} \cup Procedures), stack' = Change(t, f),
         f.at \in Procedures, f.way = Top(t).way, f.one = e,
         f.at = "asked" => "mousehook" \in Features,
         e.serial <= serials,
         Within(queue', queue),
         Owns(f) => /\ Free(t, Len(stack[t]), e.serial)
                    /\ \A i \in DOMAIN given : given[i] # e.serial
                    /\ \A j \in DOMAIN queue' :
                         queue'[j].serial = e.serial
                           => f.at = "asked" /\ queue'[j] = e,
         Plain', UNCHANGED <<live, given, serials, lock>>
  PROVE  QInv'
<1>1. /\ Framed(Top(t), queue, given, serials)
      /\ Top(t).at \in {"read"} \cup Procedures
  BY TopParts
<1>2. Top(t).way \in Ways
  BY <1>1 DEF Framed, Procedures
<1>3. Framed(f, queue', given, serials)
  BY <1>2 DEF Framed
<1> QED BY <1>3, MoveKeeps

\* Nothing for the look: it waits, or is over, or goes on to what was posted.
LEMMA NoInputKeeps ==
  ASSUME QInv, NEW t \in Task, NEW s, Woken(s), s[t] = stack[t],
         At(t, {"loop", "posted", "read"}), NoInput(t, s),
         Plain', UNCHANGED <<live, queue, given, serials>>
  PROVE  QInv'
<1> DEFINE n == Len(stack[t])
           w == Top(t).way
<1>1. /\ t \in live /\ live \subseteq Task /\ stack[t] # <<>> /\ Shape
      /\ stack \in [Task -> Seq(Frame)] /\ Top(t) \in Frame
      /\ Framed(Top(t), queue, given, serials)
      /\ Top(t).at \in {"loop", "posted", "read"}
  BY TopParts
<1>2. w \in Ways /\ w \in Way
  BY <1>1, KindsAssumption DEF Framed
<1>3. ASSUME NEW f \in Frame, Steps(stack', t, n, f), n \in 1 .. MaxDepth,
             f.at \in {"posted", "asleep", "sent"}, f.at # "sent" => f.way = w
      PROVE  QInv'
  <2>1. Framed(f, queue, given, serials) /\ ~ Owns(f) /\ ~ ReadingAt(f)
    <3>1. f.at \notin Procedures /\ (f.at # "sent" => f.way \in Ways)
      BY <1>2, <1>3 DEF Procedures
    <3> QED BY <1>3, <3>1, FramedLoose DEF ReadingAt
  <2>2. lock' = lock \/ lock = t
    BY DEF NoInput, Unheld
  <2>3. Locked(t)
    BY <1>3, <2>1, <2>2, LockLeft
  <2>4. n \in 0 .. MaxDepth
    BY <1>3
  <2> QED BY <1>3, <2>1, <2>3, <2>4, StackKeeps
<1>4. CASE stack' = Replace(s, t, [Top(t) EXCEPT !.at = "posted",
                                                 !.early = FALSE])
  <2> DEFINE f == [Top(t) EXCEPT !.at = "posted", !.early = FALSE]
  <2>1. f \in Frame
    <3>1. "read" \in Places /\ 1 \in 1 .. MaxEvents /\ 1 \in 1 .. MaxEvents + 1
          /\ NoEvent \in Event \cup {NoEvent} /\ TRUE \in BOOLEAN
      BY LimitsAssumption DEF Places, Machine
    <3> QED BY <1>1, <3>1, Made
  <2>2. f.at = "posted" /\ f.way = w
    BY <1>1, MadeParts
  <2> HIDE DEF f
  <2>3. Steps(stack', t, n, f) /\ n \in 1 .. MaxDepth
    BY <1>1, <1>4, <2>1, Retop DEF f
  <2> QED BY <1>3, <2>1, <2>2, <2>3
<1>5. CASE stack' = Replace(s, t, LookFrame("asleep", w))
  <2> DEFINE f == LookFrame("asleep", w)
  <2>1. f \in Frame
    BY <1>2, LookMade
  <2>2. f.at = "asleep" /\ f.way = w
    BY DEF LookFrame
  <2> HIDE DEF f
  <2>3. Steps(stack', t, n, f) /\ n \in 1 .. MaxDepth
    BY <1>1, <1>5, <2>1, Retop DEF f
  <2> QED BY <1>3, <2>1, <2>2, <2>3
<1>6. CASE stack' = [s EXCEPT ![t] = Front(@)]
  <2> DEFINE f == SentFrame
  <2>1. f \in Frame
    BY <1>2, LookMade
  <2>2. f.at = "sent"
    BY DEF LookFrame, SentFrame
  <2> HIDE DEF f
  <2>3. Steps(stack', t, n, f) /\ n \in 1 .. MaxDepth
    BY <1>1, <1>6, <2>1, Pop
  <2> QED BY <1>3, <2>1, <2>2, <2>3
<1> QED BY <1>4, <1>5, <1>6 DEF NoInput

\* The indexes that a read goes on from.
LEMMA OnParts ==
  ASSUME QInv, NEW e, NEW i \in 1 .. MaxEvents + 1
  PROVE  /\ From(Less(e), i) \in 1 .. MaxEvents + 1
         /\ From(queue, i) \in 1 .. MaxEvents + 1
         /\ From(queue, i) \in 1 .. Len(queue) + 1
         /\ After(e, i) \in 1 .. MaxEvents + 1
         /\ Queued(e) => Place(e) \in 1 .. MaxEvents
         /\ 1 \in 1 .. MaxEvents + 1 /\ 1 \in 1 .. MaxEvents
<1>1. QueueOnce(queue, serials)
  BY DEF QInv
<1>2. /\ Len(queue) \in Nat /\ Len(queue) <= MaxEvents
      /\ DOMAIN queue = 1 .. Len(queue)
  <2>1. queue \in Seq(Event)
    BY <1>1 DEF QueueOnce
  <2> QED BY <1>1, <2>1, LenBound, Among
<1>3. /\ Len(Less(e)) \in Nat /\ Len(Less(e)) <= MaxEvents
      /\ Queued(e) => Place(e) \in DOMAIN queue
  BY <1>1, LessParts, LenBound
<1>4. MaxEvents \in Nat /\ MaxEvents >= 1 /\ i \in Nat /\ i >= 1
      /\ i <= MaxEvents + 1
  BY LimitsAssumption
<1> QED BY <1>2, <1>3, <1>4 DEF From, After

\* An event considered.
LEMMA ConsidersParts ==
  ASSUME QInv, NEW t \in Task, NEW e, Considers(t, e)
  PROVE  /\ At(t, {"read"}) /\ At(t, {"read"} \cup Procedures)
         /\ Top(t).at = "read" /\ Top(t) \in Frame
         /\ Top(t).index \in DOMAIN queue /\ queue[Top(t).index] = e
         /\ Top(t).index \in 1 .. MaxEvents + 1
         /\ e \in Event /\ e.serial <= serials /\ Queued(e)
         /\ \A i \in DOMAIN given : given[i] # e.serial
<1>1. At(t, {"read"}) /\ Top(t).index \in DOMAIN queue
      /\ e = queue[Top(t).index]
  BY DEF Considers, Runs
<1>2. Top(t).at = "read" /\ Top(t) \in Frame
  BY <1>1, TopParts
<1>3. Top(t).index \in 1 .. MaxEvents + 1
  BY <1>2 DEF Frame
<1>4. e \in Event /\ e.serial <= serials
  <2>1. queue \in Seq(Event)
    BY DEF QInv, QueueOnce
  <2>2. e \in Event
    BY <1>1, <2>1
  <2> QED BY <1>1, <2>2 DEF QInv, QueueOnce
<1>5. Queued(e)
  BY <1>1 DEF Queued, Range
<1>6. At(t, {"read"} \cup Procedures)
  BY <1>1 DEF At
<1>7. \A i \in DOMAIN given : given[i] # e.serial
  BY <1>1 DEF QInv, GivenOnce
<1> QED BY <1>1, <1>2, <1>3, <1>4, <1>5, <1>6, <1>7

\* What comes in.
LEMMA HostInputKeeps ==
  ASSUME QInv, NEW kind \in Kinds, NEW u \in Task \cup {None},
         HostInput(kind, u), Plain'
  PROVE  QInv'
<1> DEFINE e == [serial |-> serials + 1, kind |-> kind, over |-> u]
           v == IF kind = "key" THEN focus ELSE u
<1>1. /\ serials \in Nat /\ serials' = serials + 1 /\ serials < MaxEvents
      /\ MaxEvents \in Nat /\ MaxDepth \in Nat
  BY LimitsAssumption DEF QInv, Plain, HostInput
<1>2. e \in Event /\ e.serial = serials + 1
  <2>1. serials + 1 \in 1 .. MaxEvents
    BY <1>1
  <2> QED BY <2>1, KindsAssumption DEF Event
<1>3. queue' = Put(e) /\ stack' = Signal(stack, v)
      /\ UNCHANGED <<live, lock, given>>
  BY DEF HostInput
<1> HIDE DEF e, v
<1> DEFINE q == Put(e)
<1>4. /\ QueueOnce(q, serials + 1)
      /\ \A j \in DOMAIN q : q[j] = e \/ \E k \in DOMAIN queue : q[j] = queue[k]
  <2>1. QueueOnce(queue, serials)
    BY DEF QInv
  <2>2. /\ QueueOnce(q, serials + 1)
        /\ Len(q) \in Nat /\ Len(q) > 0 /\ q[Len(q)] = e
        /\ DOMAIN q = 1 .. Len(q)
        /\ \A j \in 1 .. Len(q) - 1 : j \in DOMAIN queue /\ q[j] = queue[j]
    BY <1>1, <1>2, <2>1, PutParts
  <2> HIDE DEF q
  <2>3. \A j \in DOMAIN q : j \in 1 .. Len(q) - 1 \/ j = Len(q)
    BY <2>2
  <2> QED BY <2>2, <2>3
<1> HIDE DEF q
<1>5. Woken(stack')
  BY <1>3, SignalParts DEF QInv
<1>6. QueueOnce(queue', serials') /\ serials <= serials'
  BY <1>1, <1>3, <1>4 DEF q
<1>7. \A j \in DOMAIN queue' :
        \/ queue'[j].serial \in Nat /\ queue'[j].serial > serials
        \/ \E i \in DOMAIN queue : queue'[j] = queue[i]
  <2>1. e.serial \in Nat /\ e.serial > serials
    BY <1>1, <1>2
  <2> QED BY <1>3, <1>4, <2>1 DEF q
<1>8. GivenOnce(given', queue', serials')
  <2>1. GivenOnce(given, queue, serials)
    BY DEF QInv
  <2>2. \A i \in DOMAIN given : given[i] \in Nat /\ given[i] <= serials
    <3>1. given \in Seq(1 .. MaxEvents)
      BY <2>1 DEF GivenOnce
    <3>2. \A i \in DOMAIN given : given[i] \in 1 .. MaxEvents
      BY <3>1, Among
    <3> QED BY <2>1, <3>2 DEF GivenOnce
  <2>3. \A i \in DOMAIN given : given[i] <= serials'
    BY <1>1, <2>2
  <2>4. ASSUME NEW i \in DOMAIN given, NEW j \in DOMAIN queue'
        PROVE  queue'[j].serial # given[i]
    <3>1. CASE queue'[j].serial \in Nat /\ queue'[j].serial > serials
      BY <1>1, <2>2, <3>1
    <3>2. CASE \E k \in DOMAIN queue : queue'[j] = queue[k]
      BY <2>1, <3>2 DEF GivenOnce
    <3> QED BY <1>7, <3>1, <3>2
  <2> QED BY <1>3, <2>1, <2>3, <2>4 DEF GivenOnce
<1>9. CASE Task # {}
  <2>1. PICK x \in Task : TRUE
    BY <1>9
  <2> DEFINE f == SentFrame
  <2>2. f \in Frame /\ f.at = "sent"
    <3>1. [remove |-> FALSE, wait |-> FALSE, kinds |-> {}] \in Way
      BY DEF Way
    <3> QED BY <3>1, LookMade DEF SentFrame, LookFrame
  <2> HIDE DEF f
  <2>3. Steps(stack', x, 0, f) /\ 0 \in 0 .. MaxDepth
    BY <1>1, <1>5, <2>2, Whole DEF QInv
  <2>4. Framed(f, queue', given', serials') /\ ~ Owns(f) /\ ~ ReadingAt(f)
    BY <2>2, FramedLoose DEF ReadingAt, Procedures
  <2>5. live' \subseteq live /\ lock' = lock
        /\ \A y \in live \ live' : stack'[y] = <<>>
    BY <1>3
  <2>6. Locked(x)
    BY <2>3, <2>4, <2>5, LockSame
  <2>7. \A j \in DOMAIN given' : \E i \in DOMAIN given : given'[j] = given[i]
    BY <1>3
  <2> QED BY <1>6, <1>7, <1>8, <2>2, <2>3, <2>4, <2>5, <2>6, <2>7, StepKeeps
<1>10. CASE Task = {}
  <2>1. stack' \in [Task -> Seq(Frame)]
    BY <1>5 DEF Woken
  <2>2. live' = {}
    BY <1>10 DEF Plain
  <2> QED BY <1>6, <1>8, <1>10, <2>1, <2>2 DEF QInv, Framing, Shape, ReaderHolds
<1> QED BY <1>9, <1>10

\* No frame but some sleeper woken.
LEMMA WholeKeeps ==
  ASSUME QInv, NEW t \in Task, Woken(stack'),
         Plain', UNCHANGED <<live, queue, given, serials, lock>>
  PROVE  QInv'
<1> DEFINE f == SentFrame
<1>1. f \in Frame /\ f.at = "sent"
  <2>1. [remove |-> FALSE, wait |-> FALSE, kinds |-> {}] \in Way
    BY DEF Way
  <2> QED BY <2>1, LookMade DEF SentFrame, LookFrame
<1> HIDE DEF f
<1>2. Steps(stack', t, 0, f) /\ 0 \in 0 .. MaxDepth
  BY <1>1, Whole, LimitsAssumption DEF QInv
<1>3. Framed(f, queue, given, serials) /\ ~ Owns(f) /\ ~ ReadingAt(f)
  BY <1>1, FramedLoose DEF ReadingAt, Procedures
<1>4. Locked(t)
  BY <1>2, <1>3, LockSame
<1> QED BY <1>1, <1>2, <1>3, <1>4, StackKeeps

\* A new frame at a task's head that neither reads nor is a procedure's of its
\* look, or the inmost gone.
LEMMA QuietKeeps ==
  ASSUME QInv, NEW t \in Task, NEW n \in 1 .. MaxDepth, NEW f \in Frame,
         Steps(stack', t, n, f), ~ ReadingAt(f),
         f.at # "sent" => f.way \in Ways,
         MaxDepth <= 1 => lock' = lock \/ lock = t,
         Plain', UNCHANGED <<live, queue, given, serials>>
  PROVE  QInv'
<1>1. Framed(f, queue, given, serials) /\ ~ Owns(f)
  BY FramedLoose DEF ReadingAt
<1>2. Locked(t)
  BY LockLeft
<1>3. n \in 0 .. MaxDepth
  OBVIOUS
<1> QED BY <1>1, <1>2, <1>3, StackKeeps

\* A look as it begins, the messages sent that a task answers, and a task that
\* has the processor again.
LEMMA BeginsKeep ==
  ASSUME QInv, NEW t \in Task, Plain',
         (\E way \in Ways : Look(t, way)) \/ TakeSent(t) \/ SentReturn(t)
           \/ Wake(t) \/ TakePosted(t)
  PROVE  QInv'
<1>1. stack \in [Task -> Seq(Frame)] /\ Woken(stack) /\ live \subseteq Task
      /\ Woken(Signal(stack, t)) /\ Shape /\ MaxDepth \in Nat
  BY SignalParts, LimitsAssumption DEF QInv, Plain
<1>2. SentFrame \in Frame /\ SentFrame.at = "sent"
  <2>1. [remove |-> FALSE, wait |-> FALSE, kinds |-> {}] \in Way
    BY DEF Way
  <2> QED BY <2>1, LookMade DEF SentFrame, LookFrame
<1>3. ASSUME NEW way \in Ways, Look(t, way) PROVE QInv'
  <2> DEFINE f == LookFrame("loop", way)
             n == Len(stack[t]) + 1
  <2>1. f \in Frame /\ f.at = "loop" /\ f.way = way
    BY KindsAssumption, LookMade DEF LookFrame
  <2>2. t \in live /\ Len(stack[t]) < MaxDepth
        /\ stack' = [stack EXCEPT ![t] = Append(@, f)]
        /\ UNCHANGED <<live, queue, given, serials>>
        /\ lock' = LetGo(t)
    BY <1>3 DEF Look, InGuest
  <2> HIDE DEF f
  <2>3. Steps(stack', t, n, f) /\ n \in 1 .. MaxDepth
    BY <1>1, <2>1, <2>2, Push
  <2>4. ASSUME MaxDepth <= 1 PROVE lock' = lock \/ lock = t
    <3>1. Len(stack[t]) \in Nat /\ DOMAIN stack[t] = 1 .. Len(stack[t])
      BY <1>1
    <3>2. Len(stack[t]) = 0
      BY <1>1, <2>2, <2>4, <3>1
    <3>3. ~ InSent(t)
      BY <3>1, <3>2 DEF InSent
    <3> QED BY <2>2, <3>3 DEF LetGo
  <2>5. ~ ReadingAt(f)
    BY <2>1 DEF ReadingAt, Procedures
  <2> HIDE DEF n
  <2> QED BY <2>1, <2>2, <2>3, <2>4, <2>5, QuietKeeps
<1>4. CASE TakeSent(t)
  <2> DEFINE f == SentFrame
             n == Len(stack[t]) + 1
  <2>1. /\ Len(stack[t]) < MaxDepth
        /\ stack' = [Signal(stack, t) EXCEPT ![t] = Append(@, f)]
        /\ UNCHANGED <<live, queue, given, serials, lock>>
    BY <1>4 DEF TakeSent
  <2>2. t \in live
    <3>1. CASE InGuest(t)
      BY <3>1 DEF InGuest
    <3>2. CASE At(t, {"asleep", "woken", "loop"})
      BY <3>2, TopParts
    <3> QED BY <1>4, <3>1, <3>2 DEF TakeSent
  <2> HIDE DEF f
  <2>3. Steps(stack', t, n, f) /\ n \in 1 .. MaxDepth
    BY <1>1, <1>2, <2>1, <2>2, Push DEF f
  <2> HIDE DEF n
  <2>4. ~ ReadingAt(f)
    BY <1>2 DEF ReadingAt, Procedures, f
  <2> QED BY <1>2, <2>1, <2>3, <2>4, QuietKeeps DEF f
<1>5. CASE SentReturn(t) \/ TakePosted(t)
  <2> DEFINE f == SentFrame
             n == Len(stack[t])
  <2>1. stack' = [stack EXCEPT ![t] = Front(@)]
        /\ UNCHANGED <<live, queue, given, serials, lock>>
    BY <1>5 DEF SentReturn, TakePosted, Leave
  <2>2. At(t, {"sent", "loop", "posted"})
    BY <1>5 DEF SentReturn, Returns, TakePosted, AtPosted, Runs, At
  <2>3. t \in live /\ stack[t] # <<>>
    BY <2>2, TopParts
  <2> HIDE DEF f
  <2>4. Steps(stack', t, n, f) /\ n \in 1 .. MaxDepth
    BY <1>1, <1>2, <2>1, <2>3, Pop DEF f
  <2> HIDE DEF n
  <2>5. ~ ReadingAt(f)
    BY <1>2 DEF ReadingAt, Procedures, f
  <2> QED BY <1>2, <2>1, <2>4, <2>5, QuietKeeps DEF f
<1>6. CASE Wake(t)
  <2> DEFINE f == [Top(t) EXCEPT !.at = "loop"]
             n == Len(stack[t])
  <2>1. At(t, {"woken"}) /\ stack' = Replace(stack, t, f)
        /\ UNCHANGED <<live, queue, given, serials, lock>>
    BY <1>6 DEF Wake, Runs, Change
  <2>2. t \in live /\ stack[t] # <<>> /\ Top(t) \in Frame /\ Top(t).at = "woken"
        /\ Framed(Top(t), queue, given, serials)
    BY <2>1, TopParts
  <2>3. f \in Frame /\ f.at = "loop" /\ f.way = Top(t).way
    <3>1. "loop" \in Places
      BY DEF Places, Machine
    <3> QED BY <2>2, <3>1 DEF Frame
  <2> HIDE DEF f
  <2>4. Steps(stack', t, n, f) /\ n \in 1 .. MaxDepth
    BY <1>1, <2>1, <2>2, <2>3, Retop
  <2> HIDE DEF n
  <2>5. ~ ReadingAt(f) /\ f.way \in Ways
    BY <2>2, <2>3 DEF ReadingAt, Procedures, Framed
  <2> QED BY <2>1, <2>3, <2>4, <2>5, QuietKeeps
<1> QED BY <1>3, <1>4, <1>5, <1>6

\* The read begins.
LEMMA BeginKeeps ==
  ASSUME QInv, NEW t \in Task, NEW early \in BOOLEAN, Begin(t, early),
         At(t, {"loop", "posted"}), lock = t \/ MayHold(t), Plain'
  PROVE  QInv'
<1> DEFINE f == [Top(t) EXCEPT !.at = "read", !.early = early, !.index = 1]
           n == Len(stack[t])
<1>1. /\ t \in live /\ live \subseteq Task /\ stack[t] # <<>> /\ Shape
      /\ stack \in [Task -> Seq(Frame)] /\ Top(t) \in Frame
      /\ Framed(Top(t), queue, given, serials)
      /\ Top(t).at \in {"loop", "posted"}
  BY TopParts
<1>2. Woken(stack)
  BY SignalParts DEF QInv
<1>3. f \in Frame
  <2>1. "read" \in Places /\ 1 \in 1 .. MaxEvents /\ 1 \in 1 .. MaxEvents + 1
        /\ NoEvent \in Event \cup {NoEvent}
    BY LimitsAssumption DEF Places, Machine
  <2> QED BY <1>1, <2>1, Made
<1>4. f.at = "read" /\ f.way = Top(t).way
  BY <1>1, MadeParts
<1>5. stack' = Replace(stack, t, f) /\ lock' = t
      /\ UNCHANGED <<live, queue, given, serials>>
  BY DEF Begin, Change
<1> HIDE DEF f
<1>6. Steps(stack', t, n, f) /\ n \in 1 .. MaxDepth
  BY <1>1, <1>2, <1>3, <1>5, Retop
<1> HIDE DEF n
<1>7. Framed(f, queue, given, serials) /\ ~ Owns(f)
  <2>1. f.at \notin Procedures /\ f.way \in Ways
    BY <1>1, <1>4 DEF Procedures, Framed
  <2> QED BY <2>1, FramedLoose
<1>8. Locked(t)
  BY <1>5, LockTaken
<1>9. n \in 0 .. MaxDepth
  BY <1>6
<1> QED BY <1>3, <1>5, <1>6, <1>7, <1>8, <1>9, StackKeeps

\* A queue is within itself.
LEMMA WithinSelf == QInv => Within(queue, queue)
BY DEF QInv, QueueOnce, Within

\* What the machine does of a look.
LEMMA MachinesKeep ==
  ASSUME QInv, HookedOnce, NEW t \in Task, Machines(t), Plain'
  PROVE  QInv'
<1>1. CASE Wake(t) \/ TakePosted(t)
  BY <1>1, BeginsKeep
<1>2. CASE BeginEarly(t)
  <2>1. At(t, {"loop", "posted"}) /\ lock = t /\ Begin(t, TRUE)
    BY <1>2 DEF BeginEarly, Runs, At, InputFirst
  <2> QED BY <2>1, BeginKeeps
<1>3. CASE BeginRead(t)
  <2>1. At(t, {"loop", "posted"}) /\ MayHold(t) /\ Begin(t, FALSE)
    BY <1>3 DEF BeginRead, AtPosted, Runs, At
  <2> QED BY <2>1, BeginKeeps
<1>4. Woken(stack)
  BY SignalParts DEF QInv
<1>5. CASE ReadNone(t) \/ ReadEnd(t)
  <2>1. At(t, {"loop", "posted", "read"}) /\ NoInput(t, stack)
        /\ UNCHANGED <<live, queue, given, serials>>
    BY <1>5 DEF ReadNone, ReadEnd, AtPosted, Runs, At
  <2> QED BY <1>4, <2>1, NoInputKeeps
<1>6. CASE Elsewhere(t)
  <2>1. PICK e : /\ Considers(t, e) /\ Target(e) \in live \ {t}
                 /\ NoInput(t, Signal(stack, Target(e)))
    BY <1>6 DEF Elsewhere
  <2>2. UNCHANGED <<live, queue, given, serials>>
    BY <1>6 DEF Elsewhere
  <2> DEFINE s == Signal(stack, Target(e))
  <2>3. Woken(s) /\ s[t] = stack[t]
    BY <2>1, SignalParts DEF QInv
  <2>4. At(t, {"loop", "posted", "read"})
    BY <2>1 DEF Considers, Runs, At
  <2> HIDE DEF s
  <2>5. NoInput(t, s)
    BY <2>1 DEF s
  <2> QED BY <2>2, <2>3, <2>4, <2>5, NoInputKeeps
<1>7. ASSUME NEW e, Considers(t, e)
      PROVE  /\ Within(Less(e), queue)
             /\ \A j \in DOMAIN Less(e) : Less(e)[j].serial # e.serial
             /\ Free(t, Len(stack[t]), e.serial)
  <2>1. At(t, {"read", "hit"}) /\ Queued(e) /\ \E i \in DOMAIN queue : queue[i] = e
    BY <1>7, ConsidersParts DEF At
  <2> QED BY <2>1, LessParts, ReadFree DEF QInv
<1>8. CASE ForNobody(t)
  <2>1. PICK e : /\ Considers(t, e) /\ queue' = Less(e)
                 /\ stack' = ReadOn(t, From(Less(e), Top(t).index))
    BY <1>8 DEF ForNobody
  <2>2. UNCHANGED <<live, given, serials, lock>>
    BY <1>8 DEF ForNobody
  <2>3. From(Less(e), Top(t).index) \in 1 .. MaxEvents + 1
    BY <2>1, ConsidersParts, OnParts
  <2>4. At(t, {"read"} \cup Procedures) /\ Within(queue', queue)
    BY <1>7, <2>1, ConsidersParts
  <2> QED BY <2>1, <2>2, <2>3, <2>4, ReadOnKeeps
<1>9. CASE PassOver(t)
  <2>1. PICK e : /\ Considers(t, e)
                 /\ stack' = ReadOn(t, After(e, Top(t).index))
    BY <1>9 DEF PassOver
  <2>2. UNCHANGED <<live, queue, given, serials, lock>>
    BY <1>9 DEF PassOver
  <2>3. After(e, Top(t).index) \in 1 .. MaxEvents + 1
    BY <2>1, ConsidersParts, OnParts
  <2>4. At(t, {"read"} \cup Procedures) /\ Within(queue', queue)
    BY <2>1, <2>2, ConsidersParts, WithinSelf
  <2> QED BY <2>1, <2>2, <2>3, <2>4, ReadOnKeeps
<1>10. CASE ReadMouse(t)
  <2>1. PICK e : Considers(t, e) /\ stack' = Call(t, "hit", e)
    BY <1>10 DEF ReadMouse
  <2>2. UNCHANGED <<live, queue, given, serials, lock>>
    BY <1>10 DEF ReadMouse
  <2> DEFINE f == [Top(t) EXCEPT !.at = "hit", !.one = e]
  <2>3. /\ Top(t) \in Frame /\ e \in Event /\ e.serial <= serials
        /\ At(t, {"read"} \cup Procedures)
    BY <2>1, ConsidersParts
  <2>4. f \in Frame
    <3>1. "hit" \in Places /\ 1 \in 1 .. MaxEvents /\ 1 \in 1 .. MaxEvents + 1
          /\ e \in Event \cup {NoEvent} /\ TRUE \in BOOLEAN
      BY <2>3, LimitsAssumption DEF Places, Procedures
    <3> QED BY <2>3, <3>1, Made
  <2>5. f.at = "hit" /\ f.way = Top(t).way /\ f.one = e
    BY <2>3, MadeParts
  <2>6. stack' = Change(t, f)
    BY <2>1 DEF Call
  <2> HIDE DEF f
  <2>7. ~ Owns(f) /\ f.at \in Procedures /\ f.at # "asked"
    BY <2>5 DEF Owns, Procedures
  <2>8. Within(queue', queue)
    BY <2>2, WithinSelf
  <2> QED BY <2>2, <2>3, <2>4, <2>5, <2>6, <2>7, <2>8, CallKeeps
<1>11. CASE ReadKey(t)
  <2>1. PICK e : /\ Considers(t, e)
                 /\ queue' = IF Top(t).way.remove THEN Less(e) ELSE queue
                 /\ \/ /\ stack' = Call(t, "key", e)
                       /\ UNCHANGED given
                    \/ HandOver(t, e)
    BY <1>11 DEF ReadKey
  <2>2. UNCHANGED <<live, serials, lock>>
    BY <1>11 DEF ReadKey
  <2> DEFINE f == [Top(t) EXCEPT !.at = "key", !.one = e]
  <2>3. /\ Top(t) \in Frame /\ e \in Event /\ e.serial <= serials
        /\ At(t, {"read"} \cup Procedures)
        /\ \A i \in DOMAIN given : given[i] # e.serial
    BY <2>1, ConsidersParts
  <2>4. f \in Frame
    <3>1. "key" \in Places /\ 1 \in 1 .. MaxEvents /\ 1 \in 1 .. MaxEvents + 1
          /\ e \in Event \cup {NoEvent} /\ TRUE \in BOOLEAN
      BY <2>3, LimitsAssumption DEF Places, Procedures
    <3> QED BY <2>3, <3>1, Made
  <2>5. f.at = "key" /\ f.way = Top(t).way /\ f.one = e
    BY <2>3, MadeParts
  <2>6. Within(queue', queue)
    BY <1>7, <2>1, WithinSelf
  <2>7. Free(t, Len(stack[t]), e.serial)
    BY <1>7, <2>1
  <2>8. Top(t).way.remove =>
          \A j \in DOMAIN queue' : queue'[j].serial # e.serial
    BY <1>7, <2>1
  <2>9. CASE stack' = Call(t, "key", e) /\ UNCHANGED given
    <3>1. stack' = Change(t, f)
      BY <2>9 DEF Call
    <3> HIDE DEF f
    <3>2. f.at \in Procedures /\ f.at # "asked"
          /\ (Owns(f) => Top(t).way.remove)
      BY <2>5 DEF Owns, Procedures
    <3>3. UNCHANGED <<live, given, serials, lock>>
      BY <2>2, <2>9
    <3>4. Owns(f) => /\ Free(t, Len(stack[t]), e.serial)
                     /\ \A i \in DOMAIN given : given[i] # e.serial
                     /\ \A j \in DOMAIN queue' :
                         queue'[j].serial = e.serial
                           => f.at = "asked" /\ queue'[j] = e
      BY <2>3, <2>7, <2>8, <3>2
    <3> QED BY <2>3, <2>4, <2>5, <2>6, <3>1, <3>2, <3>3, <3>4, CallKeeps
  <2>10. CASE HandOver(t, e)
    <3>1. Top(t).way.remove =>
            /\ Free(t, Len(stack[t]), e.serial)
            /\ \A i \in DOMAIN given : given[i] # e.serial
            /\ \A j \in DOMAIN queue' : queue'[j].serial # e.serial
      BY <2>3, <2>7, <2>8
    <3> HIDE DEF f
    <3> QED BY <2>2, <2>3, <2>6, <2>10, <3>1, HandOverKeeps
  <2> QED BY <2>1, <2>9, <2>10
<1> QED BY <1>1, <1>2, <1>3, <1>5, <1>6, <1>8, <1>9, <1>10, <1>11 DEF Machines

\* The inmost frame's event, where a procedure of the look's returns.
LEMMA ReturnParts ==
  ASSUME QInv, NEW t \in Task, NEW p \in Procedures, Returns(t, p)
  PROVE  /\ t \in live /\ At(t, {p}) /\ At(t, {"read"} \cup Procedures)
         /\ Top(t).at = p /\ Top(t) \in Frame
         /\ Top(t).one \in Event /\ Top(t).one.serial <= serials
         /\ Top(t).index \in 1 .. MaxEvents + 1
         /\ Top(t).back \in 1 .. MaxEvents
         /\ Owns(Top(t)) =>
              /\ Free(t, Len(stack[t]), Top(t).one.serial)
              /\ \A i \in DOMAIN given : given[i] # Top(t).one.serial
              /\ \A j \in DOMAIN queue :
                   queue[j].serial = Top(t).one.serial
                     => p = "asked" /\ queue[j] = Top(t).one
<1>1. At(t, {p})
  BY DEF Returns
<1>2. At(t, {"read"} \cup Procedures)
  BY <1>1 DEF At
<1>3. /\ t \in live /\ Top(t) \in Frame /\ Top(t).at = p
      /\ Framed(Top(t), queue, given, serials)
      /\ Owns(Top(t)) => Free(t, Len(stack[t]), Top(t).one.serial)
  BY <1>1, TopParts
<1>4. Top(t).index \in 1 .. MaxEvents + 1 /\ Top(t).back \in 1 .. MaxEvents
  BY <1>3 DEF Frame
<1> QED BY <1>1, <1>2, <1>3, <1>4 DEF Framed

\* The event that a look asks for, past the hooks.
LEMMA ResolvedKeeps ==
  ASSUME QInv, NEW t \in Task, NEW e \in Event, Resolved(t, e),
         At(t, {"read"} \cup Procedures), e.serial <= serials,
         Free(t, Len(stack[t]), e.serial),
         \A i \in DOMAIN given : given[i] # e.serial,
         \A j \in DOMAIN Less(e) : Less(e)[j].serial # e.serial,
         Plain', UNCHANGED <<live, serials, lock>>
  PROVE  QInv'
<1>1. Top(t) \in Frame
  BY TopParts
<1>2. CASE ~ Top(t).way.remove
  <2>1. HandOver(t, e) /\ Within(queue', queue)
    BY <1>2, WithinSelf DEF Resolved
  <2> QED BY <1>2, <2>1, HandOverKeeps
<1>3. CASE Top(t).way.remove
  <2> DEFINE k == IF Queued(e) THEN Place(e) ELSE 1
             f == [Top(t) EXCEPT !.at = "told", !.one = e, !.back = k]
  <2>1. queue' = Less(e) /\ stack' = Change(t, f) /\ UNCHANGED given
    BY <1>3 DEF Resolved
  <2>2. k \in 1 .. MaxEvents
    <3>1. 1 \in 1 .. MaxEvents + 1
      BY LimitsAssumption
    <3> QED BY <3>1, OnParts
  <2> HIDE DEF k
  <2>3. f \in Frame
    <3>1. "told" \in Places /\ 1 \in 1 .. MaxEvents + 1 /\ TRUE \in BOOLEAN
          /\ e \in Event \cup {NoEvent}
      BY LimitsAssumption DEF Places, Procedures
    <3> QED BY <1>1, <2>2, <3>1, Made
  <2>4. f.at = "told" /\ f.way = Top(t).way /\ f.one = e
    BY <1>1, MadeParts
  <2> HIDE DEF f
  <2>5. f.at \in Procedures /\ f.at # "asked"
    BY <2>4 DEF Procedures
  <2>6. Within(queue', queue)
    BY <2>1, LessParts DEF QInv
  <2>7. UNCHANGED <<live, given, serials, lock>>
    BY <2>1
  <2>8. \A j \in DOMAIN queue' : queue'[j].serial # e.serial
    BY <2>1
  <2> QED BY <2>1, <2>3, <2>4, <2>5, <2>6, <2>7, <2>8, CallKeeps
<1> QED BY <1>2, <1>3

\* The procedures of a look return.
LEMMA ReturnsKeep ==
  ASSUME QInv, HookedOnce, NEW t \in Task, Plain',
         KeyReturn(t) \/ HitReturn(t) \/ AskedReturn(t)
  PROVE  QInv'
<1> DEFINE e == Top(t).one
<1>1. UNCHANGED <<live, serials, lock>>
  BY DEF KeyReturn, HitReturn, AskedReturn
<1>2. /\ Within(Less(e), queue)
      /\ \A j \in DOMAIN Less(e) : Less(e)[j] # e
      /\ Queued(e) => \A j \in DOMAIN Less(e) : Less(e)[j].serial # e.serial
  BY LessParts DEF QInv
<1>3. /\ "key" \in Procedures /\ "hit" \in Procedures /\ "asked" \in Procedures
  BY DEF Procedures
<1>4. ASSUME At(t, {"read"} \cup Procedures), Thrown(t, e),
             Top(t).index \in 1 .. MaxEvents + 1
      PROVE  QInv'
  <2>1. From(Less(e), Top(t).index) \in 1 .. MaxEvents + 1
    BY <1>4, OnParts
  <2>2. /\ queue' = Less(e) /\ UNCHANGED given
        /\ stack' = ReadOn(t, From(Less(e), Top(t).index))
    BY <1>4 DEF Thrown
  <2>3. UNCHANGED <<live, given, serials, lock>>
    BY <1>1, <2>2
  <2>4. Within(queue', queue)
    BY <1>2, <2>2
  <2> HIDE DEF e
  <2> QED BY <1>4, <2>1, <2>2, <2>3, <2>4, ReadOnKeeps
<1>5. CASE KeyReturn(t)
  <2>1. Returns(t, "key") /\ (Thrown(t, e) \/ (HandOver(t, e) /\ UNCHANGED queue))
    BY <1>5 DEF KeyReturn, Thrown
  <2>2. /\ At(t, {"read"} \cup Procedures) /\ Top(t).at = "key"
        /\ e \in Event /\ e.serial <= serials
        /\ Top(t).index \in 1 .. MaxEvents + 1
    BY <1>3, <2>1, ReturnParts
  <2>3. CASE Thrown(t, e)
    BY <1>4, <2>2, <2>3
  <2>4. CASE HandOver(t, e) /\ UNCHANGED queue
    <3>1. Top(t).way.remove =>
            /\ Free(t, Len(stack[t]), e.serial)
            /\ \A i \in DOMAIN given : given[i] # e.serial
            /\ \A j \in DOMAIN queue : queue[j].serial # e.serial
      BY <1>3, <2>1, <2>2, ReturnParts DEF Owns
    <3>2. Within(queue', queue)
      BY <2>4, WithinSelf
    <3>3. Top(t).way.remove =>
            /\ Free(t, Len(stack[t]), e.serial)
            /\ \A i \in DOMAIN given : given[i] # e.serial
            /\ \A j \in DOMAIN queue' : queue'[j].serial # e.serial
      BY <2>4, <3>1
    <3> HIDE DEF e
    <3> QED BY <1>1, <2>2, <2>4, <3>2, <3>3, HandOverKeeps
  <2> QED BY <2>1, <2>3, <2>4
<1>6. CASE AskedReturn(t)
  <2>1. Returns(t, "asked") /\ (Thrown(t, e) \/ Resolved(t, e))
    BY <1>6 DEF AskedReturn
  <2>2. /\ At(t, {"read"} \cup Procedures) /\ Top(t).at = "asked"
        /\ e \in Event /\ e.serial <= serials
        /\ Top(t).index \in 1 .. MaxEvents + 1
    BY <1>3, <2>1, ReturnParts
  <2>3. CASE Thrown(t, e)
    BY <1>4, <2>2, <2>3
  <2>4. CASE Resolved(t, e)
    <3>1. Owns(Top(t))
      BY <2>2 DEF Owns
    <3>2. /\ Free(t, Len(stack[t]), e.serial)
          /\ \A i \in DOMAIN given : given[i] # e.serial
          /\ \A j \in DOMAIN queue : queue[j].serial = e.serial => queue[j] = e
      BY <1>3, <2>1, <3>1, ReturnParts
    <3>3. \A j \in DOMAIN Less(e) : Less(e)[j].serial # e.serial
      BY <1>2, <3>2 DEF Within
    <3> HIDE DEF e
    <3> QED BY <1>1, <2>2, <2>4, <3>2, <3>3, ResolvedKeeps
  <2> QED BY <2>1, <2>3, <2>4
<1>7. CASE HitReturn(t)
  <2>1. Returns(t, "hit")
    BY <1>7 DEF HitReturn
  <2>2. /\ At(t, {"read"} \cup Procedures) /\ Top(t).at = "hit"
        /\ e \in Event /\ e.serial <= serials /\ Top(t) \in Frame
        /\ Top(t).index \in 1 .. MaxEvents + 1 /\ At(t, {"hit"})
    BY <1>3, <2>1, ReturnParts
  <2>3. ASSUME NEW i \in 1 .. MaxEvents + 1, stack' = ReadOn(t, i),
               UNCHANGED <<queue, given>>
        PROVE  QInv'
    <3>1. UNCHANGED <<live, given, serials, lock>>
      BY <1>1, <2>3
    <3>2. Within(queue', queue)
      BY <2>3, WithinSelf
    <3> HIDE DEF e
    <3> QED BY <2>2, <2>3, <3>1, <3>2, ReadOnKeeps
  <2>4. CASE ~ Queued(e) /\ stack' = ReadOn(t, 1) /\ UNCHANGED <<queue, given>>
    <3>1. 1 \in 1 .. MaxEvents + 1
      BY LimitsAssumption
    <3> QED BY <2>3, <2>4, <3>1
  <2>5. CASE stack' = ReadOn(t, After(e, Top(t).index))
             /\ UNCHANGED <<queue, given>>
    <3>1. After(e, Top(t).index) \in 1 .. MaxEvents + 1
      BY <2>2, OnParts
    <3> QED BY <2>3, <2>5, <3>1
  <2>6. ASSUME Queued(e)
        PROVE  /\ Free(t, Len(stack[t]), e.serial)
               /\ \A i \in DOMAIN given : given[i] # e.serial
               /\ \A j \in DOMAIN queue : queue[j].serial = e.serial
                                            => queue[j] = e
               /\ \A j \in DOMAIN Less(e) : Less(e)[j].serial # e.serial
    <3>1. PICK i \in DOMAIN queue : queue[i] = e
      BY <2>6 DEF Queued, Range
    <3>2. At(t, {"read", "hit"})
      BY <2>2 DEF At
    <3>3. Free(t, Len(stack[t]), e.serial)
      BY <3>1, <3>2, ReadFree
    <3>4. \A k \in DOMAIN given : given[k] # e.serial
      BY <3>1 DEF QInv, GivenOnce
    <3>5. \A j \in DOMAIN queue : queue[j].serial = e.serial => queue[j] = e
      BY <3>1 DEF QInv, QueueOnce
    <3> QED BY <1>2, <2>6, <3>3, <3>4, <3>5
  <2>7. CASE /\ Queued(e) /\ "mousehook" \in Features
             /\ stack' = Call(t, "asked", e) /\ UNCHANGED <<queue, given>>
    <3> DEFINE f == [Top(t) EXCEPT !.at = "asked", !.one = e]
    <3>1. f \in Frame
      <4>1. "asked" \in Places /\ 1 \in 1 .. MaxEvents /\ 1 \in 1 .. MaxEvents + 1
            /\ e \in Event \cup {NoEvent} /\ TRUE \in BOOLEAN
        BY <2>2, LimitsAssumption DEF Places, Procedures
      <4> QED BY <2>2, <4>1, Made
    <3>2. f.at = "asked" /\ f.way = Top(t).way /\ f.one = e
      BY <2>2, MadeParts
    <3>3. stack' = Change(t, f)
      BY <2>7 DEF Call
    <3> HIDE DEF f, e
    <3>4. UNCHANGED <<live, given, serials, lock>> /\ Within(queue', queue)
      BY <1>1, <2>7, WithinSelf
    <3>5. /\ Free(t, Len(stack[t]), e.serial)
          /\ \A i \in DOMAIN given : given[i] # e.serial
          /\ \A j \in DOMAIN queue' : queue'[j].serial = e.serial
                                        => f.at = "asked" /\ queue'[j] = e
      BY <2>6, <2>7, <3>2
    <3>6. f.at \in Procedures /\ (f.at = "asked" => "mousehook" \in Features)
      BY <1>3, <2>7, <3>2
    <3> QED BY <2>2, <3>1, <3>2, <3>3, <3>4, <3>5, <3>6, CallKeeps
  <2>8. CASE Queued(e) /\ Resolved(t, e)
    <3> HIDE DEF e
    <3> QED BY <1>1, <2>2, <2>6, <2>8, ResolvedKeeps
  <2>9. CASE Thrown(t, e)
    BY <1>4, <2>2, <2>9
  <2> QED BY <1>7, <2>4, <2>5, <2>7, <2>8, <2>9 DEF HitReturn
<1> QED BY <1>5, <1>6, <1>7

\* The window told of an event taken has shown its cursor.
LEMMA ToldReturnKeeps ==
  ASSUME QInv, HookedOnce, NEW t \in Task, Plain', ToldReturn(t)
  PROVE  QInv'
<1> DEFINE e == Top(t).one
           back == From(queue, Top(t).back)
           n == Len(stack[t])
<1>1. UNCHANGED <<live, serials, lock>>
  BY DEF ToldReturn
<1>2. Returns(t, "told") /\ "told" \in Procedures
  BY DEF ToldReturn, Procedures
<1>3. /\ At(t, {"read"} \cup Procedures) /\ Top(t).at = "told"
      /\ e \in Event /\ e.serial <= serials /\ Top(t) \in Frame
      /\ Top(t).index \in 1 .. MaxEvents + 1
      /\ Top(t).back \in 1 .. MaxEvents
  BY <1>2, ReturnParts
<1>4. Owns(Top(t))
  BY <1>3 DEF Owns
<1>5. /\ Free(t, n, e.serial)
      /\ \A i \in DOMAIN given : given[i] # e.serial
      /\ \A j \in DOMAIN queue : queue[j].serial # e.serial
  BY <1>2, <1>4, ReturnParts
<1>6. CASE HandOver(t, e) /\ UNCHANGED queue
  <2>1. Within(queue', queue)
    BY <1>6, WithinSelf
  <2>2. \A j \in DOMAIN queue' : queue'[j].serial # e.serial
    BY <1>5, <1>6
  <2> HIDE DEF e
  <2> QED BY <1>1, <1>3, <1>5, <1>6, <2>1, <2>2, HandOverKeeps
<1>7. CASE /\ stack' = ReadOn(t, IF Queued(e) THEN Place(e)
                                 ELSE From(queue, Top(t).index))
           /\ UNCHANGED <<queue, given>>
  <2> DEFINE i == IF Queued(e) THEN Place(e) ELSE From(queue, Top(t).index)
  <2>1. i \in 1 .. MaxEvents + 1
    <3>1. /\ From(queue, Top(t).index) \in 1 .. MaxEvents + 1
          /\ Queued(e) => Place(e) \in 1 .. MaxEvents
      BY <1>3, OnParts
    <3> QED BY <3>1, LimitsAssumption
  <2>2. stack' = ReadOn(t, i)
    BY <1>7
  <2> HIDE DEF i
  <2>3. UNCHANGED <<live, given, serials, lock>> /\ Within(queue', queue)
    BY <1>1, <1>7, WithinSelf
  <2> HIDE DEF e
  <2> QED BY <1>3, <2>1, <2>2, <2>3, ReadOnKeeps
<1>8. CASE /\ queue' = InsertAt(queue, back, e)
           /\ stack' = Call(t, "hit", e) /\ UNCHANGED given
  <2> DEFINE f == [Top(t) EXCEPT !.at = "hit", !.one = e]
             q == InsertAt(queue, back, e)
  <2>1. f \in Frame
    <3>1. "hit" \in Places /\ 1 \in 1 .. MaxEvents /\ 1 \in 1 .. MaxEvents + 1
          /\ e \in Event \cup {NoEvent} /\ TRUE \in BOOLEAN
      BY <1>3, LimitsAssumption DEF Places, Procedures
    <3> QED BY <1>3, <3>1, Made
  <2>2. f.at = "hit" /\ f.way = Top(t).way /\ f.one = e
    BY <1>3, MadeParts
  <2>3. stack' = Replace(stack, t, f)
    BY <1>8 DEF Call, Change
  <2>4. back \in 1 .. Len(queue) + 1
    <3>1. Top(t).back \in 1 .. MaxEvents + 1
      BY <1>3, LimitsAssumption
    <3> QED BY <3>1, OnParts
  <2> HIDE DEF f, back
  <2>5. /\ QueueOnce(q, serials)
        /\ \A j \in DOMAIN q : q[j] = e \/ \E k \in DOMAIN queue : q[j] = queue[k]
    <3>1. QueueOnce(queue, serials)
      BY DEF QInv
    <3> HIDE DEF e
    <3> QED BY <1>3, <1>5, <2>4, <3>1, PutBack
  <2> HIDE DEF q
  <2>6. queue' = q
    BY <1>8 DEF q
  <2>7. /\ t \in live /\ live \subseteq Task /\ stack[t] # <<>> /\ Shape
        /\ stack \in [Task -> Seq(Frame)] /\ Reading(t) /\ Woken(stack)
        /\ Framed(Top(t), queue, given, serials)
    <3>1. ReadingAt(Top(t))
      BY <1>3 DEF ReadingAt, Procedures
    <3> QED BY <1>3, <3>1, TopParts, SignalParts
  <2>8. Steps(stack', t, n, f) /\ n \in 1 .. MaxDepth
    BY <2>1, <2>3, <2>7, Retop
  <2> HIDE DEF n
  <2>9. n \in 0 .. MaxDepth
    BY <2>8
  <2>10. ~ Owns(f) /\ f.at \in Procedures /\ f.at # "asked" /\ f.at # "sent"
    BY <2>2 DEF Owns, Procedures
  <2>11. Framed(f, queue', given', serials')
    <3>1. f.way \in Ways
      BY <1>3, <2>2, <2>7 DEF Framed
    <3> QED BY <1>1, <1>3, <2>2, <2>10, <3>1 DEF Framed
  <2>12. live' \subseteq live /\ \A u \in live \ live' : stack'[u] = <<>>
    BY <1>1
  <2>13. Locked(t)
    <3>1. lock' = lock
      BY <1>1
    <3> QED BY <2>7, <2>8, <2>9, <2>12, <3>1, LockSame
  <2>14. QueueOnce(queue', serials')
    BY <1>1, <2>5, <2>6
  <2>15. serials <= serials'
    BY <1>1, LimitsAssumption DEF QInv, Plain
  <2>16. \A j \in DOMAIN queue' : \/ \E k \in DOMAIN queue : queue'[j] = queue[k]
                                  \/ Free(t, n, queue'[j].serial)
    <3> HIDE DEF e
    <3> QED BY <1>5, <2>5, <2>6
  <2>17. GivenOnce(given', queue', serials')
    <3>1. GivenOnce(given, queue, serials)
      BY DEF QInv
    <3>2. \A i \in DOMAIN given : \A j \in DOMAIN queue' :
            queue'[j].serial # given[i]
      BY <1>5, <2>5, <2>6, <3>1 DEF GivenOnce
    <3> QED BY <1>1, <1>8, <3>1, <3>2 DEF GivenOnce
  <2>18. \A j \in DOMAIN given' : \E i \in DOMAIN given : given'[j] = given[i]
    BY <1>8
  <2> QED BY <2>1, <2>8, <2>9, <2>10, <2>11, <2>12, <2>13, <2>14, <2>15,
             <2>16, <2>17, <2>18, StepKeeps
<1> QED BY <1>6, <1>7, <1>8 DEF ToldReturn

\* A task ends.
LEMMA EndKeeps ==
  ASSUME QInv, NEW t \in Task, Plain', End(t)
  PROVE  QInv'
<1> DEFINE f == SentFrame
<1>1. f \in Frame /\ f.at = "sent"
  <2>1. [remove |-> FALSE, wait |-> FALSE, kinds |-> {}] \in Way
    BY DEF Way
  <2> QED BY <2>1, LookMade DEF SentFrame, LookFrame
<1> HIDE DEF f
<1>2. /\ live' = live \ {t} /\ stack' = [stack EXCEPT ![t] = <<>>]
      /\ UNCHANGED <<queue, serials, lock, given>>
  BY DEF End
<1>3. stack \in [Task -> Seq(Frame)]
  BY DEF QInv
<1>4. /\ stack' \in [Task -> Seq(Frame)] /\ stack'[t] = <<>>
      /\ \A u \in Task \ {t} : stack'[u] = stack[u]
  <2>1. <<>> \in Seq(Frame)
    OBVIOUS
  <2> QED BY <1>2, <1>3, <2>1
<1>5. Steps(stack', t, 0, f)
  <2>1. ASSUME NEW u \in Task PROVE Len(stack'[u]) <= Len(stack[u])
    <3>1. Len(stack[u]) \in Nat
      BY <1>3
    <3>2. CASE u = t
      BY <1>4, <3>1, <3>2
    <3>3. CASE u # t
      BY <1>4, <3>1, <3>3
    <3> QED BY <3>2, <3>3
  <2>2. ASSUME NEW u \in Task, NEW i \in DOMAIN stack'[u]
        PROVE  /\ i \in DOMAIN stack[u] /\ (u # t \/ i # 0)
               /\ Old(stack'[u][i], stack[u][i])
    <3>1. u # t
      BY <1>4, <2>2
    <3> QED BY <1>4, <2>2, <3>1 DEF Old
  <2> QED BY <1>4, <2>1, <2>2 DEF Steps
<1>6. Framed(f, queue', given', serials') /\ ~ Owns(f) /\ ~ ReadingAt(f)
  BY <1>1, FramedLoose DEF ReadingAt, Procedures
<1>7. 0 \in 0 .. MaxDepth /\ serials <= serials'
  BY <1>2, LimitsAssumption DEF QInv, Plain
<1>8. live' \subseteq live /\ \A u \in live \ live' : stack'[u] = <<>>
  BY <1>2, <1>4
<1>9. Locked(t)
  BY <1>2 DEF Locked
<1>10. QueueOnce(queue', serials') /\ GivenOnce(given', queue', serials')
  BY <1>2 DEF QInv
<1>11. /\ \A j \in DOMAIN queue' : \E i \in DOMAIN queue : queue'[j] = queue[i]
       /\ \A j \in DOMAIN given' : \E i \in DOMAIN given : given'[j] = given[i]
  BY <1>2
<1> QED BY <1>1, <1>5, <1>6, <1>7, <1>8, <1>9, <1>10, <1>11, StepKeeps

\* Every step keeps the invariant.
LEMMA QInvKept == HookedOnce /\ QInv /\ [Next]_vars => QInv'
<1> SUFFICES ASSUME HookedOnce, QInv, [Next]_vars PROVE QInv'
  OBVIOUS
<1>1. Plain'
  BY PlainKeeps
<1>2. CASE UNCHANGED vars
  BY <1>2 DEF vars, QInv, Plain, Framing, Free, Shape, ReaderHolds, Reading
<1>3. ASSUME NEW kind \in Kinds, NEW u \in Task \cup {None}, HostInput(kind, u)
      PROVE  QInv'
  BY <1>1, <1>3, HostInputKeeps
<1>4. ASSUME NEW t \in Task, Machines(t)
      PROVE  QInv'
  BY <1>1, <1>4, MachinesKeep
<1>5. ASSUME NEW t \in Task, Programs(t)
      PROVE  QInv'
  <2>1. ASSUME NEW u, Post(t, u) PROVE QInv'
    <3>1. stack' = Signal(stack, u) /\ UNCHANGED <<live, queue, given, serials, lock>>
      BY <2>1 DEF Post
    <3>2. Woken(stack')
      BY <3>1, SignalParts DEF QInv
    <3> QED BY <1>1, <3>1, <3>2, WholeKeeps
  <2>2. ASSUME NEW u, SetFocus(t, u) PROVE QInv'
    <3>1. stack' = stack /\ UNCHANGED <<live, queue, given, serials, lock>>
      BY <2>2 DEF SetFocus
    <3>2. Woken(stack')
      BY <3>1, SignalParts DEF QInv
    <3> QED BY <1>1, <3>1, <3>2, WholeKeeps
  <2>3. CASE (\E way \in Ways : Look(t, way)) \/ TakeSent(t) \/ SentReturn(t)
    BY <1>1, <2>3, BeginsKeep
  <2>4. CASE KeyReturn(t) \/ HitReturn(t) \/ AskedReturn(t)
    BY <1>1, <2>4, ReturnsKeep
  <2>5. CASE ToldReturn(t)
    BY <1>1, <2>5, ToldReturnKeeps
  <2>6. CASE End(t)
    BY <1>1, <2>6, EndKeeps
  <2> QED BY <1>5, <2>1, <2>2, <2>3, <2>4, <2>5, <2>6 DEF Programs
<1> QED BY <1>2, <1>3, <1>4, <1>5 DEF Next

\* It holds at the start.
LEMMA QInvInit == Init => QInv
<1> SUFFICES ASSUME Init PROVE QInv
  OBVIOUS
<1>1. Plain
  <2>1. <<>> \in Seq(INPUT_MARK + 1 .. INPUT_MARK + posts)
    OBVIOUS
  <2>2. posted \in [Task -> Seq(INPUT_MARK + 1 .. INPUT_MARK + posts)]
    BY <2>1 DEF Init
  <2>3. /\ 0 \in 0 .. MaxEvents /\ 0 \in 0 .. MaxPosts
        /\ mark \in 0 .. INPUT_MARK + posts
    BY LimitsAssumption DEF Init, INPUT_MARK
  <2>4. taken \in [Task -> 0 .. INPUT_MARK + posts]
    BY DEF Init, INPUT_MARK
  <2>5. /\ live = Task /\ serials = 0 /\ focus = None /\ lock = None
        /\ first = FALSE /\ posts = 0
    BY DEF Init
  <2> QED BY <2>2, <2>3, <2>4, <2>5 DEF Plain
<1>2. QueueOnce(queue, serials) /\ GivenOnce(given, queue, serials)
  BY DEF Init, QueueOnce, GivenOnce
<1>3. stack \in [Task -> Seq(Frame)] /\ \A t \in Task : stack[t] = <<>>
  BY DEF Init
<1>4. Framing
  BY <1>3 DEF Framing
<1>5. Shape
  BY <1>3, LimitsAssumption DEF Shape
<1>6. ReaderHolds
  BY <1>1, <1>3, ReadingParts DEF ReaderHolds, Plain
<1> QED BY <1>1, <1>2, <1>3, <1>4, <1>5, <1>6 DEF QInv

-----------------------------------------------------------------------------
(* The theorems: every instance whose mouse's hook is asked with no look     *)
(* within another.                                                           *)

\* The invariant of every behaviour.
LEMMA QueueInvariant ==
  ASSUME HookedOnce
  PROVE  Spec => []QInv
<1>1. Init => QInv
  BY QInvInit
<1>2. QInv /\ [Next]_vars => QInv'
  BY QInvKept
<1> QED BY <1>1, <1>2, PTL DEF Spec

\* The state stays of its types: no index a look keeps is past the queue's
\* end by more than one, no mark is one not given out (system_queue.rs:
\* consider; queue.rs: look).
THEOREM QueueTyped ==
  ASSUME HookedOnce
  PROVE  Spec => []TypeOK
<1>1. QInv => TypeOK
  BY DEF QInv, Plain, QueueOnce, GivenOnce, TypeOK, Range, INPUT_MARK
<1> QED BY <1>1, QueueInvariant, PTL

\* No event is handed over twice (EventOnce), whatever looks the procedures
\* that one look calls make of their own (system_queue.rs: consider, queued).
THEOREM EventsOnce ==
  ASSUME HookedOnce
  PROVE  Spec => []EventOnce
<1>1. QInv => EventOnce
  BY DEF QInv, GivenOnce, EventOnce, IsInjective
<1> QED BY <1>1, QueueInvariant, PTL

\* One task at a time reads the input (OneReader), where no look is within
\* another (system_queue.rs: holds_input).
THEOREM OneReads ==
  ASSUME MaxDepth <= 1
  PROVE  Spec => []OneReader
<1>1. QInv => OneReader
  BY DEF QInv, ReaderHolds, OneReader
<1>2. HookedOnce
  BY DEF HookedOnce
<1> QED BY <1>1, <1>2, QueueInvariant, PTL

-----------------------------------------------------------------------------
(* Where no look is within another: one frame at most is on a stack.         *)

\* A look reads, or waits for a procedure it called as it reads.
Reads(t) == At(t, {"read"} \cup Procedures)

\* What a step does to the other tasks' stacks: it may wake a sleeper.
Others(t) ==
  \A u \in Task \ {t} :
    \/ stack'[u] = stack[u]
    \/ At(u, {"asleep"}) /\ stack'[u] = <<[Top(u) EXCEPT !.at = "woken"]>>

\* A stack of one frame, and none.
LEMMA FlatParts ==
  ASSUME QInv, MaxDepth <= 1, NEW t \in Task
  PROVE  /\ stack[t] \in Seq(Frame)
         /\ stack[t] = <<>> \/ (Top(t) \in Frame /\ stack[t] = <<Top(t)>>)
         /\ stack[t] # <<>> => t \in live
<1>1. stack[t] \in Seq(Frame) /\ Len(stack[t]) <= MaxDepth
      /\ (t \notin live => stack[t] = <<>>)
  BY DEF QInv, Shape
<1>2. Len(stack[t]) \in Nat /\ MaxDepth \in Nat
  BY <1>1, LimitsAssumption
<1>3. CASE Len(stack[t]) = 0
  BY <1>1, <1>3
<1>4. CASE Len(stack[t]) = 1
  <2>1. Top(t) = stack[t][1]
    BY <1>4 DEF Top
  <2> QED BY <1>1, <1>4, <2>1
<1>5. Len(stack[t]) = 0 \/ Len(stack[t]) = 1
  <2> DEFINE n == Len(stack[t])
  <2>1. n \in Nat /\ MaxDepth \in Nat /\ n <= MaxDepth
    BY <1>1, <1>2
  <2> HIDE DEF n
  <2>2. n = 0 \/ n = 1
    BY <2>1
  <2> QED BY <2>2 DEF n
<1> QED BY <1>3, <1>4, <1>5

\* A stack's frame read, as the state's and the next's.
LEMMA AtParts ==
  ASSUME NEW t
  PROVE  /\ \A f, P : stack[t] = <<f>> => Top(t) = f /\ (At(t, P) <=> f.at \in P)
         /\ \A f, P : stack'[t] = <<f>> =>
              Top(t)' = f /\ ((At(t, P))' <=> f.at \in P)
         /\ \A P : stack[t] = <<>> => ~ At(t, P)
         /\ \A P : stack'[t] = <<>> => ~ (At(t, P))'
         /\ \A P : stack'[t] = stack[t] =>
              Top(t)' = Top(t) /\ ((At(t, P))' <=> At(t, P))
<1>1. \A f, P : stack[t] = <<f>> => Top(t) = f /\ (At(t, P) <=> f.at \in P)
  BY DEF At, Top
<1>2. \A f, P : stack'[t] = <<f>> =>
        Top(t)' = f /\ ((At(t, P))' <=> f.at \in P)
  BY DEF At, Top
<1>3. \A P : (stack[t] = <<>> => ~ At(t, P))
             /\ (stack'[t] = <<>> => ~ (At(t, P))')
  BY DEF At
<1>4. \A P : stack'[t] = stack[t] =>
        Top(t)' = Top(t) /\ ((At(t, P))' <=> At(t, P))
  BY DEF At, Top
<1> QED BY <1>1, <1>2, <1>3, <1>4

\* Of the others, nobody reads that did not, nor sleeps; who reads has the
\* frame it had.
LEMMA OthersParts ==
  ASSUME QInv, MaxDepth <= 1, NEW t, Others(t), NEW u \in Task \ {t}
  PROVE  /\ Reads(u)' => Reads(u)
         /\ Reads(u) => stack'[u] = stack[u] /\ Top(u)' = Top(u)
         /\ At(u, {"asleep"})' => At(u, {"asleep"})
<1>1. CASE stack'[u] = stack[u]
  BY <1>1, AtParts DEF Reads
<1>2. CASE At(u, {"asleep"}) /\ stack'[u] = <<[Top(u) EXCEPT !.at = "woken"]>>
  <2> DEFINE f == [Top(u) EXCEPT !.at = "woken"]
  <2>1. Top(u) \in Frame /\ Top(u).at = "asleep"
    BY <1>2, TopParts DEF At
  <2>2. f.at = "woken"
    BY <2>1, MadeParts
  <2>3. stack'[u] = <<f>>
    BY <1>2
  <2> HIDE DEF f
  <2>4. ~ At(u, {"asleep"})' /\ ~ Reads(u)'
    BY <2>2, <2>3, AtParts DEF Reads, Procedures
  <2>5. ~ Reads(u)
    BY <2>1 DEF Reads, At, Procedures
  <2> QED BY <1>2, <2>4, <2>5
<1> QED BY <1>1, <1>2 DEF Others

\* Another's stack with some sleeper woken.
LEMMA WokenParts ==
  ASSUME QInv, MaxDepth <= 1, NEW s, Woken(s), NEW u \in Task
  PROVE  \/ s[u] = stack[u]
         \/ At(u, {"asleep"}) /\ s[u] = <<[Top(u) EXCEPT !.at = "woken"]>>
<1>1. /\ s[u] \in Seq(Frame) /\ Len(s[u]) = Len(stack[u])
      /\ \A i \in 1 .. Len(stack[u]) : Old(s[u][i], stack[u][i])
  BY DEF Woken
<1>2. CASE stack[u] = <<>>
  BY <1>1, <1>2
<1>3. CASE Top(u) \in Frame /\ stack[u] = <<Top(u)>>
  <2>1. Len(stack[u]) = 1 /\ stack[u][1] = Top(u)
    BY <1>3
  <2>2. s[u] = <<s[u][1]>> /\ Old(s[u][1], Top(u))
    BY <1>1, <2>1
  <2>3. CASE s[u][1] = Top(u)
    BY <1>3, <2>2, <2>3
  <2>4. CASE Top(u).at = "asleep" /\ s[u][1] = [Top(u) EXCEPT !.at = "woken"]
    <3>1. At(u, {"asleep"})
      BY <1>3, <2>4, AtParts
    <3> QED BY <2>2, <2>4, <3>1
  <2> QED BY <2>2, <2>3, <2>4 DEF Old
<1> QED BY <1>2, <1>3, FlatParts

\* The frame a step leaves on its task's stack.
LEMMA FlatStep ==
  ASSUME QInv, MaxDepth <= 1, NEW t \in Task, NEW s, Woken(s), NEW f \in Frame
  PROVE  /\ stack[t] # <<>> /\ stack' = Replace(s, t, f)
              => stack'[t] = <<f>> /\ Others(t)
         /\ stack[t] # <<>> /\ stack' = [s EXCEPT ![t] = Front(@)]
              => stack'[t] = <<>> /\ Others(t)
         /\ Len(stack[t]) < MaxDepth /\ stack' = [s EXCEPT ![t] = Append(@, f)]
              => stack'[t] = <<f>> /\ Others(t) /\ stack[t] = <<>>
         /\ stack' = s => Others(t)
<1>1. /\ s \in [Task -> Seq(Frame)] /\ Len(s[t]) = Len(stack[t])
      /\ s[t] \in Seq(Frame)
  BY DEF Woken
<1>2. ASSUME \A u \in Task \ {t} : stack'[u] = s[u]
      PROVE  Others(t)
  BY <1>2, WokenParts DEF Others
<1>3. stack[t] = <<>> \/ stack[t] = <<Top(t)>>
  BY FlatParts
<1>4. MaxDepth \in Nat
  BY LimitsAssumption
<1>5. ASSUME stack[t] # <<>>
      PROVE  s[t] # <<>> /\ Front(s[t]) = <<>> /\ Append(Front(s[t]), f) = <<f>>
  <2>1. Len(s[t]) = 1
    BY <1>1, <1>3, <1>5
  <2>2. s[t] # <<>>
    BY <2>1
  <2> DEFINE l == s[t]
             g == Front(l)
  <2>5. l \in Seq(Frame) /\ l # <<>> /\ Len(l) = 1
    BY <1>1, <2>1, <2>2
  <2> HIDE DEF l
  <2>6. g \in Seq(Frame) /\ Len(g) = Len(l) - 1
    BY <2>5, FrontParts
  <2> HIDE DEF g
  <2>7. Len(g) = 0
    BY <2>5, <2>6
  <2>3. Front(s[t]) \in Seq(Frame) /\ Len(Front(s[t])) = 0
    BY <2>6, <2>7 DEF g, l
  <2>4. Front(s[t]) = <<>>
    BY <2>3
  <2> QED BY <2>2, <2>4
<1>6. ASSUME stack[t] # <<>>, stack' = Replace(s, t, f)
      PROVE  stack'[t] = <<f>> /\ Others(t)
  <2>1. stack' = [s EXCEPT ![t] = Append(Front(s[t]), f)]
    BY <1>6 DEF Replace
  <2>2. stack'[t] = <<f>> /\ \A u \in Task \ {t} : stack'[u] = s[u]
    BY <1>1, <1>5, <1>6, <2>1
  <2> QED BY <1>2, <1>6, <2>2
<1>7. ASSUME stack[t] # <<>>, stack' = [s EXCEPT ![t] = Front(@)]
      PROVE  stack'[t] = <<>> /\ Others(t)
  <2>1. stack'[t] = <<>> /\ \A u \in Task \ {t} : stack'[u] = s[u]
    BY <1>1, <1>5, <1>7
  <2> QED BY <1>2, <1>7, <2>1
<1>8. ASSUME Len(stack[t]) < MaxDepth, stack' = [s EXCEPT ![t] = Append(@, f)]
      PROVE  stack'[t] = <<f>> /\ Others(t) /\ stack[t] = <<>>
  <2>1. stack[t] = <<>>
    <3>1. stack[t] = <<Top(t)>> => Len(stack[t]) = 1
      OBVIOUS
    <3> QED BY <1>3, <1>4, <1>8, <3>1
  <2>2. s[t] = <<>>
    BY <1>1, <2>1
  <2>3. stack'[t] = <<f>> /\ \A u \in Task \ {t} : stack'[u] = s[u]
    BY <1>1, <1>8, <2>2
  <2> QED BY <1>2, <1>8, <2>1, <2>3
<1>9. ASSUME stack' = s
      PROVE  Others(t)
  BY <1>2, <1>9
<1> QED
  <2>1. stack[t] # <<>> /\ stack' = Replace(s, t, f)
              => stack'[t] = <<f>> /\ Others(t)
    BY <1>6
  <2>2. stack[t] # <<>> /\ stack' = [s EXCEPT ![t] = Front(@)]
              => stack'[t] = <<>> /\ Others(t)
    BY <1>7
  <2>3. Len(stack[t]) < MaxDepth /\ stack' = [s EXCEPT ![t] = Append(@, f)]
              => stack'[t] = <<f>> /\ Others(t) /\ stack[t] = <<>>
    BY <1>8
  <2>4. stack' = s => Others(t)
    BY <1>9
  <2> QED BY <2>1, <2>2, <2>3, <2>4

\* A step that only wakes a sleeper.
LEMMA WokenReads ==
  ASSUME QInv, MaxDepth <= 1, Woken(stack'), NEW u \in Task
  PROVE  /\ Reads(u)' => Reads(u)
         /\ Reads(u) => stack'[u] = stack[u] /\ Top(u)' = Top(u)
         /\ At(u, {"asleep"})' => At(u, {"asleep"})
<1> DEFINE s == stack'
<1>1. \/ s[u] = stack[u]
      \/ At(u, {"asleep"}) /\ s[u] = <<[Top(u) EXCEPT !.at = "woken"]>>
  BY WokenParts
<1>2. CASE s[u] = stack[u]
  BY <1>2, AtParts DEF Reads
<1>3. CASE At(u, {"asleep"}) /\ s[u] = <<[Top(u) EXCEPT !.at = "woken"]>>
  <2> DEFINE f == [Top(u) EXCEPT !.at = "woken"]
  <2>1. Top(u) \in Frame /\ Top(u).at = "asleep"
    BY <1>3, TopParts DEF At
  <2>2. f.at = "woken"
    BY <2>1, MadeParts
  <2>3. stack'[u] = <<f>>
    BY <1>3
  <2> HIDE DEF f
  <2>4. ~ At(u, {"asleep"})' /\ ~ Reads(u)'
    BY <2>2, <2>3, AtParts DEF Reads, Procedures
  <2>5. ~ Reads(u)
    BY <2>1 DEF Reads, At, Procedures
  <2> QED BY <1>3, <2>4, <2>5
<1> QED BY <1>1, <1>2, <1>3

\* The turns of a task's look: it goes on with a frame, or is over.
LEMMA ChangeTurn ==
  ASSUME QInv, MaxDepth <= 1, NEW t \in Task, NEW P, At(t, P)
  PROVE  /\ \A f \in Frame : stack' = Change(t, f)
                               => stack'[t] = <<f>> /\ Others(t)
         /\ stack' = Leave(t) => stack'[t] = <<>> /\ Others(t)
<1>1. Woken(stack) /\ stack[t] # <<>>
  BY TopParts, SignalParts DEF QInv
<1>2. ASSUME NEW f \in Frame, stack' = Change(t, f)
      PROVE  stack'[t] = <<f>> /\ Others(t)
  BY <1>1, <1>2, FlatStep DEF Change
<1>3. ASSUME stack' = Leave(t) PROVE stack'[t] = <<>> /\ Others(t)
  <2>1. Top(t) \in Frame
    BY TopParts
  <2> QED BY <1>1, <1>3, <2>1, FlatStep DEF Leave
<1> QED BY <1>2, <1>3

\* The read goes on.
LEMMA ReadOnTurn ==
  ASSUME QInv, MaxDepth <= 1, NEW t \in Task, NEW P, At(t, P),
         NEW i \in 1 .. MaxEvents + 1, stack' = ReadOn(t, i)
  PROVE  /\ Others(t) /\ ~ At(t, {"asleep"})'
         /\ Top(t)'.at = "read" /\ Top(t)'.index = i
         /\ Top(t)'.way = Top(t).way
<1> DEFINE f == [Top(t) EXCEPT !.at = "read", !.index = i, !.one = NoEvent]
<1>1. Top(t) \in Frame
  BY TopParts
<1>2. f \in Frame
  <2>1. "read" \in Places /\ 1 \in 1 .. MaxEvents
        /\ NoEvent \in Event \cup {NoEvent}
    BY LimitsAssumption DEF Places, Machine
  <2> QED BY <1>1, <2>1, Made
<1>3. f.at = "read" /\ f.index = i /\ f.way = Top(t).way
  BY <1>1, MadeParts
<1>4. stack' = Change(t, f)
  BY DEF ReadOn
<1> HIDE DEF f
<1>5. stack'[t] = <<f>> /\ Others(t)
  BY <1>2, <1>4, ChangeTurn
<1>6. Top(t)' = f /\ ~ At(t, {"asleep"})'
  BY <1>3, <1>5, AtParts
<1> QED BY <1>3, <1>5, <1>6

\* A procedure of the look's is called.
LEMMA CallTurn ==
  ASSUME QInv, MaxDepth <= 1, NEW t \in Task, NEW P, At(t, P),
         NEW p \in Procedures, NEW e \in Event, stack' = Call(t, p, e)
  PROVE  /\ Others(t) /\ ~ At(t, {"asleep"})'
         /\ Top(t)'.at = p /\ Top(t)'.one = e
         /\ Top(t)'.index = Top(t).index /\ Top(t)'.way = Top(t).way
<1> DEFINE f == [Top(t) EXCEPT !.at = p, !.one = e]
<1>1. Top(t) \in Frame
  BY TopParts
<1>2. f \in Frame
  <2>1. p \in Places /\ 1 \in 1 .. MaxEvents /\ 1 \in 1 .. MaxEvents + 1
        /\ e \in Event \cup {NoEvent} /\ TRUE \in BOOLEAN
    BY LimitsAssumption DEF Places
  <2> QED BY <1>1, <2>1, Made
<1>3. /\ f.at = p /\ f.one = e /\ f.index = Top(t).index
      /\ f.way = Top(t).way
  BY <1>1, MadeParts
<1>4. stack' = Change(t, f)
  BY DEF Call
<1> HIDE DEF f
<1>5. stack'[t] = <<f>> /\ Others(t)
  BY <1>2, <1>4, ChangeTurn
<1>6. Top(t)' = f /\ ~ At(t, {"asleep"})'
  BY <1>3, <1>5, AtParts DEF Procedures
<1> QED BY <1>3, <1>5, <1>6

\* The frame of a look that tells the window of an event.
Telling(f, e, k) == [f EXCEPT !.at = "told", !.one = e, !.back = k]

\* The window told of an event taken.
LEMMA TakenTurn ==
  ASSUME QInv, MaxDepth <= 1, NEW t \in Task, NEW P, At(t, P),
         NEW k \in 1 .. MaxEvents, NEW e \in Event,
         stack' = Change(t, Telling(Top(t), e, k))
  PROVE  /\ Others(t) /\ ~ At(t, {"asleep"})'
         /\ Top(t)'.at = "told" /\ Top(t)'.one = e
         /\ Top(t)'.index = Top(t).index /\ Top(t)'.way = Top(t).way
         /\ Top(t)'.back = k
<1> DEFINE f == Telling(Top(t), e, k)
<1>1. Top(t) \in Frame
  BY TopParts
<1>2. f \in Frame
  <2>1. "told" \in Places /\ e \in Event \cup {NoEvent}
    BY DEF Places, Procedures
  <2> HIDE DEF NoEvent
  <2>2. [Top(t) EXCEPT !.at = "told", !.one = e, !.back = k] \in Frame
    BY <1>1, <2>1 DEF Frame
  <2> QED BY <2>2 DEF Telling
<1>3. /\ f.at = "told" /\ f.one = e /\ f.index = Top(t).index
      /\ f.way = Top(t).way /\ f.back = k
  BY <1>1, MadeParts DEF Telling
<1>4. stack' = Change(t, f)
  OBVIOUS
<1> HIDE DEF f
<1>5. stack'[t] = <<f>> /\ Others(t)
  BY <1>2, <1>4, ChangeTurn
<1>6. Top(t)' = f /\ ~ At(t, {"asleep"})'
  BY <1>3, <1>5, AtParts
<1> QED BY <1>3, <1>5, <1>6

\* No input for the look.
LEMMA NoInputTurn ==
  ASSUME QInv, MaxDepth <= 1, NEW t \in Task, NEW s, Woken(s),
         s[t] = stack[t], At(t, {"loop", "posted", "read"}), NoInput(t, s)
  PROVE  /\ Others(t) /\ ~ Reads(t)'
         /\ \A u \in Task \ {t} : stack'[u] = s[u]
<1> DEFINE w == Top(t).way
<1>1. /\ stack[t] # <<>> /\ Top(t) \in Frame
      /\ Framed(Top(t), queue, given, serials)
      /\ Top(t).at \in {"loop", "posted", "read"}
  BY TopParts
<1>2. w \in Way
  BY <1>1, KindsAssumption DEF Framed
<1>3. s \in [Task -> Seq(Frame)]
  BY DEF Woken
<1>4. CASE stack' = Replace(s, t, [Top(t) EXCEPT !.at = "posted",
                                                 !.early = FALSE])
  <2> DEFINE f == [Top(t) EXCEPT !.at = "posted", !.early = FALSE]
  <2>1. f \in Frame
    <3>1. "read" \in Places /\ 1 \in 1 .. MaxEvents /\ 1 \in 1 .. MaxEvents + 1
          /\ NoEvent \in Event \cup {NoEvent} /\ TRUE \in BOOLEAN
      BY LimitsAssumption DEF Places, Machine
    <3> QED BY <1>1, <3>1, Made
  <2>2. f.at = "posted" /\ f.way = w
    BY <1>1, MadeParts
  <2> HIDE DEF f
  <2>3. stack'[t] = <<f>> /\ Others(t)
    BY <1>1, <1>4, <2>1, FlatStep DEF f
  <2>4. ~ Reads(t)'
    BY <2>2, <2>3, AtParts DEF Reads, Procedures
  <2>5. \A u \in Task \ {t} : stack'[u] = s[u]
    BY <1>3, <1>4 DEF Replace
  <2> QED BY <2>3, <2>4, <2>5
<1>5. CASE stack' = Replace(s, t, LookFrame("asleep", w))
  <2> DEFINE f == LookFrame("asleep", w)
  <2>1. f \in Frame
    BY <1>2, LookMade
  <2>2. f.at = "asleep"
    BY DEF LookFrame
  <2> HIDE DEF f
  <2>3. stack'[t] = <<f>> /\ Others(t)
    BY <1>1, <1>5, <2>1, FlatStep DEF f
  <2>4. ~ Reads(t)'
    BY <2>2, <2>3, AtParts DEF Reads, Procedures
  <2>5. \A u \in Task \ {t} : stack'[u] = s[u]
    BY <1>3, <1>5 DEF Replace
  <2> QED BY <2>3, <2>4, <2>5
<1>6. CASE stack' = [s EXCEPT ![t] = Front(@)]
  <2>1. stack'[t] = <<>> /\ Others(t)
    BY <1>1, <1>6, FlatStep
  <2>2. ~ Reads(t)'
    BY <2>1, AtParts DEF Reads
  <2>3. \A u \in Task \ {t} : stack'[u] = s[u]
    BY <1>3, <1>6
  <2> QED BY <2>1, <2>2, <2>3
<1> QED BY <1>4, <1>5, <1>6 DEF NoInput

\* Looks as they begin, messages sent, the processor had again, and what was
\* posted taken: the task does not read.
LEMMA QuietTurn ==
  ASSUME QInv, MaxDepth <= 1, NEW t \in Task,
         (\E way \in Ways : Look(t, way)) \/ TakeSent(t) \/ SentReturn(t)
           \/ Wake(t) \/ TakePosted(t)
  PROVE  /\ Others(t) /\ ~ Reads(t)' /\ ~ At(t, {"asleep"})'
         /\ (\E way \in Ways : Look(t, way)) => ~ InSent(t)
<1>1. Woken(stack) /\ Woken(Signal(stack, t)) /\ MaxDepth \in Nat
  BY SignalParts, LimitsAssumption DEF QInv
<1>2. SentFrame \in Frame /\ SentFrame.at = "sent"
  <2>1. [remove |-> FALSE, wait |-> FALSE, kinds |-> {}] \in Way
    BY DEF Way
  <2> QED BY <2>1, LookMade DEF SentFrame, LookFrame
<1>3. ASSUME NEW way \in Ways, Look(t, way)
      PROVE  Others(t) /\ ~ Reads(t)' /\ ~ At(t, {"asleep"})' /\ ~ InSent(t)
  <2> DEFINE f == LookFrame("loop", way)
  <2>1. f \in Frame /\ f.at = "loop"
    BY KindsAssumption, LookMade DEF LookFrame
  <2>2. Len(stack[t]) < MaxDepth /\ stack' = [stack EXCEPT ![t] = Append(@, f)]
    BY <1>3 DEF Look
  <2> HIDE DEF f
  <2>3. stack'[t] = <<f>> /\ Others(t) /\ stack[t] = <<>>
    BY <1>1, <2>1, <2>2, FlatStep
  <2> QED BY <2>1, <2>3, AtParts DEF Reads, Procedures, InSent
<1>4. ASSUME TakeSent(t)
      PROVE  /\ Others(t) /\ ~ Reads(t)' /\ ~ At(t, {"asleep"})'
             /\ stack[t] = <<>>
  <2> DEFINE f == SentFrame
  <2>1. /\ Len(stack[t]) < MaxDepth
        /\ stack' = [Signal(stack, t) EXCEPT ![t] = Append(@, f)]
    BY <1>4 DEF TakeSent
  <2>2. f \in Frame /\ f.at = "sent"
    BY <1>2
  <2> HIDE DEF f
  <2>3. stack'[t] = <<f>> /\ Others(t) /\ stack[t] = <<>>
    BY <1>1, <2>1, <2>2, FlatStep
  <2> QED BY <2>2, <2>3, AtParts DEF Reads, Procedures
<1>5. ASSUME SentReturn(t) \/ TakePosted(t)
      PROVE  Others(t) /\ ~ Reads(t)' /\ ~ At(t, {"asleep"})'
  <2>1. stack' = Leave(t) /\ At(t, {"sent", "loop", "posted"})
    BY <1>5 DEF SentReturn, TakePosted, AtPosted, Returns, Runs, At
  <2>2. stack'[t] = <<>> /\ Others(t)
    BY <2>1, ChangeTurn
  <2> QED BY <2>2, AtParts DEF Reads
<1>6. ASSUME Wake(t)
      PROVE  Others(t) /\ ~ Reads(t)' /\ ~ At(t, {"asleep"})'
  <2> DEFINE f == [Top(t) EXCEPT !.at = "loop"]
  <2>1. At(t, {"woken"}) /\ stack' = Change(t, f)
    BY <1>6 DEF Wake, Runs
  <2>2. Top(t) \in Frame
    BY <2>1, TopParts
  <2>3. f \in Frame /\ f.at = "loop"
    <3>1. "loop" \in Places
      BY DEF Places, Machine
    <3> QED BY <2>2, <3>1 DEF Frame
  <2> HIDE DEF f
  <2>4. stack'[t] = <<f>> /\ Others(t)
    BY <2>1, <2>3, ChangeTurn
  <2> QED BY <2>3, <2>4, AtParts DEF Reads, Procedures
<1>7. ASSUME NEW way \in Ways, Look(t, way), TakeSent(t) \/ SentReturn(t)
             \/ Wake(t) \/ TakePosted(t)
      PROVE  ~ InSent(t)
  BY <1>3, <1>7
<1> QED BY <1>3, <1>4, <1>5, <1>6

\* The read begins, from the queue's head.
LEMMA BeginTurn ==
  ASSUME QInv, MaxDepth <= 1, NEW t \in Task, NEW P, At(t, P),
         NEW early \in BOOLEAN, Begin(t, early)
  PROVE  /\ Others(t) /\ ~ At(t, {"asleep"})'
         /\ Top(t)'.at = "read" /\ Top(t)'.index = 1
<1> DEFINE f == [Top(t) EXCEPT !.at = "read", !.early = early, !.index = 1]
<1>1. Top(t) \in Frame
  BY TopParts
<1>2. f \in Frame
  <2>1. "read" \in Places /\ 1 \in 1 .. MaxEvents /\ 1 \in 1 .. MaxEvents + 1
        /\ NoEvent \in Event \cup {NoEvent}
    BY LimitsAssumption DEF Places, Machine
  <2> QED BY <1>1, <2>1, Made
<1>3. f.at = "read" /\ f.index = 1
  BY <1>1, MadeParts
<1>4. stack' = Change(t, f)
  BY DEF Begin
<1> HIDE DEF f
<1>5. stack'[t] = <<f>> /\ Others(t)
  BY <1>2, <1>4, ChangeTurn
<1>6. Top(t)' = f /\ ~ At(t, {"asleep"})'
  BY <1>3, <1>5, AtParts
<1> QED BY <1>3, <1>5, <1>6

\* The way of a look under way.
LEMMA TopWay ==
  ASSUME QInv, NEW t \in Task, NEW P, At(t, P), "sent" \notin P
  PROVE  Top(t).way \in Ways
BY TopParts DEF Framed

\* A task that reads holds the input, and no other reads.
LEMMA ReadsHolds ==
  ASSUME QInv, MaxDepth <= 1, NEW t \in Task, Reads(t)
  PROVE  /\ t \in live /\ lock = t
         /\ \A u \in Task \ {t} : ~ Reads(u)
<1>1. ASSUME NEW u \in Task, Reads(u) PROVE u \in live /\ lock = u
  <2>1. u \in live /\ ReadingAt(Top(u)) /\ (ReadingAt(Top(u)) => Reading(u))
    BY <1>1, TopParts DEF Reads, ReadingAt
  <2> QED BY <2>1 DEF QInv, ReaderHolds
<1> QED BY <1>1

-----------------------------------------------------------------------------
(* A task keeps the input while what was posted to it last waits for it.     *)

\* The hypotheses of KeptWhilePosted: each look takes what it finds and asks
\* for what was posted, and nothing is posted to a task within its look.
TakesAll == /\ MaxDepth <= 1
            /\ \A way \in Ways : way.remove /\ "posted" \in way.kinds
            /\ "meanwhile" \notin Features

\* Each mark is a message's, and a message taken is posted no more.
Marks ==
  /\ \A t, u \in Task : \A i \in DOMAIN posted[t] : \A j \in DOMAIN posted[u] :
       posted[t][i] = posted[u][j] => t = u /\ i = j
  /\ \A t \in Task : \A i \in DOMAIN posted[t] : posted[t][i] # taken[t]

\* A task that reads has taken what was posted to it.
Kept ==
  /\ first = FALSE
  /\ \A t \in live : Reads(t) => posted[t] = <<>>
  /\ Marks
  /\ KeptWhilePosted

\* The marks are those given out, and none the input's.
LEMMA MarkParts ==
  ASSUME QInv, NEW t \in Task
  PROVE  /\ Len(posted[t]) \in Nat /\ DOMAIN posted[t] = 1 .. Len(posted[t])
         /\ posted[t] \in Seq(INPUT_MARK + 1 .. INPUT_MARK + posts)
         /\ posts \in Nat /\ INPUT_MARK = 1
         /\ \A i \in DOMAIN posted[t] :
              /\ posted[t][i] \in Nat /\ posted[t][i] > INPUT_MARK
              /\ posted[t][i] < NextMark
         /\ taken[t] \in Nat /\ taken[t] < NextMark
         /\ mark \in Nat /\ mark < NextMark
<1>1. /\ posted[t] \in Seq(INPUT_MARK + 1 .. INPUT_MARK + posts)
      /\ posts \in Nat /\ INPUT_MARK = 1
      /\ taken[t] \in 0 .. INPUT_MARK + posts /\ mark \in 0 .. INPUT_MARK + posts
  BY LimitsAssumption DEF QInv, Plain, INPUT_MARK
<1>2. /\ Len(posted[t]) \in Nat /\ DOMAIN posted[t] = 1 .. Len(posted[t])
      /\ \A i \in DOMAIN posted[t] :
           posted[t][i] \in INPUT_MARK + 1 .. INPUT_MARK + posts
  BY <1>1, Among
<1> QED BY <1>1, <1>2 DEF NextMark

\* Nothing of the marks, nor of the lock: no task reads that did not.
LEMMA KeptAsWas ==
  ASSUME Kept, \A u \in live : Reads(u)' => Reads(u),
         UNCHANGED <<live, first, mark, taken, posted, lock>>
  PROVE  Kept'
BY DEF Kept, Marks, KeptWhilePosted, Range

\* The same of a task's step.
LEMMA KeptByTurn ==
  ASSUME QInv, MaxDepth <= 1, Kept, NEW t \in Task, Others(t),
         Reads(t)' => Reads(t),
         UNCHANGED <<live, first, mark, taken, posted, lock>>
  PROVE  Kept'
<1>1. \A u \in live : Reads(u)' => Reads(u)
  BY OthersParts DEF QInv, Plain
<1> QED BY <1>1, KeptAsWas

\* The input handed over: the holder's look was that.
LEMMA KeptByHandOver ==
  ASSUME QInv, MaxDepth <= 1, Kept, NEW t \in Task, NEW P, At(t, P), NEW e,
         HandOver(t, e), UNCHANGED <<live, first, posted, lock>>
  PROVE  Kept'
<1>1. stack'[t] = <<>> /\ Others(t)
  BY ChangeTurn DEF HandOver
<1>2. \A u \in live : Reads(u)' => Reads(u)
  <2>1. ~ Reads(t)'
    BY <1>1, AtParts DEF Reads
  <2> QED BY <1>1, <2>1, OthersParts DEF QInv, Plain
<1>3. mark' = INPUT_MARK /\ taken' = [taken EXCEPT ![t] = INPUT_MARK]
      /\ taken \in [Task -> 0 .. INPUT_MARK + posts]
  BY DEF HandOver, QInv, Plain
<1>4. \A u \in Task : \A i \in DOMAIN posted[u] : posted[u][i] # INPUT_MARK
  BY MarkParts
<1>5. Marks'
  BY <1>3, <1>4 DEF Kept, Marks
<1>6. KeptWhilePosted'
  BY <1>3, <1>4 DEF KeptWhilePosted, Range, QInv, Plain
<1> QED BY <1>2, <1>5, <1>6 DEF Kept

\* The look finds none of the input: the task lets it go with nothing posted
\* to it.
LEMMA KeptByNoInput ==
  ASSUME QInv, MaxDepth <= 1, Kept, NEW t \in Task, NEW s, Woken(s),
         s[t] = stack[t], At(t, {"loop", "posted", "read"}), NoInput(t, s),
         posted[t] = <<>>,
         UNCHANGED <<live, first, mark, taken, posted>>
  PROVE  Kept'
<1>1. Others(t) /\ ~ Reads(t)'
  BY NoInputTurn
<1>2. \A u \in live : Reads(u)' => Reads(u)
  BY <1>1, OthersParts DEF QInv, Plain
<1>3. lock' = IF lock = t THEN None ELSE lock
  BY DEF NoInput, Unheld
<1>4. KeptWhilePosted'
  <2> SUFFICES ASSUME NEW u \in live, NEW i \in DOMAIN posted[u],
                      mark = posted[u][i]
               PROVE  lock' = u
    BY DEF KeptWhilePosted, Range
  <2>1. lock = u
    BY DEF Kept, KeptWhilePosted, Range
  <2>2. u # t
    BY DEF QInv, Plain
  <2> QED BY <1>3, <2>1, <2>2
<1> QED BY <1>2, <1>4 DEF Kept, Marks

\* A look begins: its holder has let the input go only where the mark is what
\* it took last, and so none that waits.
LEMMA KeptByLook ==
  ASSUME QInv, MaxDepth <= 1, Kept, NEW t \in Task, NEW way \in Ways,
         Look(t, way)
  PROVE  Kept'
<1>1. Others(t) /\ ~ Reads(t)' /\ ~ InSent(t)
  BY QuietTurn
<1>2. \A u \in live : Reads(u)' => Reads(u)
  BY <1>1, OthersParts DEF QInv, Plain
<1>3. UNCHANGED <<live, first, mark, taken, posted>> /\ lock' = LetGo(t)
  BY DEF Look
<1>4. KeptWhilePosted'
  <2> SUFFICES ASSUME NEW u \in live, NEW i \in DOMAIN posted[u],
                      mark = posted[u][i]
               PROVE  lock' = u
    BY <1>3 DEF KeptWhilePosted, Range
  <2>1. lock = u /\ u \in Task
    BY DEF Kept, KeptWhilePosted, Range, QInv, Plain
  <2>2. mark # taken[u]
    BY <2>1 DEF Kept, Marks
  <2> QED BY <1>1, <1>3, <2>1, <2>2 DEF LetGo
<1> QED BY <1>2, <1>3, <1>4 DEF Kept, Marks

\* The read begins with nothing posted to the task.
LEMMA KeptByBegin ==
  ASSUME QInv, TakesAll, Kept, NEW t \in Task, BeginRead(t) \/ BeginEarly(t)
  PROVE  Kept'
<1>0. MaxDepth <= 1
  BY DEF TakesAll
<1>1. ~ BeginEarly(t)
  BY DEF BeginEarly, InputFirst, Kept
<1>2. /\ At(t, {"loop", "posted"}) /\ ~ FindsPosted(t) /\ MayHold(t)
      /\ Begin(t, FALSE)
  BY <1>1 DEF BeginRead, AtPosted, Runs, At
<1>3. Top(t).way \in Ways
  BY <1>2, TopWay
<1>4. Top(t).way.remove /\ "posted" \in Top(t).way.kinds
  BY <1>3 DEF TakesAll
<1>5. posted[t] = <<>>
  BY <1>2, <1>4 DEF FindsPosted
<1>6. first' = FALSE /\ lock' = t /\ UNCHANGED <<live, mark, taken, posted>>
  BY <1>2, <1>4 DEF Begin
<1>7. Others(t)
  BY <1>0, <1>2, BeginTurn
<1>8. \A u \in live : Reads(u)' => posted[u] = <<>>
  <2> SUFFICES ASSUME NEW u \in live, Reads(u)' PROVE posted[u] = <<>>
    OBVIOUS
  <2>1. CASE u = t
    BY <1>5, <2>1
  <2>2. CASE u # t
    <3>1. Reads(u)
      BY <1>0, <1>7, <2>2, OthersParts DEF QInv, Plain
    <3> QED BY <3>1 DEF Kept
  <2> QED BY <2>1, <2>2
<1>9. KeptWhilePosted'
  <2> SUFFICES ASSUME NEW u \in live, NEW i \in DOMAIN posted[u],
                      mark = posted[u][i]
               PROVE  u = t
    BY <1>6 DEF KeptWhilePosted, Range
  <2>1. lock = u /\ u \in Task
    BY DEF Kept, KeptWhilePosted, Range, QInv, Plain
  <2> QED BY <1>2, <2>1, TasksAssumption DEF MayHold
<1> QED BY <1>6, <1>8, <1>9 DEF Kept, Marks

\* What was posted taken: the others' marks are others.
LEMMA KeptByTake ==
  ASSUME QInv, TakesAll, Kept, NEW t \in Task, TakePosted(t)
  PROVE  Kept'
<1>1. /\ MaxDepth <= 1 /\ At(t, {"loop", "posted"}) /\ posted[t] # <<>>
      /\ UNCHANGED <<live, first, mark, lock>>
  BY DEF TakesAll, TakePosted, AtPosted, FindsPosted, Runs, At
<1>2. Top(t).way.remove
  BY <1>1, TopWay DEF TakesAll
<1>3. /\ posted' = [posted EXCEPT ![t] = Tail(@)]
      /\ taken' = [taken EXCEPT ![t] = Head(posted[t])]
  BY <1>2 DEF TakePosted
<1>4. Others(t) /\ ~ Reads(t)'
  BY <1>1, QuietTurn
<1>5. \A u \in live : Reads(u)' => Reads(u) /\ u # t
  BY <1>1, <1>4, OthersParts DEF QInv, Plain
<1> DEFINE l == posted[t]
           m == Tail(l)
<1>6. l \in Seq(INPUT_MARK + 1 .. INPUT_MARK + posts)
  BY MarkParts
<1>7. /\ Len(l) \in Nat /\ DOMAIN l = 1 .. Len(l) /\ Len(l) > 0
      /\ DOMAIN m = 1 .. Len(l) - 1 /\ Head(l) = l[1]
      /\ \A i \in 1 .. Len(l) - 1 : m[i] = l[i + 1]
  BY <1>1, <1>6
<1>8. /\ posted' \in [Task -> {posted[u] : u \in Task} \cup {m}]
      /\ posted'[t] = m /\ \A u \in Task \ {t} : posted'[u] = posted[u]
  BY <1>3 DEF QInv, Plain
<1>9. taken'[t] = Head(l) /\ \A u \in Task \ {t} : taken'[u] = taken[u]
  BY <1>3 DEF QInv, Plain
<1> DEFINE to(u, i) == IF u = t THEN i + 1 ELSE i
<1>10. ASSUME NEW u \in Task, NEW i \in DOMAIN posted'[u]
       PROVE  /\ to(u, i) \in DOMAIN posted[u]
              /\ posted'[u][i] = posted[u][to(u, i)]
              /\ u = t => to(u, i) # 1 /\ i \in Nat
  <2>1. CASE u = t
    <3> HIDE DEF m
    <3>1. i \in 1 .. Len(l) - 1
      BY <1>7, <1>8, <1>10, <2>1
    <3>2. i + 1 \in 1 .. Len(l) /\ i + 1 # 1 /\ i \in Nat
      BY <1>7, <3>1
    <3> QED BY <1>7, <1>8, <2>1, <3>1, <3>2
  <2>2. CASE u # t
    BY <1>8, <1>10, <2>2
  <2> QED BY <2>1, <2>2
<1> HIDE DEF l, m
<1>11. ASSUME NEW u \in Task, NEW v \in Task, NEW i \in DOMAIN posted'[u],
              NEW j \in DOMAIN posted'[v], posted'[u][i] = posted'[v][j]
       PROVE  u = v /\ i = j
  <2>1. u = v /\ to(u, i) = to(v, j)
    BY <1>10, <1>11 DEF Kept, Marks
  <2> QED BY <1>10, <2>1
<1>12. ASSUME NEW u \in Task, NEW i \in DOMAIN posted'[u]
       PROVE  posted'[u][i] # taken'[u]
  <2>1. CASE u = t
    <3>1. 1 \in DOMAIN posted[t] /\ taken'[t] = posted[t][1]
      BY <1>7, <1>9 DEF l
    <3> QED BY <1>10, <1>12, <2>1, <3>1 DEF Kept, Marks
  <2>2. CASE u # t
    BY <1>8, <1>9, <1>12, <2>2 DEF Kept, Marks
  <2> QED BY <2>1, <2>2
<1>13. Marks'
  BY <1>11, <1>12 DEF Marks
<1>14. KeptWhilePosted'
  <2> SUFFICES ASSUME NEW u \in live, NEW i \in DOMAIN posted'[u],
                      mark = posted'[u][i]
               PROVE  lock = u
    BY <1>1, <1>3 DEF KeptWhilePosted, Range
  <2>1. u \in Task
    BY DEF QInv, Plain
  <2> HIDE DEF to
  <2>2. to(u, i) \in DOMAIN posted[u] /\ mark = posted[u][to(u, i)]
    BY <1>10, <2>1
  <2>3. mark \in Range(posted[u])
    BY <2>2 DEF Range
  <2> QED BY <2>3 DEF Kept, KeptWhilePosted
<1>15. \A u \in live' : Reads(u)' => posted'[u] = <<>>
  BY <1>1, <1>5, <1>8 DEF Kept, QInv, Plain
<1> QED BY <1>1, <1>13, <1>14, <1>15 DEF Kept

\* A message posted: its mark is new, and to the holder it is marked as last.
LEMMA KeptByPost ==
  ASSUME QInv, TakesAll, Kept, NEW t \in Task, NEW u \in Task, Post(t, u)
  PROVE  Kept'
<1>1. /\ MaxDepth <= 1 /\ InGuest(t) /\ ~ At(u, Procedures)
      /\ stack' = Signal(stack, u) /\ UNCHANGED <<live, first, lock, taken>>
      /\ posted' = [posted EXCEPT ![u] = Append(@, NextMark)]
      /\ mark' = IF lock = u THEN NextMark ELSE mark
  BY DEF TakesAll, Post
<1>2. ~ Reads(u)
  <2>1. CASE u = t
    BY <1>1, <2>1 DEF Reads, InGuest, At, Procedures
  <2>2. CASE u # t
    <3>1. ~ At(u, Machine)
      BY <1>1, <2>2 DEF InGuest, Quiet
    <3> QED BY <1>1, <3>1 DEF Reads, At, Machine
  <2> QED BY <2>1, <2>2
<1>3. Woken(stack')
  BY <1>1, SignalParts DEF QInv
<1>4. \A v \in live : Reads(v)' => Reads(v) /\ v # u
  BY <1>1, <1>2, <1>3, WokenReads DEF QInv, Plain
<1> DEFINE l == posted[u]
           m == Append(l, NextMark)
<1>5. l \in Seq(Nat)
  <2>1. /\ Len(l) \in Nat /\ DOMAIN l = 1 .. Len(l)
        /\ \A i \in DOMAIN l : l[i] \in Nat
        /\ l \in Seq(INPUT_MARK + 1 .. INPUT_MARK + posts)
    BY MarkParts
  <2> HIDE DEF l
  <2>2. l \in [1 .. Len(l) -> Nat]
    BY <2>1
  <2> QED BY <2>1, <2>2, SeqOfFcn
<1>6. NextMark \in Nat
  BY MarkParts DEF NextMark
<1>7. /\ DOMAIN m = 1 .. Len(l) + 1 /\ DOMAIN l = 1 .. Len(l) /\ Len(l) \in Nat
      /\ \A j \in 1 .. Len(l) : m[j] = l[j]
      /\ m[Len(l) + 1] = NextMark
  BY <1>5, <1>6, AppendParts
<1>8. posted'[u] = m /\ \A v \in Task \ {u} : posted'[v] = posted[v]
  BY <1>1 DEF QInv, Plain
<1> HIDE DEF m
<1>9. ASSUME NEW v \in Task, NEW i \in DOMAIN posted'[v]
      PROVE  \/ i \in DOMAIN posted[v] /\ posted'[v][i] = posted[v][i]
             \/ v = u /\ i = Len(l) + 1 /\ posted'[v][i] = NextMark
  <2>1. CASE v = u
    <3>1. i \in 1 .. Len(l) \/ i = Len(l) + 1
      BY <1>7, <1>8, <1>9, <2>1
    <3> QED BY <1>7, <1>8, <2>1, <3>1
  <2>2. CASE v # u
    BY <1>8, <1>9, <2>2
  <2> QED BY <2>1, <2>2
<1> HIDE DEF l
<1>10. \A v \in Task : /\ \A i \in DOMAIN posted[v] : posted[v][i] # NextMark
                       /\ taken[v] # NextMark /\ mark # NextMark
  BY <1>6, MarkParts
<1>11. ASSUME NEW v \in Task, NEW w \in Task, NEW i \in DOMAIN posted'[v],
              NEW j \in DOMAIN posted'[w], posted'[v][i] = posted'[w][j]
       PROVE  v = w /\ i = j
  <2>1. CASE i \in DOMAIN posted[v] /\ posted'[v][i] = posted[v][i]
    <3>1. posted[v][i] # NextMark
      BY <1>10, <2>1
    <3>2. j \in DOMAIN posted[w] /\ posted'[w][j] = posted[w][j]
      BY <1>9, <1>11, <2>1, <3>1
    <3>3. posted[v][i] = posted[w][j]
      BY <1>11, <2>1, <3>2
    <3> QED BY <2>1, <3>2, <3>3 DEF Kept, Marks
  <2>2. CASE v = u /\ i = Len(l) + 1 /\ posted'[v][i] = NextMark
    <3>1. w = u /\ j = Len(l) + 1
      BY <1>9, <1>10, <1>11, <2>2
    <3> QED BY <2>2, <3>1
  <2> QED BY <1>9, <2>1, <2>2
<1>12. ASSUME NEW v \in Task, NEW i \in DOMAIN posted'[v]
       PROVE  posted'[v][i] # taken'[v]
  BY <1>1, <1>9, <1>10, <1>12 DEF Kept, Marks
<1>13. Marks'
  BY <1>11, <1>12 DEF Marks
<1>14. KeptWhilePosted'
  <2> SUFFICES ASSUME NEW v \in live, NEW i \in DOMAIN posted'[v],
                      mark' = posted'[v][i]
               PROVE  lock = v
    BY <1>1 DEF KeptWhilePosted, Range
  <2>1. v \in Task
    BY DEF QInv, Plain
  <2>2. CASE lock = u
    <3>1. posted'[v][i] = NextMark
      BY <1>1, <2>2
    <3>2. v = u
      BY <1>9, <1>10, <2>1, <3>1
    <3> QED BY <2>2, <3>2
  <2>3. CASE lock # u
    <3>1. mark = posted'[v][i]
      BY <1>1, <2>3
    <3>2. i \in DOMAIN posted[v] /\ mark = posted[v][i]
      BY <1>9, <1>10, <2>1, <3>1
    <3> QED BY <3>2 DEF Kept, KeptWhilePosted, Range
  <2> QED BY <2>2, <2>3
<1>15. \A v \in live' : Reads(v)' => posted'[v] = <<>>
  BY <1>1, <1>4, <1>8 DEF Kept, QInv, Plain
<1> QED BY <1>1, <1>13, <1>14, <1>15 DEF Kept

\* A task ends, and with it what was posted to it.
LEMMA KeptByEnd ==
  ASSUME QInv, Kept, NEW t \in Task, End(t)
  PROVE  Kept'
<1>1. /\ live' = live \ {t} /\ stack' = [stack EXCEPT ![t] = <<>>]
      /\ posted' = [posted EXCEPT ![t] = <<>>]
      /\ UNCHANGED <<lock, first, mark, taken>>
  BY DEF End
<1>2. /\ \A u \in Task \ {t} : posted'[u] = posted[u] /\ stack'[u] = stack[u]
      /\ posted'[t] = <<>>
  BY <1>1 DEF QInv, Plain
<1>3. \A u \in live' : Reads(u)' => Reads(u)
  BY <1>1, <1>2, AtParts DEF Reads, QInv, Plain
<1>4. \A u \in Task : \A i \in DOMAIN posted'[u] :
        u # t /\ posted'[u] = posted[u]
  BY <1>2
<1>5. Marks'
  BY <1>1, <1>4 DEF Kept, Marks
<1>6. KeptWhilePosted'
  BY <1>1, <1>4 DEF Kept, KeptWhilePosted, Range, QInv, Plain
<1>7. \A u \in live' : Reads(u)' => posted'[u] = <<>>
  BY <1>1, <1>2, <1>3 DEF Kept, QInv, Plain
<1> QED BY <1>1, <1>5, <1>6, <1>7 DEF Kept

\* Every step keeps that.
LEMMA KeptKept ==
  ASSUME QInv, TakesAll, Kept, [Next]_vars
  PROVE  Kept'
<1>0. MaxDepth <= 1
  BY DEF TakesAll
<1>1. CASE UNCHANGED vars
  BY <1>1 DEF vars, Kept, Marks, KeptWhilePosted, Reads, At, Top
<1>2. ASSUME NEW kind \in Kinds, NEW u, HostInput(kind, u) PROVE Kept'
  <2>1. Woken(stack') /\ UNCHANGED <<live, first, mark, taken, posted, lock>>
    BY <1>2, SignalParts DEF HostInput, QInv
  <2>2. \A v \in live : Reads(v)' => Reads(v)
    BY <1>0, <2>1, WokenReads DEF QInv, Plain
  <2> QED BY <2>1, <2>2, KeptAsWas
<1>3. ASSUME NEW t \in Task, NEW e, Considers(t, e)
      PROVE  /\ At(t, {"read"}) /\ Reads(t) /\ e \in Event
             /\ Top(t).index \in 1 .. MaxEvents + 1 /\ t \in live
             /\ posted[t] = <<>>
  <2>1. /\ At(t, {"read"}) /\ At(t, {"read"} \cup Procedures) /\ e \in Event
        /\ Top(t).index \in 1 .. MaxEvents + 1
    BY <1>3, ConsidersParts
  <2>2. t \in live /\ Reads(t)
    BY <2>1, TopParts DEF Reads
  <2> QED BY <2>1, <2>2 DEF Kept
<1>4. ASSUME NEW t \in Task, NEW P, At(t, P), Reads(t),
             NEW i \in 1 .. MaxEvents + 1, stack' = ReadOn(t, i),
             UNCHANGED <<live, first, mark, taken, posted, lock>>
      PROVE  Kept'
  <2>1. Others(t)
    BY <1>0, <1>4, ReadOnTurn
  <2> QED BY <1>0, <1>4, <2>1, KeptByTurn
<1>5. ASSUME NEW t \in Task, NEW P, At(t, P), Reads(t),
             NEW p \in Procedures, NEW e \in Event, stack' = Call(t, p, e),
             UNCHANGED <<live, first, mark, taken, posted, lock>>
      PROVE  Kept'
  <2>1. Others(t)
    BY <1>0, <1>5, CallTurn
  <2> QED BY <1>0, <1>5, <2>1, KeptByTurn
<1>6. ASSUME NEW t \in Task, Machines(t) PROVE Kept'
  <2>1. CASE Wake(t)
    <3>1. Others(t) /\ ~ Reads(t)'
      BY <1>0, <2>1, QuietTurn
    <3>2. UNCHANGED <<live, first, mark, taken, posted, lock>>
      BY <2>1 DEF Wake
    <3> QED BY <1>0, <3>1, <3>2, KeptByTurn
  <2>2. CASE BeginEarly(t) \/ BeginRead(t)
    BY <2>2, KeptByBegin
  <2>3. CASE TakePosted(t)
    BY <2>3, KeptByTake
  <2>4. CASE ReadNone(t)
    <3>1. /\ At(t, {"loop", "posted"}) /\ ~ FindsPosted(t) /\ NoInput(t, stack)
          /\ UNCHANGED <<live, first, mark, taken, posted>>
      BY <2>4 DEF ReadNone, AtPosted, Runs, At
    <3>2. posted[t] = <<>>
      BY <3>1, TopWay DEF FindsPosted, TakesAll
    <3>3. At(t, {"loop", "posted", "read"}) /\ Woken(stack)
      BY <3>1, SignalParts DEF At, QInv
    <3> QED BY <1>0, <3>1, <3>2, <3>3, KeptByNoInput
  <2>5. CASE ReadEnd(t)
    <3>1. /\ At(t, {"read"}) /\ NoInput(t, stack)
          /\ UNCHANGED <<live, first, mark, taken, posted>>
      BY <2>5 DEF ReadEnd, Runs
    <3>2. t \in live /\ Reads(t)
      BY <3>1, TopParts DEF Reads, At
    <3>3. posted[t] = <<>>
      BY <3>2 DEF Kept
    <3>4. At(t, {"loop", "posted", "read"}) /\ Woken(stack)
      BY <3>1, SignalParts DEF At, QInv
    <3> QED BY <1>0, <3>1, <3>3, <3>4, KeptByNoInput
  <2>6. CASE Elsewhere(t)
    <3>1. PICK e : /\ Considers(t, e) /\ Target(e) \in live \ {t}
                   /\ NoInput(t, Signal(stack, Target(e)))
      BY <2>6 DEF Elsewhere
    <3>2. UNCHANGED <<live, first, mark, taken, posted>>
      BY <2>6 DEF Elsewhere
    <3> DEFINE s == Signal(stack, Target(e))
    <3>3. Woken(s) /\ s[t] = stack[t]
      BY <3>1, SignalParts DEF QInv
    <3>4. At(t, {"loop", "posted", "read"}) /\ posted[t] = <<>>
      BY <1>3, <3>1 DEF At
    <3> HIDE DEF s
    <3>5. NoInput(t, s)
      BY <3>1 DEF s
    <3> QED BY <1>0, <3>2, <3>3, <3>4, <3>5, KeptByNoInput
  <2>7. CASE ForNobody(t)
    <3>1. PICK e : /\ Considers(t, e)
                   /\ stack' = ReadOn(t, From(Less(e), Top(t).index))
      BY <2>7 DEF ForNobody
    <3>2. UNCHANGED <<live, first, mark, taken, posted, lock>>
      BY <2>7 DEF ForNobody
    <3>3. From(Less(e), Top(t).index) \in 1 .. MaxEvents + 1
      BY <1>3, <3>1, OnParts
    <3> QED BY <1>3, <1>4, <3>1, <3>2, <3>3
  <2>8. CASE PassOver(t)
    <3>1. PICK e : /\ Considers(t, e)
                   /\ stack' = ReadOn(t, After(e, Top(t).index))
      BY <2>8 DEF PassOver
    <3>2. UNCHANGED <<live, first, mark, taken, posted, lock>>
      BY <2>8 DEF PassOver
    <3>3. After(e, Top(t).index) \in 1 .. MaxEvents + 1
      BY <1>3, <3>1, OnParts
    <3> QED BY <1>3, <1>4, <3>1, <3>2, <3>3
  <2>9. CASE ReadMouse(t)
    <3>1. PICK e : Considers(t, e) /\ stack' = Call(t, "hit", e)
      BY <2>9 DEF ReadMouse
    <3>2. UNCHANGED <<live, first, mark, taken, posted, lock>>
      BY <2>9 DEF ReadMouse
    <3>3. "hit" \in Procedures
      BY DEF Procedures
    <3> QED BY <1>3, <1>5, <3>1, <3>2, <3>3
  <2>10. CASE ReadKey(t)
    <3>1. PICK e : /\ Considers(t, e)
                   /\ \/ stack' = Call(t, "key", e) /\ UNCHANGED <<mark, taken>>
                      \/ HandOver(t, e)
      BY <2>10 DEF ReadKey
    <3>2. UNCHANGED <<live, first, posted, lock>>
      BY <2>10 DEF ReadKey
    <3>3. "key" \in Procedures
      BY DEF Procedures
    <3>4. CASE stack' = Call(t, "key", e) /\ UNCHANGED <<mark, taken>>
      BY <1>3, <1>5, <3>1, <3>2, <3>3, <3>4
    <3>5. CASE HandOver(t, e)
      BY <1>0, <1>3, <3>1, <3>2, <3>5, KeptByHandOver
    <3> QED BY <3>1, <3>4, <3>5
  <2> QED BY <1>6, <2>1, <2>2, <2>3, <2>4, <2>5, <2>6, <2>7, <2>8, <2>9,
             <2>10 DEF Machines
<1>7. ASSUME NEW t \in Task, KeyReturn(t) \/ HitReturn(t) \/ AskedReturn(t)
                             \/ ToldReturn(t)
      PROVE  Kept'
  <2> DEFINE e == Top(t).one
  <2>1. UNCHANGED <<live, first, posted, lock>>
    BY <1>7 DEF KeyReturn, HitReturn, AskedReturn, ToldReturn
  <2>2. /\ At(t, {"read"} \cup Procedures) /\ Reads(t) /\ e \in Event
        /\ Top(t).index \in 1 .. MaxEvents + 1 /\ Top(t).back \in 1 .. MaxEvents
    <3>1. PICK p \in Procedures : Returns(t, p)
      BY <1>7 DEF KeyReturn, HitReturn, AskedReturn, ToldReturn, Procedures
    <3> QED BY <3>1, ReturnParts DEF Reads
  <2>3. /\ From(Less(e), Top(t).index) \in 1 .. MaxEvents + 1
        /\ From(queue, Top(t).index) \in 1 .. MaxEvents + 1
        /\ After(e, Top(t).index) \in 1 .. MaxEvents + 1
        /\ Queued(e) => Place(e) \in 1 .. MaxEvents
        /\ 1 \in 1 .. MaxEvents + 1 /\ 1 \in 1 .. MaxEvents
    BY <2>2, OnParts
  <2>4. CASE HandOver(t, e)
    BY <1>0, <2>1, <2>2, <2>4, KeptByHandOver
  <2>5. ASSUME Thrown(t, e) PROVE Kept'
    BY <1>4, <2>1, <2>2, <2>3, <2>5 DEF Thrown
  <2>6. ASSUME Resolved(t, e) PROVE Kept'
    <3>1. CASE HandOver(t, e)
      BY <2>4, <3>1
    <3>2. CASE ~ HandOver(t, e)
      <4> DEFINE k == IF Queued(e) THEN Place(e) ELSE 1
      <4>1. k \in 1 .. MaxEvents
        BY <2>3
      <4>2. /\ UNCHANGED <<mark, taken>>
            /\ stack' = Change(t, Telling(Top(t), e, k))
        BY <2>6, <3>2 DEF Resolved, Telling
      <4> HIDE DEF k, e
      <4>3. Others(t)
        BY <1>0, <2>2, <4>1, <4>2, TakenTurn
      <4> QED BY <1>0, <2>1, <2>2, <4>2, <4>3, KeptByTurn
    <3> QED BY <3>1, <3>2
  <2>7. CASE KeyReturn(t)
    <3>1. HandOver(t, e) \/ Thrown(t, e)
      BY <2>7 DEF KeyReturn, Thrown
    <3> QED BY <2>4, <2>5, <3>1
  <2>8. CASE AskedReturn(t)
    BY <2>5, <2>6, <2>8 DEF AskedReturn
  <2>9. CASE HitReturn(t)
    <3>1. \/ stack' = ReadOn(t, 1) /\ UNCHANGED <<mark, taken>>
          \/ stack' = ReadOn(t, After(e, Top(t).index)) /\ UNCHANGED <<mark, taken>>
          \/ stack' = Call(t, "asked", e) /\ UNCHANGED <<mark, taken>>
          \/ Resolved(t, e) \/ Thrown(t, e)
      BY <2>9 DEF HitReturn
    <3>2. "asked" \in Procedures
      BY DEF Procedures
    <3>3. CASE \/ stack' = ReadOn(t, 1) /\ UNCHANGED <<mark, taken>>
               \/ stack' = ReadOn(t, After(e, Top(t).index))
                    /\ UNCHANGED <<mark, taken>>
      <4> HIDE DEF e
      <4> QED BY <1>4, <2>1, <2>2, <2>3, <3>3
    <3>4. CASE stack' = Call(t, "asked", e) /\ UNCHANGED <<mark, taken>>
      <4> HIDE DEF e
      <4> QED BY <1>5, <2>1, <2>2, <3>2, <3>4
    <3> QED BY <2>5, <2>6, <3>1, <3>3, <3>4
  <2>10. CASE ToldReturn(t)
    <3> DEFINE i == IF Queued(e) THEN Place(e) ELSE From(queue, Top(t).index)
    <3>1. \/ HandOver(t, e)
          \/ stack' = ReadOn(t, i) /\ UNCHANGED <<mark, taken>>
          \/ stack' = Call(t, "hit", e) /\ UNCHANGED <<mark, taken>>
      BY <2>10 DEF ToldReturn
    <3>2. "hit" \in Procedures
      BY DEF Procedures
    <3>3. i \in 1 .. MaxEvents + 1
      <4>1. 1 .. MaxEvents \subseteq 1 .. MaxEvents + 1
        BY LimitsAssumption
      <4> QED BY <2>3, <4>1
    <3> HIDE DEF i
    <3>4. CASE stack' = ReadOn(t, i) /\ UNCHANGED <<mark, taken>>
      BY <1>4, <2>1, <2>2, <3>3, <3>4
    <3>5. CASE stack' = Call(t, "hit", e) /\ UNCHANGED <<mark, taken>>
      <4> HIDE DEF e
      <4> QED BY <1>5, <2>1, <2>2, <3>2, <3>5
    <3> QED BY <2>4, <3>1, <3>4, <3>5
  <2> QED BY <1>7, <2>7, <2>8, <2>9, <2>10
<1>8. ASSUME NEW t \in Task, Programs(t) PROVE Kept'
  <2>1. CASE \E way \in Ways : Look(t, way)
    BY <1>0, <2>1, KeptByLook
  <2>2. CASE \E u \in Task : Post(t, u)
    BY <2>2, KeptByPost
  <2>3. ASSUME NEW u, SetFocus(t, u) PROVE Kept'
    <3>1. stack' = stack /\ UNCHANGED <<live, first, mark, taken, posted, lock>>
      BY <2>3 DEF SetFocus
    <3>2. \A v \in live : Reads(v)' => Reads(v)
      BY <3>1 DEF Reads, At, Top
    <3> QED BY <3>1, <3>2, KeptAsWas
  <2>4. CASE TakeSent(t) \/ SentReturn(t)
    <3>1. Others(t) /\ ~ Reads(t)'
      BY <1>0, <2>4, QuietTurn
    <3>2. UNCHANGED <<live, first, mark, taken, posted, lock>>
      BY <2>4 DEF TakeSent, SentReturn
    <3> QED BY <1>0, <3>1, <3>2, KeptByTurn
  <2>5. CASE End(t)
    BY <2>5, KeptByEnd
  <2> QED BY <1>7, <1>8, <2>1, <2>2, <2>3, <2>4, <2>5 DEF Programs
<1> QED BY <1>1, <1>2, <1>6, <1>8 DEF Next

\* A task keeps the input while what was posted to it last, as it held it,
\* waits for it (KeptWhilePosted): no other reads ahead of its answer to that
\* (queue.rs: post_to, look).
THEOREM InputKept ==
  ASSUME TakesAll
  PROVE  Spec => []KeptWhilePosted
<1>1. HookedOnce
  BY DEF TakesAll, HookedOnce
<1>2. Init => Kept
  BY DEF Init, Kept, Marks, KeptWhilePosted, Reads, At, Range
<1>3. QInv /\ Kept /\ [Next]_vars => Kept'
  BY KeptKept
<1>4. Kept => KeptWhilePosted
  BY DEF Kept
<1> QED BY <1>1, <1>2, <1>3, <1>4, QueueInvariant, PTL DEF Spec

-----------------------------------------------------------------------------
(* Events are handed over in the order they were put in.                     *)

\* The hypotheses of InOrder: each look asks for the keys and the mouse's
\* events, whatever else it does, and none is within another.
SeesInput == /\ MaxDepth <= 1
             /\ \A way \in Ways : InputKinds \subseteq way.kinds

Rising(q) == \A i, j \in DOMAIN q : i < j => q[i].serial < q[j].serial

Passed(g, q) == \A i \in DOMAIN g : \A j \in DOMAIN q : g[i] < q[j].serial

\* An event past what was given, that nothing in the queue is ahead of.
Due(e, q, g) ==
  /\ \A i \in DOMAIN g : g[i] < e.serial
  /\ \A j \in DOMAIN q : e.serial <= q[j].serial

\* A look that reads has not passed anything over.
Foremost(f, q, g) ==
  /\ f.index = 1
  /\ f.at \in Procedures => Due(f.one, q, g)
  /\ f.at = "told" => f.back = 1

Order ==
  /\ Rising(queue)
  /\ Passed(given, queue)
  /\ InOrder
  /\ \A t \in live : Reads(t) => Foremost(Top(t), queue, given)

\* The serials are numbers.
LEMMA SerialParts ==
  ASSUME QInv
  PROVE  /\ Len(queue) \in Nat /\ DOMAIN queue = 1 .. Len(queue)
         /\ \A j \in DOMAIN queue : queue[j] \in Event /\ queue[j].serial \in Nat
         /\ given \in Seq(1 .. MaxEvents)
         /\ Len(given) \in Nat /\ DOMAIN given = 1 .. Len(given)
         /\ \A i \in DOMAIN given : given[i] \in Nat /\ given[i] <= serials
         /\ serials \in Nat
<1>1. queue \in Seq(Event) /\ given \in Seq(1 .. MaxEvents)
      /\ \A i \in DOMAIN given : given[i] <= serials
  BY DEF QInv, QueueOnce, GivenOnce
<1>2. /\ Len(queue) \in Nat /\ DOMAIN queue = 1 .. Len(queue)
      /\ \A j \in DOMAIN queue : queue[j] \in Event
  BY <1>1, Among
<1>3. /\ Len(given) \in Nat /\ DOMAIN given = 1 .. Len(given)
      /\ \A i \in DOMAIN given : given[i] \in 1 .. MaxEvents
  BY <1>1, Among
<1>4. \A e \in Event : e.serial \in Nat
  BY DEF Event
<1>5. serials \in Nat
  BY LimitsAssumption DEF QInv, Plain
<1> QED BY <1>1, <1>2, <1>3, <1>4, <1>5

\* An event out of the queue: what is left is in its order.
LEMMA LessRising ==
  ASSUME QInv, Rising(queue), NEW e
  PROVE  /\ Rising(Less(e))
         /\ \A j \in DOMAIN Less(e) :
              \E k \in DOMAIN queue : Less(e)[j] = queue[k]
<1>1. Within(Less(e), queue)
  BY LessParts DEF QInv
<1>2. Rising(Less(e))
  <2> SUFFICES ASSUME NEW i \in DOMAIN Less(e), NEW j \in DOMAIN Less(e), i < j
               PROVE  Less(e)[i].serial < Less(e)[j].serial
    BY DEF Rising
  <2>1. PICK k \in DOMAIN queue, l \in DOMAIN queue :
          k < l /\ Less(e)[i] = queue[k] /\ Less(e)[j] = queue[l]
    BY <1>1 DEF Within
  <2> QED BY <2>1 DEF Rising
<1> QED BY <1>1, <1>2 DEF Within

\* What nothing in the queue is ahead of is at its head, and a read goes on
\* from there.
LEMMA DueFirst ==
  ASSUME QInv, Rising(queue), NEW e \in Event,
         \A j \in DOMAIN queue : e.serial <= queue[j].serial
  PROVE  /\ Queued(e) => Place(e) = 1
         /\ From(queue, 1) = 1 /\ From(Less(e), 1) = 1
<1>1. Len(queue) \in Nat /\ DOMAIN queue = 1 .. Len(queue)
      /\ \A j \in DOMAIN queue : queue[j].serial \in Nat
  BY SerialParts
<1>2. Len(Less(e)) \in Nat
  <2>1. QueueOnce(Less(e), serials)
    BY LessParts DEF QInv
  <2> QED BY <2>1, LenBound
<1>3. From(queue, 1) = 1 /\ From(Less(e), 1) = 1
  BY <1>1, <1>2 DEF From
<1>4. ASSUME Queued(e) PROVE Place(e) = 1
  <2> DEFINE k == Place(e)
  <2>1. k \in DOMAIN queue /\ queue[k] = e
    BY <1>4, LessParts DEF QInv
  <2> HIDE DEF k
  <2>2. 1 \in DOMAIN queue /\ k \in Nat /\ k >= 1
    BY <1>1, <2>1
  <2>3. ~ (1 < k)
    <3> SUFFICES ASSUME 1 < k PROVE FALSE
      OBVIOUS
    <3>1. queue[1].serial < queue[k].serial
      BY <2>1, <2>2 DEF Rising
    <3>2. e.serial <= queue[1].serial
      BY <2>2
    <3>3. queue[1].serial \in Nat /\ queue[k].serial \in Nat
      BY <1>1, <2>1, <2>2
    <3> QED BY <2>1, <3>1, <3>2, <3>3
  <2>4. k = 1
    BY <2>2, <2>3
  <2> QED BY <2>4 DEF k
<1> QED BY <1>3, <1>4

\* A step of the task that reads, or one that leaves the queue and what was
\* given.
LEMMA OrderByTurn ==
  ASSUME QInv, MaxDepth <= 1, Order, NEW t \in Task, Others(t),
         Reads(t) \/ UNCHANGED <<queue, given>>,
         Rising(queue'), Passed(given', queue'), InOrder',
         Reads(t)' => Foremost(Top(t)', queue', given'),
         UNCHANGED live
  PROVE  Order'
<1>1. ASSUME NEW u \in live, Reads(u)'
      PROVE  Foremost(Top(u)', queue', given')
  <2>1. CASE u = t
    BY <1>1, <2>1
  <2>2. CASE u # t
    <3>1. u \in Task
      BY DEF QInv, Plain
    <3>2. Reads(u) /\ Top(u)' = Top(u)
      BY <1>1, <2>2, <3>1, OthersParts
    <3>3. ~ Reads(t)
      BY <2>2, <3>1, <3>2, ReadsHolds
    <3> QED BY <3>2, <3>3 DEF Order
  <2> QED BY <2>1, <2>2
<1> QED BY <1>1 DEF Order

\* The task that reads no more, nothing of the queue changed.
LEMMA OrderByRest ==
  ASSUME QInv, MaxDepth <= 1, Order, NEW t \in Task, Others(t),
         ~ Reads(t)', UNCHANGED <<live, queue, given>>
  PROVE  Order'
BY OrderByTurn DEF Order, InOrder

\* The queue as it was, or with an event out of it.
LEMMA OrderLess ==
  ASSUME QInv, Order, NEW e, queue' = queue \/ queue' = Less(e)
  PROVE  /\ Rising(queue') /\ Passed(given, queue')
         /\ \A j \in DOMAIN queue' : \E k \in DOMAIN queue : queue'[j] = queue[k]
<1>1. \A j \in DOMAIN queue' : \E k \in DOMAIN queue : queue'[j] = queue[k]
  BY LessRising DEF Order
<1>2. Rising(queue')
  BY LessRising DEF Order
<1> QED BY <1>1, <1>2 DEF Order, Passed

\* The read goes on from the queue's head.
LEMMA OrderByRead ==
  ASSUME QInv, MaxDepth <= 1, Order, NEW t \in Task, NEW P, At(t, P),
         Reads(t), NEW e, queue' = queue \/ queue' = Less(e),
         stack' = ReadOn(t, 1), UNCHANGED <<live, given>>
  PROVE  Order'
<1>1. 1 \in 1 .. MaxEvents + 1
  BY LimitsAssumption
<1>2. Others(t) /\ Top(t)'.at = "read" /\ Top(t)'.index = 1
  BY <1>1, ReadOnTurn
<1>3. Rising(queue') /\ Passed(given', queue') /\ InOrder'
  BY OrderLess DEF Order, InOrder
<1>4. Foremost(Top(t)', queue', given')
  BY <1>2 DEF Foremost, Procedures
<1> QED BY <1>2, <1>3, <1>4, OrderByTurn

\* A procedure called about the event at the queue's head, or that was there.
LEMMA OrderByCall ==
  ASSUME QInv, MaxDepth <= 1, Order, NEW t \in Task, Reads(t), Others(t),
         NEW e \in Event, Due(e, queue, given),
         queue' = queue \/ queue' = Less(e),
         Top(t)'.one = e, Top(t)'.index = Top(t).index,
         Top(t)'.at = "told" => Top(t)'.back = 1, UNCHANGED <<live, given>>
  PROVE  Order'
<1>1. Top(t).index = 1
  BY ReadsHolds DEF Order, Foremost
<1>2. /\ Rising(queue') /\ Passed(given', queue') /\ InOrder'
      /\ \A j \in DOMAIN queue' : \E k \in DOMAIN queue : queue'[j] = queue[k]
  BY OrderLess DEF Order, InOrder
<1>3. Due(e, queue', given')
  BY <1>2 DEF Due
<1>4. Foremost(Top(t)', queue', given')
  BY <1>1, <1>3 DEF Foremost
<1> QED BY <1>2, <1>4, OrderByTurn

\* The event handed over.
LEMMA OrderByHandOver ==
  ASSUME QInv, MaxDepth <= 1, Order, NEW t \in Task, NEW P, At(t, P), Reads(t),
         NEW e \in Event, Due(e, queue, given),
         queue' = queue \/ queue' = Less(e),
         Top(t).way.remove => \A j \in DOMAIN queue' : queue'[j].serial # e.serial,
         HandOver(t, e), UNCHANGED live
  PROVE  Order'
<1>1. Others(t) /\ ~ Reads(t)'
  <2>1. stack' = Leave(t)
    BY DEF HandOver
  <2>2. stack'[t] = <<>> /\ Others(t)
    BY <2>1, ChangeTurn
  <2> QED BY <2>2, AtParts DEF Reads
<1>2. /\ Rising(queue') /\ Passed(given, queue')
      /\ \A j \in DOMAIN queue' : \E k \in DOMAIN queue : queue'[j] = queue[k]
  BY OrderLess
<1>3. CASE ~ Top(t).way.remove
  <2>1. given' = given
    BY <1>3 DEF HandOver
  <2> QED BY <1>1, <1>2, <2>1, OrderByTurn DEF Order, InOrder
<1>4. CASE Top(t).way.remove
  <2> DEFINE n == Len(given)
             g == Append(given, e.serial)
  <2>1. /\ given \in Seq(1 .. MaxEvents) /\ n \in Nat /\ DOMAIN given = 1 .. n
        /\ \A i \in DOMAIN given : given[i] \in Nat
        /\ \A j \in DOMAIN queue : queue[j].serial \in Nat
    BY SerialParts
  <2>2. e.serial \in 1 .. MaxEvents /\ e.serial \in Nat
    BY DEF Event
  <2>3. /\ g \in Seq(1 .. MaxEvents) /\ DOMAIN g = 1 .. n + 1
        /\ \A j \in 1 .. n : g[j] = given[j]
        /\ g[n + 1] = e.serial
    BY <2>1, <2>2, AppendParts
  <2>4. given' = g
    BY <1>4 DEF HandOver
  <2> HIDE DEF g, n
  <2>5. \A i \in DOMAIN g : (i \in DOMAIN given /\ g[i] = given[i])
                            \/ (i = n + 1 /\ g[i] = e.serial)
    BY <2>1, <2>3
  <2>6. InOrder'
    <3> SUFFICES ASSUME NEW i \in DOMAIN g, NEW j \in DOMAIN g, i < j
                 PROVE  g[i] < g[j]
      BY <2>4 DEF InOrder
    <3>1. i \in 1 .. n + 1 /\ j \in 1 .. n + 1
      BY <2>3
    <3>2. i # n + 1
      BY <2>1, <3>1
    <3>3. i \in DOMAIN given /\ g[i] = given[i]
      BY <2>5, <3>2
    <3>4. CASE j \in DOMAIN given /\ g[j] = given[j]
      BY <3>3, <3>4 DEF Order, InOrder
    <3>5. CASE j = n + 1 /\ g[j] = e.serial
      BY <3>3, <3>5 DEF Due
    <3> QED BY <2>5, <3>4, <3>5
  <2>7. Passed(g, queue')
    <3> SUFFICES ASSUME NEW i \in DOMAIN g, NEW j \in DOMAIN queue'
                 PROVE  g[i] < queue'[j].serial
      BY DEF Passed
    <3>1. CASE i \in DOMAIN given /\ g[i] = given[i]
      BY <1>2, <3>1 DEF Passed
    <3>2. CASE i = n + 1 /\ g[i] = e.serial
      <4>1. PICK k \in DOMAIN queue : queue'[j] = queue[k]
        BY <1>2
      <4>2. e.serial <= queue'[j].serial /\ queue'[j].serial \in Nat
        BY <2>1, <4>1 DEF Due
      <4>3. queue'[j].serial # e.serial
        BY <1>4
      <4> QED BY <2>2, <3>2, <4>2, <4>3
    <3> QED BY <2>5, <3>1, <3>2
  <2> QED BY <1>1, <1>2, <2>4, <2>6, <2>7, OrderByTurn
<1> QED BY <1>3, <1>4

\* An event considered is the one at the queue's head.
LEMMA OrderConsiders ==
  ASSUME QInv, MaxDepth <= 1, Order, NEW t \in Task, NEW e, Considers(t, e)
  PROVE  /\ At(t, {"read"}) /\ Reads(t) /\ e \in Event /\ t \in live
         /\ Top(t).index = 1 /\ 1 \in DOMAIN queue /\ e = queue[1]
         /\ Due(e, queue, given)
         /\ From(Less(e), Top(t).index) = 1
<1>1. /\ At(t, {"read"}) /\ At(t, {"read"} \cup Procedures) /\ e \in Event
      /\ Top(t).index \in DOMAIN queue /\ queue[Top(t).index] = e
  BY ConsidersParts
<1>2. Reads(t) /\ t \in live
  BY <1>1, TopParts DEF Reads
<1>3. Top(t).index = 1
  BY <1>2 DEF Order, Foremost
<1>4. Due(e, queue, given)
  <2>1. \A i \in DOMAIN given : given[i] < e.serial
    BY <1>1 DEF Order, Passed
  <2>2. ASSUME NEW j \in DOMAIN queue PROVE e.serial <= queue[j].serial
    <3>1. j \in Nat /\ j >= 1
      BY SerialParts
    <3>2. e.serial \in Nat /\ queue[j].serial \in Nat
      BY <1>1, SerialParts
    <3>3. CASE j = 1
      BY <1>1, <1>3, <3>2, <3>3
    <3>4. CASE 1 < j
      <4>1. queue[1].serial < queue[j].serial
        BY <1>1, <1>3, <3>4 DEF Order, Rising
      <4> QED BY <1>1, <1>3, <3>2, <4>1
    <3> QED BY <3>1, <3>3, <3>4
  <2> QED BY <2>1, <2>2 DEF Due
<1>5. From(Less(e), 1) = 1
  BY <1>1, <1>4, DueFirst DEF Order, Due
<1> QED BY <1>1, <1>2, <1>3, <1>4, <1>5

\* An event put in is after all there were.
LEMMA OrderByHost ==
  ASSUME QInv, MaxDepth <= 1, Order, NEW kind \in Kinds,
         NEW u \in Task \cup {None}, HostInput(kind, u)
  PROVE  Order'
<1> DEFINE e == [serial |-> serials + 1, kind |-> kind, over |-> u]
           v == IF kind = "key" THEN focus ELSE u
<1>1. /\ serials \in Nat /\ serials < MaxEvents /\ MaxEvents \in Nat
      /\ queue' = Put(e) /\ stack' = Signal(stack, v)
      /\ UNCHANGED <<live, given>>
  BY SerialParts, LimitsAssumption DEF HostInput
<1>2. e \in Event /\ e.serial = serials + 1
  <2>1. serials + 1 \in 1 .. MaxEvents
    BY <1>1
  <2> QED BY <2>1, KindsAssumption DEF Event
<1> HIDE DEF e, v
<1> DEFINE q == Put(e)
           n == Len(q)
<1>3. /\ n \in Nat /\ n > 0 /\ q[n] = e /\ DOMAIN q = 1 .. n
      /\ \A j \in 1 .. n - 1 : j \in DOMAIN queue /\ q[j] = queue[j]
  <2>1. QueueOnce(queue, serials)
    BY DEF QInv
  <2> QED BY <1>1, <1>2, <2>1, PutParts
<1> HIDE DEF q, n
<1>4. \A j \in DOMAIN queue : queue[j].serial \in Nat /\ queue[j].serial <= serials
  BY SerialParts DEF QInv, QueueOnce
<1>5. \A j \in DOMAIN q : \/ j \in DOMAIN queue /\ q[j] = queue[j]
                          \/ j = n /\ q[j] = e
  BY <1>3
<1>6. Rising(q)
  <2> SUFFICES ASSUME NEW i \in DOMAIN q, NEW j \in DOMAIN q, i < j
               PROVE  q[i].serial < q[j].serial
    BY DEF Rising
  <2>1. i \in DOMAIN queue /\ q[i] = queue[i]
    BY <1>3
  <2>2. CASE j \in DOMAIN queue /\ q[j] = queue[j]
    BY <2>1, <2>2 DEF Order, Rising
  <2>3. CASE j = n /\ q[j] = e
    BY <1>1, <1>2, <1>4, <2>1, <2>3
  <2> QED BY <1>5, <2>2, <2>3
<1>7. \A i \in DOMAIN given : given[i] \in Nat /\ given[i] <= serials
  BY SerialParts
<1>8. Passed(given, q)
  <2> SUFFICES ASSUME NEW i \in DOMAIN given, NEW j \in DOMAIN q
               PROVE  given[i] < q[j].serial
    BY DEF Passed
  <2>1. CASE j \in DOMAIN queue /\ q[j] = queue[j]
    BY <2>1 DEF Order, Passed
  <2>2. CASE j = n /\ q[j] = e
    BY <1>1, <1>2, <1>7, <2>2
  <2> QED BY <1>5, <2>1, <2>2
<1>9. ASSUME NEW t \in live, Reads(t)'
      PROVE  Foremost(Top(t)', q, given)
  <2>1. t \in Task /\ Woken(stack')
    BY <1>1, SignalParts DEF QInv, Plain
  <2>2. Reads(t) /\ Top(t)' = Top(t)
    BY <1>9, <2>1, WokenReads
  <2>3. Foremost(Top(t), queue, given)
    BY <2>2 DEF Order
  <2>4. ASSUME Top(t).at \in Procedures PROVE Due(Top(t).one, q, given)
    <3> DEFINE o == Top(t).one
    <3>1. Due(o, queue, given) /\ o \in Event /\ o.serial <= serials
      BY <2>1, <2>2, <2>3, <2>4, TopParts DEF Foremost, Reads, Framed
    <3>2. o.serial \in Nat
      BY <3>1 DEF Event
    <3> HIDE DEF o
    <3>3. ASSUME NEW j \in DOMAIN q PROVE o.serial <= q[j].serial
      <4>1. CASE j \in DOMAIN queue /\ q[j] = queue[j]
        BY <3>1, <4>1 DEF Due
      <4>2. CASE j = n /\ q[j] = e
        BY <1>1, <1>2, <3>1, <3>2, <4>2
      <4> QED BY <1>5, <4>1, <4>2
    <3>4. Due(o, q, given)
      BY <3>1, <3>3 DEF Due
    <3> QED BY <3>4 DEF o
  <2> QED BY <2>2, <2>3, <2>4 DEF Foremost
<1>10. queue' = q
  BY <1>1 DEF q
<1> QED BY <1>1, <1>6, <1>8, <1>9, <1>10 DEF Order, InOrder

\* What the machine does of a look.
LEMMA OrderByMachine ==
  ASSUME QInv, SeesInput, Order, NEW t \in Task, Machines(t)
  PROVE  Order'
<1>0. MaxDepth <= 1
  BY DEF SeesInput
<1>1. CASE Wake(t) \/ TakePosted(t)
  <2>1. Others(t) /\ ~ Reads(t)'
    BY <1>0, <1>1, QuietTurn
  <2>2. UNCHANGED <<live, queue, given>>
    BY <1>1 DEF Wake, TakePosted
  <2> QED BY <1>0, <2>1, <2>2, OrderByRest
<1>2. CASE BeginEarly(t) \/ BeginRead(t)
  <2>1. PICK early \in BOOLEAN : At(t, {"loop", "posted"}) /\ Begin(t, early)
    BY <1>2 DEF BeginEarly, BeginRead, AtPosted, Runs, At
  <2>2. Others(t) /\ Top(t)'.at = "read" /\ Top(t)'.index = 1
    BY <1>0, <2>1, BeginTurn
  <2>3. UNCHANGED <<live, queue, given>>
    BY <2>1 DEF Begin
  <2>4. Foremost(Top(t)', queue', given')
    BY <2>2 DEF Foremost, Procedures
  <2>5. Rising(queue') /\ Passed(given', queue') /\ InOrder'
    BY <2>3 DEF Order, InOrder
  <2> QED BY <1>0, <2>2, <2>3, <2>4, <2>5, OrderByTurn
<1>3. CASE ReadNone(t) \/ ReadEnd(t)
  <2>1. /\ At(t, {"loop", "posted", "read"}) /\ NoInput(t, stack)
        /\ UNCHANGED <<live, queue, given>>
    BY <1>3 DEF ReadNone, ReadEnd, AtPosted, Runs, At
  <2>2. Woken(stack)
    BY SignalParts DEF QInv
  <2>3. Others(t) /\ ~ Reads(t)'
    BY <1>0, <2>1, <2>2, NoInputTurn
  <2> QED BY <1>0, <2>1, <2>3, OrderByRest
<1>4. CASE Elsewhere(t)
  <2>1. PICK e : /\ Considers(t, e) /\ Target(e) \in live \ {t}
                 /\ NoInput(t, Signal(stack, Target(e)))
    BY <1>4 DEF Elsewhere
  <2> DEFINE s == Signal(stack, Target(e))
  <2>2. Woken(s) /\ s[t] = stack[t]
    BY <2>1, SignalParts DEF QInv
  <2>3. At(t, {"loop", "posted", "read"})
    BY <2>1 DEF Considers, Runs, At
  <2> HIDE DEF s
  <2>4. NoInput(t, s)
    BY <2>1 DEF s
  <2>5. Others(t) /\ ~ Reads(t)'
    BY <1>0, <2>2, <2>3, <2>4, NoInputTurn
  <2>6. UNCHANGED <<live, queue, given>>
    BY <1>4 DEF Elsewhere
  <2> QED BY <1>0, <2>5, <2>6, OrderByRest
<1>5. CASE ForNobody(t)
  <2>1. PICK e : /\ Considers(t, e) /\ queue' = Less(e)
                 /\ stack' = ReadOn(t, From(Less(e), Top(t).index))
    BY <1>5 DEF ForNobody
  <2>2. UNCHANGED <<live, given>>
    BY <1>5 DEF ForNobody
  <2>3. /\ At(t, {"read"}) /\ Reads(t) /\ From(Less(e), Top(t).index) = 1
    BY <1>0, <2>1, OrderConsiders
  <2>4. stack' = ReadOn(t, 1)
    BY <2>1, <2>3
  <2> QED BY <1>0, <2>1, <2>2, <2>3, <2>4, OrderByRead
<1>6. ~ PassOver(t)
  <2> SUFFICES ASSUME PassOver(t) PROVE FALSE
    OBVIOUS
  <2>1. PICK e : Considers(t, e) /\ "key" \notin Top(t).way.kinds
    BY DEF PassOver
  <2>2. At(t, {"read"})
    BY <2>1 DEF Considers, Runs
  <2>3. Top(t).way \in Ways
    BY <2>2, TopWay
  <2> QED BY <2>1, <2>3 DEF SeesInput, InputKinds
<1>7. CASE ReadMouse(t)
  <2>1. PICK e : Considers(t, e) /\ stack' = Call(t, "hit", e)
    BY <1>7 DEF ReadMouse
  <2>2. UNCHANGED <<live, queue, given>>
    BY <1>7 DEF ReadMouse
  <2>3. At(t, {"read"}) /\ Reads(t) /\ e \in Event /\ Due(e, queue, given)
    BY <1>0, <2>1, OrderConsiders
  <2>4. "hit" \in Procedures
    BY DEF Procedures
  <2>5. /\ Others(t) /\ Top(t)'.at = "hit" /\ Top(t)'.one = e
        /\ Top(t)'.index = Top(t).index
    BY <1>0, <2>1, <2>3, <2>4, CallTurn
  <2> QED BY <1>0, <2>2, <2>3, <2>5, OrderByCall
<1>8. CASE ReadKey(t)
  <2>1. PICK e : /\ Considers(t, e)
                 /\ queue' = IF Top(t).way.remove THEN Less(e) ELSE queue
                 /\ \/ stack' = Call(t, "key", e) /\ UNCHANGED given
                    \/ HandOver(t, e)
    BY <1>8 DEF ReadKey
  <2>2. UNCHANGED live
    BY <1>8 DEF ReadKey
  <2>3. /\ At(t, {"read"}) /\ Reads(t) /\ e \in Event /\ Due(e, queue, given)
        /\ Queued(e)
    BY <1>0, <2>1, OrderConsiders, ConsidersParts
  <2>4. CASE stack' = Call(t, "key", e) /\ UNCHANGED given
    <3>1. "key" \in Procedures
      BY DEF Procedures
    <3>2. /\ Others(t) /\ Top(t)'.at = "key" /\ Top(t)'.one = e
          /\ Top(t)'.index = Top(t).index
      BY <1>0, <2>3, <2>4, <3>1, CallTurn
    <3> QED BY <1>0, <2>1, <2>2, <2>3, <2>4, <3>2, OrderByCall
  <2>5. CASE HandOver(t, e)
    <3>1. Top(t).way.remove
            => \A j \in DOMAIN queue' : queue'[j].serial # e.serial
      BY <2>1, <2>3, LessParts DEF QInv
    <3> QED BY <1>0, <2>1, <2>2, <2>3, <2>5, <3>1, OrderByHandOver
  <2> QED BY <2>1, <2>4, <2>5
<1> QED BY <1>1, <1>2, <1>3, <1>4, <1>5, <1>6, <1>7, <1>8 DEF Machines

\* An event put back is at the queue's head again.
LEMMA OrderByPutBack ==
  ASSUME QInv, MaxDepth <= 1, Order, NEW t \in Task, Reads(t), At(t, Procedures),
         NEW e \in Event, Due(e, queue, given),
         \A j \in DOMAIN queue : queue[j].serial # e.serial,
         queue' = InsertAt(queue, 1, e), stack' = Call(t, "hit", e),
         UNCHANGED <<live, given>>
  PROVE  Order'
<1>1. /\ Len(queue) \in Nat /\ DOMAIN queue = 1 .. Len(queue)
      /\ \A j \in DOMAIN queue : queue[j].serial \in Nat
  BY SerialParts
<1>2. e.serial \in Nat
  BY DEF Event
<1> DEFINE n == Len(queue)
           q == InsertAt(queue, 1, e)
<1>3. /\ q \in Seq(Event) /\ Len(q) = n + 1 /\ q[1] = e
      /\ \A j \in 2 .. n + 1 : q[j] = queue[j - 1]
  <2> DEFINE k == 1
  <2>1. queue \in Seq(Event) /\ k \in 1 .. Len(queue) + 1
    BY <1>1 DEF QInv, QueueOnce
  <2> HIDE DEF k
  <2>2. /\ InsertAt(queue, k, e) \in Seq(Event)
        /\ Len(InsertAt(queue, k, e)) = n + 1
        /\ InsertAt(queue, k, e)[k] = e
        /\ \A j \in k + 1 .. n + 1 : InsertAt(queue, k, e)[j] = queue[j - 1]
    BY <2>1, InsertAtParts
  <2> HIDE DEF n
  <2> QED BY <2>2 DEF k
<1> HIDE DEF q
<1>4. DOMAIN q = 1 .. n + 1
  BY <1>1, <1>3
<1>5. \A j \in DOMAIN q : \/ j = 1 /\ q[j] = e
                          \/ j > 1 /\ j - 1 \in DOMAIN queue /\ q[j] = queue[j - 1]
  BY <1>1, <1>3, <1>4
<1>6. \A j \in DOMAIN queue : e.serial < queue[j].serial
  BY <1>1, <1>2 DEF Due
<1>7. Rising(q)
  <2> SUFFICES ASSUME NEW i \in DOMAIN q, NEW j \in DOMAIN q, i < j
               PROVE  q[i].serial < q[j].serial
    BY DEF Rising
  <2>1. i \in Nat /\ j \in Nat /\ i >= 1
    BY <1>1, <1>4
  <2>2. j - 1 \in DOMAIN queue /\ q[j] = queue[j - 1]
    BY <1>5, <2>1
  <2>3. CASE i = 1 /\ q[i] = e
    BY <1>6, <2>2, <2>3
  <2>4. CASE i > 1 /\ i - 1 \in DOMAIN queue /\ q[i] = queue[i - 1]
    <3>1. i - 1 < j - 1
      BY <2>1
    <3> QED BY <2>2, <2>4, <3>1 DEF Order, Rising
  <2> QED BY <1>5, <2>3, <2>4
<1>8. Passed(given, q)
  BY <1>5 DEF Passed, Order, Due
<1>9. ASSUME NEW j \in DOMAIN q PROVE e.serial <= q[j].serial
  BY <1>1, <1>2, <1>5, <1>6
<1>10. Due(e, q, given)
  BY <1>9 DEF Due
<1>11. "hit" \in Procedures
  BY DEF Procedures
<1>12. /\ Others(t) /\ Top(t)'.at = "hit" /\ Top(t)'.one = e
       /\ Top(t)'.index = Top(t).index
  BY <1>11, CallTurn
<1>13. Top(t).index = 1
  BY ReadsHolds DEF Order, Foremost
<1>14. Foremost(Top(t)', q, given)
  BY <1>10, <1>12, <1>13 DEF Foremost
<1>15. queue' = q
  BY DEF q
<1> QED BY <1>7, <1>8, <1>12, <1>14, <1>15, OrderByTurn DEF Order, InOrder

\* The window told of the event taken.
LEMMA OrderByTelling ==
  ASSUME QInv, MaxDepth <= 1, Order, NEW t \in Task, Reads(t), At(t, Procedures),
         NEW e \in Event, Due(e, queue, given), queue' = Less(e),
         stack' = Change(t, Telling(Top(t), e, 1)),
         UNCHANGED <<live, given>>
  PROVE  Order'
<1>1. 1 \in 1 .. MaxEvents
  BY LimitsAssumption
<1>2. /\ Others(t) /\ Top(t)'.at = "told" /\ Top(t)'.one = e
      /\ Top(t)'.index = Top(t).index /\ Top(t)'.back = 1
  BY <1>1, TakenTurn
<1> QED BY <1>2, OrderByCall

\* A procedure of the look's returns.
LEMMA OrderByReturn ==
  ASSUME QInv, SeesInput, Order, NEW t \in Task,
         KeyReturn(t) \/ HitReturn(t) \/ AskedReturn(t) \/ ToldReturn(t)
  PROVE  Order'
<1>0. MaxDepth <= 1
  BY DEF SeesInput
<1> DEFINE e == Top(t).one
<1>1. UNCHANGED live
  BY DEF KeyReturn, HitReturn, AskedReturn, ToldReturn
<1>2. PICK p \in Procedures : /\ Returns(t, p)
                              /\ \/ p = "key" /\ KeyReturn(t)
                                 \/ p = "hit" /\ HitReturn(t)
                                 \/ p = "asked" /\ AskedReturn(t)
                                 \/ p = "told" /\ ToldReturn(t)
  BY DEF KeyReturn, HitReturn, AskedReturn, ToldReturn, Procedures
<1>3. /\ t \in live /\ At(t, {p}) /\ At(t, Procedures) /\ Top(t).at = p
      /\ Top(t) \in Frame /\ e \in Event
      /\ Owns(Top(t)) => \A j \in DOMAIN queue : queue[j].serial = e.serial
                                         => p = "asked" /\ queue[j] = e
  BY <1>2, ReturnParts DEF At
<1>4. Reads(t)
  BY <1>3 DEF Reads, At
<1>5. /\ Top(t).index = 1 /\ Due(e, queue, given)
      /\ p = "told" => Top(t).back = 1
  BY <1>3, <1>4 DEF Order, Foremost
<1>6. /\ Queued(e) => Place(e) = 1
      /\ From(queue, 1) = 1 /\ From(Less(e), 1) = 1
  BY <1>3, <1>5, DueFirst DEF Order, Due
<1>7. ASSUME stack' = ReadOn(t, 1), queue' = queue \/ queue' = Less(e),
             UNCHANGED given
      PROVE  Order'
  BY <1>0, <1>1, <1>3, <1>4, <1>7, OrderByRead
<1>8. ASSUME HandOver(t, e), queue' = queue,
             Top(t).way.remove => \A j \in DOMAIN queue : queue[j].serial # e.serial
      PROVE  Order'
  <2> HIDE DEF e
  <2> QED BY <1>0, <1>1, <1>3, <1>4, <1>5, <1>8, OrderByHandOver
<1>9. ASSUME Thrown(t, e) PROVE Order'
  BY <1>5, <1>6, <1>7, <1>9 DEF Thrown
<1>10. ASSUME Resolved(t, e) PROVE Order'
  <2>1. CASE ~ Top(t).way.remove
    BY <1>8, <1>10, <2>1 DEF Resolved
  <2>2. CASE Top(t).way.remove
    <3> DEFINE k == IF Queued(e) THEN Place(e) ELSE 1
    <3>1. /\ queue' = Less(e) /\ UNCHANGED given
          /\ stack' = Change(t, Telling(Top(t), e, k))
      BY <1>10, <2>2 DEF Resolved, Telling
    <3>2. k = 1
      BY <1>6
    <3> HIDE DEF e, k
    <3> QED BY <1>0, <1>1, <1>3, <1>4, <1>5, <3>1, <3>2, OrderByTelling
  <2> QED BY <2>1, <2>2
<1>11. CASE p = "key" /\ KeyReturn(t)
  <2>1. CASE HandOver(t, e) /\ UNCHANGED queue
    <3>1. Top(t).way.remove => Owns(Top(t))
      BY <1>3, <1>11 DEF Owns
    <3> QED BY <1>3, <1>8, <1>11, <2>1, <3>1
  <2>2. CASE Thrown(t, e)
    BY <1>9, <2>2
  <2> QED BY <1>11, <2>1, <2>2 DEF KeyReturn, Thrown
<1>12. CASE p = "asked" /\ AskedReturn(t)
  BY <1>9, <1>10, <1>12 DEF AskedReturn
<1>13. CASE p = "hit" /\ HitReturn(t)
  <2>1. Top(t).way \in Ways
    BY <1>3, <1>13, TopWay
  <2>2. e.kind \in Top(t).way.kinds
    BY <1>3, <2>1 DEF SeesInput, Event
  <2>3. CASE stack' = ReadOn(t, 1) /\ UNCHANGED <<queue, given>>
    BY <1>7, <2>3
  <2>4. CASE stack' = Call(t, "asked", e) /\ UNCHANGED <<queue, given>>
    <3>1. "asked" \in Procedures
      BY DEF Procedures
    <3> HIDE DEF e
    <3>2. /\ Others(t) /\ Top(t)'.at = "asked" /\ Top(t)'.one = e
          /\ Top(t)'.index = Top(t).index
      BY <1>0, <1>3, <2>4, <3>1, CallTurn
    <3> QED BY <1>0, <1>1, <1>3, <1>4, <1>5, <2>4, <3>2, OrderByCall
  <2> QED BY <1>9, <1>10, <1>13, <2>2, <2>3, <2>4 DEF HitReturn
<1>14. CASE p = "told" /\ ToldReturn(t)
  <2>1. Owns(Top(t))
    BY <1>3, <1>14 DEF Owns
  <2>2. \A j \in DOMAIN queue : queue[j].serial # e.serial
    BY <1>3, <1>14, <2>1
  <2>3. /\ From(queue, Top(t).index) = 1 /\ From(queue, Top(t).back) = 1
    BY <1>5, <1>6, <1>14
  <2>4. CASE HandOver(t, e) /\ UNCHANGED queue
    BY <1>8, <2>2, <2>4
  <2>5. CASE /\ stack' = ReadOn(t, IF Queued(e) THEN Place(e)
                                   ELSE From(queue, Top(t).index))
             /\ UNCHANGED <<queue, given>>
    <3>1. stack' = ReadOn(t, 1)
      BY <1>6, <2>3, <2>5
    <3> QED BY <1>7, <2>5, <3>1
  <2>6. CASE /\ queue' = InsertAt(queue, From(queue, Top(t).back), e)
             /\ stack' = Call(t, "hit", e) /\ UNCHANGED given
    <3>1. queue' = InsertAt(queue, 1, e)
      BY <2>3, <2>6
    <3> HIDE DEF e
    <3> QED BY <1>0, <1>1, <1>3, <1>4, <1>5, <2>2, <2>6, <3>1, OrderByPutBack
  <2> QED BY <1>14, <2>4, <2>5, <2>6 DEF ToldReturn
<1> QED BY <1>2, <1>11, <1>12, <1>13, <1>14

\* The order is kept.
LEMMA OrderKept ==
  ASSUME QInv, SeesInput, Order, [Next]_vars
  PROVE  Order'
<1>0. MaxDepth <= 1
  BY DEF SeesInput
<1>1. CASE UNCHANGED vars
  BY <1>1 DEF vars, Order, Rising, Passed, InOrder, Foremost, Due, Reads, At, Top
<1>2. CASE \E kind \in Kinds, u \in Task \cup {None} : HostInput(kind, u)
  BY <1>0, <1>2, OrderByHost
<1>3. ASSUME NEW t \in Task, Programs(t) PROVE Order'
  <2>1. CASE (\E way \in Ways : Look(t, way)) \/ TakeSent(t) \/ SentReturn(t)
    <3>1. Others(t) /\ ~ Reads(t)'
      BY <1>0, <2>1, QuietTurn
    <3>2. UNCHANGED <<live, queue, given>>
      BY <2>1 DEF Look, TakeSent, SentReturn
    <3> QED BY <1>0, <3>1, <3>2, OrderByRest
  <2>2. ASSUME NEW u, Post(t, u) \/ SetFocus(t, u) PROVE Order'
    <3>1. Woken(stack') /\ UNCHANGED <<live, queue, given>>
      BY <2>2, SignalParts DEF Post, SetFocus, QInv
    <3>2. ASSUME NEW v \in live, Reads(v)'
          PROVE  Foremost(Top(v)', queue, given)
      <4>1. v \in Task
        BY DEF QInv, Plain
      <4>2. Reads(v) /\ Top(v)' = Top(v)
        BY <1>0, <3>1, <3>2, <4>1, WokenReads
      <4> QED BY <4>2 DEF Order
    <3> QED BY <3>1, <3>2 DEF Order, InOrder
  <2>3. CASE End(t)
    <3>1. /\ live' = live \ {t} /\ stack' = [stack EXCEPT ![t] = <<>>]
          /\ UNCHANGED <<queue, given>>
      BY <2>3 DEF End
    <3>2. ASSUME NEW v \in live', Reads(v)'
          PROVE  Foremost(Top(v)', queue, given)
      <4>1. v \in live /\ v # t /\ v \in Task /\ stack'[v] = stack[v]
        BY <3>1 DEF QInv, Plain
      <4>2. Reads(v) /\ Top(v)' = Top(v)
        BY <3>2, <4>1, AtParts DEF Reads
      <4> QED BY <4>1, <4>2 DEF Order
    <3> QED BY <3>1, <3>2 DEF Order, InOrder
  <2>4. CASE KeyReturn(t) \/ HitReturn(t) \/ AskedReturn(t) \/ ToldReturn(t)
    BY <2>4, OrderByReturn
  <2> QED BY <1>3, <2>1, <2>2, <2>3, <2>4 DEF Programs
<1> QED BY <1>1, <1>2, <1>3, OrderByMachine DEF Next

\* Events are handed over in the order they were put in (InOrder), whatever
\* tasks they are for: what was typed ahead waits for the event before it
\* (system_queue.rs: take_input).
THEOREM InputInOrder ==
  ASSUME SeesInput
  PROVE  Spec => []InOrder
<1>1. HookedOnce
  BY DEF SeesInput, HookedOnce
<1>2. Init => Order
  BY DEF Init, Order, Rising, Passed, InOrder, Reads, At
<1>3. QInv /\ Order /\ [Next]_vars => Order'
  BY OrderKept
<1>4. Order => InOrder
  BY DEF Order
<1> QED BY <1>1, <1>2, <1>3, <1>4, QueueInvariant, PTL DEF Spec

-----------------------------------------------------------------------------
(* Nobody sleeps over an event that is a task's own.                         *)

\* The hypotheses of NoSleepOverInput: each look asks for the keys and the
\* mouse's events, and no task ends.
NoneEnds == SeesInput /\ "end" \notin Features

\* The holder of the input, where it has not ended, does not sleep: it wakes
\* to read, or lets the input go as it goes to sleep.
Awake ==
  /\ NoSleepOverInput
  /\ \A u \in live : lock = u => ~ At(u, {"asleep"})

\* A task that is signalled does not sleep.
LEMMA SignalWakes ==
  ASSUME QInv, MaxDepth <= 1, NEW u \in live, stack'[u] = Signal(stack, u)[u]
  PROVE  ~ At(u, {"asleep"})'
<1>1. /\ stack \in [Task -> Seq(Frame)] /\ u \in Task
      /\ stack[u] \in Seq(Frame)
  BY DEF QInv, Plain
<1>2. CASE At(u, {"asleep"})
  <2> DEFINE f == [Last(stack[u]) EXCEPT !.at = "woken"]
             l == Append(Front(stack[u]), f)
  <2>1. /\ stack[u] # <<>> /\ Last(stack[u]) = Top(u) /\ Top(u) \in Frame
        /\ Last(stack[u]).at = "asleep" /\ Len(stack[u]) > 0
        /\ Len(stack[u]) \in Nat
    BY <1>1, <1>2, TopParts DEF At, Last, Top
  <2>2. f \in Frame /\ f.at = "woken"
    <3>1. "woken" \in Places
      BY DEF Places
    <3> QED BY <2>1, <3>1 DEF Frame
  <2>3. Signal(stack, u)[u] = l
    BY <1>1, <2>1 DEF Signal, Replace
  <2> HIDE DEF f
  <2>4. Len(l) = Len(stack[u]) /\ l[Len(stack[u])] = f
    BY <1>1, <2>1, <2>2, RetopParts
  <2> HIDE DEF l
  <2>5. stack'[u][Len(stack'[u])].at = "woken"
    BY <2>2, <2>3, <2>4
  <2> QED BY <2>5 DEF At, Top
<1>3. CASE ~ At(u, {"asleep"})
  <2>1. ~ (stack[u] # <<>> /\ Last(stack[u]).at = "asleep")
    BY <1>3 DEF At, Last, Top
  <2>2. Signal(stack, u) = stack
    BY <2>1 DEF Signal
  <2>3. stack'[u] = stack[u]
    BY <2>2
  <2> QED BY <1>3, <2>3, AtParts
<1> QED BY <1>2, <1>3

\* A task's step after which it does not sleep, and holds the input, or lets
\* it go, or leaves it.
LEMMA AwakeByTurn ==
  ASSUME QInv, MaxDepth <= 1, Awake, NEW t \in live, Others(t),
         ~ At(t, {"asleep"})', UNCHANGED live, lock' \in {lock, None, t}
  PROVE  Awake'
<1>1. live \subseteq Task /\ None \notin live
  BY TasksAssumption DEF QInv, Plain
<1>2. NoSleepOverInput'
  BY DEF NoSleepOverInput
<1>3. ASSUME NEW u \in live, lock' = u PROVE ~ At(u, {"asleep"})'
  <2>1. CASE u = t
    BY <2>1
  <2>2. CASE u # t
    <3>1. lock = u /\ u \in Task \ {t}
      BY <1>1, <1>3, <2>2
    <3>2. ~ At(u, {"asleep"})
      BY <3>1 DEF Awake
    <3> QED BY <3>1, <3>2, OthersParts
  <2> QED BY <2>1, <2>2
<1> QED BY <1>2, <1>3 DEF Awake

\* The look finds no input and its task goes to sleep: it is none that holds
\* the input then, and where nothing else keeps it from its own the queue is
\* empty.
LEMMA AwakeByNoInput ==
  ASSUME QInv, MaxDepth <= 1, Awake, NEW t \in live, NEW s, Woken(s),
         s[t] = stack[t], At(t, {"loop", "posted", "read"}), NoInput(t, s),
         UNCHANGED <<live, queue, focus>>,
         \/ queue = <<>>
         \/ \E u \in live \ {t} : ~ At(u, {"asleep"})'
  PROVE  Awake'
<1>1. live \subseteq Task /\ None \notin live
  BY TasksAssumption DEF QInv, Plain
<1>2. Others(t)
  BY <1>1, NoInputTurn
<1>3. NoSleepOverInput'
  BY DEF NoSleepOverInput, Range
<1>4. lock' = IF lock = t THEN None ELSE lock
  BY DEF NoInput, Unheld
<1>5. ASSUME NEW u \in live, lock' = u PROVE ~ At(u, {"asleep"})'
  <2>1. lock = u /\ u \in Task \ {t}
    BY <1>1, <1>4, <1>5
  <2>2. ~ At(u, {"asleep"})
    BY <2>1 DEF Awake
  <2> QED BY <1>2, <2>1, <2>2, OthersParts
<1> QED BY <1>3, <1>5 DEF Awake

\* What comes in wakes the task it is for.
LEMMA AwakeByHost ==
  ASSUME QInv, MaxDepth <= 1, Awake, NEW kind \in Kinds,
         NEW u \in Task \cup {None}, HostInput(kind, u)
  PROVE  Awake'
<1> DEFINE e == [serial |-> serials + 1, kind |-> kind, over |-> u]
           v == IF kind = "key" THEN focus ELSE u
<1>1. /\ serials \in Nat /\ serials < MaxEvents /\ MaxEvents \in Nat
      /\ queue' = Put(e) /\ stack' = Signal(stack, v)
      /\ UNCHANGED <<live, lock, focus>>
  BY SerialParts, LimitsAssumption DEF HostInput
<1>2. e \in Event /\ e.serial = serials + 1 /\ Target(e) = v
  <2>1. serials + 1 \in 1 .. MaxEvents
    BY <1>1
  <2> QED BY <2>1, KindsAssumption DEF Event, Target
<1> HIDE DEF e, v
<1> DEFINE q == Put(e)
           n == Len(q)
<1>3. /\ n \in Nat /\ n > 0 /\ q[n] = e /\ DOMAIN q = 1 .. n
      /\ \A j \in 1 .. n - 1 : j \in DOMAIN queue /\ q[j] = queue[j]
  <2>1. QueueOnce(queue, serials)
    BY DEF QInv
  <2> QED BY <1>1, <1>2, <2>1, PutParts
<1> HIDE DEF q, n
<1>4. \A j \in DOMAIN q : \/ j \in DOMAIN queue /\ q[j] = queue[j]
                          \/ j = n /\ q[j] = e
  BY <1>3
<1>5. Woken(stack') /\ live \subseteq Task
  BY <1>1, SignalParts DEF QInv, Plain
<1>6. \A w \in live : At(w, {"asleep"})' => At(w, {"asleep"})
  BY <1>5, WokenReads
<1>7. NoSleepOverInput'
  <2> SUFFICES ASSUME \A w \in live : At(w, {"asleep"})', NEW x \in Range(q)
               PROVE  Target(x) \notin live
    BY <1>1 DEF NoSleepOverInput, Target, q
  <2>1. PICK j \in DOMAIN q : x = q[j]
    BY DEF Range
  <2>2. CASE j \in DOMAIN queue /\ q[j] = queue[j]
    <3>1. x \in Range(queue)
      BY <2>1, <2>2 DEF Range
    <3> QED BY <1>6, <3>1 DEF Awake, NoSleepOverInput
  <2>3. CASE j = n /\ q[j] = e
    <3>1. v \notin live
      <4> SUFFICES ASSUME NEW w \in live, w = v PROVE FALSE
        OBVIOUS
      <4>1. ~ At(w, {"asleep"})'
        BY <1>1, SignalWakes
      <4> QED BY <4>1
    <3> QED BY <1>2, <2>1, <2>3, <3>1
  <2> QED BY <1>4, <2>1, <2>2, <2>3
<1> QED BY <1>1, <1>6, <1>7 DEF Awake

\* A task reads on, or calls a procedure of the look's, or hands over what it
\* found.
LEMMA AwakeByReading ==
  ASSUME QInv, MaxDepth <= 1, Awake, NEW t \in Task, NEW P, At(t, P),
         UNCHANGED <<live, lock>>,
         \/ \E i \in 1 .. MaxEvents + 1 : stack' = ReadOn(t, i)
         \/ \E p \in Procedures, e \in Event : stack' = Call(t, p, e)
         \/ \E k \in 1 .. MaxEvents, e \in Event :
              stack' = Change(t, Telling(Top(t), e, k))
         \/ stack' = Leave(t)
  PROVE  Awake'
<1>1. t \in live
  BY TopParts
<1>2. Others(t) /\ ~ At(t, {"asleep"})'
  <2>1. CASE \E i \in 1 .. MaxEvents + 1 : stack' = ReadOn(t, i)
    BY <2>1, ReadOnTurn
  <2>2. CASE \E p \in Procedures, e \in Event : stack' = Call(t, p, e)
    BY <2>2, CallTurn
  <2>3. CASE \E k \in 1 .. MaxEvents, e \in Event :
               stack' = Change(t, Telling(Top(t), e, k))
    BY <2>3, TakenTurn
  <2>4. CASE stack' = Leave(t)
    <3>1. stack'[t] = <<>> /\ Others(t)
      BY <2>4, ChangeTurn
    <3> QED BY <3>1, AtParts
  <2> QED BY <2>1, <2>2, <2>3, <2>4
<1> QED BY <1>1, <1>2, AwakeByTurn

\* The look's turns that find no input.
LEMMA AwakeByNone ==
  ASSUME QInv, SeesInput, Order, Awake, NEW t \in Task,
         ReadNone(t) \/ ReadEnd(t) \/ Elsewhere(t)
  PROVE  Awake'
<1>0. MaxDepth <= 1 /\ live \subseteq Task /\ Woken(stack)
  BY SignalParts DEF SeesInput, QInv, Plain
<1>1. UNCHANGED <<live, queue, focus>>
  BY DEF ReadNone, ReadEnd, Elsewhere
<1>2. At(t, {"loop", "posted", "read"})
  BY DEF ReadNone, ReadEnd, Elsewhere, AtPosted, Considers, Runs, At
<1>3. t \in live
  BY <1>2, TopParts
<1>4. CASE ReadNone(t)
  <2>1. /\ NoInput(t, stack) /\ At(t, {"loop", "posted"})
        /\ ~ (LooksAtInput(Top(t).way.kinds) /\ MayHold(t))
    BY <1>4 DEF ReadNone, AtPosted, Runs, At
  <2>2. Others(t)
    BY <1>0, <1>2, <2>1, NoInputTurn
  <2>3. CASE ~ LooksAtInput(Top(t).way.kinds)
    <3>1. InputKinds \subseteq Top(t).way.kinds
      BY <2>1, TopWay DEF SeesInput
    <3>2. \A j \in DOMAIN queue : queue[j] \in Event
      BY SerialParts
    <3>3. \A j \in DOMAIN queue : queue[j].kind \in InputKinds
      BY <3>2 DEF Event
    <3>4. DOMAIN queue = {}
      BY <2>3, <3>1, <3>3 DEF LooksAtInput, Range
    <3>5. queue = <<>>
      <4>1. queue \in Seq(Event)
        BY DEF QInv, QueueOnce
      <4>2. Len(queue) \in Nat /\ DOMAIN queue = 1 .. Len(queue)
        BY SerialParts
      <4>3. Len(queue) = 0
        BY <3>4, <4>2
      <4> QED BY <4>1, <4>3
    <3> QED BY <1>0, <1>1, <1>2, <1>3, <2>1, <3>5, AwakeByNoInput
  <2>4. CASE ~ MayHold(t)
    <3>1. lock \in live \ {t}
      BY <2>4 DEF MayHold
    <3>2. PICK u \in live \ {t} : lock = u
      BY <3>1
    <3>3. ~ At(u, {"asleep"})
      BY <3>2 DEF Awake
    <3>4. ~ At(u, {"asleep"})'
      BY <1>0, <2>2, <3>3, OthersParts
    <3> QED BY <1>0, <1>1, <1>2, <1>3, <2>1, <3>4, AwakeByNoInput
  <2> QED BY <2>1, <2>3, <2>4
<1>5. CASE ReadEnd(t)
  <2>1. At(t, {"read"}) /\ NoInput(t, stack) /\ Top(t).index > Len(queue)
    BY <1>5 DEF ReadEnd, Runs
  <2>2. Top(t).index = 1
    BY <1>3, <2>1 DEF Order, Foremost, Reads, At
  <2>3. queue = <<>>
    <3>1. queue \in Seq(Event) /\ Len(queue) \in Nat
      BY SerialParts DEF QInv, QueueOnce
    <3>2. Len(queue) = 0
      BY <2>1, <2>2, <3>1
    <3> QED BY <3>1, <3>2
  <2> QED BY <1>0, <1>1, <1>2, <1>3, <2>1, <2>3, AwakeByNoInput
<1>6. CASE Elsewhere(t)
  <2>1. PICK e : /\ Considers(t, e) /\ Target(e) \in live \ {t}
                 /\ NoInput(t, Signal(stack, Target(e)))
    BY <1>6 DEF Elsewhere
  <2>2. PICK u \in live \ {t} : u = Target(e)
    BY <2>1
  <2> DEFINE s == Signal(stack, u)
  <2>3. Woken(s) /\ s[t] = stack[t] /\ NoInput(t, s)
    BY <1>0, <1>3, <2>1, <2>2, SignalParts DEF QInv
  <2>4. s[u] = Signal(stack, u)[u]
    OBVIOUS
  <2> HIDE DEF s
  <2>5. stack'[u] = s[u]
    BY <1>0, <1>2, <2>2, <2>3, NoInputTurn
  <2>6. ~ At(u, {"asleep"})'
    BY <1>0, <2>4, <2>5, SignalWakes
  <2> QED BY <1>0, <1>1, <1>2, <1>3, <2>2, <2>3, <2>6, AwakeByNoInput
<1> QED BY <1>4, <1>5, <1>6

\* What the machine does of a look.
LEMMA AwakeByMachine ==
  ASSUME QInv, SeesInput, Order, Awake, NEW t \in Task, Machines(t)
  PROVE  Awake'
<1>0. MaxDepth <= 1
  BY DEF SeesInput
<1>1. CASE Wake(t) \/ TakePosted(t)
  <2>1. Others(t) /\ ~ At(t, {"asleep"})'
    BY <1>0, <1>1, QuietTurn
  <2>2. UNCHANGED <<live, lock>> /\ At(t, {"woken", "loop", "posted"})
    BY <1>1 DEF Wake, TakePosted, AtPosted, Runs, At
  <2>3. t \in live
    BY <2>2, TopParts
  <2> QED BY <1>0, <2>1, <2>2, <2>3, AwakeByTurn
<1>2. CASE BeginEarly(t) \/ BeginRead(t)
  <2>1. PICK early \in BOOLEAN : At(t, {"loop", "posted"}) /\ Begin(t, early)
    BY <1>2 DEF BeginEarly, BeginRead, AtPosted, Runs, At
  <2>2. Others(t) /\ ~ At(t, {"asleep"})' /\ t \in live
    BY <1>0, <2>1, BeginTurn, TopParts
  <2>3. UNCHANGED live /\ lock' = t
    BY <2>1 DEF Begin
  <2> QED BY <1>0, <2>2, <2>3, AwakeByTurn
<1>3. CASE ReadNone(t) \/ ReadEnd(t) \/ Elsewhere(t)
  BY <1>3, AwakeByNone
<1>4. CASE ForNobody(t)
  <2>1. PICK e : /\ Considers(t, e)
                 /\ stack' = ReadOn(t, From(Less(e), Top(t).index))
    BY <1>4 DEF ForNobody
  <2>2. UNCHANGED <<live, lock>>
    BY <1>4 DEF ForNobody
  <2>3. At(t, {"read"}) /\ From(Less(e), Top(t).index) \in 1 .. MaxEvents + 1
    BY <2>1, ConsidersParts, OnParts
  <2> QED BY <1>0, <2>1, <2>2, <2>3, AwakeByReading
<1>5. CASE PassOver(t)
  <2>1. PICK e : /\ Considers(t, e)
                 /\ stack' = ReadOn(t, After(e, Top(t).index))
    BY <1>5 DEF PassOver
  <2>2. UNCHANGED <<live, lock>>
    BY <1>5 DEF PassOver
  <2>3. At(t, {"read"}) /\ After(e, Top(t).index) \in 1 .. MaxEvents + 1
    BY <2>1, ConsidersParts, OnParts
  <2> QED BY <1>0, <2>1, <2>2, <2>3, AwakeByReading
<1>6. CASE ReadMouse(t)
  <2>1. PICK e : Considers(t, e) /\ stack' = Call(t, "hit", e)
    BY <1>6 DEF ReadMouse
  <2>2. UNCHANGED <<live, lock>>
    BY <1>6 DEF ReadMouse
  <2>3. At(t, {"read"}) /\ e \in Event /\ "hit" \in Procedures
    BY <2>1, ConsidersParts DEF Procedures
  <2> QED BY <1>0, <2>1, <2>2, <2>3, AwakeByReading
<1>7. CASE ReadKey(t)
  <2>1. PICK e : /\ Considers(t, e)
                 /\ \/ stack' = Call(t, "key", e)
                    \/ stack' = Leave(t)
    BY <1>7 DEF ReadKey, HandOver
  <2>2. UNCHANGED <<live, lock>>
    BY <1>7 DEF ReadKey
  <2>3. At(t, {"read"}) /\ e \in Event /\ "key" \in Procedures
    BY <2>1, ConsidersParts DEF Procedures
  <2> QED BY <1>0, <2>1, <2>2, <2>3, AwakeByReading
<1> QED BY <1>1, <1>2, <1>3, <1>4, <1>5, <1>6, <1>7 DEF Machines

\* A procedure of the look's returns.
LEMMA AwakeByReturn ==
  ASSUME QInv, MaxDepth <= 1, Awake, NEW t \in Task,
         KeyReturn(t) \/ HitReturn(t) \/ AskedReturn(t) \/ ToldReturn(t)
  PROVE  Awake'
<1> DEFINE e == Top(t).one
<1>1. UNCHANGED <<live, lock>>
  BY DEF KeyReturn, HitReturn, AskedReturn, ToldReturn
<1>2. PICK p \in Procedures : Returns(t, p)
  BY DEF KeyReturn, HitReturn, AskedReturn, ToldReturn, Procedures
<1>3. /\ At(t, {p}) /\ e \in Event
      /\ Top(t).index \in 1 .. MaxEvents + 1 /\ Top(t).back \in 1 .. MaxEvents
  BY <1>2, ReturnParts
<1>4. /\ From(Less(e), Top(t).index) \in 1 .. MaxEvents + 1
      /\ From(queue, Top(t).index) \in 1 .. MaxEvents + 1
      /\ After(e, Top(t).index) \in 1 .. MaxEvents + 1
      /\ Queued(e) => Place(e) \in 1 .. MaxEvents
      /\ 1 \in 1 .. MaxEvents + 1 /\ 1 \in 1 .. MaxEvents
  BY <1>3, OnParts
<1>5. Queued(e) => Place(e) \in 1 .. MaxEvents + 1
  BY <1>4, LimitsAssumption
<1>6. \/ \E i \in 1 .. MaxEvents + 1 : stack' = ReadOn(t, i)
      \/ \E q \in Procedures, d \in Event : stack' = Call(t, q, d)
      \/ \E k \in 1 .. MaxEvents, d \in Event :
           stack' = Change(t, Telling(Top(t), d, k))
      \/ stack' = Leave(t)
  <2>1. ASSUME HandOver(t, e) PROVE stack' = Leave(t)
    BY <2>1 DEF HandOver
  <2>2. ASSUME Thrown(t, e)
        PROVE  \E i \in 1 .. MaxEvents + 1 : stack' = ReadOn(t, i)
    BY <1>4, <2>2 DEF Thrown
  <2>3. ASSUME Resolved(t, e), ~ HandOver(t, e)
        PROVE  \E k \in 1 .. MaxEvents, d \in Event :
                 stack' = Change(t, Telling(Top(t), d, k))
    <3> DEFINE k == IF Queued(e) THEN Place(e) ELSE 1
    <3>1. k \in 1 .. MaxEvents
      BY <1>4
    <3>2. stack' = Change(t, Telling(Top(t), e, k))
      BY <2>3 DEF Resolved, Telling
    <3> HIDE DEF k, e
    <3> QED BY <1>3, <3>1, <3>2
  <2>4. CASE KeyReturn(t)
    <3>1. HandOver(t, e) \/ Thrown(t, e)
      BY <2>4 DEF KeyReturn, Thrown
    <3> QED BY <2>1, <2>2, <3>1
  <2>5. CASE AskedReturn(t)
    <3>1. Resolved(t, e) \/ Thrown(t, e)
      BY <2>5 DEF AskedReturn
    <3> QED BY <2>1, <2>2, <2>3, <3>1
  <2>6. CASE HitReturn(t)
    <3>1. \/ stack' = ReadOn(t, 1)
          \/ stack' = ReadOn(t, After(e, Top(t).index))
          \/ stack' = Call(t, "asked", e)
          \/ Resolved(t, e) \/ Thrown(t, e)
      BY <2>6 DEF HitReturn
    <3>2. "asked" \in Procedures
      BY DEF Procedures
    <3> HIDE DEF e
    <3> QED BY <1>3, <1>4, <2>1, <2>2, <2>3, <3>1, <3>2
  <2>7. CASE ToldReturn(t)
    <3> DEFINE i == IF Queued(e) THEN Place(e) ELSE From(queue, Top(t).index)
    <3>1. \/ HandOver(t, e)
          \/ stack' = ReadOn(t, i)
          \/ stack' = Call(t, "hit", e)
      BY <2>7 DEF ToldReturn
    <3>2. "hit" \in Procedures
      BY DEF Procedures
    <3>3. i \in 1 .. MaxEvents + 1
      BY <1>4, <1>5
    <3> HIDE DEF i, e
    <3> QED BY <1>3, <2>1, <3>1, <3>2, <3>3
  <2> QED BY <2>4, <2>5, <2>6, <2>7
<1> QED BY <1>1, <1>3, <1>6, AwakeByReading

\* It is kept that nobody sleeps over input.
LEMMA AwakeKept ==
  ASSUME QInv, NoneEnds, Order, Awake, [Next]_vars
  PROVE  Awake'
<1>0. SeesInput /\ MaxDepth <= 1 /\ live \subseteq Task
  BY DEF NoneEnds, SeesInput, QInv, Plain
<1>1. CASE UNCHANGED vars
  BY <1>1 DEF vars, Awake, NoSleepOverInput, Target, At, Top
<1>2. CASE \E kind \in Kinds, u \in Task \cup {None} : HostInput(kind, u)
  BY <1>0, <1>2, AwakeByHost
<1>3. ASSUME NEW t \in Task, Programs(t) PROVE Awake'
  <2>1. CASE (\E way \in Ways : Look(t, way)) \/ TakeSent(t) \/ SentReturn(t)
    <3>1. Others(t) /\ ~ At(t, {"asleep"})'
      BY <1>0, <2>1, QuietTurn
    <3>2. t \in live
      <4>1. InGuest(t) \/ At(t, {"asleep", "woken", "loop"})
        BY <2>1 DEF Look, TakeSent, SentReturn, Returns
      <4> QED BY <4>1, TopParts DEF InGuest
    <3>3. UNCHANGED live /\ lock' \in {lock, None, t}
      BY <2>1 DEF Look, LetGo, TakeSent, SentReturn
    <3> QED BY <1>0, <3>1, <3>2, <3>3, AwakeByTurn
  <2>2. ASSUME NEW u, Post(t, u) \/ SetFocus(t, u) PROVE Awake'
    <3>1. /\ Woken(stack') /\ UNCHANGED <<live, lock>> /\ t \in live
          /\ ~ At(t, {"asleep"})
      BY <2>2, SignalParts DEF Post, SetFocus, QInv, InGuest, At, Procedures
    <3>2. \A v \in live : At(v, {"asleep"})' => At(v, {"asleep"})
      BY <1>0, <3>1, WokenReads
    <3>3. NoSleepOverInput'
      BY <3>1, <3>2 DEF NoSleepOverInput
    <3> QED BY <3>1, <3>2, <3>3 DEF Awake
  <2>3. ~ End(t)
    BY DEF NoneEnds, End
  <2>4. CASE KeyReturn(t) \/ HitReturn(t) \/ AskedReturn(t) \/ ToldReturn(t)
    BY <1>0, <2>4, AwakeByReturn
  <2> QED BY <1>3, <2>1, <2>2, <2>3, <2>4 DEF Programs
<1> QED BY <1>0, <1>1, <1>2, <1>3, AwakeByMachine DEF Next

\* Every task asleep, none sleeps over an event that is its own
\* (NoSleepOverInput): whoever was turned away from it, or came to it for
\* another, or took the focus, left some task awake that will come to it
\* (system_queue.rs: elsewhere, holds_input; queue.rs: look).
THEOREM InputSeen ==
  ASSUME NoneEnds
  PROVE  Spec => []NoSleepOverInput
<1>1. HookedOnce /\ SeesInput
  BY DEF NoneEnds, SeesInput, HookedOnce
<1>2. Init => Order /\ Awake
  BY DEF Init, Order, Rising, Passed, InOrder, Reads, At, Awake,
         NoSleepOverInput, Range
<1>3. QInv /\ Order /\ [Next]_vars => Order'
  BY <1>1, OrderKept
<1>4. QInv /\ Order /\ Awake /\ [Next]_vars => Awake'
  BY AwakeKept
<1>5. Awake => NoSleepOverInput
  BY DEF Awake
<1> QED BY <1>1, <1>2, <1>3, <1>4, <1>5, QueueInvariant, PTL DEF Spec
=============================================================================
