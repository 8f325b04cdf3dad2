--------------------------- MODULE TaskListProofs ---------------------------
(* The list of tasks stays in order, and its state of its type, for any      *)
(* handles, any number of tasks and whatever is added to a priority.         *)
EXTENDS TaskList, SequenceLemmas

-----------------------------------------------------------------------------
(* The list in order.                                                      *)

\* Nothing is twice in a list, and what lives is by priority.
InOrder(l, live, rec) ==
  \A i, j \in DOMAIN l :
    i < j => /\ l[i] # l[j]
             /\ l[i] \in live /\ l[j] \in live
                  => rec[l[i]].priority <= rec[l[j]].priority

Holds(l, live) == \A h \in live : \E i \in DOMAIN l : l[i] = h

\* What a record holds.
LEMMA Fields ==
  ASSUME NEW rec \in [Handle -> Record], NEW h \in Handle
  PROVE  /\ rec[h] \in Record
         /\ rec[h].priority \in Priority
         /\ rec[h].priority \in Int
         /\ rec[h].events \in Events
<1>1. rec[h] \in Record
  OBVIOUS
<1>2. ASSUME NEW r \in Record
      PROVE  r.priority \in Priority /\ r.events \in Events
  BY DEF Record
<1>3. ASSUME NEW q \in Priority PROVE q \in Int
  BY DEF Priority
<1> QED BY <1>1, <1>2, <1>3

\* Every handle has a place to go.
LEMMA GoesSome ==
  ASSUME NEW l \in Seq(Handle), NEW p \in Int, NEW live,
         NEW rec \in [Handle -> Record]
  PROVE  \E i \in 1 .. Len(l) + 1 : Goes(l, i, p, live, rec)
<1> DEFINE T == {i \in 1 .. Len(l) + 1 :
                   i <= Len(l) => l[i] \in live /\ rec[l[i]].priority >= p}
<1>1. Len(l) \in Nat /\ DOMAIN l = 1 .. Len(l)
  OBVIOUS
<1>2. T \subseteq Nat /\ Len(l) + 1 \in T
  BY <1>1
<1>3. PICK n \in T : \A k \in T : n <= k
  BY <1>2, Least
<1>4. n \in 1 .. Len(l) + 1
  OBVIOUS
<1>5. n <= Len(l) => l[n] \in live /\ rec[l[n]].priority >= p
  OBVIOUS
<1>6. ASSUME NEW j \in 1 .. n - 1, l[j] \in live
      PROVE  rec[l[j]].priority < p
  <2>1. j \in 1 .. Len(l) /\ j < n
    BY <1>1, <1>4
  <2>2. j \notin T
    BY <1>3, <1>4, <2>1
  <2>3. j \in 1 .. Len(l) + 1 /\ j <= Len(l)
    BY <1>1, <2>1
  <2>4. ~(l[j] \in live /\ rec[l[j]].priority >= p)
    BY <2>2, <2>3, Zenon
  <2>5. l[j] \in Handle
    BY <1>1, <2>1
  <2>6. rec[l[j]].priority \in Int
    BY <2>5, Fields
  <2> QED BY <1>6, <2>4, <2>6
<1> QED BY <1>4, <1>5, <1>6 DEF Goes

\* A list in order, a handle taken out: the rest in order, and there.
LEMMA ApartKeeps ==
  ASSUME NEW l \in Seq(Handle), NEW h, NEW live,
         NEW rec, InOrder(l, live, rec), Holds(l, live)
  PROVE  /\ Apart(l, h) \in Seq(Handle)
         /\ \A i \in 1 .. Len(Apart(l, h)) : Apart(l, h)[i] # h
         /\ InOrder(Apart(l, h), live, rec)
         /\ Holds(Apart(l, h), live \ {h})
<1>1. Len(l) \in Nat /\ DOMAIN l = 1 .. Len(l)
  OBVIOUS
<1>2. CASE ~Contains(l, h)
  <2>1. Apart(l, h) = l
    BY <1>2 DEF Apart
  <2>2. Holds(l, live \ {h})
    BY DEF Holds
  <2>3. \A i \in 1 .. Len(l) : l[i] # h
    BY <1>2 DEF Contains
  <2> QED BY <2>1, <2>2, <2>3
<1>3. CASE Contains(l, h)
  <2> DEFINE k == CHOOSE i \in DOMAIN l : l[i] = h
             r == RemoveAt(l, k)
  <2>1. k \in 1 .. Len(l) /\ l[k] = h
    BY <1>1, <1>3 DEF Contains
  <2>2. Apart(l, h) = r
    BY <1>3 DEF Apart
  <2> HIDE DEF k
  <2>3. /\ r \in Seq(Handle)
        /\ Len(r) = Len(l) - 1
        /\ \A j \in 1 .. k - 1 : r[j] = l[j]
        /\ \A j \in k .. Len(l) - 1 : r[j] = l[j + 1]
    BY <2>1, RemoveAtParts
  <2> HIDE DEF r
  <2>4. DOMAIN r = 1 .. Len(l) - 1
    BY <1>1, <2>3
  <2> DEFINE at(j) == IF j < k THEN j ELSE j + 1
  <2>5. \A j \in 1 .. Len(l) - 1 :
          at(j) \in 1 .. Len(l) /\ at(j) # k /\ r[j] = l[at(j)]
    BY <1>1, <2>1, <2>3
  <2>6. \A i, j \in 1 .. Len(l) - 1 : i < j => at(i) < at(j)
    BY <1>1, <2>1
  <2>7. ASSUME NEW i \in 1 .. Len(l), i # k PROVE l[i] # h
    BY <1>1, <2>1, <2>7 DEF InOrder
  <2>8. \A j \in 1 .. Len(l) - 1 : r[j] # h
    BY <2>5, <2>7
  <2>9. InOrder(r, live, rec)
    <3> SUFFICES ASSUME NEW i \in DOMAIN r, NEW j \in DOMAIN r, i < j
                 PROVE  /\ r[i] # r[j]
                        /\ r[i] \in live /\ r[j] \in live
                             => rec[r[i]].priority <= rec[r[j]].priority
      BY DEF InOrder
    <3>1. /\ at(i) \in DOMAIN l /\ at(j) \in DOMAIN l /\ at(i) < at(j)
          /\ r[i] = l[at(i)] /\ r[j] = l[at(j)]
      BY <1>1, <2>4, <2>5, <2>6
    <3> HIDE DEF at
    <3> QED BY <3>1 DEF InOrder
  <2>10. Holds(r, live \ {h})
    <3> SUFFICES ASSUME NEW g \in live \ {h} PROVE \E j \in DOMAIN r : r[j] = g
      BY DEF Holds
    <3>1. PICK i \in DOMAIN l : l[i] = g
      BY DEF Holds
    <3>2. i \in 1 .. Len(l) /\ i # k
      BY <1>1, <2>1, <3>1
    <3>3. CASE i < k
      BY <1>1, <2>1, <2>3, <2>4, <3>1, <3>2, <3>3
    <3>4. CASE i > k
      <4>1. i - 1 \in k .. Len(l) - 1 /\ (i - 1) + 1 = i
        BY <1>1, <2>1, <3>2, <3>4
      <4>2. r[i - 1] = l[i]
        BY <2>3, <4>1
      <4> QED BY <1>1, <2>1, <2>4, <3>1, <4>1, <4>2
    <3> QED BY <2>1, <3>2, <3>3, <3>4
  <2> QED BY <2>2, <2>3, <2>4, <2>8, <2>9, <2>10
<1> QED BY <1>2, <1>3

\* A handle put in by its priority, or after the others of it.
LEMMA InsertOrdered ==
  ASSUME NEW l \in Seq(Handle), NEW h \in Handle,
         NEW live,
         NEW rec \in [Handle -> Record],
         InOrder(l, live \ {h}, rec), Holds(l, live \ {h}),
         NEW p, p \in {rec[h].priority, rec[h].priority + 1}
  PROVE  /\ Insert(l, h, p, live, rec) \in Seq(Handle)
         /\ InOrder(Insert(l, h, p, live, rec), live \cup {h}, rec)
         /\ Holds(Insert(l, h, p, live, rec), live \cup {h})
<1> DEFINE r == Apart(l, h)
           n == CHOOSE i \in 1 .. Len(r) + 1 : Goes(r, i, p, live, rec)
           m == InsertAt(r, n, h)
<1>1. \A g \in Handle : rec[g].priority \in Int
  BY Fields
<1>2. p \in Int /\ p >= rec[h].priority /\ p <= rec[h].priority + 1
  BY <1>1
<1>3. /\ r \in Seq(Handle)
      /\ \A i \in 1 .. Len(r) : r[i] # h
      /\ InOrder(r, live \ {h}, rec)
      /\ Holds(r, live \ {h})
  <2>1. (live \ {h}) \ {h} = live \ {h}
    OBVIOUS
  <2> QED BY <2>1, ApartKeeps
<1>4. Insert(l, h, p, live, rec) = m
  BY DEF Insert
<1> HIDE DEF r
<1>5. n \in 1 .. Len(r) + 1 /\ Goes(r, n, p, live, rec)
  <2>1. \E i \in 1 .. Len(r) + 1 : Goes(r, i, p, live, rec)
    BY <1>2, <1>3, GoesSome
  <2> QED BY <2>1, Zenon
<1> HIDE DEF n
<1>6. /\ m \in Seq(Handle)
      /\ Len(m) = Len(r) + 1
      /\ \A j \in 1 .. n - 1 : m[j] = r[j]
      /\ m[n] = h
      /\ \A j \in n + 1 .. Len(r) + 1 : m[j] = r[j - 1]
  BY <1>3, <1>5, InsertAtParts
<1> HIDE DEF m
<1>7. /\ Len(r) \in Nat /\ DOMAIN r = 1 .. Len(r)
      /\ DOMAIN m = 1 .. Len(r) + 1
      /\ \A i \in 1 .. Len(r) : r[i] \in Handle
  BY <1>3, <1>6
\* Before the place priorities are less than p, and after it no less.
<1>8. ASSUME NEW j \in 1 .. n - 1, r[j] \in live
      PROVE  rec[r[j]].priority <= rec[h].priority
  <2>1. j \in 1 .. Len(r)
    BY <1>5, <1>7
  <2>2. rec[r[j]].priority < p
    BY <1>8 , <1>5 DEF Goes
  <2> QED BY <1>1, <1>2, <1>7, <2>1, <2>2
<1>9. ASSUME NEW j \in n .. Len(r), r[j] \in live
      PROVE  rec[h].priority <= rec[r[j]].priority
  <2>1. n \in 1 .. Len(r) /\ j \in 1 .. Len(r) /\ n <= j
    BY <1>5, <1>7
  <2>2. r[n] \in live /\ rec[r[n]].priority >= p
    BY <1>5, <1>7, <2>1 DEF Goes
  <2>3. rec[r[n]].priority <= rec[r[j]].priority
    <3>1. CASE n = j
      BY <1>1, <1>7, <2>1, <3>1
    <3>2. CASE n < j
      <4>1. r[n] \in live \ {h} /\ r[j] \in live \ {h}
        BY <1>3, <1>9, <2>1, <2>2
      <4> QED BY <1>3, <1>7, <2>1, <3>2, <4>1 DEF InOrder
    <3> QED BY <2>1, <3>1, <3>2
  <2> QED BY <1>1, <1>2, <1>7, <2>1, <2>2, <2>3
\* Where each of the rest has gone.
<1> DEFINE at(j) == IF j < n THEN j ELSE j - 1
<1>10. \A j \in 1 .. Len(r) + 1 : j # n =>
         /\ at(j) \in 1 .. Len(r) /\ m[j] = r[at(j)]
         /\ j < n => at(j) \in 1 .. n - 1
         /\ j > n => at(j) \in n .. Len(r)
  BY <1>5, <1>6, <1>7
<1>11. \A i, j \in 1 .. Len(r) + 1 : i < j /\ i # n /\ j # n => at(i) < at(j)
  BY <1>5, <1>7
<1> HIDE DEF at
<1>12. InOrder(m, live \cup {h}, rec)
  <2> SUFFICES ASSUME NEW i \in 1 .. Len(r) + 1, NEW j \in 1 .. Len(r) + 1, i < j
               PROVE  /\ m[i] # m[j]
                      /\ m[i] \in live \cup {h} /\ m[j] \in live \cup {h}
                           => rec[m[i]].priority <= rec[m[j]].priority
    BY <1>7 DEF InOrder
  <2>1. CASE i = n
    <3>1. j > n /\ j # n
      BY <1>5, <1>7, <2>1
    <3>2. at(j) \in n .. Len(r) /\ at(j) \in 1 .. Len(r) /\ m[j] = r[at(j)]
      BY <1>10, <3>1
    <3> QED BY <1>3, <1>6, <1>9, <2>1, <3>2
  <2>2. CASE j = n
    <3>1. i < n /\ i # n
      BY <1>5, <1>7, <2>2
    <3>2. at(i) \in 1 .. n - 1 /\ at(i) \in 1 .. Len(r) /\ m[i] = r[at(i)]
      BY <1>10, <3>1
    <3> QED BY <1>3, <1>6, <1>8, <2>2, <3>2
  <2>3. CASE i # n /\ j # n
    <3>1. /\ at(i) \in DOMAIN r /\ at(j) \in DOMAIN r /\ at(i) < at(j)
          /\ m[i] = r[at(i)] /\ m[j] = r[at(j)]
      BY <1>7, <1>10, <1>11, <2>3
    <3>2. r[at(i)] # h /\ r[at(j)] # h
      BY <1>3, <1>7, <3>1
    <3> QED BY <1>3, <3>1, <3>2 DEF InOrder
  <2> QED BY <2>1, <2>2, <2>3
<1>13. Holds(m, live \cup {h})
  <2> SUFFICES ASSUME NEW g \in live \cup {h} PROVE \E j \in DOMAIN m : m[j] = g
    BY DEF Holds
  <2>1. CASE g = h
    BY <1>5, <1>6, <1>7, <2>1
  <2>2. CASE g # h
    <3>1. PICK i \in 1 .. Len(r) : r[i] = g
      BY <1>3, <1>7, <2>2 DEF Holds
    <3>2. CASE i < n
      <4>1. i \in 1 .. n - 1 /\ i \in DOMAIN m
        BY <1>5, <1>7, <3>2
      <4> QED BY <1>6, <3>1, <4>1
    <3>3. CASE i >= n
      <4>1. i + 1 \in n + 1 .. Len(r) + 1 /\ (i + 1) - 1 = i /\ i + 1 \in DOMAIN m
        BY <1>5, <1>7, <3>3
      <4>2. m[i + 1] = r[i]
        BY <1>6, <4>1
      <4> QED BY <3>1, <4>1, <4>2
    <3> QED BY <1>5, <1>7, <3>2, <3>3
  <2> QED BY <2>1, <2>2
<1> QED BY <1>4, <1>6, <1>12, <1>13

-----------------------------------------------------------------------------
(* The tasks.                                                              *)

\* The tasks with handles of their own, and one with the processor at most.
SlotsOK(ss) ==
  /\ ss \in Seq(Slots)
  /\ \A s, u \in LiveIn(ss) :
       s # u => /\ ss[s].handle # ss[u].handle
                /\ ~(ss[s].state = "running" /\ ss[u].state = "running")
  /\ \A s \in DOMAIN ss : ss[s].on \in {0} \cup DOMAIN ss

\* A task that waits for a live one's event is down for it, and there is none.
WaitsKept(ss, rec, ws) ==
  \A s \in DOMAIN ss :
    LET t == ss[s].on
    IN ss[s].state = "waiting" /\ t # 0 /\ t \in LiveIn(ss)
         => <<ss[t].handle, s>> \in ws /\ rec[ss[t].handle].events = 0

LastRan == {<<>>} \cup {<<h>> : h \in Handle}

\* The inductive invariant.
ListInv ==
  /\ SlotsOK(slots)
  /\ order \in Seq(Handle)
  /\ records \in [Handle -> Record]
  /\ lastRan \in LastRan
  /\ waiters \subseteq Handle \X DOMAIN slots
  /\ InOrder(order, HandlesIn(slots), records)
  /\ Holds(order, HandlesIn(slots))
  /\ WaitsKept(slots, records, waiters)

LEMMA InvProperties ==
  ASSUME ListInv
  PROVE  ListTypeOK /\ ListOrdered /\ NoSleepOverEvent
<1>1. ListTypeOK
  BY DEF ListInv, ListTypeOK, SlotsOK, LastRan
<1>2. ListOrdered
  BY DEF ListInv, ListOrdered, InOrder, Holds
<1>3. NoSleepOverEvent
  BY DEF ListInv, NoSleepOverEvent, WaitsKept
<1> QED BY <1>1, <1>2, <1>3

\* What a slot holds.
LEMMA SlotFields ==
  ASSUME NEW ss, SlotsOK(ss), NEW s \in DOMAIN ss
  PROVE  /\ DOMAIN ss = 1 .. Len(ss) /\ Len(ss) \in Nat
         /\ ss[s] \in Slots
         /\ ss[s].handle \in Handle
         /\ ss[s].state \in {"ready", "running", "waiting", "ended"}
         /\ ss[s].on \in {0} \cup DOMAIN ss
         /\ HandlesIn(ss) \subseteq Handle
<1>1. ss \in Seq(Slots)
  BY DEF SlotsOK
<1>2. /\ DOMAIN ss = 1 .. Len(ss) /\ Len(ss) \in Nat
      /\ \A u \in DOMAIN ss : ss[u] \in Slots
  BY <1>1
<1>3. ASSUME NEW r \in Slots
      PROVE  /\ r.handle \in Handle
             /\ r.state \in {"ready", "running", "waiting", "ended"}
  BY DEF Slots
<1>4. HandlesIn(ss) \subseteq Handle
  BY <1>2, <1>3 DEF HandlesIn, LiveIn
<1> QED BY <1>2, <1>3, <1>4 DEF SlotsOK

\* A live task's slot in another state.
SetTo(ss, s, state, on) ==
  [ss EXCEPT ![s] = [handle |-> ss[s].handle, state |-> state, on |-> on]]

States == {"ready", "running", "waiting", "ended"}

\* It is given no processor another has.
MayChange(ss, s, state, on) ==
  /\ SlotsOK(ss) /\ s \in LiveIn(ss)
  /\ state \in States /\ on \in {0} \cup DOMAIN ss
  /\ state = "running" => \A u \in DOMAIN ss : u # s => ss[u].state # "running"

ChangedTo(ss, s, state, on, tt) ==
  /\ SlotsOK(tt)
  /\ DOMAIN tt = DOMAIN ss
  /\ tt[s].handle = ss[s].handle /\ tt[s].state = state /\ tt[s].on = on
  /\ \A u \in DOMAIN ss : u # s => tt[u] = ss[u]
  /\ HandlesIn(tt) \subseteq HandlesIn(ss)
  /\ state # "ended"
       => HandlesIn(tt) = HandlesIn(ss) /\ LiveIn(tt) = LiveIn(ss)
  /\ LiveIn(tt) \subseteq LiveIn(ss)

\* The others are as they were.
LEMMA Changed ==
  ASSUME NEW ss, NEW s, NEW state, NEW on, MayChange(ss, s, state, on)
  PROVE  ChangedTo(ss, s, state, on, SetTo(ss, s, state, on))
<1> USE DEF States
<1> DEFINE tt == SetTo(ss, s, state, on)
<1>0. /\ SlotsOK(ss) /\ s \in LiveIn(ss)
      /\ state \in States /\ on \in {0} \cup DOMAIN ss
      /\ state = "running" => \A u \in DOMAIN ss : u # s => ss[u].state # "running"
  BY DEF MayChange
<1> DEFINE r == [handle |-> ss[s].handle, state |-> state, on |-> on]
<1>1. /\ ss \in Seq(Slots) /\ DOMAIN ss = 1 .. Len(ss) /\ Len(ss) \in Nat
      /\ s \in DOMAIN ss /\ ss[s].state # "ended"
      /\ ss[s].handle \in Handle
  BY <1>0, SlotFields DEF SlotsOK, LiveIn
<1>2. r \in Slots
  BY <1>0, <1>1 DEF Slots
<1>3. r.handle = ss[s].handle /\ r.state = state /\ r.on = on
  OBVIOUS
<1> HIDE DEF r
<1>4. tt = [ss EXCEPT ![s] = r]
  BY DEF r, SetTo
<1> HIDE DEF tt
<1>5. /\ tt \in Seq(Slots) /\ DOMAIN tt = DOMAIN ss
      /\ tt[s] = r /\ \A u \in DOMAIN ss : u # s => tt[u] = ss[u]
  BY <1>1, <1>2, <1>4
<1>6. /\ \A u \in DOMAIN ss : tt[u].handle = ss[u].handle
      /\ \A u \in DOMAIN ss : u # s => tt[u].state = ss[u].state /\ tt[u].on = ss[u].on
  BY <1>3, <1>5
<1>7. LiveIn(tt) \subseteq LiveIn(ss)
  BY <1>1, <1>3, <1>5, <1>6 DEF LiveIn
<1>8. state # "ended" => LiveIn(tt) = LiveIn(ss)
  BY <1>1, <1>3, <1>5, <1>6 DEF LiveIn
<1>9. HandlesIn(tt) \subseteq HandlesIn(ss)
  BY <1>5, <1>6, <1>7 DEF HandlesIn, LiveIn
<1>10. LiveIn(tt) = LiveIn(ss) => HandlesIn(tt) = HandlesIn(ss)
  BY <1>5, <1>6 DEF HandlesIn, LiveIn
<1>11. \A v, u \in LiveIn(tt) :
         v # u => /\ tt[v].handle # tt[u].handle
                  /\ ~(tt[v].state = "running" /\ tt[u].state = "running")
  BY <1>0, <1>3, <1>5, <1>6, <1>7 DEF SlotsOK, LiveIn
<1>12. \A u \in DOMAIN tt : tt[u].on \in {0} \cup DOMAIN tt
  BY <1>0, <1>3, <1>5, <1>6 DEF SlotsOK
<1>13. SlotsOK(tt)
  BY <1>5, <1>11, <1>12 DEF SlotsOK
<1> QED BY <1>1, <1>3, <1>5, <1>7, <1>8, <1>9, <1>10, <1>13 DEF ChangedTo, tt

StateTo(ss, s, state) == [ss EXCEPT ![s].state = state]
Woken(ss, s) == [ss EXCEPT ![s].on = 0]
WaitOn(ss, s, t) == [ss EXCEPT ![s].state = "waiting", ![s].on = t]

\* The ways the actions say it.
LEMMA Forms ==
  ASSUME NEW ss, SlotsOK(ss), NEW s \in DOMAIN ss
  PROVE  /\ \A state \in States :
              StateTo(ss, s, state) = SetTo(ss, s, state, ss[s].on)
         /\ Woken(ss, s) = SetTo(ss, s, ss[s].state, 0)
         /\ \A t \in DOMAIN ss : WaitOn(ss, s, t) = SetTo(ss, s, "waiting", t)
<1>1. ss \in Seq(Slots) /\ ss[s] \in Slots
  BY SlotFields DEF SlotsOK
<1>2. ASSUME NEW state \in States
      PROVE  StateTo(ss, s, state) = SetTo(ss, s, state, ss[s].on)
  <2>1. ASSUME NEW r \in Slots
        PROVE  [r EXCEPT !.state = state]
                 = [handle |-> r.handle, state |-> state, on |-> r.on]
    BY DEF Slots
  <2> QED BY <1>1, <2>1 DEF StateTo, SetTo
<1>3. Woken(ss, s) = SetTo(ss, s, ss[s].state, 0)
  <2>1. ASSUME NEW r \in Slots
        PROVE  [r EXCEPT !.on = 0]
                 = [handle |-> r.handle, state |-> r.state, on |-> 0]
    BY DEF Slots
  <2> QED BY <1>1, <2>1 DEF Woken, SetTo
<1>4. ASSUME NEW t \in DOMAIN ss
      PROVE  WaitOn(ss, s, t) = SetTo(ss, s, "waiting", t)
  <2>1. ASSUME NEW r \in Slots
        PROVE  [r EXCEPT !.state = "waiting"]
                 = [handle |-> r.handle, state |-> "waiting", on |-> r.on]
    BY DEF Slots
  <2>2. ASSUME NEW r \in Slots
        PROVE  [[handle |-> r.handle, state |-> "waiting", on |-> r.on] EXCEPT !.on = t]
                 = [handle |-> r.handle, state |-> "waiting", on |-> t]
    OBVIOUS
  <2>3. WaitOn(ss, s, t)
          = [ss EXCEPT ![s] = [[ss[s] EXCEPT !.state = "waiting"] EXCEPT !.on = t]]
    BY <1>1 DEF WaitOn
  <2> QED BY <1>1, <2>1, <2>2, <2>3 DEF SetTo
<1> QED BY <1>2, <1>3, <1>4

\* The processor handed on: nobody's wait begins, and the list stays in order.
LEMMA HandsOn ==
  ASSUME NEW ss, SlotsOK(ss),
         NEW l \in Seq(Handle), NEW rec \in [Handle -> Record], NEW ws,
         InOrder(l, HandlesIn(ss), rec), Holds(l, HandlesIn(ss)),
         WaitsKept(ss, rec, ws), lastRan \in LastRan,
         HandOn(ss, l, rec)
  PROVE  /\ SlotsOK(slots') /\ DOMAIN slots' = DOMAIN ss
         /\ order' \in Seq(Handle) /\ lastRan' \in LastRan
         /\ InOrder(order', HandlesIn(slots'), rec)
         /\ Holds(order', HandlesIn(slots'))
         /\ WaitsKept(slots', rec, ws)
<1>1. CASE slots' = ss /\ order' = l /\ UNCHANGED lastRan
  BY <1>1
<1>2. ASSUME NEW s \in DOMAIN ss, ss[s].state = "ready",
             \A u \in DOMAIN ss : ss[u].state # "running",
             slots' = [ss EXCEPT ![s].state = "running"],
             order' = Ran(l, ss[s].handle, HandlesIn(ss), rec),
             lastRan' = <<ss[s].handle>>
      PROVE  /\ SlotsOK(slots') /\ DOMAIN slots' = DOMAIN ss
             /\ order' \in Seq(Handle) /\ lastRan' \in LastRan
             /\ InOrder(order', HandlesIn(slots'), rec)
             /\ Holds(order', HandlesIn(slots'))
             /\ WaitsKept(slots', rec, ws)
  <2> DEFINE h == ss[s].handle
  <2>1. h \in Handle /\ ss[s].on \in {0} \cup DOMAIN ss
    BY SlotFields
  <2>2. slots' = SetTo(ss, s, "running", ss[s].on)
    <3>1. slots' = StateTo(ss, s, "running") /\ "running" \in States
      BY <1>2 DEF StateTo, States
    <3> QED BY <3>1, Forms
  <2>3. /\ SlotsOK(slots') /\ DOMAIN slots' = DOMAIN ss
        /\ slots'[s].handle = h /\ slots'[s].state = "running"
        /\ \A u \in DOMAIN ss : u # s => slots'[u] = ss[u]
        /\ HandlesIn(slots') = HandlesIn(ss) /\ LiveIn(slots') = LiveIn(ss)
    <3>1. MayChange(ss, s, "running", ss[s].on)
      BY <1>2, <2>1 DEF MayChange, LiveIn, States
    <3>2. ChangedTo(ss, s, "running", ss[s].on, slots')
      BY <2>2, <3>1, Changed
    <3> QED BY <3>2 DEF ChangedTo
  <2>4. h \in HandlesIn(ss)
    BY <1>2 DEF HandlesIn, LiveIn
  <2>5. lastRan' \in LastRan
    BY <1>2, <2>1 DEF LastRan
  <2>6. /\ order' \in Seq(Handle)
        /\ InOrder(order', HandlesIn(ss), rec)
        /\ Holds(order', HandlesIn(ss))
    <3>1. CASE lastRan = <<h>>
      BY <1>2, <3>1 DEF Ran
    <3>2. CASE lastRan # <<h>>
      <4>1. order' = Insert(l, h, rec[h].priority + 1, HandlesIn(ss), rec)
        BY <1>2, <3>2 DEF Ran
      <4>2. /\ InOrder(l, HandlesIn(ss) \ {h}, rec)
            /\ Holds(l, HandlesIn(ss) \ {h})
        BY DEF InOrder, Holds
      <4> DEFINE live == HandlesIn(ss)
      <4>3. live \cup {h} = live
        BY <2>4
      <4> HIDE DEF h, live
      <4>4. /\ Insert(l, h, rec[h].priority + 1, live, rec) \in Seq(Handle)
            /\ InOrder(Insert(l, h, rec[h].priority + 1, live, rec), live \cup {h}, rec)
            /\ Holds(Insert(l, h, rec[h].priority + 1, live, rec), live \cup {h})
        BY <2>1, <4>2, InsertOrdered DEF live
      <4> QED BY <4>1, <4>3, <4>4 DEF live
    <3> QED BY <3>1, <3>2
  <2>7. WaitsKept(slots', rec, ws)
    <3> SUFFICES ASSUME NEW u \in DOMAIN ss, NEW t, t = slots'[u].on,
                        slots'[u].state = "waiting", t # 0,
                        t \in LiveIn(slots')
                 PROVE  /\ <<slots'[t].handle, u>> \in ws
                        /\ rec[slots'[t].handle].events = 0
      BY <2>3 DEF WaitsKept
    <3>1. u # s /\ slots'[u] = ss[u] /\ t \in LiveIn(ss)
      BY <2>3
    <3>2. slots'[t].handle = ss[t].handle
      BY <2>3, <3>1 DEF LiveIn
    <3>3. ss[u].state = "waiting" /\ t = ss[u].on
      BY <3>1
    <3>4. <<ss[t].handle, u>> \in ws /\ rec[ss[t].handle].events = 0
      BY <3>1, <3>3 DEF WaitsKept
    <3> QED BY <3>2, <3>4
  <2> QED BY <2>3, <2>5, <2>6, <2>7
<1> QED BY <1>1, <1>2 DEF HandOn

\* A list kept for fewer live tasks, or for records of the same priorities.
LEMMA Fewer ==
  ASSUME NEW l, NEW live, NEW rec, InOrder(l, live, rec), Holds(l, live),
         NEW few, few \subseteq live,
         NEW new, \A k \in few : new[k].priority = rec[k].priority
  PROVE  InOrder(l, few, new) /\ Holds(l, few)
<1>1. InOrder(l, few, new)
  <2> SUFFICES ASSUME NEW i \in DOMAIN l, NEW j \in DOMAIN l, i < j
               PROVE  /\ l[i] # l[j]
                      /\ l[i] \in few /\ l[j] \in few
                           => new[l[i]].priority <= new[l[j]].priority
    BY DEF InOrder
  <2>1. /\ l[i] # l[j]
        /\ l[i] \in live /\ l[j] \in live
             => rec[l[i]].priority <= rec[l[j]].priority
    BY DEF InOrder
  <2> QED BY <2>1
<1>2. Holds(l, few)
  BY DEF Holds
<1> QED BY <1>1, <1>2

\* A wait that is no longer is kept, and one that is new with its event put down.
LEMMA WaitsChanged ==
  ASSUME NEW ss, NEW s, NEW state, NEW on, MayChange(ss, s, state, on),
         NEW tt, ChangedTo(ss, s, state, on, tt),
         NEW rec, NEW ws, WaitsKept(ss, rec, ws),
         NEW more, ws \subseteq more,
         state = "waiting" /\ on # 0
           => <<ss[on].handle, s>> \in more /\ rec[ss[on].handle].events = 0
  PROVE  WaitsKept(tt, rec, more)
<1>1. /\ DOMAIN tt = DOMAIN ss /\ LiveIn(tt) \subseteq LiveIn(ss)
      /\ tt[s].handle = ss[s].handle /\ tt[s].state = state /\ tt[s].on = on
      /\ \A u \in DOMAIN ss : u # s => tt[u] = ss[u]
  BY DEF ChangedTo
<1> SUFFICES ASSUME NEW u \in DOMAIN ss, NEW t, t = tt[u].on,
                    tt[u].state = "waiting", t # 0, t \in LiveIn(tt)
             PROVE  <<tt[t].handle, u>> \in more /\ rec[tt[t].handle].events = 0
  BY <1>1 DEF WaitsKept
<1>2. t \in LiveIn(ss) /\ tt[t].handle = ss[t].handle
  BY <1>1 DEF LiveIn
<1>3. CASE u = s
  BY <1>1, <1>2, <1>3
<1>4. CASE u # s
  <2>1. ss[u].state = "waiting" /\ t = ss[u].on
    BY <1>1, <1>4
  <2>2. <<ss[t].handle, u>> \in ws /\ rec[ss[t].handle].events = 0
    BY <1>2, <2>1 DEF WaitsKept
  <2> QED BY <1>2, <2>2
<1> QED BY <1>3, <1>4

\* A wait that is over leaves the others.
LEMMA WaitsLess ==
  ASSUME NEW ss, NEW s, NEW state, NEW on, MayChange(ss, s, state, on),
         state # "waiting",
         NEW tt, ChangedTo(ss, s, state, on, tt),
         NEW rec, NEW ws, WaitsKept(ss, rec, ws)
  PROVE  WaitsKept(tt, rec, ws)
<1> DEFINE more == ws
<1>1. /\ ws \subseteq more
      /\ state = "waiting" /\ on # 0
           => <<ss[on].handle, s>> \in more /\ rec[ss[on].handle].events = 0
  OBVIOUS
<1> HIDE DEF more
<1>2. WaitsKept(tt, rec, more)
  BY <1>1, WaitsChanged
<1> QED BY <1>2 DEF more

\* One task in another state, and the processor handed on.
LEMMA Switched ==
  ASSUME ListInv,
         NEW s, NEW state, NEW on, MayChange(slots, s, state, on),
         HandOn(SetTo(slots, s, state, on), order, records),
         UNCHANGED records,
         waiters \subseteq waiters', waiters' \subseteq Handle \X DOMAIN slots,
         state = "waiting" /\ on # 0
           => /\ <<slots[on].handle, s>> \in waiters'
              /\ records[slots[on].handle].events = 0
  PROVE  ListInv'
<1> DEFINE tt == SetTo(slots, s, state, on)
<1>1. ChangedTo(slots, s, state, on, tt)
  BY Changed
<1>2. HandOn(tt, order, records)
  OBVIOUS
<1> HIDE DEF tt
<1>3. /\ SlotsOK(tt) /\ DOMAIN tt = DOMAIN slots
      /\ HandlesIn(tt) \subseteq HandlesIn(slots)
  BY <1>1 DEF ChangedTo
<1>4. /\ order \in Seq(Handle) /\ records \in [Handle -> Record]
      /\ lastRan \in LastRan
      /\ InOrder(order, HandlesIn(slots), records)
      /\ Holds(order, HandlesIn(slots))
      /\ WaitsKept(slots, records, waiters)
  BY DEF ListInv
<1>5. InOrder(order, HandlesIn(tt), records) /\ Holds(order, HandlesIn(tt))
  BY <1>3, <1>4, Fewer
<1>6. WaitsKept(tt, records, waiters')
  BY <1>1, <1>4, WaitsChanged
<1>7. /\ SlotsOK(slots') /\ DOMAIN slots' = DOMAIN tt
      /\ order' \in Seq(Handle) /\ lastRan' \in LastRan
      /\ InOrder(order', HandlesIn(slots'), records)
      /\ Holds(order', HandlesIn(slots'))
      /\ WaitsKept(slots', records, waiters')
  BY <1>2, <1>3, <1>4, <1>5, <1>6, HandsOn
<1>8. /\ (SlotsOK(slots))' <=> SlotsOK(slots')
      /\ (LastRan)' = LastRan
  BY DEF SlotsOK, LiveIn, LastRan, Slots
<1>9. /\ (InOrder(order, HandlesIn(slots), records))'
           <=> InOrder(order', HandlesIn(slots'), records')
      /\ (Holds(order, HandlesIn(slots)))' <=> Holds(order', HandlesIn(slots'))
      /\ (WaitsKept(slots, records, waiters))'
           <=> WaitsKept(slots', records', waiters')
  BY DEF InOrder, Holds, WaitsKept, HandlesIn, LiveIn
<1> QED BY <1>3, <1>4, <1>7 DEF ListInv

-----------------------------------------------------------------------------
(* The actions.                                                            *)

\* Nothing said of a state is said of the next otherwise than with its values.
LEMMA Primed ==
  ASSUME SlotsOK(slots'), order' \in Seq(Handle),
         records' \in [Handle -> Record], lastRan' \in LastRan,
         waiters' \subseteq Handle \X DOMAIN slots',
         InOrder(order', HandlesIn(slots'), records'),
         Holds(order', HandlesIn(slots')),
         WaitsKept(slots', records', waiters')
  PROVE  ListInv'
<1>1. /\ (SlotsOK(slots))' <=> SlotsOK(slots')
      /\ (LastRan)' = LastRan
  BY DEF SlotsOK, LiveIn, LastRan, Slots
<1>2. /\ (InOrder(order, HandlesIn(slots), records))'
           <=> InOrder(order', HandlesIn(slots'), records')
      /\ (Holds(order, HandlesIn(slots)))' <=> Holds(order', HandlesIn(slots'))
      /\ (WaitsKept(slots, records, waiters))'
           <=> WaitsKept(slots', records', waiters')
  BY DEF InOrder, Holds, WaitsKept, HandlesIn, LiveIn
<1> QED BY <1>1, <1>2 DEF ListInv

LEMMA GiveUpKeeps ==
  ASSUME ListInv, NEW s \in DOMAIN slots, GiveUp(s)
  PROVE  ListInv'
<1>1. s \in LiveIn(slots) /\ SlotsOK(slots)
  BY DEF GiveUp, InProgram, Runs, LiveIn, ListInv
<1>2. slots[s].on \in {0} \cup DOMAIN slots
  BY <1>1, SlotFields
<1>3. MayChange(slots, s, "ready", slots[s].on)
  BY <1>1, <1>2 DEF MayChange, States
<1>4. HandOn(SetTo(slots, s, "ready", slots[s].on), order, records)
  <2>1. HandOn(StateTo(slots, s, "ready"), order, records) /\ "ready" \in States
    BY DEF GiveUp, StateTo, States
  <2> QED BY <1>1, <2>1, Forms
<1>5. UNCHANGED records /\ waiters' = waiters /\ waiters \subseteq Handle \X DOMAIN slots
  BY DEF GiveUp, ListInv
<1> QED BY <1>3, <1>4, <1>5, Switched

LEMMA SignalKeeps ==
  ASSUME ListInv, NEW s \in DOMAIN slots, Signal(s)
  PROVE  ListInv'
<1>1. s \in LiveIn(slots) /\ SlotsOK(slots)
  BY DEF Signal, LiveIn, ListInv
<1>2. slots[s].on \in {0} \cup DOMAIN slots
  BY <1>1, SlotFields
<1>3. MayChange(slots, s, "ready", slots[s].on)
  BY <1>1, <1>2 DEF MayChange, States
<1>4. HandOn(SetTo(slots, s, "ready", slots[s].on), order, records)
  <2>1. HandOn(StateTo(slots, s, "ready"), order, records) /\ "ready" \in States
    BY DEF Signal, StateTo, States
  <2> QED BY <1>1, <2>1, Forms
<1>5. UNCHANGED records /\ waiters' = waiters /\ waiters \subseteq Handle \X DOMAIN slots
  BY DEF Signal, ListInv
<1> QED BY <1>3, <1>4, <1>5, Switched

LEMMA EndTaskKeeps ==
  ASSUME ListInv, NEW s \in DOMAIN slots, EndTask(s)
  PROVE  ListInv'
<1>1. s \in LiveIn(slots) /\ SlotsOK(slots)
  BY DEF EndTask, ListInv
<1>2. slots[s].on \in {0} \cup DOMAIN slots
  BY <1>1, SlotFields
<1>3. MayChange(slots, s, "ended", slots[s].on)
  BY <1>1, <1>2 DEF MayChange, States
<1>4. HandOn(SetTo(slots, s, "ended", slots[s].on), order, records)
  <2>1. HandOn(StateTo(slots, s, "ended"), order, records) /\ "ended" \in States
    BY DEF EndTask, StateTo, States
  <2> QED BY <1>1, <2>1, Forms
<1>5. UNCHANGED records /\ waiters' = waiters /\ waiters \subseteq Handle \X DOMAIN slots
  BY DEF EndTask, ListInv
<1> QED BY <1>3, <1>4, <1>5, Switched

\* The list with the ended tasks' handles left out is the list still.
LEMMA GetCurrentTaskKeeps ==
  ASSUME ListInv, NEW s \in DOMAIN slots, GetCurrentTask(s)
  PROVE  ListInv'
<1> DEFINE live == HandlesIn(slots)
<1>0. PICK n \in 0 .. Len(order) : \E left \in [1 .. n -> DOMAIN order] :
        /\ \A i, j \in 1 .. n : i < j => left[i] < left[j]
        /\ {left[i] : i \in 1 .. n} = {i \in DOMAIN order : order[i] \in live}
        /\ order' = [i \in 1 .. n |-> order[left[i]]]
  BY DEF GetCurrentTask
<1>1. PICK left \in [1 .. n -> DOMAIN order] :
        /\ \A i, j \in 1 .. n : i < j => left[i] < left[j]
        /\ {left[i] : i \in 1 .. n} = {i \in DOMAIN order : order[i] \in live}
        /\ order' = [i \in 1 .. n |-> order[left[i]]]
  BY <1>0
<1>2. /\ order \in Seq(Handle) /\ Len(order) \in Nat
      /\ InOrder(order, live, records) /\ Holds(order, live)
  BY DEF ListInv
<1> HIDE DEF live
<1>3. n \in Nat /\ \A i \in 1 .. n : left[i] \in DOMAIN order
  BY <1>1, <1>2
<1>4. /\ DOMAIN order' = 1 .. n
      /\ \A i \in 1 .. n : order'[i] = order[left[i]]
  BY <1>1
<1>5. order' \in Seq(Handle)
  <2>1. \A i \in 1 .. n : order[left[i]] \in Handle
    BY <1>2, <1>3
  <2> QED BY <1>1, <1>3, <2>1
<1>6. InOrder(order', live, records)
  <2> SUFFICES ASSUME NEW i \in 1 .. n, NEW j \in 1 .. n, i < j
               PROVE  /\ order'[i] # order'[j]
                      /\ order'[i] \in live /\ order'[j] \in live
                           => records[order'[i]].priority <= records[order'[j]].priority
    BY <1>4 DEF InOrder
  <2>1. left[i] \in DOMAIN order /\ left[j] \in DOMAIN order /\ left[i] < left[j]
    BY <1>1, <1>3
  <2>2. order'[i] = order[left[i]] /\ order'[j] = order[left[j]]
    BY <1>4
  <2> QED BY <1>2, <2>1, <2>2 DEF InOrder
<1>7. Holds(order', live)
  <2> SUFFICES ASSUME NEW g \in live PROVE \E i \in DOMAIN order' : order'[i] = g
    BY DEF Holds
  <2>1. PICK k \in DOMAIN order : order[k] = g
    BY <1>2 DEF Holds
  <2>2. k \in {left[i] : i \in 1 .. n}
    BY <1>1, <2>1
  <2>3. PICK i \in 1 .. n : left[i] = k
    BY <2>2
  <2> QED BY <1>4, <2>1, <2>3
<1>8. slots' = slots /\ records' = records /\ lastRan' = lastRan /\ waiters' = waiters
  BY DEF GetCurrentTask
<1> QED BY <1>5, <1>6, <1>7, <1>8, Primed DEF ListInv, live

EventsTo(rec, h, e) == [rec EXCEPT ![h].events = e]
PriorityTo(rec, h, p) == [rec EXCEPT ![h].priority = p]

\* Another number of events leaves the priorities, and the others' events.
LEMMA EventsOnly ==
  ASSUME NEW rec \in [Handle -> Record], NEW h \in Handle, NEW e \in Events
  PROVE  /\ EventsTo(rec, h, e) \in [Handle -> Record]
         /\ EventsTo(rec, h, e)[h].events = e
         /\ \A k \in Handle : EventsTo(rec, h, e)[k].priority = rec[k].priority
         /\ \A k \in Handle \ {h} : EventsTo(rec, h, e)[k] = rec[k]
<1>1. ASSUME NEW r \in Record
      PROVE  /\ [r EXCEPT !.events = e] \in Record
             /\ [r EXCEPT !.events = e].events = e
             /\ [r EXCEPT !.events = e].priority = r.priority
  BY DEF Record
<1> QED BY <1>1 DEF EventsTo

\* Another priority leaves the events, and the others' priorities.
LEMMA PriorityOnly ==
  ASSUME NEW rec \in [Handle -> Record], NEW h \in Handle, NEW p \in Priority
  PROVE  /\ PriorityTo(rec, h, p) \in [Handle -> Record]
         /\ PriorityTo(rec, h, p)[h].priority = p
         /\ \A k \in Handle : PriorityTo(rec, h, p)[k].events = rec[k].events
         /\ \A k \in Handle \ {h} : PriorityTo(rec, h, p)[k] = rec[k]
<1>1. ASSUME NEW r \in Record
      PROVE  /\ [r EXCEPT !.priority = p] \in Record
             /\ [r EXCEPT !.priority = p].priority = p
             /\ [r EXCEPT !.priority = p].events = r.events
  BY DEF Record
<1> QED BY <1>1 DEF PriorityTo

\* Waits are kept while no event is put down for a task that is waited for.
LEMMA WaitsRecords ==
  ASSUME NEW ss, SlotsOK(ss), NEW rec, NEW ws, WaitsKept(ss, rec, ws),
         NEW new, \A k \in HandlesIn(ss) :
                    rec[k].events = 0 => new[k].events = 0
  PROVE  WaitsKept(ss, new, ws)
<1> SUFFICES ASSUME NEW u \in DOMAIN ss, NEW t, t = ss[u].on,
                    ss[u].state = "waiting", t # 0, t \in LiveIn(ss)
             PROVE  <<ss[t].handle, u>> \in ws /\ new[ss[t].handle].events = 0
  BY DEF WaitsKept
<1>1. <<ss[t].handle, u>> \in ws /\ rec[ss[t].handle].events = 0
  BY DEF WaitsKept
<1>2. ss[t].handle \in HandlesIn(ss)
  BY DEF HandlesIn
<1> QED BY <1>1, <1>2

LEMMA PostEventKeeps ==
  ASSUME ListInv, NEW s \in DOMAIN slots, NEW h \in Handle, PostEvent(s, h)
  PROVE  ListInv'
<1>1. /\ SlotsOK(slots) /\ order \in Seq(Handle)
      /\ records \in [Handle -> Record] /\ lastRan \in LastRan
      /\ waiters \subseteq Handle \X DOMAIN slots
      /\ InOrder(order, HandlesIn(slots), records)
      /\ Holds(order, HandlesIn(slots)) /\ WaitsKept(slots, records, waiters)
  BY DEF ListInv
<1>2. /\ records' = EventsTo(records, h, (records[h].events + 1) % WordSize)
      /\ waiters' = {w \in waiters : w[1] # h}
      /\ slots' = [u \in DOMAIN slots |->
                     IF <<h, u>> \in waiters /\ slots[u].state = "waiting"
                     THEN [slots[u] EXCEPT !.state = "ready"] ELSE slots[u]]
      /\ order' = order /\ lastRan' = lastRan
  BY DEF PostEvent, EventsTo
<1>3. (records[h].events + 1) % WordSize \in Events
  <2>1. records[h].events \in Events
    BY <1>1, Fields
  <2>2. WordSize \in Nat \ {0}
    BY DEF WordSize
  <2>3. ASSUME NEW n \in Int, NEW w \in Nat \ {0} PROVE n % w \in 0 .. w - 1
    OBVIOUS
  <2>4. records[h].events + 1 \in Int
    BY <2>1, <2>2 DEF Events
  <2>5. (records[h].events + 1) % WordSize \in 0 .. WordSize - 1
    BY <2>2, <2>3, <2>4
  <2> QED BY <2>5 DEF Events
<1>4. /\ records' \in [Handle -> Record]
      /\ \A k \in Handle : records'[k].priority = records[k].priority
      /\ \A k \in Handle \ {h} : records'[k] = records[k]
  <2>1. PICK e \in Events : records' = EventsTo(records, h, e)
    BY <1>2, <1>3
  <2> QED BY <1>1, <2>1, EventsOnly
<1>5. ASSUME NEW u \in DOMAIN slots
      PROVE  /\ slots'[u] \in Slots
             /\ slots'[u].handle = slots[u].handle
             /\ slots'[u].on = slots[u].on
             /\ (slots'[u].state = "ended") <=> (slots[u].state = "ended")
             /\ (slots'[u].state = "running") <=> (slots[u].state = "running")
             /\ (slots'[u].state = "waiting")
                  => slots[u].state = "waiting" /\ <<h, u>> \notin waiters
  <2>1. slots[u] \in Slots
    BY <1>1, SlotFields
  <2>2. ASSUME NEW r \in Slots
        PROVE  /\ [r EXCEPT !.state = "ready"] \in Slots
               /\ [r EXCEPT !.state = "ready"].handle = r.handle
               /\ [r EXCEPT !.state = "ready"].on = r.on
               /\ [r EXCEPT !.state = "ready"].state = "ready"
    BY DEF Slots
  <2>3. CASE <<h, u>> \in waiters /\ slots[u].state = "waiting"
    <3>1. slots'[u] = [slots[u] EXCEPT !.state = "ready"]
      BY <1>2, <2>3
    <3> QED BY <2>1, <2>2, <2>3, <3>1
  <2>4. CASE ~(<<h, u>> \in waiters /\ slots[u].state = "waiting")
    <3>1. slots'[u] = slots[u]
      BY <1>2, <2>4
    <3> QED BY <2>1, <2>4, <3>1
  <2> QED BY <2>3, <2>4
<1>6. DOMAIN slots' = DOMAIN slots /\ slots' \in Seq(Slots)
  <2>1. DOMAIN slots = 1 .. Len(slots) /\ Len(slots) \in Nat
    BY <1>1 DEF SlotsOK
  <2>2. DOMAIN slots' = DOMAIN slots
    BY <1>2
  <2> DEFINE tt == slots'
             n == Len(slots)
  <2>3. tt = [u \in 1 .. n |-> tt[u]]
    BY <1>2, <2>1
  <2>4. n \in Nat /\ \A u \in 1 .. n : tt[u] \in Slots
    BY <1>5, <2>1
  <2>5. tt \in Seq(Slots)
    <3> HIDE DEF tt, n
    <3> QED BY <2>3, <2>4
  <2> QED BY <2>2, <2>5
<1>7. LiveIn(slots') = LiveIn(slots)
  BY <1>5, <1>6 DEF LiveIn
<1>8. HandlesIn(slots') = HandlesIn(slots) /\ HandlesIn(slots) \subseteq Handle
  <2>1. \A u \in LiveIn(slots) :
          slots'[u].handle = slots[u].handle /\ slots[u].handle \in Handle
    BY <1>1, <1>5, SlotFields DEF LiveIn
  <2> QED BY <1>7, <2>1 DEF HandlesIn
<1>9. SlotsOK(slots')
  <2>1. \A v, u \in LiveIn(slots') :
          v # u => /\ slots'[v].handle # slots'[u].handle
                   /\ ~(slots'[v].state = "running" /\ slots'[u].state = "running")
    <3> SUFFICES ASSUME NEW v \in LiveIn(slots), NEW u \in LiveIn(slots), v # u
                 PROVE  /\ slots'[v].handle # slots'[u].handle
                        /\ ~(slots'[v].state = "running" /\ slots'[u].state = "running")
      BY <1>7
    <3>1. u \in DOMAIN slots /\ v \in DOMAIN slots
      BY DEF LiveIn
    <3>2. /\ slots[v].handle # slots[u].handle
          /\ ~(slots[v].state = "running" /\ slots[u].state = "running")
      BY <1>1 DEF SlotsOK
    <3>3. /\ slots'[u].handle = slots[u].handle /\ slots'[v].handle = slots[v].handle
          /\ (slots'[u].state = "running") <=> (slots[u].state = "running")
          /\ (slots'[v].state = "running") <=> (slots[v].state = "running")
      BY <1>5, <3>1
    <3> QED BY <3>2, <3>3
  <2>2. \A u \in DOMAIN slots' : slots'[u].on \in {0} \cup DOMAIN slots'
    BY <1>1, <1>5, <1>6 DEF SlotsOK
  <2> QED BY <1>6, <2>1, <2>2 DEF SlotsOK
<1>10. InOrder(order', HandlesIn(slots'), records') /\ Holds(order', HandlesIn(slots'))
  <2>1. \A k \in HandlesIn(slots) : records'[k].priority = records[k].priority
    BY <1>4, <1>8
  <2>2. /\ InOrder(order, HandlesIn(slots), records')
        /\ Holds(order, HandlesIn(slots))
    BY <1>1, <2>1, Fewer
  <2> QED BY <1>2, <1>8, <2>2
<1>11. WaitsKept(slots', records', waiters')
  <2> SUFFICES ASSUME NEW u \in DOMAIN slots, NEW t, t = slots'[u].on,
                      slots'[u].state = "waiting", t # 0, t \in LiveIn(slots')
               PROVE  /\ <<slots'[t].handle, u>> \in waiters'
                      /\ records'[slots'[t].handle].events = 0
    BY <1>6 DEF WaitsKept
  <2>1. /\ slots[u].state = "waiting" /\ <<h, u>> \notin waiters
        /\ t = slots[u].on /\ t \in LiveIn(slots) /\ t \in DOMAIN slots
    BY <1>5, <1>7 DEF LiveIn
  <2>2. /\ <<slots[t].handle, u>> \in waiters
        /\ records[slots[t].handle].events = 0
    BY <1>1, <2>1 DEF WaitsKept
  <2>3. /\ slots'[t].handle = slots[t].handle /\ slots[t].handle # h
        /\ slots[t].handle \in Handle
    BY <1>1, <1>5, <2>1, <2>2, SlotFields
  <2>4. <<slots[t].handle, u>> \in waiters'
    <3>1. <<slots[t].handle, u>>[1] # h
      BY <2>3
    <3> QED BY <1>2, <2>2, <3>1
  <2> QED BY <1>4, <2>2, <2>3, <2>4
<1>12. waiters' \subseteq Handle \X DOMAIN slots'
  BY <1>1, <1>2, <1>6
<1> QED BY <1>1, <1>2, <1>4, <1>9, <1>10, <1>11, <1>12, Primed

\* A turn of the loop: no wait is left, or one with the task put down.
LEMMA TurnKeeps ==
  ASSUME ListInv, NEW s \in DOMAIN slots, NEW t \in DOMAIN slots,
         Runs(s), Turn(s, t)
  PROVE  ListInv'
<1> DEFINE h == slots[t].handle
<1>1. /\ SlotsOK(slots) /\ order \in Seq(Handle)
      /\ records \in [Handle -> Record] /\ lastRan \in LastRan
      /\ waiters \subseteq Handle \X DOMAIN slots
      /\ InOrder(order, HandlesIn(slots), records)
      /\ Holds(order, HandlesIn(slots)) /\ WaitsKept(slots, records, waiters)
  BY DEF ListInv
<1>2. s \in LiveIn(slots) /\ slots[s].state = "running"
  BY DEF Runs, LiveIn
<1>3. h \in Handle
  BY <1>1, SlotFields
<1> DEFINE done == SetTo(slots, s, "running", 0)
<1>4. ChangedTo(slots, s, "running", 0, done)
  <2>1. ASSUME NEW u \in DOMAIN slots, u # s PROVE slots[u].state # "running"
    BY <1>1, <1>2, <2>1 DEF SlotsOK, LiveIn
  <2>2. MayChange(slots, s, "running", 0)
    BY <1>1, <1>2, <2>1 DEF MayChange, States
  <2> QED BY <2>2, Changed
<1>5. [slots EXCEPT ![s].on = 0] = done
  <2>1. Woken(slots, s) = SetTo(slots, s, slots[s].state, 0)
    BY <1>1, Forms
  <2> QED BY <1>2, <2>1 DEF Woken
<1>6. MayChange(slots, s, "running", 0)
  <2>1. ASSUME NEW u \in DOMAIN slots, u # s PROVE slots[u].state # "running"
    BY <1>1, <1>2, <2>1 DEF SlotsOK, LiveIn
  <2> QED BY <1>1, <1>2, <2>1 DEF MayChange, States
<1>7. WaitsKept(done, records, waiters)
  <2>1. "running" # "waiting"
    OBVIOUS
  <2> HIDE DEF done
  <2> QED BY <1>1, <1>4, <1>6, <2>1, WaitsLess
<1> HIDE DEF done
<1>8. /\ SlotsOK(done) /\ DOMAIN done = DOMAIN slots
      /\ HandlesIn(done) = HandlesIn(slots)
  BY <1>4 DEF ChangedTo
\* The task is gone.
<1>9. CASE /\ slots' = [slots EXCEPT ![s].on = 0]
           /\ UNCHANGED <<order, records, lastRan, waiters>>
  <2>1. /\ slots' = done /\ order' = order /\ records' = records
        /\ lastRan' = lastRan /\ waiters' = waiters
    BY <1>5, <1>9
  <2> QED BY <1>1, <1>7, <1>8, <2>1, Primed
\* An event taken: while there was one, nobody waited for it.
<1>10. CASE /\ h \in HandlesIn(slots) /\ records[h].events > 0
            /\ records' = [records EXCEPT ![h].events = @ - 1]
            /\ slots' = [slots EXCEPT ![s].on = 0]
            /\ UNCHANGED <<order, lastRan, waiters>>
  <2>1. /\ slots' = done /\ order' = order
        /\ records' = EventsTo(records, h, records[h].events - 1)
        /\ lastRan' = lastRan /\ waiters' = waiters
    BY <1>5, <1>10 DEF EventsTo
  <2>2. records[h].events \in Events /\ records[h].events > 0
    BY <1>1, <1>3, <1>10, Fields
  <2>3. records[h].events - 1 \in Events
    <3>1. WordSize \in Nat
      BY DEF WordSize
    <3> QED BY <2>2, <3>1 DEF Events
  <2>4. /\ records' \in [Handle -> Record]
        /\ \A k \in Handle : records'[k].priority = records[k].priority
        /\ \A k \in Handle \ {h} : records'[k] = records[k]
    BY <1>1, <1>3, <2>1, <2>3, EventsOnly
  <2>5. HandlesIn(slots) \subseteq Handle
    BY <1>1, SlotFields
  <2>6. \A k \in HandlesIn(slots) : records'[k].priority = records[k].priority
    BY <2>4, <2>5
  <2>7. InOrder(order, HandlesIn(slots), records') /\ Holds(order, HandlesIn(slots))
    BY <1>1, <2>6, Fewer
  <2>8. \A k \in HandlesIn(done) :
          records[k].events = 0 => records'[k].events = 0
    BY <1>8, <1>10, <2>4, <2>5
  <2>9. WaitsKept(done, records', waiters)
    BY <1>7, <1>8, <2>8, WaitsRecords
  <2> QED BY <1>1, <1>8, <2>1, <2>4, <2>7, <2>9, Primed
\* None, and the wait put down before the processor goes.
<1>11. CASE /\ h \in HandlesIn(slots) /\ records[h].events = 0
            /\ waiters' = PutDown(s, t)
            /\ HandOn([slots EXCEPT ![s].state = "waiting", ![s].on = t],
                      order, records)
            /\ UNCHANGED records
  <2>1. MayChange(slots, s, "waiting", t)
    BY <1>1, <1>2 DEF MayChange, States
  <2>2. HandOn(SetTo(slots, s, "waiting", t), order, records)
    <3>1. WaitOn(slots, s, t) = SetTo(slots, s, "waiting", t)
      BY <1>1, Forms
    <3>2. HandOn(WaitOn(slots, s, t), order, records)
      BY <1>11 DEF WaitOn
    <3> QED BY <3>1, <3>2
  <2>3. waiters' = waiters \cup {<<h, s>>}
    BY <1>11 DEF PutDown
  <2>4. /\ waiters \subseteq waiters' /\ waiters' \subseteq Handle \X DOMAIN slots
        /\ <<h, s>> \in waiters'
    BY <1>1, <1>3, <2>3
  <2>5. records[h].events = 0 /\ UNCHANGED records
    BY <1>11
  <2> QED BY <2>1, <2>2, <2>4, <2>5, Switched
<1> QED BY <1>9, <1>10, <1>11 DEF Turn

\* A priority moved is one.
LEMMA MovedPriority ==
  ASSUME NEW p \in Int, NEW d \in Int
  PROVE  Moved(p, d) \in Priority
<1>1. ASSUME NEW n \in Int, NEW w \in Nat \ {0} PROVE n % w \in Int
  OBVIOUS
<1>2. p + d + 128 \in Int /\ 256 \in Nat \ {0}
  OBVIOUS
<1>3. (p + d + 128) % 256 \in Int
  BY <1>1, <1>2
<1>4. PICK sum \in Int : sum = ((p + d + 128) % 256) - 128
  BY <1>3
<1>5. (IF sum < -32 THEN -32 ELSE IF sum > 15 THEN 15 ELSE sum) \in Priority
  BY DEF Priority
<1> QED BY <1>4, <1>5 DEF Moved

\* Where the priority was moved, the task is put in again.
LEMMA SetPriorityKeeps ==
  ASSUME ListInv, ListAssumption, NEW s \in DOMAIN slots, NEW t \in DOMAIN slots,
         NEW d \in Delta, SetPriority(s, t, d)
  PROVE  ListInv'
<1> DEFINE h == slots[t].handle
           p == Moved(records[h].priority, d)
           live == HandlesIn(slots)
<1>1. /\ SlotsOK(slots) /\ order \in Seq(Handle)
      /\ records \in [Handle -> Record] /\ lastRan \in LastRan
      /\ waiters \subseteq Handle \X DOMAIN slots
      /\ InOrder(order, live, records)
      /\ Holds(order, live) /\ WaitsKept(slots, records, waiters)
  BY DEF ListInv
<1>2. h \in Handle /\ h \in live /\ live \subseteq Handle
  <2>1. t \in LiveIn(slots)
    BY DEF SetPriority
  <2> QED BY <1>1, <2>1, SlotFields DEF HandlesIn
<1>3. p \in Priority
  <2>1. records[h].priority \in Int
    BY <1>1, <1>2, Fields
  <2>2. d \in Int
    BY DEF ListAssumption
  <2> QED BY <2>1, <2>2, MovedPriority
<1>4. /\ records' = PriorityTo(records, h, p)
      /\ \/ p = records[h].priority /\ order' = order
         \/ /\ p = records[h].priority
            /\ order' = Insert(order, h, p, live, records')
         \/ /\ p # records[h].priority
            /\ order' = Insert(order, h, p + 1, live, records')
      /\ slots' = slots /\ lastRan' = lastRan /\ waiters' = waiters
  BY DEF SetPriority, PriorityTo, Stays
<1> HIDE DEF h, p, live
<1>5. /\ records' \in [Handle -> Record] /\ records'[h].priority = p
      /\ \A k \in Handle : records'[k].events = records[k].events
      /\ \A k \in Handle \ {h} : records'[k] = records[k]
  BY <1>1, <1>2, <1>3, <1>4, PriorityOnly
<1>6. InOrder(order, live \ {h}, records') /\ Holds(order, live \ {h})
  <2>1. \A k \in live \ {h} : records'[k].priority = records[k].priority
    BY <1>2, <1>5
  <2>2. live \ {h} \subseteq live
    OBVIOUS
  <2> QED BY <1>1, <2>1, <2>2, Fewer
<1>7. /\ order' \in Seq(Handle)
      /\ InOrder(order', live, records') /\ Holds(order', live)
  <2>1. CASE p = records[h].priority /\ order' = order
    <3>1. \A k \in live : records'[k].priority = records[k].priority
      BY <1>2, <1>5, <2>1
    <3>2. InOrder(order, live, records') /\ Holds(order, live)
      BY <1>1, <3>1, Fewer
    <3> QED BY <1>1, <2>1, <3>2
  <2>2. CASE \E q \in {p, p + 1} : order' = Insert(order, h, q, live, records')
    <3>1. PICK q : /\ q \in {records'[h].priority, records'[h].priority + 1}
                   /\ order' = Insert(order, h, q, live, records')
      BY <1>5, <2>2
    <3>2. live \cup {h} = live
      BY <1>2
    <3>3. /\ order' \in Seq(Handle)
          /\ InOrder(order', live \cup {h}, records') /\ Holds(order', live \cup {h})
      BY <1>1, <1>2, <1>5, <1>6, <3>1, InsertOrdered
    <3> QED BY <3>2, <3>3
  <2> QED BY <1>4, <2>1, <2>2
<1>8. WaitsKept(slots, records', waiters)
  <2>1. \A k \in HandlesIn(slots) : records[k].events = 0 => records'[k].events = 0
    BY <1>2, <1>5 DEF live
  <2> QED BY <1>1, <2>1, WaitsRecords
<1> QED BY <1>1, <1>4, <1>5, <1>7, <1>8, Primed DEF live

\* A slot more, its handle no live task's.
LEMMA OneMore ==
  ASSUME NEW ss, SlotsOK(ss), NEW h \in Handle, h \notin HandlesIn(ss),
         NEW tt, tt = Append(ss, NewSlot(h, "ready"))
  PROVE  /\ SlotsOK(tt)
         /\ DOMAIN ss \subseteq DOMAIN tt
         /\ \A u \in DOMAIN ss : tt[u] = ss[u]
         /\ \A u \in DOMAIN tt \ DOMAIN ss :
              tt[u].handle = h /\ tt[u].state = "ready"
         /\ HandlesIn(tt) = HandlesIn(ss) \cup {h}
<1> DEFINE r == NewSlot(h, "ready")
           n == Len(ss) + 1
<1>1. r \in Slots /\ r.handle = h /\ r.state = "ready" /\ r.on = 0
  BY DEF NewSlot, Slots
<1> HIDE DEF r
<1>2. ss \in Seq(Slots) /\ DOMAIN ss = 1 .. Len(ss) /\ Len(ss) \in Nat
  BY DEF SlotsOK
<1>3. /\ tt \in Seq(Slots) /\ DOMAIN tt = 1 .. n
      /\ \A u \in DOMAIN ss : tt[u] = ss[u]
      /\ tt[n] = r
  BY <1>1, <1>2 DEF r
<1>4. DOMAIN tt = DOMAIN ss \cup {n} /\ n \notin DOMAIN ss
  BY <1>2, <1>3
<1> HIDE DEF n
<1>5. LiveIn(tt) = LiveIn(ss) \cup {n}
  BY <1>1, <1>3, <1>4 DEF LiveIn
<1>6. HandlesIn(tt) = HandlesIn(ss) \cup {h}
  <2>1. \A u \in LiveIn(ss) : tt[u] = ss[u]
    BY <1>3 DEF LiveIn
  <2>2. tt[n].handle = h
    BY <1>1, <1>3
  <2>3. ASSUME NEW g \in HandlesIn(tt) PROVE g \in HandlesIn(ss) \cup {h}
    BY <1>5, <2>1, <2>2 DEF HandlesIn
  <2>4. ASSUME NEW g \in HandlesIn(ss) \cup {h} PROVE g \in HandlesIn(tt)
    BY <1>5, <2>1, <2>2 DEF HandlesIn
  <2> QED BY <2>3, <2>4
<1>7. \A v, u \in LiveIn(tt) :
        v # u => /\ tt[v].handle # tt[u].handle
                 /\ ~(tt[v].state = "running" /\ tt[u].state = "running")
  <2> SUFFICES ASSUME NEW v \in LiveIn(tt), NEW u \in LiveIn(tt), v # u
               PROVE  /\ tt[v].handle # tt[u].handle
                      /\ ~(tt[v].state = "running" /\ tt[u].state = "running")
    OBVIOUS
  <2>1. \A w \in LiveIn(ss) :
          /\ tt[w] = ss[w] /\ ss[w].handle # h
    BY <1>3 DEF LiveIn, HandlesIn
  <2>2. CASE v \in LiveIn(ss) /\ u \in LiveIn(ss)
    BY <2>1, <2>2 DEF SlotsOK
  <2>3. CASE v = n \/ u = n
    BY <1>1, <1>3, <1>5, <2>1, <2>3
  <2> QED BY <1>5, <2>2, <2>3
<1>8. \A u \in DOMAIN tt : tt[u].on \in {0} \cup DOMAIN tt
  BY <1>1, <1>3, <1>4 DEF SlotsOK
<1> QED BY <1>1, <1>3, <1>4, <1>6, <1>7, <1>8 DEF SlotsOK

\* A task made, put in the list with its handle's record.
LEMMA MakeTaskKeeps ==
  ASSUME ListInv, NEW h \in Handle, MakeTask(h)
  PROVE  ListInv'
<1> DEFINE tt == Append(slots, NewSlot(h, "ready"))
           rec == EventsTo(records, h, 1)
           live == HandlesIn(slots)
           l == Insert(order, h, rec[h].priority, HandlesIn(tt), rec)
<1>1. /\ SlotsOK(slots) /\ order \in Seq(Handle)
      /\ records \in [Handle -> Record] /\ lastRan \in LastRan
      /\ waiters \subseteq Handle \X DOMAIN slots
      /\ InOrder(order, live, records)
      /\ Holds(order, live) /\ WaitsKept(slots, records, waiters)
  BY DEF ListInv
<1>2. /\ records' = rec /\ HandOn(tt, l, rec) /\ waiters' = waiters
      /\ h \notin live
  <2>1. records' = rec /\ HandOn(tt, l, rec) /\ waiters' = waiters
    BY Zenon DEF MakeTask, EventsTo
  <2>2. MayTake(h)
    BY DEF MakeTask
  <2> QED BY <2>1, <2>2 DEF MayTake
<1>3. /\ rec \in [Handle -> Record]
      /\ \A k \in Handle : rec[k].priority = records[k].priority
      /\ \A k \in Handle \ {h} : rec[k] = records[k]
  <2>1. 1 \in Events
    BY DEF Events, WordSize
  <2> QED BY <1>1, <2>1, EventsOnly
<1>4. /\ SlotsOK(tt)
      /\ DOMAIN slots \subseteq DOMAIN tt
      /\ \A u \in DOMAIN slots : tt[u] = slots[u]
      /\ \A u \in DOMAIN tt \ DOMAIN slots :
           tt[u].handle = h /\ tt[u].state = "ready"
      /\ HandlesIn(tt) = live \cup {h}
  BY <1>1, <1>2, OneMore
<1> HIDE DEF tt, rec
<1>5. live \subseteq Handle /\ live \ {h} = live
  <2>1. \A u \in LiveIn(slots) : slots[u].handle \in Handle
    BY <1>1, SlotFields DEF LiveIn
  <2> QED BY <1>2, <2>1 DEF HandlesIn
<1> HIDE DEF live
<1>6. /\ l \in Seq(Handle)
      /\ InOrder(l, HandlesIn(tt), rec) /\ Holds(l, HandlesIn(tt))
  <2>1. \A k \in live : rec[k].priority = records[k].priority
    BY <1>3, <1>5
  <2>2. InOrder(order, live, rec) /\ Holds(order, live)
    BY <1>1, <2>1, Fewer
  <2>3. rec[h].priority \in {rec[h].priority, rec[h].priority + 1}
    OBVIOUS
  <2>4. HandlesIn(tt) \ {h} = live /\ HandlesIn(tt) \cup {h} = HandlesIn(tt)
    BY <1>4, <1>5
  <2>5. /\ l \in Seq(Handle)
        /\ InOrder(l, HandlesIn(tt) \cup {h}, rec)
        /\ Holds(l, HandlesIn(tt) \cup {h})
    BY <1>1, <1>3, <2>2, <2>3, <2>4, InsertOrdered
  <2> QED BY <2>4, <2>5
<1> HIDE DEF l
<1>7. WaitsKept(tt, rec, waiters)
  <2> SUFFICES ASSUME NEW u \in DOMAIN tt, NEW t, t = tt[u].on,
                      tt[u].state = "waiting", t # 0, t \in LiveIn(tt)
               PROVE  <<tt[t].handle, u>> \in waiters /\ rec[tt[t].handle].events = 0
    BY DEF WaitsKept
  <2>1. u \in DOMAIN slots /\ tt[u] = slots[u]
    BY <1>4
  <2>2. t \in DOMAIN slots
    BY <1>1, <2>1, SlotFields
  <2>3. tt[t] = slots[t] /\ t \in LiveIn(slots)
    BY <1>4, <2>2 DEF LiveIn
  <2>4. /\ <<slots[t].handle, u>> \in waiters
        /\ records[slots[t].handle].events = 0
    BY <1>1, <2>1, <2>3 DEF WaitsKept
  <2>5. slots[t].handle \in live
    BY <2>3 DEF live, HandlesIn
  <2> QED BY <1>2, <1>3, <1>5, <2>3, <2>4, <2>5
<1>8. /\ SlotsOK(slots') /\ DOMAIN slots' = DOMAIN tt
      /\ order' \in Seq(Handle) /\ lastRan' \in LastRan
      /\ InOrder(order', HandlesIn(slots'), rec)
      /\ Holds(order', HandlesIn(slots'))
      /\ WaitsKept(slots', rec, waiters)
  BY <1>1, <1>2, <1>3, <1>4, <1>6, <1>7, HandsOn
<1>9. waiters \subseteq Handle \X DOMAIN slots'
  BY <1>1, <1>4, <1>8
<1> QED BY <1>2, <1>3, <1>8, <1>9, Primed

\* One task, with the processor, alone in the list.
LEMMA InitInv ==
  ASSUME ListInit
  PROVE  ListInv
<1>1. PICK h \in Handle :
        /\ slots = <<NewSlot(h, "running")>>
        /\ order = <<h>>
        /\ records = [k \in Handle |-> IF k = h THEN [NewRecord EXCEPT !.events = 1]
                                             ELSE NewRecord]
        /\ lastRan = <<>> /\ waiters = {}
  BY DEF ListInit
<1> DEFINE r == NewSlot(h, "running")
<1>2. r \in Slots /\ r.handle = h /\ r.state = "running" /\ r.on = 0
  BY DEF NewSlot, Slots
<1>3. slots = <<r>>
  BY <1>1
<1> HIDE DEF r
<1>4. slots \in Seq(Slots) /\ DOMAIN slots = {1} /\ slots[1] = r
  BY <1>2, <1>3
<1>5. order \in Seq(Handle) /\ DOMAIN order = {1} /\ order[1] = h
  BY <1>1
<1>6. SlotsOK(slots)
  BY <1>2, <1>4 DEF SlotsOK, LiveIn
<1>7. HandlesIn(slots) = {h}
  BY <1>2, <1>4 DEF HandlesIn, LiveIn
<1>8. InOrder(order, HandlesIn(slots), records) /\ Holds(order, HandlesIn(slots))
  BY <1>5, <1>7 DEF InOrder, Holds
<1>9. WaitsKept(slots, records, waiters)
  BY <1>2, <1>4 DEF WaitsKept
<1>10. records \in [Handle -> Record]
  <2>1. 0 \in Events /\ 1 \in Events /\ 0 \in Priority
    BY DEF Events, WordSize, Priority
  <2>2. NewRecord \in Record /\ [NewRecord EXCEPT !.events = 1] \in Record
    BY <2>1 DEF NewRecord, Record
  <2> QED BY <1>1, <2>2
<1> QED BY <1>1, <1>5, <1>6, <1>8, <1>9, <1>10 DEF ListInv, LastRan

-----------------------------------------------------------------------------
(* The theorems.                                                           *)

LEMMA StepKeeps ==
  ASSUME ListInv, ListNext
  PROVE  ListInv'
<1>1. ASSUME NEW h \in Handle, MakeTask(h) PROVE ListInv'
  BY <1>1, MakeTaskKeeps
<1>2. ASSUME NEW s \in DOMAIN slots, GiveUp(s) PROVE ListInv'
  BY <1>2, GiveUpKeeps
<1>3. ASSUME NEW s \in DOMAIN slots, Signal(s) PROVE ListInv'
  BY <1>3, SignalKeeps
<1>4. ASSUME NEW s \in DOMAIN slots, EndTask(s) PROVE ListInv'
  BY <1>4, EndTaskKeeps
<1>5. ASSUME NEW s \in DOMAIN slots, GetCurrentTask(s) PROVE ListInv'
  BY <1>5, GetCurrentTaskKeeps
<1>6. ASSUME NEW s \in DOMAIN slots, WaitAgain(s) PROVE ListInv'
  <2>1. Runs(s) /\ slots[s].on # 0 /\ Turn(s, slots[s].on)
    BY <1>6 DEF WaitAgain
  <2>2. SlotsOK(slots)
    BY DEF ListInv
  <2>3. slots[s].on \in DOMAIN slots
    BY <2>1, <2>2, SlotFields
  <2> QED BY <2>1, <2>3, TurnKeeps
<1>7. ASSUME NEW s \in DOMAIN slots, NEW h \in Handle, PostEvent(s, h) PROVE ListInv'
  BY <1>7, PostEventKeeps
<1>8. ASSUME NEW s \in DOMAIN slots, NEW t \in DOMAIN slots, WaitEvent(s, t)
      PROVE  ListInv'
  BY <1>8, TurnKeeps DEF WaitEvent, InProgram
<1>9. ASSUME NEW s \in DOMAIN slots, NEW t \in DOMAIN slots, NEW d \in Delta,
             SetPriority(s, t, d)
      PROVE  ListInv'
  BY <1>9, SetPriorityKeeps, ListAssumption
<1>10. ASSUME AllEnded PROVE ListInv'
  BY <1>10, Primed DEF AllEnded, listVars, ListInv
<1> QED BY <1>1, <1>2, <1>3, <1>4, <1>5, <1>6, <1>7, <1>8, <1>9, <1>10 DEF ListNext

\* Whatever the handles, the tasks made and the bounds, what the list and the
\* waits are is kept by every step (task_order.rs, kernel_calls/tasks.rs).
THEOREM ListInvariant == ListSpec => []ListInv
<1>1. ListInit => ListInv
  BY InitInv
<1>2. ListInv /\ [ListNext]_listVars => ListInv'
  <2>1. ASSUME ListInv, UNCHANGED listVars PROVE ListInv'
    BY <2>1, Primed DEF listVars, ListInv
  <2> QED BY <2>1, StepKeeps
<1> QED BY <1>1, <1>2, PTL DEF ListSpec

\* Two live tasks never have one handle, nor the processor, and a priority
\* stays in its range (task_order.rs: change_priority; tasks.rs: grant).
THEOREM ListTypeCorrect == ListSpec => []ListTypeOK
<1>1. ListInv => ListTypeOK
  BY InvProperties
<1> QED BY <1>1, ListInvariant, PTL

\* Each live task is in the list once, by priority (task_order.rs: insert_task).
THEOREM ListKept == ListSpec => []ListOrdered
<1>1. ListInv => ListOrdered
  BY InvProperties
<1> QED BY <1>1, ListInvariant, PTL

\* Nobody waits in WaitEvent for a live task that has an event
\* (kernel_calls/tasks.rs: wait_event, post_event).
THEOREM EventsNotSlept == ListSpec => []NoSleepOverEvent
<1>1. ListInv => NoSleepOverEvent
  BY InvProperties
<1> QED BY <1>1, ListInvariant, PTL
=============================================================================
