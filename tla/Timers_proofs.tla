---------------------------- MODULE Timers_proofs ----------------------------
(***************************************************************************)
(* timer_handler keeps its wheel and its timers in agreement, for every    *)
(* number of timers, size of the wheel and width of tic_t, whatever the    *)
(* users do, and implements CountdownTimers.                               *)
(***************************************************************************)
EXTENDS Timers, FiniteSetTheorems, TLAPS

-----------------------------------------------------------------------------
(* Sequences: the facts cited below.                                       *)

\* The items of a sequence are in its set.
LEMMA SeqItem ==
  ASSUME NEW S, NEW q \in Seq(S), NEW i \in 1..Len(q)
  PROVE  q[i] \in S
  OBVIOUS

\* A sequence is a function on its positions.
LEMMA SeqDomain ==
  ASSUME NEW S, NEW q \in Seq(S)
  PROVE  Len(q) \in Nat /\ q \in [1..Len(q) -> S] /\ DOMAIN q = 1..Len(q)
  OBVIOUS

\* The empty sequence is the one of length 0.
LEMMA NoItems ==
  ASSUME NEW S
  PROVE  /\ <<>> \in Seq(S) /\ Len(<<>>) = 0
         /\ \A q \in Seq(S) : q # <<>> => Len(q) \in Nat \ {0}
  OBVIOUS

\* The items of a concatenation.
LEMMA Joined ==
  ASSUME NEW S, NEW q \in Seq(S), NEW r \in Seq(S)
  PROVE  /\ q \o r \in Seq(S) /\ Len(q \o r) = Len(q) + Len(r)
         /\ \A i \in 1..(Len(q) + Len(r)) : (q \o r)[i] = IF i <= Len(q) THEN q[i] ELSE r[i - Len(q)]
  OBVIOUS

\* The items of a part of a sequence.
LEMMA Part ==
  ASSUME NEW S, NEW q, NEW m \in Int, NEW n \in Int, \A i \in m..n : q[i] \in S
  PROVE  /\ SubSeq(q, m, n) \in Seq(S)
         /\ Len(SubSeq(q, m, n)) = IF m <= n THEN n - m + 1 ELSE 0
         /\ \A i \in 1..(n - m + 1) : SubSeq(q, m, n)[i] = q[m + i - 1]
  OBVIOUS

-----------------------------------------------------------------------------
(* Lists.                                                                  *)

\* A list that holds exactly the elements of S, each once.
Holds(l, S) == l \in Seq(Timers) /\ IsInjective(l) /\ Range(l) = S

\* The first node of a list that was pushed to, and the others.
LEMMA PushItems ==
  ASSUME NEW l \in Seq(Timers), NEW t \in Timers
  PROVE  /\ <<t>> \o l \in Seq(Timers) /\ Len(<<t>> \o l) = Len(l) + 1
         /\ (<<t>> \o l)[1] = t
         /\ \A i \in 1..Len(l) : (<<t>> \o l)[i + 1] = l[i]
<1>1. <<t>> \in Seq(Timers) /\ Len(<<t>>) = 1 /\ <<t>>[1] = t /\ Len(l) \in Nat
  OBVIOUS
<1>2. /\ <<t>> \o l \in Seq(Timers) /\ Len(<<t>> \o l) = Len(<<t>>) + Len(l)
      /\ \A i \in 1 .. Len(<<t>>) + Len(l) : (<<t>> \o l)[i] =
           IF i <= Len(<<t>>) THEN <<t>>[i] ELSE l[i - Len(<<t>>)]
  BY <1>1, Joined, Zenon
<1>3. 1 \in 1 .. Len(<<t>>) + Len(l) /\ 1 <= Len(<<t>>)
  BY <1>1
<1>4. ASSUME NEW i \in 1..Len(l) PROVE (<<t>> \o l)[i + 1] = l[i]
  <2>1. i + 1 \in 1 .. Len(<<t>>) + Len(l) /\ ~(i + 1 <= Len(<<t>>)) /\ i + 1 - Len(<<t>>) = i
    BY <1>1
  <2> QED
    BY <1>2, <2>1
<1> QED
  BY <1>1, <1>2, <1>3, <1>4

\* The length of what follows node j of a list of n nodes.
LEMMA RestLength ==
  \A n \in Nat : \A j \in 1..n :
    (IF j + 1 <= n THEN n - (j + 1) + 1 ELSE 0) = n - j /\ n - (j + 1) + 1 = n - j
  OBVIOUS

\* The nodes that are left when one is removed.
LEMMA RemoveItems ==
  ASSUME NEW l \in Seq(Timers), NEW k \in 1..Len(l)
  PROVE  /\ RemoveAt(l, k) \in Seq(Timers) /\ Len(RemoveAt(l, k)) = Len(l) - 1
         /\ \A i \in 1..(Len(l) - 1) : RemoveAt(l, k)[i] = IF i < k THEN l[i] ELSE l[i + 1]
<1> DEFINE a == SubSeq(l, 1, k - 1)
           b == SubSeq(l, k + 1, Len(l))
           m == RemoveAt(l, k)
<1>1. Len(l) \in Nat /\ DOMAIN l = 1..Len(l)
  BY SeqDomain, Zenon
<1>2. a \in Seq(Timers) /\ Len(a) = k - 1 /\ \A i \in 1..(k - 1) : a[i] = l[i]
  <2>1. \A i \in 1..(k - 1) : l[i] \in Timers
    BY <1>1, SeqItem
  <2>2. /\ a \in Seq(Timers) /\ Len(a) = IF 1 <= k - 1 THEN k - 1 - 1 + 1 ELSE 0
        /\ \A i \in 1 .. k - 1 - 1 + 1 : a[i] = l[1 + i - 1]
    BY <1>1, <2>1, Part
  <2>3. (IF 1 <= k - 1 THEN k - 1 - 1 + 1 ELSE 0) = k - 1 /\ k - 1 - 1 + 1 = k - 1
        /\ \A i \in 1..(k - 1) : 1 + i - 1 = i
    BY <1>1
  <2> QED
    BY <2>2, <2>3, Zenon
<1>3. b \in Seq(Timers) /\ Len(b) = Len(l) - k /\ \A i \in 1..(Len(l) - k) : b[i] = l[k + i]
  <2>1. \A i \in (k + 1)..Len(l) : l[i] \in Timers
    BY <1>1, SeqItem
  <2>2. /\ b \in Seq(Timers) /\ Len(b) = IF k + 1 <= Len(l) THEN Len(l) - (k + 1) + 1 ELSE 0
        /\ \A i \in 1 .. Len(l) - (k + 1) + 1 : b[i] = l[k + 1 + i - 1]
    BY <1>1, <2>1, Part
  <2>3. (IF k + 1 <= Len(l) THEN Len(l) - (k + 1) + 1 ELSE 0) = Len(l) - k
        /\ Len(l) - (k + 1) + 1 = Len(l) - k
    BY <1>1, RestLength, Zenon
  <2>4. \A i \in 1..(Len(l) - k) : k + 1 + i - 1 = k + i
    BY <1>1
  <2> QED
    BY <2>2, <2>3, <2>4, Zenon
<1>4. m = a \o b
  BY Zenon DEF RemoveAt
<1> HIDE DEF a, b
<1>5. /\ a \o b \in Seq(Timers) /\ Len(a \o b) = Len(a) + Len(b)
      /\ \A i \in 1 .. Len(a) + Len(b) : (a \o b)[i] = IF i <= Len(a) THEN a[i] ELSE b[i - Len(a)]
  BY <1>2, <1>3, Joined, Zenon
<1>6. Len(a) + Len(b) = Len(l) - 1
  BY <1>1, <1>2, <1>3
<1>7. ASSUME NEW i \in 1..(Len(l) - 1) PROVE (a \o b)[i] = IF i < k THEN l[i] ELSE l[i + 1]
  <2>1. (a \o b)[i] = IF i <= k - 1 THEN a[i] ELSE b[i - (k - 1)]
    BY <1>2, <1>5, <1>6, Zenon
  <2>2. CASE i < k
    <3>1. i <= k - 1 /\ i \in 1..(k - 1)
      BY <1>1, <2>2
    <3> QED
      BY <1>2, <2>1, <2>2, <3>1, Zenon
  <2>3. CASE ~(i < k)
    <3>1. ~(i <= k - 1) /\ i - (k - 1) \in 1..(Len(l) - k) /\ k + (i - (k - 1)) = i + 1
      BY <1>1, <2>3
    <3>2. b[i - (k - 1)] = l[k + (i - (k - 1))]
      BY <1>3, <3>1, Zenon
    <3> QED
      BY <2>1, <2>3, <3>1, <3>2, Zenon
  <2> QED
    BY <2>2, <2>3, Zenon
<1> QED
  BY <1>4, <1>5, <1>6, <1>7, Zenon

\* Each element has one node.
LEMMA HoldsNode ==
  ASSUME NEW l, NEW S, Holds(l, S), NEW t \in S
  PROVE  /\ NodeOf(l, t) \in 1..Len(l) /\ l[NodeOf(l, t)] = t
         /\ \A i \in 1..Len(l) : l[i] = t => i = NodeOf(l, t)
<1>1. DOMAIN l = 1..Len(l)
  BY SeqDomain, Zenon DEF Holds
<1>2. \E i \in DOMAIN l : l[i] = t
  BY Zenon DEF Holds, Range
<1>3. NodeOf(l, t) \in DOMAIN l /\ l[NodeOf(l, t)] = t
  BY <1>2, Zenon DEF NodeOf
<1>4. \A i \in DOMAIN l : l[i] = t => i = NodeOf(l, t)
  BY <1>3, Zenon DEF Holds, IsInjective
<1> QED
  BY <1>1, <1>3, <1>4, Zenon

\* push_front of an element that is in no list.
LEMMA PushHolds ==
  ASSUME NEW l, NEW S, Holds(l, S), NEW t \in Timers, t \notin S
  PROVE  Holds(<<t>> \o l, S \union {t})
<1> DEFINE m == <<t>> \o l
<1>1. l \in Seq(Timers) /\ Len(l) \in Nat /\ DOMAIN l = 1..Len(l)
  BY SeqDomain, Zenon DEF Holds
<1>2. /\ m \in Seq(Timers) /\ Len(m) = Len(l) + 1 /\ m[1] = t
      /\ \A i \in 1..Len(l) : m[i + 1] = l[i]
  BY <1>1, PushItems, Zenon
<1>3. DOMAIN m = 1..(Len(l) + 1)
  BY <1>2, SeqDomain, Zenon
<1> HIDE DEF m
<1>4. \A i \in DOMAIN m : i = 1 \/ \E j \in DOMAIN l : i = j + 1 /\ m[i] = l[j]
  <2> SUFFICES ASSUME NEW i \in 1..(Len(l) + 1), i # 1
               PROVE  \E j \in DOMAIN l : i = j + 1 /\ m[i] = l[j]
    BY <1>3, Zenon
  <2>1. i - 1 \in 1..Len(l) /\ i = (i - 1) + 1
    BY <1>1
  <2> QED
    BY <1>1, <1>2, <2>1, Zenon
<1>5. \A j \in DOMAIN l : l[j] \in S
  BY Zenon DEF Holds, Range
<1>6. IsInjective(m)
  <2> SUFFICES ASSUME NEW i \in DOMAIN m, NEW j \in DOMAIN m, m[i] = m[j] PROVE i = j
    BY Zenon DEF IsInjective
  <2>1. CASE i = 1 \/ j = 1
    BY <1>2, <1>4, <1>5, <2>1
  <2>2. CASE i # 1 /\ j # 1
    BY <1>4, <2>2, Zenon DEF Holds, IsInjective
  <2> QED
    BY <2>1, <2>2, Zenon
<1>7. Range(m) = S \union {t}
  <2>1. Range(m) \subseteq S \union {t}
    BY <1>2, <1>4, <1>5 DEF Range
  <2>2. t \in Range(m)
    <3>1. 1 \in DOMAIN m
      BY <1>1, <1>3
    <3> QED
      BY <1>2, <3>1, Zenon DEF Range
  <2>3. ASSUME NEW u \in S PROVE u \in Range(m)
    <3>1. PICK j \in 1..Len(l) : l[j] = u
      BY <1>1, Zenon DEF Holds, Range
    <3>2. j + 1 \in DOMAIN m /\ m[j + 1] = u
      BY <1>1, <1>2, <1>3, <3>1
    <3> QED
      BY <3>2, Zenon DEF Range
  <2> QED
    BY <2>1, <2>2, <2>3, Zenon
<1> QED
  BY <1>2, <1>6, <1>7, Zenon DEF Holds, m

\* pop of an element of the list.
LEMMA PopHolds ==
  ASSUME NEW l, NEW S, Holds(l, S), NEW t \in S
  PROVE  Holds(RemoveAt(l, NodeOf(l, t)), S \ {t})
<1> DEFINE k == NodeOf(l, t)
           m == RemoveAt(l, k)
<1>1. l \in Seq(Timers) /\ Len(l) \in Nat /\ DOMAIN l = 1..Len(l)
  BY SeqDomain, Zenon DEF Holds
<1>2. k \in 1..Len(l) /\ l[k] = t /\ \A i \in 1..Len(l) : l[i] = t => i = k
  BY HoldsNode, Zenon
<1> HIDE DEF k
<1>3. /\ m \in Seq(Timers) /\ Len(m) = Len(l) - 1
      /\ \A i \in 1..(Len(l) - 1) : m[i] = IF i < k THEN l[i] ELSE l[i + 1]
  BY <1>1, <1>2, RemoveItems, Zenon
<1>4. DOMAIN m = 1..(Len(l) - 1)
  BY <1>3, SeqDomain, Zenon
<1> HIDE DEF m
<1> DEFINE Old(i) == IF i < k THEN i ELSE i + 1
<1>5. \A i \in DOMAIN m : Old(i) \in DOMAIN l /\ Old(i) # k /\ m[i] = l[Old(i)]
  BY <1>1, <1>2, <1>3, <1>4
<1>6. \A i, j \in DOMAIN m : Old(i) = Old(j) => i = j
  BY <1>1, <1>2, <1>4
<1>7. \A j \in DOMAIN l : j # k => \E i \in DOMAIN m : Old(i) = j
  <2> SUFFICES ASSUME NEW j \in DOMAIN l, j # k PROVE \E i \in DOMAIN m : Old(i) = j
    BY Zenon
  <2>1. CASE j < k
    <3>1. j \in DOMAIN m /\ Old(j) = j
      BY <1>1, <1>2, <1>4, <2>1
    <3> QED
      BY <3>1, Zenon
  <2>2. CASE ~(j < k)
    <3>1. j - 1 \in DOMAIN m /\ ~(j - 1 < k) /\ j - 1 + 1 = j
      BY <1>1, <1>2, <1>4, <2>2
    <3> QED
      BY <3>1, Zenon
  <2> QED
    BY <2>1, <2>2, Zenon
<1> HIDE DEF Old
<1>8. IsInjective(m)
  BY <1>5, <1>6, Zenon DEF Holds, IsInjective
<1>9. Range(m) = S \ {t}
  <2>1. ASSUME NEW i \in DOMAIN m PROVE m[i] \in S \ {t}
    BY <1>1, <1>2, <1>5, Zenon DEF Holds, Range
  <2>2. ASSUME NEW u \in S \ {t} PROVE \E i \in DOMAIN m : m[i] = u
    <3>1. PICK j \in DOMAIN l : l[j] = u
      BY Zenon DEF Holds, Range
    <3> QED
      BY <1>2, <1>5, <1>7, <3>1, Zenon
  <2> QED
    BY <2>1, <2>2, Zenon DEF Range
<1> QED
  BY <1>3, <1>8, <1>9, Zenon DEF Holds, m, k

-----------------------------------------------------------------------------
(* The wheel.                                                              *)

TimerState == [mode : {"stopped", "running", "expired"},
               duration : Durations \union {0, 1}, timeout : 0..(TicMod - 1)]
Positions == 0..(WheelSize - 1)

\* The timers that belong in the list at position p.
PlacedAt(p) == {t \in Timers : Running(t) /\ Pos(state[t].timeout) = p}

\* The wheel and the timers agree.
WheelInv ==
  /\ state \in [Timers -> TimerState]
  /\ wheel \in [Positions -> Seq(Timers)]
  /\ \A p \in Positions : Holds(wheel[p], PlacedAt(p))
  /\ nof_running = Cardinality({t \in Timers : Running(t)})

\* A timeout has a position.
LEMMA PosType == \A x \in Nat : Pos(x) \in Positions
  BY WheelAssumption DEF Pos, Positions

\* The wheel without timer t, as pop leaves it for one that runs.
LEMMA TakenOut ==
  ASSUME WheelInv, NEW t \in Timers
  PROVE  LET w == IF Running(t) THEN Pop(wheel, t) ELSE wheel
         IN  /\ w \in [Positions -> Seq(Timers)]
             /\ \A p \in Positions : Holds(w[p], PlacedAt(p) \ {t})
<1>1. CASE Running(t)
  <2> DEFINE q == Pos(state[t].timeout)
             l == RemoveAt(wheel[q], NodeOf(wheel[q], t))
  <2>1. q \in Positions
    <3>1. state[t].timeout \in Nat
      BY WheelAssumption DEF WheelInv, TimerState
    <3> QED
      BY <3>1, PosType, Zenon
  <2>2. t \in PlacedAt(q) /\ \A p \in Positions : p # q => t \notin PlacedAt(p)
    BY <1>1, Zenon DEF PlacedAt
  <2>3. Holds(l, PlacedAt(q) \ {t})
    BY <2>1, <2>2, PopHolds, Zenon DEF WheelInv
  <2>4. Pop(wheel, t) = [wheel EXCEPT ![q] = l]
    BY Zenon DEF Pop
  <2> HIDE DEF q, l
  <2>5. Pop(wheel, t) \in [Positions -> Seq(Timers)]
    BY <2>1, <2>3, <2>4, Zenon DEF WheelInv, Holds
  <2>6. ASSUME NEW p \in Positions PROVE Holds(Pop(wheel, t)[p], PlacedAt(p) \ {t})
    <3>1. CASE p = q
      BY <2>1, <2>3, <2>4, <3>1, Zenon DEF WheelInv
    <3>2. CASE p # q
      <4>1. Pop(wheel, t)[p] = wheel[p] /\ PlacedAt(p) \ {t} = PlacedAt(p)
        BY <2>2, <2>4, <3>2, Zenon DEF WheelInv
      <4> QED
        BY <4>1, Zenon DEF WheelInv
    <3> QED
      BY <3>1, <3>2, Zenon
  <2> QED
    BY <1>1, <2>5, <2>6, Zenon
<1>2. CASE ~Running(t)
  <2>1. \A p \in Positions : PlacedAt(p) \ {t} = PlacedAt(p)
    BY <1>2, Zenon DEF PlacedAt
  <2> QED
    BY <1>2, <2>1, Zenon DEF WheelInv
<1> QED
  BY <1>1, <1>2, Zenon

\* The timers that run, before and after one of them stops or starts.
LEMMA RunningCount ==
  ASSUME NEW t \in Timers
  PROVE  LET R == {u \in Timers : Running(u)}
         IN  /\ IsFiniteSet(R) /\ Cardinality(R) \in 0..Cardinality(Timers)
             /\ Cardinality(R \ {t}) = IF Running(t) THEN Cardinality(R) - 1 ELSE Cardinality(R)
             /\ Cardinality(R \union {t}) = IF Running(t) THEN Cardinality(R) ELSE Cardinality(R) + 1
<1> DEFINE R == {u \in Timers : Running(u)}
<1>1. R \subseteq Timers /\ (t \in R <=> Running(t))
  BY Zenon
<1> HIDE DEF R
<1>2. IsFiniteSet(R) /\ Cardinality(R) <= Cardinality(Timers)
  BY <1>1, WheelAssumption, FS_Subset, Zenon
<1>3. Cardinality(R) \in Nat /\ Cardinality(Timers) \in Nat
  BY <1>2, WheelAssumption, FS_CardinalityType, Zenon
<1>4. Cardinality(R \ {t}) = IF t \in R THEN Cardinality(R) - 1 ELSE Cardinality(R)
  BY <1>2, FS_RemoveElement, Zenon
<1>5. Cardinality(R \union {t}) = IF t \in R THEN Cardinality(R) ELSE Cardinality(R) + 1
  BY <1>2, FS_AddElement, Zenon
<1> QED
  BY <1>1, <1>2, <1>3, <1>4, <1>5 DEF R

\* Timer t is stopped, expires, is released or is set anew: it is taken from
\* the wheel if it ran.
LEMMA StopKeepsWheel ==
  ASSUME WheelInv, NEW t \in Timers, NEW s \in TimerState, s.mode # "running",
         state' = [state EXCEPT ![t] = s],
         wheel' = IF Running(t) THEN Pop(wheel, t) ELSE wheel,
         nof_running' = IF Running(t) THEN nof_running - 1 ELSE nof_running
  PROVE  WheelInv'
<1>1. /\ state' \in [Timers -> TimerState] /\ state'[t] = s
      /\ \A u \in Timers : u # t => state'[u] = state[u]
  BY Zenon DEF WheelInv
<1>2. \A p : PlacedAt(p)' = PlacedAt(p) \ {t}
  BY <1>1, Zenon DEF PlacedAt, Running
<1>3. {u \in Timers : Running(u)}' = {u \in Timers : Running(u)} \ {t}
  BY <1>1, Zenon DEF Running
<1>4. nof_running' = Cardinality({u \in Timers : Running(u)}')
  BY <1>3, RunningCount, Zenon DEF WheelInv
<1>5. wheel' \in [Positions -> Seq(Timers)] /\ \A p \in Positions : Holds(wheel'[p], PlacedAt(p)')
  BY <1>2, TakenOut, Zenon
<1> QED
  BY <1>1, <1>4, <1>5, Zenon DEF WheelInv

\* The timeout that start_run_ computes.
LEMMA TimeoutType ==
  ASSUME NEW x \in Nat
  PROVE  x % TicMod \in 0..(TicMod - 1) /\ x % TicMod \in Nat
  BY WheelAssumption

\* start_run_ links the timer at the position of its new timeout, whether it
\* ran at this position, at another one or not at all.
LEMMA StartKeepsWheel ==
  ASSUME WheelInv, NEW t \in Timers, NEW d \in Durations \union {0, 1},
         cur_time \in 0..(TicMod - 1), start_run_(t, d)
  PROVE  WheelInv'
<1> DEFINE timeout == (cur_time + d) % TicMod
           q == Pos(timeout)
           s == [mode |-> "running", duration |-> d, timeout |-> timeout]
           w == IF Running(t) THEN Pop(wheel, t) ELSE wheel
<1>1. timeout \in 0..(TicMod - 1) /\ q \in Positions
  <2>1. cur_time + d \in Nat
    BY WheelAssumption
  <2> QED
    BY <2>1, TimeoutType, PosType, Zenon
<1>2. /\ state' = [state EXCEPT ![t] = s]
      /\ wheel' = IF Running(t) /\ Pos(state[t].timeout) = q THEN wheel ELSE PushFront(w, q, t)
      /\ nof_running' = IF Running(t) THEN nof_running ELSE nof_running + 1
  BY Zenon DEF start_run_
<1>3. s \in TimerState /\ s.mode = "running" /\ Pos(s.timeout) = q
  BY <1>1, Zenon DEF TimerState
<1>4. /\ w \in [Positions -> Seq(Timers)]
      /\ \A p \in Positions : Holds(w[p], PlacedAt(p) \ {t})
  BY TakenOut, Zenon
<1> HIDE DEF timeout, q, s, w
<1>5. /\ state' \in [Timers -> TimerState] /\ state'[t] = s
      /\ \A u \in Timers : u # t => state'[u] = state[u]
  BY <1>2, <1>3, Zenon DEF WheelInv
<1>6. \A p : PlacedAt(p)' = IF p = q THEN (PlacedAt(p) \ {t}) \union {t} ELSE PlacedAt(p) \ {t}
  BY <1>3, <1>5, Zenon DEF PlacedAt, Running
<1>7. nof_running' = Cardinality({u \in Timers : Running(u)}')
  <2>1. {u \in Timers : Running(u)}' = {u \in Timers : Running(u)} \union {t}
    BY <1>3, <1>5, Zenon DEF Running
  <2> QED
    BY <1>2, <2>1, RunningCount, Zenon DEF WheelInv
<1>8. CASE Running(t) /\ Pos(state[t].timeout) = q
  <2>1. \A p : PlacedAt(p)' = PlacedAt(p)
    BY <1>6, <1>8 DEF PlacedAt
  <2>2. wheel' = wheel
    BY <1>2, <1>8, Zenon
  <2> QED
    BY <1>5, <1>7, <2>1, <2>2, Zenon DEF WheelInv
<1>9. CASE ~(Running(t) /\ Pos(state[t].timeout) = q)
  <2>1. wheel' = [w EXCEPT ![q] = <<t>> \o w[q]]
    BY <1>2, <1>9, Zenon DEF PushFront
  <2>2. Holds(<<t>> \o w[q], (PlacedAt(q) \ {t}) \union {t})
    BY <1>1, <1>4, PushHolds, Zenon
  <2>3. wheel' \in [Positions -> Seq(Timers)]
    BY <1>1, <1>4, <2>1, <2>2, Zenon DEF Holds
  <2>4. ASSUME NEW p \in Positions PROVE Holds(wheel'[p], PlacedAt(p)')
    <3>1. CASE p = q
      BY <1>1, <1>4, <1>6, <2>1, <2>2, <3>1, Zenon
    <3>2. CASE p # q
      BY <1>4, <1>6, <2>1, <3>2, Zenon
    <3> QED
      BY <3>1, <3>2, Zenon
  <2> QED
    BY <1>5, <1>7, <2>3, <2>4, Zenon DEF WheelInv
<1> QED
  BY <1>8, <1>9, Zenon

\* stop_all empties every list.
LEMMA StopAllKeepsWheel ==
  ASSUME WheelInv, stop_all
  PROVE  WheelInv'
<1>1. state' = [t \in Timers |-> IF Running(t) THEN [state[t] EXCEPT !.mode = "stopped"] ELSE state[t]]
      /\ wheel' = [p \in DOMAIN wheel |-> <<>>] /\ nof_running' = 0
  BY Zenon DEF stop_all
<1>2. \A t \in Timers : state'[t] \in TimerState /\ state'[t].mode # "running"
  BY <1>1, Zenon DEF WheelInv, TimerState, Running
<1>3. state' \in [Timers -> TimerState]
  BY <1>1, <1>2, Zenon
<1>4. (\A p : PlacedAt(p)' = {}) /\ {t \in Timers : Running(t)}' = {}
  BY <1>2, Zenon DEF PlacedAt, Running
<1>5. <<>> \in Seq(Timers) /\ DOMAIN <<>> = {}
  OBVIOUS
<1>6. Holds(<<>>, {})
  BY <1>5, Zenon DEF Holds, IsInjective, Range
<1>7. wheel' \in [Positions -> Seq(Timers)] /\ \A p \in Positions : wheel'[p] = <<>>
  BY <1>1, <1>5, Zenon DEF WheelInv
<1>8. nof_running' = Cardinality({t \in Timers : Running(t)}')
  BY <1>1, <1>4, FS_EmptySet, Zenon
<1> QED
  BY <1>3, <1>4, <1>6, <1>7, <1>8, Zenon DEF WheelInv

-----------------------------------------------------------------------------
(* The inductive invariant: the wheel, and the types of the rest.          *)

TInv ==
  /\ WheelInv
  /\ callback \subseteq allocated /\ allocated \subseteq Timers
  /\ cur_time \in 0..(TicMod - 1) /\ pc \in {"idle", "loop", "callback"}
  /\ {it, calling} \subseteq Timers \union {NoTimer} /\ exposed \subseteq Timers

\* Initially every list is empty.
LEMMA InitTInv == Init => TInv
<1> SUFFICES ASSUME Init PROVE TInv
  BY Zenon
<1>1. 0 \in 0..(TicMod - 1)
  BY WheelAssumption
<1>2. Unset \in TimerState /\ Unset.mode = "stopped"
  BY <1>1, Zenon DEF Unset, TimerState
<1>3. state \in [Timers -> TimerState] /\ \A t \in Timers : ~Running(t)
  BY <1>2, Zenon DEF Init, Running
<1>4. (\A p : PlacedAt(p) = {}) /\ {t \in Timers : Running(t)} = {}
  BY <1>3, Zenon DEF PlacedAt
<1>5. <<>> \in Seq(Timers) /\ DOMAIN <<>> = {}
  OBVIOUS
<1>6. Holds(<<>>, {})
  BY <1>5, Zenon DEF Holds, IsInjective, Range
<1>7. wheel \in [Positions -> Seq(Timers)] /\ \A p \in Positions : wheel[p] = <<>>
  BY <1>5, Zenon DEF Init, Positions
<1>8. nof_running = Cardinality({t \in Timers : Running(t)})
  BY <1>4, FS_EmptySet, Zenon DEF Init
<1>9. WheelInv
  BY <1>3, <1>4, <1>6, <1>7, <1>8, Zenon DEF WheelInv
<1> QED
  BY <1>1, <1>9, Zenon DEF Init, TInv

\* What operator++ of the iterator returns.
LEMMA NextNodeType ==
  ASSUME WheelInv, NEW t
  PROVE  NextNode(t) \in Timers \union {NoTimer}
<1> DEFINE in == {p \in DOMAIN wheel : Contains(wheel[p], t)}
           l == wheel[CHOOSE p \in in : TRUE]
           i == NodeOf(l, t)
<1>1. CASE in = {}
  BY <1>1, Zenon DEF NextNode
<1>2. CASE in # {}
  <2>1. (CHOOSE p \in in : TRUE) \in in
    BY <1>2, Zenon
  <2>2. l \in Seq(Timers) /\ \E j \in 1..Len(l) : l[j] = t
    BY <2>1, Zenon DEF WheelInv, Contains
  <2>3. NextNode(t) = IF i = Len(l) THEN NoTimer ELSE l[i + 1]
    BY <1>2, Zenon DEF NextNode
  <2> HIDE DEF l
  <2>4. DOMAIN l = 1..Len(l) /\ Len(l) \in Nat
    BY <2>2, SeqDomain, Zenon
  <2>5. i \in 1..Len(l)
    BY <2>2, <2>4, Zenon DEF NodeOf
  <2> HIDE DEF i
  <2>6. i # Len(l) => i + 1 \in 1..Len(l)
    <3>1. \A n \in Nat : \A k \in 1..n : k # n => k + 1 \in 1..n
      OBVIOUS
    <3>2. Len(l) \in Nat
      BY <2>4, Zenon
    <3> QED
      BY <2>5, <3>1, <3>2, Zenon
  <2>7. i # Len(l) => l[i + 1] \in Timers
    BY <2>2, <2>6, SeqItem, Zenon
  <2> QED
    BY <2>3, <2>7, Zenon
<1> QED
  BY <1>1, <1>2, Zenon

\* stop_timer_ leaves a timer that does not run alone.
LEMMA StopTimerKeepsWheel ==
  ASSUME WheelInv, NEW t \in Timers, NEW mode \in {"stopped", "expired"}, stop_timer_(t, mode)
  PROVE  WheelInv'
<1> DEFINE s == IF Running(t) THEN [state[t] EXCEPT !.mode = mode] ELSE state[t]
<1>1. s \in TimerState /\ s.mode # "running"
  BY Zenon DEF WheelInv, TimerState, Running
<1>2. state' = [state EXCEPT ![t] = s]
  BY Zenon DEF stop_timer_, WheelInv
<1> HIDE DEF s
<1> QED
  BY <1>1, <1>2, StopKeepsWheel, Zenon DEF stop_timer_

\* What is exposed are timers.
LEMMA ExposesType ==
  ASSUME TInv, NEW S \in SUBSET Timers, UNCHANGED exposed \/ Exposes(S)
  PROVE  exposed' \subseteq Timers
  BY Zenon DEF TInv, Exposes

\* A duration that is asked for, as set_ takes it.
LEMMA AskedType ==
  ASSUME NEW d \in Durations
  PROVE  AtLeastOne(d) \in Durations \union {0, 1}
  BY Zenon DEF AtLeastOne

\* A user's call keeps the invariant, whatever step_all is doing.
LEMMA UserTInv ==
  ASSUME TInv, NEW t \in Timers,
         \/ alloc_timer(t) \/ run(t) \/ stop(t) \/ release(t)
         \/ \E d \in Durations, cb \in BOOLEAN : set(t, d, cb)
  PROVE  TInv'
<1>1. UNCHANGED <<cur_time, pc, it, calling>> /\ exposed' \subseteq Timers
  <2>1. UNCHANGED exposed \/ Exposes({t})
    BY Zenon DEF alloc_timer, run, stop, release, set
  <2>2. exposed' \subseteq Timers
    BY <2>1, ExposesType, Zenon
  <2>3. UNCHANGED <<cur_time, pc, it, calling>>
    BY Zenon DEF alloc_timer, run, stop, release, set, NotUsers
  <2> QED
    BY <2>2, <2>3, Zenon
<1>2. callback' \subseteq allocated' /\ allocated' \subseteq Timers
  BY Zenon DEF TInv, alloc_timer, run, stop, release, set
<1>3. WheelInv /\ cur_time \in 0..(TicMod - 1) /\ state \in [Timers -> TimerState]
      /\ state[t].duration \in Durations \union {0, 1}
  BY Zenon DEF TInv, WheelInv, TimerState
<1>4. Unset \in TimerState /\ Unset.mode # "running"
      /\ \A d \in Durations \union {0, 1} : [Unset EXCEPT !.duration = d] \in TimerState
                              /\ [Unset EXCEPT !.duration = d].mode # "running"
  <2>1. 0 \in 0..(TicMod - 1)
    BY WheelAssumption
  <2> QED
    BY <2>1, Zenon DEF Unset, TimerState
<1>5. CASE alloc_timer(t)
  <2>1. WheelInv'
    BY <1>3, <1>5, Zenon DEF alloc_timer, WheelInv, PlacedAt, Running
  <2> QED
    BY <1>1, <1>2, <2>1, Zenon DEF TInv
<1>6. CASE run(t)
  <2>1. start_run_(t, state[t].duration)
    BY <1>6, Zenon DEF run
  <2>2. WheelInv'
    BY <1>3, <2>1, StartKeepsWheel, Zenon
  <2> QED
    BY <1>1, <1>2, <2>2 DEF TInv
<1>7. CASE stop(t)
  <2>1. WheelInv'
    BY <1>3, <1>7, StopTimerKeepsWheel, Zenon DEF stop
  <2> QED
    BY <1>1, <1>2, <2>1 DEF TInv
<1>8. CASE release(t)
  <2>1. WheelInv'
    BY <1>3, <1>4, <1>8, StopKeepsWheel, Zenon DEF release
  <2> QED
    BY <1>1, <1>2, <2>1 DEF TInv
<1>9. ASSUME NEW d \in Durations, NEW cb \in BOOLEAN, set(t, d, cb) PROVE TInv'
  <2>1. CASE Running(t)
    <3>1. start_run_(t, AtLeastOne(d))
      BY <1>9, <2>1, Zenon DEF set
    <3>2. WheelInv'
      BY <1>3, <3>1, AskedType, StartKeepsWheel, Zenon
    <3> QED
      BY <1>1, <1>2, <3>2, Zenon DEF TInv
  <2>2. CASE ~Running(t)
    <3> DEFINE s == [Unset EXCEPT !.duration = AtLeastOne(d)]
    <3>1. state' = [state EXCEPT ![t] = s] /\ UNCHANGED <<wheel, nof_running>>
      BY <1>9, <2>2, Zenon DEF set
    <3>2. s \in TimerState /\ s.mode # "running"
      BY <1>4, AskedType, Zenon
    <3> HIDE DEF s
    <3>3. WheelInv'
      BY <1>3, <2>2, <3>1, <3>2, StopKeepsWheel, Zenon
    <3> QED
      BY <1>1, <1>2, <3>3 DEF TInv
  <2> QED
    BY <2>1, <2>2, Zenon
<1> QED
  BY <1>5, <1>6, <1>7, <1>8, <1>9, Zenon

\* A step of step_all keeps the invariant, also when its iterator was taken
\* from the list during a callback.
LEMMA StepTInv ==
  ASSUME TInv, step_all
  PROVE  TInv'
<1>1. WheelInv /\ cur_time \in 0..(TicMod - 1) /\ now \in 0..(TicMod - 1) /\ now \in Nat
  <2>1. cur_time + 1 \in Nat
    BY WheelAssumption DEF TInv
  <2> QED
    BY <2>1, TimeoutType, Zenon DEF TInv, now
<1>2. UNCHANGED users => WheelInv'
  BY <1>1, Zenon DEF users, WheelInv, PlacedAt, Running
<1>3. CASE StepBegin
  <2>1. wheel[Pos(now)] \in Seq(Timers)
    BY <1>1, PosType, Zenon DEF WheelInv
  <2>2. it' \in Timers \union {NoTimer}
    BY <1>3, <2>1 DEF StepBegin
  <2> QED
    BY <1>2, <1>3, <2>2, Zenon DEF StepBegin, TInv, users
<1>4. CASE Visit
  <2>1. it \in Timers /\ it' \in Timers \union {NoTimer}
    BY <1>1, <1>4, NextNodeType, Zenon DEF Visit, TInv
  <2>2. WheelInv'
    <3>1. CASE state[it].timeout = now
      BY <1>1, <1>4, <2>1, <3>1, StopTimerKeepsWheel, Zenon DEF Visit
    <3>2. CASE state[it].timeout # now
      BY <1>1, <1>4, <3>2, Zenon DEF Visit, WheelInv, PlacedAt, Running
    <3> QED
      BY <3>1, <3>2, Zenon
  <2>3. pc' \in {"idle", "loop", "callback"} /\ calling' \in Timers \union {NoTimer}
        /\ UNCHANGED <<allocated, callback, cur_time, exposed>>
    BY <1>4, <2>1, Zenon DEF Visit, TInv
  <2> QED
    BY <2>1, <2>2, <2>3, Zenon DEF TInv
<1>5. CASE CallbackReturns
  BY <1>2, <1>5, Zenon DEF CallbackReturns, TInv, users
<1>6. CASE StepEnd
  BY <1>1, <1>2, <1>6, Zenon DEF StepEnd, TInv, users
<1> QED
  BY <1>3, <1>4, <1>5, <1>6, Zenon DEF step_all

\* TInv is inductive.
LEMMA NextTInv == TInv /\ [Next]_vars => TInv'
<1> SUFFICES ASSUME TInv, [Next]_vars PROVE TInv'
  BY Zenon
<1>1. CASE UNCHANGED vars
  BY <1>1, Zenon DEF vars, users, TInv, WheelInv, PlacedAt, Running
<1>2. CASE stop_all
  <2>1. WheelInv'
    BY <1>2, StopAllKeepsWheel, Zenon DEF TInv
  <2> QED
    BY <1>2, <2>1, ExposesType, Zenon DEF stop_all, NotUsers, TInv
<1> QED
  BY <1>1, <1>2, UserTInv, StepTInv, Zenon DEF Next

\* The wheel holds exactly the timers that run, each once and at the position of
\* its timeout, and nof_running_timers() counts them, after any sequence of calls
\* by any thread at any point of step_all, for every size of the wheel and every
\* width of tic_t (timers.h:249-395).
THEOREM WheelAlwaysHoldsRunning == Spec => []WheelHoldsRunning
<1>1. TInv => WheelHoldsRunning
  BY Zenon DEF TInv, WheelInv, WheelHoldsRunning, Holds, PlacedAt
<1> QED
  BY <1>1, InitTInv, NextTInv, PTL DEF Spec

\* Type correctness of timer_handler.
THEOREM TimersTypeCorrect == Spec => []TypeOK
<1>1. ASSUME TInv PROVE TypeOK
  <2>1. nof_running \in 0..Cardinality(Timers)
    <3>1. {t \in Timers : Running(t)} \subseteq Timers
      BY Zenon
    <3>2. nof_running <= Cardinality(Timers) /\ nof_running \in Nat /\ Cardinality(Timers) \in Nat
      BY <1>1, <3>1, WheelAssumption, FS_Subset, FS_CardinalityType, Zenon DEF TInv, WheelInv
    <3> QED
      BY <3>2
  <2> QED
    BY <1>1, <2>1, Zenon DEF TInv, WheelInv, TypeOK, TimerState
<1> QED
  BY <1>1, InitTInv, NextTInv, PTL DEF Spec

-----------------------------------------------------------------------------
(* Tics.                                                                   *)

\* The remainder of a number below TicMod, and below twice TicMod.
LEMMA ModBelow ==
  ASSUME NEW a \in Nat
  PROVE  /\ a < TicMod => a % TicMod = a
         /\ TicMod <= a /\ a < TicMod + TicMod => a % TicMod = a - TicMod
<1> PICK T \in Nat \ {0} : T = TicMod
  BY WheelAssumption, Zenon
<1>1. a < T => a % T = a
  OBVIOUS
<1>2. T <= a /\ a < T + T => a % T = a - T
  OBVIOUS
<1> QED
  BY <1>1, <1>2, Zenon

\* The tics from cur_time to a timeout.
Left(a, c) == (a + TicMod - c) % TicMod
Tics == 0..(TicMod - 1)

\* Left without the remainder.
LEMMA LeftValue ==
  ASSUME NEW a \in Tics, NEW c \in Tics
  PROVE  Left(a, c) = IF a < c THEN a + TicMod - c ELSE a - c
<1> PICK T \in Nat \ {0} : T = TicMod
  BY WheelAssumption, Zenon
<1>1. a \in 0..(T - 1) /\ c \in 0..(T - 1)
  BY Zenon DEF Tics
<1>2. a + T - c \in Nat /\ (a < c => a + T - c < T)
      /\ (~(a < c) => T <= a + T - c /\ a + T - c < T + T /\ a + T - c - T = a - c)
  BY <1>1
<1>3. PICK x \in Nat : x = a + T - c
  BY <1>2, Zenon
<1>4. PICK r : r = x % T
  BY Zenon
<1>5. (x < T => r = x) /\ (T <= x /\ x < T + T => r = x - T)
  BY <1>4, ModBelow, Zenon
<1>6. r = IF a < c THEN a + T - c ELSE a - c
  <2>1. CASE a < c
    BY <1>1, <1>2, <1>3, <1>5, <2>1, Zenon
  <2>2. CASE ~(a < c)
    BY <1>1, <1>2, <1>3, <1>5, <2>2
  <2> QED
    BY <2>1, <2>2, Zenon
<1>7. Left(a, c) = r
  BY <1>3, <1>4, Zenon DEF Left
<1> QED
  BY <1>6, <1>7, Zenon

\* The tic after c, and the timeout of a timer that starts at c.
LEMMA TicValue ==
  ASSUME NEW c \in Tics, NEW d \in 0..TicMod
  PROVE  (c + d) % TicMod = IF c + d < TicMod THEN c + d ELSE c + d - TicMod
<1> PICK T \in Nat \ {0} : T = TicMod
  BY WheelAssumption, Zenon
<1>1. c \in 0..(T - 1) /\ d \in 0..T
  BY Zenon DEF Tics
<1>2. c + d \in Nat /\ (~(c + d < T) => T <= c + d /\ c + d < T + T)
  BY <1>1
<1>3. PICK x \in Nat : x = c + d
  BY <1>2, Zenon
<1>4. PICK r : r = x % T
  BY Zenon
<1>5. (x < T => r = x) /\ (T <= x /\ x < T + T => r = x - T)
  BY <1>4, ModBelow, Zenon
<1>6. r = IF c + d < T THEN c + d ELSE c + d - T
  BY <1>1, <1>2, <1>3, <1>5
<1>7. (c + d) % TicMod = r
  BY <1>3, <1>4, Zenon
<1> QED
  BY <1>6, <1>7, Zenon

\* A timer that starts counts from its duration, or from a whole turn.
LEMMA LeftStart ==
  ASSUME NEW c \in Tics, NEW d \in 0..TicMod
  PROVE  /\ (c + d) % TicMod \in Tics
         /\ 1 + Left((c + d) % TicMod, (c + 1) % TicMod) = IF d = 0 THEN TicMod ELSE d
<1> PICK T \in Nat \ {0} : T = TicMod
  BY WheelAssumption
<1>1. c \in 0..(T - 1) /\ d \in 0..T /\ 1 \in 0..T /\ Tics = 0..(T - 1)
  BY DEF Tics
<1>2. PICK x : x = (c + d) % T
  BY Zenon
<1>3. PICK y : y = (c + 1) % T
  BY Zenon
<1>4. x = (IF c + d < T THEN c + d ELSE c + d - T) /\ y = (IF c + 1 < T THEN c + 1 ELSE c + 1 - T)
  BY <1>1, <1>2, <1>3, TicValue, Zenon
<1>5. x \in 0..(T - 1) /\ y \in 0..(T - 1)
  BY <1>1, <1>4
<1>6. Left(x, y) = IF x < y THEN x + T - y ELSE x - y
  BY <1>1, <1>5, LeftValue, Zenon
<1>7. 1 + Left(x, y) = IF d = 0 THEN T ELSE d
  BY <1>1, <1>4, <1>5, <1>6
<1> QED
  BY <1>1, <1>2, <1>3, <1>5, <1>7, Zenon

\* A timer that runs has tics left; one when its timeout is the next tic n.  The
\* tic leaves one less, and a whole turn to the timer that had one.
LEMMA LeftStep ==
  ASSUME NEW a \in Tics, NEW n \in Tics
  PROVE  /\ Left(a, n) \in Nat /\ 1 + Left(a, n) \in 1..TicMod
         /\ 1 + Left(a, n) = 1 <=> a = n
         /\ 1 + Left(a, (n + 1) % TicMod) = IF a = n THEN TicMod ELSE Left(a, n)
<1> PICK T \in Nat \ {0} : T = TicMod
  BY WheelAssumption, Zenon
<1>1. n \in 0..(T - 1) /\ a \in 0..(T - 1) /\ Tics = 0..(T - 1) /\ 1 \in 0..T
  BY DEF Tics
<1>2. PICK m : m = (n + 1) % T
  BY Zenon
<1>3. m = IF n + 1 < T THEN n + 1 ELSE n + 1 - T
  BY <1>1, <1>2, TicValue, Zenon
<1>4. m \in 0..(T - 1)
  BY <1>1, <1>3
<1>5. Left(a, n) = (IF a < n THEN a + T - n ELSE a - n) /\ Left(a, m) = (IF a < m THEN a + T - m ELSE a - m)
  BY <1>1, <1>4, LeftValue
<1>6. Left(a, n) \in Nat /\ 1 + Left(a, n) \in 1..T /\ (1 + Left(a, n) = 1 <=> a = n)
  BY <1>1, <1>5
<1>7. 1 + Left(a, m) = IF a = n THEN T ELSE Left(a, n)
  BY <1>1, <1>3, <1>4, <1>5
<1> QED
  BY <1>2, <1>6, <1>7, Zenon

\* Division.
LEMMA DivMod ==
  ASSUME NEW w \in Nat \ {0}, NEW x \in Nat
  PROVE  \E i \in Int, r \in Int : r = x % w /\ x = w * i + r
<1> DEFINE i == x \div w
           r == x % w
<1>1. x = w * i + r /\ r \in 0..(w - 1) /\ i \in Int /\ r = x % w
  OBVIOUS
<1> HIDE DEF i, r
<1>2. r \in Int
  BY <1>1
<1> QED
  BY <1>1, <1>2, Zenon

\* A multiple of the divisor changes no remainder.
LEMMA ModPlus ==
  ASSUME NEW w \in Nat \ {0}, NEW x \in Nat, NEW y \in Nat, NEW k \in Int, x = y + w * k
  PROVE  x % w = y % w
<1> DEFINE r == x % w
           s == y % w
           i == x \div w
           j == y \div w
<1>1. x = w * i + r /\ y = w * j + s /\ r \in 0..(w - 1) /\ s \in 0..(w - 1) /\ i \in Int /\ j \in Int
  OBVIOUS
<1> HIDE DEF r, s, i, j
<1>2. PICK m \in Int : m = j + k - i
  BY <1>1
<1>3. w * m = w * j + w * k - w * i
  BY <1>1, <1>2
<1>4. r - s = w * m
  BY <1>1, <1>3
<1>5. (m >= 1 => w * m >= w) /\ (m <= -1 => w * m <= -w)
  OBVIOUS
<1>6. m = 0
  BY <1>1, <1>4, <1>5
<1>7. w * m = 0
  BY <1>6
<1> QED
  BY <1>1, <1>4, <1>7 DEF r, s

\* A timer of the slot of the next tic has one tic left, or turns of the wheel more.
LEMMA LeftInSlot ==
  ASSUME NEW a \in Tics, NEW n \in Tics, Pos(a) = Pos(n)
  PROVE  (1 + Left(a, n)) % WheelSize = 1 % WheelSize
<1> PICK T \in Nat \ {0} : T = TicMod
  BY WheelAssumption, Zenon
<1> PICK w \in Nat \ {0} : w = WheelSize
  BY WheelAssumption, Zenon
<1>1. n \in 0..(T - 1) /\ a \in 0..(T - 1) /\ T % w = 0 /\ a % w = n % w
  BY WheelAssumption, Zenon DEF Tics, Pos
<1>9. n \in Nat /\ a \in Nat
  BY <1>1
<1>2. Left(a, n) = IF a < n THEN a + T - n ELSE a - n
  BY LeftValue, Zenon
<1>3. PICK j \in Int, r \in Int : r = a % w /\ a = w * j + r
  BY <1>9, DivMod, Zenon
<1>4. PICK k \in Int, s \in Int : s = n % w /\ n = w * k + s
  BY <1>9, DivMod, Zenon
<1>5. PICK i \in Int, z \in Int : z = T % w /\ T = w * i + z
  BY DivMod, Zenon
<1>6. T = w * i + 0 /\ n = w * k + r
  BY <1>1, <1>3, <1>4, <1>5, Zenon
<1>7. \E m \in Int : 1 + Left(a, n) = 1 + w * m
  <2>1. w * i \in Int /\ w * j \in Int /\ w * k \in Int
    OBVIOUS
  <2>2. PICK A \in Int, B \in Int, C \in Int : A = w * j /\ B = w * i /\ C = w * k
    BY <2>1, Zenon
  <2>3. a = A + r /\ T = B + 0 /\ n = C + r
    BY <1>3, <1>6, <2>2, Zenon
  <2>4. a + T - n = A + B - C /\ a - n = A - C
    BY <2>3
  <2>5. w * (j + i - k) = A + B - C /\ j + i - k \in Int /\ w * (j - k) = A - C /\ j - k \in Int
    BY <2>2
  <2>6. Left(a, n) = w * (j + i - k) \/ Left(a, n) = w * (j - k)
    BY <1>2, <2>4, <2>5, Zenon
  <2> QED
    BY <2>5, <2>6, Zenon
<1>8. 1 + Left(a, n) \in Nat
  BY <1>1, <1>2
<1>10. PICK m \in Int : 1 + Left(a, n) = 1 + w * m
  BY <1>7, Zenon
<1>11. 1 \in Nat
  OBVIOUS
<1>12. (1 + Left(a, n)) % w = 1 % w
  BY <1>8, <1>10, <1>11, ModPlus
<1> QED
  BY <1>12, Zenon

-----------------------------------------------------------------------------
(* The iterator of step_all.                                               *)

\* No element of D is behind the iterator x in the list l.
Ahead(l, x, D) ==
  /\ x \in Range(l) \union {NoTimer}
  /\ x = NoTimer => Range(l) \intersect D = {}
  /\ \A i, j \in DOMAIN l : l[i] = x /\ l[j] \in D => i <= j

\* Only the elements of the list count.
LEMMA SameAhead ==
  ASSUME NEW l, NEW x, NEW D, NEW E, Ahead(l, x, D), Range(l) \intersect E \subseteq D
  PROVE  Ahead(l, x, E)
<1>1. \A j \in DOMAIN l : l[j] \in E => l[j] \in D
  BY Zenon DEF Range
<1> QED
  BY <1>1, Zenon DEF Ahead

\* step_all starts at the first node.
LEMMA BeginAhead ==
  ASSUME NEW l, NEW S, Holds(l, S), NEW D
  PROVE  Ahead(l, IF l = <<>> THEN NoTimer ELSE l[1], D)
<1>1. l \in Seq(Timers) /\ Len(l) \in Nat /\ DOMAIN l = 1..Len(l)
  BY SeqDomain, Zenon DEF Holds
<1>2. \A j \in DOMAIN l : l[j] \in Timers
  BY <1>1, SeqItem, Zenon
<1>3. CASE l = <<>>
  <2>1. DOMAIN l = {}
    BY <1>3
  <2> QED
    BY <1>3, <2>1, Zenon DEF Ahead, Range
<1>4. CASE l # <<>>
  <2>1. 1 \in DOMAIN l
    BY <1>1, <1>4, NoItems
  <2>2. l[1] \in Range(l) /\ l[1] # NoTimer
    BY <1>2, <2>1, WheelAssumption, Zenon DEF Range
  <2>3. \A i \in DOMAIN l : l[i] = l[1] => i = 1
    BY <2>1, Zenon DEF Holds, IsInjective
  <2>4. \A j \in DOMAIN l : 1 <= j
    BY <1>1
  <2> QED
    BY <1>4, <2>2, <2>3, <2>4, Zenon DEF Ahead
<1> QED
  BY <1>3, <1>4, Zenon

\* The iterator moves to the next node.
LEMMA NextAhead ==
  ASSUME NEW l, NEW S, Holds(l, S), NEW x \in S, NEW D, Ahead(l, x, D)
  PROVE  LET k == NodeOf(l, x)
             y == IF k = Len(l) THEN NoTimer ELSE l[k + 1]
         IN  y # x /\ Ahead(l, y, D \ {x})
<1> DEFINE k == NodeOf(l, x)
           y == IF k = Len(l) THEN NoTimer ELSE l[k + 1]
<1> SUFFICES y # x /\ Ahead(l, y, D \ {x})
  BY Zenon
<1>1. l \in Seq(Timers) /\ Len(l) \in Nat /\ DOMAIN l = 1..Len(l)
  BY SeqDomain, Zenon DEF Holds
<1>2. k \in 1..Len(l) /\ l[k] = x
  BY HoldsNode, Zenon
<1> HIDE DEF k
<1>3. \A j \in DOMAIN l : l[j] \in Timers
  BY <1>1, SeqItem, Zenon
<1>4. ASSUME NEW j \in DOMAIN l, l[j] \in D \ {x} PROVE k < j
  <2>1. k <= j /\ j # k
    BY <1>1, <1>2, <1>4, Zenon DEF Ahead
  <2> QED
    BY <1>1, <1>2, <2>1
<1>5. x # NoTimer
  BY <1>1, <1>2, <1>3, WheelAssumption, Zenon
<1>6. CASE k = Len(l)
  <2>1. \A j \in DOMAIN l : ~(k < j)
    BY <1>1, <1>6
  <2>2. Range(l) \intersect (D \ {x}) = {}
    BY <1>4, <2>1, Zenon DEF Range
  <2>3. \A i \in DOMAIN l : l[i] # NoTimer
    BY <1>3, WheelAssumption, Zenon
  <2> QED
    BY <1>5, <1>6, <2>2, <2>3, Zenon DEF Ahead
<1>7. CASE k # Len(l)
  <2>1. k + 1 \in DOMAIN l /\ k + 1 # k
    <3>1. \A n \in Nat : \A i \in 1..n : i # n => i + 1 \in 1..n /\ i + 1 # i
      OBVIOUS
    <3> QED
      BY <1>1, <1>2, <1>7, <3>1, Zenon
  <2>2. l[k + 1] \in Range(l) /\ l[k + 1] # NoTimer
    BY <1>3, <2>1, WheelAssumption, Zenon DEF Range
  <2>3. l[k + 1] # x /\ \A i \in DOMAIN l : l[i] = l[k + 1] => i = k + 1
    BY <1>1, <1>2, <2>1, Zenon DEF Holds, IsInjective
  <2>4. \A j \in DOMAIN l : k < j => k + 1 <= j
    BY <1>1, <1>2
  <2> QED
    BY <1>4, <1>7, <2>2, <2>3, <2>4, Zenon DEF Ahead
<1> QED
  BY <1>6, <1>7, Zenon

\* push_front of an element that is not in D.
LEMMA PushAhead ==
  ASSUME NEW l \in Seq(Timers), NEW x, NEW D, Ahead(l, x, D),
         NEW t \in Timers, t # x, t \notin D
  PROVE  Ahead(<<t>> \o l, x, D)
<1> DEFINE m == <<t>> \o l
<1>1. Len(l) \in Nat /\ DOMAIN l = 1..Len(l)
  BY SeqDomain, Zenon
<1>2. /\ m \in Seq(Timers) /\ Len(m) = Len(l) + 1 /\ m[1] = t
      /\ \A i \in 1..Len(l) : m[i + 1] = l[i]
  BY PushItems, Zenon
<1>3. DOMAIN m = 1..(Len(l) + 1)
  BY <1>2, SeqDomain, Zenon
<1> HIDE DEF m
<1>4. \A i \in DOMAIN m : i # 1 => \E j \in DOMAIN l : i = j + 1 /\ m[i] = l[j]
  <2> SUFFICES ASSUME NEW i \in 1..(Len(l) + 1), i # 1
               PROVE  \E j \in DOMAIN l : i = j + 1 /\ m[i] = l[j]
    BY <1>3, Zenon
  <2>1. i - 1 \in 1..Len(l) /\ i = (i - 1) + 1
    BY <1>1
  <2> QED
    BY <1>1, <1>2, <2>1, Zenon
<1>5. \A j \in DOMAIN l : j + 1 \in DOMAIN m /\ m[j + 1] = l[j]
  BY <1>1, <1>2, <1>3
<1>6. x \in Range(m) \union {NoTimer}
  BY <1>5, Zenon DEF Ahead, Range
<1>7. x = NoTimer => Range(m) \intersect D = {}
  BY <1>2, <1>4 DEF Ahead, Range
<1>8. ASSUME NEW i \in DOMAIN m, NEW j \in DOMAIN m, m[i] = x, m[j] \in D PROVE i <= j
  <2>1. i # 1 /\ j # 1
    BY <1>2, <1>8, Zenon
  <2>2. PICK a \in DOMAIN l : i = a + 1 /\ m[i] = l[a]
    BY <1>4, <2>1, Zenon
  <2>3. PICK b \in DOMAIN l : j = b + 1 /\ m[j] = l[b]
    BY <1>4, <2>1, Zenon
  <2>4. a <= b
    BY <1>8, <2>2, <2>3, Zenon DEF Ahead
  <2> QED
    BY <1>1, <2>2, <2>3, <2>4
<1> QED
  BY <1>6, <1>7, <1>8, Zenon DEF Ahead, m

\* pop of another element.
LEMMA PopAhead ==
  ASSUME NEW l, NEW S, Holds(l, S), NEW x, NEW D, Ahead(l, x, D), NEW t \in S, t # x
  PROVE  Ahead(RemoveAt(l, NodeOf(l, t)), x, D)
<1> DEFINE k == NodeOf(l, t)
           m == RemoveAt(l, k)
           Old(i) == IF i < k THEN i ELSE i + 1
<1>1. l \in Seq(Timers) /\ Len(l) \in Nat /\ DOMAIN l = 1..Len(l) /\ Range(l) = S
  BY SeqDomain, Zenon DEF Holds
<1>2. k \in 1..Len(l) /\ l[k] = t
  BY HoldsNode, Zenon
<1>3. Range(m) = S \ {t}
  BY PopHolds, Zenon DEF Holds
<1> HIDE DEF k
<1>4. /\ m \in Seq(Timers) /\ Len(m) = Len(l) - 1
      /\ \A i \in 1..(Len(l) - 1) : m[i] = IF i < k THEN l[i] ELSE l[i + 1]
  BY <1>1, <1>2, RemoveItems, Zenon
<1>5. DOMAIN m = 1..(Len(l) - 1)
  BY <1>4, SeqDomain, Zenon
<1> HIDE DEF m
<1>6. \A i \in DOMAIN m : Old(i) \in DOMAIN l /\ m[i] = l[Old(i)]
  BY <1>1, <1>2, <1>4, <1>5
<1>7. \A i, j \in DOMAIN m : Old(i) <= Old(j) => i <= j
  BY <1>1, <1>2, <1>5
<1> HIDE DEF Old
<1>8. x \in Range(m) \union {NoTimer} /\ (x = NoTimer => Range(m) \intersect D = {})
  BY <1>1, <1>3, Zenon DEF Ahead
<1>9. \A i, j \in DOMAIN m : m[i] = x /\ m[j] \in D => i <= j
  BY <1>6, <1>7, Zenon DEF Ahead
<1> QED
  BY <1>8, <1>9, Zenon DEF Ahead, m, k

\* A timer other than x leaves the wheel.
LEMMA TakenOutAhead ==
  ASSUME WheelInv, NEW t \in Timers, NEW x, t # x, NEW q \in Positions, NEW D,
         Ahead(wheel[q], x, D)
  PROVE  Ahead((IF Running(t) THEN Pop(wheel, t) ELSE wheel)[q], x, D)
<1>1. CASE Running(t) /\ Pos(state[t].timeout) = q
  <2>1. Pop(wheel, t)[q] = RemoveAt(wheel[q], NodeOf(wheel[q], t))
    BY <1>1, Zenon DEF Pop, WheelInv
  <2>2. Holds(wheel[q], PlacedAt(q)) /\ t \in PlacedAt(q)
    BY <1>1, Zenon DEF WheelInv, PlacedAt
  <2> QED
    BY <1>1, <2>1, <2>2, PopAhead, Zenon
<1>2. CASE ~(Running(t) /\ Pos(state[t].timeout) = q)
  BY <1>2, Zenon DEF Pop, WheelInv
<1> QED
  BY <1>1, <1>2, Zenon

-----------------------------------------------------------------------------
(* The inductive invariant of the refinement.                              *)

\* The timers that expire in the next tic, if they run.
Due == {t \in Timers : state[t].timeout = now}

\* Every timer that step_all has still to find due is at its iterator or behind,
\* unless it is exposed.
CInv ==
  /\ TInv
  /\ pc = "idle" => it = NoTimer
  /\ (pc = "callback") <=> (calling # NoTimer)
  /\ pc # "idle" => exposed = Timers \/ Ahead(wheel[Pos(now)], it, Due \ exposed)

\* The tic of step_all and its position.
LEMMA NowType == ASSUME TInv PROVE cur_time \in Tics /\ now \in Tics /\ Pos(now) \in Positions
<1>1. cur_time + 1 \in Nat
  BY WheelAssumption DEF TInv
<1> QED
  BY <1>1, TimeoutType, PosType, Zenon DEF TInv, now, Tics

\* A list contains the elements of its range.
LEMMA ContainsRange ==
  ASSUME NEW l, NEW S, Holds(l, S), NEW t
  PROVE  Contains(l, t) <=> t \in S
<1>1. DOMAIN l = 1..Len(l) /\ Range(l) = S
  BY SeqDomain, Zenon DEF Holds
<1> QED
  BY <1>1, Zenon DEF Contains, Range

\* A call during a callback that leaves some timer covered exposes the ones it
\* starts for the tic, and has left the timer of the iterator in its list.
LEMMA Covered ==
  ASSUME TInv, NEW S \in SUBSET Timers, Exposes(S), pc = "callback", exposed' # Timers
  PROVE  /\ exposed # Timers /\ exposed \subseteq exposed'
         /\ it = NoTimer \/ Contains(wheel'[Pos(now)], it)
         /\ \A t \in S : state'[t].mode = "running" /\ state'[t].timeout = now => t \in exposed'
<1>1. ~(it # NoTimer /\ ~Contains(wheel'[Pos(now)], it))
  BY Zenon DEF Exposes
<1>2. exposed' = exposed \union {t \in S : state'[t].mode = "running" /\ state'[t].timeout = now}
  BY <1>1, Zenon DEF Exposes
<1>3. exposed \subseteq Timers
  BY Zenon DEF TInv
<1> QED
  BY <1>1, <1>2, <1>3, Zenon

\* A user's call keeps the invariant if it keeps the due timers ahead.
LEMMA CallCInv ==
  ASSUME CInv, TInv', NotUsers,
         pc = "callback" => exposed' = Timers \/ Ahead(wheel'[Pos(now)], it, Due' \ exposed')
  PROVE  CInv'
<1>1. UNCHANGED <<cur_time, pc, it, calling>> /\ now' = now /\ pc # "loop"
  BY Zenon DEF NotUsers, now
<1>2. pc' # "idle" => pc = "callback"
  BY <1>1, Zenon DEF CInv, TInv
<1>3. (pc = "idle" => it = NoTimer) /\ (pc = "callback" <=> calling # NoTimer)
  BY Zenon DEF CInv
<1>4. pc' # "idle" => exposed' = Timers \/ Ahead(wheel[Pos(now)], it, Due \ exposed)'
  BY <1>1, <1>2, Zenon
<1> QED
  BY <1>1, <1>3, <1>4, Zenon DEF CInv

\* A user stops, sets or releases a timer.
LEMMA StopCInv ==
  ASSUME CInv, TInv', NEW t \in Timers, NEW s, s.mode # "running",
         state' = [state EXCEPT ![t] = s],
         wheel' = IF Running(t) THEN Pop(wheel, t) ELSE wheel,
         NotUsers, Exposes({t})
  PROVE  CInv'
<1> DEFINE q == Pos(now)
<1>1. /\ state'[t] = s /\ \A u \in Timers : u # t => state'[u] = state[u]
      /\ now' = now
  BY Zenon DEF CInv, TInv, WheelInv, NotUsers, now
<1>2. ASSUME pc = "callback", exposed' # Timers PROVE Ahead(wheel'[q], it, Due' \ exposed')
  <2>1. TInv /\ WheelInv /\ q \in Positions /\ {t} \in SUBSET Timers
    BY NowType, Zenon DEF CInv, TInv
  <2>2. exposed # Timers /\ exposed \subseteq exposed' /\ (it = NoTimer \/ Contains(wheel'[q], it))
    BY <1>2, <2>1, Covered, Zenon
  <2>3. Ahead(wheel[q], it, Due \ exposed)
    BY <1>2, <2>2, Zenon DEF CInv
  <2>4. Holds(wheel'[q], PlacedAt(q) \ {t})
    BY <2>1, TakenOut, Zenon
  <2>5. t # it
    BY <2>2, <2>4, ContainsRange, WheelAssumption, Zenon
  <2>6. Ahead(wheel'[q], it, Due \ exposed)
    BY <2>1, <2>3, <2>5, TakenOutAhead, Zenon
  <2>7. Range(wheel'[q]) = PlacedAt(q) \ {t}
    BY <2>4, Zenon DEF Holds
  <2>8. Range(wheel'[q]) \intersect (Due' \ exposed') \subseteq Due \ exposed
    BY <1>1, <2>2, <2>7, Zenon DEF Due, PlacedAt
  <2> QED
    BY <2>6, <2>8, SameAhead, Zenon
<1> QED
  BY <1>2, CallCInv, Zenon

\* A user starts a timer.
LEMMA StartCInv ==
  ASSUME CInv, TInv', NEW t \in Timers, NEW d, start_run_(t, d), NotUsers, Exposes({t})
  PROVE  CInv'
<1> DEFINE q == Pos(now)
           timeout == (cur_time + d) % TicMod
           s == [mode |-> "running", duration |-> d, timeout |-> timeout]
           w == IF Running(t) THEN Pop(wheel, t) ELSE wheel
           D == Due' \ exposed'
<1>1. /\ state' = [state EXCEPT ![t] = s] /\ s.timeout = timeout /\ s.mode = "running"
      /\ wheel' = IF Running(t) /\ Pos(state[t].timeout) = Pos(timeout) THEN wheel
                  ELSE PushFront(w, Pos(timeout), t)
  BY Zenon DEF start_run_
<1> HIDE DEF timeout, s
<1>2. /\ state'[t] = s /\ \A u \in Timers : u # t => state'[u] = state[u]
      /\ now' = now
  BY <1>1, Zenon DEF CInv, TInv, WheelInv, NotUsers, now
<1>3. ASSUME pc = "callback", exposed' # Timers PROVE Ahead(wheel'[q], it, D)
  <2>1. TInv /\ WheelInv /\ q \in Positions /\ {t} \in SUBSET Timers /\ Holds(wheel[q], PlacedAt(q))
    BY NowType, Zenon DEF CInv, TInv, WheelInv
  <2>2. /\ exposed # Timers /\ exposed \subseteq exposed' /\ (it = NoTimer \/ Contains(wheel'[q], it))
        /\ state'[t].mode = "running" /\ state'[t].timeout = now => t \in exposed'
    BY <1>3, <2>1, Covered, Zenon
  <2>3. Ahead(wheel[q], it, Due \ exposed)
    BY <1>3, <2>2, Zenon DEF CInv
  <2>4. t \notin D
    BY <1>1, <1>2, <2>2, Zenon DEF Due
  <2>5. D \subseteq Due \ exposed
    BY <1>2, <2>2, <2>4, Zenon DEF Due
  <2> HIDE DEF D
  <2>6. CASE Running(t) /\ Pos(state[t].timeout) = Pos(timeout)
    <3>1. wheel' = wheel
      BY <1>1, <2>6, Zenon
    <3> QED
      BY <2>3, <2>5, <3>1, SameAhead, Zenon
  <2>7. CASE ~(Running(t) /\ Pos(state[t].timeout) = Pos(timeout))
    <3>1. w \in [Positions -> Seq(Timers)] /\ Holds(w[q], PlacedAt(q) \ {t})
      BY <2>1, TakenOut, Zenon
    <3>2. wheel' = PushFront(w, Pos(timeout), t)
      BY <1>1, <2>7, Zenon
    <3>3. wheel'[q] = IF q = Pos(timeout) THEN <<t>> \o w[q] ELSE w[q]
      BY <2>1, <3>1, <3>2, Zenon DEF PushFront
    <3> HIDE DEF w
    <3>4. ASSUME t = it PROVE FALSE
      <4>1. it \in PlacedAt(q)
        BY <2>1, <2>3, <3>4, WheelAssumption, Zenon DEF Ahead, Holds
      <4>2. q # Pos(timeout)
        BY <2>7, <3>4, <4>1, Zenon DEF PlacedAt
      <4>3. ~Contains(wheel'[q], it)
        BY <3>1, <3>3, <3>4, <4>2, ContainsRange, Zenon
      <4> QED
        BY <2>2, <3>4, <4>3, WheelAssumption, Zenon
    <3>5. Ahead(w[q], it, Due \ exposed)
      BY <2>1, <2>3, <3>4, TakenOutAhead, Zenon DEF w
    <3>6. Ahead(w[q], it, D)
      BY <2>5, <3>5, SameAhead, Zenon
    <3>7. w[q] \in Seq(Timers)
      BY <2>1, <3>1, Zenon
    <3>8. Ahead(<<t>> \o w[q], it, D)
      BY <2>4, <3>4, <3>6, <3>7, PushAhead, Zenon
    <3> QED
      BY <3>3, <3>6, <3>8, Zenon
  <2> QED
    BY <2>6, <2>7, Zenon
<1> QED
  BY <1>3, CallCInv, Zenon

\* A user's call keeps the invariant.
LEMMA UserCInv ==
  ASSUME CInv, TInv', NEW t \in Timers,
         \/ alloc_timer(t) \/ run(t) \/ stop(t) \/ release(t)
         \/ \E d \in Durations, cb \in BOOLEAN : set(t, d, cb)
  PROVE  CInv'
<1>1. WheelInv /\ state \in [Timers -> TimerState]
  BY Zenon DEF CInv, TInv, WheelInv
<1>2. CASE alloc_timer(t)
  BY <1>2, Zenon DEF alloc_timer, NotUsers, CInv, now, Due
<1>3. CASE run(t)
  BY <1>3, StartCInv, Zenon DEF run
<1>4. CASE stop(t)
  <2> DEFINE s == IF Running(t) THEN [state[t] EXCEPT !.mode = "stopped"] ELSE state[t]
  <2>1. s.mode # "running" /\ state' = [state EXCEPT ![t] = s]
    BY <1>1, <1>4, Zenon DEF stop, stop_timer_, TimerState, Running
  <2> HIDE DEF s
  <2> QED
    BY <1>4, <2>1, StopCInv, Zenon DEF stop, stop_timer_
<1>5. CASE release(t)
  <2>1. Unset.mode # "running"
    BY Zenon DEF Unset
  <2> QED
    BY <1>5, <2>1, StopCInv, Zenon DEF release
<1>6. ASSUME NEW d \in Durations, NEW cb \in BOOLEAN, set(t, d, cb) PROVE CInv'
  <2>1. CASE Running(t)
    BY <1>6, <2>1, StartCInv, Zenon DEF set
  <2>2. CASE ~Running(t)
    <3> DEFINE s == [Unset EXCEPT !.duration = AtLeastOne(d)]
    <3>1. state' = [state EXCEPT ![t] = s] /\ wheel' = wheel
      BY <1>6, <2>2, Zenon DEF set
    <3>2. s.mode # "running"
      BY Zenon DEF Unset
    <3> HIDE DEF s
    <3> QED
      BY <1>6, <2>2, <3>1, <3>2, StopCInv, Zenon DEF set
  <2> QED
    BY <2>1, <2>2, Zenon
<1> QED
  BY <1>2, <1>3, <1>4, <1>5, <1>6, Zenon

\* stop_all exposes every timer, unless the iterator is at the end.
LEMMA StopAllCInv ==
  ASSUME CInv, TInv', stop_all
  PROVE  CInv'
<1> DEFINE q == Pos(now)
<1>1. wheel'[q] = <<>> /\ NotUsers /\ Exposes(Timers)
  BY NowType, Zenon DEF stop_all, CInv, TInv, WheelInv
<1>2. DOMAIN <<>> = {} /\ ~\E i \in 1..Len(<<>>) : TRUE
  OBVIOUS
<1>3. ASSUME pc = "callback", exposed' # Timers PROVE Ahead(wheel'[q], it, Due' \ exposed')
  <2>1. TInv /\ Timers \in SUBSET Timers
    BY Zenon DEF CInv
  <2>2. it = NoTimer \/ Contains(wheel'[q], it)
    BY <1>1, <1>3, <2>1, Covered, Zenon
  <2>3. it = NoTimer
    BY <1>1, <1>2, <2>2, Zenon DEF Contains
  <2> QED
    BY <1>1, <1>2, <2>3, Zenon DEF Ahead, Range
<1> QED
  BY <1>1, <1>3, CallCInv, Zenon

\* The timer that the iterator points to, while some timer is covered.
LEMMA VisitedTimer ==
  ASSUME CInv, Visit, exposed # Timers
  PROVE  /\ it \in Timers /\ Running(it)
         /\ it' # it /\ Ahead(wheel[Pos(now)], it', (Due \ exposed) \ {it})
<1> DEFINE q == Pos(now)
           l == wheel[q]
<1>1. pc = "loop" /\ it # NoTimer /\ it' = NextNode(it)
  BY Zenon DEF Visit
<1>2. Ahead(l, it, Due \ exposed) /\ q \in Positions
  BY <1>1, NowType, Zenon DEF CInv
<1>3. \A p \in Positions : Holds(wheel[p], PlacedAt(p)) /\ DOMAIN wheel = Positions
  BY Zenon DEF CInv, TInv, WheelInv
<1>4. it \in PlacedAt(q)
  BY <1>1, <1>2, <1>3, Zenon DEF Ahead, Holds
<1>5. it \in Timers /\ Running(it) /\ \A p \in Positions : it \in PlacedAt(p) => p = q
  BY <1>4, Zenon DEF PlacedAt
<1>6. ASSUME NEW p \in Positions PROVE Contains(wheel[p], it) <=> it \in PlacedAt(p)
  BY <1>3, ContainsRange, Zenon
<1>7. {p \in DOMAIN wheel : Contains(wheel[p], it)} = {q}
  BY <1>2, <1>3, <1>4, <1>5, <1>6, Zenon
<1>8. NextNode(it) = IF NodeOf(l, it) = Len(l) THEN NoTimer ELSE l[NodeOf(l, it) + 1]
  BY <1>7 DEF NextNode
<1>9. it' # it /\ Ahead(l, it', (Due \ exposed) \ {it})
  BY <1>1, <1>2, <1>3, <1>4, <1>8, NextAhead, Zenon
<1> QED
  BY <1>5, <1>9, Zenon

\* step_all keeps the invariant.
LEMMA StepCInv ==
  ASSUME CInv, TInv', step_all
  PROVE  CInv'
<1>1. TInv /\ WheelInv /\ Pos(now) \in Positions /\ Holds(wheel[Pos(now)], PlacedAt(Pos(now)))
  BY NowType, Zenon DEF CInv, TInv, WheelInv
<1>2. /\ (pc = "idle" => it = NoTimer) /\ (pc = "callback" <=> calling # NoTimer)
      /\ (pc # "idle" => exposed = Timers \/ Ahead(wheel[Pos(now)], it, Due \ exposed))
  BY Zenon DEF CInv
<1>3. CASE StepBegin
  <2>1. /\ pc = "idle" /\ pc' = "loop" /\ calling' = calling /\ exposed' = exposed
        /\ wheel' = wheel /\ now' = now /\ Due' = Due
        /\ it' = IF wheel[Pos(now)] = <<>> THEN NoTimer ELSE wheel[Pos(now)][1]
    BY <1>3, Zenon DEF StepBegin, users, now, Due
  <2>2. Ahead(wheel[Pos(now)], it', Due \ exposed)
    BY <1>1, <2>1, BeginAhead, Zenon
  <2> QED
    BY <1>2, <2>1, <2>2, Zenon DEF CInv
<1>4. CASE Visit
  <2>1. /\ it \in Timers /\ pc = "loop" /\ calling = NoTimer /\ now' = now /\ exposed' = exposed
    BY <1>1, <1>2, <1>4, Zenon DEF Visit, TInv, now
  <2>2. pc' # "idle" /\ (pc' = "callback" <=> calling' # NoTimer)
    BY <1>4, <2>1, WheelAssumption, Zenon DEF Visit
  <2>3. CASE exposed = Timers
    BY <2>1, <2>2, <2>3, Zenon DEF CInv
  <2>4. CASE exposed # Timers
    <3> DEFINE D == Due \ exposed
    <3>1. Running(it) /\ it' # it /\ Ahead(wheel[Pos(now)], it', D \ {it})
      BY <1>4, <2>4, VisitedTimer, Zenon
    <3>2. CASE state[it].timeout = now
      <4>1. wheel' = Pop(wheel, it) /\ state' = [state EXCEPT ![it].mode = "expired"]
        BY <1>4, <3>1, <3>2, Zenon DEF Visit, stop_timer_
      <4>2. \A t \in Timers : state'[t].timeout = state[t].timeout
        BY <1>1, <2>1, <4>1, Zenon DEF WheelInv, TimerState
      <4>3. Due' \ exposed' = D
        BY <2>1, <4>2, Zenon DEF Due
      <4> HIDE DEF D
      <4>4. Ahead(wheel'[Pos(now)], it', D \ {it})
        BY <1>1, <2>1, <3>1, <4>1, TakenOutAhead, Zenon
      <4>5. Range(wheel'[Pos(now)]) = PlacedAt(Pos(now)) \ {it}
        BY <1>1, <2>1, <3>1, <4>1, TakenOut, Zenon DEF Holds
      <4>6. Ahead(wheel'[Pos(now)], it', Due' \ exposed')
        BY <4>3, <4>4, <4>5, SameAhead, Zenon
      <4> QED
        BY <2>1, <2>2, <4>6, Zenon DEF CInv
    <3>3. CASE state[it].timeout # now
      <4>1. UNCHANGED <<state, wheel>>
        BY <1>4, <3>3, Zenon DEF Visit
      <4>2. Due' = Due /\ D \ {it} = D
        BY <2>1, <3>3, <4>1, Zenon DEF Due
      <4>3. Ahead(wheel'[Pos(now)], it', Due' \ exposed')
        BY <2>1, <3>1, <4>1, <4>2, Zenon
      <4> QED
        BY <2>1, <2>2, <4>3, Zenon DEF CInv
    <3> QED
      BY <3>2, <3>3, Zenon
  <2> QED
    BY <2>3, <2>4, Zenon
<1>5. CASE CallbackReturns
  <2>1. /\ pc = "callback" /\ pc' = "loop" /\ calling' = NoTimer /\ it' = it /\ exposed' = exposed
        /\ wheel' = wheel /\ now' = now /\ Due' = Due
    BY <1>5, Zenon DEF CallbackReturns, users, now, Due
  <2> QED
    BY <1>2, <2>1, Zenon DEF CInv
<1>6. CASE StepEnd
  BY <1>2, <1>6, Zenon DEF StepEnd, CInv
<1> QED
  BY <1>3, <1>4, <1>5, <1>6, Zenon DEF step_all

\* CInv is inductive.
LEMMA NextCInv == CInv /\ [Next]_vars => CInv'
<1> SUFFICES ASSUME CInv, [Next]_vars PROVE CInv'
  BY Zenon
<1>1. TInv'
  BY NextTInv, Zenon DEF CInv
<1>2. CASE UNCHANGED vars
  BY <1>1, <1>2, Zenon DEF vars, users, CInv, now, Due
<1> QED
  BY <1>1, <1>2, UserCInv, StopAllCInv, StepCInv, Zenon DEF Next

-----------------------------------------------------------------------------
(* The refinement.                                                         *)

\* The tics that a timer has left, before and after a step that takes no time.
LEMMA LeftIs ==
  ASSUME TInv, NEW t \in Timers
  PROVE  /\ left[t] = IF Running(t) THEN 1 + Left(state[t].timeout, now) ELSE 0
         /\ state[t].timeout \in Tics /\ now \in Tics
         /\ left[t] = 0 <=> ~Running(t)
         /\ left[t] = 1 <=> Running(t) /\ state[t].timeout = now
<1>1. left[t] = IF Running(t) THEN 1 + Left(state[t].timeout, now) ELSE 0
  BY Zenon DEF left, Left
<1>2. state[t].timeout \in Tics /\ now \in Tics
  BY NowType, Zenon DEF TInv, WheelInv, TimerState, Tics
<1>3. /\ 1 + Left(state[t].timeout, now) \in 1..TicMod
      /\ 1 + Left(state[t].timeout, now) = 1 <=> state[t].timeout = now
  BY <1>2, LeftStep, Zenon
<1>4. \A x \in 1..TicMod : x # 0
  BY WheelAssumption
<1>5. 0 # 1
  OBVIOUS
<1> QED
  BY <1>1, <1>2, <1>3, <1>4, <1>5, Zenon

\* A timer that is linked where step_all walks is in its slot.
LEMMA InSlotIs ==
  ASSUME TInv, NEW t \in Timers, Running(t), Pos(state[t].timeout) = Pos(now)
  PROVE  Countdown!InSlot(t)
<1>1. left[t] = 1 + Left(state[t].timeout, now) /\ left[t] # 0 /\ state[t].timeout \in Tics /\ now \in Tics
  BY LeftIs, Zenon
<1>2. (1 + Left(state[t].timeout, now)) % WheelSize = 1 % WheelSize
  BY <1>1, LeftInSlot, Zenon
<1> QED
  BY <1>1, <1>2, Zenon DEF Countdown!InSlot

\* What a call upon the timers of S exposes, the abstract timers may expose.
LEMMA ExposesStep ==
  ASSUME CInv, TInv', NEW S \in SUBSET Timers, Exposes(S), UNCHANGED cur_time, pc # "loop",
         \A u \in Timers : u \notin S => state'[u] = state[u]
  PROVE  Countdown!Exposes(S)
<1> DEFINE q == Pos(now)
           E == {t \in S : calling # NoTimer /\ left'[t] = 1}
<1>1. TInv /\ WheelInv /\ WheelInv' /\ now' = now /\ now \in Tics /\ q \in Positions
      /\ (pc = "callback" <=> calling # NoTimer) /\ exposed \subseteq Timers
  BY NowType, Zenon DEF CInv, TInv, now
<1>2. CASE pc # "callback"
  <2>1. exposed' = exposed /\ E = {}
    BY <1>1, <1>2, Zenon DEF Exposes
  <2>2. exposed' = exposed \union E
    BY <2>1, Zenon
  <2> QED
    BY <2>2, Zenon DEF Countdown!Exposes
<1>3. CASE pc = "callback" /\ it # NoTimer /\ ~Contains(wheel'[q], it)
  <2>1. exposed' = Timers
    BY <1>3, Zenon DEF Exposes
  <2>2. CASE exposed = Timers
    <3>1. exposed' = exposed \union E
      BY <2>1, <2>2, Zenon
    <3> QED
      BY <3>1, Zenon DEF Countdown!Exposes
  <2>3. CASE exposed # Timers
    <3>1. it \in PlacedAt(q)
      BY <1>1, <1>3, <2>3, Zenon DEF CInv, WheelInv, Ahead, Holds
    <3>2. it \in Timers /\ Running(it) /\ Pos(state[it].timeout) = q
      BY <3>1, Zenon DEF PlacedAt
    <3>3. Holds(wheel'[q], {t \in Timers : state'[t].mode = "running" /\ Pos(state'[t].timeout) = q})
      BY <1>1, Zenon DEF WheelInv, PlacedAt, Running
    <3>4. it \in S
      <4>1. it \notin {t \in Timers : state'[t].mode = "running" /\ Pos(state'[t].timeout) = q}
        BY <1>3, <3>3, ContainsRange, Zenon
      <4> QED
        BY <3>2, <4>1, Zenon DEF Running
    <3>5. Countdown!InSlot(it)
      BY <1>1, <3>2, InSlotIs, Zenon
    <3> QED
      BY <1>1, <1>3, <2>1, <3>4, <3>5, Zenon DEF Countdown!Exposes
  <2> QED
    BY <2>2, <2>3, Zenon
<1>4. CASE pc = "callback" /\ ~(it # NoTimer /\ ~Contains(wheel'[q], it))
  <2>1. exposed' = exposed \union {t \in S : state'[t].mode = "running" /\ state'[t].timeout = now}
    BY <1>4, Zenon DEF Exposes
  <2>2. ASSUME NEW t \in S PROVE left'[t] = 1 <=> state'[t].mode = "running" /\ state'[t].timeout = now
    <3>1. state'[t].timeout \in Tics
      BY <1>1, Zenon DEF WheelInv, TimerState, Tics
    <3>2. left'[t] = IF state'[t].mode = "running" THEN 1 + Left(state'[t].timeout, now) ELSE 0
      BY <1>1, Zenon DEF left, Left, Running
    <3>3. 1 + Left(state'[t].timeout, now) = 1 <=> state'[t].timeout = now
      BY <1>1, <3>1, LeftStep, Zenon
    <3>4. 0 # 1
      OBVIOUS
    <3> QED
      BY <3>2, <3>3, <3>4, Zenon
  <2>3. exposed' = exposed \union E
    BY <1>1, <1>4, <2>1, <2>2, Zenon
  <2> QED
    BY <2>3, Zenon DEF Countdown!Exposes
<1> QED
  BY <1>2, <1>3, <1>4, Zenon

\* The refinement mapping, before and after a step.
LEMMA Mapping ==
  /\ DOMAIN left = Timers /\ left' = [u \in Timers |-> left'[u]]
  /\ DOMAIN duration = Timers /\ duration' = [u \in Timers |-> duration'[u]]
  /\ \A u \in Timers :
       /\ left[u] = IF state[u].mode = "running" THEN 1 + Left(state[u].timeout, now) ELSE 0
       /\ left'[u] = IF state'[u].mode = "running" THEN 1 + Left(state'[u].timeout, now') ELSE 0
       /\ duration[u] = state[u].duration /\ duration'[u] = state'[u].duration
  BY Zenon DEF left, duration, Left, Running

\* A call that changes timer t, as the abstract timers see it.
LEMMA CallStep ==
  ASSUME CInv, TInv', NEW t \in Timers, NEW s, NEW x, state' = [state EXCEPT ![t] = s],
         x = IF s.mode = "running" THEN 1 + Left(s.timeout, now) ELSE 0,
         NotUsers, Exposes({t})
  PROVE  /\ left' = [left EXCEPT ![t] = x] /\ duration' = [duration EXCEPT ![t] = s.duration]
         /\ Countdown!Exposes({t}) /\ UNCHANGED calling
<1>1. /\ state'[t] = s /\ \A u \in Timers : u # t => state'[u] = state[u]
      /\ UNCHANGED <<cur_time, calling>> /\ pc # "loop" /\ now' = now
  BY Zenon DEF CInv, TInv, WheelInv, NotUsers, now
<1>2. Countdown!Exposes({t})
  <2>1. {t} \in SUBSET Timers /\ \A u \in Timers : u \notin {t} => state'[u] = state[u]
    BY <1>1, Zenon
  <2> QED
    BY <1>1, <2>1, ExposesStep, Zenon
<1>3. ASSUME NEW u \in Timers
      PROVE  left'[u] = (IF u = t THEN x ELSE left[u])
             /\ duration'[u] = (IF u = t THEN s.duration ELSE duration[u])
  <2>1. CASE u = t
    BY <1>1, <2>1, Mapping, Zenon
  <2>2. CASE u # t
    <3>1. state'[u] = state[u] /\ now' = now
      BY <1>1, <2>2, Zenon
    <3>2. left'[u] = left[u]
      BY <3>1, Mapping
    <3>3. duration'[u] = duration[u]
      BY <3>1, Mapping
    <3> QED
      BY <2>2, <3>2, <3>3, Zenon
  <2> QED
    BY <2>1, <2>2, Zenon
<1>4. left' = [left EXCEPT ![t] = x]
  <2>1. DOMAIN left = Timers /\ left' = [u \in Timers |-> left'[u]]
    BY Mapping, Zenon
  <2> QED
    BY <1>3, <2>1, Zenon
<1>5. duration' = [duration EXCEPT ![t] = s.duration]
  <2>1. DOMAIN duration = Timers /\ duration' = [u \in Timers |-> duration'[u]]
    BY Mapping, Zenon
  <2> QED
    BY <1>3, <2>1, Zenon
<1> QED
  BY <1>1, <1>2, <1>4, <1>5, Zenon

\* Starting a timer.
LEMMA StartStep ==
  ASSUME CInv, TInv', NEW t \in Timers, NEW d \in 0..TicMod, start_run_(t, d), NotUsers, Exposes({t})
  PROVE  /\ left' = [left EXCEPT ![t] = IF d = 0 THEN TicMod ELSE d]
         /\ duration' = [duration EXCEPT ![t] = d]
         /\ Countdown!Exposes({t}) /\ UNCHANGED calling
<1> DEFINE timeout == (cur_time + d) % TicMod
           s == [mode |-> "running", duration |-> d, timeout |-> timeout]
<1>1. state' = [state EXCEPT ![t] = s]
  BY Zenon DEF start_run_
<1>2. s.timeout = timeout /\ s.mode = "running" /\ s.duration = d
  BY Zenon
<1>3. 1 + Left(timeout, now) = IF d = 0 THEN TicMod ELSE d
  BY NowType, LeftStart, Zenon DEF CInv, now
<1> HIDE DEF timeout, s
<1> DEFINE x == IF d = 0 THEN TicMod ELSE d
<1>4. x = IF s.mode = "running" THEN 1 + Left(s.timeout, now) ELSE 0
  BY <1>2, <1>3, Zenon
<1> HIDE DEF x
<1>5. /\ left' = [left EXCEPT ![t] = x] /\ duration' = [duration EXCEPT ![t] = s.duration]
      /\ Countdown!Exposes({t}) /\ UNCHANGED calling
  BY <1>1, <1>4, CallStep, Zenon
<1> QED
  BY <1>2, <1>5, Zenon DEF x

\* The durations a timer may have.
LEMMA DurationType ==
  ASSUME NEW d \in Durations \union {0, 1}
  PROVE  d \in 0..TicMod
  BY WheelAssumption

\* A user's call is a step of the abstract timers.
LEMMA UserStep ==
  ASSUME CInv, TInv', NEW t \in Timers
  PROVE  /\ alloc_timer(t) => UNCHANGED <<duration, left, calling, exposed>>
         /\ run(t) => Countdown!Run(t)
         /\ stop(t) \/ release(t) => Countdown!Stop(t)
         /\ \A d \in Durations, cb \in BOOLEAN : set(t, d, cb) => Countdown!Set(t, AtLeastOne(d))
<1>1. TInv /\ state \in [Timers -> TimerState] /\ state[t] \in TimerState
      /\ state[t].duration \in Durations \union {0, 1}
  BY Zenon DEF CInv, TInv, WheelInv, TimerState
<1>2. duration[t] = state[t].duration /\ duration = [duration EXCEPT ![t] = state[t].duration]
      /\ left = [left EXCEPT ![t] = left[t]]
  BY Zenon DEF duration, left
<1>3. ASSUME alloc_timer(t) PROVE UNCHANGED <<duration, left, calling, exposed>>
  BY <1>3, Zenon DEF alloc_timer, NotUsers, left, duration, Running, now
<1>4. ASSUME run(t) PROVE Countdown!Run(t)
  <2>1. start_run_(t, state[t].duration) /\ NotUsers /\ Exposes({t})
    BY <1>4, Zenon DEF run
  <2>2. /\ left' = [left EXCEPT ![t] = IF state[t].duration = 0 THEN TicMod ELSE state[t].duration]
        /\ duration' = [duration EXCEPT ![t] = state[t].duration]
        /\ Countdown!Exposes({t}) /\ UNCHANGED calling
    BY <1>1, <2>1, DurationType, StartStep, Zenon
  <2> QED
    BY <1>2, <2>2, Zenon DEF Countdown!Run
<1>5. ASSUME stop(t) PROVE Countdown!Stop(t)
  <2> DEFINE s == IF Running(t) THEN [state[t] EXCEPT !.mode = "stopped"] ELSE state[t]
  <2>1. NotUsers /\ Exposes({t})
    BY <1>5, Zenon DEF stop
  <2>2. /\ s.mode # "running" /\ s.duration = state[t].duration
        /\ state' = [state EXCEPT ![t] = s]
    BY <1>1, <1>5, Zenon DEF stop, stop_timer_, TimerState, Running
  <2> HIDE DEF s
  <2>3. 0 = IF s.mode = "running" THEN 1 + Left(s.timeout, now) ELSE 0
    BY <2>2, Zenon
  <2>4. /\ left' = [left EXCEPT ![t] = 0] /\ duration' = [duration EXCEPT ![t] = s.duration]
        /\ Countdown!Exposes({t}) /\ UNCHANGED calling
    BY <2>1, <2>2, <2>3, CallStep, Zenon
  <2> QED
    BY <1>2, <2>2, <2>4, Zenon DEF Countdown!Stop
<1>6. ASSUME release(t) PROVE Countdown!Stop(t)
  <2>1. NotUsers /\ Exposes({t}) /\ state' = [state EXCEPT ![t] = Unset]
    BY <1>6, Zenon DEF release
  <2>2. Unset.mode # "running" /\ Unset.duration = 0
    BY Zenon DEF Unset
  <2>3. 0 = IF Unset.mode = "running" THEN 1 + Left(Unset.timeout, now) ELSE 0
    BY <2>2, Zenon
  <2>4. /\ left' = [left EXCEPT ![t] = 0] /\ duration' = [duration EXCEPT ![t] = Unset.duration]
        /\ Countdown!Exposes({t}) /\ UNCHANGED calling
    BY <2>1, <2>3, CallStep, Zenon
  <2> QED
    BY <2>2, <2>4, Zenon DEF Countdown!Stop
<1>7. ASSUME NEW d \in Durations, NEW cb \in BOOLEAN, set(t, d, cb) PROVE Countdown!Set(t, AtLeastOne(d))
  <2> DEFINE a == AtLeastOne(d)
  <2>1. NotUsers /\ Exposes({t}) /\ a \in 0..TicMod /\ a # 0
    <3>1. a # 0
      BY DEF AtLeastOne
    <3> QED
      BY <1>7, <3>1, AskedType, DurationType, Zenon DEF set
  <2>2. CASE Running(t)
    <3>1. start_run_(t, a) /\ left[t] # 0
      BY <1>1, <1>7, <2>2, LeftIs, Zenon DEF set
    <3> HIDE DEF a
    <3>2. /\ left' = [left EXCEPT ![t] = a] /\ duration' = [duration EXCEPT ![t] = a]
          /\ Countdown!Exposes({t}) /\ UNCHANGED calling
      BY <2>1, <3>1, StartStep, Zenon
    <3> QED
      BY <3>1, <3>2, Zenon DEF Countdown!Set, a
  <2>3. CASE ~Running(t)
    <3> DEFINE s == [Unset EXCEPT !.duration = a]
    <3>1. state' = [state EXCEPT ![t] = s] /\ s.mode # "running" /\ s.duration = a
      BY <1>7, <2>3, Zenon DEF set, Unset
    <3>2. left[t] = 0
      BY <1>1, <2>3, LeftIs, Zenon
    <3> HIDE DEF s, a
    <3>3. 0 = IF s.mode = "running" THEN 1 + Left(s.timeout, now) ELSE 0
      BY <3>1, Zenon
    <3>4. /\ left' = [left EXCEPT ![t] = 0] /\ duration' = [duration EXCEPT ![t] = s.duration]
          /\ Countdown!Exposes({t}) /\ UNCHANGED calling
      BY <2>1, <3>1, <3>3, CallStep, Zenon
    <3>5. left' = left /\ duration' = [duration EXCEPT ![t] = a]
      BY <1>2, <3>1, <3>2, <3>4, Zenon
    <3> QED
      BY <3>2, <3>4, <3>5, Zenon DEF Countdown!Set, a
  <2> QED
    BY <2>2, <2>3, Zenon
<1> QED
  BY <1>3, <1>4, <1>5, <1>6, <1>7, Zenon

\* stop_all is a step of the abstract timers.
LEMMA StopAllStep ==
  ASSUME CInv, TInv', stop_all
  PROVE  Countdown!StopAll
<1>1. /\ state' = [t \in Timers |-> IF Running(t) THEN [state[t] EXCEPT !.mode = "stopped"] ELSE state[t]]
      /\ UNCHANGED <<cur_time, calling>> /\ pc # "loop" /\ Exposes(Timers)
  BY Zenon DEF stop_all, NotUsers
<1>2. \A t \in Timers : ~Running(t)' /\ state'[t].duration = state[t].duration
  BY <1>1, Zenon DEF Running, CInv, TInv, WheelInv, TimerState
<1>3. left' = [t \in Timers |-> 0] /\ duration' = duration
  BY <1>2, Zenon DEF left, duration
<1>4. Timers \in SUBSET Timers /\ \A u \in Timers : u \notin Timers => state'[u] = state[u]
  BY Zenon
<1>5. Countdown!Exposes(Timers)
  BY <1>1, <1>4, ExposesStep, Zenon
<1> QED
  BY <1>1, <1>3, <1>5, Zenon DEF Countdown!StopAll

\* So is every step of step_all: a visit that finds its timer due, or stopped by a
\* callback, and the end of the tic.
LEMMA StepStep ==
  ASSUME CInv, TInv', step_all
  PROVE  [Countdown!Next]_<<duration, left, calling, exposed>>
<1>1. TInv /\ state \in [Timers -> TimerState] /\ (pc = "callback" <=> calling # NoTimer)
  BY Zenon DEF CInv, TInv, WheelInv
<1>2. ASSUME UNCHANGED <<state, cur_time>> PROVE UNCHANGED <<duration, left>>
  BY <1>2, Zenon DEF left, duration, Running, now
<1>3. CASE StepBegin
  BY <1>2, <1>3, Zenon DEF StepBegin, users
<1>4. CASE Visit
  <2>1. it \in Timers /\ calling = NoTimer /\ UNCHANGED <<cur_time, exposed>> /\ now' = now
    BY <1>1, <1>4, Zenon DEF Visit, TInv, now
  <2>2. CASE state[it].timeout # now
    BY <1>2, <1>4, <2>1, <2>2, Zenon DEF Visit
  <2>3. CASE state[it].timeout = now /\ Running(it)
    <3>1. state' = [state EXCEPT ![it].mode = "expired"] /\ calling' \in {it, NoTimer}
      BY <1>4, <2>3, Zenon DEF Visit, stop_timer_
    <3>2. left[it] = 1
      BY <1>1, <2>1, <2>3, LeftIs, Zenon
    <3>3. \A u \in Timers : /\ left'[u] = (IF u = it THEN 0 ELSE left[u])
                            /\ state'[u].duration = state[u].duration
      BY <1>1, <2>1, <3>1, Zenon DEF left, Running, TimerState
    <3>4. left' = [left EXCEPT ![it] = 0]
      <4>1. left' = [u \in Timers |-> left'[u]]
            /\ [left EXCEPT ![it] = 0] = [u \in Timers |-> IF u = it THEN 0 ELSE left[u]]
        BY Zenon DEF left
      <4> QED
        BY <3>3, <4>1, Zenon
    <3>5. duration' = duration
      BY <3>3, Zenon DEF duration
    <3>6. Countdown!Expire(it)
      BY <2>1, <3>1, <3>2, <3>4, <3>5, Zenon DEF Countdown!Expire
    <3> QED
      BY <2>1, <3>6, Zenon DEF Countdown!Next
  <2>4. CASE state[it].timeout = now /\ ~Running(it)
    <3>1. UNCHANGED <<state, duration, left>> /\ calling' \in {it, NoTimer}
      BY <1>2, <1>4, <2>1, <2>4, Zenon DEF Visit, stop_timer_
    <3>2. left[it] = 0 /\ it \in exposed
      BY <1>1, <1>4, <2>1, <2>4, LeftIs, VisitedTimer, Zenon
    <3>3. Countdown!CallStopped(it) \/ UNCHANGED <<duration, left, calling, exposed>>
      BY <2>1, <3>1, <3>2, Zenon DEF Countdown!CallStopped
    <3> QED
      BY <2>1, <3>3, Zenon DEF Countdown!Next
  <2> QED
    BY <2>2, <2>3, <2>4, Zenon
<1>5. CASE CallbackReturns
  <2>1. Countdown!Return
    BY <1>1, <1>2, <1>5, Zenon DEF CallbackReturns, users, Countdown!Return
  <2> QED
    BY <2>1, Zenon DEF Countdown!Next
<1>6. CASE StepEnd
  <2>1. /\ pc = "loop" /\ it = NoTimer /\ cur_time' = now /\ state' = state /\ calling' = calling
        /\ exposed' = {} /\ now' = (now + 1) % TicMod /\ calling = NoTimer
    BY <1>1, <1>6, Zenon DEF StepEnd, users, now
  <2>2. ASSUME NEW t \in Timers, left[t] = 1 PROVE t \in exposed
    <3>1. Running(t) /\ t \in Due
      BY <1>1, <2>2, LeftIs, Zenon DEF Due
    <3>2. t \in PlacedAt(Pos(now))
      BY <3>1, Zenon DEF PlacedAt, Due
    <3>3. Range(wheel[Pos(now)]) = PlacedAt(Pos(now))
      BY <1>1, NowType, Zenon DEF TInv, WheelInv, Holds
    <3>4. exposed = Timers \/ Range(wheel[Pos(now)]) \intersect (Due \ exposed) = {}
      BY <2>1, Zenon DEF CInv, Ahead
    <3> QED
      BY <3>1, <3>2, <3>3, <3>4, Zenon
  <2>3. ASSUME NEW t \in Timers
        PROVE  left'[t] = IF left[t] = 1 THEN TicMod ELSE IF left[t] = 0 THEN 0 ELSE left[t] - 1
    <3>1. left'[t] = IF Running(t) THEN 1 + Left(state[t].timeout, (now + 1) % TicMod) ELSE 0
      BY <2>1, Zenon DEF left, Left, Running
    <3>2. /\ left[t] = IF Running(t) THEN 1 + Left(state[t].timeout, now) ELSE 0
          /\ state[t].timeout \in Tics /\ now \in Tics
          /\ left[t] = 0 <=> ~Running(t)
          /\ left[t] = 1 <=> Running(t) /\ state[t].timeout = now
      BY <1>1, LeftIs, Zenon
    <3>3. 1 + Left(state[t].timeout, (now + 1) % TicMod)
            = (IF state[t].timeout = now THEN TicMod ELSE Left(state[t].timeout, now))
          /\ Left(state[t].timeout, now) \in Nat
      BY <3>2, LeftStep, Zenon
    <3>4. CASE ~Running(t)
      BY <3>1, <3>2, <3>4
    <3>5. CASE Running(t) /\ state[t].timeout = now
      BY <3>1, <3>2, <3>3, <3>5, Zenon
    <3>6. CASE Running(t) /\ state[t].timeout # now
      <4>1. left'[t] = left[t] - 1
        <5>1. left[t] = 1 + Left(state[t].timeout, now)
          BY <3>2, <3>6, Zenon
        <5>2. left'[t] = 1 + Left(state[t].timeout, (now + 1) % TicMod)
          BY <3>1, <3>6, Zenon
        <5>3. left'[t] = Left(state[t].timeout, now)
          BY <3>3, <3>6, <5>2, Zenon
        <5>4. left[t] - 1 = Left(state[t].timeout, now)
          BY <3>3, <5>1
        <5> QED
          BY <5>3, <5>4, Zenon
      <4>2. left[t] # 1 /\ left[t] # 0
        BY <3>2, <3>6, Zenon
      <4> QED
        BY <4>1, <4>2, Zenon
    <3> QED
      BY <3>4, <3>5, <3>6, Zenon
  <2>4. left' = [t \in Timers |-> IF left[t] = 1 THEN TicMod ELSE IF left[t] = 0 THEN 0 ELSE left[t] - 1]
    <3>1. left' = [u \in Timers |-> left'[u]]
      BY Zenon DEF left
    <3> QED
      BY <2>3, <3>1, Zenon
  <2>5. duration' = duration
    BY <2>1, Zenon DEF duration
  <2>6. Countdown!Tic
    BY <2>1, <2>2, <2>4, <2>5, Zenon DEF Countdown!Tic
  <2> QED
    BY <2>6, Zenon DEF Countdown!Next
<1> QED
  BY <1>3, <1>4, <1>5, <1>6, Zenon DEF step_all

\* Every step that the users or step_all take is one of the abstract timers.
LEMMA Simulation ==
  ASSUME CInv, TInv', [Next]_vars
  PROVE  [Countdown!Next]_<<duration, left, calling, exposed>>
<1>1. CASE UNCHANGED vars
  BY <1>1, Zenon DEF vars, users, left, duration, Running, now
<1>2. ASSUME NEW t \in Timers, alloc_timer(t) \/ run(t) \/ stop(t) \/ release(t)
      PROVE  [Countdown!Next]_<<duration, left, calling, exposed>>
  <2>1. UNCHANGED <<duration, left, calling, exposed>> \/ Countdown!Run(t) \/ Countdown!Stop(t)
    BY <1>2, UserStep, Zenon
  <2> QED
    BY <2>1, Zenon DEF Countdown!Next
<1>3. ASSUME NEW t \in Timers, NEW d \in Durations, NEW cb \in BOOLEAN, set(t, d, cb)
      PROVE  Countdown!Next
  <2>1. Countdown!Set(t, AtLeastOne(d)) /\ AtLeastOne(d) \in {AtLeastOne(e) : e \in Durations}
    BY <1>3, UserStep, Zenon
  <2> QED
    BY <2>1, Zenon DEF Countdown!Next
<1>4. CASE stop_all
  BY <1>4, StopAllStep, Zenon DEF Countdown!Next
<1>5. CASE step_all
  BY <1>5, StepStep, Zenon
<1> QED
  BY <1>1, <1>2, <1>3, <1>4, <1>5, Zenon DEF Next

\* The wheel implements timers that count down: each timer expires in the step_all
\* that its duration says, whatever the users and the callbacks do to its
\* neighbours in the list and however the tics wrap.  Time passes over a timer
\* that is due, and a stopped one is called, only in a tic in which a callback
\* (or a thread that runs beside it) touched a timer of the visited slot, or
\* started that timer for one tic.  This holds for every number of timers, size of
\* the wheel and width of tic_t (timers.h:249-395).
THEOREM WheelImplementsCountdown == Spec => ImplementsCountdown
<1>1. Init => CInv
  <2> SUFFICES ASSUME Init PROVE CInv
    BY Zenon
  <2> QED
    BY InitTInv, Zenon DEF Init, CInv
<1>2. Init => Countdown!Init
  <2> SUFFICES ASSUME Init PROVE Countdown!Init
    BY Zenon
  <2>1. \A t \in Timers : ~Running(t) /\ state[t].duration = 0
    BY Zenon DEF Init, Running, Unset
  <2>2. left = [t \in Timers |-> 0] /\ duration = [t \in Timers |-> 0]
    BY <2>1, Zenon DEF left, duration
  <2> QED
    BY <2>2, Zenon DEF Init, Countdown!Init
<1>3. CInv /\ [Next]_vars => CInv'
  BY NextCInv, Zenon
<1>4. CInv /\ CInv' /\ [Next]_vars => [Countdown!Next]_(Countdown!vars)
  <2>1. CInv' => TInv'
    BY Zenon DEF CInv
  <2> QED
    BY <2>1, Simulation, Zenon DEF Countdown!vars
<1> QED
  BY <1>1, <1>2, <1>3, <1>4, PTL DEF Spec, ImplementsCountdown, Countdown!Spec
=============================================================================
