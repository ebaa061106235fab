---------------------------- MODULE PdcpNr_proofs ----------------------------
(***************************************************************************)
(* Both ends of a PDCP bearer, for every SN length and every width of the  *)
(* COUNT.  The receiver finds the COUNT of every SDU from its SN:          *)
(* CountExact is the arithmetic, and PInv shows that what is in transit    *)
(* stays within the window that it needs.  On top of it, WInv shows that a *)
(* receiver that waits for a missing SDU does so under the reordering      *)
(* timer.  At last, the bearer implements InOrderDelivery: PInv makes the  *)
(* names of the SDUs right, and OInv relates what is on its way and what   *)
(* is held to what was submitted and delivered.                            *)
(***************************************************************************)
EXTENDS PdcpNr, FiniteSetTheorems, TLAPS

-----------------------------------------------------------------------------
(* Sequences: the facts cited below.                                       *)

\* Sequences are functions on 1..n.
LEMMA SeqIs == \A S : Seq(S) = UNION {[1..n -> S] : n \in Nat}
  OBVIOUS

\* The items of a sequence are in its set.
LEMMA SeqItem ==
  ASSUME NEW S, NEW q \in Seq(S), NEW i \in 1..Len(q)
  PROVE  q[i] \in S
  OBVIOUS

\* A sequence is a function on its positions.
LEMMA SeqDomain ==
  ASSUME NEW S, NEW q \in Seq(S)
  PROVE  Len(q) \in Nat /\ q \in [1..Len(q) -> S] /\ DOMAIN q = 1..Len(q)
  OBVIOUS

\* The items of a concatenation.
LEMMA Joined ==
  ASSUME NEW S, NEW q \in Seq(S), NEW r \in Seq(S)
  PROVE  /\ q \o r \in Seq(S) /\ Len(q \o r) = Len(q) + Len(r)
         /\ \A i \in 1..(Len(q) + Len(r)) : (q \o r)[i] = IF i <= Len(q) THEN q[i] ELSE r[i - Len(q)]
  OBVIOUS

\* The items of a part of a sequence.
LEMMA Part ==
  ASSUME NEW S, NEW q, NEW m \in Int, NEW n \in Int, \A i \in m..n : q[i] \in S
  PROVE  /\ SubSeq(q, m, n) \in Seq(S)
         /\ Len(SubSeq(q, m, n)) = IF m <= n THEN n - m + 1 ELSE 0
         /\ \A i \in 1..(n - m + 1) : SubSeq(q, m, n)[i] = q[m + i - 1]
  OBVIOUS

\* A COUNT is made of its HFN and its SN.
LEMMA CountSplit ==
  ASSUME NEW c \in Nat
  PROVE  /\ HFN(c) \in Nat /\ SN(c) \in Nat /\ SN(c) < SnMod
         /\ c = HFN(c) * SnMod + SN(c)
  BY PdcpAssumption DEF HFN, SN

\* The receive window is half the SN space.
LEMMA WindowIsHalf == window_size \in Nat \ {0} /\ SnMod = 2 * window_size
  BY PdcpAssumption DEF window_size

\* Two multiples of the SN space that are not the same or neighbours.
LEMMA FarApart ==
  ASSUME NEW a \in Nat, NEW b \in Nat, NEW m \in Nat, a >= b + 2
  PROVE  a * m >= b * m + 2 * m
<1> DEFINE k == a - b - 2
<1>1. k \in Nat /\ a = b + 2 + k
  OBVIOUS
<1>2. k * m \in Nat
  BY <1>1
<1>3. (b + 2 + k) * m = b * m + 2 * m + k * m
  BY <1>1
<1> QED
  BY <1>1, <1>2, <1>3

\* Two neighbouring multiples.
LEMMA Neighbour ==
  ASSUME NEW a \in Nat, NEW m \in Nat
  PROVE  (a + 1) * m = a * m + m
  OBVIOUS

\* A COUNT fits its width.
LEMMA ModId ==
  ASSUME NEW c \in Counts
  PROVE  c % CountMod = c
  BY PdcpAssumption DEF Counts

\* Within half an SN space of RX_DELIV the estimate is exact, for every length
\* of the SN: the heart of write_pdu (pdcp_entity_nr.cc:211-230).
LEMMA CountExact ==
  ASSUME NEW c \in Counts, rx_deliv \in Counts,
         c < rx_deliv + window_size, c + window_size >= rx_deliv
  PROVE  rcvd_count(SN(c)) = c
<1> DEFINE d == rx_deliv
           w == window_size
           hc == HFN(c)
           hd == HFN(d)
           sc == SN(c)
           sd == SN(d)
<1>1. c \in Nat /\ d \in Nat
  BY DEF Counts
<1>2. w \in Nat \ {0} /\ SnMod = 2 * w
  BY WindowIsHalf, Zenon
<1>3. hc \in Nat /\ sc \in Nat /\ sc < 2 * w /\ c = hc * SnMod + sc
  BY <1>1, <1>2, CountSplit, Zenon
<1>4. hd \in Nat /\ sd \in Nat /\ sd < 2 * w /\ d = hd * SnMod + sd
  BY <1>1, <1>2, CountSplit, Zenon
<1>5. COUNT(hc, sc) = c
  BY <1>3, ModId, Zenon DEF COUNT
<1> HIDE DEF w, hc, hd, sc, sd
<1>6. hc < hd + 2 /\ hd < hc + 2
  <2>1. ASSUME hc >= hd + 2 PROVE FALSE
    <3>1. hc * SnMod >= hd * SnMod + 2 * SnMod
      BY <1>2, <1>3, <1>4, <2>1, FarApart
    <3> QED
      BY <1>1, <1>2, <1>3, <1>4, <3>1 DEF w
  <2>2. ASSUME hd >= hc + 2 PROVE FALSE
    <3>1. hd * SnMod >= hc * SnMod + 2 * SnMod
      BY <1>2, <1>3, <1>4, <2>2, FarApart
    <3> QED
      BY <1>1, <1>2, <1>3, <1>4, <3>1 DEF w
  <2> QED
    BY <2>1, <2>2, <1>3, <1>4
<1>7. CASE hc = hd
  <2>1. ~(sc < sd - w) /\ ~(sc >= sd + w)
    BY <1>1, <1>2, <1>3, <1>4, <1>7 DEF w
  <2>2. rcvd_count(SN(c)) = COUNT(HFN(d), SN(c))
    BY <2>1, Zenon DEF rcvd_count, w, sc, sd
  <2> QED
    BY <1>5, <1>7, <2>2, Zenon DEF hc, hd, sc
<1>8. CASE hc = hd + 1
  <2>1. hc * SnMod = hd * SnMod + SnMod
    BY <1>2, <1>4, <1>8, Neighbour
  <2>2. sc < sd - w /\ ~(sc >= sd + w)
    BY <1>1, <1>2, <1>3, <1>4, <2>1 DEF w
  <2>3. rcvd_count(SN(c)) = COUNT(HFN(d) + 1, SN(c))
    BY <2>2, Zenon DEF rcvd_count, w, sc, sd
  <2> QED
    BY <1>5, <1>8, <2>3, Zenon DEF hc, hd, sc
<1>9. CASE hd = hc + 1
  <2>1. hd * SnMod = hc * SnMod + SnMod
    BY <1>2, <1>3, <1>9, Neighbour
  <2>2. sc >= sd + w /\ ~(sc < sd - w)
    BY <1>1, <1>2, <1>3, <1>4, <2>1 DEF w
  <2>3. hd - 1 = hc
    BY <1>3, <1>9
  <2>4. rcvd_count(SN(c)) = COUNT(HFN(d) - 1, SN(c))
    BY <2>2, Zenon DEF rcvd_count, w, sc, sd
  <2> QED
    BY <1>5, <2>3, <2>4, Zenon DEF hc, hd, sc
<1> QED
  BY <1>3, <1>4, <1>6, <1>7, <1>8, <1>9

\* A run of consecutive COUNTs ends: the CHOOSE of ConsecutiveFrom has a value.
LEMMA ConsecutiveExists ==
  ASSUME NEW queue, DOMAIN queue \subseteq Counts, NEW from \in Counts
  PROVE  LET n == ConsecutiveFrom(queue, from)
         IN  /\ n \in Nat /\ from + n <= CountMod
             /\ \A i \in 0..(n - 1) : from + i \in DOMAIN queue
             /\ from + n \notin DOMAIN queue
<1> DEFINE D == DOMAIN queue
           Out == {m \in Nat : from + m \notin D}
           Ends(n) == /\ \A i \in 0..(n - 1) : from + i \in D
                      /\ from + n \notin D
<1>1. CountMod \in Nat /\ from \in Nat /\ from < CountMod
  BY PdcpAssumption DEF Counts
<1>2. CountMod - from \in Out
  BY <1>1 DEF Counts
<1>3. PICK n \in Out : \A m \in Out : ~(m < n)
  <2>1. PICK n \in Out : \A m \in Out : ~(<<m, n>> \in OpToRel(<, Nat))
    BY <1>2, WFMin, NatLessThanWellFounded, Zenon
  <2> QED
    BY <2>1, Zenon DEF OpToRel
<1>4. n \in Nat /\ Ends(n)
  BY <1>1, <1>3
<1>5. IsFiniteSet(D) /\ Cardinality(D) \in Nat
  <2>1. 0 \in Int /\ CountMod - 1 \in Int
    BY <1>1
  <2>2. IsFiniteSet(Counts)
    BY <2>1, FS_Interval, Zenon DEF Counts
  <2>3. IsFiniteSet(D)
    BY <2>2, FS_Subset, Zenon
  <2> QED
    BY <2>3, FS_CardinalityType, Zenon
<1>6. n <= Cardinality(D)
  <2>1. from..(from + n - 1) \subseteq D
    BY <1>1, <1>4
  <2>2. Cardinality(from..(from + n - 1)) = n
    BY <1>1, <1>4, FS_Interval
  <2> QED
    BY <1>5, <2>1, <2>2, FS_Subset, Zenon
<1>7. \E k \in 0..Cardinality(D) : Ends(k)
  BY <1>5, <1>4, <1>6
<1> DEFINE k == ConsecutiveFrom(queue, from)
<1>8. k \in 0..Cardinality(D) /\ Ends(k)
  BY <1>7, Zenon DEF ConsecutiveFrom
<1>9. k \in Nat
  BY <1>5, <1>8
<1>10. from + k <= CountMod
  <2>1. CASE k = 0
    BY <1>1, <2>1
  <2>2. CASE k > 0
    <3>1. from + (k - 1) \in Counts
      BY <1>8, <1>9, <2>2
    <3> QED
      BY <1>1, <1>9, <3>1 DEF Counts
  <2> QED
    BY <1>9, <2>1, <2>2
<1> QED
  BY <1>8, <1>9, <1>10, Zenon

\* The parts before and after item i of a sequence.
LEMMA PartBefore ==
  ASSUME NEW S, NEW q \in Seq(S), NEW i \in 1..Len(q)
  PROVE  /\ SubSeq(q, 1, i - 1) \in Seq(S) /\ Len(SubSeq(q, 1, i - 1)) = i - 1
         /\ \A j \in 1..(i - 1) : SubSeq(q, 1, i - 1)[j] = q[j]
  OBVIOUS

LEMMA PartAfter ==
  ASSUME NEW S, NEW q \in Seq(S), NEW i \in 1..Len(q)
  PROVE  /\ SubSeq(q, i + 1, Len(q)) \in Seq(S) /\ Len(SubSeq(q, i + 1, Len(q))) = Len(q) - i
         /\ \A j \in 1..(Len(q) - i) : SubSeq(q, i + 1, Len(q))[j] = q[i + j]
  OBVIOUS

-----------------------------------------------------------------------------
\* What is in transit stays below the upper edge of the receive window, because
\* RX_DELIV never moves back before the last COUNT; it does not, because the
\* timer runs only for a COUNT beyond it.
PInv ==
  /\ {tx_next, rx_next, rx_deliv, rx_reord} \subseteq Counts
  /\ rx_overflow \in BOOLEAN /\ running \in BOOLEAN
  /\ air \subseteq Counts /\ rlc_queue \in Seq(Counts)
  /\ DOMAIN reorder_queue \subseteq Counts /\ CountRecovered
  /\ ~rx_overflow => \A c \in air : c < rx_deliv + window_size
  /\ ~rx_overflow /\ running => rx_deliv < rx_reord

\* Initially the window is at 0 and nothing is held.
LEMMA InitPInv == Init => PInv
<1> SUFFICES ASSUME Init PROVE PInv
  BY Zenon
<1>1. 0 \in Counts
  BY PdcpAssumption DEF Counts
<1>2. DOMAIN reorder_queue = {}
  BY Zenon DEF Init, Empty
<1>3. {tx_next, rx_next, rx_deliv, rx_reord} \subseteq Counts
  BY <1>1, Zenon DEF Init
<1>4. rx_overflow = FALSE /\ running = FALSE /\ air = {}
  BY Zenon DEF Init
<1>5. rlc_queue \in Seq(Counts)
  BY DEF Init
<1> QED
  BY <1>2, <1>3, <1>4, <1>5, Zenon DEF PInv, CountRecovered

\* The next COUNT, with the wrap of a uint32_t, is a COUNT.
LEMMA NextCount ==
  ASSUME NEW c \in Int
  PROVE  c % CountMod \in Counts
  BY PdcpAssumption DEF Counts

\* Delivery moves RX_DELIV forward, over the last COUNT only with rx_overflow,
\* and leaves in the queue what it held under the same COUNTs.
LEMMA DeliverKeeps ==
  ASSUME NEW queue, DOMAIN queue \subseteq Counts, \A c \in DOMAIN queue : queue[c] = c,
         NEW from \in Counts, NEW first, rx_overflow \in BOOLEAN,
         deliver_all_consecutive_counts(queue, first, from)
  PROVE  /\ DOMAIN reorder_queue' \subseteq Counts /\ CountRecovered'
         /\ rx_deliv' \in Counts /\ rx_overflow' \in BOOLEAN
         /\ ~rx_overflow' => ~rx_overflow /\ rx_deliv' >= from
<1> DEFINE n == ConsecutiveFrom(queue, from)
<1>1. n \in Nat /\ from + n <= CountMod /\ from \in Nat /\ CountMod \in Nat
  BY ConsecutiveExists, PdcpAssumption DEF Counts
<1>2. /\ reorder_queue' = [c \in {d \in DOMAIN queue : d >= from + n} |-> queue[c]]
      /\ rx_deliv' = (from + n) % CountMod
      /\ rx_overflow' = (rx_overflow \/ from + n = CountMod)
  BY Zenon DEF deliver_all_consecutive_counts
<1> HIDE DEF n
<1>3. DOMAIN reorder_queue' \subseteq Counts /\ CountRecovered'
  BY <1>2, Zenon DEF CountRecovered
<1>4. rx_deliv' \in Counts
  BY <1>1, <1>2, NextCount
<1>5. ASSUME ~rx_overflow' PROVE ~rx_overflow /\ rx_deliv' >= from
  <2>1. ~rx_overflow /\ from + n # CountMod
    BY <1>2, <1>5, Zenon
  <2>2. from + n \in Counts
    BY <1>1, <2>1 DEF Counts
  <2>3. rx_deliv' = from + n
    BY <1>2, <2>2, ModId, Zenon
  <2> QED
    BY <1>1, <2>1, <2>3
<1> QED
  BY <1>2, <1>3, <1>4, <1>5, Zenon

\* What is below the upper edge of the window stays there when RX_DELIV advances.
LEMMA EdgeAdvances ==
  ASSUME air \subseteq Counts, air' \subseteq air, {rx_deliv, rx_deliv'} \subseteq Counts,
         \A c \in air : c < rx_deliv + window_size, rx_deliv' >= rx_deliv
  PROVE  \A c \in air' : c < rx_deliv' + window_size
<1> SUFFICES ASSUME NEW c \in air' PROVE c < rx_deliv' + window_size
  BY Zenon
<1>1. c \in air /\ c \in Nat /\ rx_deliv \in Nat /\ rx_deliv' \in Nat
  BY DEF Counts
<1>2. c < rx_deliv + window_size /\ window_size \in Nat
  BY <1>1, WindowIsHalf, Zenon
<1>3. \A a, b, d, w \in Nat : a < b + w /\ d >= b => a < d + w
  OBVIOUS
<1> QED
  BY <1>1, <1>2, <1>3, Zenon

\* The timer of write_pdu runs for a COUNT beyond RX_DELIV.
LEMMA TimerBeyond ==
  ASSUME HandleReorderingTimer, {rx_reord, rx_next', rx_deliv'} \subseteq Counts, running \in BOOLEAN
  PROVE  running' \in BOOLEAN /\ rx_reord' \in Counts /\ (running' => rx_deliv' < rx_reord')
<1>1. rx_reord \in Nat /\ rx_next' \in Nat /\ rx_deliv' \in Nat
  BY DEF Counts
<1> DEFINE stopped == running /\ rx_deliv' >= rx_reord
           start == (stopped \/ ~running) /\ cfg.t_reordering # "infinity" /\ rx_deliv' < rx_next'
<1>2. /\ running' = (start \/ (running /\ ~stopped))
      /\ rx_reord' = IF start THEN rx_next' ELSE rx_reord
  BY Zenon DEF HandleReorderingTimer
<1>3. CASE start
  BY <1>2, <1>3, Zenon
<1>4. CASE ~start
  <2>1. running' = (running /\ ~stopped) /\ rx_reord' = rx_reord
    BY <1>2, <1>4, Zenon
  <2>2. running' \in BOOLEAN /\ rx_reord' \in Counts
    BY <2>1, Zenon
  <2>3. ASSUME running' PROVE rx_deliv' < rx_reord'
    <3>1. ~(rx_deliv' >= rx_reord)
      BY <2>1, <2>3, Zenon
    <3> QED
      BY <1>1, <2>1, <3>1
  <2> QED
    BY <2>2, <2>3, Zenon
<1> QED
  BY <1>3, <1>4, Zenon

\* The sender and RLC keep the invariant: what RLC sends is below the upper edge
\* of the window.
LEMMA SenderPInv ==
  ASSUME PInv,
         \/ write_sdu \/ RlcSend
         \/ \E c \in discard_timers : notify_delivery(c) \/ discard_callback(c)
         \/ \E c \in air : RlcLose(c)
  PROVE  PInv'
<1> USE DEF tx, rlc
<1>1. CASE write_sdu
  <2>1. tx_next + 1 \in Int
    BY DEF PInv, Counts
  <2>2. tx_next' \in Counts /\ rlc_queue' \in Seq(Counts)
    BY <1>1, <2>1, NextCount DEF write_sdu, PInv
  <2> QED
    BY <1>1, <2>2, Zenon DEF write_sdu, PInv, CountRecovered
<1>2. CASE RlcSend
  <2>1. Head(rlc_queue) \in Counts /\ rlc_queue' \in Seq(Counts)
    BY <1>2 DEF RlcSend, PInv
  <2> QED
    BY <1>2, <2>1, Zenon DEF RlcSend, PInv, CountRecovered
<1>3. CASE \E c \in discard_timers : notify_delivery(c)
  BY <1>3 DEF notify_delivery, PInv, CountRecovered
<1>4. CASE \E c \in discard_timers : discard_callback(c)
  <2>1. PICK c \in discard_timers : discard_callback(c)
    BY <1>4, Zenon
  <2>2. rlc_queue' \in Seq(Counts)
    <3>1. CASE c \in Range(rlc_queue)
      <4>1. PICK i \in DOMAIN rlc_queue : rlc_queue' = RemoveAt(rlc_queue, i)
        BY <2>1, <3>1, Zenon DEF discard_callback
      <4>2. i \in 1..Len(rlc_queue) /\ rlc_queue \in Seq(Counts)
        BY DEF PInv
      <4>3. /\ SubSeq(rlc_queue, 1, i - 1) \in Seq(Counts)
            /\ SubSeq(rlc_queue, i + 1, Len(rlc_queue)) \in Seq(Counts)
        BY <4>2, Part
      <4> QED
        BY <4>1, <4>3, Joined, Zenon DEF RemoveAt
    <3>2. CASE c \notin Range(rlc_queue)
      BY <2>1, <3>2, Zenon DEF discard_callback, PInv
    <3> QED
      BY <3>1, <3>2, Zenon
  <2> QED
    BY <2>1, <2>2, Zenon DEF discard_callback, PInv, CountRecovered
<1>5. CASE \E c \in air : RlcLose(c)
  BY <1>5 DEF RlcLose, PInv, CountRecovered
<1> QED
  BY <1>1, <1>2, <1>3, <1>4, <1>5, Zenon

\* write_pdu keeps the invariant: it files the SDU under the COUNT it was sent
\* with, by CountExact.
LEMMA ReceivePInv ==
  ASSUME PInv, NEW c \in air, write_pdu(c)
  PROVE  PInv'
<1> DEFINE count == rcvd_count(SN(c))
           drop == rx_overflow \/ count < rx_deliv \/ count \in DOMAIN reorder_queue
           queue == [d \in DOMAIN reorder_queue \union {count} |->
                       IF d = count THEN c ELSE reorder_queue[d]]
<1>1. c \in Counts /\ c + window_size >= rx_deliv /\ air' \subseteq air
  BY Zenon DEF write_pdu, PInv
<1>2. UNCHANGED <<cfg, tx_next, rlc_queue>>
  BY Zenon DEF write_pdu, tx
<1>3. CASE drop
  <2>1. Dropped
    BY <1>3, Zenon DEF write_pdu
  <2> QED
    BY <1>1, <1>2, <2>1, Zenon DEF Dropped, PInv, CountRecovered
<1>4. CASE ~drop
  <2>1. ~rx_overflow /\ c < rx_deliv + window_size /\ rx_deliv \in Counts
    BY <1>4, Zenon DEF PInv
  <2>2. count = c
    BY <1>1, <2>1, CountExact, Zenon
  <2>3. /\ rx_next' = IF count >= rx_next THEN (count + 1) % CountMod ELSE rx_next
        /\ IF count = rx_deliv
           THEN deliver_all_consecutive_counts(queue, <<>>, rx_deliv)
           ELSE /\ reorder_queue' = queue /\ out' = <<>>
                /\ UNCHANGED <<rx_deliv, rx_overflow, last>>
        /\ HandleReorderingTimer
    BY <1>4, Zenon DEF write_pdu
  <2> HIDE DEF count
  <2>4. DOMAIN queue \subseteq Counts /\ \A d \in DOMAIN queue : queue[d] = d
    BY <1>1, <2>2, Zenon DEF PInv, CountRecovered
  <2> HIDE DEF queue
  <2>5. rx_next' \in Counts
    <3>1. count + 1 \in Int
      BY <1>1, <2>2 DEF Counts
    <3>2. (count + 1) % CountMod \in Counts /\ rx_next \in Counts
      BY <3>1, NextCount, Zenon DEF PInv
    <3> QED
      BY <2>3, <3>2, Zenon
  <2>6. /\ DOMAIN reorder_queue' \subseteq Counts /\ CountRecovered'
        /\ rx_deliv' \in Counts /\ rx_overflow' \in BOOLEAN
        /\ ~rx_overflow' => rx_deliv' >= rx_deliv
    <3>1. CASE count = rx_deliv
      <4>1. deliver_all_consecutive_counts(queue, <<>>, rx_deliv) /\ rx_overflow \in BOOLEAN
        BY <2>3, <3>1, Zenon DEF PInv
      <4> QED
        BY <2>1, <2>4, <4>1, DeliverKeeps
    <3>2. CASE count # rx_deliv
      BY <2>1, <2>3, <2>4, <3>2 DEF PInv, CountRecovered, Counts
    <3> QED
      BY <3>1, <3>2, Zenon
  <2>7. running' \in BOOLEAN /\ rx_reord' \in Counts /\ (running' => rx_deliv' < rx_reord')
    BY <2>3, <2>5, <2>6, TimerBeyond, Zenon DEF PInv
  <2>8. ~rx_overflow' => \A d \in air' : d < rx_deliv' + window_size
    BY <1>1, <2>1, <2>6, EdgeAdvances, Zenon DEF PInv
  <2> QED
    BY <1>1, <1>2, <2>5, <2>6, <2>7, <2>8, Zenon DEF PInv
<1> QED
  BY <1>3, <1>4, Zenon

\* The expiry of t-Reordering keeps the invariant: it moves RX_DELIV to RX_REORD
\* or beyond.
LEMMA ExpiryPInv ==
  ASSUME PInv, reordering_callback
  PROVE  PInv'
<1> DEFINE rest == [c \in {d \in DOMAIN reorder_queue : d >= rx_reord} |-> reorder_queue[c]]
<1>1. PICK first : deliver_all_consecutive_counts(rest, first, rx_reord)
  BY Zenon DEF reordering_callback
<1>2. /\ running /\ running' = (rx_deliv' < rx_next)
      /\ rx_reord' = IF rx_deliv' < rx_next THEN rx_next ELSE rx_reord
      /\ UNCHANGED <<tx_next, rx_next, air, rlc_queue>>
  BY Zenon DEF reordering_callback, tx, rlc
<1>3. DOMAIN rest \subseteq Counts /\ \A c \in DOMAIN rest : rest[c] = c
  BY Zenon DEF PInv, CountRecovered
<1> HIDE DEF rest
<1>4. /\ DOMAIN reorder_queue' \subseteq Counts /\ CountRecovered'
      /\ rx_deliv' \in Counts /\ rx_overflow' \in BOOLEAN
      /\ ~rx_overflow' => ~rx_overflow /\ rx_deliv' >= rx_reord
  BY <1>1, <1>3, DeliverKeeps DEF PInv
<1>5. ~rx_overflow' => \A d \in air' : d < rx_deliv' + window_size
  <2> SUFFICES ASSUME ~rx_overflow' PROVE \A d \in air' : d < rx_deliv' + window_size
    BY Zenon
  <2>1. ~rx_overflow /\ rx_deliv' >= rx_reord /\ rx_deliv < rx_reord
    BY <1>2, <1>4, Zenon DEF PInv
  <2>2. {rx_deliv, rx_reord, rx_deliv'} \subseteq Counts
    BY <1>4, Zenon DEF PInv
  <2>3. rx_deliv' >= rx_deliv
    BY <2>1, <2>2 DEF Counts
  <2> QED
    BY <1>2, <2>1, <2>2, <2>3, EdgeAdvances, Zenon DEF PInv
<1>6. running' \in BOOLEAN /\ rx_reord' \in Counts /\ (running' => rx_deliv' < rx_reord')
  <2>1. running' \in BOOLEAN
    BY <1>2
  <2>2. {rx_reord, rx_next} \subseteq Counts
    BY Zenon DEF PInv
  <2>3. rx_reord' \in Counts
    BY <1>2, <2>2, Zenon
  <2>4. running' => rx_deliv' < rx_reord'
    BY <1>2, Zenon
  <2> QED
    BY <2>1, <2>3, <2>4, Zenon
<1> QED
  BY <1>2, <1>4, <1>5, <1>6, Zenon DEF PInv

\* PInv is inductive.
LEMMA NextPInv == PInv /\ [Next]_vars => PInv'
<1> SUFFICES ASSUME PInv, [Next]_vars PROVE PInv'
  BY Zenon
<1>1. CASE UNCHANGED vars
  BY <1>1, Zenon DEF vars, tx, rx, rlc, PInv, CountRecovered
<1>2. CASE Next
  BY <1>2, SenderPInv, ReceivePInv, ExpiryPInv, Zenon DEF Next
<1> QED
  BY <1>1, <1>2, Zenon

\* write_pdu recovers the COUNT of every SDU it holds, and so deciphers it with
\* the COUNT it was sent with, for every SN length and COUNT width, whatever is
\* lost, duplicated, reordered or discarded (pdcp_entity_nr.cc:186-324).
THEOREM CountAlwaysRecovered == Spec => []CountRecovered
<1>1. PInv => CountRecovered
  BY Zenon DEF PInv
<1> QED
  BY <1>1, InitPInv, NextPInv, PTL DEF Spec
-----------------------------------------------------------------------------
\* Until the last COUNT is received, RX_NEXT lies beyond everything held and is
\* never passed by RX_DELIV; the first two conjuncts are what makes the timer's
\* bounds inductive.
WInv ==
  ~LastCountReceived =>
    /\ \A c \in DOMAIN reorder_queue : c < rx_next
    /\ rx_deliv <= rx_next
    /\ running => rx_deliv < rx_reord /\ rx_reord <= rx_next
    /\ cfg.t_reordering # "infinity" => (running <=> rx_deliv < rx_next)

\* Initially nothing is held and nothing is missing.
LEMMA InitWInv == Init => WInv
<1> SUFFICES ASSUME Init PROVE WInv
  OBVIOUS
<1>1. DOMAIN reorder_queue = {} /\ rx_deliv = 0 /\ rx_next = 0 /\ running = FALSE
  BY Zenon DEF Init, Empty
<1> QED
  BY <1>1 DEF WInv

\* Delivery cannot forget the last COUNT: it is held on, or delivered, and then
\* rx_overflow is set.  RX_DELIV stops at the first COUNT that is not held.
LEMMA DeliverBelow ==
  ASSUME NEW queue, DOMAIN queue \subseteq Counts, NEW from \in Counts, NEW first,
         rx_overflow \in BOOLEAN, deliver_all_consecutive_counts(queue, first, from),
         ~LastCountReceived'
  PROVE  /\ ~rx_overflow /\ CountMod - 1 \notin DOMAIN queue
         /\ DOMAIN reorder_queue' \subseteq DOMAIN queue
         /\ rx_deliv' \in Counts /\ rx_deliv' >= from
         /\ rx_deliv' = from \/ rx_deliv' - 1 \in DOMAIN queue
<1> DEFINE n == ConsecutiveFrom(queue, from)
<1>1. /\ n \in Nat /\ from + n <= CountMod /\ from \in Nat /\ CountMod \in Nat
      /\ \A i \in 0..(n - 1) : from + i \in DOMAIN queue
  BY ConsecutiveExists, PdcpAssumption DEF Counts
<1>2. /\ reorder_queue' = [c \in {d \in DOMAIN queue : d >= from + n} |-> queue[c]]
      /\ rx_deliv' = (from + n) % CountMod
      /\ rx_overflow' = (rx_overflow \/ from + n = CountMod)
  BY Zenon DEF deliver_all_consecutive_counts
<1> HIDE DEF n
<1>3. DOMAIN reorder_queue' = {d \in DOMAIN queue : d >= from + n}
  BY <1>2, Zenon
<1>4. ~rx_overflow' /\ CountMod - 1 \notin DOMAIN reorder_queue'
  BY Zenon DEF LastCountReceived
<1>5. ~rx_overflow /\ from + n # CountMod
  BY <1>2, <1>4, Zenon
<1>6. CountMod - 1 >= from + n
  BY <1>1, <1>5
<1>7. CountMod - 1 \notin DOMAIN queue
  BY <1>3, <1>4, <1>6, Zenon
<1>8. from + n \in Counts /\ rx_deliv' = from + n
  <2>1. from + n \in Counts
    BY <1>1, <1>6 DEF Counts
  <2> QED
    BY <1>2, <2>1, ModId, Zenon
<1>9. CASE n = 0
  BY <1>1, <1>3, <1>5, <1>7, <1>8, <1>9
<1>10. CASE n # 0
  <2>1. from + (n - 1) \in DOMAIN queue
    BY <1>1, <1>10
  <2>2. from + (n - 1) = rx_deliv' - 1
    BY <1>1, <1>8
  <2> QED
    BY <1>1, <1>3, <1>5, <1>7, <1>8, <2>1, <2>2
<1> QED
  BY <1>9, <1>10, Zenon

\* A step that leaves the receiver alone.
LEMMA SameReceiver ==
  ASSUME WInv, UNCHANGED <<cfg, rx_next, rx_deliv, rx_reord, rx_overflow, reorder_queue, running>>
  PROVE  WInv'
  BY Zenon DEF WInv, LastCountReceived

\* The timer of write_pdu covers the gap up to the new RX_NEXT.
LEMMA TimerCovers ==
  ASSUME HandleReorderingTimer, UNCHANGED cfg, running \in BOOLEAN,
         {rx_deliv, rx_deliv', rx_next, rx_next', rx_reord} \subseteq Counts,
         rx_deliv' >= rx_deliv, rx_next' >= rx_next, rx_deliv' <= rx_next',
         running => rx_reord <= rx_next
  PROVE  /\ running' => rx_deliv' < rx_reord' /\ rx_reord' <= rx_next'
         /\ cfg'.t_reordering # "infinity" => (running' <=> rx_deliv' < rx_next')
<1>1. /\ rx_reord \in Nat /\ rx_next \in Nat /\ rx_next' \in Nat /\ rx_deliv' \in Nat
  BY DEF Counts
<1> DEFINE stopped == running /\ rx_deliv' >= rx_reord
           start == (stopped \/ ~running) /\ cfg.t_reordering # "infinity" /\ rx_deliv' < rx_next'
<1>2. /\ running' = (start \/ (running /\ ~stopped))
      /\ rx_reord' = IF start THEN rx_next' ELSE rx_reord
  BY Zenon DEF HandleReorderingTimer
<1>3. CASE start
  <2>1. running' /\ rx_reord' = rx_next' /\ rx_deliv' < rx_next'
    BY <1>2, <1>3, Zenon
  <2>2. rx_next' <= rx_next'
    BY <1>1
  <2> QED
    BY <2>1, <2>2, Zenon
<1>4. CASE ~start /\ running /\ ~stopped
  <2>1. running' /\ rx_reord' = rx_reord
    BY <1>2, <1>4, Zenon
  <2>2. rx_deliv' < rx_reord /\ rx_reord <= rx_next
    BY <1>1, <1>4
  <2>3. rx_reord <= rx_next' /\ rx_deliv' < rx_next'
    BY <1>1, <2>2
  <2> QED
    BY <2>1, <2>2, <2>3, Zenon
<1>5. CASE ~start /\ ~(running /\ ~stopped)
  <2>1. ~running'
    BY <1>2, <1>5, Zenon
  <2>2. stopped \/ ~running
    BY <1>5, Zenon
  <2>3. cfg.t_reordering # "infinity" => ~(rx_deliv' < rx_next')
    BY <1>5, <2>2, Zenon
  <2> QED
    BY <2>1, <2>3, Zenon
<1> QED
  BY <1>3, <1>4, <1>5, Zenon

\* write_pdu keeps the invariant: RX_NEXT moves beyond the SDU it files, unless
\* that is the one with the last COUNT.
LEMMA ReceiveWInv ==
  ASSUME PInv, PInv', WInv, NEW c \in air, write_pdu(c)
  PROVE  WInv'
<1> DEFINE count == rcvd_count(SN(c))
           drop == rx_overflow \/ count < rx_deliv \/ count \in DOMAIN reorder_queue
           queue == [d \in DOMAIN reorder_queue \union {count} |->
                       IF d = count THEN c ELSE reorder_queue[d]]
<1>1. c \in Counts /\ c + window_size >= rx_deliv /\ UNCHANGED cfg
  BY Zenon DEF write_pdu, PInv
<1>2. CASE drop
  <2>1. Dropped
    BY <1>2, Zenon DEF write_pdu
  <2> QED
    BY <1>1, <2>1, SameReceiver, Zenon DEF Dropped
<1>3. CASE ~drop
  <2> SUFFICES ASSUME ~LastCountReceived' PROVE WInv'
    BY Zenon DEF WInv
  <2>1. ~rx_overflow /\ c < rx_deliv + window_size /\ rx_deliv \in Counts
    BY <1>3, Zenon DEF PInv
  <2>2. count = c /\ ~(c < rx_deliv)
    BY <1>1, <1>3, <2>1, CountExact, Zenon
  <2>3. /\ rx_next' = IF count >= rx_next THEN (count + 1) % CountMod ELSE rx_next
        /\ IF count = rx_deliv
           THEN deliver_all_consecutive_counts(queue, <<>>, rx_deliv)
           ELSE /\ reorder_queue' = queue /\ out' = <<>>
                /\ UNCHANGED <<rx_deliv, rx_overflow, last>>
        /\ HandleReorderingTimer
    BY <1>3, Zenon DEF write_pdu
  <2> HIDE DEF count
  <2>4. DOMAIN queue = DOMAIN reorder_queue \union {c} /\ DOMAIN queue \subseteq Counts
    BY <1>1, <2>2, Zenon DEF PInv
  <2> HIDE DEF queue
  <2>5. /\ CountMod - 1 \notin DOMAIN queue /\ DOMAIN reorder_queue' \subseteq DOMAIN queue
        /\ rx_deliv' \in Counts /\ rx_deliv' >= rx_deliv
        /\ rx_deliv' = rx_deliv \/ rx_deliv' - 1 \in DOMAIN queue
    <3>1. CASE count = rx_deliv
      <4>1. deliver_all_consecutive_counts(queue, <<>>, rx_deliv) /\ rx_overflow \in BOOLEAN
        BY <2>3, <3>1, Zenon DEF PInv
      <4> QED
        BY <2>1, <2>4, <4>1, DeliverBelow
    <3>2. CASE count # rx_deliv
      BY <2>1, <2>3, <3>2 DEF LastCountReceived, Counts
    <3> QED
      BY <3>1, <3>2, Zenon
  <2>6. c + 1 \in Counts /\ rx_next \in Counts /\ c \in Nat /\ rx_next \in Nat
    <3>1. c # CountMod - 1
      BY <2>4, <2>5, Zenon
    <3> QED
      BY <1>1, <3>1, PdcpAssumption DEF PInv, Counts
  <2>7. rx_next' = IF c >= rx_next THEN c + 1 ELSE rx_next
    BY <2>2, <2>3, <2>6, ModId, Zenon
  <2>8. rx_next' \in Counts /\ rx_next' \in Nat /\ rx_next' >= rx_next /\ c < rx_next'
    BY <2>6, <2>7
  <2>9. /\ \A d \in DOMAIN reorder_queue : d < rx_next
        /\ rx_deliv <= rx_next
        /\ running => rx_reord <= rx_next
    <3>1. ~LastCountReceived
      BY <2>1, <2>4, <2>5, Zenon DEF LastCountReceived
    <3> QED
      BY <3>1, Zenon DEF WInv
  <2>10. \A d \in DOMAIN queue : d < rx_next'
    <3> SUFFICES ASSUME NEW d \in DOMAIN queue PROVE d < rx_next'
      BY Zenon
    <3>1. CASE d = c
      BY <2>8, <3>1, Zenon
    <3>2. CASE d # c
      <4>1. d < rx_next /\ d \in Nat
        BY <2>4, <2>9, <3>2 DEF Counts
      <4> QED
        BY <2>6, <2>8, <4>1
    <3> QED
      BY <3>1, <3>2, Zenon
  <2>11. rx_deliv' <= rx_next'
    <3>1. rx_deliv \in Nat /\ rx_deliv' \in Nat
      BY <2>1, <2>5 DEF Counts
    <3>2. CASE rx_deliv' = rx_deliv
      BY <2>6, <2>8, <2>9, <3>1, <3>2
    <3>3. CASE rx_deliv' - 1 \in DOMAIN queue
      <4>1. rx_deliv' - 1 < rx_next'
        BY <2>10, <3>3, Zenon
      <4>2. \A a, b \in Nat : a - 1 < b => a <= b
        OBVIOUS
      <4> QED
        BY <2>8, <3>1, <4>1, <4>2, Zenon
    <3> QED
      BY <2>5, <3>2, <3>3, Zenon
  <2>12. running \in BOOLEAN /\ rx_reord \in Counts
    BY Zenon DEF PInv
  <2>13. {rx_deliv, rx_deliv', rx_next, rx_next', rx_reord} \subseteq Counts
    BY <2>1, <2>5, <2>6, <2>8, <2>12, Zenon
  <2>14. /\ running' => rx_deliv' < rx_reord' /\ rx_reord' <= rx_next'
         /\ cfg'.t_reordering # "infinity" => (running' <=> rx_deliv' < rx_next')
    BY <1>1, <2>3, <2>5, <2>8, <2>9, <2>11, <2>12, <2>13, TimerCovers, Zenon
  <2> QED
    BY <2>5, <2>10, <2>11, <2>14, Zenon DEF WInv
<1> QED
  BY <1>2, <1>3, Zenon

\* The expiry keeps the invariant: RX_REORD, where it starts to deliver, is not
\* beyond RX_NEXT, and it starts the timer again exactly when something between
\* them is missing.
LEMMA ExpiryWInv ==
  ASSUME PInv, WInv, reordering_callback
  PROVE  WInv'
<1> SUFFICES ASSUME ~LastCountReceived' PROVE WInv'
  BY Zenon DEF WInv
<1> DEFINE rest == [c \in {d \in DOMAIN reorder_queue : d >= rx_reord} |-> reorder_queue[c]]
<1>1. PICK first : deliver_all_consecutive_counts(rest, first, rx_reord)
  BY Zenon DEF reordering_callback
<1>2. /\ running /\ running' = (rx_deliv' < rx_next)
      /\ rx_reord' = IF rx_deliv' < rx_next THEN rx_next ELSE rx_reord
      /\ UNCHANGED <<cfg, rx_next>>
  BY Zenon DEF reordering_callback
<1>3. DOMAIN rest = {d \in DOMAIN reorder_queue : d >= rx_reord} /\ DOMAIN rest \subseteq Counts
  BY Zenon DEF PInv
<1> HIDE DEF rest
<1>4. rx_reord \in Counts /\ rx_next \in Counts /\ rx_overflow \in BOOLEAN
  BY Zenon DEF PInv
<1>5. /\ ~rx_overflow /\ CountMod - 1 \notin DOMAIN rest
      /\ DOMAIN reorder_queue' \subseteq DOMAIN rest
      /\ rx_deliv' \in Counts
      /\ rx_deliv' = rx_reord \/ rx_deliv' - 1 \in DOMAIN rest
  BY <1>1, <1>3, <1>4, DeliverBelow
<1>6. ~LastCountReceived
  <2>1. CountMod - 1 >= rx_reord
    BY <1>4, PdcpAssumption DEF Counts
  <2> QED
    BY <1>3, <1>5, <2>1, Zenon DEF LastCountReceived
<1>7. (\A d \in DOMAIN rest : d < rx_next) /\ rx_reord <= rx_next
  BY <1>2, <1>3, <1>6, Zenon DEF WInv
<1>8. rx_deliv' \in Nat /\ rx_next \in Nat
  BY <1>4, <1>5 DEF Counts
<1>9. rx_deliv' <= rx_next
  <2>1. CASE rx_deliv' = rx_reord
    BY <1>7, <2>1, Zenon
  <2>2. CASE rx_deliv' - 1 \in DOMAIN rest
    <3>1. rx_deliv' - 1 < rx_next
      BY <1>7, <2>2, Zenon
    <3>2. \A a, b \in Nat : a - 1 < b => a <= b
      OBVIOUS
    <3> QED
      BY <1>8, <3>1, <3>2, Zenon
  <2> QED
    BY <1>5, <2>1, <2>2, Zenon
<1>10. running' => rx_deliv' < rx_reord' /\ rx_reord' <= rx_next'
  <2> SUFFICES ASSUME running' PROVE rx_deliv' < rx_reord' /\ rx_reord' <= rx_next'
    BY Zenon
  <2>1. rx_deliv' < rx_next /\ rx_reord' = rx_next /\ rx_next' = rx_next
    BY <1>2, Zenon
  <2>2. rx_next <= rx_next
    BY <1>8
  <2> QED
    BY <2>1, <2>2, Zenon
<1>11. (\A d \in DOMAIN reorder_queue' : d < rx_next') /\ rx_deliv' <= rx_next'
  BY <1>2, <1>5, <1>7, <1>9, Zenon
<1>12. running' <=> rx_deliv' < rx_next'
  BY <1>2, Zenon
<1> QED
  BY <1>10, <1>11, <1>12, Zenon DEF WInv

\* While something is missing, and before the last COUNT, a receiver with a
\* t-Reordering has the timer running for a COUNT after RX_DELIV and not after
\* RX_NEXT, in every state of every bearer (pdcp_entity_nr.cc:294-324, 376-403).
THEOREM WaitingAlwaysTimed == Spec => []WaitingIsTimed
<1>1. PInv /\ PInv' /\ WInv /\ [Next]_vars => WInv'
  <2> SUFFICES ASSUME PInv, PInv', WInv, [Next]_vars PROVE WInv'
    BY Zenon
  <2>1. CASE UNCHANGED vars
    BY <2>1, SameReceiver, Zenon DEF vars, rx
  <2>2. CASE write_sdu
    BY <2>2, SameReceiver, Zenon DEF write_sdu
  <2>3. CASE RlcSend
    BY <2>3, SameReceiver, Zenon DEF RlcSend
  <2>4. CASE \E c \in discard_timers : notify_delivery(c) \/ discard_callback(c)
    BY <2>4, SameReceiver, Zenon DEF notify_delivery, discard_callback
  <2>5. CASE \E c \in air : RlcLose(c)
    BY <2>5, SameReceiver, Zenon DEF RlcLose
  <2> QED
    BY <2>1, <2>2, <2>3, <2>4, <2>5, ReceiveWInv, ExpiryWInv DEF Next
<1>2. WInv => WaitingIsTimed
  BY Zenon DEF WInv, WaitingIsTimed
<1> QED
  BY <1>1, <1>2, InitPInv, NextPInv, InitWInv, PTL DEF Spec

-----------------------------------------------------------------------------
(* The bearer implements InOrderDelivery.                                  *)

\* What the peer has submitted, as InOrderDelivery counts it.
Sent == IF tx_overflow THEN CountMod ELSE tx_next

\* Everything on its way was submitted, and what the receiver holds lies beyond
\* what it has delivered.  The last COUNT empties the queue: a timer that runs
\* on after it finds nothing to deliver.
OInv ==
  /\ tx_overflow \in BOOLEAN /\ last \in Counts \union {-1}
  /\ \A c \in air \union DOMAIN reorder_queue : c < Sent
  /\ \A i \in DOMAIN rlc_queue : rlc_queue[i] < Sent
  /\ rx_overflow => DOMAIN reorder_queue = {}
  /\ ~rx_overflow => last < rx_deliv /\ \A c \in DOMAIN reorder_queue : rx_deliv <= c

\* A set of COUNTs has an ascending enumeration: the CHOOSE of Ascending has a
\* value.
LEMMA AscendingExists ==
  ASSUME NEW S, S \subseteq Counts
  PROVE  /\ Ascending(S) \in [1..Cardinality(S) -> S] /\ Cardinality(S) \in Nat
         /\ \A i, j \in 1..Cardinality(S) : i < j => Ascending(S)[i] < Ascending(S)[j]
<1> DEFINE Below(m) == {c \in S : c < m}
           Sorted(s, T) == /\ s \in [1..Cardinality(T) -> T]
                           /\ \A i, j \in 1..Cardinality(T) : i < j => s[i] < s[j]
           Bad == {m \in Nat : ~\E s : Sorted(s, Below(m))}
<1>1. CountMod \in Nat /\ S \subseteq Nat /\ (\A c \in S : c < CountMod)
  BY PdcpAssumption DEF Counts
<1>2. IsFiniteSet(S) /\ \A m \in Nat : IsFiniteSet(Below(m)) /\ Cardinality(Below(m)) \in Nat
  <2>1. 0 \in Int /\ CountMod - 1 \in Int
    BY <1>1
  <2>2. IsFiniteSet(Counts)
    BY <2>1, FS_Interval, Zenon DEF Counts
  <2>3. IsFiniteSet(S)
    BY <2>2, FS_Subset, Zenon
  <2>4. \A m \in Nat : IsFiniteSet(Below(m))
    BY <2>3, FS_Subset, Zenon
  <2> QED
    BY <2>3, <2>4, FS_CardinalityType, Zenon
<1>3. \A m \in Nat : m # 0 => m - 1 \in Nat /\ m - 1 < m /\ \A c \in Nat : c < m <=> c < m - 1 \/ c = m - 1
  OBVIOUS
<1>4. Below(0) = {} /\ Below(CountMod) = S
  <2>1. \A c \in S : ~(c < 0) /\ c < CountMod
    BY <1>1
  <2> QED
    BY <2>1, Zenon
<1>5. ASSUME NEW n \in Nat, n # 0
      PROVE  /\ n - 1 \notin S => Below(n) = Below(n - 1)
             /\ n - 1 \in S => Below(n) = Below(n - 1) \union {n - 1}
             /\ n - 1 \notin Below(n - 1)
  <2>1. n - 1 \in Nat /\ ~(n - 1 < n - 1) /\ \A c \in S : c < n <=> c < n - 1 \/ c = n - 1
    BY <1>1, <1>3, <1>5
  <2> QED
    BY <2>1, Zenon
<1> HIDE DEF Below
<1>6. ASSUME NEW n \in Nat, n # 0, n - 1 \in S, NEW s, Sorted(s, Below(n - 1))
      PROVE  \E t : Sorted(t, Below(n))
  <2> DEFINE k == Cardinality(Below(n - 1))
             t == [i \in 1..(k + 1) |-> IF i = k + 1 THEN n - 1 ELSE s[i]]
  <2>1. Below(n) = Below(n - 1) \union {n - 1} /\ n - 1 \notin Below(n - 1) /\ n - 1 \in Nat
    BY <1>3, <1>5, <1>6, Zenon
  <2>2. k \in Nat /\ Cardinality(Below(n)) = k + 1
    BY <1>2, <2>1, FS_AddElement, Zenon
  <2>3. \A i \in 1..k : s[i] \in Below(n - 1) /\ s[i] < n - 1
    BY <1>6, Zenon DEF Below
  <2> HIDE DEF k
  <2>4. t \in [1..(k + 1) -> Below(n)]
    <3> SUFFICES ASSUME NEW i \in 1..(k + 1) PROVE t[i] \in Below(n)
      BY Zenon
    <3>1. i = k + 1 \/ i \in 1..k
      BY <2>2
    <3> QED
      BY <2>1, <2>3, <3>1, Zenon
  <2>5. ASSUME NEW i \in 1..(k + 1), NEW j \in 1..(k + 1), i < j PROVE t[i] < t[j]
    <3>1. i \in 1..k /\ i # k + 1 /\ (j = k + 1 \/ (j \in 1..k /\ j # k + 1))
      BY <2>2, <2>5
    <3> QED
      BY <1>6, <2>3, <2>5, <3>1, Zenon DEF k
  <2> HIDE DEF t
  <2>6. Sorted(t, Below(n))
    BY <2>2, <2>4, <2>5, Zenon
  <2> QED
    BY <2>6, Zenon
<1>7. Sorted(<<>>, Below(0))
  <2>1. Cardinality(Below(0)) = 0
    BY <1>4, FS_EmptySet, Zenon
  <2> QED
    BY <1>4, <2>1
<1> HIDE DEF Sorted
<1>8. Bad = {}
  <2>1. SUFFICES ASSUME Bad # {} PROVE FALSE
    BY Zenon
  <2>2. Bad \subseteq Nat
    BY Zenon
  <2> HIDE DEF Bad
  <2>3. PICK n \in Bad : \A m \in Bad : ~(m < n)
    <3>1. PICK n \in Bad : \A m \in Bad : ~(<<m, n>> \in OpToRel(<, Nat))
      BY <2>1, <2>2, WFMin, NatLessThanWellFounded, Zenon
    <3> QED
      BY <2>2, <3>1, Zenon DEF OpToRel
  <2>4. n \in Nat /\ n # 0
    BY <1>7, <2>2, <2>3, Zenon DEF Bad
  <2>5. n - 1 \in Nat /\ n - 1 \notin Bad
    BY <1>3, <2>3, <2>4, Zenon
  <2>6. PICK s : Sorted(s, Below(n - 1))
    BY <2>5, Zenon DEF Bad
  <2>7. \E t : Sorted(t, Below(n))
    BY <1>5, <1>6, <2>4, <2>6, Zenon
  <2> QED
    BY <2>3, <2>4, <2>7, Zenon DEF Bad
<1>9. \E s : Sorted(s, S)
  BY <1>1, <1>4, <1>8, Zenon
<1>10. Cardinality(S) \in Nat
  BY <1>2, FS_CardinalityType, Zenon
<1> QED
  BY <1>9, <1>10, Zenon DEF Ascending, Sorted


\* Item j of a sequence of l items without item i is in the part after i.
LEMMA SecondPart ==
  ASSUME NEW l \in Nat, NEW i \in 1..l, NEW j \in i..(l - 1), NEW x, x = i - 1, NEW y, y = l - i
  PROVE  j \in (x + 1)..(x + y) /\ j - x = j - (i - 1)
  OBVIOUS

\* A function on 1..n is a sequence of length n.
LEMMA FcnIsSeq ==
  ASSUME NEW S, NEW n \in Nat, NEW f \in [1..n -> S]
  PROVE  f \in Seq(S) /\ Len(f) = n
<1>1. f \in Seq(S)
  BY SeqIs, Zenon
<1>2. Len(f) \in Nat /\ DOMAIN f = 1..Len(f)
  BY <1>1, SeqDomain, Zenon
<1> QED
  BY <1>1, <1>2

\* The items of a concatenation.
LEMMA ConcatItems ==
  ASSUME NEW S, NEW a \in Seq(S), NEW b \in Seq(S)
  PROVE  /\ a \o b \in Seq(S) /\ Len(a \o b) = Len(a) + Len(b)
         /\ \A i \in 1..Len(a) : (a \o b)[i] = a[i]
         /\ \A i \in (Len(a) + 1)..(Len(a) + Len(b)) : (a \o b)[i] = b[i - Len(a)]
<1>1. Len(a) \in Nat /\ Len(b) \in Nat
  BY SeqDomain, Zenon
<1>2. /\ a \o b \in Seq(S) /\ Len(a \o b) = Len(a) + Len(b)
      /\ \A i \in 1 .. Len(a) + Len(b) : (a \o b)[i] = IF i <= Len(a) THEN a[i] ELSE b[i - Len(a)]
  BY Joined, Zenon
<1> QED
  BY <1>1, <1>2

\* Delivery from COUNT `from', after the SDUs `first' below it, is in order and
\* beyond what was delivered before.
LEMMA DeliverInOrder ==
  ASSUME NEW queue, DOMAIN queue \subseteq Counts, \A c \in DOMAIN queue : queue[c] = c,
         NEW from \in Counts, NEW first \in Seq(Counts), NEW S,
         deliver_all_consecutive_counts(queue, first, from),
         last \in Counts \union {-1}, last < from, \A c \in DOMAIN queue : c < S,
         \A i \in 1..Len(first) : last < first[i] /\ first[i] < from /\ first[i] < S,
         \A i, j \in 1..Len(first) : i < j => first[i] < first[j]
  PROVE  /\ out' \in Seq(Counts) /\ last' \in Counts \union {-1}
         /\ \A i \in 1..Len(out') : /\ out'[i] < S
                                    /\ out'[i] > IF i = 1 THEN last ELSE out'[i - 1]
         /\ last' = IF out' = <<>> THEN last ELSE out'[Len(out')]
         /\ DOMAIN reorder_queue' \subseteq DOMAIN queue
         /\ rx_overflow' => rx_overflow \/ DOMAIN reorder_queue' = {}
         /\ ~rx_overflow' => last' < rx_deliv' /\ \A c \in DOMAIN reorder_queue' : rx_deliv' <= c
<1> DEFINE n == ConsecutiveFrom(queue, from)
           k == Len(first)
           run == [i \in 1..n |-> queue[from + i - 1]]
<1>1. /\ n \in Nat /\ from + n <= CountMod /\ from \in Nat /\ CountMod \in Nat
      /\ \A i \in 0..(n - 1) : from + i \in DOMAIN queue
  <2>1. from \in Nat /\ CountMod \in Nat
    BY PdcpAssumption DEF Counts
  <2> QED
    BY <2>1, ConsecutiveExists, Zenon
<1>2. /\ out' = first \o run
      /\ reorder_queue' = [c \in {d \in DOMAIN queue : d >= from + n} |-> queue[c]]
      /\ rx_deliv' = (from + n) % CountMod
      /\ rx_overflow' = (rx_overflow \/ from + n = CountMod)
      /\ last' = IF out' = <<>> THEN last ELSE out'[Len(out')]
  BY Zenon DEF deliver_all_consecutive_counts
<1>3. k \in Nat
  OBVIOUS
<1> HIDE DEF n
<1>4. \A i \in 1..n : from + i - 1 \in DOMAIN queue /\ run[i] = from + i - 1 /\ run[i] \in Counts /\ run[i] < S
  <2> SUFFICES ASSUME NEW i \in 1..n
               PROVE  from + i - 1 \in DOMAIN queue /\ run[i] = from + i - 1 /\ run[i] \in Counts /\ run[i] < S
    BY Zenon
  <2>1. i - 1 \in 0..(n - 1) /\ from + (i - 1) = from + i - 1
    BY <1>1
  <2>2. from + i - 1 \in DOMAIN queue
    BY <1>1, <2>1, Zenon
  <2> QED
    BY <2>2, Zenon
<1>5. run \in Seq(Counts) /\ Len(run) = n
  <2>1. run \in [1..n -> Counts]
    BY <1>4, Zenon
  <2> HIDE DEF run
  <2> QED
    BY <1>1, <2>1, FcnIsSeq, Zenon
<1> HIDE DEF run
<1>6. /\ out' \in Seq(Counts) /\ Len(out') = k + n
      /\ \A i \in 1..k : out'[i] = first[i]
      /\ \A i \in (k + 1)..(k + n) : out'[i] = run[i - k]
  <2>1. /\ first \o run \in Seq(Counts) /\ Len(first \o run) = Len(first) + Len(run)
        /\ \A i \in 1..Len(first) : (first \o run)[i] = first[i]
        /\ \A i \in (Len(first) + 1)..(Len(first) + Len(run)) : (first \o run)[i] = run[i - Len(first)]
    BY <1>5, ConcatItems, Zenon
  <2> QED
    BY <1>2, <1>5, <2>1, Zenon
<1> HIDE DEF k
<1>7. \A i \in 1..k : out'[i] < S /\ out'[i] < from /\ last < out'[i] /\ out'[i] \in Nat
  <2>1. \A i \in 1..k : first[i] \in Nat
    <3>1. Counts \subseteq Nat
      BY DEF Counts
    <3> QED
      BY <3>1, SeqItem, Zenon DEF k
  <2> QED
    BY <1>6, <2>1, Zenon DEF k
<1>8. \A i \in (k + 1)..(k + n) : out'[i] < S /\ out'[i] = from + (i - k) - 1
  <2> SUFFICES ASSUME NEW i \in (k + 1)..(k + n) PROVE out'[i] < S /\ out'[i] = from + (i - k) - 1
    BY Zenon
  <2>1. i - k \in 1..n
    BY <1>1, <1>3
  <2> QED
    BY <1>4, <1>6, <2>1, Zenon
<1>9. last \in Int
  BY DEF Counts
<1>10. ASSUME NEW i \in 1..Len(out')
       PROVE  out'[i] < S /\ out'[i] > IF i = 1 THEN last ELSE out'[i - 1]
  <2>1. CASE i \in 1..k /\ i = 1
    BY <1>7, <1>9, <2>1, Zenon
  <2>2. CASE i \in 1..k /\ i # 1
    <3>1. i - 1 \in 1..k /\ i - 1 < i
      BY <1>3, <2>2
    <3>2. first[i - 1] < first[i]
      BY <2>2, <3>1, Zenon DEF k
    <3>3. out'[i - 1] < out'[i] /\ out'[i - 1] \in Nat /\ out'[i] \in Nat
      BY <1>6, <1>7, <2>2, <3>1, <3>2
    <3> QED
      BY <1>7, <2>2, <3>3
  <2>3. CASE i \in (k + 1)..(k + n) /\ i = 1
    <3>1. k = 0 /\ out'[i] = from /\ out'[i] < S
      BY <1>1, <1>3, <1>8, <2>3
    <3> QED
      BY <1>1, <1>9, <2>3, <3>1, Zenon
  <2>4. CASE i = k + 1 /\ i \in (k + 1)..(k + n) /\ i # 1
    <3>1. i - 1 \in 1..k /\ out'[i] = from /\ out'[i] < S
      BY <1>1, <1>3, <1>8, <2>4
    <3>2. out'[i - 1] < from /\ out'[i - 1] \in Nat
      BY <1>7, <3>1, Zenon
    <3> QED
      BY <1>1, <2>4, <3>1, <3>2, Zenon
  <2>5. CASE i \in (k + 2)..(k + n)
    <3>1. i - 1 \in (k + 1)..(k + n) /\ i \in (k + 1)..(k + n) /\ i # 1
      BY <1>1, <1>3, <2>5
    <3>2. out'[i] = from + (i - k) - 1 /\ out'[i - 1] = from + (i - 1 - k) - 1 /\ out'[i] < S
      BY <1>8, <3>1, Zenon
    <3> QED
      BY <1>1, <1>3, <3>1, <3>2
  <2>6. i \in 1..k \/ i = k + 1 \/ i \in (k + 2)..(k + n)
    BY <1>1, <1>3, <1>6
  <2>7. i = k + 1 => i \in (k + 1)..(k + n)
    BY <1>1, <1>3, <1>6
  <2> QED
    BY <2>1, <2>2, <2>3, <2>4, <2>5, <2>6, <2>7, Zenon
<1>11. last' \in Counts \union {-1} /\ last' < from + n
  <2>1. CASE out' = <<>>
    BY <1>1, <1>2, <1>9, <2>1
  <2>2. CASE out' # <<>>
    <3>1. Len(out') \in 1..(k + n) /\ last' = out'[Len(out')] /\ last' \in Counts
      BY <1>2, <1>6, <2>2
    <3>2. CASE n = 0
      <4>1. Len(out') \in 1..k
        BY <1>3, <1>6, <3>1, <3>2
      <4> QED
        BY <1>1, <1>7, <3>1, <3>2, <4>1
    <3>3. CASE n # 0
      <4>1. Len(out') \in (k + 1)..(k + n) /\ Len(out') = k + n
        BY <1>1, <1>3, <1>6, <3>3
      <4>2. last' = from + n - 1
        <5>1. PICK m \in (k + 1)..(k + n) : m = Len(out') /\ m = k + n
          BY <4>1, Zenon
        <5>2. out'[m] = from + (m - k) - 1
          BY <1>8, Zenon
        <5>3. last' = out'[m]
          BY <3>1, <5>1, Zenon
        <5>4. m - k = n
          BY <1>1, <1>3, <5>1
        <5> QED
          BY <5>2, <5>3, <5>4, Zenon
      <4>3. from + n - 1 < from + n
        BY <1>1
      <4> QED
        BY <3>1, <4>2, <4>3, Zenon
    <3> QED
      BY <3>2, <3>3, Zenon
  <2> QED
    BY <2>1, <2>2, Zenon
<1>12. DOMAIN reorder_queue' = {d \in DOMAIN queue : d >= from + n}
  BY <1>2, Zenon
<1>13. from + n = CountMod => DOMAIN reorder_queue' = {}
  <2>1. \A d \in DOMAIN queue : ~(d >= CountMod)
    BY <1>1 DEF Counts
  <2> QED
    BY <1>12, <2>1, Zenon
<1>14. ASSUME ~rx_overflow' PROVE last' < rx_deliv' /\ \A c \in DOMAIN reorder_queue' : rx_deliv' <= c
  <2>1. from + n \in Counts
    <3>1. from + n # CountMod
      BY <1>2, <1>14, Zenon
    <3> QED
      BY <1>1, <3>1 DEF Counts
  <2>2. rx_deliv' = from + n
    BY <1>2, <2>1, ModId, Zenon
  <2>3. \A c \in DOMAIN reorder_queue' : from + n <= c
    BY <1>1, <1>12, Zenon DEF Counts
  <2> QED
    BY <1>11, <2>2, <2>3, Zenon
<1> QED
  BY <1>2, <1>6, <1>10, <1>11, <1>12, <1>13, <1>14, Zenon

\* Submitting an SDU makes room for one more.
LEMMA WriteOInv ==
  ASSUME PInv, OInv, write_sdu
  PROVE  OInv' /\ Order!Submit
<1>1. /\ ~tx_overflow /\ tx_overflow' = (tx_next + 1 = CountMod)
      /\ rlc_queue' = Append(rlc_queue, tx_next) /\ tx_next' = (tx_next + 1) % CountMod
      /\ out' = <<>> /\ UNCHANGED <<air, reorder_queue, rx_overflow, rx_deliv, last>>
  BY Zenon DEF write_sdu
<1>2. tx_next \in Counts /\ tx_next \in Nat /\ CountMod \in Nat /\ rlc_queue \in Seq(Counts)
      /\ air \subseteq Counts /\ DOMAIN reorder_queue \subseteq Counts
  BY PdcpAssumption DEF PInv, Counts
<1>3. Sent = tx_next /\ Sent' = Sent + 1
  <2>1. CASE tx_next + 1 = CountMod
    BY <1>1, <2>1, Zenon DEF Sent
  <2>2. CASE tx_next + 1 # CountMod
    <3>1. tx_next + 1 \in Counts
      BY <1>2, <2>2 DEF Counts
    <3> QED
      BY <1>1, <2>2, <3>1, ModId, Zenon DEF Sent
  <2> QED
    BY <2>1, <2>2, Zenon
<1>4. \A c \in Nat : c < Sent => c < Sent'
  BY <1>2, <1>3
<1>5. \A c \in air \union DOMAIN reorder_queue : c < Sent'
  <2>1. air \union DOMAIN reorder_queue \subseteq Nat
    <3>1. Counts \subseteq Nat
      BY DEF Counts
    <3> QED
      BY <1>2, <3>1, Zenon
  <2> QED
    BY <1>4, <2>1, Zenon DEF OInv
<1>6. \A i \in DOMAIN rlc_queue' : rlc_queue'[i] < Sent'
  <2> SUFFICES ASSUME NEW i \in DOMAIN rlc_queue' PROVE rlc_queue'[i] < Sent'
    BY Zenon
  <2>1. (i \in DOMAIN rlc_queue /\ rlc_queue'[i] = rlc_queue[i]) \/ rlc_queue'[i] = tx_next
    BY <1>1, <1>2
  <2>2. CASE rlc_queue'[i] = tx_next
    BY <1>2, <1>3, <2>2
  <2>3. CASE i \in DOMAIN rlc_queue /\ rlc_queue'[i] = rlc_queue[i]
    <3>1. rlc_queue[i] < Sent /\ rlc_queue[i] \in Nat
      BY <1>2, <2>3 DEF OInv, Counts
    <3> QED
      BY <1>4, <2>3, <3>1, Zenon
  <2> QED
    BY <2>1, <2>2, <2>3, Zenon
<1>7. tx_overflow' \in BOOLEAN
  BY <1>1, Zenon
<1>8. OInv'
  BY <1>1, <1>5, <1>6, <1>7, Zenon DEF OInv
<1>9. Order!Submit
  BY <1>1, <1>3, Zenon DEF Order!Submit, Sent
<1> QED
  BY <1>8, <1>9, Zenon

\* A step of the sender's timers or of RLC delivers nothing and brings in
\* nothing that was not submitted.
LEMMA QuietOInv ==
  ASSUME PInv, OInv,
         \/ RlcSend
         \/ \E c \in discard_timers : notify_delivery(c) \/ discard_callback(c)
         \/ \E c \in air : RlcLose(c)
  PROVE  OInv' /\ Order!Quiet
<1> USE DEF tx, rlc
<1>1. /\ UNCHANGED <<tx_next, tx_overflow, reorder_queue, rx_overflow, rx_deliv, last>>
      /\ out' = <<>>
  BY Zenon DEF RlcSend, notify_delivery, discard_callback, RlcLose
<1>2. Sent' = Sent /\ Order!Quiet
  BY <1>1, Zenon DEF Order!Quiet, Sent
<1>3. rlc_queue \in Seq(Counts)
  BY Zenon DEF PInv
<1>4. ASSUME \A c \in air' : c < Sent, \A i \in DOMAIN rlc_queue' : rlc_queue'[i] < Sent
      PROVE  OInv'
  BY <1>1, <1>2, <1>4, Zenon DEF OInv
<1> DEFINE Old == /\ \A c \in air : c < Sent
                  /\ \A i \in DOMAIN rlc_queue : rlc_queue[i] < Sent
<1>5. Old
  BY Zenon DEF OInv
<1>6. CASE RlcSend
  <2>1. rlc_queue # <<>> /\ rlc_queue' = Tail(rlc_queue) /\ air' = air \union {Head(rlc_queue)}
    BY <1>6, Zenon DEF RlcSend
  <2>2. Head(rlc_queue) = rlc_queue[1] /\ 1 \in DOMAIN rlc_queue
        /\ \A i \in DOMAIN rlc_queue' : i + 1 \in DOMAIN rlc_queue /\ rlc_queue'[i] = rlc_queue[i + 1]
    BY <1>3, <2>1
  <2> QED
    BY <1>2, <1>4, <1>5, <2>1, <2>2, Zenon
<1>7. CASE \E c \in discard_timers : notify_delivery(c)
  BY <1>2, <1>4, <1>7, <1>5, Zenon DEF notify_delivery
<1>8. CASE \E c \in discard_timers : discard_callback(c)
  <2>1. UNCHANGED air /\ (UNCHANGED rlc_queue \/ \E i \in DOMAIN rlc_queue : rlc_queue' = RemoveAt(rlc_queue, i))
    BY <1>8, Zenon DEF discard_callback
  <2>2. CASE UNCHANGED rlc_queue
    BY <1>2, <1>4, <1>5, <2>1, <2>2, Zenon
  <2>3. ASSUME NEW i \in DOMAIN rlc_queue, rlc_queue' = RemoveAt(rlc_queue, i)
        PROVE  \A j \in DOMAIN rlc_queue' : \E k \in DOMAIN rlc_queue : rlc_queue'[j] = rlc_queue[k]
    <3> DEFINE a == SubSeq(rlc_queue, 1, i - 1)
               b == SubSeq(rlc_queue, i + 1, Len(rlc_queue))
    <3>1. i \in 1..Len(rlc_queue) /\ Len(rlc_queue) \in Nat /\ DOMAIN rlc_queue = 1..Len(rlc_queue)
      BY <1>3, SeqDomain, Zenon
    <3>2. /\ a \in Seq(Counts) /\ Len(a) = i - 1 /\ \A j \in 1..(i - 1) : a[j] = rlc_queue[j]
          /\ b \in Seq(Counts) /\ Len(b) = Len(rlc_queue) - i
          /\ \A j \in 1..(Len(rlc_queue) - i) : b[j] = rlc_queue[i + j]
      <4>1. a \in Seq(Counts) /\ Len(a) = i - 1 /\ \A j \in 1..(i - 1) : a[j] = rlc_queue[j]
        BY <1>3, <3>1, PartBefore, Zenon
      <4>2. /\ b \in Seq(Counts) /\ Len(b) = Len(rlc_queue) - i
            /\ \A j \in 1..(Len(rlc_queue) - i) : b[j] = rlc_queue[i + j]
        BY <1>3, <3>1, PartAfter, Zenon
      <4> QED
        BY <4>1, <4>2, Zenon
    <3>3. rlc_queue' = a \o b
      BY <2>3, Zenon DEF RemoveAt
    <3> HIDE DEF a, b
    <3>4. /\ Len(rlc_queue') = Len(a) + Len(b) /\ rlc_queue' \in Seq(Counts)
          /\ \A j \in 1..Len(a) : rlc_queue'[j] = a[j]
          /\ \A j \in (Len(a) + 1)..(Len(a) + Len(b)) : rlc_queue'[j] = b[j - Len(a)]
      <4>1. a \in Seq(Counts) /\ b \in Seq(Counts)
        BY <3>2, Zenon
      <4> QED
        BY <3>3, <4>1, ConcatItems, Zenon
    <3>5. DOMAIN rlc_queue' = 1..(Len(rlc_queue) - 1)
      <4>1. /\ Len(a) = i - 1 /\ Len(b) = Len(rlc_queue) - i
            /\ Len(rlc_queue') = Len(a) + Len(b) /\ rlc_queue' \in Seq(Counts)
        BY <3>2, <3>4, Zenon
      <4>2. Len(rlc_queue') = Len(rlc_queue) - 1
        BY <3>1, <4>1
      <4> QED
        BY <4>1, <4>2, SeqDomain, Zenon
    <3>6. ASSUME NEW j \in 1..(Len(rlc_queue) - 1) PROVE \E k \in DOMAIN rlc_queue : rlc_queue'[j] = rlc_queue[k]
      <4>1. CASE j \in 1..(i - 1)
        <5>1. j \in 1..Len(a) /\ j \in DOMAIN rlc_queue
          BY <3>1, <3>2, <4>1
        <5> QED
          BY <3>2, <3>4, <4>1, <5>1, Zenon
      <4>2. CASE j \notin 1..(i - 1)
        <5>1. j \in i..(Len(rlc_queue) - 1) /\ j - (i - 1) \in 1..(Len(rlc_queue) - i)
              /\ i + (j - (i - 1)) = j + 1 /\ j + 1 \in DOMAIN rlc_queue
          BY <3>1, <4>2
        <5>2. rlc_queue'[j] = b[j - (i - 1)]
          <6>1. Len(a) = i - 1 /\ Len(b) = Len(rlc_queue) - i
            BY <3>2, Zenon
          <6>2. j \in (Len(a) + 1)..(Len(a) + Len(b)) /\ j - Len(a) = j - (i - 1)
            BY <3>1, <5>1, <6>1, SecondPart, Zenon
          <6> QED
            BY <3>4, <6>2, Zenon
        <5>3. b[j - (i - 1)] = rlc_queue[i + (j - (i - 1))]
          BY <3>2, <5>1, Zenon
        <5> QED
          BY <5>1, <5>2, <5>3, Zenon
      <4> QED
        BY <4>1, <4>2, Zenon
    <3> QED
      BY <3>5, <3>6, Zenon
  <2>4. CASE \E i \in DOMAIN rlc_queue : rlc_queue' = RemoveAt(rlc_queue, i)
    BY <1>2, <1>4, <1>5, <2>1, <2>3, <2>4, Zenon
  <2> QED
    BY <2>1, <2>2, <2>4, Zenon
<1>9. CASE \E c \in air : RlcLose(c)
  BY <1>2, <1>4, <1>9, <1>5, Zenon DEF RlcLose
<1> QED
  BY <1>2, <1>6, <1>7, <1>8, <1>9, Zenon

\* write_pdu delivers in order: it delivers the SDU it was waiting for and those
\* it held behind it, or nothing.
LEMMA ReceiveOInv ==
  ASSUME PInv, OInv, NEW c \in air, write_pdu(c)
  PROVE  OInv' /\ (Order!Deliver \/ Order!Quiet) /\ out' \in Seq(Counts)
<1> DEFINE count == rcvd_count(SN(c))
           drop == rx_overflow \/ count < rx_deliv \/ count \in DOMAIN reorder_queue
           queue == [d \in DOMAIN reorder_queue \union {count} |->
                       IF d = count THEN c ELSE reorder_queue[d]]
<1>1. c \in Counts /\ c + window_size >= rx_deliv /\ air' \subseteq air /\ c < Sent
  BY Zenon DEF write_pdu, PInv, OInv
<1>2. UNCHANGED <<tx_next, tx_overflow, rlc_queue>> /\ Sent' = Sent
  BY Zenon DEF write_pdu, tx, Sent
<1>3. CASE drop
  <2>1. Dropped
    BY <1>3, Zenon DEF write_pdu
  <2>2. OInv'
    BY <1>1, <1>2, <2>1, Zenon DEF Dropped, OInv
  <2>3. Order!Quiet /\ out' \in Seq(Counts)
    BY <1>2, <2>1 DEF Dropped, Order!Quiet
  <2> QED
    BY <2>2, <2>3, Zenon
<1>4. CASE ~drop
  <2>1. ~rx_overflow /\ c < rx_deliv + window_size /\ rx_deliv \in Counts
    BY <1>4, Zenon DEF PInv
  <2>2. count = c /\ ~(c < rx_deliv)
    BY <1>1, <1>4, <2>1, CountExact, Zenon
  <2>3. IF count = rx_deliv
        THEN deliver_all_consecutive_counts(queue, <<>>, rx_deliv)
        ELSE /\ reorder_queue' = queue /\ out' = <<>>
             /\ UNCHANGED <<rx_deliv, rx_overflow, last>>
    BY <1>4, Zenon DEF write_pdu
  <2> HIDE DEF count
  <2>4. /\ DOMAIN queue \subseteq Counts /\ (\A d \in DOMAIN queue : queue[d] = d)
        /\ DOMAIN queue = DOMAIN reorder_queue \union {c}
    BY <1>1, <2>2, Zenon DEF PInv, CountRecovered
  <2> HIDE DEF queue
  <2>5. \A d \in DOMAIN queue : d < Sent
    BY <1>1, <2>4, Zenon DEF OInv
  <2>6. /\ tx_overflow \in BOOLEAN /\ last \in Counts \union {-1} /\ last < rx_deliv
        /\ (\A d \in air : d < Sent) /\ (\A d \in DOMAIN reorder_queue : rx_deliv <= d)
        /\ (\A i \in DOMAIN rlc_queue : rlc_queue[i] < Sent)
    BY <2>1, Zenon DEF OInv
  <2>7. CASE count = rx_deliv
    <3>1. deliver_all_consecutive_counts(queue, <<>>, rx_deliv)
      BY <2>3, <2>7, Zenon
    <3>2. <<>> \in Seq(Counts) /\ 1..Len(<<>>) = {}
      OBVIOUS
    <3>3. /\ last' \in Counts \union {-1} /\ out' \in Seq(Counts)
          /\ \A i \in 1..Len(out') : /\ out'[i] < Sent
                                     /\ out'[i] > IF i = 1 THEN last ELSE out'[i - 1]
          /\ last' = IF out' = <<>> THEN last ELSE out'[Len(out')]
          /\ DOMAIN reorder_queue' \subseteq DOMAIN queue
          /\ rx_overflow' => rx_overflow \/ DOMAIN reorder_queue' = {}
          /\ ~rx_overflow' => last' < rx_deliv' /\ \A d \in DOMAIN reorder_queue' : rx_deliv' <= d
      BY <2>1, <2>4, <2>5, <2>6, <3>1, <3>2, DeliverInOrder, Zenon
    <3>4. OInv'
      <4>1. tx_overflow' \in BOOLEAN /\ \A i \in DOMAIN rlc_queue' : rlc_queue'[i] < Sent'
        BY <1>2, <2>6, Zenon
      <4>2. \A d \in air' \union DOMAIN reorder_queue' : d < Sent'
        BY <1>1, <1>2, <2>5, <2>6, <3>3, Zenon
      <4> QED
        BY <2>1, <3>3, <4>1, <4>2, Zenon DEF OInv
    <3>5. CASE out' = <<>>
      BY <1>2, <3>3, <3>4, <3>5, Zenon DEF Order!Quiet, Sent
    <3>6. CASE out' # <<>>
      BY <1>2, <3>3, <3>4, <3>6, Zenon DEF Order!Deliver, Sent
    <3> QED
      BY <3>5, <3>6, Zenon
  <2>8. CASE count # rx_deliv
    <3>1. reorder_queue' = queue /\ out' = <<>> /\ UNCHANGED <<rx_deliv, rx_overflow, last>>
      BY <2>3, <2>8, Zenon
    <3>2. rx_deliv <= c
      BY <1>1, <2>1, <2>2, SMTT(15) DEF Counts
    <3>3. tx_overflow' \in BOOLEAN /\ \A i \in DOMAIN rlc_queue' : rlc_queue'[i] < Sent'
      BY <1>2, <2>6
    <3>4. \A d \in air' \union DOMAIN reorder_queue' : d < Sent'
      BY <1>1, <1>2, <2>5, <2>6, <3>1, Zenon
    <3>5. \A d \in DOMAIN reorder_queue' : rx_deliv' <= d
      BY <2>4, <2>6, <3>1, <3>2, Zenon
    <3>6. ~rx_overflow' /\ last' \in Counts \union {-1} /\ last' < rx_deliv'
      BY <2>1, <2>6, <3>1, Zenon
    <3>7. OInv'
      BY <3>3, <3>4, <3>5, <3>6, Zenon DEF OInv
    <3> QED
      BY <1>2, <3>1, <3>7 DEF Order!Quiet, Sent
  <2> QED
    BY <2>7, <2>8, Zenon
<1> QED
  BY <1>3, <1>4, Zenon

\* The expiry of t-Reordering delivers in order: what it held before RX_REORD in
\* the order of the map, and then what follows.
LEMMA ExpiryOInv ==
  ASSUME PInv, OInv, reordering_callback
  PROVE  OInv' /\ (Order!Deliver \/ Order!Quiet) /\ out' \in Seq(Counts)
<1> DEFINE T == {c \in DOMAIN reorder_queue : c < rx_reord}
           before == Ascending(T)
           rest == [c \in {d \in DOMAIN reorder_queue : d >= rx_reord} |-> reorder_queue[c]]
           first == [i \in DOMAIN before |-> reorder_queue[before[i]]]
           n == Cardinality(T)
<1>1. /\ deliver_all_consecutive_counts(rest, first, rx_reord) /\ running
      /\ UNCHANGED <<tx_next, tx_overflow, air, rlc_queue>> /\ Sent' = Sent
  BY Zenon DEF reordering_callback, tx, rlc, Sent
<1>2. /\ DOMAIN rest \subseteq Counts /\ (\A c \in DOMAIN rest : rest[c] = c)
      /\ DOMAIN rest \subseteq DOMAIN reorder_queue /\ T \subseteq DOMAIN reorder_queue
      /\ T \subseteq Counts /\ \A c \in T : c < rx_reord /\ reorder_queue[c] = c
  BY Zenon DEF PInv, CountRecovered
<1>3. /\ rx_reord \in Counts /\ rx_deliv \in Counts /\ rx_overflow \in BOOLEAN
      /\ rx_deliv \in Nat /\ rx_reord \in Nat /\ (~rx_overflow => rx_deliv < rx_reord)
  BY <1>1 DEF PInv, Counts
<1>4. /\ tx_overflow \in BOOLEAN /\ last \in Counts \union {-1} /\ last \in Int
      /\ (\A d \in air : d < Sent) /\ (\A d \in DOMAIN reorder_queue : d < Sent)
      /\ (\A i \in DOMAIN rlc_queue : rlc_queue[i] < Sent)
      /\ (rx_overflow => DOMAIN reorder_queue = {})
      /\ ~rx_overflow => last < rx_deliv /\ \A d \in DOMAIN reorder_queue : rx_deliv <= d
  BY DEF OInv, Counts
<1> HIDE DEF T, rest
<1>5. /\ before \in [1..n -> T] /\ n \in Nat
      /\ \A i, j \in 1..n : i < j => before[i] < before[j]
  BY <1>2, AscendingExists, Zenon
<1>6. first = before
  BY <1>2, <1>5, Zenon
<1> HIDE DEF first, before, n
<1>7. first \in Seq(Counts) /\ Len(first) = n
  <2>1. first \in [1..n -> Counts]
    BY <1>2, <1>5, <1>6, Zenon
  <2> QED
    BY <1>5, <2>1, FcnIsSeq, Zenon
<1>8. CASE rx_overflow
  <2>1. DOMAIN rest = {} /\ T = {}
    BY <1>2, <1>4, <1>8, Zenon
  <2>2. n = 0
    BY <2>1, FS_EmptySet, Zenon DEF n
  <2>3. first = <<>>
    BY <1>7, <2>2
  <2>4. rx_reord + 0 \notin DOMAIN rest
    BY <2>1, Zenon
  <2>5. ConsecutiveFrom(rest, rx_reord) = 0
    <3>1. LET k == ConsecutiveFrom(rest, rx_reord)
          IN  k \in Nat /\ \A i \in 0..(k - 1) : rx_reord + i \in DOMAIN rest
      BY <1>2, <1>3, ConsecutiveExists, Zenon
    <3>2. ConsecutiveFrom(rest, rx_reord) # 0 => 0 \in 0..(ConsecutiveFrom(rest, rx_reord) - 1)
      BY <3>1
    <3> QED
      BY <2>1, <3>1, <3>2, Zenon
  <2>6. out' = <<>> /\ last' = last /\ DOMAIN reorder_queue' = {} /\ rx_overflow'
    <3>1. [i \in 1..0 |-> rest[rx_reord + i - 1]] = <<>>
      OBVIOUS
    <3>2. out' = <<>> \o <<>>
      BY <1>1, <2>3, <2>5, <3>1, Zenon DEF deliver_all_consecutive_counts
    <3>3. out' = <<>>
      BY <3>2
    <3>4. last' = last /\ rx_overflow' /\ DOMAIN reorder_queue' \subseteq DOMAIN rest
      BY <1>1, <1>8, <3>3, Zenon DEF deliver_all_consecutive_counts
    <3> QED
      BY <2>1, <3>3, <3>4, Zenon
  <2>7. OInv'
    BY <1>1, <1>4, <2>6, Zenon DEF OInv
  <2> QED
    BY <1>1, <2>6, <2>7 DEF Order!Quiet, Sent
<1>9. CASE ~rx_overflow
  <2>1. last < rx_reord
    BY <1>3, <1>4, <1>9
  <2>2. \A i \in 1..Len(first) : first[i] \in T
    BY <1>5, <1>6, <1>7, Zenon
  <2>3. \A i \in 1..Len(first) : last < first[i] /\ first[i] < rx_reord /\ first[i] < Sent
    <3> SUFFICES ASSUME NEW i \in 1..Len(first)
                 PROVE  last < first[i] /\ first[i] < rx_reord /\ first[i] < Sent
      BY Zenon
    <3>1. first[i] \in T /\ first[i] \in Nat
      BY <1>2, <2>2 DEF Counts
    <3>2. rx_deliv <= first[i] /\ first[i] < Sent /\ first[i] < rx_reord
      BY <1>2, <1>4, <1>9, <3>1, Zenon
    <3> QED
      BY <1>3, <1>4, <1>9, <3>1, <3>2
  <2>4. \A i, j \in 1..Len(first) : i < j => first[i] < first[j]
    BY <1>5, <1>6, <1>7, Zenon
  <2>5. \A d \in DOMAIN rest : d < Sent
    BY <1>2, <1>4, Zenon
  <2>6. /\ last' \in Counts \union {-1} /\ out' \in Seq(Counts)
        /\ \A i \in 1..Len(out') : /\ out'[i] < Sent
                                   /\ out'[i] > IF i = 1 THEN last ELSE out'[i - 1]
        /\ last' = IF out' = <<>> THEN last ELSE out'[Len(out')]
        /\ DOMAIN reorder_queue' \subseteq DOMAIN rest
        /\ rx_overflow' => rx_overflow \/ DOMAIN reorder_queue' = {}
        /\ ~rx_overflow' => last' < rx_deliv' /\ \A d \in DOMAIN reorder_queue' : rx_deliv' <= d
    BY <1>1, <1>2, <1>3, <1>4, <1>7, <2>1, <2>3, <2>4, <2>5, DeliverInOrder, Zenon
  <2>7. OInv'
    <3>1. tx_overflow' \in BOOLEAN /\ \A i \in DOMAIN rlc_queue' : rlc_queue'[i] < Sent'
      BY <1>1, <1>4, Zenon
    <3>2. \A d \in air' \union DOMAIN reorder_queue' : d < Sent'
      BY <1>1, <1>4, <2>5, <2>6, Zenon
    <3> QED
      BY <1>9, <2>6, <3>1, <3>2, Zenon DEF OInv
  <2>8. CASE out' = <<>>
    BY <1>1, <2>6, <2>7, <2>8, Zenon DEF Order!Quiet, Sent
  <2>9. CASE out' # <<>>
    BY <1>1, <2>6, <2>7, <2>9, Zenon DEF Order!Deliver, Sent
  <2> QED
    BY <2>8, <2>9, Zenon
<1> QED
  BY <1>8, <1>9, Zenon

\* Initially nothing was submitted.
LEMMA InitOInv == Init => OInv /\ Order!Init
<1> SUFFICES ASSUME Init PROVE OInv /\ Order!Init
  BY Zenon
<1>1. DOMAIN reorder_queue = {} /\ rx_deliv = 0 /\ last = -1 /\ air = {} /\ rlc_queue = <<>>
      /\ tx_overflow = FALSE /\ rx_overflow = FALSE /\ tx_next = 0 /\ out = <<>>
  BY Zenon DEF Init, Empty
<1>2. OInv
  <2>1. last < rx_deliv /\ last \in Counts \union {-1}
    <3>1. -1 < 0
      OBVIOUS
    <3>2. last = -1 /\ rx_deliv = 0
      BY <1>1, Zenon
    <3> QED
      BY <3>1, <3>2, Zenon
  <2>2. tx_overflow \in BOOLEAN /\ DOMAIN rlc_queue = {}
    <3>1. tx_overflow \in BOOLEAN /\ rlc_queue = <<>>
      BY <1>1, Zenon
    <3>2. DOMAIN <<>> = {}
      OBVIOUS
    <3> QED
      BY <3>1, <3>2, Zenon
  <2> QED
    BY <1>1, <2>1, <2>2, Zenon DEF OInv
<1>3. Order!Init
  BY <1>1, Zenon DEF Order!Init
<1> QED
  BY <1>2, <1>3, Zenon

\* The bearer refines InOrderDelivery: for every SN length, COUNT width and
\* configuration, whatever RLC loses, duplicates, reorders or discards, the
\* receiver delivers SDUs the peer submitted, in order and each at most once, up
\* to and over the last COUNT (pdcp_entity_nr.cc:62-146, 186-324, 376-403).
THEOREM BearerImplementsOrder == Spec => ImplementsOrder
<1>1. ASSUME PInv, OInv, [Next]_vars
      PROVE  /\ OInv'
             /\ [Order!Submit \/ Order!Quiet \/ Order!Deliver]_<<Sent, last, out>>
  <2>1. CASE UNCHANGED vars
    BY <1>1, <2>1, Zenon DEF vars, tx, rx, rlc, OInv, Sent
  <2>2. CASE write_sdu
    BY <1>1, <2>2, WriteOInv, Zenon
  <2>3. CASE \/ RlcSend
             \/ \E c \in discard_timers : notify_delivery(c) \/ discard_callback(c)
             \/ \E c \in air : RlcLose(c)
    BY <1>1, <2>3, QuietOInv, Zenon
  <2>4. CASE \E c \in air : write_pdu(c)
    BY <1>1, <2>4, ReceiveOInv, Zenon
  <2>5. CASE reordering_callback
    BY <1>1, <2>5, ExpiryOInv, Zenon
  <2> QED
    BY <1>1, <2>1, <2>2, <2>3, <2>4, <2>5, Zenon DEF Next
<1> QED
  BY <1>1, InitPInv, NextPInv, InitOInv, PTL DEF Spec, ImplementsOrder, Order!Spec, Sent

-----------------------------------------------------------------------------
\* The parts of the state whose type PInv and OInv leave open.
QInv ==
  /\ cfg \in Config /\ discard_timers \subseteq Counts
  /\ Len(rlc_queue) <= QueueCap /\ out \in Seq(Counts)

\* The SDU queue of RLC never exceeds its capacity, and every COUNT keeps its
\* width, for every bearer: type correctness.
THEOREM PdcpTypeCorrect == Spec => []TypeOK
<1>1. Init => QInv
  BY PdcpAssumption DEF Init, QInv
<1>2. ASSUME PInv, OInv, QInv, [Next]_vars PROVE QInv' /\ OInv'
  <2>1. OInv'
    <3>1. CASE UNCHANGED vars
      BY <1>2, <3>1, Zenon DEF vars, tx, rx, rlc, OInv, Sent
    <3> QED
      BY <1>2, <3>1, WriteOInv, QuietOInv, ReceiveOInv, ExpiryOInv, Zenon DEF Next
  <2>2. rlc_queue \in Seq(Counts) /\ Len(rlc_queue) \in Nat /\ QueueCap \in Nat /\ tx_next \in Counts
    BY <1>2, PdcpAssumption DEF PInv
  <2> USE DEF tx, rlc
  <2>3. CASE UNCHANGED vars
    BY <1>2, <2>1, <2>3, Zenon DEF vars, rx, QInv
  <2>4. CASE write_sdu
    <3>1. Len(rlc_queue') = Len(rlc_queue) + 1
      BY <2>2, <2>4 DEF write_sdu
    <3>2. Len(rlc_queue') <= QueueCap
      BY <2>2, <2>4, <3>1 DEF write_sdu
    <3>3. cfg' = cfg /\ discard_timers' \subseteq discard_timers \union {tx_next} /\ out' = <<>>
      BY <2>4, Zenon DEF write_sdu
    <3> QED
      BY <1>2, <2>1, <2>2, <3>2, <3>3 DEF QInv
  <2>5. CASE RlcSend
    <3>1. Len(rlc_queue') = Len(rlc_queue) - 1
      BY <2>2, <2>5 DEF RlcSend
    <3>2. cfg' = cfg /\ discard_timers' = discard_timers /\ out' = <<>>
      BY <2>5, Zenon DEF RlcSend
    <3>3. Len(rlc_queue') <= QueueCap
      BY <1>2, <2>2, <3>1 DEF QInv
    <3> QED
      BY <1>2, <2>1, <3>2, <3>3 DEF QInv
  <2>6. CASE \E c \in discard_timers : notify_delivery(c)
    BY <1>2, <2>1, <2>6 DEF notify_delivery, QInv
  <2>7. CASE \E c \in discard_timers : discard_callback(c)
    <3>1. /\ cfg' = cfg /\ discard_timers' \subseteq discard_timers /\ out' = <<>>
          /\ UNCHANGED rlc_queue \/ \E i \in DOMAIN rlc_queue : rlc_queue' = RemoveAt(rlc_queue, i)
      BY <2>7, Zenon DEF discard_callback
    <3>2. ASSUME NEW i \in DOMAIN rlc_queue, rlc_queue' = RemoveAt(rlc_queue, i)
          PROVE  Len(rlc_queue') <= Len(rlc_queue)
      <4> DEFINE a == SubSeq(rlc_queue, 1, i - 1)
                 b == SubSeq(rlc_queue, i + 1, Len(rlc_queue))
      <4>1. i \in 1..Len(rlc_queue)
        BY <2>2
      <4>2. /\ a \in Seq(Counts) /\ Len(a) = i - 1
            /\ b \in Seq(Counts) /\ Len(b) = Len(rlc_queue) - i
        BY <2>2, <4>1
      <4>3. rlc_queue' = a \o b
        BY <3>2, Zenon DEF RemoveAt
      <4> HIDE DEF a, b
      <4>4. Len(rlc_queue') = Len(a) + Len(b)
        BY <4>2, <4>3, ConcatItems, Zenon
      <4> QED
        BY <2>2, <4>1, <4>2, <4>4
    <3>3. Len(rlc_queue') <= QueueCap
      <4>1. CASE UNCHANGED rlc_queue
        BY <1>2, <4>1, Zenon DEF QInv
      <4>2. CASE \E i \in DOMAIN rlc_queue : rlc_queue' = RemoveAt(rlc_queue, i)
        <5>1. Len(rlc_queue') <= Len(rlc_queue) /\ Len(rlc_queue) <= QueueCap
          BY <1>2, <3>2, <4>2, Zenon DEF QInv
        <5>2. rlc_queue' \in Seq(Counts)
          BY <1>2, NextPInv, Zenon DEF PInv
        <5>3. Len(rlc_queue') \in Nat
          BY <5>2
        <5> QED
          BY <2>2, <5>1, <5>3
      <4> QED
        BY <3>1, <4>1, <4>2, Zenon
    <3> QED
      BY <1>2, <2>1, <3>1, <3>3 DEF QInv
  <2>8. CASE \E c \in air : RlcLose(c)
    BY <1>2, <2>1, <2>8 DEF RlcLose, QInv
  <2>9. CASE \E c \in air : write_pdu(c)
    <3>1. out' \in Seq(Counts)
      BY <1>2, <2>9, ReceiveOInv, Zenon
    <3>2. UNCHANGED <<cfg, discard_timers, rlc_queue>>
      BY <2>9, Zenon DEF write_pdu
    <3> QED
      BY <1>2, <2>1, <3>1, <3>2, Zenon DEF QInv
  <2>10. CASE reordering_callback
    <3>1. out' \in Seq(Counts)
      BY <1>2, <2>10, ExpiryOInv, Zenon
    <3>2. UNCHANGED <<cfg, discard_timers, rlc_queue>>
      BY <2>10, Zenon DEF reordering_callback
    <3> QED
      BY <1>2, <2>1, <3>1, <3>2 DEF QInv
  <2> QED
    BY <1>2, <2>3, <2>4, <2>5, <2>6, <2>7, <2>8, <2>9, <2>10, Zenon DEF Next
<1>3. ASSUME PInv, OInv, QInv PROVE TypeOK
  <2>1. \A c \in DOMAIN reorder_queue : reorder_queue[c] \in Counts
    BY <1>3, Zenon DEF PInv, CountRecovered
  <2>2. Range(rlc_queue) \subseteq Counts /\ Range(out) \subseteq Counts
    BY <1>3 DEF PInv, QInv, Range
  <2>3. /\ {tx_next, rx_next, rx_deliv, rx_reord} \subseteq Counts
        /\ {tx_overflow, rx_overflow, running} \subseteq BOOLEAN
        /\ DOMAIN reorder_queue \subseteq Counts
    BY <1>3, Zenon DEF PInv, OInv
  <2>4. discard_timers \union air \union Range(rlc_queue) \union Range(out) \subseteq Counts
    BY <1>3, <2>2, Zenon DEF PInv, QInv
  <2>5. cfg \in Config /\ last \in Counts \union {-1} /\ Len(rlc_queue) <= QueueCap
    BY <1>3, Zenon DEF QInv, OInv
  <2> QED
    BY <2>1, <2>3, <2>4, <2>5, Zenon DEF TypeOK
<1> QED
  BY <1>1, <1>2, <1>3, InitPInv, NextPInv, InitOInv, PTL DEF Spec
=============================================================================
