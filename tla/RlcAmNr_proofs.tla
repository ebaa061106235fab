--------------------------- MODULE RlcAmNr_proofs ---------------------------
(***************************************************************************)
(* RLC AM over links whose grants hold a whole SDU and whose status PDUs   *)
(* stay in order, for every SN length, number of SDUs, amount of loss and  *)
(* reordering, poll configuration and grant of a report.                   *)
(***************************************************************************)
EXTENDS RlcAmNr, RlcAmNrRx_proofs

-----------------------------------------------------------------------------
(* The two entities and what is on its way between them.                   *)

\* Reports are on their way in the order they were built: each acknowledges up to an SN between
\* TX_Next_Ack (a) and RX_Next (R), and a later one not less than an earlier one.
ReportsOK(n, R, a, q) ==
  /\ q \in Seq(StatusPdus)
  /\ \A i \in 1..Len(q) :
       /\ StopSN(q[i]) \in SNs /\ ModBase(n, R) <= ModBase(n, StopSN(q[i]))
       /\ ModBase(n, StopSN(q[i])) <= ModBase(n, a)
       /\ \A j \in i..Len(q) : ModBase(n, StopSN(q[j])) <= ModBase(n, StopSN(q[i]))

\* How often each SDU went up.
Ups(n, sent, D, R) == [k \in 0..NSdus |-> IF k \in Delivered(n, sent, D, R) THEN 1 ELSE 0]

\* The sender t and the receiver r agree when sent of the wr SDUs written were sent.
Agree(t, r, D, sent, wr, ar, q, u, conf) ==
  /\ sent \in Nat /\ wr \in 0..NSdus /\ wr = sent + Len(t.queue)
  /\ TxOK(t, sent) /\ RxOK(t.tx_next, D, r)
  /\ ModBase(t.tx_next, r.rx_next) <= ModBase(t.tx_next, t.tx_next_ack)
  /\ \A p \in ar : PduOK(t.tx_next, sent, p)
  /\ ReportsOK(t.tx_next, r.rx_next, t.tx_next_ack, q)
  /\ u = Ups(t.tx_next, sent, D, r.rx_next)
  /\ conf = 1..(sent - ModBase(t.tx_next, t.tx_next_ack))
Linked(t, r, wr, ar, q, u, conf) == \E D, sent : Agree(t, r, D, sent, wr, ar, q, u, conf)

\* Only what is retransmitted and polling changed on the sender's side.
LEMMA SenderKeeps ==
  ASSUME NEW t, NEW r, NEW D, NEW sent, NEW wr, NEW ar, NEW q, NEW u, NEW conf,
         Agree(t, r, D, sent, wr, ar, q, u, conf),
         NEW t2, TxOK(t2, sent), SameWindow(t, t2), NEW ar2, \A p \in ar2 : PduOK(t.tx_next, sent, p)
  PROVE  Linked(t2, r, wr, ar2, q, u, conf)
<1>1. t2.tx_next = t.tx_next /\ t2.tx_next_ack = t.tx_next_ack /\ t2.queue = t.queue
  BY Zenon DEF SameWindow
<1>2. Agree(t2, r, D, sent, wr, ar2, q, u, conf)
  BY <1>1, Zenon DEF Agree
<1> QED
  BY <1>2, Zenon DEF Linked

\* The types of what the sender and the receiver agree on.
LEMMA AgreeTypes ==
  ASSUME NEW t, NEW r, NEW D, NEW sent, NEW wr, NEW ar, NEW q, NEW u, NEW conf,
         Agree(t, r, D, sent, wr, ar, q, u, conf)
  PROVE  /\ sent \in Nat /\ wr \in 0..NSdus /\ wr = sent + Len(t.queue) /\ TxOK(t, sent)
         /\ t.tx_next \in SNs /\ t.tx_next_ack \in SNs /\ t.queue \in Seq(Nat) /\ Len(t.queue) \in Nat
         /\ RxOK(t.tx_next, D, r) /\ r.rx_next \in SNs
         /\ ModBase(t.tx_next, t.tx_next_ack) \in Nat /\ ModBase(t.tx_next, r.rx_next) \in Nat
         /\ ModBase(t.tx_next, r.rx_next) <= ModBase(t.tx_next, t.tx_next_ack)
         /\ ModBase(t.tx_next, t.tx_next_ack) <= am_window_size
         /\ ModBase(t.tx_next, t.tx_next_ack) <= sent /\ ModBase(t.tx_next, r.rx_next) <= sent
<1>1. /\ sent \in Nat /\ wr \in 0..NSdus /\ wr = sent + Len(t.queue) /\ TxOK(t, sent)
      /\ RxOK(t.tx_next, D, r)
      /\ ModBase(t.tx_next, r.rx_next) <= ModBase(t.tx_next, t.tx_next_ack)
  BY Zenon DEF Agree
<1>2. /\ t \in TxRec(Window(t.tx_next, t.tx_next_ack, sent))
      /\ ModBase(t.tx_next, t.tx_next_ack) <= am_window_size
      /\ ModBase(t.tx_next, t.tx_next_ack) <= sent
  BY <1>1, Zenon DEF TxOK
<1>3. t.tx_next \in SNs /\ t.tx_next_ack \in SNs /\ t.queue \in Seq(Nat)
  BY <1>2, TxFields, Zenon
<1>4. r.rx_next \in SNs
  BY <1>1, RxFields, Zenon DEF RxOK
<1>5. ModBase(t.tx_next, t.tx_next_ack) \in Nat /\ ModBase(t.tx_next, r.rx_next) \in Nat
  BY <1>3, <1>4, Distance, Zenon
<1>6. ModBase(t.tx_next, r.rx_next) <= sent
  BY <1>1, <1>2, <1>5
<1>7. Len(t.queue) \in Nat
  BY <1>3
<1> QED
  BY <1>1, <1>2, <1>3, <1>4, <1>5, <1>6, <1>7, Zenon

\* An SDU is written.
LEMMA WriteKeeps ==
  ASSUME NEW t, NEW r, NEW wr, NEW ar, NEW q, NEW u, NEW conf,
         Linked(t, r, wr, ar, q, u, conf), wr < NSdus,
         NEW t2, t2 = [t EXCEPT !.queue = Append(t.queue, wr + 1)]
  PROVE  Linked(t2, r, wr + 1, ar, q, u, conf)
<1>1. PICK D, sent : Agree(t, r, D, sent, wr, ar, q, u, conf)
  BY Zenon DEF Linked
<1>2. /\ sent \in Nat /\ wr \in 0..NSdus /\ wr = sent + Len(t.queue) /\ TxOK(t, sent)
      /\ t.queue \in Seq(Nat) /\ Len(t.queue) \in Nat
  BY <1>1, AgreeTypes, Zenon
<1>3. PICK W : W = Window(t.tx_next, t.tx_next_ack, sent)
  OBVIOUS
<1>4. t \in TxRec(W) /\ \A i \in 1..Len(t.queue) : t.queue[i] = sent + i
  BY <1>2, <1>3, Zenon DEF TxOK
<1>5. PICK z : z = Append(t.queue, wr + 1)
  BY Zenon
<1>6. wr + 1 \in Nat /\ wr + 1 \in 0..NSdus
  BY <1>2, LinkAssumption
<1>7. z \in Seq(Nat) /\ Len(z) = Len(t.queue) + 1
  BY <1>2, <1>5, <1>6
<1>8. ASSUME NEW i \in 1..Len(z) PROVE z[i] = sent + i
  <2>4. PICK y, e : y = t.queue /\ e = wr + 1
    OBVIOUS
  <2>5. y \in Seq(Nat) /\ e \in Nat /\ z = Append(y, e)
    BY <1>2, <1>5, <1>6, <2>4, Zenon
  <2>6. (\A j \in 1..Len(y) : z[j] = y[j]) /\ z[Len(y) + 1] = e
    BY <2>5, Appended
  <2>1. (\A j \in 1..Len(t.queue) : z[j] = t.queue[j]) /\ z[Len(t.queue) + 1] = wr + 1
    BY <2>4, <2>6, Zenon
  <2>2. CASE i \in 1..Len(t.queue)
    BY <1>4, <2>1, <2>2, Zenon
  <2>3. CASE i \notin 1..Len(t.queue)
    <3>2. PICK l, m : l = Len(t.queue) /\ m = Len(z)
      BY Zenon
    <3>3. sent \in Nat /\ l \in Nat /\ m = l + 1 /\ wr = sent + l /\ i \in 1..m /\ i \notin 1..l
      BY <1>2, <1>7, <2>3, <3>2, Zenon
    <3>4. i = l + 1 /\ wr + 1 = sent + i
      BY <3>3
    <3>1. i = Len(t.queue) + 1 /\ wr + 1 = sent + i
      BY <3>2, <3>4, Zenon
    <3> QED
      BY <2>1, <3>1, Zenon
  <2> QED
    BY <2>2, <2>3, Zenon
<1>9. t2 \in TxRec(W) /\ t2.tx_next = t.tx_next /\ t2.tx_next_ack = t.tx_next_ack /\ t2.queue = z
  BY <1>4, <1>5, <1>7, Zenon DEF TxRec
<1>10. TxOK(t2, sent)
  BY <1>2, <1>3, <1>8, <1>9, Zenon DEF TxOK
<1>11. wr + 1 = sent + Len(t2.queue)
  BY <1>2, <1>7, <1>9
<1>12. Agree(t2, r, D, sent, wr + 1, ar, q, u, conf)
  BY <1>1, <1>6, <1>9, <1>10, <1>11, Zenon DEF Agree
<1> QED
  BY <1>12, Zenon DEF Linked

\* All distances behind TX_Next grow when TX_Next moves.
Shifted(n, m) == \A s \in SNs : ModBase(n, s) <= am_window_size => ModBase(m, s) = ModBase(n, s) + 1

LEMMA Shifts ==
  ASSUME NEW n \in SNs, NEW m, m = (n + 1) % ModNr
  PROVE  Shifted(n, m)
<1> SUFFICES ASSUME NEW s \in SNs, ModBase(n, s) <= am_window_size PROVE ModBase(m, s) = ModBase(n, s) + 1
  BY Zenon DEF Shifted
<1>1. ModBase(n, s) \in Nat
  BY Distance, Zenon
<1>2. ModBase(n, s) < ModNr - 1
  BY <1>1, WindowIsHalf
<1> QED
  BY <1>2, OneFurther, Zenon

\* The receiver is as far ahead of the last SN sent as before.
LEMMA RxShifts ==
  ASSUME NEW n \in SNs, NEW m \in SNs, Shifted(n, m), NEW D, NEW r, RxOK(n, D, r),
         ModBase(n, r.rx_next) < am_window_size
  PROVE  RxOK(m, D, r)
<1>1. PICK R, H, N, T : /\ R = r.rx_next /\ H = r.rx_highest_status /\ N = r.rx_next_highest
                        /\ T = r.rx_next_status_trigger
  OBVIOUS
<1>2. r \in RxRec(D) /\ RxPos(n, D, R, H, N) /\ (r.reassembly => Trigger(n, D, R, N, T))
  BY <1>1, Zenon DEF RxOK
<1>3. T \in SNs
  BY <1>1, <1>2, RxFields, Zenon
<1>4. \A x \in SNs : ModBase(n, x) \in Nat
  BY Distance, Zenon
<1>5. ASSUME NEW x \in SNs, ModBase(n, x) <= ModBase(n, R)
      PROVE  ModBase(m, x) = ModBase(n, x) + 1
  <2>1. ModBase(n, x) <= am_window_size
    <3>1. R \in SNs
      BY <1>2, Zenon DEF RxPos
    <3> QED
      BY <1>1, <1>4, <1>5, <3>1, WindowIsHalf
  <2> QED
    BY <2>1, Zenon DEF Shifted
<1>6. /\ D \subseteq SNs /\ R \in SNs /\ H \in SNs /\ N \in SNs
      /\ ModBase(n, N) <= ModBase(n, H) /\ ModBase(n, H) <= ModBase(n, R)
      /\ \A x \in D : ModBase(n, N) < ModBase(n, x) /\ ModBase(n, x) < ModBase(n, R) /\ x # H
      /\ N # R => \E x \in D : ModBase(n, x) = ModBase(n, N) + 1
  BY <1>2, Zenon DEF RxPos
<1>7. /\ ModBase(m, N) = ModBase(n, N) + 1 /\ ModBase(m, H) = ModBase(n, H) + 1
      /\ ModBase(m, R) = ModBase(n, R) + 1
      /\ \A x \in D : ModBase(m, x) = ModBase(n, x) + 1
  BY <1>4, <1>5, <1>6
<1>8. RxPos(m, D, R, H, N)
  <2>1. ModBase(m, N) <= ModBase(m, H) /\ ModBase(m, H) <= ModBase(m, R) /\ ModBase(m, R) <= am_window_size
    BY <1>1, <1>4, <1>6, <1>7, WindowIsHalf
  <2>2. \A x \in D : ModBase(m, N) < ModBase(m, x) /\ ModBase(m, x) < ModBase(m, R)
    BY <1>4, <1>6, <1>7
  <2>3. N # R => \E x \in D : ModBase(m, x) = ModBase(m, N) + 1
    BY <1>6, <1>7, Zenon
  <2> QED
    BY <1>6, <2>1, <2>2, <2>3, Zenon DEF RxPos
<1>9. r.reassembly => Trigger(m, D, R, N, T)
  <2> SUFFICES ASSUME r.reassembly PROVE Trigger(m, D, R, N, T)
    OBVIOUS
  <2>1. /\ ModBase(n, N) <= ModBase(n, T) /\ ModBase(n, T) < ModBase(n, R)
        /\ \E x \in D : ModBase(n, x) = ModBase(n, T) + 1
    BY <1>2, Zenon DEF Trigger
  <2>2. ModBase(n, T) <= ModBase(n, R)
    BY <1>3, <1>4, <1>6, <2>1
  <2>3. ModBase(m, T) = ModBase(n, T) + 1
    BY <1>3, <1>5, <2>2, Zenon
  <2>4. ModBase(m, N) <= ModBase(m, T) /\ ModBase(m, T) < ModBase(m, R)
    BY <1>3, <1>4, <1>6, <1>7, <2>1, <2>3, SMTT(15)
  <2>5. \E x \in D : ModBase(m, x) = ModBase(m, T) + 1
    BY <1>7, <2>1, <2>3, Zenon
  <2> QED
    BY <2>4, <2>5, Zenon DEF Trigger
<1> QED
  BY <1>1, <1>2, <1>8, <1>9, Zenon DEF RxOK

\* What went up is what went up before.
SameDelivered(n, m, sent, D, R) == Delivered(m, sent + 1, D, R) = Delivered(n, sent, D, R)

\* Sending an SDU delivers none.
LEMMA DeliveredShifts ==
  ASSUME NEW n \in SNs, NEW m \in SNs, Shifted(n, m), NEW D, NEW r, RxOK(n, D, r),
         ModBase(n, r.rx_next) < am_window_size, NEW sent \in Nat
  PROVE  SameDelivered(n, m, sent, D, r.rx_next)
<1>1. PICK R, H, N : R = r.rx_next /\ H = r.rx_highest_status /\ N = r.rx_next_highest
  OBVIOUS
<1>2. RxPos(n, D, R, H, N)
  BY <1>1, Zenon DEF RxOK
<1>3. D \subseteq SNs /\ R \in SNs /\ \A x \in D : ModBase(n, x) < ModBase(n, R)
  BY <1>2, Zenon DEF RxPos
<1>4. \A x \in SNs : ModBase(n, x) \in Nat
  BY Distance, Zenon
<1>5. \A x \in SNs : ModBase(n, x) <= am_window_size => ModBase(m, x) = ModBase(n, x) + 1
  BY Zenon DEF Shifted
<1>6. ModBase(m, R) = ModBase(n, R) + 1 /\ \A x \in D : ModBase(m, x) = ModBase(n, x) + 1
  BY <1>1, <1>3, <1>4, <1>5, WindowIsHalf
<1>7. 1..((sent + 1) - ModBase(m, R)) = 1..(sent - ModBase(n, R))
  <2>1. (sent + 1) - ModBase(m, R) = sent - ModBase(n, R)
    BY <1>3, <1>4, <1>6
  <2> QED
    BY <2>1, Zenon
<1>8. \A x \in D : (sent + 1) - ModBase(m, x) + 1 = sent - ModBase(n, x) + 1
  BY <1>3, <1>4, <1>6
<1>9. {(sent + 1) - ModBase(m, x) + 1 : x \in D} = {sent - ModBase(n, x) + 1 : x \in D}
  BY <1>8, Zenon
<1> QED
  BY <1>1, <1>7, <1>9, Zenon DEF Delivered, SameDelivered

\* The reports on their way acknowledge what they did.
LEMMA ReportsShift ==
  ASSUME NEW n \in SNs, NEW m \in SNs, Shifted(n, m), NEW R \in SNs, NEW a \in SNs,
         ModBase(n, R) <= ModBase(n, a), ModBase(n, a) < am_window_size, NEW q, ReportsOK(n, R, a, q)
  PROVE  ReportsOK(m, R, a, q)
<1>1. \A x \in SNs : ModBase(n, x) \in Nat
  BY Distance, Zenon
<1>2. ASSUME NEW x \in SNs, ModBase(n, x) <= ModBase(n, a)
      PROVE  ModBase(m, x) = ModBase(n, x) + 1
  <2>1. ModBase(n, x) <= am_window_size
    BY <1>1, <1>2, WindowIsHalf
  <2> QED
    BY <2>1, Zenon DEF Shifted
<1>3. ModBase(m, R) = ModBase(n, R) + 1 /\ ModBase(m, a) = ModBase(n, a) + 1
  <2>1. ModBase(n, a) <= ModBase(n, a)
    BY <1>1
  <2> QED
    BY <1>2, <2>1, Zenon
<1>4. ASSUME NEW x \in SNs, NEW y \in SNs, ModBase(n, x) <= ModBase(n, y), ModBase(n, y) <= ModBase(n, a)
      PROVE  ModBase(m, x) <= ModBase(m, y)
  <2>1. ModBase(n, x) <= ModBase(n, a)
    BY <1>1, <1>4
  <2>2. ModBase(m, x) = ModBase(n, x) + 1 /\ ModBase(m, y) = ModBase(n, y) + 1
    BY <1>2, <1>4, <2>1, Zenon
  <2> QED
    BY <1>1, <1>4, <2>2
<1>5. ASSUME NEW i \in 1..Len(q)
      PROVE  /\ StopSN(q[i]) \in SNs /\ ModBase(m, R) <= ModBase(m, StopSN(q[i]))
             /\ ModBase(m, StopSN(q[i])) <= ModBase(m, a)
             /\ \A j \in i..Len(q) : ModBase(m, StopSN(q[j])) <= ModBase(m, StopSN(q[i]))
  <2>1. /\ StopSN(q[i]) \in SNs /\ ModBase(n, R) <= ModBase(n, StopSN(q[i]))
        /\ ModBase(n, StopSN(q[i])) <= ModBase(n, a)
        /\ \A j \in i..Len(q) : ModBase(n, StopSN(q[j])) <= ModBase(n, StopSN(q[i]))
    BY Zenon DEF ReportsOK
  <2>2. \A j \in i..Len(q) : j \in 1..Len(q)
    <3>1. Len(q) \in Nat
      BY DEF ReportsOK
    <3> QED
      BY <3>1
  <2>3. \A j \in i..Len(q) : StopSN(q[j]) \in SNs
    BY <2>2, Zenon DEF ReportsOK
  <2>4. ModBase(n, a) <= ModBase(n, a)
    BY <1>1
  <2> QED
    BY <1>4, <2>1, <2>3, <2>4, Zenon
<1> QED
  BY <1>5, Zenon DEF ReportsOK

\* A PDU on its way carries the SDU it did.
LEMMA PduShifts ==
  ASSUME NEW n \in SNs, NEW m \in SNs, Shifted(n, m), NEW sent \in Nat, NEW p, PduOK(n, sent, p),
         ModBase(m, p.sn) <= am_window_size
  PROVE  PduOK(m, sent + 1, p)
<1>1. PICK s \in SNs, poll \in BOOLEAN : /\ p = FullPdu(n, sent, s, poll)
                                         /\ 1 <= ModBase(n, s) /\ ModBase(n, s) <= am_window_size
                                         /\ ModBase(n, s) <= sent
  BY Zenon DEF PduOK
<1>2. ModBase(m, s) = ModBase(n, s) + 1 /\ ModBase(n, s) \in Nat
  BY <1>1, Distance, Zenon DEF Shifted
<1>3. p.sn = s
  BY <1>1 DEF FullPdu
<1>4. 1 <= ModBase(m, s) /\ ModBase(m, s) <= am_window_size /\ ModBase(m, s) <= sent + 1
  BY <1>1, <1>2, <1>3
<1>5. (sent + 1) - ModBase(m, s) + 1 = sent - ModBase(n, s) + 1
  BY <1>2
<1>6. FullPdu(m, sent + 1, s, poll) = FullPdu(n, sent, s, poll)
  BY <1>5, Zenon DEF FullPdu
<1> QED
  BY <1>1, <1>4, <1>6, Zenon DEF PduOK

\* A data PDU is sent, again or for the first time.
LEMMA ReadKeeps ==
  ASSUME NEW t, NEW r, NEW wr, NEW ar, NEW q, NEW u, NEW conf,
         Linked(t, r, wr, ar, q, u, conf), NEW g \in Nat, g >= SduBytes + min_hdr_size,
         NEW b, b = read_data_pdu(t, g), \A p \in ar : ModBase(b.tx.tx_next, p.sn) <= am_window_size,
         NEW ar2, ar2 = IF b.pdu = NoPdu THEN ar ELSE ar \cup {b.pdu}
  PROVE  Linked(b.tx, r, wr, ar2, q, u, conf)
<1>1. PICK D, sent : Agree(t, r, D, sent, wr, ar, q, u, conf)
  BY Zenon DEF Linked
<1>2. PICK n, a, R : n = t.tx_next /\ a = t.tx_next_ack /\ R = r.rx_next
  OBVIOUS
<1>3. /\ sent \in Nat /\ TxOK(t, sent) /\ n \in SNs /\ a \in SNs /\ t.queue \in Seq(Nat)
      /\ RxOK(n, D, r) /\ R \in SNs /\ ModBase(n, a) \in Nat /\ ModBase(n, R) \in Nat
      /\ ModBase(n, R) <= ModBase(n, a) /\ ModBase(n, a) <= am_window_size /\ ModBase(n, a) <= sent
      /\ wr \in 0..NSdus /\ wr = sent + Len(t.queue)
  BY <1>1, <1>2, AgreeTypes, Zenon
<1>4. \A p \in ar : PduOK(n, sent, p)
  BY <1>1, <1>2, Zenon DEF Agree
<1>5. CASE Resent(t, sent, b)
  <2>1. TxOK(b.tx, sent) /\ SameWindow(t, b.tx)
    BY <1>5, Zenon DEF Resent
  <2>2. \A p \in ar2 : PduOK(n, sent, p)
    <3>1. CASE b.pdu = NoPdu
      BY <1>4, <3>1, Zenon
    <3>2. CASE b.pdu # NoPdu
      <4>1. PICK s \in Unacked(n, a), poll \in BOOLEAN : b.pdu = FullPdu(n, sent, s, poll)
        BY <1>2, <1>5, <3>2, Zenon DEF Resent
      <4>2. s \in SNs /\ 1 <= ModBase(n, s) /\ ModBase(n, s) <= ModBase(n, a)
        BY <4>1, Zenon DEF Unacked
      <4>3. ModBase(n, s) \in Nat
        BY <1>3, <4>2, Distance, Zenon
      <4>4. ModBase(n, s) <= am_window_size /\ ModBase(n, s) <= sent
        BY <1>3, <4>2, <4>3, WindowIsHalf
      <4>5. PduOK(n, sent, b.pdu)
        BY <4>1, <4>2, <4>4, Zenon DEF PduOK
      <4> QED
        BY <1>4, <3>2, <4>5, Zenon
    <3> QED
      BY <3>1, <3>2, Zenon
  <2> QED
    BY <1>1, <1>2, <2>1, <2>2, SenderKeeps, Zenon
<1>6. CASE NewSent(t, sent, b)
  <2>1. PICK m : m = (n + 1) % ModNr
    OBVIOUS
  <2>2. /\ TxOK(b.tx, sent + 1) /\ ModBase(n, a) < am_window_size
        /\ b.tx.tx_next = m /\ b.tx.tx_next_ack = a /\ t.queue # <<>> /\ b.tx.queue = Tail(t.queue)
        /\ \E poll \in BOOLEAN : b.pdu = FullPdu(m, sent + 1, n, poll)
    BY <1>2, <1>6, <2>1, Zenon DEF NewSent
  <2>3. m \in SNs
    BY <1>3, <2>1, OneFurther, Zenon
  <2>4. Shifted(n, m)
    BY <1>3, <2>1, Shifts, Zenon
  <2>5. ModBase(n, R) < am_window_size
    BY <1>3, <2>2, WindowIsHalf
  <2>6. RxOK(m, D, r)
    BY <1>2, <1>3, <2>3, <2>4, <2>5, RxShifts, Zenon
  <2>7. SameDelivered(n, m, sent, D, R)
    BY <1>2, <1>3, <2>3, <2>4, <2>5, DeliveredShifts, Zenon
  <2>8. ReportsOK(m, R, a, q)
    <3>1. ReportsOK(n, R, a, q)
      BY <1>1, <1>2, Zenon DEF Agree
    <3>2. /\ n \in SNs /\ m \in SNs /\ R \in SNs /\ a \in SNs
          /\ ModBase(n, R) <= ModBase(n, a) /\ ModBase(n, a) < am_window_size
      BY <1>3, <2>2, <2>3, Zenon
    <3> QED
      BY <2>4, <3>1, <3>2, ReportsShift, Zenon
  <2>9. ModBase(n, n) = 0
    <3>1. n >= n /\ n - n = 0
      BY <1>3 DEF SNs
    <3> QED
      BY <1>3, <3>1, Distance, Zenon
  <2>10. ModBase(m, a) = ModBase(n, a) + 1 /\ ModBase(m, R) = ModBase(n, R) + 1 /\ ModBase(m, n) = 1
    <3>1. ModBase(n, R) <= am_window_size /\ ModBase(n, n) <= am_window_size
      BY <1>3, <2>5, <2>9, WindowIsHalf, SMTT(15)
    <3>2. /\ ModBase(m, a) = ModBase(n, a) + 1 /\ ModBase(m, R) = ModBase(n, R) + 1
          /\ ModBase(m, n) = ModBase(n, n) + 1
      BY <1>3, <2>4, <3>1, Zenon DEF Shifted
    <3>3. 0 + 1 = 1
      OBVIOUS
    <3> QED
      BY <2>9, <3>2, <3>3, Zenon
  <2>11. PduOK(m, sent + 1, b.pdu)
    <3>1. PICK poll \in BOOLEAN : b.pdu = FullPdu(m, sent + 1, n, poll)
      BY <2>2, Zenon
    <3>2. 1 <= ModBase(m, n) /\ ModBase(m, n) <= am_window_size /\ ModBase(m, n) <= sent + 1
      BY <1>3, <2>10, WindowIsHalf
    <3> QED
      BY <1>3, <3>1, <3>2, Zenon DEF PduOK
  <2>12. ASSUME NEW p \in ar2 PROVE PduOK(m, sent + 1, p)
    <3>1. CASE p = b.pdu
      BY <2>11, <3>1, Zenon
    <3>2. CASE p # b.pdu
      <4>1. p \in ar
        BY <3>2, Zenon
      <4>2. PduOK(n, sent, p) /\ ModBase(m, p.sn) <= am_window_size
        BY <1>4, <2>2, <4>1, Zenon
      <4> QED
        BY <1>3, <2>3, <2>4, <4>2, PduShifts, Zenon
    <3> QED
      BY <3>1, <3>2, Zenon
  <2>13. sent + 1 \in Nat /\ wr = (sent + 1) + Len(b.tx.queue)
    <3>1. PICK y : y = t.queue
      OBVIOUS
    <3>2. y \in Seq(Nat) /\ y # <<>> /\ b.tx.queue = Tail(y) /\ wr = sent + Len(y) /\ sent \in Nat
      BY <1>3, <2>2, <3>1, Zenon
    <3>3. Len(Tail(y)) = Len(y) - 1 /\ Len(y) \in Nat
      BY <3>2
    <3>4. PICK l, k : l = Len(y) /\ k = Len(Tail(y))
      BY Zenon
    <3>5. sent \in Nat /\ l \in Nat /\ k = l - 1 /\ wr = sent + l
      BY <3>2, <3>3, <3>4, Zenon
    <3>6. sent + 1 \in Nat /\ wr = (sent + 1) + k
      BY <3>5
    <3> QED
      BY <3>2, <3>4, <3>6, Zenon
  <2>14. (sent + 1) - ModBase(m, a) = sent - ModBase(n, a) /\ ModBase(m, R) <= ModBase(m, a)
    BY <1>3, <2>10
  <2>15. u = Ups(m, sent + 1, D, R) /\ conf = 1..((sent + 1) - ModBase(m, a))
    BY <1>1, <1>2, <2>7, <2>14, Zenon DEF Agree, Ups, SameDelivered
  <2>16. Agree(b.tx, r, D, sent + 1, wr, ar2, q, u, conf)
    BY <1>2, <1>3, <2>2, <2>6, <2>8, <2>12, <2>13, <2>14, <2>15, Zenon DEF Agree
  <2> QED
    BY <2>16, Zenon DEF Linked
<1> QED
  BY <1>3, <1>5, <1>6, ReadData, Zenon

\* Only the timers changed on the receiver's side.
LEMMA ReceiverKeeps ==
  ASSUME NEW t, NEW r, NEW D, NEW sent, NEW wr, NEW ar, NEW q, NEW u, NEW conf,
         Agree(t, r, D, sent, wr, ar, q, u, conf), NEW r2, RxKept(t.tx_next, D, r, r2)
  PROVE  Linked(t, r2, wr, ar, q, u, conf)
<1>1. RxOK(t.tx_next, D, r2) /\ r2.rx_next = r.rx_next
  BY Zenon DEF RxKept
<1>2. Agree(t, r2, D, sent, wr, ar, q, u, conf)
  BY <1>1, Zenon DEF Agree
<1> QED
  BY <1>2, Zenon DEF Linked

\* One more report.
LEMMA ReportsGrow ==
  ASSUME NEW n \in SNs, NEW R \in SNs, NEW a \in SNs, ModBase(n, R) <= ModBase(n, a), NEW q,
         ReportsOK(n, R, a, q), NEW st, Reports(R, st), NEW z, z = Append(q, st)
  PROVE  ReportsOK(n, R, a, z)
<1>1. q \in Seq(StatusPdus) /\ st \in StatusPdus /\ StopSN(st) = R
  BY Zenon DEF ReportsOK, Reports
<1>2. PICK l : l = Len(q)
  OBVIOUS
<1>3. l \in Nat /\ z \in Seq(StatusPdus) /\ Len(z) = l + 1
  BY <1>1, <1>2
<1>4. (\A i \in 1..l : z[i] = q[i]) /\ z[l + 1] = st
  BY <1>1, <1>2, Appended
<1>5. ModBase(n, R) \in Nat /\ ModBase(n, R) <= ModBase(n, R)
  <2>1. ModBase(n, R) \in Nat
    BY Distance, Zenon
  <2> QED
    BY <2>1
<1>6. \A i \in 1..l :
        /\ StopSN(q[i]) \in SNs /\ ModBase(n, R) <= ModBase(n, StopSN(q[i]))
        /\ ModBase(n, StopSN(q[i])) <= ModBase(n, a)
        /\ \A j \in i..l : ModBase(n, StopSN(q[j])) <= ModBase(n, StopSN(q[i]))
  BY <1>2, Zenon DEF ReportsOK
<1>7. ASSUME NEW i \in 1..(l + 1)
      PROVE  /\ StopSN(z[i]) \in SNs /\ ModBase(n, R) <= ModBase(n, StopSN(z[i]))
             /\ ModBase(n, StopSN(z[i])) <= ModBase(n, a)
             /\ \A j \in i..(l + 1) : ModBase(n, StopSN(z[j])) <= ModBase(n, StopSN(z[i]))
  <2>1. CASE i = l + 1
    <3>1. \A j \in i..(l + 1) : j = l + 1
      BY <1>3, <2>1
    <3> QED
      BY <1>1, <1>4, <1>5, <2>1, <3>1, Zenon
  <2>2. CASE i # l + 1
    <3>1. i \in 1..l
      BY <1>3, <2>2
    <3>2. \A j \in i..(l + 1) : j = l + 1 \/ (j \in i..l /\ j \in 1..l)
      BY <1>3
    <3> QED
      BY <1>1, <1>4, <1>6, <3>1, <3>2, Zenon
  <2> QED
    BY <2>1, <2>2, Zenon
<1> QED
  BY <1>3, <1>7, Zenon DEF ReportsOK

\* Every check of the receiver passed.
LEMMA LinkedAsserts ==
  ASSUME NEW t, NEW r, NEW wr, NEW ar, NEW q, NEW u, NEW conf, Linked(t, r, wr, ar, q, u, conf)
  PROVE  r.asserts = TRUE
<1>1. PICK D, sent : Agree(t, r, D, sent, wr, ar, q, u, conf)
  BY Zenon DEF Linked
<1>2. RxOK(t.tx_next, D, r)
  BY <1>1, AgreeTypes, Zenon
<1> QED
  BY <1>2, RxFields, Zenon DEF RxOK

\* A status PDU is built.
LEMMA StatusKeeps ==
  ASSUME NEW t, NEW r, NEW wr, NEW ar, NEW q, NEW u, NEW conf,
         Linked(t, r, wr, ar, q, u, conf), NEW g, NEW pr \in BOOLEAN,
         NEW ok, ok = (r.asserts /\ \A nack \in Range(AllNacks(r)) : nack.so_start <= nack.so_end),
         NEW r2, r2 = [r EXCEPT !.do_status = FALSE, !.prohibit = pr, !.asserts = ok]
  PROVE  ok = TRUE /\ Linked(t, r2, wr, ar, Append(q, get_status_pdu(r, g)), u, conf)
<1>1. PICK D, sent : Agree(t, r, D, sent, wr, ar, q, u, conf)
  BY Zenon DEF Linked
<1>2. PICK n, a, R : n = t.tx_next /\ a = t.tx_next_ack /\ R = r.rx_next
  OBVIOUS
<1>3. n \in SNs /\ a \in SNs /\ R \in SNs /\ RxOK(n, D, r) /\ ModBase(n, R) <= ModBase(n, a)
  BY <1>1, <1>2, AgreeTypes, Zenon
<1>4. PICK st : st = get_status_pdu(r, g)
  OBVIOUS
<1>5. Reports(R, st) /\ \A nack \in Range(AllNacks(r)) : nack.so_start <= nack.so_end
  BY <1>2, <1>3, <1>4, StatusIs, Zenon
<1>6. r \in RxRec(D) /\ r.asserts = TRUE
  BY <1>3, RxFields, Zenon DEF RxOK
<1>7. ok = TRUE
  BY <1>5, <1>6, Zenon
<1>8. /\ r2 \in RxRec(D) /\ r2.rx_next = r.rx_next /\ r2.rx_highest_status = r.rx_highest_status
      /\ r2.rx_next_highest = r.rx_next_highest /\ r2.reassembly = r.reassembly
      /\ r2.rx_next_status_trigger = r.rx_next_status_trigger
  BY <1>6, <1>7, Zenon DEF RxRec
<1>9. RxKept(n, D, r, r2)
  BY <1>3, <1>8, Zenon DEF RxOK, RxKept
<1>10. PICK z : z = Append(q, st)
  BY Zenon
<1>11. ReportsOK(n, R, a, z)
  <2>1. ReportsOK(n, R, a, q)
    BY <1>1, <1>2, Zenon DEF Agree
  <2> QED
    BY <1>3, <1>5, <1>10, <2>1, ReportsGrow, Zenon
<1>12. Agree(t, r, D, sent, wr, ar, z, u, conf)
  BY <1>1, <1>2, <1>11, Zenon DEF Agree
<1> QED
  BY <1>2, <1>4, <1>7, <1>9, <1>10, <1>12, ReceiverKeeps, Zenon

\* RX_Next moved.
LEMMA ReportsFollow ==
  ASSUME NEW n \in SNs, NEW R \in SNs, NEW a, NEW q, ReportsOK(n, R, a, q),
         NEW R2 \in SNs, ModBase(n, R2) <= ModBase(n, R)
  PROVE  ReportsOK(n, R2, a, q)
<1>1. \A x \in SNs : ModBase(n, x) \in Nat
  BY Distance, Zenon
<1>2. \A x \in SNs : ModBase(n, R) <= ModBase(n, x) => ModBase(n, R2) <= ModBase(n, x)
  BY <1>1
<1> QED
  BY <1>2, Zenon DEF ReportsOK

\* What a data PDU does to the SDUs that went up: nothing, or one more, for the first time.
UpStep(wr, u, u2) ==
  \/ u2 = u
  \/ \E k \in Sdus : k <= wr /\ u[k] = 0 /\ u2 = [u EXCEPT ![k] = 1]

\* A data PDU arrives.
LEMMA DataKeeps ==
  ASSUME NEW t, NEW r, NEW wr, NEW ar, NEW q, NEW u, NEW conf,
         Linked(t, r, wr, ar, q, u, conf), NEW p \in ar, NEW h, h = handle_data_pdu(r, p),
         NEW u2, u2 = IF h.up = NoPdu THEN u ELSE [u EXCEPT ![SduOf(h.up)] = @ + 1]
  PROVE  Linked(t, h.rx, wr, ar \ {p}, q, u2, conf) /\ UpStep(wr, u, u2)
<1>1. PICK D, sent : Agree(t, r, D, sent, wr, ar, q, u, conf)
  BY Zenon DEF Linked
<1>2. PICK n, a, R : n = t.tx_next /\ a = t.tx_next_ack /\ R = r.rx_next
  OBVIOUS
<1>3. /\ n \in SNs /\ a \in SNs /\ R \in SNs /\ RxOK(n, D, r) /\ ModBase(n, R) <= ModBase(n, a)
      /\ sent \in Nat /\ ModBase(n, R) <= sent
      /\ wr \in 0..NSdus /\ wr = sent + Len(t.queue) /\ Len(t.queue) \in Nat
  BY <1>1, <1>2, AgreeTypes, Zenon
<1>4. PICK s \in SNs, poll \in BOOLEAN : /\ p = FullPdu(n, sent, s, poll)
                                         /\ 1 <= ModBase(n, s) /\ ModBase(n, s) <= am_window_size
                                         /\ ModBase(n, s) <= sent
  <2>1. PduOK(n, sent, p)
    BY <1>1, <1>2, Zenon DEF Agree
  <2> QED
    BY <2>1, Zenon DEF PduOK
<1>5. DataHandled(n, sent, D, r, s, h)
  BY <1>2, <1>3, <1>4, HandleData, Zenon
<1>6. Agree(t, r, D, sent, wr, ar \ {p}, q, u, conf)
  BY <1>1, Zenon DEF Agree
<1>7. CASE h.up = NoPdu
  <2>1. RxKept(n, D, r, h.rx)
    BY <1>5, <1>7, Zenon DEF DataHandled
  <2> QED
    BY <1>2, <1>6, <1>7, <2>1, ReceiverKeeps, Zenon DEF UpStep
<1>8. CASE h.up # NoPdu
  <2>1. PICK D2 : RxOK(n, D2, h.rx) /\ GoesUp(n, sent, D, R, s, D2, h.rx.rx_next)
    BY <1>2, <1>5, <1>8, Zenon DEF DataHandled
  <2>2. PICK R2, k : R2 = h.rx.rx_next /\ k = sent - ModBase(n, s) + 1
    OBVIOUS
  <2>3. /\ Delivered(n, sent, D2, R2) = Delivered(n, sent, D, R) \cup {k}
        /\ k \notin Delivered(n, sent, D, R) /\ ModBase(n, R2) <= ModBase(n, R)
    BY <2>1, <2>2, Zenon DEF GoesUp
  <2>4. SduOf(h.up) = k
    BY <1>5, <1>8, <2>2, Zenon DEF DataHandled
  <2>5. k \in 0..NSdus /\ k \in 1..NSdus /\ k <= wr
    <3>1. ModBase(n, s) \in Nat
      BY <1>3, <1>4, Distance, Zenon
    <3>2. PICK l : l = Len(t.queue)
      BY Zenon
    <3>3. l \in Nat /\ wr = sent + l /\ wr \in 0..NSdus /\ sent \in Nat
      BY <1>3, <3>2, Zenon
    <3> QED
      BY <1>4, <2>2, <3>1, <3>3, LinkAssumption, SMTT(15)
  <2>6. u = Ups(n, sent, D, R)
    BY <1>1, <1>2, Zenon DEF Agree
  <2>7. u[k] = 0
    BY <2>3, <2>5, <2>6, Zenon DEF Ups
  <2>8. u2 = [u EXCEPT ![k] = 1]
    <3>1. u2 = [u EXCEPT ![k] = u[k] + 1] /\ 0 + 1 = 1
      BY <1>8, <2>4
    <3> QED
      BY <2>7, <3>1, Zenon
  <2>9. u2 = Ups(n, sent, D2, R2)
    <3>1. PICK A : A = Delivered(n, sent, D, R)
      OBVIOUS
    <3>2. u = [i \in 0..NSdus |-> IF i \in A THEN 1 ELSE 0]
      BY <2>6, <3>1, Zenon DEF Ups
    <3>3. [u EXCEPT ![k] = 1] = [i \in 0..NSdus |-> IF i \in A \cup {k} THEN 1 ELSE 0]
      BY <2>5, <3>2, Zenon
    <3> QED
      BY <2>3, <2>8, <3>1, <3>3, Zenon DEF Ups
  <2>10. R2 \in SNs
    BY <2>1, <2>2, RxFields, Zenon DEF RxOK
  <2>11. ReportsOK(n, R2, a, q)
    <3>1. ReportsOK(n, R, a, q)
      BY <1>1, <1>2, Zenon DEF Agree
    <3> QED
      BY <1>3, <2>3, <2>10, <3>1, ReportsFollow, Zenon
  <2>12. ModBase(n, R2) <= ModBase(n, a)
    <3>1. ModBase(n, R2) \in Nat /\ ModBase(n, R) \in Nat /\ ModBase(n, a) \in Nat
      BY <1>3, <2>10, Distance, Zenon
    <3> QED
      BY <1>3, <2>3, <3>1, SMTT(15)
  <2>13. Agree(t, h.rx, D2, sent, wr, ar \ {p}, q, u2, conf)
    BY <1>2, <1>6, <2>1, <2>2, <2>9, <2>11, <2>12, Zenon DEF Agree
  <2> QED
    BY <2>5, <2>7, <2>8, <2>13, Zenon DEF Linked, UpStep, Sdus
<1> QED
  BY <1>7, <1>8, Zenon

\* The oldest report is taken: what the others acknowledge is what it does, or more.
LEMMA ReportsShrink ==
  ASSUME NEW n \in SNs, NEW R, NEW a, NEW q, ReportsOK(n, R, a, q), q # <<>>,
         NEW z, z = Tail(q)
  PROVE  ReportsOK(n, R, a, z) /\ ReportsOK(n, R, StopSN(q[1]), z)
<1>1. PICK l : l = Len(q)
  OBVIOUS
<1>2. /\ q \in Seq(StatusPdus)
      /\ \A i \in 1..l :
           /\ StopSN(q[i]) \in SNs /\ ModBase(n, R) <= ModBase(n, StopSN(q[i]))
           /\ ModBase(n, StopSN(q[i])) <= ModBase(n, a)
           /\ \A j \in i..l : ModBase(n, StopSN(q[j])) <= ModBase(n, StopSN(q[i]))
  BY <1>1, Zenon DEF ReportsOK
<1>3. /\ l \in Nat /\ l >= 1 /\ z \in Seq(StatusPdus) /\ Len(z) = l - 1
      /\ \A i \in 1..(l - 1) : z[i] = q[i + 1]
  BY <1>1, <1>2
<1>4. \A i \in 1..(l - 1) : i + 1 \in 1..l /\ i + 1 \in 1..l
  BY <1>3
<1>5. 1 \in 1..l /\ \A i \in 1..l : i \in 1..l
  BY <1>3
<1>6. \A i \in 1..(l - 1) : \A j \in i..(l - 1) : j \in 1..(l - 1) /\ j + 1 \in (i + 1)..l
  BY <1>3
<1>7. \A i \in 1..(l - 1) :
        /\ StopSN(z[i]) \in SNs /\ ModBase(n, R) <= ModBase(n, StopSN(z[i]))
        /\ ModBase(n, StopSN(z[i])) <= ModBase(n, a)
        /\ ModBase(n, StopSN(z[i])) <= ModBase(n, StopSN(q[1]))
        /\ \A j \in i..(l - 1) : ModBase(n, StopSN(z[j])) <= ModBase(n, StopSN(z[i]))
  BY <1>2, <1>3, <1>4, <1>5, <1>6, Zenon
<1> QED
  BY <1>3, <1>7, Zenon DEF ReportsOK

\* Removing the first element.
LEMMA RemoveHead ==
  ASSUME NEW S, NEW q \in Seq(S), q # <<>>
  PROVE  RemoveAt(q, 1) = Tail(q)
<1>1. PICK l : l = Len(q)
  OBVIOUS
<1>2. l \in Nat /\ l >= 1 /\ 1 - 1 = 0 /\ 1 + 1 = 2
  BY <1>1
<1>3. PICK e, z : e = SubSeq(q, 1, 0) /\ z = SubSeq(q, 2, l)
  BY Zenon
<1>4. RemoveAt(q, 1) = e \o z
  BY <1>1, <1>2, <1>3, Zenon DEF RemoveAt
<1>5. e = <<>> /\ z \in Seq(S)
  BY <1>1, <1>2, <1>3
<1>6. e \o z = z
  BY <1>5
<1>7. z = Tail(q)
  <2>1. z \in Seq(S) /\ Len(z) = l - 1 /\ \A i \in 1..(l - 1) : z[i] = q[i + 1]
    BY <1>1, <1>2, <1>3
  <2>2. Tail(q) \in Seq(S) /\ Len(Tail(q)) = l - 1 /\ \A i \in 1..(l - 1) : Tail(q)[i] = q[i + 1]
    BY <1>1, <1>2
  <2> QED
    BY <2>1, <2>2, SameItems, Zenon
<1> QED
  BY <1>4, <1>6, <1>7, Zenon

\* The SDUs before RX_Next went up.
LEMMA BeforeNextIsUp ==
  ASSUME NEW n \in SNs, NEW R \in SNs, NEW sent \in Nat, sent <= NSdus, NEW D,
         NEW u, u = Ups(n, sent, D, R), NEW k \in 1..(sent - ModBase(n, R))
  PROVE  k \in Sdus /\ u[k] = 1
<1>1. ModBase(n, R) \in Nat
  BY Distance, Zenon
<1>2. k \in 0..NSdus /\ k \in 1..NSdus
  BY <1>1, LinkAssumption
<1>3. k \in Delivered(n, sent, D, R)
  BY Zenon DEF Delivered
<1>4. u[k] = 1
  BY <1>2, <1>3, Zenon DEF Ups
<1> QED
  BY <1>2, <1>4, Zenon DEF Sdus

\* The oldest status PDU arrives.
LEMMA ControlKeeps ==
  ASSUME NEW t, NEW r, NEW wr, NEW ar, NEW q, NEW u, NEW conf,
         Linked(t, r, wr, ar, q, u, conf), 1 \in DOMAIN q,
         NEW h, h = handle_control_pdu(t, q[1])
  PROVE  /\ Linked(h.tx, r, wr, ar, RemoveAt(q, 1), u, conf \cup h.delivered)
         /\ \A k \in h.delivered : k \in Sdus /\ u[k] = 1
<1>1. PICK D, sent : Agree(t, r, D, sent, wr, ar, q, u, conf)
  BY Zenon DEF Linked
<1>2. PICK n, a, R : n = t.tx_next /\ a = t.tx_next_ack /\ R = r.rx_next
  OBVIOUS
<1>3. /\ n \in SNs /\ a \in SNs /\ R \in SNs /\ RxOK(n, D, r) /\ ModBase(n, R) <= ModBase(n, a)
      /\ sent \in Nat /\ ModBase(n, R) <= sent /\ TxOK(t, sent) /\ ModBase(n, a) <= sent
      /\ wr \in 0..NSdus /\ wr = sent + Len(t.queue) /\ Len(t.queue) \in Nat
  BY <1>1, <1>2, AgreeTypes, Zenon
<1>4. ReportsOK(n, R, a, q)
  BY <1>1, <1>2, Zenon DEF Agree
<1>5. q \in Seq(StatusPdus) /\ q # <<>> /\ 1 \in 1..Len(q)
  <2>1. q \in Seq(StatusPdus)
    BY <1>4, Zenon DEF ReportsOK
  <2> QED
    BY <2>1
<1>6. PICK st, stop, z : st = q[1] /\ stop = StopSN(st) /\ z = RemoveAt(q, 1)
  OBVIOUS
<1>7. stop \in SNs /\ ModBase(n, R) <= ModBase(n, stop) /\ ModBase(n, stop) <= ModBase(n, a)
  BY <1>4, <1>5, <1>6, Zenon DEF ReportsOK
<1>8. st.nacks \in Seq(Nacks)
  <2>1. st \in StatusPdus
    BY <1>5, <1>6
  <2> QED
    BY <2>1 DEF StatusPdus
<1>9. Confirms(t, sent, stop, h)
  BY <1>2, <1>3, <1>6, <1>7, <1>8, StatusConfirms, Zenon
<1>10. ReportsOK(n, R, a, z) /\ ReportsOK(n, R, stop, z)
  <2>1. z = Tail(q)
    BY <1>5, <1>6, RemoveHead, Zenon
  <2> QED
    BY <1>3, <1>4, <1>5, <1>6, <2>1, ReportsShrink, Zenon
<1>11. Agree(t, r, D, sent, wr, ar, z, u, conf)
  BY <1>1, <1>2, <1>10, Zenon DEF Agree
<1>12. sent <= NSdus
  <2>1. PICK l : l = Len(t.queue)
    BY Zenon
  <2>2. l \in Nat /\ wr = sent + l /\ wr \in 0..NSdus /\ sent \in Nat
    BY <1>3, <2>1, Zenon
  <2> QED
    BY <2>2, LinkAssumption
<1>13. u = Ups(n, sent, D, R) /\ conf = 1..(sent - ModBase(n, a))
  BY <1>1, <1>2, Zenon DEF Agree
<1>14. CASE h.tx = t /\ h.delivered = {}
  <2>1. conf \cup h.delivered = conf
    BY <1>14
  <2>2. Linked(h.tx, r, wr, ar, z, u, conf \cup h.delivered)
    BY <1>11, <1>14, <2>1, Zenon DEF Linked
  <2> QED
    BY <1>6, <1>14, <2>2
<1>15. CASE Released(t, sent, stop, h.tx) /\ h.delivered = (sent - ModBase(n, a) + 1)..(sent - ModBase(n, stop))
  <2>1. ModBase(n, R) \in Nat /\ ModBase(n, a) \in Nat /\ ModBase(n, stop) \in Nat
    BY <1>3, <1>7, Distance, Zenon
  <2>2. conf \cup h.delivered = 1..(sent - ModBase(n, stop))
    BY <1>3, <1>7, <1>13, <1>15, <2>1, SMTT(15)
  <2>3. \A k \in h.delivered : k \in 1..(sent - ModBase(n, R))
    BY <1>3, <1>7, <1>15, <2>1, SMTT(15)
  <2>4. ASSUME NEW k \in h.delivered PROVE k \in Sdus /\ u[k] = 1
    <3>1. k \in 1..(sent - ModBase(n, R))
      BY <2>3, Zenon
    <3>2. n \in SNs /\ R \in SNs /\ sent \in Nat /\ u = Ups(n, sent, D, R)
      BY <1>3, <1>13, Zenon
    <3> QED
      BY <1>12, <3>1, <3>2, BeforeNextIsUp, Zenon
  <2>5. TxOK(h.tx, sent) /\ h.tx.tx_next = n /\ h.tx.tx_next_ack = stop /\ h.tx.queue = t.queue
    BY <1>2, <1>15, Zenon DEF Released
  <2>6. Agree(h.tx, r, D, sent, wr, ar, z, u, conf \cup h.delivered)
    BY <1>2, <1>7, <1>10, <1>11, <2>2, <2>5, Zenon DEF Agree
  <2> QED
    BY <1>6, <2>4, <2>6, Zenon DEF Linked
<1> QED
  BY <1>2, <1>9, <1>14, <1>15, Zenon DEF Confirms

\* A PDU is lost.
LEMMA LossKeeps ==
  ASSUME NEW t, NEW r, NEW wr, NEW ar, NEW q, NEW u, NEW conf,
         Linked(t, r, wr, ar, q, u, conf)
  PROVE  /\ \A p : Linked(t, r, wr, ar \ {p}, q, u, conf)
         /\ q # <<>> => Linked(t, r, wr, ar, Tail(q), u, conf)
<1>1. PICK D, sent : Agree(t, r, D, sent, wr, ar, q, u, conf)
  BY Zenon DEF Linked
<1>2. ASSUME NEW p PROVE Linked(t, r, wr, ar \ {p}, q, u, conf)
  BY <1>1, Zenon DEF Agree, Linked
<1>3. ASSUME q # <<>> PROVE Linked(t, r, wr, ar, Tail(q), u, conf)
  <2>1. ReportsOK(t.tx_next, r.rx_next, t.tx_next_ack, q) /\ t.tx_next \in SNs
    BY <1>1, AgreeTypes, Zenon DEF Agree
  <2>2. ReportsOK(t.tx_next, r.rx_next, t.tx_next_ack, Tail(q))
    BY <1>3, <2>1, ReportsShrink, Zenon
  <2> QED
    BY <1>1, <2>2, Zenon DEF Agree, Linked
<1> QED
  BY <1>2, <1>3, Zenon

\* A timer expires: t-PollRetransmit, t-Reassembly, t-StatusProhibit.
LEMMA TimersKeep ==
  ASSUME NEW t, NEW r, NEW wr, NEW ar, NEW q, NEW u, NEW conf,
         Linked(t, r, wr, ar, q, u, conf)
  PROVE  /\ Linked(poll_retransmit_expired(t), r, wr, ar, q, u, conf)
         /\ r.reassembly => Linked(t, reassembly_expired(r), wr, ar, q, u, conf)
         /\ Linked(t, [r EXCEPT !.prohibit = FALSE], wr, ar, q, u, conf)
<1>1. PICK D, sent : Agree(t, r, D, sent, wr, ar, q, u, conf)
  BY Zenon DEF Linked
<1>2. sent \in Nat /\ TxOK(t, sent) /\ t.tx_next \in SNs /\ RxOK(t.tx_next, D, r)
  BY <1>1, AgreeTypes, Zenon
<1>3. Linked(poll_retransmit_expired(t), r, wr, ar, q, u, conf)
  <2>1. PICK t2 : t2 = poll_retransmit_expired(t)
    OBVIOUS
  <2>2. TxOK(t2, sent) /\ SameWindow(t, t2)
    BY <1>2, <2>1, PollExpires, Zenon
  <2>3. \A p \in ar : PduOK(t.tx_next, sent, p)
    BY <1>1, Zenon DEF Agree
  <2> QED
    BY <1>1, <2>1, <2>2, <2>3, SenderKeeps, Zenon
<1>4. ASSUME r.reassembly PROVE Linked(t, reassembly_expired(r), wr, ar, q, u, conf)
  <2>1. PICK r2 : r2 = reassembly_expired(r)
    OBVIOUS
  <2>2. RxKept(t.tx_next, D, r, r2)
    BY <1>2, <1>4, <2>1, Expires, Zenon
  <2> QED
    BY <1>1, <2>1, <2>2, ReceiverKeeps, Zenon
<1>5. Linked(t, [r EXCEPT !.prohibit = FALSE], wr, ar, q, u, conf)
  <2>1. PICK f, r2 : f = FALSE /\ r2 = [r EXCEPT !.prohibit = f]
    BY Zenon
  <2>2. f \in BOOLEAN
    BY <2>1, Zenon
  <2>3. r \in RxRec(D)
    BY <1>2, Zenon DEF RxOK
  <2>4. /\ r2 \in RxRec(D) /\ r2.rx_next = r.rx_next /\ r2.rx_highest_status = r.rx_highest_status
        /\ r2.rx_next_highest = r.rx_next_highest /\ r2.reassembly = r.reassembly
        /\ r2.rx_next_status_trigger = r.rx_next_status_trigger
    <3> SUFFICES ASSUME r2 = [r EXCEPT !.prohibit = f]
                 PROVE  /\ r2 \in RxRec(D) /\ r2.rx_next = r.rx_next
                        /\ r2.rx_highest_status = r.rx_highest_status
                        /\ r2.rx_next_highest = r.rx_next_highest /\ r2.reassembly = r.reassembly
                        /\ r2.rx_next_status_trigger = r.rx_next_status_trigger
      BY <2>1, Zenon
    <3> QED
      BY <2>2, <2>3, Zenon DEF RxRec
  <2>5. RxKept(t.tx_next, D, r, r2)
    BY <1>2, <2>4, Zenon DEF RxOK, RxKept
  <2>6. Linked(t, r2, wr, ar, q, u, conf)
    BY <1>1, <2>5, ReceiverKeeps, Zenon
  <2> QED
    BY <2>1, <2>6, Zenon
<1> QED
  BY <1>3, <1>4, <1>5, Zenon

-----------------------------------------------------------------------------
(* The inductive invariant, and what it implies.                           *)

Inv ==
  /\ link \in Links /\ WholeSdus /\ losses \in 0..link.losses
  /\ Linked(tx, rx, written, air, reports, up, confirmed)

\* A step of the promise, or none.
Promised == [Reliable!Next]_(Reliable!vars)

\* Before anything is sent or received.
LEMMA StartLinked ==
  ASSUME NEW k \in StartSN
  PROVE  Linked(TxInit(k), RxInit(k), 0, {}, <<>>, [i \in 0..NSdus |-> 0], {})
<1>1. PICK n, v : n = k % ModNr /\ v = IF k = 0 THEN 0 ELSE (k - 1) % ModNr
  OBVIOUS
<1>2. n \in SNs /\ v \in SNs /\ 0 \in SNs
  <2>1. k \in Nat
    BY LinkAssumption
  <2>2. k \in Int /\ k - 1 \in Int
    BY <2>1
  <2>3. k % ModNr \in SNs /\ (k - 1) % ModNr \in SNs
    BY <2>2, Reduce, Zenon
  <2>4. 0 \in SNs
    BY WindowIsHalf DEF SNs
  <2> QED
    BY <1>1, <2>3, <2>4, Zenon
<1>3. ModBase(n, n) = 0
  BY <1>2, Distance DEF SNs
<1>4. Window(n, n, 0) = <<>> /\ Stored({}) = <<>>
  <2>1. Unacked(n, n) = {}
    <3>1. \A s \in SNs : ModBase(n, s) \in Nat
      BY <1>2, Distance, Zenon
    <3>2. \A s \in SNs : ~(1 <= ModBase(n, s) /\ ModBase(n, s) <= 0)
      BY <3>1
    <3> QED
      BY <1>3, <3>2, Zenon DEF Unacked
  <2>2. Window(n, n, 0) = [s \in {} |-> [sdu |-> 0 - ModBase(n, s) + 1, segs |-> <<>>]]
    BY <2>1, Zenon DEF Window
  <2> QED
    BY <2>2 DEF Stored
<1>5. PICK W, f, t : /\ W = <<>> /\ f = FALSE /\ t = TxInit(k)
  BY Zenon
<1>6. t = [tx_next_ack |-> n, tx_next |-> n, poll_sn |-> v, pdu_without_poll |-> 0, byte_without_poll |-> 0,
           queue |-> <<>>, window |-> W, retx |-> <<>>, sdu_under_segmentation_sn |-> NoSN,
           poll_retransmit |-> f]
  BY <1>1, <1>5, Zenon DEF TxInit
<1>7. f \in BOOLEAN
  BY <1>5, Zenon
<1>8. /\ t \in TxRec(W) /\ t.tx_next = n /\ t.tx_next_ack = n /\ t.queue = <<>>
  <2> SUFFICES ASSUME t = [tx_next_ack |-> n, tx_next |-> n, poll_sn |-> v, pdu_without_poll |-> 0,
                           byte_without_poll |-> 0, queue |-> <<>>, window |-> W, retx |-> <<>>,
                           sdu_under_segmentation_sn |-> NoSN, poll_retransmit |-> f]
               PROVE  t \in TxRec(W) /\ t.tx_next = n /\ t.tx_next_ack = n /\ t.queue = <<>>
    BY <1>6, Zenon
  <2>1. <<>> \in Seq(Nat) /\ <<>> \in Seq(WholeRetx)
    OBVIOUS
  <2> QED
    BY <1>2, <1>7, <2>1 DEF TxRec
<1>9. TxOK(t, 0) /\ Len(t.queue) = 0
  <2>1. Len(t.queue) = 0 /\ 0 <= am_window_size /\ 0 <= 0 /\ 1..0 = {}
    BY <1>8, WindowIsHalf
  <2>2. \A i \in 1..Len(t.queue) : t.queue[i] = 0 + i
    BY <2>1, Zenon
  <2>3. t \in TxRec(Window(n, n, 0))
    BY <1>4, <1>5, <1>8, Zenon
  <2> QED
    BY <1>3, <1>8, <2>1, <2>2, <2>3, Zenon DEF TxOK
<1>10. PICK y, r : y = TRUE /\ r = RxInit(k)
  BY Zenon
<1>11. r = [rx_next |-> n, rx_next_highest |-> n, rx_highest_status |-> n, rx_next_status_trigger |-> 0,
            window |-> W, do_status |-> f, reassembly |-> f, prohibit |-> f, asserts |-> y]
  BY <1>1, <1>5, <1>10, Zenon DEF RxInit
<1>12. /\ r \in RxRec({}) /\ r.rx_next = n /\ r.rx_highest_status = n /\ r.rx_next_highest = n
       /\ r.reassembly = f
  <2>1. PICK C, E : C = {W} /\ E = {y}
    BY Zenon
  <2>2. Stored({}) = W /\ {TRUE} = E
    BY <1>4, <1>5, <1>10, <2>1, Zenon
  <2>3. RxRec({}) = [rx_next : SNs, rx_next_highest : SNs, rx_highest_status : SNs,
                     rx_next_status_trigger : SNs, window : C, do_status : BOOLEAN,
                     reassembly : BOOLEAN, prohibit : BOOLEAN, asserts : E]
    BY <2>1, <2>2, Zenon DEF RxRec
  <2>4. W \in C /\ y \in E
    BY <2>1, Zenon
  <2> QED
    BY <1>2, <1>7, <1>11, <2>3, <2>4, Zenon
<1>13. RxOK(n, {}, r)
  <2>1. 0 <= am_window_size /\ 0 <= 0
    BY WindowIsHalf
  <2>2. RxPos(n, {}, n, n, n)
    BY <1>2, <1>3, <2>1, Zenon DEF RxPos
  <2> QED
    BY <1>5, <1>12, <2>2, Zenon DEF RxOK
<1>14. ReportsOK(n, n, n, <<>>)
  <2>1. <<>> \in Seq(StatusPdus) /\ Len(<<>>) = 0 /\ 1..0 = {}
    OBVIOUS
  <2> QED
    BY <2>1, Zenon DEF ReportsOK
<1>15. Delivered(n, 0, {}, n) = {} /\ 1..(0 - ModBase(n, n)) = {}
  <2>1. 1..(0 - ModBase(n, n)) = {}
    BY <1>3
  <2> QED
    BY <2>1, Zenon DEF Delivered
<1>16. [i \in 0..NSdus |-> 0] = Ups(n, 0, {}, n)
  BY <1>15 DEF Ups
<1>17. 0 \in Nat /\ 0 \in 0..NSdus /\ 0 = 0 + 0 /\ 0 <= 0
  BY LinkAssumption
<1>18. Agree(t, r, {}, 0, 0, {}, <<>>, [i \in 0..NSdus |-> 0], {})
  BY <1>3, <1>8, <1>9, <1>12, <1>13, <1>14, <1>15, <1>16, <1>17, Zenon DEF Agree
<1> QED
  BY <1>5, <1>10, <1>18, Zenon DEF Linked

\* The number of SDUs written is within the bound.
LEMMA WrittenBound ==
  ASSUME Inv
  PROVE  written \in 0..NSdus
<1>1. PICK D, sent : Agree(tx, rx, D, sent, written, air, reports, up, confirmed)
  BY Zenon DEF Inv, Linked
<1> QED
  BY <1>1, Zenon DEF Agree

\* What the promise is about does not change.
LEMMA Stutters ==
  ASSUME UNCHANGED <<written, up, confirmed>>
  PROVE  Promised
  BY Zenon DEF Promised, Reliable!vars

\* The initial states.
LEMMA InitInv ==
  ASSUME Init, WholeSdus
  PROVE  Inv /\ Reliable!Init
<1>1. PICK k \in StartSN : tx = TxInit(k) /\ rx = RxInit(k)
  BY Zenon DEF Init
<1>2. /\ link \in Links /\ air = {} /\ reports = <<>> /\ written = 0
      /\ up = [i \in 0..NSdus |-> 0] /\ losses = 0 /\ confirmed = {}
  BY Zenon DEF Init
<1>3. Linked(tx, rx, written, air, reports, up, confirmed)
  BY <1>1, <1>2, StartLinked, Zenon
<1>4. losses \in 0..link.losses
  BY <1>2, LinkAssumption
<1>5. Sdus \cup {0} = 0..NSdus
  BY LinkAssumption DEF Sdus
<1> QED
  BY <1>2, <1>3, <1>4, <1>5, Zenon DEF Inv, Reliable!Init

\* One lemma per action: the invariant is kept and the promise takes a step or none.
LEMMA WriteSduStep ==
  ASSUME Inv, write_sdu
  PROVE  Inv' /\ Promised
<1>1. /\ written < link.sdus /\ written' = written + 1
      /\ tx' = [tx EXCEPT !.queue = Append(tx.queue, written + 1)]
      /\ UNCHANGED <<link, rx, air, reports, up, losses, confirmed>>
  BY Zenon DEF write_sdu
<1>6. link.sdus \in 0..NSdus
  BY LinkAssumption, Zenon DEF Inv
<1>7. written < NSdus
  BY <1>1, <1>6, WrittenBound, LinkAssumption
<1>2. Linked(tx', rx, written + 1, air, reports, up, confirmed)
  BY <1>1, <1>7, WriteKeeps, Zenon DEF Inv
<1>3. Inv'
  BY <1>1, <1>2, Zenon DEF Inv, WholeSdus
<1>4. written + 1 \in Sdus
  BY <1>7, WrittenBound, LinkAssumption DEF Sdus
<1>5. Reliable!Next
  BY <1>1, <1>4, Zenon DEF Reliable!Next, Reliable!Accept
<1> QED
  BY <1>3, <1>5, Zenon DEF Promised

LEMMA ReadPduStep ==
  ASSUME Inv, NEW g \in link.grants, read_pdu(g)
  PROVE  Inv' /\ Promised
<1>1. PICK b : b = read_data_pdu(tx, g)
  OBVIOUS
<1>2. /\ Timely(b.tx.tx_next) /\ tx' = b.tx
      /\ air' = IF b.pdu = NoPdu THEN air ELSE air \cup {b.pdu}
      /\ UNCHANGED <<link, rx, reports, written, up, losses, confirmed>>
  BY <1>1, Zenon DEF read_pdu
<1>3. g \in Nat /\ g >= SduBytes + min_hdr_size
  BY LinkAssumption, Zenon DEF Inv, WholeSdus
<1>4. \A p \in air : ModBase(b.tx.tx_next, p.sn) <= am_window_size
  BY <1>2, Zenon DEF Timely
<1>5. Linked(tx, rx, written, air, reports, up, confirmed)
  BY Zenon DEF Inv
<1>6. Linked(tx', rx, written, air', reports, up, confirmed)
  BY <1>1, <1>2, <1>3, <1>4, <1>5, ReadKeeps, Zenon
<1>7. Inv'
  BY <1>2, <1>6, Zenon DEF Inv, WholeSdus
<1> QED
  BY <1>2, <1>7, Stutters, Zenon

LEMMA BuildStatusStep ==
  ASSUME Inv, NEW g \in link.grants, build_status_pdu(g)
  PROVE  Inv' /\ Promised
<1>1. PICK ok : ok = (rx.asserts /\ \A nack \in Range(AllNacks(rx)) : nack.so_start <= nack.so_end)
  OBVIOUS
<1>2. /\ reports' = IF rx'.asserts THEN Append(reports, get_status_pdu(rx, g)) ELSE reports
      /\ rx' = [rx EXCEPT !.do_status = FALSE, !.prohibit = t_status_prohibit, !.asserts = ok]
      /\ UNCHANGED <<link, tx, air, written, up, losses, confirmed>>
  BY <1>1, Zenon DEF build_status_pdu
<1>3. t_status_prohibit \in BOOLEAN
  BY LinkAssumption, Zenon
<1>4. Linked(tx, rx, written, air, reports, up, confirmed)
  BY Zenon DEF Inv
<1>7. ok = TRUE /\ Linked(tx, rx', written, air, Append(reports, get_status_pdu(rx, g)), up, confirmed)
  BY <1>1, <1>2, <1>3, <1>4, StatusKeeps, Zenon
<1>8. rx'.asserts = TRUE
  BY <1>7, LinkedAsserts, Zenon
<1>5. Linked(tx, rx', written, air, reports', up, confirmed)
  BY <1>2, <1>7, <1>8, Zenon
<1>6. Inv'
  BY <1>2, <1>5, Zenon DEF Inv, WholeSdus
<1> QED
  BY <1>2, <1>6, Stutters, Zenon

LEMMA WriteDataStep ==
  ASSUME Inv, NEW p \in air, write_data_pdu(p)
  PROVE  Inv' /\ Promised
<1>1. PICK h : h = handle_data_pdu(rx, p)
  OBVIOUS
<1>2. /\ rx' = h.rx /\ air' = air \ {p}
      /\ up' = IF h.up = NoPdu THEN up ELSE [up EXCEPT ![SduOf(h.up)] = @ + 1]
      /\ UNCHANGED <<link, tx, reports, written, losses, confirmed>>
  BY <1>1, Zenon DEF write_data_pdu
<1>3. Linked(tx, rx, written, air, reports, up, confirmed)
  BY Zenon DEF Inv
<1>4. Linked(tx, rx', written, air', reports, up', confirmed) /\ UpStep(written, up, up')
  BY <1>1, <1>2, <1>3, DataKeeps, Zenon
<1>5. Inv'
  BY <1>2, <1>4, Zenon DEF Inv, WholeSdus
<1>6. CASE up' = up
  BY <1>2, <1>5, <1>6, Stutters, Zenon
<1>7. CASE \E k \in Sdus : k <= written /\ up[k] = 0 /\ up' = [up EXCEPT ![k] = 1]
  <2>1. Reliable!Next
    BY <1>2, <1>7, Zenon DEF Reliable!Next, Reliable!Deliver
  <2> QED
    BY <1>5, <2>1, Zenon DEF Promised
<1> QED
  BY <1>4, <1>6, <1>7, Zenon DEF UpStep

LEMMA WriteControlStep ==
  ASSUME Inv, NEW i \in DOMAIN reports, write_control_pdu(i)
  PROVE  Inv' /\ Promised
<1>1. PICK h : h = handle_control_pdu(tx, reports[i])
  OBVIOUS
<1>2. /\ i = 1 \/ link.overtaking
      /\ tx' = h.tx /\ confirmed' = confirmed \cup h.delivered /\ reports' = RemoveAt(reports, i)
      /\ UNCHANGED <<link, rx, air, written, up, losses>>
  BY <1>1, Zenon DEF write_control_pdu
<1>3. i = 1
  BY <1>2, Zenon DEF Inv, WholeSdus
<1>4. Linked(tx, rx, written, air, reports, up, confirmed)
  BY Zenon DEF Inv
<1>5. 1 \in DOMAIN reports /\ h = handle_control_pdu(tx, reports[1]) /\ reports' = RemoveAt(reports, 1)
  BY <1>1, <1>2, <1>3, Zenon
<1>6. /\ Linked(h.tx, rx, written, air, RemoveAt(reports, 1), up, confirmed \cup h.delivered)
      /\ \A k \in h.delivered : k \in Sdus /\ up[k] = 1
  BY <1>4, <1>5, ControlKeeps, SMTT(15)
<1>7. Inv'
  BY <1>2, <1>5, <1>6, Zenon DEF Inv, WholeSdus
<1>8. PICK S : S = h.delivered
  OBVIOUS
<1>9. S \in SUBSET Sdus /\ Reliable!Confirm(S)
  BY <1>2, <1>6, <1>8, Zenon DEF Reliable!Confirm
<1>10. Reliable!Next
  BY <1>9, Zenon DEF Reliable!Next
<1> QED
  BY <1>7, <1>10, Zenon DEF Promised

LEMMA LoseDataStep ==
  ASSUME Inv, NEW p \in air, LoseData(p)
  PROVE  Inv' /\ Promised
<1>1. /\ losses < link.losses /\ losses' = losses + 1 /\ air' = air \ {p}
      /\ UNCHANGED <<link, tx, rx, reports, written, up, confirmed>>
  BY Zenon DEF LoseData
<1>2. losses' \in 0..link.losses
  BY <1>1, LinkAssumption DEF Inv
<1>3. Linked(tx, rx, written, air', reports, up, confirmed)
  BY <1>1, LossKeeps, Zenon DEF Inv
<1>4. Inv'
  BY <1>1, <1>2, <1>3, Zenon DEF Inv, WholeSdus
<1> QED
  BY <1>1, <1>4, Stutters, Zenon

LEMMA LoseStatusStep ==
  ASSUME Inv, LoseStatus
  PROVE  Inv' /\ Promised
<1>1. /\ reports # <<>> /\ losses < link.losses /\ losses' = losses + 1 /\ reports' = Tail(reports)
      /\ UNCHANGED <<link, tx, rx, air, written, up, confirmed>>
  BY Zenon DEF LoseStatus
<1>2. losses' \in 0..link.losses
  BY <1>1, LinkAssumption DEF Inv
<1>3. Linked(tx, rx, written, air, reports', up, confirmed)
  BY <1>1, LossKeeps, Zenon DEF Inv
<1>4. Inv'
  BY <1>1, <1>2, <1>3, Zenon DEF Inv, WholeSdus
<1> QED
  BY <1>1, <1>4, Stutters, Zenon

LEMMA TimerStep ==
  ASSUME Inv, poll_retransmit_timer \/ reassembly_timer \/ status_prohibit_timer
  PROVE  Inv' /\ Promised
<1>1. Linked(tx, rx, written, air, reports, up, confirmed)
  BY Zenon DEF Inv
<1>2. CASE poll_retransmit_timer
  <2>1. tx' = poll_retransmit_expired(tx) /\ UNCHANGED <<link, rx, air, reports, written, up, losses, confirmed>>
    BY <1>2, Zenon DEF poll_retransmit_timer
  <2>2. Linked(tx', rx, written, air, reports, up, confirmed)
    BY <1>1, <2>1, TimersKeep, Zenon
  <2>3. Inv'
    BY <2>1, <2>2, Zenon DEF Inv, WholeSdus
  <2> QED
    BY <2>1, <2>3, Stutters, Zenon
<1>3. CASE reassembly_timer
  <2>1. /\ rx.reassembly /\ rx' = reassembly_expired(rx)
        /\ UNCHANGED <<link, tx, air, reports, written, up, losses, confirmed>>
    BY <1>3, Zenon DEF reassembly_timer
  <2>2. Linked(tx, rx', written, air, reports, up, confirmed)
    BY <1>1, <2>1, TimersKeep, Zenon
  <2>3. Inv'
    BY <2>1, <2>2, Zenon DEF Inv, WholeSdus
  <2> QED
    BY <2>1, <2>3, Stutters, Zenon
<1>4. CASE status_prohibit_timer
  <2>1. /\ rx' = [rx EXCEPT !.prohibit = FALSE]
        /\ UNCHANGED <<link, tx, air, reports, written, up, losses, confirmed>>
    BY <1>4, Zenon DEF status_prohibit_timer
  <2>2. Linked(tx, rx', written, air, reports, up, confirmed)
    BY <1>1, <2>1, TimersKeep, Zenon
  <2>3. Inv'
    BY <2>1, <2>2, Zenon DEF Inv, WholeSdus
  <2> QED
    BY <2>1, <2>3, Stutters, Zenon
<1> QED
  BY <1>2, <1>3, <1>4, Zenon

LEMMA StepInv ==
  ASSUME Inv, [Next]_vars
  PROVE  Inv' /\ Promised
<1>1. CASE UNCHANGED vars
  <2>1. UNCHANGED <<link, tx, rx, air, reports, written, up, losses, confirmed>>
    BY <1>1, Zenon DEF vars
  <2>2. Inv'
    BY <2>1, Zenon DEF Inv, WholeSdus
  <2> QED
    BY <2>1, <2>2, Stutters, Zenon
<1>2. CASE Next
  <2>1. CASE write_sdu
    BY <2>1, WriteSduStep, Zenon
  <2>2. CASE \E g \in link.grants : read_pdu(g) \/ build_status_pdu(g)
    BY <2>2, ReadPduStep, BuildStatusStep, Zenon
  <2>3. CASE \E p \in air : write_data_pdu(p) \/ LoseData(p)
    BY <2>3, WriteDataStep, LoseDataStep, Zenon
  <2>4. CASE \E i \in DOMAIN reports : write_control_pdu(i)
    BY <2>4, WriteControlStep, Zenon
  <2>5. CASE LoseStatus
    BY <2>5, LoseStatusStep, Zenon
  <2>6. CASE poll_retransmit_timer \/ reassembly_timer \/ status_prohibit_timer
    BY <2>6, TimerStep, Zenon
  <2> QED
    BY <1>2, <2>1, <2>2, <2>3, <2>4, <2>5, <2>6, Zenon DEF Next
<1> QED
  BY <1>1, <1>2, Zenon

\* The inductive invariant implies the type invariant.
LEMMA InvTyped ==
  ASSUME Inv
  PROVE  TypeOK
<1>1. PICK D, sent : Agree(tx, rx, D, sent, written, air, reports, up, confirmed)
  BY Zenon DEF Inv, Linked
<1>2. PICK n, a, R : n = tx.tx_next /\ a = tx.tx_next_ack /\ R = rx.rx_next
  OBVIOUS
<1>3. /\ n \in SNs /\ a \in SNs /\ R \in SNs /\ sent \in Nat /\ ModBase(n, a) \in Nat /\ ModBase(n, a) <= sent
      /\ TxOK(tx, sent) /\ RxOK(n, D, rx)
      /\ written \in 0..NSdus /\ written = sent + Len(tx.queue) /\ Len(tx.queue) \in Nat
  BY <1>1, <1>2, AgreeTypes, Zenon
<1>4. tx \in TxRec(Window(n, a, sent)) /\ rx \in RxRec(D) /\ D \subseteq SNs
  BY <1>2, <1>3, Zenon DEF TxOK, RxOK, RxPos
<1>5. PICK W : W = Window(n, a, sent)
  OBVIOUS
<1>6. tx.poll_sn \in SNs /\ tx.window = W /\ tx.sdu_under_segmentation_sn = NoSN /\ tx.retx \in Seq(WholeRetx)
  BY <1>4, <1>5, Zenon DEF TxRec
<1>7. DOMAIN tx.window \subseteq SNs
  BY <1>5, <1>6, Zenon DEF Window, Unacked
<1>8. DOMAIN rx.window \subseteq SNs
  <2>1. rx.window = Stored(D)
    BY <1>4, RxFields, Zenon
  <2> QED
    BY <1>4, <2>1, Zenon DEF Stored
<1>9. ASSUME NEW i \in DOMAIN tx.retx, NEW x, x = tx.retx[i]
      PROVE  /\ x.sn \in SNs /\ x.current_so \in x.so_start..(x.so_start + x.len - 1)
             /\ x.so_start + x.len <= SduBytes
  <2>1. x \in WholeRetx
    BY <1>6, <1>9
  <2>2. PICK s \in SNs : x = Retx(s, FALSE, 0, SduBytes)
    BY <2>1, Zenon DEF WholeRetx
  <2>3. x.sn = s /\ x.current_so = 0 /\ x.so_start = 0 /\ x.len = SduBytes
    BY <2>2, Zenon DEF Retx
  <2> QED
    BY <2>3, RlcAmAssumption
<1>10. {rx.rx_next, rx.rx_next_highest, rx.rx_highest_status, rx.rx_next_status_trigger} \subseteq SNs
  BY <1>4, RxFields, Zenon
<1>11. confirmed \subseteq Sdus
  <2>1. confirmed = 1..(sent - ModBase(n, a))
    BY <1>1, <1>2, Zenon DEF Agree
  <2>2. PICK l, m : l = Len(tx.queue) /\ m = ModBase(n, a)
    BY Zenon
  <2>3. l \in Nat /\ m \in Nat /\ sent \in Nat /\ written = sent + l /\ written \in 0..NSdus
    BY <1>3, <2>2, Zenon
  <2>4. 1..(sent - m) \subseteq 1..NSdus
    BY <2>3, LinkAssumption
  <2> QED
    BY <2>1, <2>2, <2>4, Zenon DEF Sdus
<1>12. up \in [0..NSdus -> Nat]
  <2>1. up = Ups(n, sent, D, R)
    BY <1>1, <1>2, Zenon DEF Agree
  <2>2. PICK A : A = Delivered(n, sent, D, R)
    OBVIOUS
  <2>3. up = [k \in 0..NSdus |-> IF k \in A THEN 1 ELSE 0]
    BY <2>1, <2>2, Zenon DEF Ups
  <2> QED
    BY <2>3
<1>13. {tx.tx_next_ack, tx.tx_next, tx.poll_sn} \subseteq SNs /\ tx.sdu_under_segmentation_sn \in SNs \cup {NoSN}
  BY <1>2, <1>3, <1>6, Zenon
<1>14. link \in Links /\ losses \in 0..link.losses
  BY Zenon DEF Inv
<1> QED
  BY <1>3, <1>7, <1>8, <1>9, <1>10, <1>11, <1>12, <1>13, <1>14, Zenon DEF TypeOK

\* The inductive invariant implies that the windows agree.
LEMMA InvWindows ==
  ASSUME Inv
  PROVE  WindowsAgree
<1>1. PICK D, sent : Agree(tx, rx, D, sent, written, air, reports, up, confirmed)
  BY Zenon DEF Inv, Linked
<1>2. PICK n, a, R, H, N : /\ n = tx.tx_next /\ a = tx.tx_next_ack /\ R = rx.rx_next
                           /\ H = rx.rx_highest_status /\ N = rx.rx_next_highest
  OBVIOUS
<1>3. /\ n \in SNs /\ a \in SNs /\ TxOK(tx, sent) /\ RxOK(n, D, rx)
      /\ ModBase(n, R) <= ModBase(n, a) /\ ModBase(n, a) <= am_window_size
  BY <1>1, <1>2, AgreeTypes, Zenon
<1>4. tx \in TxRec(Window(n, a, sent))
  BY <1>2, <1>3, Zenon DEF TxOK
<1>5. tx.sdu_under_segmentation_sn = NoSN
  BY <1>4 DEF TxRec
<1>6. /\ R \in SNs /\ H \in SNs /\ N \in SNs
      /\ ModBase(n, N) <= ModBase(n, H) /\ ModBase(n, H) <= ModBase(n, R)
  BY <1>2, <1>3, Zenon DEF RxOK, RxPos
<1>7. \A x \in SNs : ModBase(n, x) \in Nat
  BY <1>3, Distance, Zenon
<1>8. \A x \in SNs : ModBase(n, a) >= ModBase(n, x) => ModBase(x, a) = ModBase(n, a) - ModBase(n, x)
  BY <1>3, Between, Zenon
<1>9. /\ ModBase(n, a) >= ModBase(n, R) /\ ModBase(n, a) >= ModBase(n, H)
      /\ ModBase(n, a) >= ModBase(n, N)
  BY <1>3, <1>6, <1>7, SMTT(15)
<1>10. /\ ModBase(R, a) = ModBase(n, a) - ModBase(n, R) /\ ModBase(H, a) = ModBase(n, a) - ModBase(n, H)
       /\ ModBase(N, a) = ModBase(n, a) - ModBase(n, N)
  BY <1>6, <1>8, <1>9, Zenon
<1>11. /\ ModBase(R, a) <= ModBase(H, a) /\ ModBase(H, a) <= ModBase(N, a)
       /\ ModBase(N, a) <= ModBase(n, a) /\ ModBase(n, a) + 0 = ModBase(n, a)
  BY <1>3, <1>6, <1>7, <1>10, SMTT(15)
<1> QED
  BY <1>2, <1>3, <1>5, <1>11, Zenon DEF WindowsAgree

\* The inductive invariant implies that every check of the receiver passed, and that what was
\* notified went up.
LEMMA InvDelivers ==
  ASSUME Inv
  PROVE  rx.asserts /\ ReceiverAsserts /\ ConfirmedIsDelivered
<1>1. PICK D, sent : Agree(tx, rx, D, sent, written, air, reports, up, confirmed)
  BY Zenon DEF Inv, Linked
<1>2. PICK n, a, R : n = tx.tx_next /\ a = tx.tx_next_ack /\ R = rx.rx_next
  OBVIOUS
<1>3. /\ n \in SNs /\ a \in SNs /\ R \in SNs /\ sent \in Nat /\ RxOK(n, D, rx)
      /\ ModBase(n, a) \in Nat /\ ModBase(n, R) \in Nat /\ ModBase(n, R) <= ModBase(n, a)
      /\ written \in 0..NSdus /\ written = sent + Len(tx.queue) /\ Len(tx.queue) \in Nat
  BY <1>1, <1>2, AgreeTypes, Zenon
<1>4. rx.asserts = TRUE
  BY <1>3, RxFields, Zenon DEF RxOK
<1>7. ReceiverAsserts
  BY <1>4, Zenon DEF ReceiverAsserts
<1>5. sent <= NSdus
  <2>1. PICK l : l = Len(tx.queue)
    BY Zenon
  <2>2. l \in Nat /\ sent \in Nat /\ written = sent + l /\ written \in 0..NSdus
    BY <1>3, <2>1, Zenon
  <2> QED
    BY <2>2, LinkAssumption
<1>6. ASSUME NEW k \in confirmed PROVE up[k] > 0
  <2>1. confirmed = 1..(sent - ModBase(n, a)) /\ up = Ups(n, sent, D, R)
    BY <1>1, <1>2, Zenon DEF Agree
  <2>2. k \in 1..(sent - ModBase(n, R))
    BY <1>3, <1>6, <2>1, SMTT(15)
  <2>3. up[k] = 1
    <3>1. n \in SNs /\ R \in SNs /\ sent \in Nat /\ up = Ups(n, sent, D, R)
      BY <1>3, <2>1, Zenon
    <3> QED
      BY <1>5, <2>2, <3>1, BeforeNextIsUp, Zenon
  <2> QED
    BY <2>3
<1> QED
  BY <1>4, <1>6, <1>7, Zenon DEF ConfirmedIsDelivered

-----------------------------------------------------------------------------

\* The invariant holds in every state of a link with whole SDUs and reports in order.
THEOREM LinkInvariant == Spec /\ WholeSdus => []Inv
<1>1. Init /\ WholeSdus => Inv
  BY InitInv
<1>2. Inv /\ [Next]_vars => Inv'
  BY StepInv
<1> QED
  BY <1>1, <1>2, PTL DEF Spec

\* The objects of rlc_am_nr_tx and rlc_am_nr_rx keep their types: sequence numbers, windows and
\* segments to retransmit never leave their ranges.
THEOREM LinkTyped == Spec /\ WholeSdus => []TypeOK
<1>1. Inv => TypeOK
  BY InvTyped, Zenon
<1> QED
  BY <1>1, LinkInvariant, PTL

\* The transmitting and the receiving window never drift apart: TX_Next_Ack <= RX_Next <=
\* RX_Highest_Status <= RX_Next_Highest <= TX_Next, over at most half the SN space
\* (handle_control_pdu, handle_data_pdu, timer_expired).
THEOREM LinkWindowsAgree == Spec /\ WholeSdus => []WindowsAgree
<1>1. Inv => WindowsAgree
  BY InvWindows, SMTT(15)
<1> QED
  BY <1>1, LinkInvariant, PTL

\* No check the receiver ends the program with ever fails when SDUs come whole
\* (rlc_am_nr.cc:1596, :1776, :1888): the failure ReceiverAsserts leaves room for needs segments.
THEOREM LinkAsserts == Spec /\ WholeSdus => [](rx.asserts /\ ReceiverAsserts)
<1>1. Inv => rx.asserts /\ ReceiverAsserts
  BY InvDelivers
<1> QED
  BY <1>1, LinkInvariant, PTL

\* notify_delivery() is only called for SDUs the peer's upper layer has.
THEOREM LinkConfirms == Spec /\ WholeSdus => []ConfirmedIsDelivered
<1>1. Inv => ConfirmedIsDelivered
  BY InvDelivers
<1> QED
  BY <1>1, LinkInvariant, PTL

\* The two entities implement the promise of an acknowledged bearer: each SDU goes up unchanged, at
\* most once and after it was written, and its delivery is notified only after that.
THEOREM LinkImplementsReliable == Spec /\ WholeSdus => ImplementsReliable
<1>1. Init /\ WholeSdus => Inv /\ Reliable!Init
  BY InitInv
<1>2. Inv /\ [Next]_vars => Inv' /\ [Reliable!Next]_(Reliable!vars)
  BY StepInv DEF Promised
<1> QED
  BY <1>1, <1>2, PTL DEF Spec, ImplementsReliable, Reliable!Spec
=============================================================================
