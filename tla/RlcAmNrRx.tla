----------------------------- MODULE RlcAmNrRx -----------------------------
(***************************************************************************)
(* The receiving side of an RLC entity in acknowledged mode, class         *)
(* rlc_am_nr_rx of lib/src/rlc/rlc_am_nr.cc, and the status PDU of         *)
(* rlc_am_nr_packing.cc.  The object is a record r; a method is an         *)
(* operator on it.  An entry of the window keeps the received segments     *)
(* until the SDU is complete; then the SDU goes to the upper layer.        *)
(***************************************************************************)
EXTENDS RlcAmNrTx

(* The object after configure() and k SDUs received in order; asserts      *)
(* tells whether every check that ends the program has held.               *)
RxInit(k) == [rx_next |-> k % ModNr, rx_next_highest |-> k % ModNr,
              rx_highest_status |-> k % ModNr, rx_next_status_trigger |-> 0,
              window |-> <<>>, do_status |-> FALSE,
              reassembly |-> FALSE, prohibit |-> FALSE, asserts |-> TRUE]

Has(r, sn) == sn \in DOMAIN r.window
Complete(r, sn) == Has(r, sn) /\ r.window[sn].fully_received
HasGap(r, sn) == Has(r, sn) /\ r.window[sn].has_gap
RxMod(r, sn) == ModBase(sn, r.rx_next)
inside_rx_window(r, sn) == RxMod(r, sn) < am_window_size
rx_valid_ack_sn(r, sn) == 0 < RxMod(r, sn) /\ RxMod(r, sn) <= am_window_size

(* The first SN from `from' on that is not complete, or RX_Next_Highest.   *)
FirstIncomplete(r, from) ==
  LET Stops(d) == \/ RxMod(r, from + d) >= RxMod(r, r.rx_next_highest)
                  \/ ~Complete(r, (from + d) % ModNr)
  IN (from + Min({d \in SNs : Stops(d)})) % ModNr

-----------------------------------------------------------------------------

(* The stored segments in the order of their offset (a std::set).          *)
BySO(segs) ==
  CHOOSE q \in [1..Cardinality(segs) -> segs] : \A i, j \in DOMAIN q : i < j => q[i].so < q[j].so

(* The offset at which the i-th segment is expected to start.              *)
ExpectedSO(q, i) == IF i = 1 THEN 0 ELSE q[i - 1].so + q[i - 1].len

(* Gap and completeness from the stored segments.                          *)
update_segment_inventory(segs) ==
  LET q    == BySO(segs)
      gaps == {i \in DOMAIN q : q[i].so # ExpectedSO(q, i)}
      ends == {i \in DOMAIN q : q[i].si = "last"}
      Before(S, T) == S # {} /\ \A i \in T : Min(S) <= i
  IN [segs |-> segs, has_gap |-> Before(gaps, ends), fully_received |-> ends # {} /\ ~Before(gaps, ends)]

SegmentOf(pdu) == [sdu |-> pdu.sdu, si |-> pdu.si, so |-> pdu.so, len |-> pdu.len]

(* The test that discards a segment with bytes already received: one of    *)
(* its ends lies in a stored segment.                                      *)
Overlaps(pdu, segs) ==
  \E s \in segs : \/ s.so <= pdu.so /\ pdu.so < s.so + s.len
                  \/ s.so < pdu.so + pdu.len /\ pdu.so + pdu.len <= s.so + s.len

SetEntry(r, sn, e) ==
  [r EXCEPT !.window = [s \in DOMAIN r.window \cup {sn} |-> IF s = sn THEN e ELSE r.window[s]]]

(* The bytes of an SDU assembled from its segments.                        *)
Assembled(segs) == [i \in DOMAIN BySO(segs) |-> LET s == BySO(segs)[i]
                                               IN [sdu |-> s.sdu, so |-> s.so, len |-> s.len]]

(* The SDU a sequence of assembled segments is, or 0.                      *)
SduOf(a) ==
  IF /\ \A i \in DOMAIN a : a[i].sdu = a[1].sdu /\ a[i].so = ExpectedSO(a, i)
     /\ ExpectedSO(a, Len(a) + 1) = SduBytes
  THEN a[1].sdu ELSE 0

handle_full_data_sdu(r, pdu) ==
  SetEntry(r, pdu.sn, [segs |-> {SegmentOf(pdu)}, has_gap |-> FALSE, fully_received |-> TRUE])

handle_segment_data_sdu(r, pdu) ==
  LET old == IF Has(r, pdu.sn) THEN r.window[pdu.sn].segs ELSE {}
      new == IF \E s \in old : s.so = pdu.so THEN old ELSE old \cup {SegmentOf(pdu)}
  IN SetEntry(r, pdu.sn, update_segment_inventory(new))

(* RX_Highest_Status left behind when RX_Next moves.                       *)
AdvanceNextOnly(r, sn) ==
  LET next == IF sn = r.rx_next THEN FirstIncomplete(r, sn) ELSE r.rx_next
  IN [r EXCEPT !.rx_next = next,
               !.window = [s \in {u \in DOMAIN @ : RxMod(r, u) >= RxMod(r, next)} |-> @[s]]]

(* RX_Highest_Status and RX_Next after the SDU with SN sn is complete; the *)
(* entries behind RX_Next leave the window.                                *)
AdvanceWindow(r, sn) ==
  LET highest == IF sn = r.rx_highest_status
                 THEN FirstIncomplete(r, (sn + 1) % ModNr) ELSE r.rx_highest_status
      next == IF sn = r.rx_next THEN FirstIncomplete(r, sn) ELSE r.rx_next
      gone == {s \in DOMAIN r.window : RxMod(r, s) < RxMod(r, next)}
  IN [r EXCEPT !.rx_highest_status = highest, !.rx_next = next,
               !.window = [s \in DOMAIN @ \ gone |-> @[s]]]

(* t-Reassembly kept running when RX_Next reaches RX_Next_Status_Trigger.  *)
StopReassemblyLate(r) ==
  IF r.reassembly /\ ~inside_rx_window(r, r.rx_next_status_trigger)
  THEN [r EXCEPT !.reassembly = FALSE] ELSE r

(* t-Reassembly is stopped and started after a PDU was stored.  The entry  *)
(* of RX_Next is read without asking whether the window has it.            *)
StopReassembly(r) ==
  LET isNext == RxMod(r, r.rx_next_status_trigger) = RxMod(r, r.rx_next + 1)
      stops  == \/ r.rx_next_status_trigger = r.rx_next
                \/ isNext /\ ~HasGap(r, r.rx_next)
                \/ ~inside_rx_window(r, r.rx_next_status_trigger)
  IN IF ~r.reassembly THEN r
     ELSE [r EXCEPT !.reassembly = ~stops, !.asserts = @ /\ (isNext => Has(r, r.rx_next))]

StartReassembly(r, sn) ==
  IF /\ ~r.reassembly
     /\ \/ RxMod(r, r.rx_next_highest) > RxMod(r, sn + 1)
        \/ RxMod(r, r.rx_next_highest) = RxMod(r, sn + 1) /\ HasGap(r, sn)
  THEN [r EXCEPT !.reassembly = TRUE, !.rx_next_status_trigger = r.rx_next_highest]
  ELSE r

(* The object after a data PDU, and the SDU that went up, or NoPdu.        *)
handle_data_pdu(r, pdu) ==
  LET sn == pdu.sn
      r0 == IF pdu.p THEN [r EXCEPT !.do_status = TRUE] ELSE r
      r1 == IF pdu.si = "full" THEN handle_full_data_sdu(r0, pdu)
            ELSE handle_segment_data_sdu(r0, pdu)
      r2 == IF RxMod(r, sn) >= RxMod(r, r.rx_next_highest)
            THEN [r1 EXCEPT !.rx_next_highest = (sn + 1) % ModNr] ELSE r1
      up == IF Complete(r2, sn) THEN Assembled(r2.window[sn].segs) ELSE NoPdu
      r3 == IF Complete(r2, sn)
            THEN AdvanceWindow([r2 EXCEPT !.window[sn].segs = {}], sn) ELSE r2
      r4 == StartReassembly(StopReassembly(r3), r3.rx_next)
  IN IF \/ ~inside_rx_window(r, sn)
        \/ Complete(r, sn)
        \/ Has(r, sn) /\ pdu.si # "full" /\ Overlaps(pdu, r.window[sn].segs)
     THEN [rx |-> r0, up |-> NoPdu]
     ELSE [rx |-> r4, up |-> up]

(* t-Reassembly expires.                                                   *)
HighestStatusAtExpiry(r) == FirstIncomplete(r, r.rx_next_status_trigger)

reassembly_expired(r) ==
  LET h  == HighestStatusAtExpiry(r)
      r1 == [r EXCEPT !.reassembly = FALSE, !.rx_highest_status = h, !.do_status = TRUE,
                      !.asserts = @ /\ rx_valid_ack_sn(r, h)]
  IN StartReassembly(r1, h)

-----------------------------------------------------------------------------

(* rlc_status_nack_t; nack_range is a uint8_t.                             *)
RangeMod == 256
Nack(sn, has_so, from, upto) ==
  [sn |-> sn, has_range |-> FALSE, range |-> 0, has_so |-> has_so, so_start |-> from, so_end |-> upto]

(* NACKs of one SN in the order of their offset.                           *)
NacksOf(r, sn) ==
  LET q      == BySO(r.window[sn].segs)
      Before(i) == IF q[i].so = ExpectedSO(q, i) THEN <<>>
                   ELSE <<Nack(sn, TRUE, ExpectedSO(q, i), q[i].so - 1)>>
      tail   == IF \E i \in DOMAIN q : q[i].si = "last" THEN <<>>
                ELSE <<Nack(sn, TRUE, ExpectedSO(q, Len(q) + 1), so_end_of_sdu)>>
  IN IF Complete(r, sn) THEN <<>>
     ELSE IF ~Has(r, sn) THEN <<Nack(sn, FALSE, 0, so_end_of_sdu)>>
     ELSE FlattenSeq([i \in DOMAIN q |-> Before(i)]) \o tail

Width(nack) == IF nack.has_range THEN nack.range ELSE 1

is_continuous_sequence(left, right) ==
  /\ right.sn = (left.sn + Width(left)) % ModNr
  /\ left.has_so => left.so_end = so_end_of_sdu
  /\ right.has_so => right.so_start = 0

(* A NACK that continues the previous one widens it into a range.  The     *)
(* range wraps to 0 at the 256th SN in a row, and the SNs up to there are  *)
(* then missing from the report.                                           *)
push_nack(nacks, nack) ==
  IF nacks = <<>> \/ ~is_continuous_sequence(Last(nacks), nack) THEN Append(nacks, nack)
  ELSE LET prev == Last(nacks)
       IN Append(Front(nacks),
                 [prev EXCEPT !.has_range = TRUE,
                              !.range = (Width(prev) + Width(nack)) % RangeMod,
                              !.has_so = @ \/ nack.has_so,
                              !.so_start = IF prev.has_so THEN @ ELSE 0,
                              !.so_end = IF nack.has_so THEN nack.so_end ELSE so_end_of_sdu])

nack_size(nack) == 2 + (IF nack.has_so THEN 4 ELSE 0) + (IF nack.has_range THEN 1 ELSE 0)
packed_size(nacks) == FoldLeft(LAMBDA n, nack : n + nack_size(nack), 3, nacks)

(* NACKs leave from the back until the rest fits, all of an SN together.   *)
trim(status, max_len) ==
  LET nacks == status.nacks
      Ack(n) == IF n = Len(nacks) THEN status.ack_sn ELSE nacks[n + 1].sn
      Fits(n) == /\ packed_size(SubSeq(nacks, 1, n)) <= max_len
                 /\ n > 0 => nacks[n].sn # Ack(n)
      n     == Max({m \in 0..Len(nacks) : Fits(m) \/ m = 0})
  IN IF max_len >= packed_size(nacks) \/ max_len < 3 THEN status
     ELSE [ack_sn |-> Ack(n), nacks |-> SubSeq(nacks, 1, n)]

(* The NACKs from RX_Next up to RX_Highest_Status, and the status PDU with *)
(* them for a grant of max_len bytes.                                      *)
AllNacks(r) == FlattenSeq([i \in 1..RxMod(r, r.rx_highest_status) |->
                             NacksOf(r, (r.rx_next + i - 1) % ModNr)])

get_status_pdu(r, max_len) ==
  trim([ack_sn |-> r.rx_highest_status, nacks |-> FoldLeft(push_nack, <<>>, AllNacks(r))], max_len)
=============================================================================
