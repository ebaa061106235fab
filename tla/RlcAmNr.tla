------------------------------ MODULE RlcAmNr ------------------------------
(***************************************************************************)
(* Two RLC entities in acknowledged mode, one sending SDUs and the other   *)
(* reporting what it received, over a MAC that loses PDUs and, with HARQ,  *)
(* reorders them.  Grants and timer expiries come at any time.  A check of *)
(* the reporting entity that fails ends its program: it takes no step from *)
(* then on, and the sending entity goes on alone.                          *)
(***************************************************************************)
EXTENDS RlcAmNrRx

CONSTANTS NSdus,             \* bound: SDUs written
          StartSN,           \* SDUs exchanged before the first modelled one
          Links,             \* what the MAC and the configured timers may do
          t_status_prohibit, \* whether cfg.t_status_prohibit is not 0
          ReportCap,         \* bound: status PDUs on their way
          RetxCap            \* bound: retx_queue when t-PollRetransmit expires

(* A link has the sizes of the grants, the number of SDUs written, of data *)
(* PDUs that may be on their way and of PDUs it may lose (bounds), whether *)
(* timers may expire while a PDU is on its way (early), and whether a      *)
(* status PDU may overtake another one (overtaking).  Two equal PDUs on    *)
(* their way count as one.                                                 *)
ASSUME LinkAssumption ==
  /\ NSdus \in Nat /\ StartSN \subseteq Nat /\ t_status_prohibit \in BOOLEAN
  /\ \A l \in Links : /\ l.grants # {} /\ \A g \in l.grants : g \in Nat /\ g >= 3
                      /\ l.sdus \in 0..NSdus /\ l.pdus \in Nat \ {0} /\ l.losses \in Nat
                      /\ l.early \in BOOLEAN /\ l.overtaking \in BOOLEAN

VARIABLES link, tx, rx,
          air,             \* data PDUs on their way
          reports,         \* status PDUs on their way, oldest first
          written,         \* SDUs written so far
          up,              \* how often each SDU was delivered; 0: any other content
          losses,          \* PDUs lost so far
          confirmed        \* SDUs notify_delivery() was called for

vars == <<link, tx, rx, air, reports, written, up, losses, confirmed>>

Sdus == 1..NSdus

Init == /\ link \in Links
        /\ \E k \in StartSN : tx = TxInit(k) /\ rx = RxInit(k)
        /\ air = {} /\ reports = <<>>
        /\ written = 0 /\ up = [k \in 0..NSdus |-> 0]
        /\ losses = 0 /\ confirmed = {}

write_sdu ==
  /\ written < link.sdus
  /\ written' = written + 1
  /\ tx' = [tx EXCEPT !.queue = Append(@, written + 1)]
  /\ UNCHANGED <<link, rx, air, reports, up, losses, confirmed>>

(* A PDU is not on its way for so long that the sender is more than half   *)
(* the SN space past it.                                                   *)
Timely(tx_next) == \A p \in air : ModBase(tx_next, p.sn) <= am_window_size

(* The sender's MAC has a grant.                                           *)
read_pdu(g) ==
  LET b == read_data_pdu(tx, g)
  IN /\ Cardinality(air) < link.pdus /\ Timely(b.tx.tx_next)
     /\ tx' = b.tx
     /\ air' = IF b.pdu = NoPdu THEN air ELSE air \cup {b.pdu}
     /\ UNCHANGED <<link, rx, reports, written, up, losses, confirmed>>

(* The receiver's MAC has a grant, and a status PDU is due.                *)
get_do_status == rx.do_status /\ ~rx.prohibit

build_status_pdu(g) ==
  /\ rx.asserts /\ get_do_status
  /\ Len(reports) < ReportCap
  /\ rx' = [rx EXCEPT !.do_status = FALSE, !.prohibit = t_status_prohibit,
                      !.asserts = @ /\ \A nack \in Range(AllNacks(rx)) : nack.so_start <= nack.so_end]
  /\ reports' = IF rx'.asserts THEN Append(reports, get_status_pdu(rx, g)) ELSE reports
  /\ UNCHANGED <<link, tx, air, written, up, losses, confirmed>>

write_data_pdu(p) ==
  LET h == handle_data_pdu(rx, p)
  IN /\ rx.asserts
     /\ rx' = h.rx
     /\ up' = IF h.up = NoPdu THEN up ELSE [up EXCEPT ![SduOf(h.up)] = @ + 1]
     /\ air' = air \ {p}
     /\ UNCHANGED <<link, tx, reports, written, losses, confirmed>>

write_control_pdu(i) ==
  LET h == handle_control_pdu(tx, reports[i])
  IN /\ i = 1 \/ link.overtaking
     /\ tx' = h.tx
     /\ confirmed' = confirmed \cup h.delivered
     /\ reports' = RemoveAt(reports, i)
     /\ UNCHANGED <<link, rx, air, written, up, losses>>

LoseData(p) ==
  /\ losses < link.losses /\ losses' = losses + 1
  /\ air' = air \ {p}
  /\ UNCHANGED <<link, tx, rx, reports, written, up, confirmed>>

LoseStatus ==
  /\ reports # <<>>
  /\ losses < link.losses /\ losses' = losses + 1
  /\ reports' = Tail(reports)
  /\ UNCHANGED <<link, tx, rx, air, written, up, confirmed>>

(* A timer longer than the round trip expires with nothing on its way.     *)
MayExpire == link.early \/ (air = {} /\ reports = <<>> /\ ~rx.do_status)

poll_retransmit_timer ==
  /\ tx.poll_retransmit /\ MayExpire /\ Len(tx.retx) < RetxCap
  /\ tx' = poll_retransmit_expired(tx)
  /\ UNCHANGED <<link, rx, air, reports, written, up, losses, confirmed>>

reassembly_timer ==
  /\ rx.asserts /\ rx.reassembly /\ (link.early \/ air = {})
  /\ rx' = reassembly_expired(rx)
  /\ UNCHANGED <<link, tx, air, reports, written, up, losses, confirmed>>

status_prohibit_timer ==
  /\ rx.asserts /\ rx.prohibit
  /\ rx' = [rx EXCEPT !.prohibit = FALSE]
  /\ UNCHANGED <<link, tx, air, reports, written, up, losses, confirmed>>

Next == \/ write_sdu
        \/ \E g \in link.grants : read_pdu(g) \/ build_status_pdu(g)
        \/ \E p \in air : write_data_pdu(p) \/ LoseData(p)
        \/ \E i \in DOMAIN reports : write_control_pdu(i)
        \/ LoseStatus
        \/ poll_retransmit_timer \/ reassembly_timer \/ status_prohibit_timer

BigGrant == Max(link.grants)

(* A PDU leaves the air without being lost in the steps of the receiving   *)
(* entity only, a report is added in those of the reporting entity only.   *)
DataArrives   == rx.asserts /\ losses' = losses /\ \E p \in air : air' = air \ {p}
StatusArrives == losses' = losses /\ \E i \in DOMAIN reports : reports' = RemoveAt(reports, i)
StatusSent    == /\ rx.asserts /\ get_do_status /\ Len(reports) < ReportCap
                 /\ \E b \in BOOLEAN : rx' = [rx EXCEPT !.do_status = FALSE, !.asserts = b,
                                                     !.prohibit = t_status_prohibit]
Reassembles   == /\ rx.asserts /\ rx.reassembly /\ (link.early \/ air = {})
                 /\ rx' = reassembly_expired(rx)

Fairness == /\ WF_vars(read_pdu(BigGrant))
            /\ WF_rx(StatusSent) /\ WF_air(DataArrives) /\ WF_reports(StatusArrives)
            /\ WF_vars(poll_retransmit_timer) /\ WF_rx(Reassembles)
            /\ WF_vars(status_prohibit_timer)

Spec == Init /\ [][Next]_vars /\ Fairness

-----------------------------------------------------------------------------

(* The sender's and the receiver's objects have the types of their         *)
(* classes; the segments to retransmit are bytes of the SDU.               *)
TypeOK ==
  /\ link \in Links /\ written \in 0..NSdus /\ losses \in 0..link.losses
  /\ {tx.tx_next_ack, tx.tx_next, tx.poll_sn} \subseteq SNs
  /\ DOMAIN tx.window \subseteq SNs /\ tx.sdu_under_segmentation_sn \in SNs \cup {NoSN}
  /\ \A i \in DOMAIN tx.retx : LET r == tx.retx[i]
                              IN /\ r.sn \in SNs /\ r.current_so \in r.so_start..(r.so_start + r.len - 1)
                                 /\ r.so_start + r.len <= SduBytes
  /\ {rx.rx_next, rx.rx_next_highest, rx.rx_highest_status, rx.rx_next_status_trigger} \subseteq SNs
  /\ DOMAIN rx.window \subseteq SNs
  /\ up \in [0..NSdus -> Nat] /\ confirmed \subseteq Sdus

(* The two windows never drift apart, whatever was lost, reordered or      *)
(* retransmitted: TX_Next_Ack has not passed RX_Next, which has not passed *)
(* RX_Highest_Status, RX_Next_Highest and the last SN that was sent        *)
(* (handle_control_pdu, handle_data_pdu, timer_expired).                   *)
WindowsAgree ==
  LET D(sn) == ModBase(sn, tx.tx_next_ack)
      sent  == D(tx.tx_next) + (IF tx.sdu_under_segmentation_sn = NoSN THEN 0 ELSE 1)
  IN /\ D(rx.rx_next) <= D(rx.rx_highest_status)
     /\ D(rx.rx_highest_status) <= D(rx.rx_next_highest)
     /\ D(rx.rx_next_highest) <= sent
     /\ sent <= am_window_size

(* Stored segments of which one encloses another.  The test for bytes      *)
(* already received looks at the two ends of the new segment only          *)
(* (rlc_am_nr.cc:1481), and lets through one around a stored segment.      *)
Enclosing(segs) == \E a, b \in segs : a.so < b.so /\ b.so + b.len < a.so + a.len

(* The checks the receiver ends the program with hold: the entry of        *)
(* RX_Next is in the window when RX_Next_Status_Trigger is RX_Next + 1     *)
(* (rlc_am_nr.cc:1596), RX_Highest_Status is a valid ACK_SN when           *)
(* t-Reassembly expires (:1888), and no NACK of a report ends before it    *)
(* starts (:1776).  Only the last can fail, while a report is built, and   *)
(* only for an SDU with a stored segment that encloses another.            *)
ReceiverAsserts ==
  ~rx.asserts => ~rx.do_status /\ \E sn \in DOMAIN rx.window : Enclosing(rx.window[sn].segs)

(* The bearer is reliable: an SDU goes up unchanged and at most once, and  *)
(* notify_delivery() is only called for an SDU that went up (as long as    *)
(* status PDUs do not overtake each other).                                *)
Reliable == INSTANCE ReliableDelivery WITH accepted <- written, delivered <- up
ImplementsReliable == Reliable!Spec

(* The grants hold a whole SDU and status PDUs stay in order.              *)
WholeSdus == ~link.overtaking /\ \A g \in link.grants : g >= SduBytes + min_hdr_size

(* With timers longer than a round trip and grants that fit an SDU and a   *)
(* status PDU, every SDU written is reported as delivered once the losses  *)
(* end: t-PollRetransmit, t-Reassembly and the status reports recover from *)
(* every loss, of a poll and of a report included.                         *)
Generous == ~link.early /\ \A g \in link.grants : g >= SduBytes + max_hdr_size + 3
AllConfirmed == Generous => <>[](confirmed = 1..written)

(* "Checking if the ACK_SN is inside the valid ACK_SN window ... makes     *)
(* sure we discard out of order status reports" (rlc_am_nr.cc:797-798):    *)
(* so notify_delivery() is only called for SDUs the peer received, even if *)
(* an older status PDU arrives after a newer one.                          *)
ConfirmedIsDelivered == \A k \in confirmed : up[k] > 0

(* "consider any RLC SDU which has not been positively acknowledged for    *)
(* retransmission" (rlc_am_nr.cc:1255): whatever was lost, the expiries of *)
(* t-PollRetransmit make every SDU arrive once the losses end.             *)
PollRecovers == <>[](confirmed = 1..written)
=============================================================================
