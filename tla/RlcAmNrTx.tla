----------------------------- MODULE RlcAmNrTx -----------------------------
(***************************************************************************)
(* The transmitting side of an RLC entity in acknowledged mode, class      *)
(* rlc_am_nr_tx of lib/src/rlc/rlc_am_nr.cc.  The object is a record t and *)
(* every method an operator that maps the object before the call to the    *)
(* object after it, together with the PDU it built, if any.  An SDU is     *)
(* named by the order in which it was taken from tx_sdu_queue; all SDUs    *)
(* have SduBytes bytes.  retx_count only counts for the notification of    *)
(* the upper layers and is left out.                                       *)
(***************************************************************************)
EXTENDS Integers, Sequences, FiniteSetsExt

CONSTANTS ModNr,      \* mod_nr, the number of sequence numbers
          SduBytes,   \* the length of an SDU
          PollPdu,    \* cfg.poll_pdu, at most 0 when infinite
          PollByte,   \* cfg.poll_byte, at most 0 when infinite
          NoSN,       \* INVALID_RLC_SN
          NoPdu       \* nothing was written into the grant

ASSUME RlcAmAssumption == /\ ModNr \in Nat /\ ModNr % 2 = 0 /\ ModNr > 2
                          /\ SduBytes \in Nat \ {0}
                          /\ PollPdu \in Int /\ PollByte \in Int
                          /\ NoSN \notin 0..ModNr
                          /\ NoPdu \notin [sn : Nat, sdu : Nat, so : Nat, len : Nat, p : BOOLEAN,
                                          si : {"full", "first", "middle", "last"}]
                          /\ NoPdu \notin Seq([sdu : Nat, so : Nat, len : Nat])

(* Sequences.  SequencesExt has these operators, and extends Bags, whose   *)
(* library of theorems would be in the context of every proof.             *)
Last(s)  == s[Len(s)]
Front(s) == SubSeq(s, 1, Len(s) - 1)
RemoveAt(s, i) == SubSeq(s, 1, i - 1) \o SubSeq(s, i + 1, Len(s))
FoldLeft(op(_, _), base, s) ==
  MapThenFoldSet(LAMBDA e, u : op(u, e), base, LAMBDA i : s[i], LAMBDA I : Max(I), DOMAIN s)
FlattenSeq(s) ==
  IF Len(s) = 0 THEN s
  ELSE LET flat[i \in 1..Len(s)] == IF i = 1 THEN s[i] ELSE flat[i - 1] \o s[i]
       IN flat[Len(s)]

SNs == 0..(ModNr - 1)
am_window_size == ModNr \div 2
min_hdr_size == 2
max_hdr_size == 4
so_end_of_sdu == 65535

(* Distance of sn from the lower edge of a window, tx_mod_base_nr() and    *)
(* rx_mod_base_nr().                                                       *)
ModBase(sn, base) == (sn - base) % ModNr

(* The object after configure() and k SDUs sent and acknowledged.          *)
TxInit(k) == [tx_next_ack |-> k % ModNr, tx_next |-> k % ModNr,
              poll_sn |-> IF k = 0 THEN 0 ELSE (k - 1) % ModNr,
              pdu_without_poll |-> 0, byte_without_poll |-> 0,
              queue |-> <<>>, window |-> <<>>, retx |-> <<>>,
              sdu_under_segmentation_sn |-> NoSN, poll_retransmit |-> FALSE]

HasSN(t, sn) == sn \in DOMAIN t.window
Full(t) == Cardinality(DOMAIN t.window) = am_window_size

Segment(so, len) == [so |-> so, len |-> len]
Retx(sn, is_segment, so, len) ==
  [sn |-> sn, is_segment |-> is_segment, so_start |-> so, current_so |-> so, len |-> len]
Pdu(t, sn, si, so, len, p) ==
  [sn |-> sn, sdu |-> t.window[sn].sdu, si |-> si, so |-> so, len |-> len, p |-> p]

AddPdu(t, sn, sdu) ==
  [t EXCEPT !.window = [s \in DOMAIN t.window \cup {sn} |->
                          IF s = sn THEN [sdu |-> sdu, segs |-> <<>>] ELSE t.window[s]]]
PushSegments(t, sn, segs) == [t EXCEPT !.window[sn].segs = @ \o segs]

-----------------------------------------------------------------------------

(* Whether the PDU about to be sent polls, and the object with the poll    *)
(* recorded: counters, POLL_SN and t-PollRetransmit (re)started.           *)
get_pdu_poll(t, sn, is_retx, bytes) ==
  LET pdus == t.pdu_without_poll + 1
      sum  == t.byte_without_poll + bytes
      due  == ~is_retx /\ (\/ PollPdu > 0 /\ pdus >= PollPdu
                           \/ PollByte > 0 /\ sum >= PollByte)
      dry  == t.queue = <<>> /\ t.retx = <<>> /\ t.sdu_under_segmentation_sn = NoSN
      poll == due \/ dry \/ Full(t)
  IN [p |-> poll,
      tx |-> IF poll
             THEN [t EXCEPT !.pdu_without_poll = 0, !.byte_without_poll = 0,
                            !.poll_sn = IF is_retx THEN @ ELSE sn,
                            !.poll_retransmit = TRUE]
             ELSE IF is_retx THEN t
             ELSE [t EXCEPT !.pdu_without_poll = pdus, !.byte_without_poll = sum]]

(* What a builder returns: the object, and the PDU or NoPdu.               *)
Built(t, pdu) == [tx |-> t, pdu |-> pdu]

(* TX_Next not reduced modulo mod_nr.                                      *)
AdvanceTxNextNoWrap(t) == [t EXCEPT !.tx_next = @ + 1]

AdvanceTxNext(t) == [t EXCEPT !.tx_next = (@ + 1) % ModNr]

(* A grant too small for the SDU carries its first bytes; TX_Next stays    *)
(* until the last segment is built.                                        *)
build_new_sdu_segment(t, nof_bytes) ==
  LET sn   == t.tx_next
      len  == nof_bytes - min_hdr_size
      t1   == [t EXCEPT !.sdu_under_segmentation_sn = sn]
      poll == get_pdu_poll(t1, sn, FALSE, len)
  IN Built(PushSegments(poll.tx, sn, <<Segment(0, len)>>), Pdu(t, sn, "first", 0, len, poll.p))

build_new_pdu(t, nof_bytes) ==
  LET sn   == t.tx_next
      t1   == AddPdu([t EXCEPT !.queue = Tail(@)], sn, Head(t.queue))
      poll == get_pdu_poll(t1, sn, FALSE, SduBytes)
  IN IF nof_bytes <= min_hdr_size \/ Full(t)
     THEN Built(t, NoPdu)
     ELSE IF SduBytes + min_hdr_size > nof_bytes
     THEN build_new_sdu_segment(t1, nof_bytes)
     ELSE Built(AdvanceTxNext(poll.tx), Pdu(t1, sn, "full", 0, SduBytes, poll.p))

build_continuation_sdu_segment(t, nof_bytes) ==
  LET sn     == t.tx_next
      seg    == Last(t.window[t.sdu_under_segmentation_sn].segs)
      so     == seg.so + seg.len
      rest   == SduBytes - so
      isLast == rest + max_hdr_size <= nof_bytes
      len    == IF isLast THEN rest ELSE nof_bytes - max_hdr_size
      t1     == IF isLast THEN [t EXCEPT !.sdu_under_segmentation_sn = NoSN] ELSE t
      poll   == get_pdu_poll(t1, sn, FALSE, len)
      t2     == PushSegments(poll.tx, sn, <<Segment(so, len)>>)
  IN IF nof_bytes <= max_hdr_size \/ so > SduBytes
     THEN Built(t, NoPdu)
     ELSE Built(IF isLast THEN AdvanceTxNext(t2) ELSE t2,
                Pdu(t, sn, IF isLast THEN "last" ELSE "middle", so, len, poll.p))

-----------------------------------------------------------------------------

RetxHdr(r) == IF r.is_segment /\ r.current_so # 0 THEN max_hdr_size ELSE min_hdr_size
RetxLen(r) == IF r.is_segment THEN r.so_start + r.len - r.current_so ELSE SduBytes

is_retx_segmentation_required(r, nof_bytes) == nof_bytes < RetxLen(r) + RetxHdr(r)

build_retx_pdu_without_segmentation(t, r) ==
  LET si   == IF ~r.is_segment THEN "full"
              ELSE IF r.current_so = 0 THEN "first"
              ELSE IF r.current_so + RetxLen(r) < SduBytes THEN "middle" ELSE "last"
      poll == get_pdu_poll([t EXCEPT !.retx = Tail(@)], r.sn, TRUE, 0)
  IN Built(poll.tx, Pdu(t, r.sn, si, r.current_so, RetxLen(r), poll.p))

(* The first segment of the list that starts at so is replaced by two.     *)
SplitSegment(segs, so, len) ==
  LET idx == {i \in DOMAIN segs : segs[i].so = so}
      i   == CHOOSE j \in idx : \A k \in idx : j <= k
  IN IF idx = {} THEN segs
     ELSE SubSeq(segs, 1, i - 1) \o <<Segment(so, len), Segment(so + len, segs[i].len - len)>>
            \o SubSeq(segs, i + 1, Len(segs))

(* isFront: the queue's front is updated through the reference retx.       *)
build_retx_pdu_with_segmentation(t, r, isFront, nof_bytes) ==
  LET si   == IF r.current_so = 0 THEN "first" ELSE "middle"
      len  == nof_bytes - RetxHdr(r)
      poll == get_pdu_poll(t, r.sn, TRUE, 0)
      segs == t.window[r.sn].segs
      t1   == [poll.tx EXCEPT
                 !.window[r.sn].segs =
                    IF r.is_segment
                    THEN SplitSegment(segs, r.current_so, len)
                    ELSE segs \o <<Segment(r.current_so, len),
                                   Segment(r.current_so + len, r.len - len)>>,
                 !.retx = IF isFront
                          THEN [@ EXCEPT ![1].is_segment = TRUE, ![1].current_so = @ + len]
                          ELSE @]
      so1  == r.current_so + len
  IN IF nof_bytes <= RetxHdr(r) \/ nof_bytes > SduBytes + RetxHdr(r)
     THEN Built(t, NoPdu)
     ELSE Built(t1, IF so1 >= SduBytes \/ so1 >= r.so_start + r.len
                    THEN NoPdu
                    ELSE Pdu(t, r.sn, si, r.current_so, len, poll.p))

(* Entries whose SN left the window are dropped first.  The loop keeps the *)
(* reference to the front of the list it popped and assigns the next entry *)
(* through it (:462), into a list node that was freed: undefined, and what *)
(* the builder then finds there depends on the allocator.  Modelled is the *)
(* outcome when the memory is not handed out again before the function     *)
(* returns: the builder works on a copy of the new front, which is itself  *)
(* not updated.                                                            *)
build_retx_pdu(t, nof_bytes) ==
  LET live == {i \in DOMAIN t.retx : HasSN(t, t.retx[i].sn)}
      k    == CHOOSE i \in live : \A j \in live : i <= j
      t1   == [t EXCEPT !.retx = SubSeq(@, k, Len(@))]
      r    == t.retx[k]
  IN IF live = {} THEN Built([t EXCEPT !.retx = <<>>], NoPdu)
     ELSE IF is_retx_segmentation_required(r, nof_bytes)
     THEN build_retx_pdu_with_segmentation(t1, r, k = 1, nof_bytes)
     ELSE build_retx_pdu_without_segmentation(t1, r)

(* read_pdu() after the check for a status PDU.                            *)
read_data_pdu(t, nof_bytes) ==
  IF t.retx # <<>> THEN build_retx_pdu(t, nof_bytes)
  ELSE IF t.sdu_under_segmentation_sn # NoSN
  THEN IF HasSN(t, t.sdu_under_segmentation_sn)
       THEN build_continuation_sdu_segment(t, nof_bytes)
       ELSE Built([t EXCEPT !.sdu_under_segmentation_sn = NoSN], NoPdu)
  ELSE IF t.queue = <<>> THEN Built(t, NoPdu)
  ELSE build_new_pdu(t, nof_bytes)

-----------------------------------------------------------------------------

RetxHasSN(t, sn) == \E i \in DOMAIN t.retx : t.retx[i].sn = sn
RetxCovers(t, sn, so) ==
  \E i \in DOMAIN t.retx : LET r == t.retx[i]
                           IN r.sn = sn /\ r.so_start <= so /\ so < r.current_so + r.len

(* remove_sn() erases the first entry of the SN only.                      *)
RemoveSN(q, sn) == LET idx == {i \in DOMAIN q : q[i].sn = sn}
                   IN IF idx = {} THEN q
                      ELSE RemoveAt(q, CHOOSE i \in idx : \A j \in idx : i <= j)

PushRetx(t, r) == [t EXCEPT !.retx = Append(@, r)]
PushRetxSegment(t, sn, seg) == PushRetx(t, Retx(sn, TRUE, seg.so, seg.len))

handle_nack(t, nack) ==
  LET sn     == nack.sn
      segs   == t.window[sn].segs
      Within(seg) == nack.so_start <= seg.so /\ seg.so <= nack.so_end
      OneSegment(seg, u) == IF Within(seg) /\ ~RetxCovers(u, sn, seg.so)
                            THEN PushRetxSegment(u, sn, seg) ELSE u
      AllSegments(seg, u) == PushRetxSegment(u, sn, seg)
  IN IF ModBase(sn, t.tx_next_ack) > ModBase(t.tx_next, t.tx_next_ack) \/ ~HasSN(t, sn)
     THEN t
     ELSE IF nack.has_so THEN FoldLeft(LAMBDA u, seg : OneSegment(seg, u), t, segs)
     ELSE IF RetxHasSN(t, sn) THEN t
     ELSE IF segs = <<>> THEN PushRetx(t, Retx(sn, FALSE, 0, SduBytes))
     ELSE FoldLeft(LAMBDA u, seg : AllSegments(seg, u), t, segs)

(* The NACKs a NACK with a range stands for: none when the range is 0.     *)
(* Their SNs are not reduced modulo mod_nr.                                *)
ExpandNack(nack) ==
  IF ~nack.has_range THEN <<nack>>
  ELSE [i \in 1..nack.range |->
          LET from == IF nack.has_so /\ i = 1 THEN nack.so_start ELSE 0
              upto == IF nack.has_so /\ i = nack.range THEN nack.so_end ELSE so_end_of_sdu
          IN [sn |-> nack.sn + i - 1, has_range |-> FALSE, range |-> 0,
              so_start |-> from, so_end |-> upto,
              has_so |-> nack.has_so /\ (from # 0 \/ upto # so_end_of_sdu)]]

(* The SNs acknowledged: from TX_Next_Ack up to stop_sn, ending at the     *)
(* first that is not in the window.                                        *)
NofAcked(t, stop_sn) ==
  CHOOSE n \in 0..ModNr :
    /\ \A d \in 0..(n - 1) : /\ ModBase(t.tx_next_ack + d, stop_sn) # 0
                             /\ HasSN(t, (t.tx_next_ack + d) % ModNr)
    /\ \/ ModBase(t.tx_next_ack + n, stop_sn) = 0
       \/ ~HasSN(t, (t.tx_next_ack + n) % ModNr)

Acknowledge(t, n) ==
  LET acked == [d \in 1..n |-> (t.tx_next_ack + d - 1) % ModNr]
  IN [t EXCEPT !.window = [s \in DOMAIN @ \ Range(acked) |-> @[s]],
               !.retx = FoldLeft(RemoveSN, @, acked),
               !.tx_next_ack = (@ + n) % ModNr]

(* The SDU acknowledging stops at notified as well.                        *)
NotifiedToStop(t, n) ==
  {t.window[sn].sdu : sn \in DOMAIN t.window \cap {(t.tx_next_ack + d) % ModNr : d \in 0..n}}

(* The SDUs notify_delivery() is called for.                               *)
Notified(t, n) == {t.window[(t.tx_next_ack + d) % ModNr].sdu : d \in 0..(n - 1)}

valid_ack_sn(t, ack) == 0 < ModBase(ack, t.tx_next_ack)
                        /\ ModBase(ack, t.tx_next_ack) <= am_window_size

Accepted(t, status) ==
  /\ valid_ack_sn(t, status.ack_sn)
  /\ ModBase(status.ack_sn, t.tx_next_ack) <= ModBase(t.tx_next + 1, t.tx_next_ack)

(* Acknowledging stops at the first NACK, or at ACK_SN.                    *)
StopSN(status) == IF status.nacks = <<>> THEN status.ack_sn ELSE status.nacks[1].sn

(* The object after a status PDU, and the SDUs reported as delivered.      *)
handle_control_pdu(t, status) ==
  LET n    == NofAcked(t, StopSN(status))
      poll == /\ t.poll_retransmit
              /\ ~(ModBase(t.poll_sn, t.tx_next_ack) < ModBase(status.ack_sn, t.tx_next_ack))
      t1   == Acknowledge([t EXCEPT !.poll_retransmit = poll], n)
      all  == FlattenSeq([i \in DOMAIN status.nacks |-> ExpandNack(status.nacks[i])])
  IN IF ~Accepted(t, status) THEN [tx |-> t, delivered |-> {}]
     ELSE [tx |-> FoldLeft(handle_nack, t1, all), delivered |-> Notified(t, n)]

(* No retransmission when t-PollRetransmit expires.                        *)
PollExpiryForgotten(t) == [t EXCEPT !.poll_retransmit = FALSE]

(* t-PollRetransmit expires: when nothing new can be sent, the first SDU   *)
(* not acknowledged, or its first segment, is queued again.                *)
poll_retransmit_expired(t) ==
  LET t1  == [t EXCEPT !.poll_retransmit = FALSE]
      sn  == t.tx_next_ack
      segs == t.window[sn].segs
  IN IF ~((t.queue = <<>> /\ t.retx = <<>>) \/ Full(t)) \/ ~HasSN(t, sn) THEN t1
     ELSE IF segs = <<>> THEN PushRetx(t1, Retx(sn, FALSE, 0, SduBytes))
     ELSE PushRetx(t1, Retx(sn, TRUE, 0, Head(segs).len))
=============================================================================
