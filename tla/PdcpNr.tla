------------------------------- MODULE PdcpNr -------------------------------
(***************************************************************************)
(* A bearer of the 5G PDCP (lib/src/pdcp/pdcp_entity_nr.cc), from          *)
(* write_sdu of the sender to the upper layers of the receiver, over an    *)
(* RLC that reorders and duplicates PDUs, loses them when it is in         *)
(* unacknowledged mode, and discards on request what it has not yet sent.  *)
(* An SDU is named by the COUNT the sender gave it; only the SN, its low   *)
(* bits, crosses the air, and the receiver has to find the rest.           *)
(***************************************************************************)
EXTENDS Integers, Sequences, FiniteSets, Functions

CONSTANTS SnMod,     \* 2 ^ sn_len
          CountMod,  \* number of values of a COUNT, 2 ^ 32 in the code
          QueueCap,  \* capacity of the SDU queue of RLC
          AirCap,    \* bound on the PDUs in transit or not yet acknowledged
          Configs    \* the configurations of the bearer, see Config

(* RLC mode, t-Reordering ("zero" is ms0, which never sets the timer) and  *)
(* whether a discard timer is configured.                                  *)
Config == [mode : {"UM", "AM"}, t_reordering : {"finite", "zero", "infinity"}, discard : BOOLEAN]

ASSUME PdcpAssumption ==
  /\ SnMod \in Nat /\ SnMod > 1 /\ SnMod % 2 = 0
  /\ CountMod \in Nat /\ CountMod > 0 /\ CountMod % SnMod = 0
  /\ QueueCap \in Nat \ {0} /\ AirCap \in Nat \ {0} /\ Configs \subseteq Config

(* RemoveAt is also in SequencesExt, which extends Bags, whose library of  *)
(* theorems would be in the context of every proof.                        *)
RemoveAt(s, i) == SubSeq(s, 1, i - 1) \o SubSeq(s, i + 1, Len(s))

VARIABLES cfg,
          tx_next, tx_overflow, discard_timers,             \* sender
          rx_next, rx_deliv, rx_reord, rx_overflow,         \* receiver
          reorder_queue,   \* COUNT estimated by the receiver -> SDU
          running,         \* reordering_timer.is_running()
          rlc_queue, air,  \* SDUs in RLC's queue, and sent but not yet received
          last, out        \* as in InOrderDelivery

tx == <<tx_next, tx_overflow, discard_timers>>
rx == <<rx_next, rx_deliv, rx_reord, rx_overflow, reorder_queue, running, last, out>>
rlc == <<rlc_queue, air>>
vars == <<cfg, tx, rx, rlc>>

window_size == SnMod \div 2
SN(count) == count % SnMod
HFN(count) == count \div SnMod
COUNT(hfn, sn) == (hfn * SnMod + sn) % CountMod
Empty == [c \in {} |-> 0]

Init ==
  /\ cfg \in Configs
  /\ tx_next = 0 /\ tx_overflow = FALSE /\ discard_timers = {}
  /\ rx_next = 0 /\ rx_deliv = 0 /\ rx_reord = 0 /\ rx_overflow = FALSE
  /\ reorder_queue = Empty /\ running = FALSE
  /\ rlc_queue = <<>> /\ air = {} /\ last = -1 /\ out = <<>>
-----------------------------------------------------------------------------
(* Sender.                                                                 *)

(* A write_sdu that does not stop when TX_NEXT has overflowed.             *)
WriteSduIgnoringOverflow ==
  /\ Len(rlc_queue) < QueueCap /\ tx_next + 1 <= CountMod
  /\ tx_overflow' = (tx_next + 1 = CountMod)
  /\ discard_timers' = IF cfg.discard THEN discard_timers \union {tx_next} ELSE discard_timers
  /\ rlc_queue' = Append(rlc_queue, tx_next)
  /\ tx_next' = (tx_next + 1) % CountMod
  /\ out' = <<>>
  /\ UNCHANGED <<cfg, rx_next, rx_deliv, rx_reord, rx_overflow, reorder_queue, running, last, air>>

(* TX_NEXT does not wrap with the last COUNT.                              *)
WriteSduNoWrap ==
  /\ Len(rlc_queue) < QueueCap /\ ~tx_overflow
  /\ tx_overflow' = (tx_next + 1 = CountMod)
  /\ rlc_queue' = Append(rlc_queue, tx_next)
  /\ tx_next' = tx_next + 1 /\ out' = <<>>
  /\ UNCHANGED <<cfg, discard_timers, rx_next, rx_deliv, rx_reord, rx_overflow, reorder_queue,
                 running, last, air>>

(* An SDU is dropped when RLC's queue is full or the COUNTs are used up;   *)
(* the one with the last COUNT is still sent.                              *)
write_sdu ==
  /\ Len(rlc_queue) < QueueCap /\ ~tx_overflow
  /\ tx_overflow' = (tx_next + 1 = CountMod)
  /\ discard_timers' = IF cfg.discard THEN discard_timers \union {tx_next} ELSE discard_timers
  /\ rlc_queue' = Append(rlc_queue, tx_next)
  /\ tx_next' = (tx_next + 1) % CountMod
  /\ out' = <<>>
  /\ UNCHANGED <<cfg, rx_next, rx_deliv, rx_reord, rx_overflow, reorder_queue, running, last, air>>

(* RLC acknowledges an SDU: its discard timer is erased.                   *)
notify_delivery(c) ==
  /\ c \in discard_timers /\ c \notin Range(rlc_queue) \union air
  /\ discard_timers' = discard_timers \ {c}
  /\ out' = <<>>
  /\ UNCHANGED <<cfg, tx_next, tx_overflow, rx_next, rx_deliv, rx_reord, rx_overflow,
                 reorder_queue, running, last, rlc>>

(* The discard timer expires: RLC drops the SDU unless it is in transit.   *)
discard_callback(c) ==
  /\ c \in discard_timers
  /\ IF c \in Range(rlc_queue)
     THEN \E i \in DOMAIN rlc_queue : rlc_queue[i] = c /\ rlc_queue' = RemoveAt(rlc_queue, i)
     ELSE UNCHANGED rlc_queue
  /\ discard_timers' = discard_timers \ {c}
  /\ out' = <<>>
  /\ UNCHANGED <<cfg, tx_next, tx_overflow, rx_next, rx_deliv, rx_reord, rx_overflow,
                 reorder_queue, running, last, air>>
-----------------------------------------------------------------------------
(* RLC and the air between the two entities (external).  It keeps what is  *)
(* in transit within half an SN space of RX_DELIV, as TS 38.323 asks.      *)
RlcSend ==
  /\ rlc_queue # <<>>
  /\ Cardinality(air \union (discard_timers \ Range(rlc_queue))) < AirCap
  /\ rx_overflow \/ Head(rlc_queue) < rx_deliv + window_size
  /\ rlc_queue' = Tail(rlc_queue) /\ air' = air \union {Head(rlc_queue)}
  /\ out' = <<>>
  /\ UNCHANGED <<cfg, tx, rx_next, rx_deliv, rx_reord, rx_overflow, reorder_queue, running, last>>

Received(c) == c < rx_deliv \/ c \in DOMAIN reorder_queue
RlcLose(c) ==
  /\ c \in air
  /\ cfg.mode = "UM" \/ Received(c)
  /\ air' = air \ {c} /\ out' = <<>>
  /\ UNCHANGED <<cfg, tx, rx_next, rx_deliv, rx_reord, rx_overflow, reorder_queue, running, last, rlc_queue>>
-----------------------------------------------------------------------------
(* Receiver.                                                               *)

(* The upper edge of the window one SN too far.                            *)
EstimateWindowOff(sn) ==
  LET hfn == CASE sn < SN(rx_deliv) - window_size -> HFN(rx_deliv) + 1
               [] sn > SN(rx_deliv) + window_size -> HFN(rx_deliv) - 1
               [] OTHER -> HFN(rx_deliv)
  IN  COUNT(hfn, sn)

(* RCVD_COUNT.                                                             *)
rcvd_count(sn) ==
  LET hfn == CASE sn < SN(rx_deliv) - window_size  -> HFN(rx_deliv) + 1
               [] sn >= SN(rx_deliv) + window_size -> HFN(rx_deliv) - 1
               [] OTHER -> HFN(rx_deliv)
  IN  COUNT(hfn, sn)

(* deliver_all_consecutive_counts from COUNT `from`: how many it delivers. *)
ConsecutiveFrom(queue, from) ==
  CHOOSE n \in 0..Cardinality(DOMAIN queue) :
    /\ \A i \in 0..(n - 1) : from + i \in DOMAIN queue
    /\ from + n \notin DOMAIN queue

(* Pass `first`, the SDUs delivered already, and then the consecutive ones *)
(* from `from` to the upper layers; RX_DELIV and its overflow follow.      *)
deliver_all_consecutive_counts(queue, first, from) ==
  LET n == ConsecutiveFrom(queue, from)
  IN  /\ out' = first \o [i \in 1..n |-> queue[from + i - 1]]
      /\ reorder_queue' = [c \in {d \in DOMAIN queue : d >= from + n} |-> queue[c]]
      /\ rx_deliv' = (from + n) % CountMod
      /\ rx_overflow' = (rx_overflow \/ from + n = CountMod)
      /\ last' = IF out' = <<>> THEN last ELSE out'[Len(out')]

(* write_pdu never restarts the timer that runs for an older gap.          *)
TimerKeptRunning ==
  LET start == ~running /\ cfg.t_reordering # "infinity" /\ rx_deliv' < rx_next'
  IN  /\ running' = (running \/ start)
      /\ rx_reord' = IF start THEN rx_next' ELSE rx_reord

(* The reordering timer is stopped once RX_DELIV has passed RX_REORD, and  *)
(* started for what is still missing.                                      *)
HandleReorderingTimer ==
  LET stopped == running /\ rx_deliv' >= rx_reord
      start   == (stopped \/ ~running) /\ cfg.t_reordering # "infinity" /\ rx_deliv' < rx_next'
  IN  /\ running' = (start \/ (running /\ ~stopped))
      /\ rx_reord' = IF start THEN rx_next' ELSE rx_reord

Dropped == /\ out' = <<>>
           /\ UNCHANGED <<rx_next, rx_deliv, rx_reord, rx_overflow, reorder_queue, running, last>>

(* write_pdu of a PDU that carries SDU c, of which a copy may stay behind. *)
write_pdu(c) ==
  LET count == rcvd_count(SN(c))
  IN  /\ c \in air /\ c + window_size >= rx_deliv
      /\ air' \in {air, air \ {c}}
      /\ UNCHANGED <<cfg, tx, rlc_queue>>
      /\ IF rx_overflow \/ count < rx_deliv \/ count \in DOMAIN reorder_queue
         THEN Dropped
         ELSE LET queue == [d \in DOMAIN reorder_queue \union {count} |->
                              IF d = count THEN c ELSE reorder_queue[d]]
              IN  /\ rx_next' = IF count >= rx_next THEN (count + 1) % CountMod ELSE rx_next
                  /\ IF count = rx_deliv
                     THEN deliver_all_consecutive_counts(queue, <<>>, rx_deliv)
                     ELSE /\ reorder_queue' = queue /\ out' = <<>>
                          /\ UNCHANGED <<rx_deliv, rx_overflow, last>>
                  /\ HandleReorderingTimer

(* The order of a std::map: ascending COUNT.                               *)
Ascending(S) ==
  CHOOSE s \in [1..Cardinality(S) -> S] : \A i, j \in DOMAIN s : i < j => s[i] < s[j]

(* The expiry looks at RX_DELIV instead of RX_REORD.                       *)
DeliverFromRxDeliv ==
  /\ running /\ cfg.t_reordering = "finite"
  /\ deliver_all_consecutive_counts(reorder_queue, <<>>, rx_deliv)
  /\ running' = (rx_deliv' < rx_next)
  /\ rx_reord' = IF running' THEN rx_next ELSE rx_reord
  /\ UNCHANGED <<cfg, tx, rlc, rx_next>>

(* The reordering timer expires: everything below RX_REORD is delivered    *)
(* with its gaps, then what follows it, and a gap beyond it starts the     *)
(* timer again.                                                            *)
reordering_callback ==
  LET before == Ascending({c \in DOMAIN reorder_queue : c < rx_reord})
      rest   == [c \in {d \in DOMAIN reorder_queue : d >= rx_reord} |-> reorder_queue[c]]
      again  == rx_deliv' < rx_next
  IN  /\ running /\ cfg.t_reordering = "finite"
      /\ deliver_all_consecutive_counts(rest, [i \in DOMAIN before |-> reorder_queue[before[i]]], rx_reord)
      /\ running' = again
      /\ rx_reord' = IF again THEN rx_next ELSE rx_reord
      /\ UNCHANGED <<cfg, tx, rlc, rx_next>>
-----------------------------------------------------------------------------
Next ==
  \/ write_sdu \/ RlcSend \/ reordering_callback
  \/ \E c \in discard_timers : notify_delivery(c) \/ discard_callback(c)
  \/ \E c \in air : RlcLose(c) \/ write_pdu(c)

(* The timers of the stack thread expire: step_all is called every tic.    *)
Spec == Init /\ [][Next]_vars /\ WF_vars(reordering_callback)
-----------------------------------------------------------------------------
Counts == 0..(CountMod - 1)
TypeOK ==
  /\ cfg \in Config
  /\ {tx_next, rx_next, rx_deliv, rx_reord} \subseteq Counts
  /\ {tx_overflow, rx_overflow, running} \subseteq BOOLEAN
  /\ DOMAIN reorder_queue \subseteq Counts
  /\ \A c \in DOMAIN reorder_queue : reorder_queue[c] \in Counts
  /\ discard_timers \union air \union Range(rlc_queue) \union Range(out) \subseteq Counts
  /\ last \in Counts \union {-1} /\ Len(rlc_queue) <= QueueCap

(* The bearer delivers in order, without duplicates, and deciphers each    *)
(* SDU with the COUNT it was sent with (an SDU is named by that COUNT), up *)
(* to and over the last COUNT; no COUNT is used for two SDUs.              *)
Order == INSTANCE InOrderDelivery WITH sent <- IF tx_overflow THEN CountMod ELSE tx_next
ImplementsOrder == Order!Spec

(* write_pdu estimates the COUNT of what it holds correctly whatever was   *)
(* lost, duplicated or reordered within the window.                        *)
CountRecovered == \A c \in DOMAIN reorder_queue : reorder_queue[c] = c

(* A receiver with a t-Reordering waits for a missing SDU only under the   *)
(* timer, and for no longer than the gap it was started for: RX_REORD lies *)
(* between RX_DELIV and RX_NEXT.  This ends with the last COUNT, which     *)
(* makes RX_NEXT 0.                                                        *)
LastCountReceived == rx_overflow \/ CountMod - 1 \in DOMAIN reorder_queue
WaitingIsTimed ==
  cfg.t_reordering # "infinity" /\ ~LastCountReceived =>
    /\ running <=> rx_deliv < rx_next
    /\ running => rx_deliv < rx_reord /\ rx_reord <= rx_next

(* Reception never stalls behind a gap: while something is held, more is   *)
(* delivered, when the gap fills or t-Reordering expires, as long as the   *)
(* last COUNT has not been received.                                       *)
HeldIsDelivered ==
  cfg.t_reordering = "finite" /\ DOMAIN reorder_queue # {} ~> out # <<>> \/ LastCountReceived
=============================================================================
