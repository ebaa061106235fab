------------------------------- MODULE MacNr -------------------------------
(***************************************************************************)
(* Access to the cell by the MAC of the NR UE                              *)
(* (srsue/src/stack/mac_nr/mac_nr.cc): random access and scheduling        *)
(* requests, between the stack thread and a PHY worker.                    *)
(*                                                                         *)
(* The stack thread runs tasks, TTIs and timer callbacks one at a time.    *)
(* The callback of an expired timer waits for the mutex of proc_ra, so the *)
(* PHY may get in between the expiry and ra_error.  tb_decoded tests the   *)
(* state of proc_ra without that mutex and then calls                      *)
(* received_contention_resolution, so the stack may get in between those.  *)
(* Of the stack only a RAR and ra_error take the mutex as well: a reset, a *)
(* start, set_config and the tasks of prach_sent and pdcch_to_crnti do     *)
(* not, and may get in between the steps of the PHY's completion.  A step  *)
(* of the stack is not split in its turn.                                  *)
(* The workers pass dl_ul_semaphore in the order of their slots: while one *)
(* is held up there, the others decode no later RAR or MSG 4.              *)
(***************************************************************************)
EXTENDS ProcRaNr, ProcSrNr, Sequences

CONSTANTS
  SrConfigs,  \* the cell groups that configure the scheduling request
  MaxStarts,  \* bound on the procedures and configurations RRC and BSR ask for
  QueueCap    \* bound on the tasks waiting for the stack thread (8192)

ASSUME MacAssumption ==
  /\ SrConfigs \subseteq SrCellGroup
  /\ MaxStarts \in Nat /\ QueueCap \in Nat \ {0}

VARIABLES
  srcfg,      \* the configuration of the scheduling request
  ra, sr,     \* proc_ra and proc_sr
  queue,      \* proc_ra.task_queue
  callback,   \* the expired timer whose callback waits for the mutex, or "none"
  resolving,  \* how far the PHY has got with received_contention_resolution
  contention_res_successful,
  passed,     \* history: whose MSG 4 the demux has passed to RLC
  starts      \* procedures and configurations asked for so far

phy  == <<resolving, contention_res_successful, passed>>
vars == <<srcfg, ra, sr, queue, callback, phy, starts>>

Init ==
  /\ srcfg = NoSrConfig
  /\ ra \in {Idle(INVALID), Idle(CRNTI)}
  /\ sr = NoSr
  /\ queue = <<>> /\ callback = "none" /\ resolving = "no"
  /\ contention_res_successful \in BOOLEAN  \* it has no initial value
  /\ passed = {} /\ starts = 0

-----------------------------------------------------------------------------
(* The stack thread.                                                       *)

StackFree == callback = "none"

\* The PHY is in received_contention_resolution with the mutex of proc_ra.
PhyLocks == resolving \in {"resolved", "completing", "promoted"}

SetConfig ==
  /\ StackFree
  /\ ra' = set_config(ra)
  /\ UNCHANGED <<srcfg, sr, queue, callback, phy, starts>>

start_ra_procedure ==
  /\ StackFree /\ starts < MaxStarts
  /\ ra' = start(ra, "RRC") /\ starts' = starts + 1
  /\ UNCHANGED <<srcfg, sr, queue, callback, phy>>

\* RRC applies a cell group.
update_cell_group_cfg(new) ==
  /\ StackFree /\ starts < MaxStarts
  /\ srcfg' = sr_set_config(srcfg, new) /\ starts' = starts + 1
  /\ UNCHANGED <<ra, sr, queue, callback, phy>>

\* A regular BSR is triggered.
TriggerSr ==
  /\ StackFree /\ starts < MaxStarts
  /\ sr' = sr_start(sr) /\ starts' = starts + 1
  /\ UNCHANGED <<srcfg, ra, queue, callback, phy>>

\* run_tti, as far as proc_sr.step changes anything.
run_tti ==
  /\ StackFree /\ GivesUp(sr, srcfg)
  /\ ra' = start(ra, "MAC") /\ sr' = sr_reset(sr)
  /\ UNCHANGED <<srcfg, queue, callback, phy, starts>>

RunTask ==
  /\ StackFree /\ queue # <<>>
  /\ Head(queue) = "rar" => ~PhyLocks
  /\ queue' = Tail(queue)
  /\ CASE Head(queue) = "prach_sent"     -> ra' = prach_sent(ra)
       [] Head(queue) = "rar"            -> \E rar \in {"own", "other", "unreadable"} :
                                              ra' = ra_response_reception(ra, rar)
       [] Head(queue) = "pdcch_to_crnti" -> ra' = ra_contention_resolution(ra, FALSE)
  /\ UNCHANGED <<srcfg, sr, callback, phy, starts>>

\* A timer of proc_ra runs out: it has stopped when its callback begins.
TimerExpires(t) ==
  /\ StackFree /\ t \in ra.timers
  /\ ra' = [ra EXCEPT !.timers = @ \ {t}] /\ callback' = t
  /\ UNCHANGED <<srcfg, sr, queue, phy, starts>>

\* The callback gets the mutex.
timer_expired ==
  /\ callback # "none" /\ ~PhyLocks
  /\ ra' = ra_error(ra) /\ callback' = "none"
  /\ UNCHANGED <<srcfg, sr, queue, phy, starts>>

\* reset of the whole MAC, by RRC
MacReset ==
  /\ StackFree
  /\ ra' = [reset(ra) EXCEPT !.outcome = IF ra.state = "IDLE" THEN @ ELSE "stopped"]
  /\ sr' = sr_reset(sr)
  /\ UNCHANGED <<srcfg, queue, callback, phy, starts>>

-----------------------------------------------------------------------------
(* The PHY.                                                                *)

Push(task) == Len(queue) < QueueCap /\ queue' = Append(queue, task)

PrachTransmitted ==
  /\ ra.prach
  /\ Push("prach_sent") /\ ra' = [ra EXCEPT !.prach = FALSE]
  /\ UNCHANGED <<srcfg, sr, callback, phy, starts>>

\* tb_decoded with the RA-RNTI
RarDecoded ==
  /\ resolving = "no"
  /\ ra.rar_rnti /\ ra.state = "WAITING_FOR_RESPONSE_RECEPTION"
  /\ Push("rar")
  /\ UNCHANGED <<srcfg, ra, sr, callback, phy, starts>>

\* tb_decoded with the temporary C-RNTI, which is searched only without a
\* C-RNTI.  The contention identity is this UE's or another's; a block that
\* fails its CRC has none and leaves contention_res_successful as it was.
Msg4Decoded(id) ==
  /\ resolving = "no"
  /\ ra.temp # INVALID /\ ra.crnti = INVALID
  /\ IF id = "corrupt" THEN UNCHANGED <<passed, contention_res_successful>>
     ELSE /\ passed' = passed \cup {id}
          /\ contention_res_successful' = (id = "own")
  /\ resolving' = IF ra.state = "WAITING_FOR_CONTENTION_RESOLUTION" THEN "called" ELSE "no"
  /\ UNCHANGED <<srcfg, ra, sr, queue, callback, starts>>

Resolving(from, to) ==
  /\ resolving = from /\ resolving' = to
  /\ UNCHANGED <<srcfg, sr, queue, callback, contention_res_successful, passed, starts>>

\* It gets the mutex, and gives it back at once if there is nothing to resolve.
received_contention_resolution ==
  IF Resolves(ra, contention_res_successful)
  THEN Resolving("called", "resolved") /\ ra' = resolved(ra)
  ELSE Resolving("called", "no") /\ UNCHANGED ra

\* The steps of ra_completion, each of which a reset by the stack may precede.
ra_completion ==
  \/ /\ Resolving("resolved", IF ra.state = "WAITING_FOR_COMPLETION" THEN "completing" ELSE "no")
     /\ UNCHANGED ra
  \/ Resolving("completing", "promoted") /\ ra' = set_crnti_to_temp(ra)
  \/ Resolving("promoted", "no") /\ ra' = completed(ra)

\* A grant for the C-RNTI, or the one of the RAR for the temporary C-RNTI.
new_grant_ul(rnti) ==
  /\ rnti # INVALID
  /\ IF ra.state = "WAITING_FOR_CONTENTION_RESOLUTION" /\ rnti = ra.crnti
     THEN Push("pdcch_to_crnti")
     ELSE UNCHANGED queue
  /\ sr' = sr_reset(sr)
  /\ UNCHANGED <<srcfg, ra, callback, phy, starts>>

SrOpportunity ==
  /\ srcfg.resource
  /\ \E overlap \in BOOLEAN : sr' = sr_opportunity(sr, srcfg, overlap)
  /\ UNCHANGED <<srcfg, ra, queue, callback, phy, starts>>

-----------------------------------------------------------------------------
Next ==
  \/ SetConfig \/ start_ra_procedure
  \/ \E new \in SrConfigs : update_cell_group_cfg(new)
  \/ TriggerSr \/ run_tti \/ RunTask
  \/ \E t \in Timers : TimerExpires(t)
  \/ timer_expired \/ MacReset
  \/ PrachTransmitted \/ RarDecoded
  \/ \E id \in {"own", "other", "corrupt"} : Msg4Decoded(id)
  \/ received_contention_resolution \/ ra_completion
  \/ \E rnti \in {ra.crnti, ra.temp} : new_grant_ul(rnti)
  \/ SrOpportunity

(* The stack thread runs every TTI, runs its tasks and gets the mutex, a   *)
(* PHY worker that has the mutex goes on, timers run out, and the occasions *)
(* of a PUCCH resource that overlap nothing recur.  That a preamble is     *)
(* sent, or that anything is received, is not assumed.                     *)
Fairness ==
  /\ WF_vars(run_tti) /\ WF_vars(RunTask) /\ WF_vars(timer_expired)
  /\ \A t \in Timers : WF_vars(TimerExpires(t))
  /\ WF_vars(ra_completion) /\ WF_vars(SrOpportunity)

Spec == Init /\ [][Next]_vars /\ Fairness

-----------------------------------------------------------------------------
(* Properties.                                                             *)

TypeOK ==
  /\ srcfg \in SrConfig
  /\ ra \in ProcRa
  /\ sr \in [pending : BOOLEAN, counter : Nat]
  /\ sr.counter > 0 => \E new \in SrConfigs : sr.counter <= new.trans_max
  /\ queue \in Seq({"prach_sent", "rar", "pdcch_to_crnti"}) /\ Len(queue) <= QueueCap
  /\ callback \in Timers \cup {"none"}
  /\ resolving \in {"no", "called", "resolved", "completing", "promoted"}
  /\ contention_res_successful \in BOOLEAN
  /\ passed \subseteq {"own", "other"} /\ starts \in 0..MaxStarts

\* No wait of proc_ra is without an end and none has two: as long as the
\* procedure has not given up, the timer of its state runs, or its callback is
\* about to, and no other timer does; a procedure that waits for completion is
\* in the hands of the PHY.  Once it is idle or has given up, no timer runs, and
\* of an idle one nothing is left.  A late prach_sent, RAR or contention
\* resolution of an earlier attempt, a completion by the PHY, and a reset or a
\* new procedure in the middle of that completion must all keep this
\* (proc_ra_nr.cc:172-395).
Supervised ==
  /\ ra.state = "IDLE" => ra.timers = {} /\ ra.temp = INVALID /\ ra.started_by = "NULLTYPE"
  /\ ra.state = "WAITING_FOR_COMPLETION" => PhyLocks /\ ra.timers = {}
  /\ ra.state \notin {"IDLE", "WAITING_FOR_COMPLETION"} /\ ra.outcome = "running" =>
       \/ callback = "none" /\ ra.timers = {TimerOf(ra.state)}
       \/ callback = TimerOf(ra.state) /\ ra.timers = {}
  /\ ra.state # "IDLE" /\ ra.outcome # "running" => callback = "none" /\ ra.timers = {}

\* Random access comes to an end: it completes, is reported to RRC, is stopped,
\* or has met a RAR it cannot read, even if the PHY never sends a preamble and
\* nothing is ever received (proc_ra_nr.cc:133-151, 292-325).
Ends == ra.outcome = "running" ~> ra.outcome # "running"

\* The configuration of a request under way was refused, which keeps the
\* sr-TransMax and the PUCCH resource of the one before: sr_opportunity does
\* not count and step() waits for the count.
Stranded == ~srcfg.enabled /\ srcfg.resource /\ sr.counter < srcfg.trans_max

\* A pending scheduling request is answered by a grant, reset, or given up for
\* random access after sr-TransMax attempts or for want of a resource, whatever
\* is configured meanwhile, unless a refused configuration strands it
\* (proc_sr_nr.cc:55-170, rrc_nr.cc:1103-1126).
SrServed == []<>(~sr.pending \/ Stranded)

\* The UE takes the temporary C-RNTI for its own only when the PDUs received
\* with it, which the demux passes to the upper layers, carry its contention
\* identity (demux_nr.cc:58-60).
WinnerOnly == ra.crnti = TCRNTI => passed \subseteq {"own"}
=============================================================================
