------------------------------ MODULE ProcRaNr ------------------------------
(***************************************************************************)
(* The random access procedure of the NR UE                                *)
(* (srsue/src/stack/mac_nr/proc_ra_nr.cc), with the RNTIs of the MAC it    *)
(* sets, as operators on a record.  The backoff timer is left out: a subPDU *)
(* of a RAR has a RAPID or a backoff indicator, never both, so             *)
(* preamble_backoff stays 0 and ra_error sends the next preamble at once.  *)
(***************************************************************************)
EXTENDS Integers

CONSTANT preambleTransMax

ASSUME RaAssumption == preambleTransMax \in Nat \ {0}

INVALID == 0  \* SRSRAN_INVALID_RNTI
TCRNTI  == 1  \* the temporary C-RNTI of a RAR
CRNTI   == 2  \* a C-RNTI from before the procedure

States == {"IDLE", "WAITING_FOR_PRACH_SENT", "WAITING_FOR_RESPONSE_RECEPTION",
           "WAITING_FOR_CONTENTION_RESOLUTION", "WAITING_FOR_COMPLETION"}

\* The timer that ends the wait of a state.
TimerOf(state) ==
  CASE state = "WAITING_FOR_PRACH_SENT"            -> "prach_send_timer"
    [] state = "WAITING_FOR_RESPONSE_RECEPTION"    -> "rar_timeout_timer"
    [] state = "WAITING_FOR_CONTENTION_RESOLUTION" -> "contention_resolution_timer"
    [] OTHER                                       -> "none"

Timers == {TimerOf(state) : state \in States} \ {"none"}

(* counter is preamble_transmission_counter; rar_rnti says whether it is   *)
(* valid; prach whether the PHY holds a preamble to send.  outcome and     *)
(* sent are history: what became of the procedure, and how many preambles  *)
(* it asked for.                                                           *)
Idle(crnti) ==
  [state |-> "IDLE", started_by |-> "NULLTYPE", configured |-> FALSE, counter |-> 0,
   rar_rnti |-> FALSE, timers |-> {}, prach |-> FALSE, temp |-> INVALID, crnti |-> crnti,
   outcome |-> "none", sent |-> 0]

ProcRa == [state : States, started_by : {"NULLTYPE", "RRC", "MAC"}, configured : BOOLEAN,
           counter : 0..(preambleTransMax + 3), rar_rnti : BOOLEAN, timers : SUBSET Timers,
           prach : BOOLEAN, temp : {INVALID, TCRNTI}, crnti : {INVALID, TCRNTI, CRNTI},
           outcome : {"none", "running", "completed", "problem", "unreadable", "stopped"},
           sent : 0..preambleTransMax]

set_config(ra) == IF ra.state = "IDLE" THEN [ra EXCEPT !.configured = TRUE] ELSE ra

reset(ra) == [ra EXCEPT !.state = "IDLE", !.started_by = "NULLTYPE", !.temp = INVALID, !.timers = {}]

ra_preamble_transmission(ra) ==
  [ra EXCEPT !.prach = TRUE, !.timers = @ \cup {"prach_send_timer"},
             !.state = "WAITING_FOR_PRACH_SENT", !.outcome = "running", !.sent = @ + 1]

\* Mutant: the transmission counter goes on from the last procedure.
InitializationKeepsCounter(ra) == ra_preamble_transmission([ra EXCEPT !.counter = @ + 1, !.sent = 0])

ra_procedure_initialization(ra) == ra_preamble_transmission([ra EXCEPT !.counter = 1, !.sent = 0])

\* start_by_rrc and start_by_mac
start(ra, by) ==
  IF ra.state = "IDLE" /\ ra.configured
  THEN ra_procedure_initialization([ra EXCEPT !.started_by = by])
  ELSE ra

\* The task prach_sent pushes.
prach_sent(ra) ==
  IF ra.state = "WAITING_FOR_PRACH_SENT"
  THEN [ra EXCEPT !.timers = (@ \ {"prach_send_timer"}) \cup {"rar_timeout_timer"},
                  !.rar_rnti = TRUE, !.state = "WAITING_FOR_RESPONSE_RECEPTION",
                  !.outcome = "running"]
  ELSE ra

\* Mutant: the RAR timer keeps running.
ResponseKeepsTimer(ra, rar) ==
  IF ra.state = "WAITING_FOR_RESPONSE_RECEPTION" /\ rar # "unreadable"
  THEN [ra EXCEPT !.timers = @ \cup {"contention_resolution_timer"}, !.outcome = "running",
                  !.state = "WAITING_FOR_CONTENTION_RESOLUTION",
                  !.temp = IF rar = "own" THEN TCRNTI ELSE @]
  ELSE ra

\* A RAR is unreadable, names this UE's preamble ("own") or only other ones.
ra_response_reception(ra, rar) ==
  IF ra.state # "WAITING_FOR_RESPONSE_RECEPTION" THEN ra
  ELSE LET stopped == [ra EXCEPT !.timers = @ \ {"rar_timeout_timer"}]
           granted == [stopped EXCEPT !.temp = TCRNTI, !.rar_rnti = FALSE]
       IN  IF rar = "unreadable" THEN [stopped EXCEPT !.outcome = "unreadable"]
           ELSE [IF rar = "own" THEN granted ELSE stopped EXCEPT
                   !.timers = @ \cup {"contention_resolution_timer"},
                   !.state = "WAITING_FOR_CONTENTION_RESOLUTION", !.outcome = "running"]

\* The parts of ra_contention_resolution and of ra_completion, which it calls:
\* the test, the wait that is over, the C-RNTI, and rrc_ra_completed with reset.
Resolves(ra, matches) ==
  ra.state = "WAITING_FOR_CONTENTION_RESOLUTION" /\ (ra.started_by # "NULLTYPE" \/ matches)

resolved(ra) ==
  [ra EXCEPT !.timers = @ \ {"contention_resolution_timer"}, !.state = "WAITING_FOR_COMPLETION"]

set_crnti_to_temp(ra) ==
  IF ra.crnti = INVALID THEN [ra EXCEPT !.crnti = ra.temp, !.temp = INVALID] ELSE ra

completed(ra) == [reset(ra) EXCEPT !.outcome = "completed"]

ra_contention_resolution(ra, matches) ==
  IF Resolves(ra, matches) THEN completed(set_crnti_to_temp(resolved(ra))) ELSE ra

\* Mutant: a failed attempt is not counted.
ErrorUncounted(ra) ==
  LET failed == [ra EXCEPT !.timers = @ \ {"contention_resolution_timer"}, !.temp = INVALID]
  IN  IF failed.counter >= preambleTransMax + 1
      THEN [failed EXCEPT !.outcome = "problem"]
      ELSE ra_preamble_transmission([failed EXCEPT !.sent = 0])

\* What a timer that expired calls.
ra_error(ra) ==
  LET failed  == [ra EXCEPT !.counter = @ + 1, !.temp = INVALID,
                            !.timers = @ \ {"contention_resolution_timer"}]
      problem == [failed EXCEPT !.outcome = "problem"]
  IN  IF failed.counter >= preambleTransMax + 1
      THEN IF ra.started_by = "MAC" THEN reset(problem) ELSE problem
      ELSE ra_preamble_transmission(failed)
=============================================================================
