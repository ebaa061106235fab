---------------------------- MODULE MacNr_proofs ----------------------------
(***************************************************************************)
(* Supervised holds of MacNr, and its counters keep their bounds, for      *)
(* every preambleTransMax, every scheduling request configuration and any  *)
(* number of procedures and waiting tasks.  Each operation of proc_ra keeps *)
(* both, whatever record it is applied to; each action of MacNr applies    *)
(* one operation.                                                          *)
(***************************************************************************)
EXTENDS MacNr, TLAPS

\* ProcRa without the bounds on its counters.
RaType ==
  [state : States, started_by : {"NULLTYPE", "RRC", "MAC"}, configured : BOOLEAN,
   counter : Nat, rar_rnti : BOOLEAN, timers : SUBSET Timers, prach : BOOLEAN,
   temp : {INVALID, TCRNTI}, crnti : {INVALID, TCRNTI, CRNTI},
   outcome : {"none", "running", "completed", "problem", "unreadable", "stopped"}, sent : Nat]

Tasks == {"prach_sent", "rar", "pdcch_to_crnti"}

Stages == {"no", "called", "resolved", "completing", "promoted"}

\* Supervised, of any record r and callback cb; lk says that the PHY has the mutex.
Watched(r, cb, lk) ==
  /\ r.state = "IDLE" => r.timers = {} /\ r.temp = INVALID /\ r.started_by = "NULLTYPE"
  /\ r.state = "WAITING_FOR_COMPLETION" => lk /\ r.timers = {}
  /\ r.state \notin {"IDLE", "WAITING_FOR_COMPLETION"} /\ r.outcome = "running" =>
       \/ cb = "none" /\ r.timers = {TimerOf(r.state)}
       \/ cb = TimerOf(r.state) /\ r.timers = {}
  /\ r.state # "IDLE" /\ r.outcome # "running" => cb = "none" /\ r.timers = {}

\* The inductive invariant.
IInv ==
  /\ ra \in RaType
  /\ queue \in Seq(Tasks)
  /\ callback \in Timers \cup {"none"}
  /\ resolving \in Stages
  /\ Watched(ra, callback, PhyLocks)

-----------------------------------------------------------------------------
\* The timers are told apart, and "none" is none of them.
LEMMA TimersEnumerated ==
  /\ TimerOf("WAITING_FOR_PRACH_SENT") = "prach_send_timer"
  /\ TimerOf("WAITING_FOR_RESPONSE_RECEPTION") = "rar_timeout_timer"
  /\ TimerOf("WAITING_FOR_CONTENTION_RESOLUTION") = "contention_resolution_timer"
  /\ Timers = {"prach_send_timer", "rar_timeout_timer", "contention_resolution_timer"}
<1>1. /\ TimerOf("IDLE") = "none" /\ TimerOf("WAITING_FOR_COMPLETION") = "none"
      /\ TimerOf("WAITING_FOR_PRACH_SENT") = "prach_send_timer"
      /\ TimerOf("WAITING_FOR_RESPONSE_RECEPTION") = "rar_timeout_timer"
      /\ TimerOf("WAITING_FOR_CONTENTION_RESOLUTION") = "contention_resolution_timer"
  BY DEF TimerOf
<1> QED
  BY <1>1 DEF Timers, States

\* A step to another state, under other timers, keeps the types.
LEMMA MovedOn ==
  ASSUME NEW r \in RaType, NEW ts \in SUBSET Timers, NEW st \in States
  PROVE  [r EXCEPT !.timers = ts, !.state = st, !.outcome = "running"] \in RaType
  BY Zenon DEF RaType

\* reset() leaves an idle procedure whatever it is applied to.
LEMMA ResetWatched ==
  ASSUME NEW r \in RaType, NEW lk \in BOOLEAN, NEW cb
  PROVE  reset(r) \in RaType /\ Watched(reset(r), cb, lk)
<1> DEFINE p == reset(r)
<1>1. p \in RaType
  BY Zenon DEF reset, RaType, States
<1>2. p.state = "IDLE" /\ p.timers = {} /\ p.temp = INVALID /\ p.started_by = "NULLTYPE"
  BY DEF reset, RaType
<1>3. Watched(p, cb, lk)
  BY <1>2 DEF Watched
<1> QED
  BY <1>1, <1>3

\* A preamble is asked for only when no timer runs, and starts one.
LEMMA PreambleWatched ==
  ASSUME NEW r \in RaType, NEW lk \in BOOLEAN, r.timers = {}
  PROVE  ra_preamble_transmission(r) \in RaType /\ Watched(ra_preamble_transmission(r), "none", lk)
<1> DEFINE p == ra_preamble_transmission(r)
<1>1. p \in RaType
  <2>1. r.timers \cup {"prach_send_timer"} \in SUBSET Timers /\ r.sent + 1 \in Nat
    BY TimersEnumerated DEF RaType
  <2> QED
    BY <2>1, Zenon DEF ra_preamble_transmission, RaType, States
<1>2. /\ p.state = "WAITING_FOR_PRACH_SENT" /\ p.outcome = "running"
      /\ p.timers = {"prach_send_timer"}
  BY DEF ra_preamble_transmission, RaType
<1>3. Watched(p, "none", lk)
  BY <1>2, TimersEnumerated DEF Watched
<1> QED
  BY <1>1, <1>3

\* start_by_rrc and start_by_mac keep the invariant of an unwatched procedure.
LEMMA StartWatched ==
  ASSUME NEW r \in RaType, NEW lk \in BOOLEAN, Watched(r, "none", lk), NEW by \in {"RRC", "MAC"}
  PROVE  start(r, by) \in RaType /\ Watched(start(r, by), "none", lk)
<1>1. CASE r.state = "IDLE" /\ r.configured
  <2> DEFINE p == [[r EXCEPT !.started_by = by] EXCEPT !.counter = 1, !.sent = 0]
  <2>1. p \in RaType
    BY Zenon DEF RaType
  <2>2. p.timers = {}
    BY <1>1 DEF RaType, Watched
  <2>3. start(r, by) = ra_preamble_transmission(p)
    BY <1>1 DEF start, ra_procedure_initialization
  <2> QED
    BY <2>1, <2>2, <2>3, PreambleWatched, Zenon
<1>2. CASE ~(r.state = "IDLE" /\ r.configured)
  BY <1>2 DEF start
<1> QED
  BY <1>1, <1>2

\* A preamble that was sent moves the wait to the response.
LEMMA PrachSentWatched ==
  ASSUME NEW r \in RaType, NEW lk \in BOOLEAN, Watched(r, "none", lk)
  PROVE  prach_sent(r) \in RaType /\ Watched(prach_sent(r), "none", lk)
<1>1. CASE r.state = "WAITING_FOR_PRACH_SENT"
  <2> DEFINE p == prach_sent(r)
  <2>1. r.timers \subseteq {"prach_send_timer"}
    BY <1>1, TimersEnumerated DEF Watched
  <2>2. (r.timers \ {"prach_send_timer"}) \cup {"rar_timeout_timer"} = {"rar_timeout_timer"}
    BY <2>1
  <2>3. p = [r EXCEPT !.timers = {"rar_timeout_timer"}, !.rar_rnti = TRUE,
                      !.state = "WAITING_FOR_RESPONSE_RECEPTION", !.outcome = "running"]
    BY <1>1, <2>2, Zenon DEF prach_sent, RaType
  <2>4. {"rar_timeout_timer"} \in SUBSET Timers
    BY TimersEnumerated
  <2>5. p \in RaType
    BY <2>3, <2>4, Zenon DEF RaType, States
  <2>6. /\ p.state = "WAITING_FOR_RESPONSE_RECEPTION" /\ p.outcome = "running"
        /\ p.timers = {"rar_timeout_timer"}
    BY <2>3 DEF RaType
  <2>7. Watched(p, "none", lk)
    BY <2>6, TimersEnumerated DEF Watched
  <2> QED
    BY <2>5, <2>7
<1>2. CASE r.state # "WAITING_FOR_PRACH_SENT"
  BY <1>2 DEF prach_sent
<1> QED
  BY <1>1, <1>2

\* A RAR ends the wait for it: it moves on to contention resolution, or leaves
\* the procedure without a timer when it cannot be read.
LEMMA ResponseWatched ==
  ASSUME NEW r \in RaType, NEW lk \in BOOLEAN, Watched(r, "none", lk), NEW rar \in {"own", "other", "unreadable"}
  PROVE  /\ ra_response_reception(r, rar) \in RaType
         /\ Watched(ra_response_reception(r, rar), "none", lk)
<1>1. CASE r.state = "WAITING_FOR_RESPONSE_RECEPTION"
  <2> DEFINE p == ra_response_reception(r, rar)
             s == [r EXCEPT !.timers = {}]
             g == IF rar = "own" THEN [s EXCEPT !.temp = TCRNTI, !.rar_rnti = FALSE] ELSE s
  <2>1. r.timers \ {"rar_timeout_timer"} = {}
    BY <1>1, TimersEnumerated DEF Watched
  <2>2. s = [r EXCEPT !.timers = @ \ {"rar_timeout_timer"}] /\ s \in RaType
    BY <2>1 DEF RaType
  <2>3. CASE rar = "unreadable"
    <3>1. p = [s EXCEPT !.outcome = "unreadable"]
      BY <1>1, <2>2, <2>3, Zenon DEF ra_response_reception
    <3>2. p \in RaType
      BY <2>2, <3>1, Zenon DEF RaType
    <3>3. p.state = "WAITING_FOR_RESPONSE_RECEPTION" /\ p.outcome = "unreadable" /\ p.timers = {}
      BY <1>1, <3>1 DEF RaType
    <3> QED
      BY <3>2, <3>3 DEF Watched
  <2>4. CASE rar # "unreadable"
    <3>1. g \in RaType /\ g.timers = {}
      <4>1. s.timers = {}
        BY DEF RaType
      <4> HIDE DEF s
      <4>2. CASE rar = "own"
        <5>1. g = [s EXCEPT !.temp = TCRNTI, !.rar_rnti = FALSE]
          BY <4>2
        <5> QED
          BY <2>2, <4>1, <5>1, Zenon DEF RaType
      <4>3. CASE rar # "own"
        BY <2>2, <4>1, <4>3
      <4> QED
        BY <4>2, <4>3
    <3>2. p = [g EXCEPT !.timers = @ \cup {"contention_resolution_timer"},
                        !.state = "WAITING_FOR_CONTENTION_RESOLUTION", !.outcome = "running"]
      BY <1>1, <2>2, <2>4, Zenon DEF ra_response_reception
    <3>3. {"contention_resolution_timer"} \in SUBSET Timers
      BY TimersEnumerated
    <3>4. p = [g EXCEPT !.timers = {"contention_resolution_timer"},
                        !.state = "WAITING_FOR_CONTENTION_RESOLUTION", !.outcome = "running"]
      BY <3>1, <3>2
    <3>5. p \in RaType
      <4>1. "WAITING_FOR_CONTENTION_RESOLUTION" \in States
        BY DEF States
      <4> HIDE DEF g, p
      <4> QED
        BY <3>1, <3>3, <3>4, <4>1, MovedOn, Zenon
    <3>6. /\ p.state = "WAITING_FOR_CONTENTION_RESOLUTION" /\ p.outcome = "running"
          /\ p.timers = {"contention_resolution_timer"}
      BY <3>1, <3>4 DEF RaType
    <3>7. Watched(p, "none", lk)
      BY <3>6, TimersEnumerated DEF Watched
    <3> QED
      BY <3>5, <3>7
  <2> QED
    BY <2>3, <2>4
<1>2. CASE r.state # "WAITING_FOR_RESPONSE_RECEPTION"
  BY <1>2 DEF ra_response_reception
<1> QED
  BY <1>1, <1>2

\* Contention resolution ends the wait for it, also when the callback cb of its
\* timer is already waiting.
LEMMA ResolvedWatched ==
  ASSUME NEW r \in RaType, NEW lk \in BOOLEAN, NEW cb, Watched(r, cb, lk),
         r.state = "WAITING_FOR_CONTENTION_RESOLUTION"
  PROVE  resolved(r) \in RaType /\ Watched(resolved(r), cb, TRUE)
<1> DEFINE p == resolved(r)
<1>1. r.timers \ {"contention_resolution_timer"} = {} /\ {} \in SUBSET Timers
  BY TimersEnumerated DEF Watched
<1>2. p = [r EXCEPT !.timers = {}, !.state = "WAITING_FOR_COMPLETION"]
  BY <1>1, Zenon DEF resolved, RaType
<1>3. p \in RaType
  BY <1>1, <1>2, Zenon DEF RaType, States
<1>4. p.state = "WAITING_FOR_COMPLETION" /\ p.timers = {} /\ p.outcome = r.outcome
  BY <1>2 DEF RaType
<1>5. r.outcome # "running" => cb = "none"
  BY DEF Watched
<1> QED
  BY <1>3, <1>4, <1>5 DEF Watched

\* The C-RNTI changes no wait, and an idle procedure has no temporary one.
LEMMA PromotedWatched ==
  ASSUME NEW r \in RaType, NEW lk \in BOOLEAN, NEW cb, Watched(r, cb, lk)
  PROVE  set_crnti_to_temp(r) \in RaType /\ Watched(set_crnti_to_temp(r), cb, lk)
<1> DEFINE p == [r EXCEPT !.crnti = r.temp, !.temp = INVALID]
<1>1. p \in RaType
  BY Zenon DEF RaType
<1>2. p.state = r.state /\ p.timers = r.timers /\ p.outcome = r.outcome
      /\ p.started_by = r.started_by /\ p.temp = INVALID
  BY DEF RaType
<1> HIDE DEF p
<1>3. Watched(p, cb, lk)
  BY <1>2 DEF Watched
<1> QED
  BY <1>1, <1>3 DEF set_crnti_to_temp, p

\* Completion leaves an idle procedure whatever it is applied to.
LEMMA CompletedWatched ==
  ASSUME NEW r \in RaType, NEW lk \in BOOLEAN, NEW cb
  PROVE  completed(r) \in RaType /\ Watched(completed(r), cb, lk)
<1> DEFINE p == completed(r)
<1>1. reset(r) \in RaType
  BY ResetWatched
<1>2. p \in RaType /\ p.state = "IDLE" /\ p.timers = {} /\ p.temp = INVALID
      /\ p.started_by = "NULLTYPE"
  BY <1>1, Zenon DEF completed, reset, RaType
<1> QED
  BY <1>2 DEF Watched

\* The stack resolves contention in one step.
LEMMA ResolutionWatched ==
  ASSUME NEW r \in RaType, NEW lk \in BOOLEAN, NEW cb, Watched(r, cb, lk), NEW matches \in BOOLEAN
  PROVE  /\ ra_contention_resolution(r, matches) \in RaType
         /\ Watched(ra_contention_resolution(r, matches), cb, lk)
<1>1. CASE Resolves(r, matches)
  <2>1. resolved(r) \in RaType /\ Watched(resolved(r), cb, TRUE)
    BY <1>1, ResolvedWatched DEF Resolves
  <2>2. set_crnti_to_temp(resolved(r)) \in RaType
    BY <2>1, PromotedWatched
  <2> QED
    BY <1>1, <2>2, CompletedWatched DEF ra_contention_resolution
<1>2. CASE ~Resolves(r, matches)
  BY <1>2 DEF ra_contention_resolution
<1> QED
  BY <1>1, <1>2

\* ra_error, called from a callback: no timer runs then.
LEMMA ErrorWatched ==
  ASSUME NEW r \in RaType, NEW lk \in BOOLEAN, NEW cb, Watched(r, cb, lk), r.timers = {}
  PROVE  ra_error(r) \in RaType /\ Watched(ra_error(r), "none", lk)
<1> DEFINE f == [r EXCEPT !.counter = @ + 1, !.temp = INVALID,
                          !.timers = @ \ {"contention_resolution_timer"}]
           p == [f EXCEPT !.outcome = "problem"]
<1>1. f \in RaType /\ f.timers = {}
  <2>1. /\ r.timers \ {"contention_resolution_timer"} = {} /\ {} \in SUBSET Timers
        /\ r.counter + 1 \in Nat
    BY DEF RaType
  <2> QED
    BY <2>1, Zenon DEF RaType
<1>2. p \in RaType /\ p.timers = {} /\ p.outcome = "problem" /\ p.state = r.state
      /\ p.temp = INVALID /\ p.started_by = r.started_by
  BY <1>1, Zenon DEF RaType
<1>3. CASE f.counter >= preambleTransMax + 1 /\ r.started_by = "MAC"
  BY <1>2, <1>3, ResetWatched DEF ra_error
<1>4. CASE f.counter >= preambleTransMax + 1 /\ r.started_by # "MAC"
  <2>1. ra_error(r) = p
    BY <1>4 DEF ra_error
  <2>2. Watched(p, "none", lk)
    BY <1>2 DEF Watched
  <2> QED
    BY <1>2, <2>1, <2>2
<1>5. CASE ~(f.counter >= preambleTransMax + 1)
  BY <1>1, <1>5, PreambleWatched, Zenon DEF ra_error
<1> QED
  BY <1>3, <1>4, <1>5

-----------------------------------------------------------------------------
\* Initially nothing runs.
LEMMA InitIInv == Init => IInv
<1> SUFFICES ASSUME Init PROVE IInv
  OBVIOUS
<1>1. PICK c \in {INVALID, CRNTI} : ra = Idle(c)
  BY DEF Init
<1>2. ra \in RaType
  <2>1. {} \in SUBSET Timers /\ 0 \in Nat
    OBVIOUS
  <2> QED
    BY <1>1, <2>1 DEF Idle, RaType, States
<1>3. ra.state = "IDLE" /\ ra.timers = {} /\ ra.temp = INVALID /\ ra.started_by = "NULLTYPE"
  BY <1>1 DEF Idle
<1> QED
  BY <1>2, <1>3 DEF Init, IInv, Watched, Stages

\* The stack thread keeps the invariant, one operation of proc_ra at a time.
LEMMA StackIInv ==
  ASSUME IInv,
         \/ SetConfig \/ start_ra_procedure \/ TriggerSr \/ run_tti \/ RunTask \/ MacReset
         \/ \E new \in SrConfigs : update_cell_group_cfg(new)
  PROVE  IInv'
<1> USE DEF StackFree
<1>0. PhyLocks \in BOOLEAN /\ PhyLocks' \in BOOLEAN /\ (resolving' = resolving => PhyLocks' = PhyLocks)
  BY DEF PhyLocks
<1>1. CASE SetConfig
  <2>1. set_config(ra) \in RaType /\ Watched(set_config(ra), callback, PhyLocks)
    <3>1. CASE ra.state = "IDLE"
      <4> DEFINE p == set_config(ra)
      <4>1. p \in RaType /\ p.state = "IDLE" /\ p.timers = {} /\ p.temp = INVALID
            /\ p.started_by = "NULLTYPE"
        BY <3>1, Zenon DEF set_config, RaType, IInv, Watched
      <4> QED
        BY <4>1 DEF Watched
    <3> QED
      BY <3>1 DEF set_config, IInv
  <2> QED
    BY <1>0, <1>1, <2>1, Zenon DEF SetConfig, IInv, phy
<1>2. CASE start_ra_procedure
  BY <1>0, <1>2, StartWatched, Zenon DEF start_ra_procedure, IInv, phy
<1>3. CASE TriggerSr \/ \E new \in SrConfigs : update_cell_group_cfg(new)
  BY <1>0, <1>3, Zenon DEF TriggerSr, update_cell_group_cfg, IInv, phy
<1>4. CASE run_tti
  BY <1>0, <1>4, StartWatched, Zenon DEF run_tti, IInv, phy
<1>5. CASE RunTask
  <2>1. queue' \in Seq(Tasks) /\ Head(queue) \in Tasks
    BY <1>5 DEF RunTask, IInv
  <2>2. ra' \in RaType /\ Watched(ra', "none", PhyLocks)
    <3>1. CASE Head(queue) = "prach_sent"
      BY <1>0, <1>5, <3>1, PrachSentWatched, Zenon DEF RunTask, IInv
    <3>2. CASE Head(queue) = "rar"
      <4>1. PICK rar \in {"own", "other", "unreadable"} : ra' = ra_response_reception(ra, rar)
        BY <1>5, <3>2, Zenon DEF RunTask
      <4> QED
        BY <1>0, <1>5, <4>1, ResponseWatched, Zenon DEF RunTask, IInv
    <3>3. CASE Head(queue) = "pdcch_to_crnti"
      BY <1>0, <1>5, <3>3, ResolutionWatched, Zenon DEF RunTask, IInv
    <3> QED
      BY <2>1, <3>1, <3>2, <3>3 DEF Tasks
  <2> QED
    BY <1>0, <1>5, <2>1, <2>2, Zenon DEF RunTask, IInv, phy
<1>6. CASE MacReset
  <2> DEFINE p == [reset(ra) EXCEPT !.outcome = IF ra.state = "IDLE" THEN @ ELSE "stopped"]
  <2>1. reset(ra) \in RaType
    BY <1>0, ResetWatched DEF IInv
  <2>2. p \in RaType /\ p.state = "IDLE" /\ p.timers = {} /\ p.temp = INVALID
        /\ p.started_by = "NULLTYPE"
    <3>1. p \in RaType
      BY <2>1, Zenon DEF RaType
    <3> QED
      BY <2>1, <3>1, Zenon DEF reset, RaType, IInv
  <2>3. Watched(p, callback, PhyLocks)
    BY <2>2 DEF Watched
  <2> QED
    BY <1>0, <1>6, <2>2, <2>3, Zenon DEF MacReset, IInv, phy
<1> QED
  BY <1>1, <1>2, <1>3, <1>4, <1>5, <1>6

\* A timer that expires hands its wait to its callback, which ends it.
LEMMA TimerIInv ==
  ASSUME IInv, (\E t \in Timers : TimerExpires(t)) \/ timer_expired
  PROVE  IInv'
<1>0. PhyLocks \in BOOLEAN /\ PhyLocks' \in BOOLEAN /\ (resolving' = resolving => PhyLocks' = PhyLocks)
  BY DEF PhyLocks
<1>1. CASE \E t \in Timers : TimerExpires(t)
  <2>1. PICK t \in Timers : TimerExpires(t)
    BY <1>1
  <2> DEFINE p == [ra EXCEPT !.timers = @ \ {t}]
  <2>2. /\ ra.state \notin {"IDLE", "WAITING_FOR_COMPLETION"} /\ ra.outcome = "running"
        /\ ra.timers = {t} /\ t = TimerOf(ra.state)
    BY <2>1 DEF TimerExpires, StackFree, IInv, Watched
  <2>3. p \in RaType /\ p.state = ra.state /\ p.outcome = "running" /\ p.timers = {}
    <3>1. ra.timers \ {t} = {} /\ {} \in SUBSET Timers
      BY <2>2
    <3> QED
      BY <2>2, <3>1 DEF IInv, RaType
  <2>4. Watched(p, t, PhyLocks)
    BY <2>2, <2>3 DEF Watched
  <2> QED
    BY <1>0, <2>1, <2>3, <2>4, Zenon DEF TimerExpires, IInv, phy
<1>2. CASE timer_expired
  <2>1. ra.timers = {}
    BY <1>2 DEF timer_expired, IInv, Watched
  <2> QED
    BY <1>0, <1>2, <2>1, ErrorWatched, Zenon DEF timer_expired, IInv, phy
<1> QED
  BY <1>1, <1>2

\* The PHY keeps the invariant: it only pushes tasks or resolves contention.
LEMMA PhyIInv ==
  ASSUME IInv,
         \/ PrachTransmitted \/ RarDecoded \/ SrOpportunity
         \/ received_contention_resolution \/ ra_completion
         \/ \E id \in {"own", "other", "corrupt"} : Msg4Decoded(id)
         \/ \E rnti \in {ra.crnti, ra.temp} : new_grant_ul(rnti),
         contention_res_successful \in BOOLEAN
  PROVE  IInv'
<1>0. PhyLocks \in BOOLEAN /\ PhyLocks' \in BOOLEAN /\ (resolving' = resolving => PhyLocks' = PhyLocks)
  BY DEF PhyLocks
<1>1. CASE PrachTransmitted
  <2> DEFINE p == [ra EXCEPT !.prach = FALSE]
  <2>1. p \in RaType /\ p.state = ra.state /\ p.timers = ra.timers /\ p.temp = ra.temp
        /\ p.started_by = ra.started_by /\ p.outcome = ra.outcome
    BY Zenon DEF IInv, RaType
  <2>2. Watched(p, callback, PhyLocks)
    BY <2>1 DEF IInv, Watched
  <2>3. queue' \in Seq(Tasks)
    BY <1>1 DEF PrachTransmitted, Push, IInv, Tasks
  <2> QED
    BY <1>0, <1>1, <2>1, <2>2, <2>3, Zenon DEF PrachTransmitted, IInv, phy
<1>2. CASE RarDecoded
  <2>1. queue' \in Seq(Tasks)
    BY <1>2 DEF RarDecoded, Push, IInv, Tasks
  <2> QED
    BY <1>0, <1>2, <2>1, Zenon DEF RarDecoded, IInv, phy
<1>3. CASE received_contention_resolution
  <2>1. CASE Resolves(ra, contention_res_successful)
    <3>1. resolved(ra) \in RaType /\ Watched(resolved(ra), callback, TRUE)
      BY <1>0, <2>1, ResolvedWatched, Zenon DEF Resolves, IInv
    <3>2. PhyLocks' = TRUE /\ resolving' \in Stages
      BY <1>3, <2>1 DEF received_contention_resolution, Resolving, PhyLocks, Stages
    <3> QED
      BY <1>3, <2>1, <3>1, <3>2, Zenon DEF received_contention_resolution, Resolving, IInv
  <2>2. CASE ~Resolves(ra, contention_res_successful)
    <3>1. PhyLocks = FALSE /\ PhyLocks' = FALSE /\ resolving' \in Stages
      BY <1>3, <2>2 DEF received_contention_resolution, Resolving, PhyLocks, Stages
    <3> QED
      BY <1>3, <2>2, <3>1, Zenon DEF received_contention_resolution, Resolving, IInv
  <2> QED
    BY <2>1, <2>2
<1>4. CASE SrOpportunity
  BY <1>0, <1>4, Zenon DEF SrOpportunity, IInv, phy
<1>5. CASE \E id \in {"own", "other", "corrupt"} : Msg4Decoded(id)
  <2>1. PhyLocks = FALSE /\ PhyLocks' = FALSE /\ resolving' \in Stages
    BY <1>5 DEF Msg4Decoded, PhyLocks, Stages
  <2> QED
    BY <1>5, <2>1, Zenon DEF Msg4Decoded, IInv
<1>6. CASE \E rnti \in {ra.crnti, ra.temp} : new_grant_ul(rnti)
  <2>1. queue' \in Seq(Tasks)
    BY <1>6 DEF new_grant_ul, Push, IInv, Tasks
  <2> QED
    BY <1>0, <1>6, <2>1, Zenon DEF new_grant_ul, IInv, phy
<1>7. CASE ra_completion
  <2>1. resolving' \in Stages /\ PhyLocks = TRUE /\ queue' = queue /\ callback' = callback
    BY <1>7 DEF ra_completion, Resolving, Stages, PhyLocks
  <2>2. CASE resolving = "resolved"
    <3>1. ra' = ra /\ (ra.state = "WAITING_FOR_COMPLETION" => PhyLocks' = TRUE)
      BY <1>7, <2>2 DEF ra_completion, Resolving, PhyLocks
    <3>2. Watched(ra, callback, PhyLocks')
      BY <1>0, <2>1, <3>1 DEF IInv, Watched
    <3> QED
      BY <2>1, <3>1, <3>2, Zenon DEF IInv
  <2>3. CASE resolving = "completing"
    <3>1. ra' = set_crnti_to_temp(ra) /\ PhyLocks' = PhyLocks
      BY <1>7, <2>3 DEF ra_completion, Resolving, PhyLocks
    <3> QED
      BY <1>0, <2>1, <3>1, PromotedWatched, Zenon DEF IInv
  <2>4. CASE resolving = "promoted"
    <3>1. ra' = completed(ra)
      BY <1>7, <2>4 DEF ra_completion, Resolving
    <3> QED
      BY <1>0, <2>1, <3>1, CompletedWatched, Zenon DEF IInv
  <2> QED
    BY <1>7, <2>2, <2>3, <2>4, Zenon DEF ra_completion, Resolving
<1> QED
  BY <1>1, <1>2, <1>3, <1>4, <1>5, <1>6, <1>7

\* Every wait of the random access procedure is ended by exactly its own timer,
\* for every preambleTransMax and scheduling request configuration, and any
\* number of procedures, resets, late tasks and expired timers
\* (proc_ra_nr.cc:72-395).
THEOREM SupervisedAlways == Spec => []Supervised
<1> DEFINE J == IInv /\ contention_res_successful \in BOOLEAN
<1>1. Init => J
  BY InitIInv DEF Init
<1>2. J /\ [Next]_vars => J'
  <2> SUFFICES ASSUME J, [Next]_vars PROVE J'
    OBVIOUS
  <2>1. CASE UNCHANGED vars
    BY <2>1 DEF vars, phy, IInv, PhyLocks
  <2>2. CASE Next
    <3>1. IInv'
      BY <2>2, StackIInv, TimerIInv, PhyIInv DEF Next
    <3>2. contention_res_successful' \in BOOLEAN
      BY <2>2, Zenon DEF Next, SetConfig, start_ra_procedure, update_cell_group_cfg, TriggerSr,
                  run_tti, RunTask, TimerExpires, timer_expired, MacReset, PrachTransmitted,
                  RarDecoded, Msg4Decoded, received_contention_resolution, ra_completion,
                  Resolving, new_grant_ul, SrOpportunity, phy
    <3> QED
      BY <3>1, <3>2
  <2> QED
    BY <2>1, <2>2
<1>3. J => Supervised
  BY DEF IInv, Watched, Supervised
<1> QED
  BY <1>1, <1>2, <1>3, PTL DEF Spec
-----------------------------------------------------------------------------
(* The bounds of the counters.  A procedure that gave up keeps its state,  *)
(* and a late prach_sent or RAR restarts it from there, so the counter may *)
(* pass preambleTransMax + 1 once in each of the three waits, and once for *)
(* the callback of a procedure that the PHY has completed meanwhile.       *)

\* What holds of the counters of a record r while cb waits for the mutex.
Counted(r, cb) ==
  /\ r.sent <= r.counter /\ r.sent <= preambleTransMax
  /\ r.counter <= preambleTransMax + 3
  /\ r.state = "WAITING_FOR_PRACH_SENT" =>
       /\ r.counter <= preambleTransMax + 1
       /\ r.outcome = "running" => r.counter <= preambleTransMax
  /\ r.state = "WAITING_FOR_RESPONSE_RECEPTION" =>
       /\ r.counter <= preambleTransMax + 2
       /\ r.outcome = "running" => r.counter <= preambleTransMax + 1
  /\ /\ r.state \in {"WAITING_FOR_CONTENTION_RESOLUTION", "WAITING_FOR_COMPLETION"}
     /\ r.outcome = "running"
     => r.counter <= preambleTransMax + 2
  /\ r.state = "IDLE" /\ cb # "none" => r.counter <= preambleTransMax + 2

\* No more attempts than some configuration asks for.
Configured(n) == n > 0 => \E new \in SrConfigs : n <= new.trans_max

\* The inductive invariant, with the counters.
MInv ==
  /\ IInv /\ Counted(ra, callback)
  /\ srcfg \in SrConfig /\ Configured(srcfg.trans_max)
  /\ sr \in [pending : BOOLEAN, counter : Nat] /\ Configured(sr.counter)
  /\ Len(queue) <= QueueCap
  /\ contention_res_successful \in BOOLEAN
  /\ passed \subseteq {"own", "other"} /\ starts \in 0..MaxStarts

\* A preamble is asked for with room left in the counter.
LEMMA PreambleCounted ==
  ASSUME NEW r \in RaType, r.sent + 1 <= r.counter, r.counter <= preambleTransMax, NEW cb
  PROVE  Counted(ra_preamble_transmission(r), cb)
<1> DEFINE p == ra_preamble_transmission(r)
<1>1. /\ p.state = "WAITING_FOR_PRACH_SENT" /\ p.counter = r.counter /\ p.sent = r.sent + 1
      /\ r.counter \in Nat /\ r.sent \in Nat
  BY DEF ra_preamble_transmission, RaType
<1> QED
  BY <1>1, RaAssumption DEF Counted

\* A new procedure counts from one.
LEMMA StartCounted ==
  ASSUME NEW r \in RaType, Counted(r, "none"), NEW by \in {"RRC", "MAC"}
  PROVE  Counted(start(r, by), "none")
<1>1. CASE r.state = "IDLE" /\ r.configured
  <2> DEFINE p == [[r EXCEPT !.started_by = by] EXCEPT !.counter = 1, !.sent = 0]
  <2>1. p \in RaType /\ p.counter = 1 /\ p.sent = 0
    BY Zenon DEF RaType
  <2>2. start(r, by) = ra_preamble_transmission(p)
    BY <1>1 DEF start, ra_procedure_initialization
  <2> HIDE DEF p
  <2> QED
    BY <2>1, <2>2, PreambleCounted, RaAssumption
<1>2. CASE ~(r.state = "IDLE" /\ r.configured)
  BY <1>2 DEF start
<1> QED
  BY <1>1, <1>2

\* A preamble that was sent may restart a procedure that had given up.
LEMMA PrachSentCounted ==
  ASSUME NEW r \in RaType, Counted(r, "none")
  PROVE  Counted(prach_sent(r), "none")
<1>1. CASE r.state = "WAITING_FOR_PRACH_SENT"
  <2> DEFINE p == prach_sent(r)
  <2>1. /\ p.state = "WAITING_FOR_RESPONSE_RECEPTION" /\ p.counter = r.counter /\ p.sent = r.sent
        /\ r.counter \in Nat /\ r.sent \in Nat
    BY <1>1 DEF prach_sent, RaType
  <2> QED
    BY <1>1, <2>1, RaAssumption DEF Counted
<1>2. CASE r.state # "WAITING_FOR_PRACH_SENT"
  BY <1>2 DEF prach_sent
<1> QED
  BY <1>1, <1>2

\* So may a RAR.
LEMMA ResponseCounted ==
  ASSUME NEW r \in RaType, Counted(r, "none"), NEW rar \in {"own", "other", "unreadable"}
  PROVE  Counted(ra_response_reception(r, rar), "none")
<1>1. CASE r.state = "WAITING_FOR_RESPONSE_RECEPTION"
  <2> DEFINE p == ra_response_reception(r, rar)
             s == [r EXCEPT !.timers = @ \ {"rar_timeout_timer"}]
             g == [s EXCEPT !.temp = TCRNTI, !.rar_rnti = FALSE]
  <2>1. /\ s.state = r.state /\ s.counter = r.counter /\ s.sent = r.sent
        /\ g.state = r.state /\ g.counter = r.counter /\ g.sent = r.sent
        /\ r.counter \in Nat /\ r.sent \in Nat
    BY DEF RaType
  <2>2. s \in RaType /\ g \in RaType
    BY Zenon DEF RaType
  <2>3. p = IF rar = "unreadable" THEN [s EXCEPT !.outcome = "unreadable"]
            ELSE [IF rar = "own" THEN g ELSE s EXCEPT
                    !.timers = @ \cup {"contention_resolution_timer"},
                    !.state = "WAITING_FOR_CONTENTION_RESOLUTION", !.outcome = "running"]
    BY <1>1 DEF ra_response_reception
  <2> HIDE DEF s, g
  <2>4. CASE rar = "unreadable"
    <3>1. p.state = r.state /\ p.outcome = "unreadable" /\ p.counter = r.counter /\ p.sent = r.sent
      BY <2>1, <2>2, <2>3, <2>4 DEF RaType
    <3> QED
      BY <1>1, <2>1, <3>1 DEF Counted
  <2>5. CASE rar # "unreadable"
    <3>1. /\ p.state = "WAITING_FOR_CONTENTION_RESOLUTION" /\ p.counter = r.counter
          /\ p.sent = r.sent
      <4>1. PICK h \in RaType : /\ h.counter = r.counter /\ h.sent = r.sent
                                /\ h = IF rar = "own" THEN g ELSE s
        BY <2>1, <2>2
      <4>2. p = [h EXCEPT !.timers = @ \cup {"contention_resolution_timer"},
                          !.state = "WAITING_FOR_CONTENTION_RESOLUTION", !.outcome = "running"]
        BY <2>3, <2>5, <4>1
      <4> QED
        BY <4>1, <4>2 DEF RaType
    <3> QED
      BY <1>1, <2>1, <3>1, RaAssumption DEF Counted
  <2> QED
    BY <2>4, <2>5
<1>2. CASE r.state # "WAITING_FOR_RESPONSE_RECEPTION"
  BY <1>2 DEF ra_response_reception
<1> QED
  BY <1>1, <1>2

\* A procedure completed by the PHY leaves room for the callback cb that waits.
LEMMA CompletedCounted ==
  ASSUME NEW r \in RaType, NEW lk \in BOOLEAN, NEW cb, Watched(r, cb, lk), Counted(r, cb)
  PROVE  Counted(completed(r), cb)
<1> DEFINE p == completed(r)
<1>1. /\ p.state = "IDLE" /\ p.counter = r.counter /\ p.sent = r.sent
      /\ r.counter \in Nat /\ r.sent \in Nat /\ r.state \in States
  BY DEF completed, reset, RaType
<1>2. r.state # "IDLE" /\ cb # "none" => r.outcome = "running"
  BY DEF Watched
<1> HIDE DEF p
<1>3. Counted(p, cb)
  BY <1>1, <1>2, RaAssumption DEF Counted, States
<1> QED
  BY <1>3 DEF p

\* Contention resolution and the C-RNTI count nothing.
LEMMA ResolvedCounted ==
  ASSUME NEW r \in RaType, NEW cb, Counted(r, cb), r.state = "WAITING_FOR_CONTENTION_RESOLUTION"
  PROVE  Counted(resolved(r), cb)
<1> DEFINE p == resolved(r)
<1>1. /\ p.state = "WAITING_FOR_COMPLETION" /\ p.counter = r.counter /\ p.sent = r.sent
      /\ p.outcome = r.outcome
  BY DEF resolved, RaType
<1> HIDE DEF p
<1>2. Counted(p, cb)
  BY <1>1 DEF Counted
<1> QED
  BY <1>2 DEF p

LEMMA PromotedCounted ==
  ASSUME NEW r \in RaType, NEW cb, Counted(r, cb)
  PROVE  Counted(set_crnti_to_temp(r), cb)
<1> DEFINE p == set_crnti_to_temp(r)
<1>1. p.state = r.state /\ p.counter = r.counter /\ p.sent = r.sent /\ p.outcome = r.outcome
  BY DEF set_crnti_to_temp, RaType
<1> HIDE DEF p
<1>2. Counted(p, cb)
  BY <1>1 DEF Counted
<1> QED
  BY <1>2 DEF p

LEMMA ResolutionCounted ==
  ASSUME NEW r \in RaType, NEW lk \in BOOLEAN, NEW cb, Watched(r, cb, lk), Counted(r, cb),
         NEW matches \in BOOLEAN
  PROVE  Counted(ra_contention_resolution(r, matches), cb)
<1>1. CASE Resolves(r, matches)
  <2>1. /\ resolved(r) \in RaType /\ Watched(resolved(r), cb, TRUE)
        /\ Counted(resolved(r), cb)
    BY <1>1, ResolvedWatched, ResolvedCounted DEF Resolves
  <2>2. /\ set_crnti_to_temp(resolved(r)) \in RaType
        /\ Watched(set_crnti_to_temp(resolved(r)), cb, TRUE)
        /\ Counted(set_crnti_to_temp(resolved(r)), cb)
    BY <2>1, PromotedWatched, PromotedCounted
  <2> QED
    BY <1>1, <2>2, CompletedCounted DEF ra_contention_resolution
<1>2. CASE ~Resolves(r, matches)
  BY <1>2 DEF ra_contention_resolution
<1> QED
  BY <1>1, <1>2

\* ra_error counts one attempt more, or gives up.
LEMMA ErrorCounted ==
  ASSUME NEW r \in RaType, NEW lk \in BOOLEAN, NEW cb, cb # "none", Watched(r, cb, lk), Counted(r, cb)
  PROVE  Counted(ra_error(r), "none")
<1> DEFINE f == [r EXCEPT !.counter = @ + 1, !.temp = INVALID,
                          !.timers = @ \ {"contention_resolution_timer"}]
           p == [f EXCEPT !.outcome = "problem"]
<1>1. f \in RaType /\ f.counter = r.counter + 1 /\ f.sent = r.sent /\ f.state = r.state
      /\ r.counter \in Nat /\ r.sent \in Nat
  <2>1. r.timers \ {"contention_resolution_timer"} \in SUBSET Timers /\ r.counter + 1 \in Nat
    BY DEF RaType
  <2> QED
    BY <2>1, Zenon DEF RaType
<1>2. p \in RaType /\ p.counter = r.counter + 1 /\ p.sent = r.sent /\ p.state = r.state
      /\ p.outcome = "problem"
  BY <1>1, Zenon DEF RaType
<1>3. r.state \in States
  BY DEF RaType
<1>4. r.counter <= preambleTransMax + 2 /\ Counted(p, "none")
  <2>1. r.state # "IDLE" => r.outcome = "running"
    BY DEF Watched
  <2> HIDE DEF f, p
  <2> QED
    BY <1>1, <1>2, <1>3, <2>1, RaAssumption DEF Counted, States
<1>5. CASE f.counter >= preambleTransMax + 1 /\ r.started_by = "MAC"
  <2>1. ra_error(r) = reset(p)
    BY <1>5 DEF ra_error
  <2> HIDE DEF f, p
  <2>2. reset(p).state = "IDLE" /\ reset(p).counter = p.counter /\ reset(p).sent = p.sent
    BY <1>2 DEF reset, RaType
  <2> QED
    BY <1>1, <1>2, <1>4, <2>1, <2>2 DEF Counted
<1>6. CASE f.counter >= preambleTransMax + 1 /\ r.started_by # "MAC"
  <2>1. ra_error(r) = p
    BY <1>6 DEF ra_error
  <2> QED
    BY <1>4, <2>1
<1>7. CASE ~(f.counter >= preambleTransMax + 1)
  <2>1. ra_error(r) = ra_preamble_transmission(f)
    BY <1>7 DEF ra_error
  <2> HIDE DEF f
  <2>2. f.sent + 1 <= f.counter /\ f.counter <= preambleTransMax
    BY <1>1, <1>7, RaAssumption DEF Counted
  <2> QED
    BY <1>1, <2>1, <2>2, PreambleCounted
<1> QED
  BY <1>5, <1>6, <1>7

-----------------------------------------------------------------------------
\* A record that differs in nothing the counters depend on.
LEMMA CountedAlike ==
  ASSUME NEW r, NEW p, NEW cb, Counted(r, cb), p.state = r.state, p.outcome = r.outcome,
         p.counter = r.counter, p.sent = r.sent
  PROVE  Counted(p, cb)
  BY DEF Counted

\* Every action keeps the bounds of proc_ra's counters.
LEMMA RaCounted ==
  ASSUME MInv, Next
  PROVE  Counted(ra', callback')
<1> USE DEF MInv, IInv, StackFree
<1>0. PhyLocks \in BOOLEAN
  BY DEF PhyLocks
<1>1. CASE SetConfig
  <2> DEFINE p == set_config(ra)
  <2>1. p.state = ra.state /\ p.outcome = ra.outcome /\ p.counter = ra.counter /\ p.sent = ra.sent
    BY DEF set_config, RaType
  <2> HIDE DEF p
  <2>2. Counted(p, callback)
    BY <2>1, CountedAlike
  <2> QED
    BY <1>1, <2>2 DEF SetConfig, p
<1>2. CASE start_ra_procedure
  BY <1>2, StartCounted DEF start_ra_procedure
<1>3. CASE TriggerSr \/ RarDecoded \/ SrOpportunity
           \/ (\E new \in SrConfigs : update_cell_group_cfg(new))
           \/ (\E id \in {"own", "other", "corrupt"} : Msg4Decoded(id))
           \/ (\E rnti \in {ra.crnti, ra.temp} : new_grant_ul(rnti))
  BY <1>3, Zenon DEF TriggerSr, RarDecoded, SrOpportunity, update_cell_group_cfg, Msg4Decoded,
                     new_grant_ul
<1>4. CASE run_tti
  BY <1>4, StartCounted DEF run_tti
<1>5. CASE RunTask
  <2>1. Head(queue) \in Tasks /\ callback = "none" /\ callback' = "none"
    BY <1>5 DEF RunTask
  <2>2. CASE Head(queue) = "prach_sent"
    BY <1>5, <2>1, <2>2, PrachSentCounted, Zenon DEF RunTask
  <2>3. CASE Head(queue) = "rar"
    <3>1. PICK rar \in {"own", "other", "unreadable"} : ra' = ra_response_reception(ra, rar)
      BY <1>5, <2>3, Zenon DEF RunTask
    <3> QED
      BY <2>1, <3>1, ResponseCounted
  <2>4. CASE Head(queue) = "pdcch_to_crnti"
    BY <1>0, <1>5, <2>1, <2>4, ResolutionCounted, Zenon DEF RunTask
  <2> QED
    BY <2>1, <2>2, <2>3, <2>4 DEF Tasks
<1>6. CASE \E t \in Timers : TimerExpires(t)
  <2>1. PICK t \in Timers : TimerExpires(t)
    BY <1>6
  <2> DEFINE p == [ra EXCEPT !.timers = @ \ {t}]
  <2>2. p.state = ra.state /\ p.outcome = ra.outcome /\ p.counter = ra.counter /\ p.sent = ra.sent
    BY DEF RaType
  <2>3. ra.state # "IDLE"
    BY <2>1 DEF TimerExpires, Watched
  <2>4. ra' = p /\ callback' = t
    BY <2>1 DEF TimerExpires
  <2> HIDE DEF p
  <2>5. Counted(p, t)
    BY <2>2, <2>3 DEF Counted
  <2> QED
    BY <2>4, <2>5
<1>7. CASE timer_expired
  BY <1>0, <1>7, ErrorCounted, Zenon DEF timer_expired
<1>8. CASE MacReset
  <2> DEFINE p == [reset(ra) EXCEPT !.outcome = IF ra.state = "IDLE" THEN @ ELSE "stopped"]
  <2>1. p.state = "IDLE" /\ p.counter = ra.counter /\ p.sent = ra.sent
    BY DEF reset, RaType
  <2>2. ra' = p /\ callback' = "none"
    BY <1>8 DEF MacReset
  <2> HIDE DEF p
  <2>3. Counted(p, "none")
    BY <2>1 DEF Counted
  <2> QED
    BY <2>2, <2>3
<1>9. CASE PrachTransmitted
  <2> DEFINE p == [ra EXCEPT !.prach = FALSE]
  <2>1. p.state = ra.state /\ p.outcome = ra.outcome /\ p.counter = ra.counter /\ p.sent = ra.sent
    BY DEF RaType
  <2>2. ra' = p /\ callback' = callback
    BY <1>9 DEF PrachTransmitted
  <2> HIDE DEF p
  <2> QED
    BY <2>1, <2>2, CountedAlike
<1>10. CASE received_contention_resolution
  BY <1>10, ResolvedCounted, Zenon DEF received_contention_resolution, Resolving, Resolves
<1>11. CASE ra_completion
  BY <1>0, <1>11, PromotedCounted, CompletedCounted, Zenon DEF ra_completion, Resolving
<1> QED
  BY <1>1, <1>2, <1>3, <1>4, <1>5, <1>6, <1>7, <1>8, <1>9, <1>10, <1>11, Zenon DEF Next

\* A configuration that is taken over is one of those RRC applies.
LEMMA SetConfigBounded ==
  ASSUME NEW cfg \in SrConfig, Configured(cfg.trans_max), NEW new \in SrConfigs
  PROVE  sr_set_config(cfg, new) \in SrConfig /\ Configured(sr_set_config(cfg, new).trans_max)
<1>1. new \in SrCellGroup
  BY MacAssumption
<1>2. sr_set_config(cfg, new) \in SrConfig
  BY <1>1 DEF sr_set_config, SrConfig, SrCellGroup
<1>3. sr_set_config(cfg, new).trans_max \in {cfg.trans_max, new.trans_max}
  BY <1>1 DEF sr_set_config, SrConfig, SrCellGroup
<1>4. new.trans_max \in Nat
  BY <1>1 DEF SrCellGroup
<1> QED
  BY <1>2, <1>3, <1>4 DEF Configured

\* An opportunity counts up to sr-TransMax.
LEMMA OpportunityBounded ==
  ASSUME NEW r \in [pending : BOOLEAN, counter : Nat], Configured(r.counter),
         NEW cfg \in SrConfig, Configured(cfg.trans_max), NEW overlap \in BOOLEAN
  PROVE  /\ sr_opportunity(r, cfg, overlap) \in [pending : BOOLEAN, counter : Nat]
         /\ Configured(sr_opportunity(r, cfg, overlap).counter)
<1> DEFINE p == [r EXCEPT !.counter = @ + 1]
<1>1. p \in [pending : BOOLEAN, counter : Nat] /\ p.counter = r.counter + 1
      /\ r.counter \in Nat /\ cfg.trans_max \in Nat
  BY DEF SrConfig
<1>2. ASSUME r.counter < cfg.trans_max PROVE Configured(p.counter)
  <2>1. PICK new \in SrConfigs : cfg.trans_max <= new.trans_max
    BY <1>1, <1>2 DEF Configured
  <2>2. new.trans_max \in Nat
    BY MacAssumption DEF SrCellGroup
  <2> HIDE DEF p
  <2> QED
    BY <1>1, <1>2, <2>1, <2>2 DEF Configured
<1> QED
  BY <1>1, <1>2 DEF sr_opportunity

\* Every action keeps the bounds of the scheduling request and of the queue.
LEMMA RestBounded ==
  ASSUME MInv, Next
  PROVE  /\ srcfg' \in SrConfig /\ Configured(srcfg'.trans_max)
         /\ sr' \in [pending : BOOLEAN, counter : Nat] /\ Configured(sr'.counter)
         /\ Len(queue') <= QueueCap
         /\ contention_res_successful' \in BOOLEAN
         /\ passed' \subseteq {"own", "other"} /\ starts' \in 0..MaxStarts
<1> USE DEF MInv, phy
<1>1. srcfg' \in SrConfig /\ Configured(srcfg'.trans_max)
  BY SetConfigBounded, Zenon
     DEF Next, SetConfig, start_ra_procedure, update_cell_group_cfg, TriggerSr, run_tti, RunTask,
         TimerExpires, timer_expired, MacReset, PrachTransmitted, RarDecoded, Msg4Decoded,
         received_contention_resolution, ra_completion, Resolving, new_grant_ul, SrOpportunity
<1>2. sr' \in [pending : BOOLEAN, counter : Nat] /\ Configured(sr'.counter)
  <2>1. /\ sr_start(sr) \in [pending : BOOLEAN, counter : Nat] /\ Configured(sr_start(sr).counter)
        /\ sr_reset(sr) \in [pending : BOOLEAN, counter : Nat] /\ Configured(sr_reset(sr).counter)
    <3>1. ~(0 > 0) /\ 0 \in Nat
      OBVIOUS
    <3>2. Configured(0)
      BY <3>1, Zenon DEF Configured
    <3> HIDE DEF Configured
    <3> QED
      BY <3>1, <3>2, Zenon DEF sr_start, sr_reset
  <2>2. CASE SrOpportunity
    <3>1. PICK overlap \in BOOLEAN : sr' = sr_opportunity(sr, srcfg, overlap)
      BY <2>2, Zenon DEF SrOpportunity
    <3>2. /\ sr_opportunity(sr, srcfg, overlap) \in [pending : BOOLEAN, counter : Nat]
          /\ Configured(sr_opportunity(sr, srcfg, overlap).counter)
      BY OpportunityBounded
    <3> QED
      BY <3>1, <3>2
  <2>3. sr' \in {sr, sr_start(sr), sr_reset(sr)} \/ SrOpportunity
    BY Zenon
       DEF Next, SetConfig, start_ra_procedure, update_cell_group_cfg, TriggerSr, run_tti, RunTask,
           TimerExpires, timer_expired, MacReset, PrachTransmitted, RarDecoded, Msg4Decoded,
           received_contention_resolution, ra_completion, Resolving, new_grant_ul
  <2> QED
    BY <2>1, <2>2, <2>3
<1>3. Len(queue') <= QueueCap
  <2>1. queue \in Seq(Tasks) /\ QueueCap \in Nat /\ Len(queue) \in Nat
    BY MacAssumption DEF IInv
  <2>2. ASSUME NEW task \in Tasks, Push(task) PROVE Len(queue') <= QueueCap
    BY <2>1, <2>2 DEF Push
  <2>3. CASE RunTask
    BY <2>1, <2>3 DEF RunTask
  <2> QED
    BY <2>2, <2>3
    DEF Next, SetConfig, start_ra_procedure, update_cell_group_cfg, TriggerSr, run_tti, TimerExpires,
        timer_expired, MacReset, PrachTransmitted, RarDecoded, Msg4Decoded,
        received_contention_resolution, ra_completion, Resolving,
        new_grant_ul, SrOpportunity, Tasks
<1>4. /\ contention_res_successful' \in BOOLEAN
      /\ passed' \subseteq {"own", "other"}
  BY Zenon DEF Next, SetConfig, start_ra_procedure, update_cell_group_cfg, TriggerSr, run_tti, RunTask, TimerExpires,
         timer_expired, MacReset, PrachTransmitted, RarDecoded, Msg4Decoded,
         received_contention_resolution, ra_completion, Resolving,
        new_grant_ul, SrOpportunity
<1>5. starts' \in 0..MaxStarts
  <2>1. starts < MaxStarts => starts + 1 \in 0..MaxStarts
    BY MacAssumption
  <2> QED
    BY <2>1
   , Zenon DEF Next, SetConfig, start_ra_procedure, update_cell_group_cfg, TriggerSr, run_tti, RunTask, TimerExpires,
        timer_expired, MacReset, PrachTransmitted, RarDecoded, Msg4Decoded,
        received_contention_resolution, ra_completion, Resolving,
        new_grant_ul, SrOpportunity
<1> QED
  BY <1>1, <1>2, <1>3, <1>4, <1>5

\* The MAC keeps its types and its limits: the preamble counter passes
\* preambleTransMax by at most three however procedures that gave up are
\* restarted by late tasks, no more than preambleTransMax preambles are sent by
\* one procedure, and a scheduling request is sent at most as often as the largest
\* sr-TransMax RRC has configured, however it is reconfigured
\* (proc_ra_nr.cc:72-364, proc_sr_nr.cc:93-186).
THEOREM MacTypeCorrect == Spec => []TypeOK
<1>1. Init => MInv
  <2> SUFFICES ASSUME Init PROVE MInv
    OBVIOUS
  <2>1. IInv
    BY InitIInv
  <2>2. Counted(ra, callback)
    <3>1. ra.counter = 0 /\ ra.sent = 0 /\ ra.state = "IDLE" /\ ra.outcome = "none"
      BY DEF Init, Idle
    <3> QED
      BY <3>1, RaAssumption DEF Counted
  <2>3. /\ sr \in [pending : BOOLEAN, counter : Nat] /\ Configured(sr.counter)
        /\ srcfg \in SrConfig /\ Configured(srcfg.trans_max)
    BY DEF Init, NoSr, NoSrConfig, SrConfig, Configured
  <2>4. Len(queue) <= QueueCap /\ starts \in 0..MaxStarts
    BY MacAssumption DEF Init
  <2> QED
    BY <2>1, <2>2, <2>3, <2>4, Zenon DEF Init, MInv
<1>2. MInv /\ [Next]_vars => MInv'
  <2> SUFFICES ASSUME MInv, [Next]_vars PROVE MInv'
    OBVIOUS
  <2>1. CASE UNCHANGED vars
    BY <2>1 DEF vars, phy, MInv, IInv, PhyLocks
  <2>2. CASE Next
    <3>1. IInv'
      BY <2>2, StackIInv, TimerIInv, PhyIInv DEF Next, MInv
    <3> QED
      BY <2>2, <3>1, RaCounted, RestBounded DEF MInv
  <2> QED
    BY <2>1, <2>2
<1>3. MInv => TypeOK
  <2> SUFFICES ASSUME MInv PROVE TypeOK
    OBVIOUS
  <2>1. ra.counter \in 0..(preambleTransMax + 3) /\ ra.sent \in 0..preambleTransMax
    BY RaAssumption DEF MInv, IInv, RaType, Counted
  <2>2. ra \in ProcRa
    BY <2>1 DEF MInv, IInv, RaType, ProcRa
  <2> QED
    BY <2>2 DEF MInv, IInv, TypeOK, Tasks, Stages, Configured
<1> QED
  BY <1>1, <1>2, <1>3, PTL DEF Spec
=============================================================================
