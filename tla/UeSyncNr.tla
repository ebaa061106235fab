------------------------------ MODULE UeSyncNr ------------------------------
(***************************************************************************)
(* The NR UE synchronisation object (lib/src/phy/ue/ue_sync_nr.c) and the  *)
(* SSB search and tracking it calls (lib/src/phy/sync/ssb.c), run against a *)
(* cell whose time is known to the model.                                  *)
(*                                                                         *)
(* Time is counted in OFDM symbols.  A point of cell time is a record of   *)
(* system frame number, subframe and symbol; `air' is the cell time of the *)
(* next sample the radio will deliver.  One call of zerocopy consumes a    *)
(* window of one subframe, which need not start at a subframe boundary.    *)
(***************************************************************************)
EXTENDS Integers, FiniteSets

CONSTANTS
  SfnMod,        \* frames before the SFN wraps (1024 in the code)
  SfLen,         \* symbols per subframe (28 at 30 kHz)
  SsbLen,        \* symbols per SSB (SRSRAN_SSB_DURATION_NSYMB)
  LFirst,        \* q->ssb.l_first: SSB index -> first symbol in its half frame
  Beams,         \* SSB indices the cell transmits
  CellPeriodMs,  \* period at which the cell transmits its SSB burst
  PeriodMs,      \* configured ssb.cfg.periodicity_ms
  SeesRxFailure, \* whether the receive callback reports a failed receive: a set,
                 \* with both values when some callbacks do and others do not
  CastKeepsSign, \* TRUE when the build converts a negative double to uint32_t
                 \* modulo 2^32 (x86-64), FALSE when it saturates to 0 (ARM)
  Losses,        \* numbers of symbols the radio may drop at once
  MaxDisturb,    \* bound on disturbances: losses, failures, noise,
                 \* reconfigurations, calls before the first one
  InitAir,       \* cell times at which reception may start
  NoTail         \* no window has been searched yet

NSF == 10 \* SRSRAN_NOF_SF_X_FRAME

CellTime == [sfn : 0..(SfnMod - 1), sf : 0..(NSF - 1), sym : 0..(SfLen - 1)]

ASSUME SizeAssumption ==
  /\ SfnMod \in Nat \ {0}
  /\ SfLen \in Nat \ {0}
  /\ SsbLen \in 1..SfLen

ASSUME SsbAssumption ==
  /\ \A i \in DOMAIN LFirst :
       /\ LFirst[i] \in 0..(5 * SfLen - 1)
       /\ LFirst[i] % SfLen \in 0..(SfLen - SsbLen)
       /\ LFirst[i] \div SfLen \in 0..4
  /\ 0 \in DOMAIN LFirst
  /\ Beams \subseteq DOMAIN LFirst

ASSUME EnvAssumption ==
  /\ PeriodMs \in Nat \ {0}
  /\ SeesRxFailure \subseteq BOOLEAN
  /\ CastKeepsSign \in BOOLEAN
  /\ Losses \subseteq 0..SfLen
  /\ MaxDisturb \in Nat
  /\ InitAir \subseteq CellTime
  /\ NoTail \notin CellTime

VARIABLES
  state,    \* q->state
  offset,   \* q->next_rf_sample_offset, in symbols
  ssb_idx,  \* q->ssb_idx
  sf_idx,   \* q->sf_idx
  sfn,      \* q->sfn
  feedback, \* q->feedback.nof_re > 0
  outcome,  \* what the last successful zerocopy reported
  tail,     \* cell time at which the tail kept in q->ssb.sf_buffer ends
  air,      \* cell time of the next sample
  clean,    \* history: the last decoded SSB was contiguous with its window
            \* and since then every sample was delivered and counted
  disturb   \* history: disturbances so far

vars == <<state, offset, ssb_idx, sf_idx, sfn, feedback, outcome, tail, air, clean, disturb>>

States == {"IDLE", "FIND", "TRACK"}

-----------------------------------------------------------------------------
(* Cell time.                                                              *)

NextSfn(n) == IF n = SfnMod - 1 THEN 0 ELSE n + 1
PrevSfn(n) == IF n = 0 THEN SfnMod - 1 ELSE n - 1

NextSf(t) ==
  [sfn |-> IF t.sf = NSF - 1 THEN NextSfn(t.sfn) ELSE t.sfn,
   sf  |-> IF t.sf = NSF - 1 THEN 0 ELSE t.sf + 1,
   sym |-> t.sym]

PrevSf(t) ==
  [sfn |-> IF t.sf = 0 THEN PrevSfn(t.sfn) ELSE t.sfn,
   sf  |-> IF t.sf = 0 THEN NSF - 1 ELSE t.sf - 1,
   sym |-> t.sym]

\* t moved by n symbols, for n between -SfLen and SfLen.
Shift(t, n) ==
  LET x == t.sym + n
  IN  IF x < 0 THEN [PrevSf(t) EXCEPT !.sym = x + SfLen]
      ELSE IF x >= SfLen THEN [NextSf(t) EXCEPT !.sym = x - SfLen]
      ELSE [t EXCEPT !.sym = x]

candidate_sf_idx(i, half_frame) ==
  (LFirst[i] \div SfLen) + (IF half_frame THEN NSF \div 2 ELSE 0)

candidate_sf_offset(i) == LFirst[i] % SfLen

\* The cell sends a burst of SSBs in frame n.
CarriesBurst(n) == CellPeriodMs >= 10 => n % (CellPeriodMs \div 10) = 0

\* The cell starts transmitting SSB i at t.
SsbStarts(t, i) ==
  /\ t.sym = candidate_sf_offset(i)
  /\ \/ /\ t.sf = candidate_sf_idx(i, FALSE)
        /\ CarriesBurst(t.sfn)
     \/ /\ t.sf = candidate_sf_idx(i, TRUE)
        /\ CellPeriodMs < 10

-----------------------------------------------------------------------------
(* ue_sync_nr_recv: the window starts offset symbols away from the next    *)
(* sample.  A positive offset is discarded from the radio, a negative one  *)
(* leaves that many symbols of zeros at the head of the window.            *)

WindowStart == Shift(air, offset)
ZeroHead    == IF offset < 0 THEN -offset ELSE 0

\* The places at which srsran_ssb_find can decode an SSB.  It searches the
\* kept tail followed by the window: inside the window, across the junction
\* when the two are contiguous, and in the tail itself, whatever it follows.
VisibleSsb ==
  {v \in ((-SsbLen)..(SfLen - SsbLen)) \X Beams :
     \/ v[1] >= ZeroHead /\ SsbStarts(Shift(WindowStart, v[1]), v[2])
     \/ /\ v[1] \in (1 - SsbLen)..(-1) /\ offset = 0 /\ tail = air
        /\ SsbStarts(Shift(WindowStart, v[1]), v[2])
     \/ v[1] = -SsbLen /\ tail # NoTail /\ SsbStarts(Shift(tail, -SsbLen), v[2])}

\* Where the SSB seen at v really is in cell time.
TrueTime(v) == IF v[1] = -SsbLen THEN Shift(tail, -SsbLen) ELSE Shift(WindowStart, v[1])

\* The SSB is where its position in the search buffer says it is.
Contiguous(v) == v[1] >= 0 \/ (tail = air /\ offset = 0)

Disturb == disturb < MaxDisturb /\ disturb' = disturb + 1
Quiet   == UNCHANGED disturb

\* Mutant: sf_idx is not wrapped at the end of a frame.
FinishZerocopy_NoWrap(s, f, n) ==
  /\ state'   = s
  /\ outcome' = [in_sync |-> (s = "TRACK"), sf_idx |-> f, sfn |-> n]
  /\ sf_idx'  = f + 1
  /\ sfn'     = n

\* Mutant: the wrap does not count the frame.
FinishZerocopy_SameSfn(s, f, n) ==
  LET sf == IF f >= NSF THEN 0 ELSE f
  IN  /\ state'   = s
      /\ outcome' = [in_sync |-> (s = "TRACK"), sf_idx |-> sf, sfn |-> n]
      /\ sf_idx'  = sf + 1
      /\ sfn'     = n

\* The tail of zerocopy after the state machine has left state s and the
\* counters at subframe f of frame n.
FinishZerocopy(s, f, n) ==
  LET wrap == f >= NSF
      sf   == IF wrap THEN 0 ELSE f
      fn   == IF wrap THEN NextSfn(n) ELSE n
  IN  /\ state'   = s
      /\ outcome' = [in_sync |-> (s = "TRACK"), sf_idx |-> sf, sfn |-> fn]
      /\ sf_idx'  = sf + 1
      /\ sfn'     = fn

\* Mutant: the measured delay is not handed to the next receive.
UpdateSsb_NoOffset(d, i, t) ==
  /\ offset'   = 0
  /\ ssb_idx'  = i
  /\ feedback' = FALSE
  /\ FinishZerocopy(IF d < 1 THEN "TRACK" ELSE state,
                    candidate_sf_idx(i, t.sf >= NSF \div 2), t.sfn)

\* ue_sync_nr_update_ssb with a MIB that unpacks: SSB i sent at cell time t was
\* measured d symbols late.  Any pending feedback is reset before it is used.
\* The delay is below 2.4 us exactly when it is less than one symbol.
UpdateSsb(d, i, t) ==
  /\ offset'   = IF d >= 0 \/ CastKeepsSign THEN d ELSE 0
  /\ ssb_idx'  = i
  /\ feedback' = FALSE
  /\ FinishZerocopy(IF d < 1 THEN "TRACK" ELSE state,
                    candidate_sf_idx(i, t.sf >= NSF \div 2), t.sfn)

\* No PBCH was decoded, or its MIB did not unpack; the machine ends in s.
NoUpdate(s) ==
  /\ offset' = 0
  /\ UNCHANGED <<ssb_idx, feedback, clean>>
  /\ FinishZerocopy(s, sf_idx, sfn)

\* zerocopy before any configuration: sf_sz is still zero, so nothing is
\* received, and the counters run.  Bounded as a disturbance.
RunIdle ==
  /\ state = "IDLE"
  /\ UNCHANGED <<air, tail>>
  /\ NoUpdate("IDLE")
  /\ Disturb

\* zerocopy in state FIND, with ue_sync_nr_run_find.
RunFind ==
  /\ state = "FIND"
  /\ air'  = NextSf(WindowStart)
  /\ tail' = air'
  /\ \/ \E v \in VisibleSsb :
          /\ UpdateSsb(v[1] - candidate_sf_offset(v[2]), v[2], TrueTime(v))
          /\ clean' = Contiguous(v)
          /\ Quiet
     \/ NoUpdate("FIND") /\ IF VisibleSsb = {} THEN Quiet ELSE Disturb

\* Mutant: the SSB is also expected in the second half of the frame.
is_ssb_opportunity_AnyHalf ==
  LET half_frame == sf_idx \div (NSF \div 2)
  IN  /\ sf_idx = candidate_sf_idx(ssb_idx, half_frame > 0)
      /\ PeriodMs >= 10 => (sfn % PeriodMs) \div 10 = 0

is_ssb_opportunity ==
  LET half_frame == sf_idx \div (NSF \div 2)
  IN  /\ sf_idx = candidate_sf_idx(ssb_idx, half_frame > 0)
      /\ PeriodMs >= 10 => half_frame = 0 /\ (sfn % PeriodMs) \div 10 = 0

\* srsran_ssb_track decodes the PBCH at the nominal place of ssb_idx.
TrackedTime == Shift(WindowStart, candidate_sf_offset(ssb_idx))
TrackSees   ==
  /\ ssb_idx \in Beams
  /\ candidate_sf_offset(ssb_idx) >= ZeroHead
  /\ SsbStarts(TrackedTime, ssb_idx)
  /\ (TrackedTime.sf >= NSF \div 2) = (sf_idx >= NSF \div 2)

\* Mutant: a failed CRC leaves the object in TRACK.
RunTrack_NoFind ==
  /\ state = "TRACK"
  /\ air' = NextSf(WindowStart)
  /\ UNCHANGED tail
  /\ \/ /\ is_ssb_opportunity /\ TrackSees
        /\ UpdateSsb(0, ssb_idx, TrackedTime)
        /\ clean' = TRUE
        /\ Quiet
     \/ /\ NoUpdate("TRACK")
        /\ IF is_ssb_opportunity /\ TrackSees THEN Disturb ELSE Quiet

\* zerocopy in state TRACK, with ue_sync_nr_run_track: nothing to do in this
\* subframe; the PBCH decoded; its CRC failed; its MIB did not unpack.
RunTrack ==
  /\ state = "TRACK"
  /\ air' = NextSf(WindowStart)
  /\ UNCHANGED tail
  /\ \/ ~is_ssb_opportunity /\ NoUpdate("TRACK") /\ Quiet
     \/ /\ is_ssb_opportunity /\ TrackSees
        /\ UpdateSsb(0, ssb_idx, TrackedTime)
        /\ clean' = TRUE
        /\ Quiet
     \/ /\ is_ssb_opportunity
        /\ NoUpdate("FIND")
        /\ IF TrackSees THEN Disturb ELSE Quiet
     \/ is_ssb_opportunity /\ TrackSees /\ NoUpdate("TRACK") /\ Disturb

\* srsran_ue_sync_nr_zerocopy and srsran_ue_sync_nr_zerocopy_nrscope.
Zerocopy == RunIdle \/ RunFind \/ RunTrack

\* The search or the tracking returns an error: the window has been received,
\* and zerocopy returns before it counts the subframe.
FsmError ==
  /\ state # "IDLE" /\ Disturb
  /\ air'    = NextSf(WindowStart)
  /\ tail'   = IF state = "FIND" THEN air' ELSE tail
  /\ offset' = 0
  /\ clean'  = FALSE
  /\ UNCHANGED <<state, ssb_idx, sf_idx, sfn, feedback, outcome>>

\* A failed receive that the callback reports: zerocopy returns SRSRAN_ERROR
\* before the state machine runs.  When the failing call was the one that
\* discards samples the offset is kept, otherwise it has been reset.
RxErrorSeen ==
  /\ TRUE \in SeesRxFailure /\ state # "IDLE" /\ Disturb
  /\ \/ offset > 0 /\ UNCHANGED <<offset, air, clean>>
     \/ /\ offset' = 0
        /\ air'    = IF offset > 0 THEN WindowStart ELSE air
        /\ clean'  = (clean /\ offset >= 0)
  /\ UNCHANGED <<state, ssb_idx, sf_idx, sfn, feedback, outcome, tail>>

\* An SSB sent at t lies s symbols into a buffer that was not filled: in the
\* older window, behind the zeros or the samples discarded before it, or in those
\* samples.
StaleSsb(s, i, t) ==
  /\ \/ /\ s >= ZeroHead /\ s >= offset
        /\ t = Shift(tail, s - SfLen)
     \/ /\ s + SsbLen <= offset
        /\ t = Shift(air, s)
  /\ SsbStarts(t, i)

\* A failed receive behind a callback that returns rx_now's bool: zero is
\* SRSRAN_SUCCESS, so the machine runs on the buffer as it is.  Either nothing
\* decodes there or, searching, an SSB does.
RxErrorUnseen ==
  /\ FALSE \in SeesRxFailure /\ state # "IDLE" /\ Disturb
  /\ \E n \in Losses : air' = Shift(IF offset > 0 THEN WindowStart ELSE air, n)
  /\ clean' = FALSE
  /\ UNCHANGED tail
  /\ \/ /\ offset' = 0
        /\ UNCHANGED <<ssb_idx, feedback>>
        /\ FinishZerocopy(IF state = "TRACK" /\ is_ssb_opportunity THEN "FIND" ELSE state,
                          sf_idx, sfn)
     \/ /\ state = "FIND" /\ tail # NoTail
        /\ \E s \in 0..(SfLen - SsbLen), i \in Beams :
             \E t \in {Shift(tail, s - SfLen), Shift(air, s)} :
               StaleSsb(s, i, t) /\ UpdateSsb(s - candidate_sf_offset(i), i, t)

\* The same for the receive that discards samples: the window that follows
\* starts where the discarded samples should have been.
RxDiscardUnseen ==
  /\ FALSE \in SeesRxFailure /\ offset > 0 /\ Disturb
  /\ offset' = 0
  /\ clean'  = FALSE
  /\ UNCHANGED <<state, ssb_idx, sf_idx, sfn, feedback, outcome, tail, air>>

\* The radio drops samples between two receives.
RxLoss ==
  /\ Disturb
  /\ \E n \in Losses : air' = Shift(air, n)
  /\ clean' = FALSE
  /\ UNCHANGED <<state, offset, ssb_idx, sf_idx, sfn, feedback, outcome, tail>>

\* srsran_ue_sync_nr_set_cfg for this cell, succeeding; a failure in
\* srsran_ssb_set_cfg leaves the state machine where it was.
SetCfg ==
  /\ IF state = "IDLE" THEN Quiet ELSE Disturb
  /\ state' = "FIND"
  /\ UNCHANGED <<offset, ssb_idx, sf_idx, sfn, feedback, outcome, tail, air, clean>>

\* srsran_ue_sync_nr_feedback.
Feedback ==
  /\ feedback' = TRUE
  /\ UNCHANGED <<state, offset, ssb_idx, sf_idx, sfn, outcome, tail, air, clean, disturb>>

\* srsran_ue_sync_nr_init on a zeroed object.
Init ==
  /\ state = "IDLE" /\ offset = 0 /\ ssb_idx = 0 /\ sf_idx = 0 /\ sfn = 0
  /\ feedback = FALSE
  /\ outcome = [in_sync |-> FALSE, sf_idx |-> 0, sfn |-> 0]
  /\ tail = NoTail
  /\ air \in InitAir
  /\ clean = FALSE
  /\ disturb = 0

Next ==
  \/ Zerocopy \/ FsmError
  \/ RxErrorSeen \/ RxErrorUnseen \/ RxDiscardUnseen \/ RxLoss
  \/ SetCfg \/ Feedback

Spec == Init /\ [][Next]_vars

\* The radio thread calls zerocopy in an endless loop, after configuring once.
Fairness == WF_vars(Zerocopy) /\ WF_vars(state = "IDLE" /\ SetCfg)

FairSpec == Spec /\ Fairness

-----------------------------------------------------------------------------
(* Properties.                                                             *)

TypeOK ==
  /\ state \in States
  /\ offset \in (-SfLen)..SfLen
  /\ ssb_idx \in DOMAIN LFirst
  /\ sf_idx \in 0..NSF
  /\ sfn \in 0..(SfnMod - 1)
  /\ feedback \in BOOLEAN
  /\ outcome \in [in_sync : BOOLEAN, sf_idx : 0..(NSF - 1), sfn : 0..(SfnMod - 1)]
  /\ tail \in CellTime \cup {NoTail}
  /\ air \in CellTime
  /\ clean \in BOOLEAN
  /\ disturb \in 0..MaxDisturb

\* The start of the subframe that counters f and n name.
Label(f, n) ==
  [sfn |-> IF f >= NSF THEN NextSfn(n) ELSE n, sf |-> IF f >= NSF THEN 0 ELSE f, sym |-> 0]

\* The next window is the subframe the counters say it is.
Aligned == WindowStart = Label(sf_idx, sfn)

\* While the object tracks, and the SSB it last decoded came from contiguous
\* samples with none lost since, the next window starts at a subframe
\* boundary and is the very subframe sf_idx and sfn say it is.
AlignedInTrack == state = "TRACK" /\ clean /\ CastKeepsSign => Aligned

\* Subframe numbers reported in sync follow one another with no gap and no
\* repetition, through every re-decoded SSB and every SFN wrap.
OutcomeConsecutive ==
  [][outcome.in_sync /\ outcome'.in_sync /\ clean /\ clean' /\ sf_idx' # sf_idx =>
       IF outcome.sf_idx = NSF - 1
       THEN outcome'.sf_idx = 0 /\ outcome'.sfn = (outcome.sfn + 1) % SfnMod
       ELSE outcome'.sf_idx = outcome.sf_idx + 1 /\ outcome'.sfn = outcome.sfn]_vars

\* An undisturbed object gives up TRACK only in a frame in which the cell sends no
\* burst: an aligned receiver looks for its SSB at the right place of the right
\* half frame.  It does look in frames without a burst when the cell's period is
\* 20 ms or more, because `% periodicity_ms / 10' of ue_sync_nr.c:208 lets ten
\* frames in a row pass.
KeepsTrack ==
  [][state = "TRACK" /\ clean /\ state' # "TRACK" /\ disturb' = disturb =>
       sf_idx < NSF \div 2 /\ ~CarriesBurst(sfn)]_vars

\* The object tracks an SSB of subframe 0.  The state machine sees the counter as
\* 10, never as 0, in that subframe (ue_sync_nr.c:320-338), so no SSB is decoded
\* again, and a loss of samples goes unnoticed.
NeverRetracked == state = "TRACK" /\ candidate_sf_idx(ssb_idx, FALSE) = 0

\* Whatever was lost, the object tracks the cell with correct labels again, a
\* PBCH that is not decoded taking it back to the search, unless its SSB is one
\* that is never tracked again.
Recovers == []<>((state = "TRACK" /\ Aligned) \/ NeverRetracked)
=============================================================================
