-------------------------- MODULE SlotTiming_proofs --------------------------
(***************************************************************************)
(* Proofs about the two modules that say in which slot NR-Scope is and     *)
(* where it looks.  UeSyncNr, for every frame count, subframe length, SSB  *)
(* pattern, set of beams and pair of periods: the types and the alignment  *)
(* while tracking, then what two successive calls report and what loses    *)
(* the track.  Coreset0, for every numerology of NR and every row of table *)
(* 13-11 (the run of TLC has 30 kHz only): where SIB1Loop looks for SIB 1. *)
(***************************************************************************)
EXTENDS UeSyncNr, Coreset0, TLAPS

USE DEF NSF

-----------------------------------------------------------------------------
(* Cell time.                                                              *)

\* Cell time is a record: two points are equal when their fields are.
LEMMA CellTimeEq ==
  ASSUME NEW t \in CellTime, NEW u \in CellTime,
         t.sfn = u.sfn, t.sf = u.sf, t.sym = u.sym
  PROVE  t = u
  BY DEF CellTime

\* The subframe after t: its fields.
LEMMA NextSfFields ==
  ASSUME NEW t \in CellTime
  PROVE  /\ NextSf(t) \in CellTime
         /\ NextSf(t).sym = t.sym
         /\ NextSf(t).sf = IF t.sf = 9 THEN 0 ELSE t.sf + 1
         /\ NextSf(t).sfn = IF t.sf = 9 THEN NextSfn(t.sfn) ELSE t.sfn
  <1>1. t.sfn \in 0..(SfnMod - 1) /\ t.sf \in 0..9 /\ t.sym \in 0..(SfLen - 1)
    BY DEF CellTime
  <1>2. NextSfn(t.sfn) \in 0..(SfnMod - 1)
    BY <1>1, SizeAssumption DEF NextSfn
  <1> QED
    BY <1>1, <1>2 DEF NextSf, CellTime

\* The subframe before t: its fields.
LEMMA PrevSfFields ==
  ASSUME NEW t \in CellTime
  PROVE  /\ PrevSf(t) \in CellTime
         /\ PrevSf(t).sym = t.sym
         /\ PrevSf(t).sf = IF t.sf = 0 THEN 9 ELSE t.sf - 1
         /\ PrevSf(t).sfn = IF t.sf = 0 THEN PrevSfn(t.sfn) ELSE t.sfn
  <1>1. t.sfn \in 0..(SfnMod - 1) /\ t.sf \in 0..9 /\ t.sym \in 0..(SfLen - 1)
    BY DEF CellTime
  <1>2. PrevSfn(t.sfn) \in 0..(SfnMod - 1)
    BY <1>1, SizeAssumption DEF PrevSfn
  <1> QED
    BY <1>1, <1>2 DEF PrevSf, CellTime

\* The two frame-number steps are inverse.
LEMMA SfnInverse ==
  ASSUME NEW n \in 0..(SfnMod - 1)
  PROVE  NextSfn(PrevSfn(n)) = n /\ PrevSfn(NextSfn(n)) = n
  BY SizeAssumption DEF NextSfn, PrevSfn

\* Stepping one subframe back and forth returns to the same subframe.
LEMMA SfInverse ==
  ASSUME NEW t \in CellTime
  PROVE  /\ NextSf(PrevSf(t)).sf = t.sf /\ NextSf(PrevSf(t)).sfn = t.sfn
         /\ PrevSf(NextSf(t)).sf = t.sf /\ PrevSf(NextSf(t)).sfn = t.sfn
  <1>1. t.sfn \in 0..(SfnMod - 1) /\ t.sf \in 0..9
    BY DEF CellTime
  <1>2. NextSfn(PrevSfn(t.sfn)) = t.sfn /\ PrevSfn(NextSfn(t.sfn)) = t.sfn
    BY <1>1, SfnInverse, Zenon
  <1> QED
    BY <1>1, <1>2 DEF NextSf, PrevSf

\* A shift of at most one subframe stays in cell time and moves the symbol.
LEMMA ShiftFields ==
  ASSUME NEW t \in CellTime, NEW n \in (-SfLen)..SfLen
  PROVE  /\ Shift(t, n) \in CellTime
         /\ t.sym + n < 0 =>
              /\ Shift(t, n).sym = t.sym + n + SfLen
              /\ Shift(t, n).sf = PrevSf(t).sf
              /\ Shift(t, n).sfn = PrevSf(t).sfn
         /\ t.sym + n \in 0..(SfLen - 1) =>
              /\ Shift(t, n).sym = t.sym + n
              /\ Shift(t, n).sf = t.sf
              /\ Shift(t, n).sfn = t.sfn
         /\ t.sym + n >= SfLen =>
              /\ Shift(t, n).sym = t.sym + n - SfLen
              /\ Shift(t, n).sf = NextSf(t).sf
              /\ Shift(t, n).sfn = NextSf(t).sfn
  <1>1. NextSf(t) \in CellTime /\ PrevSf(t) \in CellTime
    BY NextSfFields, PrevSfFields, Zenon
  <1>2. t.sym \in 0..(SfLen - 1)
    BY Zenon DEF CellTime
  <1>3. CASE t.sym + n < 0
    <2>1. Shift(t, n) = [PrevSf(t) EXCEPT !.sym = t.sym + n + SfLen]
      BY <1>3, Zenon DEF Shift
    <2>2. t.sym + n + SfLen \in 0..(SfLen - 1) /\ ~(t.sym + n >= SfLen)
      BY <1>2, <1>3, SizeAssumption
    <2> QED
      BY <2>1, <2>2, <1>1, <1>3, SizeAssumption DEF CellTime
  <1>4. CASE t.sym + n \in 0..(SfLen - 1)
    BY <1>2, <1>4, SizeAssumption DEF Shift, CellTime
  <1>5. CASE t.sym + n >= SfLen
    <2>1. Shift(t, n) = [NextSf(t) EXCEPT !.sym = t.sym + n - SfLen]
      BY <1>5, <1>2, SizeAssumption DEF Shift
    <2>2. t.sym + n - SfLen \in 0..(SfLen - 1) /\ ~(t.sym + n < 0)
      BY <1>2, <1>5, SizeAssumption
    <2> QED
      BY <2>1, <2>2, <1>1, <1>5, SizeAssumption DEF CellTime
  <1> QED
    BY <1>2, <1>3, <1>4, <1>5, SizeAssumption

\* Shifting by nothing.
LEMMA ShiftZero ==
  ASSUME NEW t \in CellTime
  PROVE  Shift(t, 0) = t
  <1>1. t.sym \in 0..(SfLen - 1) /\ 0 \in (-SfLen)..SfLen /\ t.sym + 0 = t.sym
    BY SizeAssumption DEF CellTime
  <1>2. /\ Shift(t, 0) \in CellTime
        /\ Shift(t, 0).sym = t.sym /\ Shift(t, 0).sf = t.sf /\ Shift(t, 0).sfn = t.sfn
    BY <1>1, ShiftFields, Zenon
  <1> QED
    BY <1>2, CellTimeEq, Zenon

\* The start of the subframe that t lies in.
SfStart(t) == [sfn |-> t.sfn, sf |-> t.sf, sym |-> 0]

\* If the point s symbols after t is symbol k of its subframe, then moving the
\* window that follows t by s - k symbols puts it on the subframe after the
\* one that point lies in.
LEMMA ShiftAligns ==
  ASSUME NEW t \in CellTime,
         NEW s \in (-SfLen)..SfLen, NEW k \in 0..(SfLen - 1),
         s - k \in (-SfLen)..SfLen,
         Shift(t, s).sym = k
  PROVE  Shift(NextSf(t), s - k) = NextSf(SfStart(Shift(t, s)))
  <1> DEFINE u == NextSf(t)
             p == Shift(t, s)
             n == s - k
  <1>1. u \in CellTime /\ p \in CellTime /\ SfStart(p) \in CellTime
    BY NextSfFields, ShiftFields, SizeAssumption DEF CellTime, SfStart
  <1>2. t.sym \in 0..(SfLen - 1) /\ u.sym = t.sym
    BY NextSfFields, Zenon DEF CellTime
  <1>n. n \in (-SfLen)..SfLen /\ k = p.sym
    BY Zenon
  <1>m. n = s - k
    BY Zenon
  <1>p. p = Shift(t, s)
    BY Zenon
  <1>u. u = NextSf(t)
    BY Zenon
  <1> SUFFICES Shift(u, n) = NextSf(SfStart(p))
    BY Zenon
  <1> HIDE DEF u, p, n
  <1>3. CASE t.sym + s < 0
    <2>1. k = t.sym + s + SfLen /\ p.sf = PrevSf(t).sf /\ p.sfn = PrevSf(t).sfn
      BY <1>3, <1>p, <1>n, ShiftFields, Zenon
    <2>2. u.sym + n = -SfLen
      BY <2>1, <1>2, <1>m, SizeAssumption
    <2>3. Shift(u, n).sym = 0 /\ Shift(u, n).sf = PrevSf(u).sf
             /\ Shift(u, n).sfn = PrevSf(u).sfn /\ Shift(u, n) \in CellTime
      <3>1. u.sym + n < 0 /\ u.sym + n + SfLen = 0
        BY <2>2, <1>2, <1>n, SizeAssumption
      <3> QED
        BY <3>1, <1>1, <1>n, ShiftFields, Zenon
    <2>4. PrevSf(u).sf = t.sf /\ PrevSf(u).sfn = t.sfn
      BY <1>u, SfInverse, Zenon
    <2>5. /\ NextSf(SfStart(p)) \in CellTime
          /\ NextSf(SfStart(p)).sym = 0
          /\ NextSf(SfStart(p)).sf = t.sf
          /\ NextSf(SfStart(p)).sfn = t.sfn
      <3>1. NextSf(SfStart(p)).sf = NextSf(PrevSf(t)).sf
            /\ NextSf(SfStart(p)).sfn = NextSf(PrevSf(t)).sfn
        BY <2>1, Zenon DEF SfStart, NextSf
      <3> QED
        BY <3>1, <1>1, SfInverse, NextSfFields, Zenon DEF SfStart
    <2> QED
      BY <2>3, <2>4, <2>5, CellTimeEq, Zenon
  <1>4. CASE t.sym + s \in 0..(SfLen - 1)
    <2>1. k = t.sym + s /\ p.sf = t.sf /\ p.sfn = t.sfn
      BY <1>4, <1>p, <1>n, ShiftFields, Zenon
    <2>2. u.sym + n = 0
      BY <2>1, <1>2, <1>m, SizeAssumption
    <2>3. Shift(u, n).sym = 0 /\ Shift(u, n).sf = u.sf
             /\ Shift(u, n).sfn = u.sfn /\ Shift(u, n) \in CellTime
      <3>1. u.sym + n \in 0..(SfLen - 1) /\ u.sym + n = 0
        BY <2>2, <1>2, <1>n, SizeAssumption
      <3> QED
        BY <3>1, <1>1, <1>n, ShiftFields, Zenon
    <2>4. /\ NextSf(SfStart(p)) \in CellTime
          /\ NextSf(SfStart(p)).sym = 0
          /\ NextSf(SfStart(p)).sf = u.sf
          /\ NextSf(SfStart(p)).sfn = u.sfn
      BY <2>1, <1>1, <1>u, NextSfFields, Zenon DEF SfStart, NextSf
    <2> QED
      BY <2>3, <2>4, <1>1, CellTimeEq, Zenon
  <1>5. CASE t.sym + s >= SfLen
    <2>1. k = t.sym + s - SfLen /\ p.sf = u.sf /\ p.sfn = u.sfn
      BY <1>5, <1>p, <1>n, <1>u, ShiftFields, Zenon
    <2>2. u.sym + n = SfLen
      BY <2>1, <1>2, <1>m, SizeAssumption
    <2>3. Shift(u, n).sym = 0 /\ Shift(u, n).sf = NextSf(u).sf
             /\ Shift(u, n).sfn = NextSf(u).sfn /\ Shift(u, n) \in CellTime
      <3>1. u.sym + n >= SfLen /\ u.sym + n - SfLen = 0
        BY <2>2, <1>2, <1>n, SizeAssumption
      <3> QED
        BY <3>1, <1>1, <1>n, ShiftFields, Zenon
    <2>4. /\ NextSf(SfStart(p)) \in CellTime
          /\ NextSf(SfStart(p)).sym = 0
          /\ NextSf(SfStart(p)).sf = NextSf(u).sf
          /\ NextSf(SfStart(p)).sfn = NextSf(u).sfn
      BY <2>1, <1>1, <1>u, NextSfFields DEF SfStart, NextSf
    <2> QED
      BY <2>3, <2>4, CellTimeEq, Zenon
  <1> QED
    BY <1>2, <1>3, <1>4, <1>5, SizeAssumption

-----------------------------------------------------------------------------
(* SSB candidates.                                                         *)

\* A candidate lies wholly inside its subframe.
LEMMA CandidateFacts ==
  ASSUME NEW i \in DOMAIN LFirst
  PROVE  candidate_sf_offset(i) \in 0..(SfLen - SsbLen)
  BY SsbAssumption, Zenon DEF candidate_sf_offset

\* The subframe read from an SSB is the one the cell sent it in.
LEMMA SsbNamesSubframe ==
  ASSUME NEW t \in CellTime, NEW i \in DOMAIN LFirst, SsbStarts(t, i)
  PROVE  /\ candidate_sf_idx(i, t.sf >= NSF \div 2) = t.sf
         /\ t.sym = candidate_sf_offset(i)
  <1>1. t.sf = candidate_sf_idx(i, FALSE) \/ t.sf = candidate_sf_idx(i, TRUE)
    BY Zenon DEF SsbStarts
  <1>2. NSF \div 2 = 5
    BY DEF NSF
  <1>3. CASE t.sf = candidate_sf_idx(i, FALSE)
    <2>1. ~(t.sf >= NSF \div 2)
      BY <1>2, <1>3, SsbAssumption DEF candidate_sf_idx
    <2>2. candidate_sf_idx(i, t.sf >= NSF \div 2) = candidate_sf_idx(i, FALSE)
      BY <2>1, Zenon DEF candidate_sf_idx
    <2> QED
      BY <2>2, <1>3, Zenon DEF SsbStarts
  <1>4. CASE t.sf = candidate_sf_idx(i, TRUE)
    <2>1. (t.sf >= NSF \div 2)
      BY <1>2, <1>4, SsbAssumption DEF candidate_sf_idx
    <2>2. candidate_sf_idx(i, t.sf >= NSF \div 2) = candidate_sf_idx(i, TRUE)
      BY <2>1, Zenon DEF candidate_sf_idx
    <2> QED
      BY <2>2, <1>4, Zenon DEF SsbStarts
  <1> QED
    BY <1>1, <1>3, <1>4, Zenon

\* The end of zerocopy keeps the counters in range, and they then name the
\* subframe after the one they named before.
LEMMA FinishFacts ==
  ASSUME NEW s \in States, NEW f \in 0..10, NEW n \in 0..(SfnMod - 1),
         FinishZerocopy(s, f, n)
  PROVE  /\ state' = s
         /\ sf_idx' \in 0..10
         /\ sfn' \in 0..(SfnMod - 1)
         /\ outcome' \in [in_sync : BOOLEAN, sf_idx : 0..(NSF - 1), sfn : 0..(SfnMod - 1)]
         /\ Label(sf_idx', sfn') = NextSf(Label(f, n))
  <1>1. NextSfn(n) \in 0..(SfnMod - 1)
    BY SizeAssumption DEF NextSfn
  <1>2. CASE f >= 10
    BY <1>1, <1>2 DEF FinishZerocopy, Label, NextSf
  <1>3. CASE ~(f >= 10)
    BY <1>1, <1>3 DEF FinishZerocopy, Label, NextSf
  <1> QED
    BY <1>2, <1>3, Zenon

\* What an update from an SSB sent at t leaves behind: counters that name the
\* subframe after t's, and the measured delay as the next offset.
LEMMA UpdateFacts ==
  ASSUME TypeOK, NEW d \in (-SfLen)..SfLen, NEW i \in DOMAIN LFirst,
         NEW t \in CellTime, SsbStarts(t, i), UpdateSsb(d, i, t)
  PROVE  /\ state' \in States /\ offset' \in (-SfLen)..SfLen
         /\ ssb_idx' \in DOMAIN LFirst /\ feedback' \in BOOLEAN
         /\ sf_idx' \in 0..10 /\ sfn' \in 0..(SfnMod - 1)
         /\ outcome' \in [in_sync : BOOLEAN, sf_idx : 0..(NSF - 1), sfn : 0..(SfnMod - 1)]
         /\ Label(sf_idx', sfn') = NextSf(SfStart(t))
         /\ CastKeepsSign => offset' = d
  <1> DEFINE st == IF d < 1 THEN "TRACK" ELSE state
  <1>1. candidate_sf_idx(i, t.sf >= NSF \div 2) = t.sf
    BY SsbNamesSubframe, Zenon
  <1>2. FinishZerocopy(st, candidate_sf_idx(i, t.sf >= NSF \div 2), t.sfn)
    BY Zenon DEF UpdateSsb
  <1>3. FinishZerocopy(st, t.sf, t.sfn)
    BY <1>1, <1>2, Zenon
  <1>4. st \in States
    BY Zenon DEF TypeOK, States
  <1>5. t.sf \in 0..9 /\ t.sfn \in 0..(SfnMod - 1)
    BY DEF CellTime
  <1>6. Label(t.sf, t.sfn) = SfStart(t)
    BY <1>5 DEF Label, SfStart
  <1>7. /\ state' = st /\ sf_idx' \in 0..10 /\ sfn' \in 0..(SfnMod - 1)
        /\ outcome' \in [in_sync : BOOLEAN, sf_idx : 0..(NSF - 1), sfn : 0..(SfnMod - 1)]
        /\ Label(sf_idx', sfn') = NextSf(SfStart(t))
    <2> HIDE DEF st
    <2> QED
      BY <1>3, <1>4, <1>5, <1>6, FinishFacts
  <1>8. /\ offset' \in (-SfLen)..SfLen /\ (CastKeepsSign => offset' = d)
        /\ ssb_idx' \in DOMAIN LFirst /\ feedback' \in BOOLEAN
    <2>1. offset' = (IF d >= 0 \/ CastKeepsSign THEN d ELSE 0) /\ ssb_idx' = i /\ feedback' = FALSE
      BY Zenon DEF UpdateSsb
    <2>2. CASE d >= 0 \/ CastKeepsSign
      <3>1. offset' = d
        BY <2>1, <2>2, Zenon
      <3> QED
        BY <2>1, <3>1, Zenon
    <2>3. CASE ~(d >= 0 \/ CastKeepsSign)
      <3>1. offset' = 0 /\ 0 \in (-SfLen)..SfLen
        BY <2>1, <2>3, SizeAssumption
      <3> QED
        BY <2>1, <2>3, <3>1, Zenon
    <2> QED
      BY <2>2, <2>3, Zenon
  <1> QED
    BY <1>4, <1>7, <1>8, Zenon

\* An SSB that the search can see was really sent, at TrueTime.
LEMMA VisibleFacts ==
  ASSUME TypeOK, NEW v \in VisibleSsb
  PROVE  /\ v[1] \in (-SsbLen)..(SfLen - SsbLen)
         /\ v[2] \in DOMAIN LFirst
         /\ TrueTime(v) \in CellTime
         /\ SsbStarts(TrueTime(v), v[2])
         /\ Contiguous(v) => TrueTime(v) = Shift(WindowStart, v[1])
  <1>1. v[1] \in (-SsbLen)..(SfLen - SsbLen) /\ v[2] \in DOMAIN LFirst
    BY SsbAssumption, Zenon DEF VisibleSsb
  <1>2. /\ v[1] \in (-SfLen)..SfLen /\ -SsbLen \in (-SfLen)..SfLen /\ SsbLen > 0
        /\ air \in CellTime /\ offset \in (-SfLen)..SfLen
    BY <1>1, SizeAssumption DEF TypeOK
  <1>3. WindowStart \in CellTime
    BY <1>2, ShiftFields, Zenon DEF WindowStart
  <1>4. CASE v[1] = -SsbLen
    <2>1. ~(v[1] >= ZeroHead) /\ ~(v[1] \in (1 - SsbLen)..(-1))
      BY <1>2, <1>4, SizeAssumption DEF ZeroHead
    <2>2. tail # NoTail /\ SsbStarts(Shift(tail, -SsbLen), v[2])
      BY <2>1, Zenon DEF VisibleSsb
    <2>3. TrueTime(v) = Shift(tail, -SsbLen)
      BY <1>4, Zenon DEF TrueTime
    <2>4. tail \in CellTime
      BY <2>2, Zenon DEF TypeOK
    <2>5. ASSUME Contiguous(v) PROVE TrueTime(v) = Shift(WindowStart, v[1])
      <3>1. tail = air /\ offset = 0
        BY <2>5, <1>4, <1>2, SizeAssumption DEF Contiguous
      <3>2. WindowStart = air
        BY <3>1, <1>2, ShiftZero, Zenon DEF WindowStart
      <3> QED
        BY <3>1, <3>2, <2>3, <1>4, Zenon
    <2> QED
      BY <1>1, <1>2, <2>2, <2>3, <2>4, <2>5, ShiftFields
  <1>5. CASE v[1] # -SsbLen
    <2>1. SsbStarts(Shift(WindowStart, v[1]), v[2])
      BY <1>5, Zenon DEF VisibleSsb
    <2>2. TrueTime(v) = Shift(WindowStart, v[1])
      BY <1>5, Zenon DEF TrueTime
    <2> QED
      BY <1>1, <1>2, <1>3, <2>1, <2>2, ShiftFields
  <1> QED
    BY <1>4, <1>5, Zenon

-----------------------------------------------------------------------------
(* Type correctness and alignment.                                         *)

\* The inductive invariant: alignment needs only the types beside it.
IInv == TypeOK /\ AlignedInTrack

\* It holds of a freshly initialised object.
LEMMA InitInv == Init => IInv
  <1> SUFFICES ASSUME Init PROVE IInv
    BY Zenon
  <1>1. /\ state = "IDLE" /\ offset = 0 /\ ssb_idx = 0 /\ sf_idx = 0 /\ sfn = 0
        /\ feedback = FALSE /\ clean = FALSE /\ tail = NoTail /\ air \in InitAir
        /\ disturb = 0 /\ outcome = [in_sync |-> FALSE, sf_idx |-> 0, sfn |-> 0]
    BY Zenon DEF Init
  <1>2. /\ air \in CellTime /\ disturb \in 0..MaxDisturb /\ ssb_idx \in DOMAIN LFirst
        /\ offset \in (-SfLen)..SfLen /\ sfn \in 0..(SfnMod - 1) /\ sf_idx \in 0..10
    BY <1>1, SizeAssumption, SsbAssumption, EnvAssumption
  <1>3. outcome \in [in_sync : BOOLEAN, sf_idx : 0..(NSF - 1), sfn : 0..(SfnMod - 1)]
    BY <1>1, SizeAssumption
  <1>4. TypeOK
    BY <1>1, <1>2, <1>3, Zenon DEF TypeOK, States
  <1>5. AlignedInTrack
    BY <1>1, Zenon DEF AlignedInTrack
  <1> QED
    BY <1>4, <1>5, Zenon DEF IInv

\* The window that a call receives, and the one after it.
LEMMA WindowFacts ==
  ASSUME TypeOK
  PROVE  WindowStart \in CellTime /\ NextSf(WindowStart) \in CellTime
  BY ShiftFields, NextSfFields, Zenon DEF TypeOK, WindowStart

\* A window in which nothing is decoded moves both the reception and the
\* counters by one subframe.
LEMMA NoUpdateFacts ==
  ASSUME IInv, NEW s \in States, s = "TRACK" => state = "TRACK", NoUpdate(s),
         air' = NextSf(WindowStart), tail' \in CellTime \cup {NoTail},
         disturb' \in 0..MaxDisturb
  PROVE  IInv'
  <1>1. sf_idx \in 0..10 /\ sfn \in 0..(SfnMod - 1) /\ FinishZerocopy(s, sf_idx, sfn)
        /\ offset' = 0 /\ ssb_idx' = ssb_idx /\ feedback' = feedback /\ clean' = clean
    BY Zenon DEF IInv, TypeOK, NoUpdate
  <1>2. /\ state' = s /\ sf_idx' \in 0..10 /\ sfn' \in 0..(SfnMod - 1)
        /\ outcome' \in [in_sync : BOOLEAN, sf_idx : 0..(NSF - 1), sfn : 0..(SfnMod - 1)]
        /\ Label(sf_idx', sfn') = NextSf(Label(sf_idx, sfn))
    BY <1>1, FinishFacts, Zenon
  <1>3. air' \in CellTime
    BY WindowFacts, Zenon DEF IInv
  <1>4. TypeOK'
    BY <1>1, <1>2, <1>3, SizeAssumption DEF IInv, TypeOK
  <1>5. ASSUME state' = "TRACK", clean', CastKeepsSign
        PROVE  Shift(air', offset') = Label(sf_idx', sfn')
    <2>1. WindowStart = Label(sf_idx, sfn)
      BY <1>1, <1>2, <1>5, Zenon DEF IInv, AlignedInTrack, Aligned
    <2>2. Shift(air', offset') = air'
      BY <1>1, <1>3, ShiftZero, Zenon
    <2> QED
      BY <2>1, <2>2, <1>2, Zenon
  <1> QED
    BY <1>4, <1>5, Zenon DEF IInv, AlignedInTrack, Aligned, WindowStart

\* A window in which an SSB is decoded where it was sent leaves the next window
\* aligned, whatever the alignment was.
LEMMA UpdateAligns ==
  ASSUME TypeOK, NEW i \in DOMAIN LFirst,
         NEW s \in (-SsbLen)..(SfLen - SsbLen), NEW t \in CellTime,
         SsbStarts(t, i), UpdateSsb(s - candidate_sf_offset(i), i, t),
         air' = NextSf(WindowStart), tail' \in CellTime \cup {NoTail},
         disturb' \in 0..MaxDisturb, clean' \in BOOLEAN,
         clean' => t = Shift(WindowStart, s)
  PROVE  IInv'
  <1> DEFINE k == candidate_sf_offset(i)
             d == s - k
  <1>1. k \in 0..(SfLen - SsbLen) /\ k \in 0..(SfLen - 1) /\ t.sym = k
    BY CandidateFacts, SsbNamesSubframe, SizeAssumption
  <1>2. d \in (-SfLen)..SfLen /\ s \in (-SfLen)..SfLen
    <2> HIDE DEF k
    <2> QED
      BY <1>1, SizeAssumption
  <1>3. UpdateSsb(d, i, t)
    BY Zenon
  <1>4. WindowStart \in CellTime /\ air' \in CellTime
    BY WindowFacts, Zenon
  <1> HIDE DEF d
  <1>5. /\ state' \in States /\ offset' \in (-SfLen)..SfLen
        /\ ssb_idx' \in DOMAIN LFirst /\ feedback' \in BOOLEAN
        /\ sf_idx' \in 0..10 /\ sfn' \in 0..(SfnMod - 1)
        /\ outcome' \in [in_sync : BOOLEAN, sf_idx : 0..(NSF - 1), sfn : 0..(SfnMod - 1)]
        /\ Label(sf_idx', sfn') = NextSf(SfStart(t))
        /\ CastKeepsSign => offset' = d
    BY <1>2, <1>3, UpdateFacts, Zenon
  <1>6. TypeOK'
    BY <1>4, <1>5, Zenon DEF TypeOK
  <1>7. ASSUME clean', CastKeepsSign
        PROVE  Shift(air', offset') = Label(sf_idx', sfn')
    <2>1. t = Shift(WindowStart, s) /\ offset' = d
      BY <1>7, <1>5, Zenon
    <2>2. Shift(NextSf(WindowStart), s - k) = NextSf(SfStart(Shift(WindowStart, s)))
      <3> HIDE DEF k
      <3>1. s - k \in (-SfLen)..SfLen
        BY <1>2, Zenon DEF d
      <3> QED
        BY <3>1, <2>1, <1>1, <1>2, <1>4, ShiftAligns, Zenon
    <2> QED
      BY <2>1, <2>2, <1>5, Zenon DEF d
  <1> QED
    BY <1>6, <1>7, Zenon DEF IInv, AlignedInTrack, Aligned, WindowStart

\* A call before the configuration only counts.
LEMMA IdleInv ==
  ASSUME IInv, RunIdle
  PROVE  IInv'
  <1>1. /\ TypeOK /\ air' = air /\ tail' = tail /\ offset' = 0 /\ ssb_idx' = ssb_idx
        /\ feedback' = feedback /\ clean' = clean /\ FinishZerocopy("IDLE", sf_idx, sfn)
    BY Zenon DEF IInv, RunIdle, NoUpdate
  <1>2. disturb' \in 0..MaxDisturb
    BY <1>1, EnvAssumption DEF TypeOK, RunIdle, Disturb
  <1>3. "IDLE" \in States /\ sf_idx \in 0..10 /\ sfn \in 0..(SfnMod - 1)
    BY <1>1, Zenon DEF TypeOK, States
  <1>4. /\ state' = "IDLE" /\ sf_idx' \in 0..10 /\ sfn' \in 0..(SfnMod - 1)
        /\ outcome' \in [in_sync : BOOLEAN, sf_idx : 0..(NSF - 1), sfn : 0..(SfnMod - 1)]
    BY <1>1, <1>3, FinishFacts, Zenon
  <1>5. TypeOK'
    BY <1>1, <1>2, <1>3, <1>4, SizeAssumption DEF TypeOK
  <1> QED
    BY <1>4, <1>5, Zenon DEF IInv, AlignedInTrack

\* Searching keeps the invariant: an SSB seen in contiguous samples aligns, one
\* seen in a stale tail leaves the object marked as not clean.
LEMMA FindInv ==
  ASSUME IInv, RunFind
  PROVE  IInv'
  <1>1. /\ TypeOK /\ state = "FIND" /\ air' = NextSf(WindowStart) /\ tail' = air'
    BY Zenon DEF IInv, RunFind
  <1>2. tail' \in CellTime \cup {NoTail}
    BY <1>1, WindowFacts, Zenon
  <1>3. ASSUME NEW v \in VisibleSsb,
               UpdateSsb(v[1] - candidate_sf_offset(v[2]), v[2], TrueTime(v)),
               clean' = Contiguous(v), Quiet
        PROVE  IInv'
    <2>1. disturb' \in 0..MaxDisturb /\ clean' \in BOOLEAN
      BY <1>1, <1>3, Zenon DEF TypeOK, Quiet, Contiguous
    <2>2. /\ v[1] \in (-SsbLen)..(SfLen - SsbLen) /\ v[2] \in DOMAIN LFirst
          /\ TrueTime(v) \in CellTime /\ SsbStarts(TrueTime(v), v[2])
          /\ clean' => TrueTime(v) = Shift(WindowStart, v[1])
      BY <1>1, <1>3, VisibleFacts, Zenon
    <2> QED
      BY <1>1, <1>2, <1>3, <2>1, <2>2, UpdateAligns, Zenon
  <1>4. ASSUME NoUpdate("FIND"), Quiet \/ Disturb
        PROVE  IInv'
    <2>1. disturb' \in 0..MaxDisturb
      BY <1>1, <1>4, EnvAssumption DEF TypeOK, Quiet, Disturb
    <2> QED
      BY <1>1, <1>2, <1>4, <2>1, NoUpdateFacts, Zenon DEF States
  <1> QED
    BY <1>3, <1>4, Zenon DEF RunFind

\* Tracking keeps the invariant.
LEMMA TrackInv ==
  ASSUME IInv, RunTrack
  PROVE  IInv'
  <1>1. /\ TypeOK /\ state = "TRACK" /\ air' = NextSf(WindowStart) /\ tail' = tail
    BY Zenon DEF IInv, RunTrack
  <1>2. tail' \in CellTime \cup {NoTail}
    BY <1>1, Zenon DEF TypeOK
  <1>3. ASSUME NEW s \in {"FIND", "TRACK"}, NoUpdate(s), Quiet \/ Disturb
        PROVE  IInv'
    <2>1. disturb' \in 0..MaxDisturb
      BY <1>1, <1>3, EnvAssumption DEF TypeOK, Quiet, Disturb
    <2> QED
      BY <1>1, <1>2, <1>3, <2>1, NoUpdateFacts, Zenon DEF States
  <1>4. ASSUME TrackSees, UpdateSsb(0, ssb_idx, TrackedTime), clean' = TRUE, Quiet
        PROVE  IInv'
    <2> DEFINE k == candidate_sf_offset(ssb_idx)
    <2>1. ssb_idx \in DOMAIN LFirst /\ SsbStarts(TrackedTime, ssb_idx)
      BY <1>1, <1>4, Zenon DEF TypeOK, TrackSees
    <2>2. k \in 0..(SfLen - SsbLen)
      BY <2>1, CandidateFacts, Zenon
    <2>3. k \in (-SsbLen)..(SfLen - SsbLen) /\ k \in (-SfLen)..SfLen /\ k - k = 0
      <3> HIDE DEF k
      <3> QED
        BY <2>2, SizeAssumption
    <2>4. TrackedTime \in CellTime /\ TrackedTime = Shift(WindowStart, k)
      BY <1>1, <2>3, WindowFacts, ShiftFields, Zenon DEF TrackedTime
    <2>5. disturb' \in 0..MaxDisturb /\ clean' \in BOOLEAN
      BY <1>1, <1>4, Zenon DEF TypeOK, Quiet
    <2>6. UpdateSsb(k - candidate_sf_offset(ssb_idx), ssb_idx, TrackedTime)
      BY <1>4, <2>3, Zenon
    <2> QED
      BY <1>1, <1>2, <2>1, <2>3, <2>4, <2>5, <2>6, UpdateAligns, Zenon
  <1> QED
    BY <1>3, <1>4, Zenon DEF RunTrack

\* A failed receive that zerocopy reports keeps the invariant: the offset was
\* either kept, or consumed by the discarded samples, or lost with the mark.
LEMMA RxErrorSeenInv ==
  ASSUME IInv, RxErrorSeen
  PROVE  IInv'
  <1>1. /\ TypeOK
        /\ state' = state /\ ssb_idx' = ssb_idx /\ sf_idx' = sf_idx /\ sfn' = sfn
        /\ feedback' = feedback /\ outcome' = outcome /\ tail' = tail
    BY Zenon DEF IInv, RxErrorSeen
  <1>2. disturb' \in 0..MaxDisturb
    BY <1>1, EnvAssumption DEF TypeOK, RxErrorSeen, Disturb
  <1>3. CASE UNCHANGED <<offset, air, clean>>
    BY <1>1, <1>2, <1>3, Zenon DEF IInv, TypeOK, AlignedInTrack, Aligned, WindowStart
  <1>4. CASE /\ offset' = 0
             /\ air' = IF offset > 0 THEN WindowStart ELSE air
             /\ clean' = (clean /\ offset >= 0)
    <2>1. air' \in CellTime /\ 0 \in (-SfLen)..SfLen
      BY <1>1, <1>4, WindowFacts, SizeAssumption DEF TypeOK
    <2>2. clean' \in BOOLEAN
      BY <1>4, Zenon
    <2>3. TypeOK'
      BY <1>1, <1>2, <1>4, <2>1, <2>2, Zenon DEF TypeOK
    <2>4. ASSUME clean' PROVE clean /\ Shift(air', offset') = Shift(air, offset)
      <3>1. clean /\ offset >= 0
        BY <1>4, <2>4, Zenon
      <3>2. Shift(air', offset') = air'
        BY <1>4, <2>1, ShiftZero, Zenon
      <3>3. offset = 0 => Shift(air, offset) = air
        BY <1>1, ShiftZero, Zenon DEF TypeOK
      <3>4. offset > 0 \/ offset = 0
        BY <1>1, <3>1, SizeAssumption DEF TypeOK
      <3>5. CASE offset > 0
        BY <3>1, <3>2, <3>5, <1>4, Zenon DEF WindowStart
      <3>6. CASE offset = 0
        BY <3>1, <3>2, <3>3, <3>6, <1>4, Zenon DEF WindowStart
      <3> QED
        BY <3>4, <3>5, <3>6, Zenon
    <2> QED
      BY <1>1, <2>3, <2>4, Zenon DEF IInv, AlignedInTrack, Aligned, WindowStart
  <1> QED
    BY <1>3, <1>4, Zenon DEF RxErrorSeen

\* A failed receive that goes unnoticed clears the mark and keeps the types.
LEMMA RxErrorUnseenInv ==
  ASSUME IInv, RxErrorUnseen
  PROVE  IInv'
  <1>1. TypeOK /\ clean' = FALSE /\ tail' = tail
    BY Zenon DEF IInv, RxErrorUnseen
  <1>2. disturb' \in 0..MaxDisturb
    BY <1>1, EnvAssumption DEF TypeOK, RxErrorUnseen, Disturb
  <1>3. air' \in CellTime
    <2>1. PICK n \in Losses, w \in {WindowStart, air} : air' = Shift(w, n)
      BY Zenon DEF RxErrorUnseen
    <2>2. n \in (-SfLen)..SfLen
      BY EnvAssumption, SizeAssumption
    <2>3. w \in CellTime
      BY <1>1, <2>1, WindowFacts, Zenon DEF TypeOK
    <2> QED
      BY <2>1, <2>2, <2>3, ShiftFields, Zenon
  <1> DEFINE st == IF state = "TRACK" /\ is_ssb_opportunity THEN "FIND" ELSE state
  <1>4. ASSUME offset' = 0, ssb_idx' = ssb_idx, feedback' = feedback,
               FinishZerocopy(st, sf_idx, sfn)
        PROVE  TypeOK'
    <2>1. st \in States /\ sf_idx \in 0..10 /\ sfn \in 0..(SfnMod - 1)
      BY <1>1, Zenon DEF TypeOK, States
    <2> HIDE DEF st
    <2>2. /\ state' \in States /\ sf_idx' \in 0..10 /\ sfn' \in 0..(SfnMod - 1)
          /\ outcome' \in [in_sync : BOOLEAN, sf_idx : 0..(NSF - 1), sfn : 0..(SfnMod - 1)]
      BY <1>4, <2>1, FinishFacts, Zenon
    <2> QED
      <3>0. 0 \in (-SfLen)..SfLen
        BY SizeAssumption
      <3>1. offset' \in (-SfLen)..SfLen /\ clean' \in BOOLEAN
        BY <1>1, <1>4, <3>0, Zenon
      <3>2. ssb_idx' \in DOMAIN LFirst /\ feedback' \in BOOLEAN /\ tail' \in CellTime \cup {NoTail}
        BY <1>1, <1>4, Zenon DEF TypeOK
      <3> QED
        BY <1>2, <1>3, <2>2, <3>1, <3>2, Zenon DEF TypeOK
  <1>5. ASSUME tail # NoTail,
               NEW s \in 0..(SfLen - SsbLen), NEW i \in Beams,
               NEW t \in {Shift(tail, s - SfLen), Shift(air, s)},
               StaleSsb(s, i, t), UpdateSsb(s - candidate_sf_offset(i), i, t)
        PROVE  TypeOK'
    <2> DEFINE k == candidate_sf_offset(i)
               d == s - k
    <2>1. i \in DOMAIN LFirst /\ tail \in CellTime /\ air \in CellTime
      BY <1>1, <1>5, SsbAssumption, Zenon DEF TypeOK
    <2>3. k \in 0..(SfLen - SsbLen)
      BY <2>1, CandidateFacts, Zenon
    <2>4. d \in (-SfLen)..SfLen /\ s - SfLen \in (-SfLen)..SfLen /\ s \in (-SfLen)..SfLen
      <3> HIDE DEF k
      <3> QED
        BY <2>3, SizeAssumption
    <2>5. t \in CellTime
      BY <2>1, <2>4, ShiftFields, Zenon
    <2>6. SsbStarts(t, i) /\ UpdateSsb(d, i, t)
      BY <1>5, Zenon DEF StaleSsb
    <2> HIDE DEF d
    <2>7. /\ state' \in States /\ offset' \in (-SfLen)..SfLen
          /\ ssb_idx' \in DOMAIN LFirst /\ feedback' \in BOOLEAN
          /\ sf_idx' \in 0..10 /\ sfn' \in 0..(SfnMod - 1)
          /\ outcome' \in [in_sync : BOOLEAN, sf_idx : 0..(NSF - 1), sfn : 0..(SfnMod - 1)]
      BY <1>1, <2>1, <2>4, <2>5, <2>6, UpdateFacts, Zenon
    <2> QED
      BY <1>1, <1>2, <1>3, <2>7, Zenon DEF TypeOK
  <1>6. TypeOK'
    BY <1>4, <1>5, Zenon DEF RxErrorUnseen
  <1> QED
    BY <1>1, <1>6, Zenon DEF IInv, AlignedInTrack

\* Every step keeps the invariant.
LEMMA NextInv == IInv /\ [Next]_vars => IInv'
  <1> SUFFICES ASSUME IInv, [Next]_vars PROVE IInv'
    BY Zenon
  <1>0. CASE RunIdle
    BY <1>0, IdleInv, Zenon
  <1>1. CASE RunFind
    BY <1>1, FindInv, Zenon
  <1>2. CASE RunTrack
    BY <1>2, TrackInv
  <1>3. CASE RxErrorSeen
    BY <1>3, RxErrorSeenInv
  <1>4. CASE RxErrorUnseen
    BY <1>4, RxErrorUnseenInv
  <1>5. CASE RxDiscardUnseen
    <2>1. /\ disturb' \in 0..MaxDisturb /\ offset' \in (-SfLen)..SfLen /\ clean' = FALSE
      BY <1>5, EnvAssumption, SizeAssumption DEF IInv, TypeOK, RxDiscardUnseen, Disturb
    <2> QED
      BY <1>5, <2>1, Zenon DEF IInv, TypeOK, AlignedInTrack, RxDiscardUnseen
  <1>6. CASE RxLoss
    <2>1. disturb' \in 0..MaxDisturb /\ clean' = FALSE
      BY <1>6, EnvAssumption DEF IInv, TypeOK, RxLoss, Disturb
    <2>2. PICK n \in Losses : air' = Shift(air, n)
      BY <1>6, Zenon DEF RxLoss
    <2>3. n \in (-SfLen)..SfLen
      BY EnvAssumption, SizeAssumption
    <2>4. air' \in CellTime
      BY <2>2, <2>3, ShiftFields, Zenon DEF IInv, TypeOK
    <2> QED
      BY <1>6, <2>1, <2>4, Zenon DEF IInv, TypeOK, AlignedInTrack, RxLoss
  <1>7. CASE SetCfg
    <2>1. disturb' \in 0..MaxDisturb
      BY <1>7, EnvAssumption DEF IInv, TypeOK, SetCfg, Disturb, Quiet
    <2> QED
      BY <1>7, <2>1, Zenon DEF IInv, TypeOK, AlignedInTrack, SetCfg, States
  <1>8. CASE Feedback
    BY <1>8, Zenon DEF IInv, TypeOK, AlignedInTrack, Aligned, WindowStart, Feedback
  <1>10. CASE FsmError
    <2>1. disturb' \in 0..MaxDisturb /\ offset' \in (-SfLen)..SfLen /\ clean' = FALSE
      BY <1>10, EnvAssumption, SizeAssumption DEF IInv, TypeOK, FsmError, Disturb
    <2>2. air' \in CellTime
      BY <1>10, WindowFacts, Zenon DEF IInv, FsmError
    <2>3. tail' \in CellTime \cup {NoTail}
      BY <1>10, <2>2, Zenon DEF IInv, TypeOK, FsmError
    <2> QED
      BY <1>10, <2>1, <2>2, <2>3, Zenon DEF IInv, TypeOK, AlignedInTrack, FsmError
  <1>9. CASE UNCHANGED vars
    BY <1>9, Zenon DEF IInv, TypeOK, AlignedInTrack, Aligned, WindowStart, vars
  <1> QED
    BY <1>0, <1>1, <1>2, <1>3, <1>4, <1>5, <1>6, <1>7, <1>8, <1>9, <1>10, Zenon DEF Next, Zerocopy

\* Every variable of the synchronisation object stays in its range: the frame
\* counter below its modulus, the subframe counter at most ten, the sample
\* offset within one subframe either way.
THEOREM TypeCorrect == Spec => []TypeOK
  <1>1. IInv => TypeOK
    BY Zenon DEF IInv
  <1> QED
    BY <1>1, InitInv, NextInv, PTL DEF Spec

\* While the object tracks a cell whose SSB it read from contiguous samples,
\* the next window is exactly the subframe its counters announce.
THEOREM Alignment == Spec => []AlignedInTrack
  <1>1. IInv => AlignedInTrack
    BY Zenon DEF IInv
  <1> QED
    BY <1>1, InitInv, NextInv, PTL DEF Spec

-----------------------------------------------------------------------------
(* The labels reported one after another, and the SSB looked for again.    *)

\* What the counters keep of the last report and of the last SSB.
Reported ==
  /\ state = "TRACK" => outcome.in_sync /\ ssb_idx \in Beams
  /\ outcome.in_sync => sf_idx = outcome.sf_idx + 1 /\ sfn = outcome.sfn
  /\ outcome.in_sync /\ clean /\ CastKeepsSign => Aligned
  /\ offset # 0 => \E h \in BOOLEAN : sf_idx = candidate_sf_idx(ssb_idx, h) + 1

SInv == IInv /\ Reported

\* The SSBs of the cell end before their subframe does, as they do in every
\* pattern of ssb_first_symbol.
InsideSubframe == \A i \in Beams : candidate_sf_offset(i) < SfLen - SsbLen

\* An object set for SSBs in both halves of the frame is on a cell that sends them.
HalvesAgree == PeriodMs < 10 => CellPeriodMs < 10

\* The subframe of a candidate is one of a frame.
LEMMA CandidateSubframe ==
  ASSUME NEW i \in DOMAIN LFirst, NEW h \in BOOLEAN
  PROVE  candidate_sf_idx(i, h) \in (IF h THEN 5..9 ELSE 0..4)
<1>1. LFirst[i] \div SfLen \in 0..4 /\ 10 \div 2 = 5
  BY SsbAssumption
<1>2. CASE h = TRUE
  BY <1>1, <1>2 DEF candidate_sf_idx
<1>3. CASE h = FALSE
  BY <1>1, <1>3 DEF candidate_sf_idx
<1> QED
  BY <1>2, <1>3, Zenon

\* What the report of a call and its counters have to do with each other.
LEMMA FinishReports ==
  ASSUME NEW s \in States, NEW f \in 0..10, NEW n \in 0..(SfnMod - 1),
         FinishZerocopy(s, f, n)
  PROVE  /\ state' = s /\ outcome'.in_sync = (s = "TRACK")
         /\ outcome'.sf_idx = Label(f, n).sf /\ outcome'.sfn = Label(f, n).sfn
         /\ sf_idx' = outcome'.sf_idx + 1 /\ sfn' = outcome'.sfn
         /\ f < 10 => sf_idx' = f + 1
<1>1. CASE f >= 10
  BY <1>1 DEF FinishZerocopy, Label
<1>2. CASE ~(f >= 10)
  BY <1>2, Zenon DEF FinishZerocopy, Label
<1> QED
  BY <1>1, <1>2, Zenon

\* The frame number counts modulo SfnMod.
LEMMA NextSfnMod ==
  ASSUME NEW n \in 0..(SfnMod - 1)
  PROVE  NextSfn(n) = (n + 1) % SfnMod
<1>1. CASE n = SfnMod - 1
  <2>1. n + 1 = SfnMod /\ SfnMod % SfnMod = 0
    BY <1>1, SizeAssumption
  <2> QED
    BY <1>1, <2>1, Zenon DEF NextSfn
<1>2. CASE n # SfnMod - 1
  <2>1. n + 1 \in 0..(SfnMod - 1)
    BY <1>2, SizeAssumption
  <2>2. (n + 1) % SfnMod = n + 1
    BY <2>1, SizeAssumption
  <2> QED
    BY <1>2, <2>2, Zenon DEF NextSfn
<1> QED
  BY <1>1, <1>2, Zenon

\* A call without a decoded SSB keeps the relation.
LEMMA NoUpdateReported ==
  ASSUME SInv, IInv', NEW s \in States, s = "TRACK" => state = "TRACK", NoUpdate(s)
  PROVE  Reported'
<1>1. /\ sf_idx \in 0..10 /\ sfn \in 0..(SfnMod - 1) /\ FinishZerocopy(s, sf_idx, sfn)
      /\ offset' = 0 /\ ssb_idx' = ssb_idx
  BY Zenon DEF SInv, IInv, TypeOK, NoUpdate
<1>2. /\ state' = s /\ outcome'.in_sync = (s = "TRACK")
      /\ sf_idx' = outcome'.sf_idx + 1 /\ sfn' = outcome'.sfn
  BY <1>1, FinishReports, Zenon
<1>3. s = "TRACK" => ssb_idx \in Beams
  BY Zenon DEF SInv, Reported
<1>4. outcome'.in_sync /\ clean' /\ CastKeepsSign => Aligned'
  BY <1>2, Zenon DEF IInv, AlignedInTrack
<1> QED
  BY <1>1, <1>2, <1>3, <1>4, Zenon DEF Reported

\* So does a call that decodes SSB i.
LEMMA UpdateReported ==
  ASSUME SInv, IInv', NEW i \in Beams, NEW d \in (-SfLen)..SfLen, NEW t \in CellTime,
         SsbStarts(t, i), UpdateSsb(d, i, t)
  PROVE  Reported' /\ outcome'.sf_idx = t.sf /\ outcome'.sfn = t.sfn
<1> DEFINE h == t.sf >= NSF \div 2
           s == IF d < 1 THEN "TRACK" ELSE state
<1>1. i \in DOMAIN LFirst /\ h \in BOOLEAN /\ s \in States
  BY SsbAssumption DEF SInv, IInv, TypeOK, States
<1>2. candidate_sf_idx(i, h) = t.sf /\ t.sf \in 0..9 /\ t.sfn \in 0..(SfnMod - 1)
  BY <1>1, SsbNamesSubframe DEF CellTime
<1>3. FinishZerocopy(s, t.sf, t.sfn) /\ ssb_idx' = i
  BY <1>2, Zenon DEF UpdateSsb
<1>4. t.sf \in 0..10 /\ t.sf < 10 /\ Label(t.sf, t.sfn).sf = t.sf /\ Label(t.sf, t.sfn).sfn = t.sfn
  BY <1>2 DEF Label
<1> HIDE DEF s, h
<1>5. /\ state' = s /\ outcome'.in_sync = (s = "TRACK")
      /\ outcome'.sf_idx = t.sf /\ outcome'.sfn = t.sfn
      /\ sf_idx' = outcome'.sf_idx + 1 /\ sfn' = outcome'.sfn
  BY <1>1, <1>2, <1>3, <1>4, FinishReports, Zenon
<1>6. sf_idx' = candidate_sf_idx(ssb_idx', h) + 1
  BY <1>2, <1>3, <1>5, Zenon
<1>7. outcome'.in_sync /\ clean' /\ CastKeepsSign => Aligned'
  BY <1>5, Zenon DEF IInv, AlignedInTrack
<1>8. \E g \in BOOLEAN : sf_idx' = candidate_sf_idx(ssb_idx', g) + 1
  BY <1>1, <1>6, Zenon
<1> QED
  BY <1>3, <1>5, <1>7, <1>8, Zenon DEF Reported

\* An SSB found by the search: what the update is called with.
LEMMA FoundFacts ==
  ASSUME TypeOK, NEW v \in VisibleSsb
  PROVE  /\ v[2] \in Beams
         /\ v[1] - candidate_sf_offset(v[2]) \in (-SfLen)..SfLen
<1>1. v[1] \in (-SsbLen)..(SfLen - SsbLen) /\ v[2] \in Beams
  BY Zenon DEF VisibleSsb
<1>2. candidate_sf_offset(v[2]) \in 0..(SfLen - SsbLen)
  BY <1>1, CandidateFacts, SsbAssumption, Zenon
<1>3. \A a \in (-SsbLen)..(SfLen - SsbLen), b \in 0..(SfLen - SsbLen) : a - b \in (-SfLen)..SfLen
  BY SizeAssumption
<1> QED
  BY <1>1, <1>2, <1>3, Zenon

\* An SSB tracked: what the update is called with.
LEMMA TrackedFacts ==
  ASSUME TypeOK
  PROVE  /\ candidate_sf_offset(ssb_idx) \in 0..(SfLen - SsbLen)
         /\ TrackedTime \in CellTime
<1>1. candidate_sf_offset(ssb_idx) \in 0..(SfLen - SsbLen)
  BY CandidateFacts, Zenon DEF TypeOK
<1>2. \A k \in 0..(SfLen - SsbLen) : k \in (-SfLen)..SfLen
  BY SizeAssumption
<1> QED
  BY <1>1, <1>2, WindowFacts, ShiftFields, Zenon DEF TrackedTime

\* A step that moves neither the counters nor a window that is still clean.
LEMMA SameReported ==
  ASSUME Reported, UNCHANGED <<outcome, sf_idx, sfn, ssb_idx>>,
         state' = state \/ state' = "FIND", offset' = 0 \/ offset' = offset,
         clean' => clean /\ WindowStart' = WindowStart
  PROVE  Reported'
  BY Zenon DEF Reported, Aligned

\* Every step keeps the relation.
LEMMA NextReported ==
  ASSUME SInv, IInv', Next
  PROVE  Reported'
<1> USE DEF SInv
<1>1. TypeOK /\ TypeOK'
  BY Zenon DEF IInv
<1>2. CASE RunIdle
  BY <1>2, NoUpdateReported, Zenon DEF RunIdle, States
<1>3. CASE RunFind
  <2>1. ASSUME NEW v \in VisibleSsb,
               UpdateSsb(v[1] - candidate_sf_offset(v[2]), v[2], TrueTime(v))
        PROVE  Reported'
    BY <1>1, <2>1, FoundFacts, VisibleFacts, UpdateReported, Zenon
  <2>2. CASE NoUpdate("FIND")
    BY <2>2, NoUpdateReported, Zenon DEF States
  <2> QED
    BY <1>3, <2>1, <2>2, Zenon DEF RunFind
<1>4. CASE RunTrack
  <2>1. CASE NoUpdate("TRACK")
    BY <1>4, <2>1, NoUpdateReported, Zenon DEF RunTrack, States
  <2>2. CASE NoUpdate("FIND")
    BY <2>2, NoUpdateReported DEF States
  <2>3. CASE TrackSees /\ UpdateSsb(0, ssb_idx, TrackedTime)
    <3>1. 0 \in (-SfLen)..SfLen
      BY SizeAssumption
    <3> QED
      BY <1>1, <2>3, <3>1, TrackedFacts, UpdateReported, Zenon DEF TrackSees
  <2> QED
    BY <1>4, <2>1, <2>2, <2>3, Zenon DEF RunTrack
<1>5. CASE RxErrorUnseen
  <2>1. CASE /\ offset' = 0 /\ UNCHANGED <<ssb_idx, feedback>>
             /\ FinishZerocopy(IF state = "TRACK" /\ is_ssb_opportunity THEN "FIND" ELSE state,
                               sf_idx, sfn)
    <3>1. PICK s \in States : /\ s = IF state = "TRACK" /\ is_ssb_opportunity THEN "FIND" ELSE state
                              /\ FinishZerocopy(s, sf_idx, sfn)
      BY <1>1, <2>1, Zenon DEF TypeOK, States
    <3>2. /\ state' = s /\ outcome'.in_sync = (s = "TRACK")
          /\ sf_idx' = outcome'.sf_idx + 1 /\ sfn' = outcome'.sfn
      BY <1>1, <3>1, FinishReports, Zenon DEF TypeOK
    <3>3. s = "TRACK" => ssb_idx \in Beams
      BY <3>1, Zenon DEF Reported
    <3>4. clean' = FALSE
      BY <1>5, Zenon DEF RxErrorUnseen
    <3> QED
      BY <2>1, <3>2, <3>3, <3>4, Zenon DEF Reported
  <2>2. ASSUME tail # NoTail, NEW a \in 0..(SfLen - SsbLen), NEW i \in Beams,
               NEW t \in {Shift(tail, a - SfLen), Shift(air, a)},
               StaleSsb(a, i, t), UpdateSsb(a - candidate_sf_offset(i), i, t)
        PROVE  Reported'
    <3>1. tail \in CellTime /\ air \in CellTime
      BY <1>1, <2>2, Zenon DEF TypeOK
    <3>2. candidate_sf_offset(i) \in 0..(SfLen - SsbLen)
      BY CandidateFacts, SsbAssumption, Zenon
    <3>3. \A b, c \in 0..(SfLen - SsbLen) :
            b - c \in (-SfLen)..SfLen /\ b - SfLen \in (-SfLen)..SfLen /\ b \in (-SfLen)..SfLen
      BY SizeAssumption
    <3>4. /\ a - candidate_sf_offset(i) \in (-SfLen)..SfLen
          /\ a - SfLen \in (-SfLen)..SfLen /\ a \in (-SfLen)..SfLen
      BY <3>2, <3>3, Zenon
    <3>5. t \in CellTime /\ SsbStarts(t, i)
      BY <2>2, <3>1, <3>4, ShiftFields, Zenon DEF StaleSsb
    <3> QED
      BY <2>2, <3>4, <3>5, UpdateReported, Zenon
  <2> QED
    BY <1>5, <2>1, <2>2, Zenon DEF RxErrorUnseen
<1>6. CASE RxErrorSeen
  <2>1. /\ UNCHANGED <<outcome, sf_idx, sfn, ssb_idx, state>>
        /\ offset' = 0 \/ offset' = offset
    BY <1>6, Zenon DEF RxErrorSeen
  <2>2. clean' => clean /\ WindowStart' = WindowStart
    <3>1. CASE UNCHANGED <<offset, air, clean>>
      BY <3>1, Zenon DEF WindowStart
    <3>2. CASE /\ offset' = 0
               /\ air' = IF offset > 0 THEN WindowStart ELSE air
               /\ clean' = (clean /\ offset >= 0)
      <4> SUFFICES ASSUME clean' PROVE clean /\ WindowStart' = WindowStart
        BY Zenon
      <4>1. clean /\ offset >= 0 /\ air' \in CellTime /\ WindowStart' = air'
        BY <1>1, <3>2, ShiftZero, Zenon DEF TypeOK, WindowStart
      <4>2. CASE offset > 0
        BY <3>2, <4>1, <4>2, Zenon DEF WindowStart
      <4>3. CASE offset = 0
        BY <1>1, <3>2, <4>1, <4>3, ShiftZero, Zenon DEF TypeOK, WindowStart
      <4>4. offset \in Int
        BY <1>1, SizeAssumption DEF TypeOK
      <4> QED
        BY <4>1, <4>2, <4>3, <4>4
    <3> QED
      BY <1>6, <3>1, <3>2, Zenon DEF RxErrorSeen
  <2> QED
    BY <2>1, <2>2, SameReported, Zenon
<1>7. CASE RxDiscardUnseen \/ RxLoss \/ FsmError
  BY <1>7, SameReported, Zenon DEF RxDiscardUnseen, RxLoss, FsmError
<1>8. CASE SetCfg \/ Feedback
  BY <1>8, SameReported DEF SetCfg, Feedback, WindowStart
<1> QED
  BY <1>2, <1>3, <1>4, <1>5, <1>6, <1>7, <1>8, Zenon DEF Next, Zerocopy

\* The invariant with the reports.
LEMMA SInvAlways == Spec => []SInv
<1>1. Init => SInv
  BY InitInv DEF Init, SInv, Reported
<1>2. SInv /\ [Next]_vars => SInv'
  <2> SUFFICES ASSUME SInv, [Next]_vars PROVE SInv'
    OBVIOUS
  <2>1. IInv'
    BY NextInv, Zenon DEF SInv
  <2>2. CASE UNCHANGED vars
    BY <2>1, <2>2, SameReported, Zenon DEF SInv, vars, WindowStart
  <2>3. CASE Next
    BY <2>1, <2>3, NextReported, Zenon DEF SInv
  <2> QED
    BY <2>2, <2>3, Zenon
<1> QED
  BY <1>1, <1>2, PTL DEF Spec

\* The label of the counters, after a report in sync.
LEMMA LabelReported ==
  ASSUME SInv, outcome.in_sync
  PROVE  /\ Label(sf_idx, sfn).sym = 0
         /\ Label(sf_idx, sfn).sf = IF outcome.sf_idx = 9 THEN 0 ELSE outcome.sf_idx + 1
         /\ Label(sf_idx, sfn).sfn =
              IF outcome.sf_idx = 9 THEN (outcome.sfn + 1) % SfnMod ELSE outcome.sfn
<1>1. sf_idx = outcome.sf_idx + 1 /\ sfn = outcome.sfn
  BY Zenon DEF SInv, Reported
<1>2. outcome.sf_idx \in 0..9 /\ outcome.sfn \in 0..(SfnMod - 1)
  BY DEF SInv, IInv, TypeOK
<1>3. NextSfn(outcome.sfn) = (outcome.sfn + 1) % SfnMod
  BY <1>2, NextSfnMod, Zenon
<1> QED
  BY <1>1, <1>2, <1>3 DEF Label

\* The next report, of an aligned window, is the label of the counters: without
\* an SSB because they only count, with one because it is in this very window.
LEMMA NextLabel ==
  ASSUME SInv, CastKeepsSign, InsideSubframe, Next, outcome.in_sync, clean, clean',
         outcome'.in_sync, sf_idx' # sf_idx
  PROVE  outcome'.sf_idx = Label(sf_idx, sfn).sf /\ outcome'.sfn = Label(sf_idx, sfn).sfn
<1>1. /\ TypeOK /\ IInv /\ IInv' /\ sf_idx \in 0..10 /\ sfn \in 0..(SfnMod - 1)
      /\ WindowStart \in CellTime
  BY NextInv, WindowFacts, Zenon DEF SInv, IInv, TypeOK
<1>2. WindowStart = Label(sf_idx, sfn) /\ WindowStart.sym = 0
  BY LabelReported, Zenon DEF SInv, Reported, Aligned
<1>3. ASSUME NEW s \in States, NoUpdate(s)
      PROVE  outcome'.sf_idx = Label(sf_idx, sfn).sf /\ outcome'.sfn = Label(sf_idx, sfn).sfn
  BY <1>1, <1>3, FinishReports, Zenon DEF NoUpdate
<1>4. ASSUME NEW i \in Beams, NEW s \in (-SsbLen)..(SfLen - SsbLen), NEW t \in CellTime,
             NEW d \in (-SfLen)..SfLen, t = Shift(WindowStart, s), SsbStarts(t, i),
             UpdateSsb(d, i, t)
      PROVE  outcome'.sf_idx = WindowStart.sf /\ outcome'.sfn = WindowStart.sfn
  <2>1. outcome'.sf_idx = t.sf /\ outcome'.sfn = t.sfn
    BY <1>1, <1>4, UpdateReported, Zenon
  <2>2. t.sym = candidate_sf_offset(i) /\ t.sym \in 0..(SfLen - SsbLen) /\ t.sym < SfLen - SsbLen
    BY <1>4, SsbAssumption, SsbNamesSubframe, CandidateFacts, Zenon DEF InsideSubframe
  <2>3. s \in (-SfLen)..SfLen /\ WindowStart.sym + s = s
    BY <1>2, SizeAssumption
  <2>4. ~(s < 0)
    <3> SUFFICES ASSUME s < 0 PROVE FALSE
      BY Zenon
    <3>1. WindowStart.sym + s < 0
      BY <2>3, Zenon
    <3>2. Shift(WindowStart, s).sym = WindowStart.sym + s + SfLen
      BY <1>1, <2>3, <3>1, ShiftFields, Zenon
    <3>3. t.sym = s + SfLen
      BY <1>4, <2>3, <3>2, Zenon
    <3> QED
      BY <2>2, <3>3, SizeAssumption
  <2>5. WindowStart.sym + s \in 0..(SfLen - 1)
    BY <2>3, <2>4, SizeAssumption
  <2> QED
    BY <1>1, <1>4, <2>1, <2>3, <2>5, ShiftFields, Zenon
<1>5. CASE RunFind
  <2>1. ASSUME NEW v \in VisibleSsb, clean' = Contiguous(v),
               UpdateSsb(v[1] - candidate_sf_offset(v[2]), v[2], TrueTime(v))
        PROVE  outcome'.sf_idx = WindowStart.sf /\ outcome'.sfn = WindowStart.sfn
    BY <1>1, <1>4, <2>1, VisibleFacts, FoundFacts, Zenon
  <2> QED
    BY <1>2, <1>3, <1>5, <2>1, Zenon DEF RunFind, States
<1>6. CASE RunTrack
  <2>1. CASE TrackSees /\ UpdateSsb(0, ssb_idx, TrackedTime)
    <3>1. 0 \in (-SfLen)..SfLen
          /\ \A k \in 0..(SfLen - SsbLen) : k \in (-SsbLen)..(SfLen - SsbLen)
      BY SizeAssumption
    <3>2. candidate_sf_offset(ssb_idx) \in (-SsbLen)..(SfLen - SsbLen) /\ TrackedTime \in CellTime
      BY <1>1, <3>1, TrackedFacts, Zenon
    <3> QED
      BY <1>2, <1>4, <2>1, <3>1, <3>2, Zenon DEF TrackSees, TrackedTime
  <2> QED
    BY <1>3, <1>6, <2>1, Zenon DEF RunTrack, States
<1>7. CASE RunIdle
  BY <1>3, <1>7, Zenon DEF RunIdle, States
<1>8. CASE RxErrorUnseen
  BY <1>8, Zenon DEF RxErrorUnseen
<1>9. CASE RxErrorSeen \/ RxDiscardUnseen \/ RxLoss \/ FsmError \/ SetCfg \/ Feedback
  BY <1>9, Zenon DEF RxErrorSeen, RxDiscardUnseen, RxLoss, FsmError, SetCfg, Feedback
<1> QED
  BY <1>5, <1>6, <1>7, <1>8, <1>9, Zenon DEF Next, Zerocopy

\* The subframes zerocopy reports in sync follow one another, through every SSB
\* decoded again, reconfiguration, failed receive and SFN wrap, for every frame
\* count, subframe length and SSB pattern whose SSBs end before their subframe
\* does, on a target that keeps the sign of a negative delay
\* (ue_sync_nr.c:106-194, 320-341).
THEOREM ReportsConsecutive == CastKeepsSign /\ InsideSubframe => (Spec => OutcomeConsecutive)
<1> SUFFICES ASSUME CastKeepsSign, InsideSubframe PROVE Spec => OutcomeConsecutive
  BY Zenon
<1> DEFINE Step ==
      outcome.in_sync /\ outcome'.in_sync /\ clean /\ clean' /\ sf_idx' # sf_idx =>
        IF outcome.sf_idx = NSF - 1
        THEN outcome'.sf_idx = 0 /\ outcome'.sfn = (outcome.sfn + 1) % SfnMod
        ELSE outcome'.sf_idx = outcome.sf_idx + 1 /\ outcome'.sfn = outcome.sfn
<1>1. SInv /\ [Next]_vars => [Step]_vars
  <2> SUFFICES ASSUME SInv, Next PROVE Step
    BY Zenon
  <2> SUFFICES ASSUME outcome.in_sync, outcome'.in_sync, clean, clean', sf_idx' # sf_idx
               PROVE  IF outcome.sf_idx = 9
                      THEN outcome'.sf_idx = 0 /\ outcome'.sfn = (outcome.sfn + 1) % SfnMod
                      ELSE outcome'.sf_idx = outcome.sf_idx + 1 /\ outcome'.sfn = outcome.sfn
    OBVIOUS
  <2>1. outcome'.sf_idx = Label(sf_idx, sfn).sf /\ outcome'.sfn = Label(sf_idx, sfn).sfn
    BY NextLabel, Zenon
  <2> QED
    BY <2>1, LabelReported, Zenon
<1> QED
  BY <1>1, SInvAlways, PTL DEF Spec, OutcomeConsecutive

\* An aligned object that expects an SSB in its window has it there, unless the
\* cell sends no burst in this frame.
LEMMA OpportunitySees ==
  ASSUME SInv, CastKeepsSign, HalvesAgree, state = "TRACK", clean, is_ssb_opportunity
  PROVE  TrackSees \/ (sf_idx < 5 /\ ~CarriesBurst(sfn))
<1> DEFINE k == candidate_sf_offset(ssb_idx)
           h == sf_idx \div (NSF \div 2) > 0
<1>1. /\ TypeOK /\ ssb_idx \in Beams /\ ssb_idx \in DOMAIN LFirst /\ sf_idx \in 0..10
      /\ WindowStart \in CellTime /\ sfn \in 0..(SfnMod - 1)
  BY WindowFacts, Zenon DEF SInv, IInv, TypeOK, Reported
<1>2. WindowStart = Label(sf_idx, sfn)
  BY Zenon DEF SInv, IInv, AlignedInTrack, Aligned
<1>3. sf_idx = candidate_sf_idx(ssb_idx, h) /\ h \in BOOLEAN
  BY DEF is_ssb_opportunity
<1>4. sf_idx \in 0..9 /\ (h <=> sf_idx >= 5)
  <2>1. candidate_sf_idx(ssb_idx, h) \in (IF h THEN 5..9 ELSE 0..4)
    BY <1>1, <1>3, CandidateSubframe, Zenon
  <2> HIDE DEF h
  <2> QED
    BY <1>3, <2>1
<1>5. PeriodMs >= 10 => ~h
  <2>1. PeriodMs >= 10 => sf_idx \div (NSF \div 2) = 0
    BY Zenon DEF is_ssb_opportunity
  <2> QED
    BY <2>1
<1> HIDE DEF h
<1>6. offset = 0
  <2> SUFFICES ASSUME offset # 0 PROVE FALSE
    BY Zenon
  <2>1. PICK g \in BOOLEAN : sf_idx = candidate_sf_idx(ssb_idx, g) + 1
    BY Zenon DEF SInv, Reported
  <2>2. LFirst[ssb_idx] \div SfLen \in 0..4 /\ 10 \div 2 = 5
    BY <1>1, SsbAssumption
  <2>3. /\ h = TRUE => candidate_sf_idx(ssb_idx, h) = (LFirst[ssb_idx] \div SfLen) + 5
        /\ h = FALSE => candidate_sf_idx(ssb_idx, h) = LFirst[ssb_idx] \div SfLen
        /\ g = TRUE => candidate_sf_idx(ssb_idx, g) = (LFirst[ssb_idx] \div SfLen) + 5
        /\ g = FALSE => candidate_sf_idx(ssb_idx, g) = LFirst[ssb_idx] \div SfLen
    BY <2>2 DEF candidate_sf_idx
  <2>4. PICK q \in 0..4 : q = LFirst[ssb_idx] \div SfLen
    BY <2>2, Zenon
  <2> QED
    BY <1>3, <2>1, <2>3, <2>4
<1>7. k \in 0..(SfLen - SsbLen) /\ k \in 0..(SfLen - 1) /\ k \in (-SfLen)..SfLen
  <2>1. \A b \in 0..(SfLen - SsbLen) : b \in 0..(SfLen - 1) /\ b \in (-SfLen)..SfLen
    BY SizeAssumption
  <2> QED
    BY <1>1, <2>1, CandidateFacts, Zenon
<1>8. WindowStart.sym = 0 /\ WindowStart.sf = sf_idx /\ WindowStart.sfn = sfn
  BY <1>2, <1>4 DEF Label
<1>9. TrackedTime.sym = k /\ TrackedTime.sf = sf_idx /\ TrackedTime.sfn = sfn
  <2> PICK b \in 0..(SfLen - 1) : b = k /\ b \in (-SfLen)..SfLen
    BY <1>7, Zenon
  <2>1. WindowStart.sym + b = b /\ ~(b < 0) /\ ~(b >= SfLen)
    BY <1>8, SizeAssumption
  <2>2. /\ Shift(WindowStart, b).sym = b /\ Shift(WindowStart, b).sf = sf_idx
        /\ Shift(WindowStart, b).sfn = sfn
    BY <1>1, <1>8, <2>1, ShiftFields, Zenon
  <2> QED
    BY <2>2, Zenon DEF TrackedTime
<1>10. ASSUME ~h => CarriesBurst(sfn) PROVE SsbStarts(TrackedTime, ssb_idx)
  <2>1. CASE ~h
    <3>1. h = FALSE /\ CarriesBurst(sfn)
      BY <1>3, <1>10, <2>1, Zenon
    <3> QED
      BY <1>3, <1>9, <3>1, Zenon DEF SsbStarts
  <2>2. CASE h
    <3>1. CellPeriodMs < 10 /\ h = TRUE
      BY <1>3, <1>5, <2>2, EnvAssumption DEF HalvesAgree
    <3> QED
      BY <1>3, <1>9, <3>1, Zenon DEF SsbStarts
  <2> QED
    BY <2>1, <2>2, Zenon
<1>11. k >= ZeroHead
  BY <1>6, <1>7 DEF ZeroHead
<1>12. ~h => sf_idx < 5
  BY <1>4
<1> QED
  BY <1>1, <1>9, <1>10, <1>11, <1>12, Zenon DEF TrackSees

\* An undisturbed, aligned object leaves TRACK only in a frame in which the cell
\* sends no burst: in every other frame it looks for its SSB exactly where the
\* cell sends it, for every period of the cell and of the configuration
\* (ue_sync_nr.c:196-227).
THEOREM TrackAlwaysKept == CastKeepsSign /\ HalvesAgree => (Spec => KeepsTrack)
<1> SUFFICES ASSUME CastKeepsSign, HalvesAgree PROVE Spec => KeepsTrack
  OBVIOUS
<1> DEFINE Step == state = "TRACK" /\ clean /\ state' # "TRACK" /\ disturb' = disturb =>
                     sf_idx < NSF \div 2 /\ ~CarriesBurst(sfn)
<1>1. SInv /\ [Next]_vars => [Step]_vars
  <2> SUFFICES ASSUME SInv, Next, state = "TRACK", clean, state' # "TRACK", disturb' = disturb
               PROVE  sf_idx < NSF \div 2 /\ ~CarriesBurst(sfn)
    BY Zenon
  <2>1. ~Disturb
    BY DEF SInv, IInv, TypeOK, Disturb
  <2>2. CASE RunTrack
    <3>1. CASE NoUpdate("TRACK")
      BY <3>1, Zenon DEF NoUpdate, FinishZerocopy
    <3>2. CASE UpdateSsb(0, ssb_idx, TrackedTime)
      BY <3>2, Zenon DEF UpdateSsb, FinishZerocopy
    <3>3. CASE is_ssb_opportunity /\ IF TrackSees THEN Disturb ELSE Quiet
      <4>1. sf_idx < 5 /\ ~CarriesBurst(sfn)
        BY <2>1, <3>3, OpportunitySees, Zenon
      <4>2. NSF \div 2 = 5
        OBVIOUS
      <4> QED
        BY <4>1, <4>2, Zenon
    <3> QED
      BY <2>2, <3>1, <3>2, <3>3, Zenon DEF RunTrack
  <2>3. CASE RunIdle \/ RunFind
    BY <2>3, Zenon DEF RunIdle, RunFind
  <2>4. CASE RxErrorSeen \/ RxErrorUnseen \/ RxDiscardUnseen \/ RxLoss \/ FsmError \/ SetCfg
    BY <2>1, <2>4, Zenon DEF RxErrorSeen, RxErrorUnseen, RxDiscardUnseen, RxLoss, FsmError, SetCfg
  <2>5. CASE Feedback
    BY <2>5, Zenon DEF Feedback
  <2> QED
    BY <2>2, <2>3, <2>4, <2>5, Zenon DEF Next, Zerocopy
<1> QED
  BY <1>1, SInvAlways, PTL DEF Spec, KeepsTrack

-----------------------------------------------------------------------------
(* Coreset0.                                                               *)

\* The slots of the two frames that the scan has passed.
Passed(odd, slot) == odd < now.odd \/ (odd = now.odd /\ slot < now.slot) \/ pc = "scanned"

\* What DecodeMIB leaves in cs0.
Looked ==
  /\ mib.ss0_idx \in 0..15
  /\ cs0.n_0 = n_0(mib) /\ cs0.sfn_c = sfn_c(mib)

\* Exactly the slots passed that Sib1Gate lets through have been searched.
Scan ==
  \A odd \in 0..1, slot \in 0..(SlotsPerFrame(mib.scs) - 1) :
    <<odd, slot>> \in searched <=> Passed(odd, slot) /\ Sib1Gate(odd, slot \div SlotsPerSf(mib.scs))

\* The inductive invariant.
CInv ==
  /\ mib \in [ss0_idx : Nat, ssb_idx : 0..7, duration : 0..3,
             u : SsbScs, scs : CommonScs]
  /\ CoresetTypeOK
  /\ now \in [odd : 0..1, slot : Nat]
  /\ pc \in {"mib", "failed"} => searched = {} /\ now = [odd |-> 0, slot |-> 0]
  /\ pc \in {"sib1", "scanned"} => Looked /\ Scan

-----------------------------------------------------------------------------
(* The arithmetic.                                                         *)

\* Slots per subframe.
LEMMA SlotValues ==
  ASSUME NEW u \in 0..3
  PROVE  SlotsPerSf(u) \in {1, 2, 4, 8} /\ SlotsPerFrame(u) = 10 * SlotsPerSf(u)
<1>1. 2^0 = 1 /\ 2^1 = 2 /\ 2^2 = 4 /\ 2^3 = 8
  OBVIOUS
<1>2. u = 0 \/ u = 1 \/ u = 2 \/ u = 3
  OBVIOUS
<1> QED
  BY <1>1, <1>2, Zenon DEF SlotsPerSf, SlotsPerFrame

\* The rows of the table: the offsets and factors that occur, no row having both
\* the largest offset and the largest factor, and the factors in halves.
LEMMA TableRows ==
  ASSUME NEW e \in 0..15
  PROVE  /\ coreset_table_13_11[e][1] \in {0, 2, 5, 7} /\ coreset_table_13_11[e][2] \in {0, 1, 2}
         /\ coreset_table_13_11[e][1] = 7 => coreset_table_13_11[e][2] # 2
         /\ e \notin {1, 3, 5, 7} => TwiceM[e] = 2 * coreset_table_13_11[e][2]
         /\ e \in {1, 3, 5, 7} => TwiceM[e] = 1 /\ coreset_table_13_11[e][2] = 0
<1>1. 1 \div 2 = 0
  OBVIOUS
<1>2. \/ e = 0 \/ e = 1 \/ e = 2 \/ e = 3 \/ e = 4 \/ e = 5 \/ e = 6 \/ e = 7
      \/ e = 8 \/ e = 9 \/ e = 10 \/ e = 11 \/ e = 12 \/ e = 13 \/ e = 14 \/ e = 15
  OBVIOUS
<1> QED
  BY <1>1, <1>2 DEF coreset_table_13_11, TwiceM

\* The slot of a MIB lies in the two frames after the even frame starts.
LEMMA SlotCountBound ==
  ASSUME NEW m, m.ss0_idx \in 0..15, m.ssb_idx \in 0..7, m.u \in 0..3
  PROVE  SlotCount(m) \in 0..(2 * SlotsPerFrame(m.u) - 1)
<1>1. PICK o \in {0, 2, 5, 7}, f \in {0, 1, 2} :
        /\ o = coreset_table_13_11[m.ss0_idx][1] /\ f = coreset_table_13_11[m.ss0_idx][2]
        /\ o = 7 => f # 2
  BY TableRows
<1>2. PICK s \in {1, 2, 4, 8} : s = SlotsPerSf(m.u) /\ SlotsPerFrame(m.u) = 10 * s
  BY SlotValues, Zenon
<1>3. SlotCount(m) = o * s + m.ssb_idx * f
  BY <1>1, <1>2, Zenon DEF SlotCount
<1>4. m.ssb_idx * f \in 0..14 /\ (f # 2 => m.ssb_idx * f \in 0..7)
  OBVIOUS
<1>5. o * s \in Nat /\ (o # 7 => o * s <= 5 * s) /\ o * s <= 7 * s
  OBVIOUS
<1> QED
  BY <1>1, <1>2, <1>3, <1>4, <1>5

\* DecodeMIB splits the slot into a slot of a frame and the parity of the frame.
LEMMA LookupFacts ==
  ASSUME NEW m, m.ss0_idx \in 0..15, m.ssb_idx \in 0..7, m.u \in 0..3
  PROVE  /\ n_0(m) \in 0..(SlotsPerFrame(m.u) - 1) /\ sfn_c(m) \in 0..1
         /\ sfn_c(m) * SlotsPerFrame(m.u) + n_0(m) = SlotCount(m)
<1>1. PICK f \in {10, 20, 40, 80} : f = SlotsPerFrame(m.u)
  BY SlotValues
<1>2. PICK c \in 0..(2 * f - 1) : c = SlotCount(m)
  BY <1>1, SlotCountBound
<1>3. \/ c \div f = 0 /\ c % f = c /\ c \in 0..(f - 1)
      \/ c \div f = 1 /\ c % f = c - f /\ c - f \in 0..(f - 1)
  <2>1. CASE c < f
    BY <2>1
  <2>2. CASE ~(c < f)
    BY <2>2
  <2> QED
    BY <2>1, <2>2, Zenon
<1>4. PICK q \in 0..1, r \in 0..(f - 1) : q = c \div f /\ r = c % f /\ q * f + r = c
  <2>1. 0 * f + c = c /\ 1 * f + (c - f) = c
    OBVIOUS
  <2>2. CASE c \div f = 0 /\ c % f = c /\ c \in 0..(f - 1)
    BY <2>1, <2>2
  <2>3. CASE c \div f = 1 /\ c % f = c - f /\ c - f \in 0..(f - 1)
    BY <2>1, <2>3
  <2> QED
    BY <1>3, <2>2, <2>3, Zenon
<1>5. q % 2 = q
  OBVIOUS
<1>6. n_0(m) = r /\ sfn_c(m) = q
  BY <1>1, <1>2, <1>4, <1>5, Zenon DEF n_0, sfn_c
<1> QED
  BY <1>1, <1>2, <1>4, <1>6

-----------------------------------------------------------------------------
(* The scan.                                                               *)

\* The numerology of a MIB.
LEMMA MibNumerology ==
  ASSUME CInv
  PROVE  mib.u \in 0..3 /\ mib.scs \in 0..3 /\ mib.ssb_idx \in 0..7 /\ mib.ss0_idx \in Nat
  BY CoresetAssumption, Zenon DEF CInv

\* DecodeMIB sets cs0 and has searched nothing yet.
LEMMA DecodeCInv ==
  ASSUME CInv, DecodeMIB
  PROVE  CInv'
<1>1. mib.u \in 0..3 /\ mib.scs \in 0..3 /\ mib.ssb_idx \in 0..7 /\ mib.ss0_idx \in Nat
  BY MibNumerology, Zenon
<1>2. /\ pc = "mib" /\ searched = {} /\ now = [odd |-> 0, slot |-> 0]
      /\ UNCHANGED <<mib, now, searched>>
  BY Zenon DEF CInv, DecodeMIB
<1>3. CASE pc' = "failed" /\ UNCHANGED cs0
  BY <1>2, <1>3, Zenon DEF CInv, CoresetTypeOK
<1>4. CASE /\ TableInputOK(mib.ss0_idx, mib.ssb_idx, mib.duration) /\ pc' = "sib1"
           /\ cs0' = [n_0 |-> n_0(mib), sfn_c |-> sfn_c(mib)]
  <2>1. mib.ss0_idx \in 0..15
    BY <1>1, <1>4 DEF TableInputOK
  <2>2. n_0(mib) \in 0..(SlotsPerFrame(mib.u) - 1) /\ sfn_c(mib) \in 0..1
    BY <1>1, <2>1, LookupFacts, Zenon
  <2>3. CoresetTypeOK'
    BY <1>2, <1>4, <2>2, Zenon DEF CInv, CoresetTypeOK
  <2>4. Looked'
    BY <1>2, <1>4, <2>1, Zenon DEF Looked, n_0, sfn_c, SlotCount, SlotsPerFrame, SlotsPerSf
  <2>5. Scan'
    <3>1. ASSUME NEW odd \in 0..1, NEW slot \in Nat
          PROVE  ~Passed(odd, slot)'
      BY <1>2, <1>4 DEF Passed
    <3>2. PICK f \in Nat : f = SlotsPerFrame(mib.scs)
      BY <1>1, SlotValues
    <3> QED
      BY <1>2, <3>1, <3>2 DEF Scan
  <2> QED
    BY <1>2, <1>4, <2>3, <2>4, <2>5, Zenon DEF CInv
<1> QED
  BY <1>3, <1>4, Zenon DEF DecodeMIB

\* One slot of SIB1Loop.
LEMMA SlotCInv ==
  ASSUME CInv, Sib1Slot
  PROVE  CInv'
<1>1. /\ mib.scs \in 0..3 /\ pc = "sib1" /\ UNCHANGED <<mib, cs0>> /\ Looked /\ Scan
      /\ now \in [odd : 0..1, slot : Nat]
  BY MibNumerology, Zenon DEF CInv, Sib1Slot
<1>2. PICK f \in {10, 20, 40, 80} : f = SlotsPerFrame(mib.scs)
  BY <1>1, SlotValues
<1>3. PICK o \in 0..1, k \in 0..(f - 1) : now = [odd |-> o, slot |-> k] /\ o = now.odd /\ k = now.slot
  BY <1>1, <1>2 DEF CInv, CoresetTypeOK
<1>4. /\ now' \in [odd : 0..1, slot : Nat] /\ now'.slot \in 0..(f - 1)
      /\ pc' \in {"sib1", "scanned"}
      /\ \A odd \in 0..1, slot \in 0..(f - 1) :
           Passed(odd, slot)' <=> Passed(odd, slot) \/ (odd = o /\ slot = k)
  <2>1. CASE k + 1 < f
    <3>1. now' = [odd |-> o, slot |-> k + 1] /\ pc' = "sib1"
      BY <1>1, <1>2, <1>3, <2>1, Zenon DEF Sib1Slot
    <3> QED
      BY <1>1, <1>2, <1>3, <2>1, <3>1 DEF Passed
  <2>2. CASE ~(k + 1 < f)
    <3>1. now' = [odd |-> 1 - o, slot |-> 0] /\ pc' = IF o = 1 THEN "scanned" ELSE "sib1"
      BY <1>1, <1>2, <1>3, <2>2, Zenon DEF Sib1Slot
    <3>2. k = f - 1 /\ 1 - o \in 0..1
      BY <1>2, <1>3, <2>2
    <3>3. CASE o = 0
      BY <1>1, <1>2, <1>3, <3>1, <3>2, <3>3 DEF Passed
    <3>4. CASE o = 1
      BY <1>1, <1>2, <1>3, <3>1, <3>2, <3>4 DEF Passed
    <3> QED
      BY <1>3, <3>3, <3>4
  <2> QED
    BY <2>1, <2>2, Zenon
<1>5. searched' = IF Sib1Gate(o, k \div SlotsPerSf(mib.scs)) THEN searched \cup {<<o, k>>} ELSE searched
  BY <1>3, Zenon DEF Sib1Slot
<1>6. CoresetTypeOK'
  BY <1>1, <1>2, <1>3, <1>4, <1>5 DEF CInv, CoresetTypeOK
<1>7. Looked'
  BY <1>1, Zenon DEF Looked, n_0, sfn_c, SlotCount, SlotsPerFrame, SlotsPerSf
<1>8. Scan'
  <2> SUFFICES ASSUME NEW odd \in 0..1, NEW slot \in 0..(f - 1)
               PROVE  <<odd, slot>> \in searched' <=>
                        Passed(odd, slot)' /\ Sib1Gate(odd, slot \div SlotsPerSf(mib.scs))'
    BY <1>1, <1>2, Zenon DEF Scan
  <2>1. Sib1Gate(odd, slot \div SlotsPerSf(mib.scs))' <=> Sib1Gate(odd, slot \div SlotsPerSf(mib.scs))
    BY <1>1, Zenon DEF Sib1Gate
  <2>2. <<odd, slot>> \in searched <=>
          Passed(odd, slot) /\ Sib1Gate(odd, slot \div SlotsPerSf(mib.scs))
    BY <1>1, <1>2, Zenon DEF Scan
  <2>3. <<odd, slot>> \in searched' <=>
          \/ <<odd, slot>> \in searched
          \/ odd = o /\ slot = k /\ Sib1Gate(odd, slot \div SlotsPerSf(mib.scs))
    BY <1>5, Zenon
  <2> QED
    BY <1>4, <2>1, <2>2, <2>3, Zenon
<1> QED
  BY <1>1, <1>4, <1>6, <1>7, <1>8, Zenon DEF CInv

\* The invariant holds of every MIB.
LEMMA CInvAlways == CoresetSpec => []CInv
<1>1. CoresetInit => CInv
  <2> SUFFICES ASSUME CoresetInit PROVE CInv
    OBVIOUS
  <2>1. /\ mib \in [ss0_idx : Nat, ssb_idx : 0..7, duration : 0..3,
                 u : SsbScs, scs : CommonScs]
      /\ mib.u \in 0..3 /\ mib.scs \in 0..3
    BY CoresetAssumption, Zenon DEF CoresetInit
  <2>2. 0 \in 0..(SlotsPerFrame(mib.u) - 1) /\ 0 \in 0..(SlotsPerFrame(mib.scs) - 1)
    BY <2>1, SlotValues
  <2> QED
    BY <2>1, <2>2 DEF CoresetInit, CInv, CoresetTypeOK
<1>2. CInv /\ [CoresetNext]_coreset_vars => CInv'
  <2> SUFFICES ASSUME CInv, [CoresetNext]_coreset_vars PROVE CInv'
    OBVIOUS
  <2>1. CASE UNCHANGED coreset_vars
    <3>1. Looked => Looked'
      BY <2>1, Zenon DEF coreset_vars, Looked, n_0, sfn_c, SlotCount, SlotsPerFrame, SlotsPerSf
    <3>2. Scan => Scan'
      BY <2>1 DEF coreset_vars, Scan, Passed, Sib1Gate, SlotsPerFrame, SlotsPerSf
    <3> QED
      BY <2>1, <3>1, <3>2, Zenon DEF coreset_vars, CInv, CoresetTypeOK
  <2>2. CASE CoresetNext
    BY <2>2, DecodeCInv, SlotCInv, Zenon DEF CoresetNext
  <2> QED
    BY <2>1, <2>2
<1> QED
  BY <1>1, <1>2, PTL DEF CoresetSpec

-----------------------------------------------------------------------------
\* The slot and the frame parity that DecodeMIB computes are in range, and the
\* scan of SIB1Loop stays in its two frames, for every numerology
\* (radio_nr.cc:292-301, 463-470).
THEOREM CoresetTypeCorrect == CoresetSpec => []CoresetTypeOK
<1>1. CInv => CoresetTypeOK
  BY Zenon DEF CInv
<1> QED
  BY <1>1, CInvAlways, PTL

\* n_0 and sfn_c are the slot and the frame of table 13-11 for every SSB of the
\* rows whose M is a whole number and for the first two SSBs of the others, for
\* every numerology: the slot never passes the second frame, where its parity
\* would be wrong (phy_common_nr.c:641-679, radio_nr.cc:292-301).
THEOREM WholeEntriesAlwaysRight == CoresetSpec => []WholeEntriesRight
<1>1. CInv => WholeEntriesRight
  <2> SUFFICES ASSUME CInv, pc \in {"sib1", "scanned"}, mib.scs = mib.u,
                      mib.ss0_idx \notin {1, 3, 5, 7} \/ mib.ssb_idx <= 1
               PROVE  cs0.sfn_c * SlotsPerFrame(mib.u) + cs0.n_0 = TableSlot(mib)
    BY Zenon DEF WholeEntriesRight
  <2>1. mib.u \in 0..3 /\ mib.ssb_idx \in 0..7 /\ Looked /\ mib.ss0_idx \in 0..15
    BY MibNumerology, Zenon DEF CInv, Looked
  <2>2. cs0.sfn_c * SlotsPerFrame(mib.u) + cs0.n_0 = SlotCount(mib)
    BY <2>1, LookupFacts, ZenonT(30) DEF Looked
  <2>3. (mib.ssb_idx * TwiceM[mib.ss0_idx]) \div 2 = mib.ssb_idx * coreset_table_13_11[mib.ss0_idx][2]
    <3>1. CASE mib.ss0_idx \notin {1, 3, 5, 7}
      <4>1. PICK f \in {0, 1, 2} : f = coreset_table_13_11[mib.ss0_idx][2] /\ TwiceM[mib.ss0_idx] = 2 * f
        BY <2>1, <3>1, TableRows, Zenon
      <4>2. \A i \in 0..7 : (i * (2 * f)) \div 2 = i * f
        BY <4>1
      <4> QED
        BY <2>1, <4>1, <4>2, Zenon
    <3>2. CASE mib.ss0_idx \in {1, 3, 5, 7}
      <4>1. TwiceM[mib.ss0_idx] = 1 /\ coreset_table_13_11[mib.ss0_idx][2] = 0
        BY <2>1, <3>2, TableRows, Zenon
      <4>2. \A i \in 0..7 : i <= 1 => (i * 1) \div 2 = i * 0
        OBVIOUS
      <4> QED
        BY <2>1, <3>2, <4>1, <4>2, Zenon
    <3> QED
      BY <3>1, <3>2, Zenon
  <2> QED
    BY <2>1, <2>2, <2>3, Zenon DEF SlotCount, TableSlot
<1> QED
  BY <1>1, CInvAlways, PTL

\* With SSBs of 30 kHz, which the test of SIB1Loop is written for, the scan of two
\* frames searches the subframes of the MIB's slot and of the one after it, for
\* every row of the table, every SSB and every numerology of the PDCCH
\* (radio_nr.cc:454-467).
THEOREM OccasionAlwaysSearched == SsbScs = {1} => (CoresetSpec => []OccasionSearched)
<1> SUFFICES ASSUME SsbScs = {1} PROVE CoresetSpec => []OccasionSearched
  BY Zenon
<1>1. CInv => OccasionSearched
  <2> SUFFICES ASSUME CInv, pc = "scanned",
                      NEW slot \in 0..(SlotsPerFrame(mib.scs) - 1),
                      NEW n \in {cs0.n_0, cs0.n_0 + 1},
                      slot \div SlotsPerSf(mib.scs) = n \div SlotsPerSf(mib.u)
               PROVE  <<cs0.sfn_c, slot>> \in searched
    BY Zenon DEF OccasionSearched
  <2>1. mib.u = 1 /\ Scan
    BY Zenon DEF CInv
  <2>2. SlotsPerSf(mib.u) = 2 /\ SlotsPerFrame(mib.u) = 20
    <3>1. 2^1 = 2
      OBVIOUS
    <3> QED
      BY <2>1, <3>1 DEF SlotsPerSf, SlotsPerFrame
  <2>3. cs0.n_0 \in 0..19 /\ cs0.sfn_c \in 0..1
    BY <2>2 DEF CInv, CoresetTypeOK
  <2>4. \A i \in 0..19 : (i + 1) \div 2 = i \div 2 \/ (i + 1) \div 2 = i \div 2 + 1
    OBVIOUS
  <2>5. n \div 2 = cs0.n_0 \div 2 \/ n \div 2 = cs0.n_0 \div 2 + 1
    BY <2>3, <2>4, Zenon
  <2>6. Sib1Gate(cs0.sfn_c, slot \div SlotsPerSf(mib.scs))
    BY <2>2, <2>5, Zenon DEF Sib1Gate
  <2>7. Passed(cs0.sfn_c, slot)
    BY Zenon DEF Passed
  <2> QED
    BY <2>1, <2>3, <2>6, <2>7, Zenon DEF Scan
<1> QED
  BY <1>1, CInvAlways, PTL
=============================================================================
