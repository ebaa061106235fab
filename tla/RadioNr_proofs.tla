---------------------------- MODULE RadioNr_proofs ----------------------------
(***************************************************************************)
(* What RadioNr promises of NR-Scope, for every number of radios, raster   *)
(* points, trials and slots.                                               *)
(***************************************************************************)
EXTENDS RadioNr, TLAPS

\* A radio, as RadioNr's type invariant has it.
Pcs == {"new", "init", "raster", "trial", "done"} \cup Stages
Rets == {"none", "NR_SUCCESS", "NR_FAILURE"}
RadioType ==
  [pc : Pcs, ss : 1..(NofPoints + 1), trial : 0..NofTrials,
   freq : 0..NofPoints, tuned : 0..NofPoints, found : BOOLEAN,
   slot : 0..SlotsPerSf, occasion : BOOLEAN, sib1 : BOOLEAN,
   tc_rnti : Rntis \cup {NoRnti}, c_rnti : Rntis \cup {NoRnti}, ret : Rets]

\* How far radio x has come in the search, with t its slots searched at each
\* point: it is tuned to the last point it took, unless that was skipped, the
\* trials of that point are counted by trial, and it ends in success only at
\* the end of the raster.
Searching(x, t, C) ==
  /\ x.pc \in {"new", "init"} => x.ss = 1
  /\ x.pc \in {"new", "init", "raster"} => x.ret = "none"
  /\ x.pc \in {"trial"} \cup Stages =>
       /\ x.ss > 1 /\ x.tuned = x.ss - 1 /\ x.freq = x.tuned /\ x.tuned \in Valid
       /\ x.ret = "none"
  /\ x.pc = "trial" => t[x.tuned] = x.trial
  /\ x.pc \in {"new", "init", "raster", "trial"} => ~x.found
  /\ x.pc \in Stages => x.tuned \in C
  /\ x.pc = "done" => x.ret # "none"
  /\ \A p \in Points :
       /\ p \notin Valid \/ p >= x.ss => t[p] = 0
       /\ p \in Valid /\ p < x.ss - 1 => t[p] = NofTrials
       /\ p \in Valid /\ p = x.ss - 1 /\ x.pc = "raster" => t[p] = NofTrials
       /\ p \in Valid /\ x.ret = "NR_SUCCESS" => t[p] = NofTrials

\* main() has spawned the radios before main.spawned and joined those before
\* main.joined; a thread it has joined has ended.
MainInv ==
  /\ \A r \in Radios : (r >= main.spawned => rd[r].pc = "new")
                       /\ (r < main.joined => rd[r].pc = "done")
  /\ main.pc \in {"config", "spawn"} => main.joined = 0
  /\ main.pc \in {"config", "spawn", "join"} => main.ret = "none"
  /\ main.ret = "NR_SUCCESS" => main.joined = NofUsrp

MainType == [pc : {"config", "spawn", "join", "done", "abort"}, spawned : 0..NofUsrp,
             joined : 0..NofUsrp, ret : Rets]

\* The inductive invariant.
IInv ==
  /\ cells \in Airs /\ main \in MainType
  /\ rd \in [Radios -> RadioType] /\ tries \in [Radios -> [Points -> 0..NofTrials]]
  /\ \A r \in Radios : Searching(rd[r], tries[r], cells)
  /\ MainInv

-----------------------------------------------------------------------------
\* Initially no thread runs and no slot was searched.
LEMMA InitIInv == Init => IInv
<1> SUFFICES ASSUME Init PROVE IInv
  OBVIOUS
<1> USE RadioAssumption
<1>1. cells \in Airs /\ main \in MainType
  BY DEF Init, MainType, Rets
<1>2. rd \in [Radios -> RadioType]
  BY DEF Init, RadioType, Pcs, Rets
<1>3. tries \in [Radios -> [Points -> 0..NofTrials]]
  BY DEF Init
<1>4. ASSUME NEW r \in Radios PROVE Searching(rd[r], tries[r], cells)
  <2>1. rd[r].pc = "new" /\ rd[r].ss = 1 /\ rd[r].ret = "none" /\ rd[r].found = FALSE
    BY DEF Init
  <2>2. \A p \in Points : tries[r][p] = 0
    BY DEF Init
  <2>3. \A p \in Points : ~(p < rd[r].ss - 1) /\ ~(p = rd[r].ss - 1)
    BY <2>1 DEF Points
  <2> QED
    BY <2>1, <2>2, <2>3 DEF Searching, Stages
<1>5. MainInv
  BY DEF Init, MainInv, Radios
<1> QED
  BY <1>1, <1>2, <1>3, <1>4, <1>5 DEF IInv

\* A step of one thread that leaves a radio x, with t its slots searched, keeps
\* the invariant when x and t keep its search.
LEMMA ThreadIInv ==
  ASSUME IInv, UNCHANGED <<cells, main>>, NEW r \in Radios,
         rd[r].pc \notin {"new", "done"},
         NEW x \in RadioType, x.pc # "new", NEW t \in [Points -> 0..NofTrials],
         rd' = [rd EXCEPT ![r] = x], tries' = [tries EXCEPT ![r] = t],
         Searching(x, t, cells)
  PROVE  IInv'
<1>1. /\ rd' \in [Radios -> RadioType] /\ rd'[r] = x
      /\ tries' \in [Radios -> [Points -> 0..NofTrials]] /\ tries'[r] = t
      /\ \A q \in Radios : q # r => rd'[q] = rd[q] /\ tries'[q] = tries[q]
  BY DEF IInv
<1>2. \A q \in Radios : Searching(rd'[q], tries'[q], cells)
  BY <1>1 DEF IInv
<1>3. MainInv'
  BY <1>1 DEF IInv, MainInv
<1> QED
  BY <1>1, <1>2, <1>3 DEF IInv

\* A stage after the search leaves alone what the search has set.
LEMMA StageIInv ==
  ASSUME IInv, UNCHANGED <<cells, main, tries>>, NEW r \in Radios,
         rd[r].pc \in Stages,
         NEW x \in RadioType, rd' = [rd EXCEPT ![r] = x],
         x.ss = rd[r].ss, x.tuned = rd[r].tuned, x.freq = rd[r].freq,
         \/ x.pc \in Stages /\ x.ret = rd[r].ret
         \/ x.pc = "done" /\ x.ret = "NR_FAILURE"
  PROVE  IInv'
<1>1. Searching(rd[r], tries[r], cells) /\ tries[r] \in [Points -> 0..NofTrials]
  BY DEF IInv
<1>2. /\ rd[r].pc # "new" /\ rd[r].pc # "done" /\ x.pc # "new" /\ x.pc # "init"
      /\ x.pc # "raster" /\ x.pc # "trial" /\ (x.pc = "done" => x.pc \notin Stages)
  BY DEF Stages
<1>3. Searching(x, tries[r], cells)
  BY <1>1, <1>2 DEF Searching
<1>4. tries' = [tries EXCEPT ![r] = tries[r]]
  BY DEF IInv
<1> QED
  BY <1>1, <1>2, <1>3, <1>4, ThreadIInv, Zenon

\* A configuring stage leads on or ends the thread.
LEMMA ConfigureIInv ==
  ASSUME IInv, UNCHANGED cells, NEW r \in Radios,
         NEW from \in Stages, NEW to \in Stages, Configure(r, from, to)
  PROVE  IInv'
<1>1. rd[r] \in RadioType /\ rd[r].pc \in Stages /\ UNCHANGED <<main, tries>>
  BY DEF IInv, Configure, At
<1>2. CASE rd' = [rd EXCEPT ![r].pc = to, ![r].slot = SlotsPerSf]
  <2> DEFINE x == [rd[r] EXCEPT !.pc = to, !.slot = SlotsPerSf]
  <2>1. SlotsPerSf \in 0..SlotsPerSf
    BY RadioAssumption
  <2>2. x \in RadioType
    BY <1>1, <2>1, Zenon DEF RadioType, Pcs
  <2>3. x.ss = rd[r].ss /\ x.tuned = rd[r].tuned /\ x.freq = rd[r].freq /\ x.pc = to
        /\ x.ret = rd[r].ret
    BY <1>1 DEF RadioType
  <2>4. rd' = [rd EXCEPT ![r] = x]
    BY <1>2, Zenon
  <2> QED
    BY <1>1, <2>2, <2>3, <2>4, StageIInv, Zenon
<1>3. CASE Return(r, "NR_FAILURE")
  <2> DEFINE x == [rd[r] EXCEPT !.pc = "done", !.ret = "NR_FAILURE"]
  <2>1. x \in RadioType
    BY <1>1, Zenon DEF RadioType, Pcs, Rets
  <2>2. x.ss = rd[r].ss /\ x.tuned = rd[r].tuned /\ x.freq = rd[r].freq /\ x.pc = "done"
        /\ x.ret = "NR_FAILURE"
    BY <1>1 DEF RadioType
  <2>3. rd' = [rd EXCEPT ![r] = x]
    BY <1>3, Zenon DEF Return
  <2> QED
    BY <1>1, <2>1, <2>2, <2>3, StageIInv, Zenon
<1> QED
  BY <1>2, <1>3 DEF Configure

\* The loops of SIB 1, MSG 2, MSG 4 and DCI: whatever zerocopy and the slots
\* answer, the thread stays in its stage, moves to a later one or ends.
LEMMA LoopIInv ==
  ASSUME IInv, UNCHANGED cells, NEW r \in Radios,
         \/ Zerocopy(r) \/ SlotWithout(r) \/ SlotError(r)
         \/ Sib1Slot(r) \/ Msg2Slot(r) \/ Msg4Slot(r) \/ DciSlot(r)
  PROVE  IInv'
<1>1. rd[r] \in RadioType /\ UNCHANGED <<main, tries>> /\ rd \in [Radios -> RadioType]
  BY DEF IInv, Zerocopy, SlotWithout, SlotError, Sib1Slot, Msg2Slot, Msg4Slot, DciSlot
<1>2. rd[r].pc \in Stages
  BY DEF Zerocopy, SlotWithout, SlotError, Sib1Slot, Msg2Slot, Msg4Slot, DciSlot, InSlot, At,
         Loops, Stages
<1>3. SlotsPerSf \in Nat /\ 0 \in 0..SlotsPerSf /\ rd[r].slot \in 0..SlotsPerSf
  BY <1>1, RadioAssumption DEF RadioType
<1>4. CASE Return(r, "NR_FAILURE")
  <2> DEFINE x == [rd[r] EXCEPT !.pc = "done", !.ret = "NR_FAILURE"]
  <2>1. x \in RadioType
    BY <1>1, Zenon DEF RadioType, Pcs, Rets
  <2>2. x.ss = rd[r].ss /\ x.tuned = rd[r].tuned /\ x.freq = rd[r].freq /\ x.pc = "done"
        /\ x.ret = "NR_FAILURE"
    BY <1>1 DEF RadioType
  <2>3. rd' = [rd EXCEPT ![r] = x]
    BY <1>4, Zenon DEF Return
  <2> QED
    BY <1>1, <1>2, <2>1, <2>2, <2>3, StageIInv, Zenon
<1> DEFINE Stays(x) == /\ x \in RadioType /\ rd' = [rd EXCEPT ![r] = x] /\ x.pc \in Stages
                       /\ x.ss = rd[r].ss /\ x.tuned = rd[r].tuned /\ x.freq = rd[r].freq
                       /\ x.ret = rd[r].ret
<1>5. ASSUME NEW x, Stays(x) PROVE IInv'
  BY <1>1, <1>2, <1>5, StageIInv, Zenon
<1> HIDE DEF Stays
<1>6. CASE Zerocopy(r)
  <2>1. ASSUME NEW pc \in Stages, rd' = [rd EXCEPT ![r].pc = pc] PROVE IInv'
    <3>1. Stays([rd[r] EXCEPT !.pc = pc])
      BY <1>1, <2>1 DEF RadioType, Pcs, Stays
    <3> QED
      BY <1>5, <3>1
  <2>2. CASE UNCHANGED rd
    <3>1. Stays(rd[r])
      BY <1>1, <1>2, <2>2 DEF Stays
    <3> QED
      BY <1>5, <3>1
  <2>3. ASSUME NEW o \in BOOLEAN, rd' = [rd EXCEPT ![r].slot = 0, ![r].occasion = o] PROVE IInv'
    <3>1. Stays([rd[r] EXCEPT !.slot = 0, !.occasion = o])
      BY <1>1, <1>2, <1>3, <2>3, Zenon DEF RadioType, Stays
    <3> QED
      BY <1>5, <3>1
  <2>4. "msg2init" \in Stages /\ "msg4init" \in Stages
    BY DEF Stages
  <2> QED
    BY <1>4, <1>6, <2>1, <2>2, <2>3, <2>4 DEF Zerocopy
<1>7. CASE SlotWithout(r) \/ DciSlot(r)
  <2>1. PICK k \in 0..SlotsPerSf : k = rd[r].slot + 1
    BY <1>3, <1>7 DEF SlotWithout, DciSlot, InSlot
  <2>2. Stays([rd[r] EXCEPT !.slot = k])
    BY <1>1, <1>2, <1>7, <2>1 DEF RadioType, SlotWithout, DciSlot, Stays
  <2> QED
    BY <1>5, <2>2
<1>8. CASE SlotError(r)
  BY <1>4, <1>8 DEF SlotError
<1>9. CASE Sib1Slot(r)
  <2>1. PICK k \in 0..SlotsPerSf : k = rd[r].slot + 1
    BY <1>3, <1>9 DEF Sib1Slot, InSlot
  <2>2. Stays([rd[r] EXCEPT !.slot = k, !.sib1 = TRUE])
    BY <1>1, <1>2, <1>9, <2>1, Zenon DEF RadioType, Sib1Slot, Stays
  <2> QED
    BY <1>5, <2>2
<1>10. CASE Msg2Slot(r)
  <2>1. PICK rar \in Rars :
          \E t \in IF rar = <<>> THEN Rntis \cup {NoRnti} ELSE {rar[1]} :
            rd' = [rd EXCEPT ![r].pc = "msg4init", ![r].tc_rnti = t]
    BY <1>10, Zenon DEF Msg2Slot
  <2>2. PICK t \in IF rar = <<>> THEN Rntis \cup {NoRnti} ELSE {rar[1]} :
            rd' = [rd EXCEPT ![r].pc = "msg4init", ![r].tc_rnti = t]
    BY <2>1, Zenon
  <2>3. t \in Rntis \cup {NoRnti}
    <3>1. rar \in Seq(Rntis \cup {NoRnti})
      BY RadioAssumption
    <3>2. rar # <<>> => rar[1] \in Rntis \cup {NoRnti}
      BY <3>1
    <3> QED
      BY <2>2, <3>2
  <2>4. Stays([rd[r] EXCEPT !.pc = "msg4init", !.tc_rnti = t])
    BY <1>1, <2>2, <2>3, Zenon DEF RadioType, Pcs, Stages, Stays
  <2> QED
    BY <1>5, <2>4
<1>11. CASE Msg4Slot(r)
  <2>1. PICK c \in {rd[r].tc_rnti, rd[r].c_rnti} :
          rd' = [rd EXCEPT ![r].pc = "dciinit", ![r].c_rnti = c]
    BY <1>1, <1>11, Zenon DEF Msg4Slot
  <2>2. c \in Rntis \cup {NoRnti}
    BY <1>1, <2>1 DEF RadioType
  <2>3. Stays([rd[r] EXCEPT !.pc = "dciinit", !.c_rnti = c])
    BY <1>1, <2>1, <2>2, Zenon DEF RadioType, Pcs, Stages, Stays
  <2> QED
    BY <1>5, <2>3
<1> QED
  BY <1>6, <1>7, <1>8, <1>9, <1>10, <1>11

\* One iteration of the raster loop keeps the search: it leaves the last point
\* with all its trials, and takes the next one with none.
LEMMA NextPointIInv ==
  ASSUME IInv, UNCHANGED cells, NEW r \in Radios, NextPoint(r)
  PROVE  IInv'
<1> DEFINE y == rd[r]
           t == tries[r]
<1>1. y \in RadioType /\ t \in [Points -> 0..NofTrials] /\ Searching(y, t, cells)
      /\ UNCHANGED <<main, tries>> /\ tries' = [tries EXCEPT ![r] = t] /\ NofPoints \in Nat
      /\ NofTrials \in Nat
  BY RadioAssumption DEF IInv, NextPoint
<1>2. y.pc = "raster" /\ y.pc \notin Stages /\ y.ret = "none"
  BY <1>1 DEF NextPoint, At, Stages, Searching
<1>3. y.ss \in 1..(NofPoints + 1)
  BY <1>1 DEF RadioType
<1>4. \A p \in Points : /\ p \notin Valid \/ p >= y.ss => t[p] = 0
                        /\ p \in Valid /\ p < y.ss => t[p] = NofTrials
  <2>1. \A p \in Points : p < y.ss => p < y.ss - 1 \/ p = y.ss - 1
    BY <1>1, <1>3 DEF Points
  <2> QED
    BY <1>1, <1>2, <2>1 DEF Searching
<1> DEFINE Kept(x) == x \in RadioType /\ x.pc # "new" /\ rd' = [rd EXCEPT ![r] = x]
                      /\ Searching(x, t, cells)
<1>5. ASSUME NEW x, Kept(x) PROVE IInv'
  <2> HIDE DEF t, y
  <2> QED
    BY <1>1, <1>2, <1>5, ThreadIInv, Zenon DEF y
<1>6. CASE y.ss > NofPoints
  <2> DEFINE x == [y EXCEPT !.pc = "done", !.ret = "NR_SUCCESS"]
  <2>1. x \in RadioType /\ x.pc = "done" /\ x.ret = "NR_SUCCESS" /\ x.ss = y.ss
    BY <1>1, Zenon DEF RadioType, Pcs, Rets
  <2>2. \A p \in Points : p < y.ss
    BY <1>1, <1>3, <1>6 DEF Points
  <2>3. \A p \in Points : p < y.ss - 1 => p < y.ss
    BY <1>3 DEF Points
  <2>4. rd' = [rd EXCEPT ![r] = x]
    BY <1>6, Zenon DEF NextPoint, Return
  <2> HIDE DEF x, y, t
  <2>5. Searching(x, t, cells)
    BY <1>4, <2>1, <2>2, <2>3 DEF Searching, Stages
  <2> QED
    BY <1>5, <2>1, <2>4, <2>5, Zenon
<1>7. CASE ~(y.ss > NofPoints)
  <2>1. y.ss \in Points /\ y.ss + 1 \in 1..(NofPoints + 1) /\ y.ss \in 0..NofPoints
        /\ 0 \in 0..NofTrials
    BY <1>1, <1>3, <1>7 DEF Points
  <2>2. \A p \in Points : /\ p >= y.ss + 1 => p >= y.ss
                          /\ p < y.ss + 1 - 1 => p < y.ss
                          /\ p = y.ss + 1 - 1 => p = y.ss
    BY <1>3 DEF Points
  <2>3. CASE y.ss \notin Valid
    <3> DEFINE x == [y EXCEPT !.ss = @ + 1, !.freq = y.ss]
    <3>1. x \in RadioType /\ x.pc = "raster" /\ x.ret = "none" /\ x.ss = y.ss + 1
          /\ x.found = y.found
      BY <1>1, <1>2, <2>1, Zenon DEF RadioType
    <3>2. rd' = [rd EXCEPT ![r] = x]
      BY <1>7, <2>3 DEF NextPoint, Skip
    <3>3. ~y.found
      BY <1>1, <1>2 DEF Searching
    <3> HIDE DEF x, y, t
    <3>4. \A p \in Points : /\ p >= x.ss => p >= y.ss
                            /\ p < x.ss - 1 => p < y.ss
                            /\ p = x.ss - 1 => p = y.ss
      BY <1>3, <2>2, <3>1 DEF Points
    <3>5. Searching(x, t, cells)
      BY <1>4, <2>3, <3>1, <3>3, <3>4 DEF Searching, Stages
    <3> QED
      BY <1>5, <3>1, <3>2, <3>5, Zenon
  <2>4. CASE y.ss \in Valid /\ rd' = [rd EXCEPT ![r] = [Skip(r) EXCEPT !.pc = "done", !.ret = "NR_FAILURE"]]
    <3> DEFINE x == [Skip(r) EXCEPT !.pc = "done", !.ret = "NR_FAILURE"]
    <3>1. x \in RadioType /\ x.pc = "done" /\ x.ret = "NR_FAILURE" /\ x.ss = y.ss + 1
      BY <1>1, <1>2, <2>1, Zenon DEF RadioType, Skip, Pcs, Rets
    <3>2. rd' = [rd EXCEPT ![r] = x]
      BY <2>4
    <3> HIDE DEF x, y, t
    <3>3. \A p \in Points : /\ p >= x.ss => p >= y.ss
                            /\ p < x.ss - 1 => p < y.ss
                            /\ p = x.ss - 1 => p = y.ss
      BY <1>3, <2>2, <3>1 DEF Points
    <3>4. Searching(x, t, cells)
      BY <1>4, <3>1, <3>3 DEF Searching, Stages
    <3> QED
      BY <1>5, <3>1, <3>2, <3>4, Zenon
  <2>5. CASE y.ss \in Valid /\ rd' = [rd EXCEPT ![r] = Tune(r)]
    <3> DEFINE x == Tune(r)
    <3>1. /\ x \in RadioType /\ x.pc = "trial" /\ x.ret = "none" /\ x.ss = y.ss + 1
          /\ x.tuned = y.ss /\ x.freq = y.ss /\ x.trial = 0 /\ x.found = y.found
      BY <1>1, <1>2, <2>1, Zenon DEF RadioType, Skip, Tune, Pcs
    <3>2. x.ss > 1 /\ x.tuned = x.ss - 1
      BY <1>3, <3>1
    <3>3. rd' = [rd EXCEPT ![r] = x]
      BY <2>5
    <3>4. ~y.found
      BY <1>1, <1>2 DEF Searching
    <3>5. t[x.tuned] = 0
      BY <1>3, <1>4, <2>1, <3>1
    <3> HIDE DEF x, y, t
    <3>6. Searching(x, t, cells)
      BY <1>4, <2>2, <2>5, <3>1, <3>2, <3>4, <3>5 DEF Searching, Stages
    <3> QED
      BY <1>5, <3>1, <3>3, <3>6, Zenon
  <2> QED
    BY <1>7, <2>3, <2>4, <2>5 DEF NextPoint
<1> QED
  BY <1>6, <1>7

\* A trial keeps the search: the point is left with all its trials and no
\* cell, or for the stages with a cell that is on the air.
LEMMA TrialIInv ==
  ASSUME IInv, UNCHANGED cells, NEW r \in Radios, Trial(r)
  PROVE  IInv'
<1> DEFINE y == rd[r]
           t == tries[r]
<1>1. y \in RadioType /\ t \in [Points -> 0..NofTrials] /\ Searching(y, t, cells)
      /\ rd \in [Radios -> RadioType] /\ tries \in [Radios -> [Points -> 0..NofTrials]]
      /\ UNCHANGED main /\ NofPoints \in Nat /\ NofTrials \in Nat /\ Valid \subseteq Points
  BY RadioAssumption DEF IInv, Trial
<1>2. y.pc = "trial"
  BY DEF Trial, At
<1>3. /\ y.tuned \in Points /\ y.tuned \in Valid /\ y.tuned = y.ss - 1 /\ y.freq = y.tuned
      /\ y.ss > 1 /\ y.ret = "none" /\ t[y.tuned] = y.trial /\ ~y.found
  BY <1>1, <1>2 DEF Searching, Stages
<1>4. y.ss \in 1..(NofPoints + 1) /\ y.trial \in 0..NofTrials
  BY <1>1 DEF RadioType
<1>5. \A p \in Points : /\ p \notin Valid \/ p >= y.ss => t[p] = 0
                        /\ p \in Valid /\ p < y.ss - 1 => t[p] = NofTrials
  BY <1>1 DEF Searching
<1> DEFINE Kept(x, u) == /\ x \in RadioType /\ u \in [Points -> 0..NofTrials]
                         /\ x.pc # "new" /\ Searching(x, u, cells)
                         /\ rd' = [rd EXCEPT ![r] = x] /\ tries' = [tries EXCEPT ![r] = u]
<1>6. ASSUME NEW x, NEW u, Kept(x, u) PROVE IInv'
  <2> HIDE DEF t
  <2> QED
    BY <1>1, <1>2, <1>6, ThreadIInv, Zenon
<1>7. CASE y.trial = NofTrials /\ rd' = [rd EXCEPT ![r].pc = IF y.found THEN "mib" ELSE "raster"]
           /\ UNCHANGED tries
  <2> DEFINE x == [y EXCEPT !.pc = "raster"]
  <2>1. x \in RadioType /\ x.pc = "raster" /\ x.ss = y.ss /\ x.ret = "none" /\ ~x.found
    BY <1>1, <1>3, Zenon DEF RadioType, Pcs
  <2>2. rd' = [rd EXCEPT ![r] = x] /\ tries' = [tries EXCEPT ![r] = t]
    BY <1>1, <1>3, <1>7
  <2> HIDE DEF x, y, t
  <2>3. Searching(x, t, cells)
    BY <1>3, <1>5, <1>7, <2>1 DEF Searching, Stages
  <2> QED
    BY <1>1, <1>6, <2>1, <2>2, <2>3, Zenon
<1>8. CASE Return(r, "NR_FAILURE") /\ UNCHANGED tries
  <2> DEFINE x == [y EXCEPT !.pc = "done", !.ret = "NR_FAILURE"]
  <2>1. x \in RadioType /\ x.pc = "done" /\ x.ret = "NR_FAILURE" /\ x.ss = y.ss
    BY <1>1, Zenon DEF RadioType, Pcs, Rets
  <2>2. rd' = [rd EXCEPT ![r] = x] /\ tries' = [tries EXCEPT ![r] = t]
    BY <1>1, <1>8, Zenon DEF Return
  <2> HIDE DEF x, y, t
  <2>3. Searching(x, t, cells)
    BY <1>5, <2>1 DEF Searching, Stages
  <2> QED
    BY <1>1, <1>6, <2>1, <2>2, <2>3, Zenon
<1>9. CASE /\ y.trial < NofTrials /\ tries' = [tries EXCEPT ![r][y.tuned] = @ + 1]
           /\ \/ rd' = [rd EXCEPT ![r].trial = @ + 1, ![r].found = FALSE]
              \/ y.tuned \in cells /\ rd' = [rd EXCEPT ![r].pc = "mib", ![r].found = TRUE]
  <2> DEFINE u == [t EXCEPT ![y.tuned] = y.trial + 1]
  <2>1. y.trial + 1 \in 0..NofTrials
    BY <1>1, <1>4, <1>9
  <2>2. u \in [Points -> 0..NofTrials] /\ u[y.tuned] = y.trial + 1
    BY <1>1, <1>3, <2>1, Zenon
  <2>3. tries' = [tries EXCEPT ![r] = u]
    BY <1>1, <1>3, <1>9
  <2>4. \A p \in Points : p # y.tuned => u[p] = t[p]
    BY <1>1
  <2>5. \A p \in Points : p \notin Valid \/ p >= y.ss \/ p < y.ss - 1 => p # y.tuned
    BY <1>3, <1>4 DEF Points
  <2> HIDE DEF t
  <2>6. \A p \in Points : /\ p \notin Valid \/ p >= y.ss => u[p] = 0
                          /\ p \in Valid /\ p < y.ss - 1 => u[p] = NofTrials
    <3> HIDE DEF u, y
    <3> QED
      BY <1>5, <2>4, <2>5
  <2>7. CASE rd' = [rd EXCEPT ![r].trial = @ + 1, ![r].found = FALSE]
    <3> DEFINE x == [y EXCEPT !.trial = y.trial + 1, !.found = FALSE]
    <3>1. /\ x \in RadioType /\ x.pc = "trial" /\ x.ret = "none" /\ x.ss = y.ss /\ x.tuned = y.tuned
          /\ x.freq = y.freq /\ x.trial = y.trial + 1 /\ ~x.found
      BY <1>1, <1>2, <1>3, <2>1, Zenon DEF RadioType
    <3>2. rd' = [rd EXCEPT ![r] = x]
      BY <1>1, <2>7, Zenon
    <3> HIDE DEF x, y, u
    <3>3. Searching(x, u, cells)
      BY <1>3, <2>2, <2>6, <3>1 DEF Searching, Stages
    <3> QED
      BY <1>6, <2>2, <2>3, <3>1, <3>2, <3>3, Zenon
  <2>8. CASE y.tuned \in cells /\ rd' = [rd EXCEPT ![r].pc = "mib", ![r].found = TRUE]
    <3> DEFINE x == [y EXCEPT !.pc = "mib", !.found = TRUE]
    <3>1. /\ x \in RadioType /\ x.pc = "mib" /\ x.ret = "none" /\ x.ss = y.ss /\ x.tuned = y.tuned
          /\ x.freq = y.freq
      BY <1>1, <1>2, <1>3, Zenon DEF RadioType, Pcs, Stages
    <3>2. rd' = [rd EXCEPT ![r] = x]
      BY <1>1, <2>8, Zenon
    <3> HIDE DEF x, y, u
    <3>3. Searching(x, u, cells)
      BY <1>3, <2>6, <2>8, <3>1 DEF Searching, Stages
    <3> QED
      BY <1>6, <2>2, <2>3, <3>1, <3>2, <3>3, Zenon
  <2> QED
    BY <1>9, <2>7, <2>8
<1> QED
  BY <1>7, <1>8, <1>9 DEF Trial

\* The radio starts on its raster, or its initialisation aborts the process.
LEMMA InitRadioIInv ==
  ASSUME IInv, UNCHANGED cells, NEW r \in Radios, InitRadio(r)
  PROVE  IInv'
<1>1. rd[r] \in RadioType /\ tries[r] \in [Points -> 0..NofTrials]
      /\ Searching(rd[r], tries[r], cells) /\ main \in MainType /\ MainInv /\ UNCHANGED tries
      /\ rd \in [Radios -> RadioType] /\ tries \in [Radios -> [Points -> 0..NofTrials]]
  BY DEF IInv, InitRadio
<1>2. rd[r].pc = "init" /\ rd[r].ss = 1 /\ rd[r].ret = "none" /\ ~rd[r].found
  BY <1>1 DEF InitRadio, At, Searching
<1>3. CASE rd' = [rd EXCEPT ![r].pc = "raster"] /\ UNCHANGED main
  <2> DEFINE x == [rd[r] EXCEPT !.pc = "raster"]
  <2>1. x \in RadioType /\ x.pc = "raster" /\ x.ss = 1 /\ x.ret = "none" /\ ~x.found
    BY <1>1, <1>2, Zenon DEF RadioType, Pcs
  <2>2. rd' = [rd EXCEPT ![r] = x]
    BY <1>1, <1>3
  <2>3. tries' = [tries EXCEPT ![r] = tries[r]]
    BY <1>1
  <2>4. \A p \in Points : ~(p < 1 - 1) /\ ~(p = 1 - 1)
    BY DEF Points
  <2> HIDE DEF x
  <2>5. Searching(x, tries[r], cells)
    BY <1>1, <1>2, <2>1, <2>4 DEF Searching, Stages
  <2> QED
    BY <1>1, <1>2, <1>3, <2>1, <2>2, <2>3, <2>5, ThreadIInv, Zenon
<1>4. CASE main' = [main EXCEPT !.pc = "abort"] /\ UNCHANGED rd
  <2>1. main' \in MainType /\ main'.pc = "abort" /\ main'.spawned = main.spawned
        /\ main'.joined = main.joined /\ main'.ret = main.ret
    BY <1>1, <1>4 DEF MainType
  <2>2. MainInv'
    BY <1>1, <1>4, <2>1 DEF MainInv
  <2> QED
    BY <1>1, <1>4, <2>1, <2>2 DEF IInv
<1> QED
  BY <1>3, <1>4 DEF InitRadio

\* main() starts a thread that has not run and counts as joined only one that
\* has ended.
LEMMA MainIInv ==
  ASSUME IInv, UNCHANGED cells, MainStep
  PROVE  IInv'
<1>1. /\ main \in MainType /\ MainInv /\ UNCHANGED tries /\ cells \in Airs /\ NofUsrp \in Nat
      /\ rd \in [Radios -> RadioType] /\ tries \in [Radios -> [Points -> 0..NofTrials]]
      /\ \A r \in Radios : Searching(rd[r], tries[r], cells)
  BY RadioAssumption DEF IInv, MainStep, LoadConfig, Spawn, Join
<1>2. main.spawned \in 0..NofUsrp /\ main.joined \in 0..NofUsrp
  BY <1>1 DEF MainType
<1>3. ASSUME UNCHANGED rd, main' \in MainType, MainInv' PROVE IInv'
  BY <1>1, <1>3 DEF IInv
<1>4. CASE LoadConfig
  <2>1. main' \in MainType /\ main'.spawned = main.spawned /\ main'.joined = main.joined
        /\ \/ main'.pc = "spawn" /\ main'.ret = main.ret
           \/ main'.pc = "done" /\ main'.ret = "NR_FAILURE"
    BY <1>1, <1>4, Zenon DEF LoadConfig, MainType, Rets
  <2>2. UNCHANGED rd /\ main.pc = "config"
    BY <1>4 DEF LoadConfig
  <2>3. MainInv'
    BY <1>1, <2>1, <2>2 DEF MainInv
  <2> QED
    BY <1>3, <2>1, <2>2, <2>3
<1>5. CASE Spawn /\ main.spawned < NofUsrp
  <2> DEFINE s == main.spawned
             x == [rd[s] EXCEPT !.pc = "init"]
  <2>1. s \in Radios /\ s + 1 \in 0..NofUsrp
    BY <1>1, <1>2, <1>5 DEF Radios
  <2>2. rd[s] \in RadioType /\ rd[s].pc = "new" /\ Searching(rd[s], tries[s], cells)
    BY <1>1, <1>2, <2>1 DEF MainInv
  <2>3. x \in RadioType /\ x.pc = "init" /\ x.ss = rd[s].ss /\ x.ret = rd[s].ret /\ x.found = rd[s].found
    BY <2>2 DEF RadioType, Pcs
  <2>4. rd' = [rd EXCEPT ![s] = x] /\ main.pc = "spawn"
    BY <1>5 DEF Spawn
  <2>5. main' \in MainType /\ main'.pc = "spawn" /\ main'.spawned = s + 1
        /\ main'.joined = main.joined /\ main'.ret = main.ret
    BY <1>1, <1>5, <2>1, <2>4 DEF Spawn, MainType
  <2> HIDE DEF x
  <2>6. Searching(x, tries[s], cells)
    BY <2>2, <2>3 DEF Searching, Stages
  <2>7. /\ rd' \in [Radios -> RadioType] /\ rd'[s] = x
        /\ \A r \in Radios : r # s => rd'[r] = rd[r]
    BY <1>1, <2>1, <2>3, <2>4
  <2>8. \A r \in Radios : Searching(rd'[r], tries'[r], cells')
    BY <1>1, <2>6, <2>7
  <2>9. \A r \in Radios : r >= s + 1 => r >= s /\ r # s
    BY <1>2 DEF Radios
  <2>10. main.joined = 0 /\ main.ret = "none"
    BY <1>1, <2>4 DEF MainInv
  <2>11. \A r \in Radios : ~(r < 0)
    BY DEF Radios
  <2>12. MainInv'
    BY <1>1, <2>5, <2>7, <2>9, <2>10, <2>11 DEF MainInv
  <2> QED
    BY <1>1, <2>5, <2>7, <2>8, <2>12 DEF IInv
<1>6. CASE Spawn /\ ~(main.spawned < NofUsrp)
  <2>1. UNCHANGED rd /\ main.pc = "spawn" /\ main' = [main EXCEPT !.pc = "join"]
    BY <1>6 DEF Spawn
  <2>2. main' \in MainType /\ main'.pc = "join" /\ main'.spawned = main.spawned
        /\ main'.joined = main.joined /\ main'.ret = main.ret
    BY <1>1, <2>1 DEF MainType
  <2>3. MainInv'
    BY <1>1, <2>1, <2>2 DEF MainInv
  <2> QED
    BY <1>3, <2>1, <2>2, <2>3
<1>7. CASE Join /\ main.joined < NofUsrp
  <2> DEFINE j == main.joined
  <2>1. UNCHANGED rd /\ main.pc = "join" /\ main' = [main EXCEPT !.joined = @ + 1] /\ rd[j].pc = "done"
    BY <1>7 DEF Join
  <2>2. main' \in MainType /\ main'.pc = "join" /\ main'.spawned = main.spawned
        /\ main'.joined = j + 1 /\ main'.ret = main.ret
    BY <1>1, <1>2, <1>7, <2>1 DEF MainType
  <2>3. \A r \in Radios : r < j + 1 => r < j \/ r = j
    BY <1>2 DEF Radios
  <2>4. MainInv'
    BY <1>1, <2>1, <2>2, <2>3 DEF MainInv
  <2> QED
    BY <1>3, <2>1, <2>2, <2>4
<1>8. CASE Join /\ ~(main.joined < NofUsrp)
  <2>1. UNCHANGED rd /\ main.pc = "join" /\ main' = [main EXCEPT !.pc = "done", !.ret = "NR_SUCCESS"]
    BY <1>8 DEF Join
  <2>2. main' \in MainType /\ main'.pc = "done" /\ main'.spawned = main.spawned
        /\ main'.joined = main.joined /\ main'.ret = "NR_SUCCESS"
    BY <1>1, <2>1, Zenon DEF MainType, Rets
  <2>3. main.joined = NofUsrp
    BY <1>1, <1>2, <1>8
  <2>4. MainInv'
    BY <1>1, <2>1, <2>2, <2>3 DEF MainInv
  <2> QED
    BY <1>3, <2>1, <2>2, <2>4
<1> QED
  BY <1>4, <1>5, <1>6, <1>7, <1>8 DEF MainStep

-----------------------------------------------------------------------------
\* The invariant holds in every reachable state.
LEMMA IInvAlways == Spec => []IInv
<1>1. Init => IInv
  BY InitIInv
<1>2. ASSUME IInv, [Next]_vars PROVE IInv'
  <2>1. CASE UNCHANGED vars
    BY <1>2, <2>1 DEF vars, IInv, MainInv
  <2>2. CASE UNCHANGED cells /\ MainStep
    BY <1>2, <2>2, MainIInv
  <2>3. ASSUME UNCHANGED cells, NEW r \in Radios, ThreadStep(r) PROVE IInv'
    <3>1. CASE InitRadio(r)
      BY <1>2, <2>3, <3>1, InitRadioIInv
    <3>2. CASE NextPoint(r)
      BY <1>2, <2>3, <3>2, NextPointIInv
    <3>3. CASE Trial(r)
      BY <1>2, <2>3, <3>3, TrialIInv
    <3>4. CASE DecodeMIB(r) \/ SyncandDownlinkInit(r) \/ Msg2Config(r) \/ Msg4Config(r) \/ DciConfig(r)
      <4>1. \E from, to \in Stages : Configure(r, from, to)
        BY <3>4 DEF DecodeMIB, SyncandDownlinkInit, Msg2Config, Msg4Config, DciConfig, Stages
      <4> QED
        BY <1>2, <2>3, <4>1, ConfigureIInv
    <3>5. CASE \/ Zerocopy(r) \/ SlotWithout(r) \/ SlotError(r)
               \/ Sib1Slot(r) \/ Msg2Slot(r) \/ Msg4Slot(r) \/ DciSlot(r)
      BY <1>2, <2>3, <3>5, LoopIInv
    <3> QED
      BY <2>3, <3>1, <3>2, <3>3, <3>4, <3>5 DEF ThreadStep
  <2> QED
    BY <1>2, <2>1, <2>2, <2>3 DEF Next
<1> QED
  BY <1>1, <1>2, PTL DEF Spec

\* Type correctness of main(), of every Radio object and of its thread.
THEOREM RadioTypeCorrect == Spec => []TypeOK
<1>1. IInv => TypeOK
  BY DEF IInv, TypeOK, MainType, RadioType, Pcs, Rets
<1> QED
  BY <1>1, IInvAlways, PTL

\* RadioInitandStart misses no cell: for any raster, any set of skipped points
\* and any number of trials, a point left behind was searched exactly
\* nof_trials times, and a thread that returns NR_SUCCESS has searched all.
THEOREM RasterAlwaysExhausted == Spec => []RasterExhaustive
<1>1. IInv => RasterExhaustive
  BY DEF IInv, RasterExhaustive, Searching
<1> QED
  BY <1>1, IInvAlways, PTL

\* From DecodeMIB to DCILoop the radio is tuned to the raster point of a cell
\* on the air, the one whose frequency configures the stages.
THEOREM StagesAlwaysOnCell == Spec => []StagesOnCell
<1>1. ASSUME IInv, NEW r \in Radios, rd[r].pc \in Stages
      PROVE  rd[r].tuned \in cells \cap Valid /\ rd[r].tuned = rd[r].freq /\ rd[r].ss = rd[r].tuned + 1
  <2>1. Searching(rd[r], tries[r], cells) /\ rd[r] \in RadioType
    BY <1>1 DEF IInv
  <2>2. rd[r].ss \in Int
    BY <2>1, RadioAssumption DEF RadioType
  <2>3. rd[r].tuned = rd[r].ss - 1 /\ rd[r].tuned \in cells /\ rd[r].tuned \in Valid
        /\ rd[r].freq = rd[r].tuned
    BY <1>1, <2>1 DEF Searching
  <2> QED
    BY <2>2, <2>3
<1>2. IInv => StagesOnCell
  BY <1>1 DEF StagesOnCell
<1> QED
  BY <1>2, IInvAlways, PTL

\* main() returns NR_SUCCESS only after every thread it spawned has ended, for
\* any number of radios.
THEOREM MainAlwaysJoins == Spec => []JoinsAll
<1>1. ASSUME IInv PROVE JoinsAll
  <2>1. \A r \in Radios : r < NofUsrp
    BY RadioAssumption DEF Radios
  <2> QED
    BY <1>1, <2>1 DEF IInv, MainInv, JoinsAll
<1> QED
  BY <1>1, IInvAlways, PTL
=============================================================================
