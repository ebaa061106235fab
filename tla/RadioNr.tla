------------------------------- MODULE RadioNr -------------------------------
(***************************************************************************)
(* NR-Scope: the main thread (nrscope/src/main.cc), one thread per USRP,   *)
(* and in each of them the pipeline of Radio::RadioInitandStart            *)
(* (nrscope/src/libs/radio_nr.cc): raster search, MIB, synchronisation,    *)
(* SIB 1, MSG 2, MSG 4 and the DCI loop.                                   *)
(*                                                                         *)
(* The loops of the last four stages are a zerocopy call followed by a     *)
(* pass over the slots of the subframe.  What the libraries answer is an   *)
(* input; which cells exist decides what can be found.                     *)
(***************************************************************************)
EXTENDS Integers, Sequences, FiniteSets

CONSTANTS
  NofUsrp,          \* get_nof_usrp()
  NofPoints,        \* points of the synchronisation raster of the band
  Valid,            \* the points RadioInitandStart does not skip
  Airs,             \* the possible sets of points at which a cell transmits
  NofTrials,        \* nof_trials (100)
  SlotsPerSf,       \* SRSRAN_NOF_SLOTS_PER_SF_NR(arg_scs.scs)
  Rntis,            \* values a RAR may carry as temporary C-RNTI
  Rars,             \* RARs as read: the temporary C-RNTIs of their subPDUs,
                    \* NoRnti for a backoff indicator, empty if none was read
  ZerocopyMayFail,  \* TRUE when zerocopy may return SRSRAN_ERROR
  RxMayFail         \* TRUE when radio->rx_now may fail during the search

Radios == 0..(NofUsrp - 1)
Points == 1..NofPoints
NoRnti == 0  \* tc_rnti and c_rnti before any assignment

ASSUME RadioAssumption ==
  /\ NofUsrp \in Nat /\ NofPoints \in Nat
  /\ Valid \subseteq Points /\ Airs \subseteq SUBSET Points
  /\ NofTrials \in Nat \ {0} /\ SlotsPerSf \in Nat \ {0}
  /\ Rntis \subseteq Nat \ {0}
  /\ Rars \subseteq Seq(Rntis \cup {NoRnti})
  /\ ZerocopyMayFail \in BOOLEAN /\ RxMayFail \in BOOLEAN

VARIABLES
  cells,  \* the points at which a cell transmits; it never changes
  main,   \* [pc, spawned, joined, ret]: where main() is
  rd,     \* the Radio objects, with the program counter of their threads
  tries   \* history: slots searched at each point by each radio

vars == <<cells, main, rd, tries>>

Loops  == {"sib1", "msg2", "msg4", "dci"}
Stages == {"mib", "syncinit", "sib1", "msg2init", "msg2", "msg4init", "msg4", "dciinit", "dci"}

Init ==
  /\ cells \in Airs
  /\ main = [pc |-> "config", spawned |-> 0, joined |-> 0, ret |-> "none"]
  /\ rd = [r \in Radios |->
             [pc |-> "new", ss |-> 1, trial |-> 0, freq |-> 0, tuned |-> 0, found |-> FALSE,
              slot |-> SlotsPerSf, occasion |-> FALSE, sib1 |-> FALSE,
              tc_rnti |-> NoRnti, c_rnti |-> NoRnti, ret |-> "none"]]
  /\ tries = [r \in Radios |-> [p \in Points |-> 0]]

-----------------------------------------------------------------------------
(* main()                                                                  *)

LoadConfig ==
  /\ main.pc = "config"
  /\ \E ok \in BOOLEAN :
       main' = IF ok THEN [main EXCEPT !.pc = "spawn"]
                     ELSE [main EXCEPT !.pc = "done", !.ret = "NR_FAILURE"]
  /\ UNCHANGED <<rd, tries>>

Spawn ==
  /\ main.pc = "spawn"
  /\ IF main.spawned < NofUsrp
     THEN /\ main' = [main EXCEPT !.spawned = @ + 1]
          /\ rd' = [rd EXCEPT ![main.spawned].pc = "init"]
     ELSE /\ main' = [main EXCEPT !.pc = "join"]
          /\ UNCHANGED rd
  /\ UNCHANGED tries

\* Mutant: a thread is counted as joined without waiting for it.
Join_NoWait ==
  /\ main.pc = "join"
  /\ main' = IF main.joined < NofUsrp THEN [main EXCEPT !.joined = @ + 1]
             ELSE [main EXCEPT !.pc = "done", !.ret = "NR_SUCCESS"]
  /\ UNCHANGED <<rd, tries>>

Join ==
  /\ main.pc = "join"
  /\ IF main.joined < NofUsrp
     THEN rd[main.joined].pc = "done" /\ main' = [main EXCEPT !.joined = @ + 1]
     ELSE main' = [main EXCEPT !.pc = "done", !.ret = "NR_SUCCESS"]
  /\ UNCHANGED <<rd, tries>>

-----------------------------------------------------------------------------
(* Radio::RadioInitandStart                                                *)

\* Thread r runs, with its program counter among pcs.
At(r, pcs) == main.pc # "abort" /\ rd[r].pc \in pcs

\* The thread returns code c; RadioThread ignores it.
Return(r, c) == rd' = [rd EXCEPT ![r].pc = "done", ![r].ret = c]

\* Radio initialisation: an assertion ends the whole process when it fails.
InitRadio(r) ==
  /\ At(r, {"init"})
  /\ \/ rd' = [rd EXCEPT ![r].pc = "raster"] /\ UNCHANGED main
     \/ main' = [main EXCEPT !.pc = "abort"] /\ UNCHANGED rd
  /\ UNCHANGED tries

\* The radio after it has taken its raster point out of the loop.
Skip(r) == [rd[r] EXCEPT !.ss = @ + 1, !.freq = rd[r].ss]

\* Mutant: the trial counter goes on from the last point.
Tune_KeepsTrial(r) == [Skip(r) EXCEPT !.pc = "trial", !.tuned = rd[r].ss]

\* Mutant: the search keeps the frequency of the last point.
Tune_StaleFreq(r) ==
  [Skip(r) EXCEPT !.pc = "trial", !.tuned = rd[r].ss, !.trial = 0, !.freq = rd[r].freq]

\* The radio tuned to that point, before the first trial.
Tune(r) == [Skip(r) EXCEPT !.pc = "trial", !.tuned = rd[r].ss, !.trial = 0]

\* Mutant: the raster advances only after a point that was not skipped.
NextPoint_Stuck(r) ==
  /\ At(r, {"raster"})
  /\ IF rd[r].ss > NofPoints
     THEN Return(r, "NR_SUCCESS")
     ELSE rd' = [rd EXCEPT ![r] = IF rd[r].ss \in Valid THEN Tune(r) ELSE @]
  /\ UNCHANGED <<main, tries>>

\* One iteration of the raster loop up to the trials: skip the point, fail to
\* start the searcher, or tune to the point.
NextPoint(r) ==
  /\ At(r, {"raster"})
  /\ IF rd[r].ss > NofPoints
     THEN Return(r, "NR_SUCCESS")
     ELSE IF rd[r].ss \notin Valid
     THEN rd' = [rd EXCEPT ![r] = Skip(r)]
     ELSE \/ rd' = [rd EXCEPT ![r] = [Skip(r) EXCEPT !.pc = "done", !.ret = "NR_FAILURE"]]
          \/ rd' = [rd EXCEPT ![r] = Tune(r)]
  /\ UNCHANGED <<main, tries>>

\* Mutant: one trial too many.
Trial_OneMore(r) ==
  /\ At(r, {"trial"})
  /\ IF rd[r].trial > NofTrials
     THEN rd' = [rd EXCEPT ![r].pc = "raster"] /\ UNCHANGED tries
     ELSE /\ tries' = [tries EXCEPT ![r][rd[r].tuned] = @ + 1]
          /\ rd' = [rd EXCEPT ![r].trial = @ + 1, ![r].found = FALSE]
  /\ UNCHANGED main

\* One trial: receive a slot and search it, or leave the loop.
Trial(r) ==
  /\ At(r, {"trial"})
  /\ \/ /\ rd[r].trial = NofTrials
        /\ rd' = [rd EXCEPT ![r].pc = IF rd[r].found THEN "mib" ELSE "raster"]
        /\ UNCHANGED tries
     \/ /\ rd[r].trial < NofTrials /\ RxMayFail
        /\ Return(r, "NR_FAILURE")
        /\ UNCHANGED tries
     \/ /\ rd[r].trial < NofTrials
        /\ tries' = [tries EXCEPT ![r][rd[r].tuned] = @ + 1]
        /\ \/ rd' = [rd EXCEPT ![r].trial = @ + 1, ![r].found = FALSE]
           \/ /\ rd[r].tuned \in cells
              /\ rd' = [rd EXCEPT ![r].pc = "mib", ![r].found = TRUE]
  /\ UNCHANGED main

\* A stage without a loop: it leads to the next one, or reports failure with a
\* negative code, which ends the thread.
Configure(r, from, to) ==
  /\ At(r, {from})
  /\ \/ rd' = [rd EXCEPT ![r].pc = to, ![r].slot = SlotsPerSf]
     \/ Return(r, "NR_FAILURE")
  /\ UNCHANGED <<main, tries>>

DecodeMIB(r) == Configure(r, "mib", "syncinit")

SyncandDownlinkInit(r) == Configure(r, "syncinit", "sib1")

\* The configuration at the head of MSG2Loop, MSG4Loop and DCILoop.
Msg2Config(r) == Configure(r, "msg2init", "msg2")
Msg4Config(r) == Configure(r, "msg4init", "msg4")
DciConfig(r)  == Configure(r, "dciinit", "dci")

\* srsran_ue_sync_nr_zerocopy at the head of a loop: an error, out of sync, or
\* a subframe whose slots are processed next.  The error is one of the search or
\* of the state machine: a failed receive reaches zerocopy as a success, see
\* RxErrorUnseen of UeSyncNr.  In SIB1Loop `occasion' says whether frame and
\* subframe pass the CORESET 0 test.  SIB1Loop and MSG2Loop
\* answer an error with `return false', which is NR_SUCCESS to their caller.
Zerocopy(r) ==
  /\ At(r, Loops) /\ rd[r].slot = SlotsPerSf
  /\ \/ /\ ZerocopyMayFail
        /\ CASE rd[r].pc = "sib1" -> rd' = [rd EXCEPT ![r].pc = "msg2init"]
             [] rd[r].pc = "msg2" -> rd' = [rd EXCEPT ![r].pc = "msg4init"]
             [] OTHER             -> Return(r, "NR_FAILURE")
     \/ UNCHANGED rd
     \/ \E o \in BOOLEAN : rd' = [rd EXCEPT ![r].slot = 0, ![r].occasion = o]
  /\ UNCHANGED <<main, tries>>

InSlot(r, pcs) == At(r, pcs) /\ rd[r].slot < SlotsPerSf

\* A slot without CORESET 0 occasion, without DCI, or whose PDSCH does not decode.
SlotWithout(r) ==
  /\ InSlot(r, {"sib1", "msg2", "msg4"})
  /\ rd' = [rd EXCEPT ![r].slot = @ + 1]
  /\ UNCHANGED <<main, tries>>

\* A slot of DCILoop: what is found is only printed.
DciSlot(r) ==
  /\ InSlot(r, {"dci"})
  /\ rd' = [rd EXCEPT ![r].slot = @ + 1]
  /\ UNCHANGED <<main, tries>>

\* A slot in which the blind search or the grant fails.
SlotError(r) ==
  /\ InSlot(r, Loops)
  /\ rd[r].pc = "sib1" => rd[r].occasion
  /\ Return(r, "NR_FAILURE")
  /\ UNCHANGED <<main, tries>>

\* SIB 1 decoded: it is stored and the loop goes on with the next slot.
Sib1Slot(r) ==
  /\ InSlot(r, {"sib1"}) /\ rd[r].occasion
  /\ rd' = [rd EXCEPT ![r].slot = @ + 1, ![r].sib1 = TRUE]
  /\ UNCHANGED <<main, tries>>

\* A RAR decoded: tc_rnti is what its first subPDU holds.  An unreadable RAR
\* is only logged; the first element of no subPDUs is any value.
Msg2Slot(r) ==
  /\ InSlot(r, {"msg2"})
  /\ \E rar \in Rars :
       \E t \in IF rar = <<>> THEN Rntis \cup {NoRnti} ELSE {rar[1]} :
         rd' = [rd EXCEPT ![r].pc = "msg4init", ![r].tc_rnti = t]
  /\ UNCHANGED <<main, tries>>

\* MSG 4 decoded: without a new UE identity the temporary C-RNTI becomes the
\* C-RNTI, with one c_rnti keeps its value.  A reject is only printed.
Msg4Slot(r) ==
  /\ InSlot(r, {"msg4"})
  /\ \E new_ue_id \in {NoRnti} \cup Rntis :
       rd' = [rd EXCEPT ![r].pc = "dciinit",
                        ![r].c_rnti = IF new_ue_id = NoRnti THEN rd[r].tc_rnti ELSE @]
  /\ UNCHANGED <<main, tries>>

-----------------------------------------------------------------------------
MainStep == LoadConfig \/ Spawn \/ Join

ThreadStep(r) ==
  \/ InitRadio(r) \/ NextPoint(r) \/ Trial(r)
  \/ DecodeMIB(r) \/ SyncandDownlinkInit(r) \/ Msg2Config(r) \/ Msg4Config(r) \/ DciConfig(r)
  \/ Zerocopy(r) \/ SlotWithout(r) \/ SlotError(r)
  \/ Sib1Slot(r) \/ Msg2Slot(r) \/ Msg4Slot(r) \/ DciSlot(r)

Next == UNCHANGED cells /\ (MainStep \/ \E r \in Radios : ThreadStep(r))

Spec == Init /\ [][Next]_vars

\* The operating system schedules every runnable thread.
Fairness == /\ WF_vars(MainStep /\ UNCHANGED cells)
            /\ \A r \in Radios : WF_vars(ThreadStep(r) /\ UNCHANGED cells)

FairSpec == Spec /\ Fairness

-----------------------------------------------------------------------------
(* Properties.                                                             *)

TypeOK ==
  /\ cells \in Airs
  /\ main \in [pc : {"config", "spawn", "join", "done", "abort"}, spawned : 0..NofUsrp,
               joined : 0..NofUsrp, ret : {"none", "NR_SUCCESS", "NR_FAILURE"}]
  /\ rd \in [Radios -> [pc : {"new", "init", "raster", "trial", "done"} \cup Stages,
                        ss : 1..(NofPoints + 1), trial : 0..NofTrials,
                        freq : 0..NofPoints, tuned : 0..NofPoints, found : BOOLEAN,
                        slot : 0..SlotsPerSf, occasion : BOOLEAN, sib1 : BOOLEAN,
                        tc_rnti : Rntis \cup {NoRnti}, c_rnti : Rntis \cup {NoRnti},
                        ret : {"none", "NR_SUCCESS", "NR_FAILURE"}]]
  /\ tries \in [Radios -> [Points -> 0..NofTrials]]

\* No cell is missed by skipping or repeating work on the raster: every valid
\* point the search has left behind was searched for exactly nof_trials slots,
\* every point ahead of it and every invalid point not at all.
RasterExhaustive ==
  \A r \in Radios, p \in Points :
    /\ p \notin Valid \/ p >= rd[r].ss => tries[r][p] = 0
    /\ p \in Valid /\ p < rd[r].ss - 1 => tries[r][p] = NofTrials
    /\ p \in Valid /\ rd[r].pc = "done" /\ rd[r].ret = "NR_SUCCESS" => tries[r][p] = NofTrials

\* The stages after the search work on the cell that was found: the radio is
\* still tuned to the raster point whose frequency configures them.
StagesOnCell ==
  \A r \in Radios : rd[r].pc \in Stages =>
    rd[r].tuned \in cells \cap Valid /\ rd[r].tuned = rd[r].freq /\ rd[r].ss = rd[r].tuned + 1

\* main() returns success only when every radio thread has ended, however the
\* threads fail.
JoinsAll == main.ret = "NR_SUCCESS" => \A r \in Radios : rd[r].pc = "done"

\* With no cell on the air the program ends, whatever fails in whichever thread:
\* no raster search runs for ever and no join waits for ever.
SearchEnds == cells = {} => <>(main.pc \in {"done", "abort"})

\* MSG2Loop sets its search space from the SIB 1.
Msg2HasSib1 == \A r \in Radios : rd[r].pc = "msg2" => rd[r].sib1
=============================================================================
