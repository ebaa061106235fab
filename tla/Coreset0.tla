------------------------------- MODULE Coreset0 -------------------------------
(***************************************************************************)
(* Where NR-Scope looks for SIB 1: the lookup of table 13-11               *)
(* (coreset_zero_t_f_nrscope, lib/src/phy/common/phy_common_nr.c), the slot *)
(* and frame parity DecodeMIB derives from it, and the test by which       *)
(* SIB1Loop chooses slots (nrscope/src/libs/radio_nr.cc).  TLC runs the    *)
(* loop over two system frames for every MIB.                              *)
(***************************************************************************)
EXTENDS Integers

CONSTANTS
  SsbScs,     \* values of args_t.ssb_scs: 0 for 15 kHz, 1 for 30 kHz
  CommonScs,  \* values of mib.scs_common
  Entries     \* values of mib.ss0_idx

ASSUME CoresetAssumption ==
  /\ SsbScs \subseteq 0..3 /\ CommonScs \subseteq 0..3
  /\ Entries \subseteq Nat

VARIABLES
  mib,       \* [ss0_idx, ssb_idx, duration, u, scs]: u is cell.u, scs is
             \* arg_scs.scs; duration is 0 when the lookup of CORESET 0 failed,
             \* which DecodeMIB does not treat as an error
  cs0,       \* coreset0_args_t: n_0 and sfn_c
  pc,        \* "mib", "sib1", "scanned" or "failed"
  now,       \* the next slot of the scan: [odd, slot]
  searched   \* slots handed to the blind search

coreset_vars == <<mib, cs0, pc, now, searched>>

SlotsPerSf(u)    == 2^u
SlotsPerFrame(u) == 10 * SlotsPerSf(u)

\* coreset_table_13_11 as compiled: <<O, M>>, the integer division 1/2 being 0.
coreset_table_13_11 ==
  [e \in 0..15 |->
     << <<0, 1>>, <<0, 1 \div 2>>, <<2, 1>>, <<2, 1 \div 2>>,
        <<5, 1>>, <<5, 1 \div 2>>, <<7, 1>>, <<7, 1 \div 2>>,
        <<0, 2>>, <<5, 2>>, <<0, 1>>, <<0, 1>>, <<2, 1>>, <<2, 1>>, <<5, 1>>, <<5, 1>> >>[e + 1]]

\* coreset_zero_t_f_nrscope accepts its inputs.  The first symbol it may also
\* set is read nowhere.
TableInputOK(entry_idx, ssb_idx, coreset_symb) ==
  entry_idx <= 15 /\ ssb_idx <= 7 /\ coreset_symb <= 3

\* O * 2^u + floor(ssb_idx * M), the slot counted from the start of the even frame.
SlotCount(m) ==
  coreset_table_13_11[m.ss0_idx][1] * SlotsPerSf(m.u) + m.ssb_idx * coreset_table_13_11[m.ss0_idx][2]

\* Mutant: the slot is not reduced to its frame.
n_0_NoMod(m) == SlotCount(m)

n_0(m) == SlotCount(m) % SlotsPerFrame(m.u)

\* Mutant: a frame has ten slots whatever the numerology.
sfn_c_TenSlots(m) == (SlotCount(m) \div 10) % 2

sfn_c(m) == (SlotCount(m) \div SlotsPerFrame(m.u)) % 2

CoresetInit ==
  /\ mib \in [ss0_idx : Entries, ssb_idx : 0..7, duration : 0..3,
             u : SsbScs, scs : CommonScs]
  /\ cs0 = [n_0 |-> 0, sfn_c |-> 0]
  /\ pc = "mib"
  /\ now = [odd |-> 0, slot |-> 0]
  /\ searched = {}

\* DecodeMIB: the lookup and what is computed from it; or an error, because the
\* MIB does not unpack or the lookup refuses its input.
DecodeMIB ==
  /\ pc = "mib"
  /\ \/ /\ TableInputOK(mib.ss0_idx, mib.ssb_idx, mib.duration)
        /\ cs0' = [n_0 |-> n_0(mib), sfn_c |-> sfn_c(mib)]
        /\ pc' = "sib1"
     \/ pc' = "failed" /\ UNCHANGED cs0
  /\ UNCHANGED <<mib, now, searched>>

\* Mutant: only the subframe of n_0 is searched.
Sib1Gate_OneSubframe(odd, sf_idx) == cs0.sfn_c = odd /\ sf_idx = cs0.n_0 \div 2

\* The test of SIB1Loop on the frame and subframe zerocopy reported.
Sib1Gate(odd, sf_idx) ==
  /\ cs0.sfn_c = odd
  /\ sf_idx = cs0.n_0 \div 2 \/ sf_idx = cs0.n_0 \div 2 + 1

\* One slot of SIB1Loop while in sync: a subframe has the slots of scs_common.
Sib1Slot ==
  /\ pc = "sib1"
  /\ searched' = IF Sib1Gate(now.odd, now.slot \div SlotsPerSf(mib.scs))
                 THEN searched \cup {<<now.odd, now.slot>>} ELSE searched
  /\ IF now.slot + 1 < SlotsPerFrame(mib.scs)
     THEN now' = [now EXCEPT !.slot = @ + 1] /\ UNCHANGED pc
     ELSE /\ now' = [odd |-> 1 - now.odd, slot |-> 0]
          /\ pc' = IF now.odd = 1 THEN "scanned" ELSE pc
  /\ UNCHANGED <<mib, cs0>>

CoresetNext == DecodeMIB \/ Sib1Slot

CoresetSpec == CoresetInit /\ [][CoresetNext]_coreset_vars

-----------------------------------------------------------------------------
(* Table 13-11 of TS 38.213 with M counted in halves and slots in the       *)
(* numerology of the PDCCH, as the reference.                              *)

TwiceM == [e \in 0..15 |-> IF e \in {1, 3, 5, 7} THEN 1 ELSE IF e \in {8, 9} THEN 4 ELSE 2]

TableSlot(m) ==
  coreset_table_13_11[m.ss0_idx][1] * SlotsPerSf(m.scs) + (m.ssb_idx * TwiceM[m.ss0_idx]) \div 2

-----------------------------------------------------------------------------
(* Properties.                                                             *)

CoresetTypeOK ==
  /\ cs0.n_0 \in 0..(SlotsPerFrame(mib.u) - 1) /\ cs0.sfn_c \in 0..1
  /\ pc \in {"mib", "sib1", "scanned", "failed"}
  /\ now.odd \in 0..1 /\ now.slot \in 0..(SlotsPerFrame(mib.scs) - 1)
  /\ searched \subseteq (0..1) \X (0..(SlotsPerFrame(mib.scs) - 1))

\* In two frames SIB1Loop searches every slot of the subframe that holds slot n_0,
\* in the frame whose parity is sfn_c, and of the subframe that holds the slot
\* after it.  n_0 counts slots of the SSB's numerology, the loop runs over slots
\* of scs_common (radio_nr.cc:454-467).
OccasionSearched ==
  pc = "scanned" =>
    \A slot \in 0..(SlotsPerFrame(mib.scs) - 1) :
      slot \div SlotsPerSf(mib.scs) \in {n \div SlotsPerSf(mib.u) : n \in {cs0.n_0, cs0.n_0 + 1}}
        => <<cs0.sfn_c, slot>> \in searched

\* n_0 and sfn_c are the slot and the frame parity of table 13-11 for every SSB of
\* the rows whose M is a whole number, and for the SSBs 0 and 1 of the other
\* rows, when SSB and PDCCH have the same numerology.  The other SSBs of those
\* rows get the slot of SSB 0 (phy_common_nr.c:641-658, radio_nr.cc:294-300).
WholeEntriesRight ==
  /\ pc \in {"sib1", "scanned"} /\ mib.scs = mib.u
  /\ mib.ss0_idx \notin {1, 3, 5, 7} \/ mib.ssb_idx <= 1
  => cs0.sfn_c * SlotsPerFrame(mib.u) + cs0.n_0 = TableSlot(mib)
=============================================================================
