------------------------------ MODULE ProcSrNr ------------------------------
(***************************************************************************)
(* The scheduling request procedure of the NR UE                           *)
(* (srsue/src/stack/mac_nr/proc_sr_nr.cc), as operators on a record.       *)
(***************************************************************************)
EXTENDS Integers

\* cfg.enabled, sr-TransMax, and whether the PHY has a PUCCH resource for it.
SrConfig == [enabled : BOOLEAN, trans_max : Nat, resource : BOOLEAN]

\* proc_sr_nr's own cfg, and the PHY's, before RRC has configured anything.
NoSrConfig == [enabled |-> FALSE, trans_max |-> 0, resource |-> FALSE]

\* What RRC takes from a cell group: a scheduling request configuration for the
\* MAC if present, one that is always enabled and has one item, whose
\* prohibit_timer may be above zero; and the PUCCH resource for the PHY.
SrCellGroup == [present : BOOLEAN, trans_max : Nat, prohibit : BOOLEAN, resource : BOOLEAN]

Refused(new) == new.trans_max = 0 \/ new.prohibit

\* update_cell_group_cfg: set_config disables SR first, and a configuration it
\* refuses leaves sr-TransMax as it was and the PHY unconfigured.
sr_set_config(cfg, new) ==
  IF new.present /\ Refused(new) THEN [cfg EXCEPT !.enabled = FALSE]
  ELSE [enabled |-> new.present \/ cfg.enabled, resource |-> new.resource,
        trans_max |-> IF new.present THEN new.trans_max ELSE cfg.trans_max]

NoSr == [pending |-> FALSE, counter |-> 0]

sr_reset(sr) == [sr EXCEPT !.pending = FALSE]

sr_start(sr) == IF sr.pending THEN sr ELSE [pending |-> TRUE, counter |-> 0]

\* Mutant: the request is sent without being counted.
OpportunityUncounted(sr, cfg, overlap) == sr

\* An occasion on PUCCH; overlap: with a measurement gap or with UL-SCH.
sr_opportunity(sr, cfg, overlap) ==
  IF cfg.enabled /\ sr.pending /\ ~overlap /\ sr.counter < cfg.trans_max
  THEN [sr EXCEPT !.counter = @ + 1]
  ELSE sr

\* step() gives the pending request up: it starts random access instead.
GivesUp(sr, cfg) == sr.pending /\ (~cfg.resource \/ sr.counter >= cfg.trans_max)
=============================================================================
