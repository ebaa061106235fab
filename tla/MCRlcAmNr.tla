----------------------------- MODULE MCRlcAmNr -----------------------------
(* Instances of RlcAmNr for TLC.                                           *)
EXTENDS RlcAmNr

Link(grants, sdus, pdus, lost, early, overtaking) ==
  [grants |-> grants, sdus |-> sdus, pdus |-> pdus, losses |-> lost,
   early |-> early, overtaking |-> overtaking]

(* For SDUs of 4 bytes: grants of 3 bytes carry one byte of an SDU or a    *)
(* report without NACKs, 5 bytes three bytes of an SDU, one more of a      *)
(* segmented SDU or one NACK, 6 bytes a whole SDU, 11 bytes anything.      *)
MCLinks == {Link({11}, 3, 3, 3, FALSE, FALSE), Link({5, 11}, 3, 2, 1, FALSE, FALSE),
            Link({3, 5}, 2, 1, 2, TRUE, FALSE), Link({3, 5, 6}, 1, 2, 1, TRUE, FALSE)}
OvertakingLinks == {Link({5, 9}, 3, 1, 2, TRUE, TRUE)}
SegmentLinks == {Link({5}, 1, 1, 1, FALSE, FALSE)}
=============================================================================
