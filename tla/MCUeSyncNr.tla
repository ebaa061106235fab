----------------------------- MODULE MCUeSyncNr -----------------------------
(* Instances of UeSyncNr for TLC.                                          *)
EXTENDS UeSyncNr

\* ssb_first_symbol_case_A below 3 GHz: a 15 kHz cell, 14 symbols a subframe.
CaseA == [i \in 0..3 |-> <<2, 8>>[(i % 2) + 1] + 14 * (i \div 2)]

\* Reception starts anywhere in the first frame.
FirstFrame == [sfn : {0}, sf : 0..(NSF - 1), sym : 0..(SfLen - 1)]
=============================================================================
