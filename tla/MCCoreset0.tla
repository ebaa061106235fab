------------------------------ MODULE MCCoreset0 ------------------------------
(* Instances of Coreset0 for TLC.                                          *)
EXTENDS Coreset0

\* Every row of the table; the MIB field has four bits.
AllEntries == 0..15
=============================================================================
