------------------------------- MODULE MCMacNr -------------------------------
(* Instances of MacNr for TLC.                                             *)
EXTENDS MacNr

\* A request over PUCCH, one with fewer attempts, one whose prohibit timer the
\* MAC refuses, and a cell group that only takes the PUCCH resource away.
SmallSrConfigs ==
  {[present |-> TRUE, trans_max |-> 2, prohibit |-> FALSE, resource |-> TRUE],
   [present |-> TRUE, trans_max |-> 1, prohibit |-> FALSE, resource |-> TRUE],
   [present |-> TRUE, trans_max |-> 2, prohibit |-> TRUE, resource |-> TRUE],
   [present |-> FALSE, trans_max |-> 0, prohibit |-> FALSE, resource |-> FALSE]}
=============================================================================
