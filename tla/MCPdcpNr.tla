------------------------------ MODULE MCPdcpNr ------------------------------
EXTENDS PdcpNr

(* Unacknowledged mode, acknowledged mode with a discard timer, and the    *)
(* two values of t-Reordering under which the timer never expires.         *)
MCConfigs == {[mode |-> "UM", t_reordering |-> "finite", discard |-> FALSE],
              [mode |-> "AM", t_reordering |-> "finite", discard |-> TRUE],
              [mode |-> "AM", t_reordering |-> "infinity", discard |-> FALSE],
              [mode |-> "UM", t_reordering |-> "zero", discard |-> FALSE]}
=============================================================================
