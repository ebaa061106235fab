-------------------------------- MODULE AsnLog --------------------------------
(***************************************************************************)
(* What the ASN.1 decoder of NR-Scope promises its callers: messages        *)
(* accepted by push_asn_payload are written to the log one at a time, each  *)
(* once, its TTI line before its text, in the order in which they were      *)
(* accepted, until the log is closed.  The log may be closed in the middle  *)
(* of a message, which then lacks its text; what is written after that is   *)
(* lost, or is the end of the program.                                      *)
(***************************************************************************)
EXTENDS Sequences

CONSTANT Msgs  \* messages that may be pushed

VARIABLES
  queue,  \* messages accepted and not yet taken
  taken,  \* what is left to write of the message being written
  log,    \* what was written, oldest first
  state   \* "open", "closed", or "crashed": the program has ended

Init == queue = <<>> /\ taken = <<>> /\ log = <<>> /\ state = "open"

Accept == \E m \in Msgs : queue' = Append(queue, m) /\ UNCHANGED <<taken, log, state>>

Take ==
  /\ queue # <<>> /\ taken = <<>>
  /\ taken' = << <<Head(queue), "tti">>, <<Head(queue), "text">> >>
  /\ queue' = Tail(queue)
  /\ UNCHANGED <<log, state>>

Write ==
  /\ taken # <<>>
  /\ log' = IF state = "open" THEN Append(log, Head(taken)) ELSE log
  /\ taken' = Tail(taken)
  /\ UNCHANGED <<queue, state>>

Close == state = "open" /\ state' = "closed" /\ UNCHANGED <<queue, taken, log>>

\* Only a write to a log that was closed ends the program.
Crash == state = "closed" /\ taken # <<>> /\ state' = "crashed" /\ UNCHANGED <<queue, taken, log>>

Next == state # "crashed" /\ (Accept \/ Take \/ Write \/ Close \/ Crash)

vars == <<queue, taken, log, state>>

Spec == Init /\ [][Next]_vars
=============================================================================
