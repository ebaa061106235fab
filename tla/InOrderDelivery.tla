--------------------------- MODULE InOrderDelivery ---------------------------
(***************************************************************************)
(* What a PDCP bearer promises the layers above it: the SDUs it delivers   *)
(* are SDUs the peer submitted, in the order it submitted them, each at    *)
(* most once.  It may leave some out.                                      *)
(***************************************************************************)
EXTENDS Integers, Sequences

VARIABLES sent,   \* number of SDUs submitted; they are named 0 .. sent - 1
          last,   \* the last SDU delivered, -1 before the first
          out     \* the SDUs delivered in this step

Init == sent = 0 /\ last = -1 /\ out = <<>>

Submit == sent' = sent + 1 /\ out' = <<>> /\ UNCHANGED last
Quiet == out' = <<>> /\ UNCHANGED <<sent, last>>
Deliver ==
  /\ out' # <<>>
  /\ \A i \in 1..Len(out') : /\ out'[i] < sent
                             /\ out'[i] > IF i = 1 THEN last ELSE out'[i - 1]
  /\ last' = out'[Len(out')]
  /\ UNCHANGED sent

Spec == Init /\ [][Submit \/ Quiet \/ Deliver]_<<sent, last, out>>
=============================================================================
