-------------------------- MODULE ReliableDelivery --------------------------
(***************************************************************************)
(* What an acknowledged bearer promises: an accepted SDU reaches the peer  *)
(* unchanged and at most once, in any order, and the sender is told of a   *)
(* delivery only after it happened.                                        *)
(***************************************************************************)
EXTENDS Naturals

CONSTANT Sdus          \* the SDUs, numbered in the order they are accepted

VARIABLES accepted,    \* how many SDUs were accepted
          delivered,   \* how often each SDU, or anything else (0), went up
          confirmed    \* the SDUs reported as delivered

vars == <<accepted, delivered, confirmed>>

Init == accepted = 0 /\ delivered = [k \in Sdus \cup {0} |-> 0] /\ confirmed = {}

Accept == /\ accepted + 1 \in Sdus
          /\ accepted' = accepted + 1
          /\ UNCHANGED <<delivered, confirmed>>

Deliver(k) == /\ k <= accepted
              /\ delivered[k] = 0
              /\ delivered' = [delivered EXCEPT ![k] = 1]
              /\ UNCHANGED <<accepted, confirmed>>

Confirm(S) == /\ \A k \in S : delivered[k] = 1
              /\ confirmed' = confirmed \cup S
              /\ UNCHANGED <<accepted, delivered>>

Next == \/ Accept
        \/ \E k \in Sdus : Deliver(k)
        \/ \E S \in SUBSET Sdus : Confirm(S)

Spec == Init /\ [][Next]_vars
=============================================================================
