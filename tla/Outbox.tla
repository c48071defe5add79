------------------------------- MODULE Outbox -------------------------------
(***************************************************************************)
(* What an offline queue promises: mutations are accepted one after the    *)
(* other, and none takes effect for the first time after one accepted      *)
(* later.  Some may never take effect: refused, or given up.               *)
(***************************************************************************)
EXTENDS Naturals

VARIABLES
  accepted,   \* how many mutations were accepted
  delivered   \* those that have taken effect

outbox == <<accepted, delivered>>

Init == accepted = 0 /\ delivered = {}

Accept == accepted' = accepted + 1 /\ UNCHANGED delivered

Deliver(m) ==
  /\ \A d \in delivered : d < m
  /\ delivered' = delivered \cup {m}
  /\ UNCHANGED accepted

Next == Accept \/ \E m \in 1 .. accepted : Deliver(m)

Spec == Init /\ [][Next]_outbox
=============================================================================
