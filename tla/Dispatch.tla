------------------------------ MODULE Dispatch ------------------------------
(***************************************************************************)
(* What the event pipeline promises the two receivers of eventChan: every  *)
(* event is delivered at most once, to one receiver only, and deliveries   *)
(* are in the order in which the events were produced.  Events may be      *)
(* dropped on the way (full ring buffer, process of another pod).          *)
(***************************************************************************)
EXTENDS Naturals, Sequences

CONSTANT Receivers

VARIABLES
  produced,  \* number of events produced: their ids are 1 .. produced
  got        \* the events each receiver was given, in order

vars == <<produced, got>>

Init ==
  /\ produced = 0
  /\ got = [r \in Receivers |-> <<>>]

Produce ==
  /\ produced' = produced + 1
  /\ UNCHANGED got

(* The next event delivered, to whomever, is younger than all delivered before. *)
Deliver(r) ==
  /\ \E id \in 1 .. produced :
       /\ \A q \in Receivers : \A i \in DOMAIN got[q] : got[q][i] < id
       /\ got' = [got EXCEPT ![r] = Append(@, id)]
  /\ UNCHANGED produced

Next ==
  \/ Produce
  \/ \E r \in Receivers : Deliver(r)

Spec == Init /\ [][Next]_vars
=============================================================================
