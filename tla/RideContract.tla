------------------------------- MODULE RideContract -------------------------------
(***************************************************************************)
(* What dispatch promises a rider, whatever requests and workers race:     *)
(* a demand is offered to at most one driver, an open offer ends once,     *)
(* in a booking or lost, and a booking is never taken back.                *)
(***************************************************************************)
CONSTANT DemandIds

VARIABLE phase   \* where each demand stands: none, open, booked or lost

Phases == {"none", "open", "booked", "lost"}

Init == phase = [d \in DemandIds |-> "none"]

Move(d, from, to) == phase[d] = from /\ phase' = [phase EXCEPT ![d] = to]

Offer(d) == Move(d, "none", "open")
Book(d)  == Move(d, "open", "booked")
Lose(d)  == Move(d, "open", "lost")

Next == \E d \in DemandIds : Offer(d) \/ Book(d) \/ Lose(d)

Spec == Init /\ [][Next]_phase

\* No offer stays open for ever: whoever answers last, the sweeper does.
FairSpec == Spec /\ \A d \in DemandIds : WF_phase(Book(d) \/ Lose(d))
=============================================================================
