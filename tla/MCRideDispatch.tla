------------------------------ MODULE MCRideDispatch ------------------------------
(* Instances of RideDispatch for TLC. *)
EXTENDS RideDispatch, TLC

Symmetry == Permutations(DemandIds) \cup Permutations(OfferIds)
       \cup Permutations(BookingIds) \cup Permutations(Requests)

OneSeat == [s \in SessionIds |-> 1]
TwoSeats == [s \in SessionIds |-> 2]
=============================================================================
