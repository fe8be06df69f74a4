---------------------------- MODULE MCBookings ----------------------------
(***************************************************************************)
(* Instance of BookingLifecycle for TLC: one booking of a rider and a      *)
(* driver, with a connection each, and two requests at a time.           *)
(***************************************************************************)
EXTENDS BookingLifecycle

CONSTANTS b1, s1, rider, driver, c3

MCUserOf == [c \in Clients |-> IF c = c3 THEN driver ELSE rider]
MCRiderOf == b1 :> rider
MCDriverOf == b1 :> driver
MCSessionOf == b1 :> s1
MCAsked == {"rider_walking_to_pickup", "pickup_ready", "onboard", "completed", "canceled"}
MCRatings == {0, 5}
MCSymmetry == Permutations(Publishers)
=============================================================================
