----------------------------- MODULE DomainPolicies -----------------------------
(***************************************************************************)
(* internal/domain: the states of the four aggregates and the policies the *)
(* services consult before they change one.  Pure operators: the modules   *)
(* that model services, workers and stores extend this one.                *)
(***************************************************************************)
EXTENDS Naturals

DemandStates  == {"draft", "searching", "offered", "matched", "canceled", "aborted"}
OfferStates   == {"pending", "accepted", "declined", "expired", "withdrawn"}
SessionStates == {"active", "full", "paused", "ended"}
BookingStates == {"assigned", "rider_walking_to_pickup", "driver_en_route_to_pickup",
                  "pickup_ready", "onboard", "completed", "canceled", "no_show"}

\* TripDemand.CanTransitionTo: matched, canceled and aborted are terminal.
DemandMayBecome(from, to) ==
  \/ from = "draft"     /\ to \in {"searching", "canceled"}
  \/ from = "searching" /\ to \in {"offered", "matched", "canceled", "aborted"}
  \/ from = "offered"   /\ to \in {"searching", "matched", "canceled", "aborted"}

\* Mutant: only a declined offer counts as settled.
OfferMayBecomeAgain(from, to) == from # "declined" /\ to \in OfferStates \ {"pending"}

\* RideOffer.CanTransitionTo: an offer leaves pending once and for all.
OfferMayBecome(from, to) == from = "pending" /\ to \in OfferStates \ {"pending"}

\* DriverSession.CanTransitionTo: ended is terminal.
SessionMayBecome(from, to) ==
  \/ from = "active" /\ to \in {"full", "paused", "ended"}
  \/ from = "full"   /\ to \in {"active", "paused", "ended"}
  \/ from = "paused" /\ to \in {"active", "ended"}

\* Mutant: everything but a terminal state may change.
BookingMayBecomeUnlessTerminal(from, to) ==
  from \notin {"completed", "canceled", "no_show"} /\ to \in BookingStates

\* RideBooking.CanTransitionTo: completed, canceled and no_show are terminal.
BookingMayBecome(from, to) ==
  \/ from = "assigned"
     /\ to \in {"rider_walking_to_pickup", "driver_en_route_to_pickup", "canceled"}
  \/ from = "rider_walking_to_pickup"
     /\ to \in {"driver_en_route_to_pickup", "pickup_ready", "canceled", "no_show"}
  \/ from = "driver_en_route_to_pickup" /\ to \in {"pickup_ready", "canceled", "no_show"}
  \/ from = "pickup_ready" /\ to \in {"onboard", "canceled", "no_show"}
  \/ from = "onboard"      /\ to \in {"completed", "canceled"}

\* Mutant: the rider is on board, the position is of no interest.
AllowsTrackingUntilOnboard(state) ==
  state \in {"assigned", "rider_walking_to_pickup", "driver_en_route_to_pickup", "pickup_ready"}

\* RideBooking.AllowsDriverTracking: as long as the booking is not terminal.
AllowsDriverTracking(state) == state \in
  {"assigned", "rider_walking_to_pickup", "driver_en_route_to_pickup", "pickup_ready", "onboard"}

\* The states in which a driver is on the road: what ListActive selects.
OnTheRoad == {"active", "full"}

\* The part of CanDriverServeDemand that is about the session row.
HasSeatToOffer(session) == session.state \in OnTheRoad /\ session.seats > 0

=============================================================================
