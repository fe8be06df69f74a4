SPECIFICATION Spec
SYMMETRY Symmetry
CONSTANTS
  DemandIds = {d1, d2}
  OfferIds = {o1, o2}
  BookingIds = {b1, b2}
  SessionIds = {s1}
  Requests = {p1, p2}
  Capacity <- TwoSeats
  Ops = {"start", "heartbeat", "transition", "create", "accept", "reconcile", "presenceExpiry", "reconcileError"}
INVARIANTS
  SeatsAreAccountedFor
  ActiveHasSeat
CHECK_DEADLOCK FALSE
