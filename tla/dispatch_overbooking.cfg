SPECIFICATION Spec
SYMMETRY Symmetry
CONSTANTS
  DemandIds = {d1, d2}
  OfferIds = {o1, o2}
  BookingIds = {b1, b2}
  SessionIds = {s1}
  Requests = {p1, p2}
  Capacity <- OneSeat
  Ops = {"start", "heartbeat", "create", "accept"}
INVARIANT NoOverbooking
CHECK_DEADLOCK FALSE
