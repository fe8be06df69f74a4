SPECIFICATION Spec
SYMMETRY Symmetry
CONSTANTS
  DemandIds = {d1, d2}
  OfferIds = {o1, o2}
  BookingIds = {b1, b2}
  SessionIds = {s1}
  Requests = {p1, p2}
  Capacity <- TwoSeats
  Ops = {"start", "create", "cancel", "accept", "decline", "sweep", "fault"}
INVARIANTS
  TypeOK
  SearchingIsFree
  OneBookingPerDemand
  BookedOfferIsAnswered
  AcceptedIsBooked
  SeatsMatchBookings
PROPERTY KeepsContract
CHECK_DEADLOCK FALSE
