SPECIFICATION FairSpec

CONSTANTS
  DemandIds = {d1}
  OfferIds = {o1}
  BookingIds = {b1}
  SessionIds = {s1}
  Requests = {p1}
  Capacity <- TwoSeats
  Ops = {"start", "create", "sweep"}
PROPERTY OfferedDemandsMoveOn
CHECK_DEADLOCK FALSE
