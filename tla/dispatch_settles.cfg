SPECIFICATION FairSpec

CONSTANTS
  DemandIds = {d1}
  OfferIds = {o1}
  BookingIds = {b1}
  SessionIds = {s1}
  Requests = {p1}
  Capacity <- TwoSeats
  Ops = {"start", "heartbeat", "transition", "create", "cancel", "accept", "decline", "sweep", "reconcile", "presenceExpiry", "reconcileError"}
PROPERTIES
  SettlesEveryOffer
  DueOffersDoNotSlip
  AcceptsAtomically
CHECK_DEADLOCK FALSE
