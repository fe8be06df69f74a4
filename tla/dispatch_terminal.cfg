SPECIFICATION Spec

CONSTANTS
  DemandIds = {d1}
  OfferIds = {o1}
  BookingIds = {b1}
  SessionIds = {s1}
  Requests = {p1}
  Capacity <- TwoSeats
  Ops = {"start", "create", "cancel", "accept"}
PROPERTY TerminalStatesAreFinal
CHECK_DEADLOCK FALSE
