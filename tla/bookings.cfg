SPECIFICATION Spec
CONSTANTS
  rider = rider
  driver = driver
  c3 = c3
  b1 = b1
  s1 = s1
  Users = {rider, driver}
  Clients = {c1, c3}
  Publishers = {p1, p2}
  UserOf <- MCUserOf
  Bookings = {b1}
  RiderOf <- MCRiderOf
  DriverOf <- MCDriverOf
  Sessions = {s1}
  SessionOf <- MCSessionOf
  ReviewIds = {v1}
  Ratings <- MCRatings
  Asked <- MCAsked
SYMMETRY MCSymmetry
INVARIANTS
  TypeOK
  CompletedRodeAlong
  ReviewsAreEarned
  PushesAreTrue
  OverMeansTheSame
PROPERTY RidesMoveForward
CHECK_DEADLOCK FALSE
