SPECIFICATION FairSpec
CONSTANTS
  o1 = o1
  o2 = o2
  d1 = d1
  d2 = d2
  s1 = s1
  NoOne = NoOne
  Offers = {o1, o2}
  Demands = {d1, d2}
  Sessions = {s1}
  SessionOf <- MCSessionOf
  DemandOf <- MCDemandOf
  Capacity = 2
  Workers = {w1, w2, w3}
INVARIANTS
  TypeOK
  CopiesAreCurrent
  NobodyWaitsInACircle
PROPERTIES
  AcceptanceIsAtomic
  EveryoneEnds
CHECK_DEADLOCK FALSE
