SPECIFICATION HubFairSpec
CONSTANTS
  alice = alice
  bob = bob
  c4 = c4
  Users = {alice, bob}
  Clients = {c1, c2, c4}
  Publishers = {p1, p2}
  UserOf <- MCUserOf
INVARIANTS
  HubTypeOK
  LiveClientsAreListed
  GoneIsForgotten
PROPERTIES
  LostClientsLeave
CHECK_DEADLOCK FALSE
