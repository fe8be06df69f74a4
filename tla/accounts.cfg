SPECIFICATION Spec
CONSTANTS
  s1 = s1
  s2 = s2
  u0 = u0
  u1 = u1
  u2 = u2
  v0 = v0
  v1 = v1
  v2 = v2
  r1 = r1
  r2 = r2
  k1 = k1
  p1 = p1
  c1 = c1
  c2 = c2
  None = None
  Subjects = {s1, s2}
  UserIds = {u0, u1, u2}
  VehicleIds = {v0, v1, v2}
  ResourceIds = {r1, r2}
  Keys = {k1}
  Plates = {p1}
  Genders = {"female", "unknown"}
  Calls = {c1, c2}
  DemoUser = u0
  DemoSubject = s1
  DemoVehicle = v0
  DemoPlate = p1
  Inputs <- MCInputs
SYMMETRY MCSymmetry
INVARIANTS
  TypeOK
  SignInsAgree
  AnswersMatch
  ReadyStays
  WomenAskForWomen
PROPERTIES
  RetriesMakeNothing
  KeepsMembership
CHECK_DEADLOCK FALSE
