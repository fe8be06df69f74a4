SPECIFICATION Spec
CONSTANTS
  Demands <- MCWalkers
  Listings <- MCListings
  Answers <- MCAnswers
  MaxStaleness = 1
  SafetyBuffer = 1
  MaxDelay = 1
PROPERTY WalkingCostsNobody
CHECK_DEADLOCK FALSE
