SPECIFICATION FairSpec
CONSTANTS
  Demands <- MCDemands
  Listings <- MCListings
  Answers <- MCAnswers
  MaxStaleness = 1
  SafetyBuffer = 1
  MaxDelay = 1
INVARIANTS
  TypeOK
  OfferIsLeast
  NobodyIsOverlooked
  OfferKeepsLimits
PROPERTIES
  RunGetsOn
  MatchingEnds
CHECK_DEADLOCK FALSE
