SPECIFICATION Spec
CONSTANTS
  MaxRounds = 2
  ConfidenceThreshold = 85
  HighRiskThreshold = 90
  Events <- MCEvents
  Topologies <- MCTopologies
  Listings <- MCListings
  TopologyEnabled = TRUE
  PolicyEnabled = TRUE
  None = None
INVARIANT FailedCheckForbidsAuto
CHECK_DEADLOCK FALSE
