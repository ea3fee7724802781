SPECIFICATION FairSpec
CONSTANTS
  MaxRounds = 2
  ConfidenceThreshold = 85
  HighRiskThreshold = 90
  Events <- MCEvents
  Topologies <- MCTopologies
  Listings <- MCListings
  TopologyEnabled = TRUE
  PolicyEnabled = TRUE
  None = None
INVARIANTS
  TypeOK
  ApprovedMeansAuto
  AutoIsGated
  AutoSparesListed
  SuggestionsRepair
  OnlyTrustedIsVerified
  LowRiskIsSoftened
PROPERTIES
  ContainmentIsKept
  DebateEnds
CHECK_DEADLOCK FALSE
