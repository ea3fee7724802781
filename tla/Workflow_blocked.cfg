SPECIFICATION WorkflowSpec
CONSTANTS
  MaxRounds = 2
  ConfidenceThreshold = 85
  HighRiskThreshold = 90
  Events <- MCEvents
  Topologies <- MCTopologies
  Listings <- MCListings
  TopologyEnabled = FALSE
  PolicyEnabled = TRUE
  None = None
  GuardStrict = TRUE
  IdOf = "kube"
  ShapeOf <- MCShapes
  NameOf <- MCNames
  Namespaces = {"default", "prod", "kube-system"}
INVARIANT BlockedIsNotExecuted
CHECK_DEADLOCK FALSE
