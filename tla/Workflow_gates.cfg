SPECIFICATION FairWorkflowSpec
CONSTANTS
  MaxRounds = 2
  ConfidenceThreshold = 85
  HighRiskThreshold = 90
  Events <- MCEvents
  Topologies <- MCTopologies
  Listings <- MCListings
  TopologyEnabled = TRUE
  PolicyEnabled = TRUE
  None = None
  GuardStrict = TRUE
  IdOf = "kube"
  ShapeOf <- MCShapes
  NameOf <- MCNames
  Namespaces = {"default", "prod", "kube-system"}
INVARIANTS
  FlowTypeOK
  ExecutedIsGated
  AnswerIsTrue
  PassedKeepsServices
PROPERTY EventIsAnswered
CHECK_DEADLOCK FALSE
