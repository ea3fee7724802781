------------------------------ MODULE MCDebate ------------------------------
(***************************************************************************)
(* Debates about seven events, with the thresholds of DebateState. They      *)
(* cover each pair of signals the Planner looks for, scores on both sides  *)
(* of the low-risk, confidence and high-risk thresholds and every severity.*)
(***************************************************************************)
EXTENDS DebateWorkflow

LOCAL On(severity, score, log4j, shell, source) ==
  [severity |-> severity, score |-> score, log4j |-> log4j, shell |-> shell,
   source |-> source]

MCEvents ==
  { On("LOW", 20, TRUE, FALSE, TRUE),        \* a probe of a sandbox
    On("LOW", 30, FALSE, TRUE, FALSE),       \* a shell at the low-risk threshold
    On("MEDIUM", 30, FALSE, TRUE, TRUE),     \* auto-executable, but not softened
    On("MEDIUM", 60, TRUE, TRUE, TRUE),      \* trusted, above the threshold
    On("HIGH", 60, FALSE, FALSE, FALSE),     \* nothing recognised, never trusted
    On("HIGH", 90, FALSE, FALSE, TRUE),      \* high risk, nothing recognised
    On("CRITICAL", 95, TRUE, FALSE, FALSE) }

LOCAL Known(subject, source, neighbour) ==
  [subject |-> subject, object |-> "unknown", source |-> source, neighbour |-> neighbour]

MCTopologies ==
  { Known("LOW", "LOW", "LOW"),
    Known("CRITICAL", "unknown", "HIGH"),
    Known("unknown", "CRITICAL", "CRITICAL") }

LOCAL Listed(critical, high, databases) ==
  [critical |-> critical, high |-> high, databases |-> databases, onPath |-> databases]

\* The rules do not always list what the topology knows.
MCListings ==
  { Listed({}, {"subject"}, {}),
    Listed({"neighbour"}, {}, {"neighbour"}),
    Listed({"subject", "source"}, {}, {"source"}) }

=============================================================================
