----------------------------- MODULE MCWorkflow -----------------------------
(***************************************************************************)
(* Workflows for three events: one that is softened, one that runs as      *)
(* proposed, and one that only a human may let through. The topology rates *)
(* every asset LOW, the policy server may list the source as critical. The *)
(* strategy and the pods have Kubernetes names, the source is an IP        *)
(* address; the subject is a core service.                                 *)
(***************************************************************************)
EXTENDS EventWorkflow

LOCAL On(severity, score, log4j, shell, source) ==
  [severity |-> severity, score |-> score, log4j |-> log4j, shell |-> shell,
   source |-> source]

MCEvents ==
  { On("LOW", 20, TRUE, FALSE, TRUE),
    On("MEDIUM", 30, FALSE, TRUE, FALSE),
    On("CRITICAL", 95, TRUE, FALSE, FALSE) }

MCTopologies == { [a \in Asset |-> "LOW"] }

MCShapes == [subject |-> "kube", object |-> "safe", source |-> "safe", neighbour |-> "kube"]

MCListings ==
  { [critical |-> critical, high |-> {}, databases |-> {}, onPath |-> {}] :
      critical \in {{}, {"source"}} }

MCNames == [a \in Asset |-> [words |-> {}, core |-> a = "subject"]]

=============================================================================
