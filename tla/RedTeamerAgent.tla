--------------------------- MODULE RedTeamerAgent ---------------------------
(***************************************************************************)
(* RedTeamerAgent: the challenges to the Planner's proposal, and the       *)
(* findings it reads off the topology service's answers. Challenges are    *)
(* their titles. Those made from topology findings are left out: the       *)
(* revision counts each of them as covered.                                *)
(***************************************************************************)
EXTENDS DebateModels

\* What every strategy is challenged with, "for the revision to converge on".
Defaults ==
  {"encoding", "distributed", "alternative route", "mutation", "scope too small",
   "root cause"}

Challenges(proposal) ==
  LET types == Types(proposal)
      On(condition, titles) == IF condition THEN titles ELSE {}
  IN  Defaults \cup {"llm hint"}
      \cup On(types = {"BLOCK_IP"}, {"multi-source distributed"})
      \cup On(types = {"APPLY_WAF_RULE"}, {"base64 encoding", "application-layer mutation"})
      \cup On("RESTRICT_EGRESS" \in types /\ "ISOLATE_POD" \notin types,
              {"scope too narrow"})
      \cup On("APPLY_WAF_RULE" \in types /\ "BLOCK_IP" \notin types, {"traffic path bypass"})
      \cup On("ALERT_ONLY" \in types, {"surface, not root cause"})

-----------------------------------------------------------------------------
(* The topology service's side: evaluate_strategy_impact *)

\* The effect of an action, upper-cased as the Red-Teamer compares it.
EffectOf(type) ==
  CASE type \in {"ISOLATE_POD", "ISOLATE_HOST"}    -> "DISRUPTIVE"
    [] type = "RESTRICT_EGRESS"                    -> "PARTIAL_DISRUPTIVE"
    [] type = "BLOCK_IP"                           -> "NETWORK_BLOCK"
    [] type \in {"APPLY_WAF_RULE", "DENY_ALL", "SCALE_DOWN"} -> "PROTECTIVE"
    [] type = "ALERT_ONLY"                         -> "PASSIVE"
    [] OTHER                                       -> "UNKNOWN"

BreaksPaths == {"DISRUPTIVE", "PARTIAL_DISRUPTIVE", "NETWORK_BLOCK"}

\* Targets and scope; a machine the topology does not know is not affected.
Affected(s, criticality) ==
  {x \in {a.target : a \in s.actions} \cup s.scope : criticality[x] # "unknown"}

DisruptsPaths(s, criticality) ==
  \E a \in s.actions : EffectOf(a.type) \in BreaksPaths /\ criticality[a.target] # "unknown"

-----------------------------------------------------------------------------
(* The Red-Teamer's reading of it *)

BlockLike ==
  {"BLOCK_IP", "ISOLATE_POD", "ISOLATE_HOST", "RESTRICT_EGRESS", "DENY_ALL"}

\* The effects that count as an outage of a CRITICAL asset.
Outage == {"DISRUPT", "ISOLATE", "BLOCK"}

(***************************************************************************)
(* _collect_topology_findings_async when evaluate_strategy_impact answered *)
(* ("evaluated") and "paths" of the business paths are at risk, together   *)
(* with what get_neighbors and find_paths brought up. TTL and rollback     *)
(* constraints never concern what the Planner proposes.                    *)
(***************************************************************************)
FindingsOf(proposal, criticality, evaluated, paths, neighbours, residual) ==
  LET critical == {x \in Affected(proposal, criticality) :
                     evaluated /\ criticality[x] = "CRITICAL"}
      disrupted == {x \in critical : \E a \in proposal.actions :
                      a.target = x /\ EffectOf(a.type) \in Outage}
  IN  [critical |-> critical, disrupted |-> disrupted, paths |-> paths,
       neighbours |-> neighbours, residual |-> residual,
       egress |-> \/ disrupted # {}
                  \/ paths > 0
                  \/ Types(proposal) \cap BlockLike = {}]

=============================================================================
