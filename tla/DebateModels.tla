---------------------------- MODULE DebateModels ----------------------------
(***************************************************************************)
(* The values the agents of agent-brain hand each other: security events,  *)
(* defense strategies, red-team findings and the Coordinator's decision.   *)
(*                                                                         *)
(* Scores and confidences are per cent. Machines are named by the role     *)
(* they play in the event. Free text (rationale, history, constraints,     *)
(* traces) is left out, and an action's parameters too, except where they  *)
(* decide: DENY_ALL is a firewall rule without a 5-tuple, SCALE_DOWN a     *)
(* SCALE_PROTECTION that scales down, DELETE any action whose operation    *)
(* deletes.                                                                *)
(***************************************************************************)
EXTENDS Integers, FiniteSets

Level == {"LOW", "MEDIUM", "HIGH", "CRITICAL"}

Rank == [LOW |-> 0, MEDIUM |-> 1, HIGH |-> 2, CRITICAL |-> 3]

\* The highest of a non-empty set of levels.
Highest(levels) == CHOOSE l \in levels : \A m \in levels : Rank[m] <= Rank[l]

\* Subject and object of the event, its srcIp, and an asset the topology adds.
Asset == {"subject", "object", "source", "neighbour"}

Event ==
  [severity : Level, score : 0 .. 100, log4j : BOOLEAN, shell : BOOLEAN, source : BOOLEAN]

ActionKind ==
  {"ALERT_ONLY", "APPLY_WAF_RULE", "RESTRICT_EGRESS", "BLOCK_IP", "ISOLATE_POD",
   "ISOLATE_HOST", "DENY_ALL", "SCALE_DOWN", "DELETE", "OTHER"}

Action == [type : ActionKind, target : Asset]

\* Perform one type of action on one target.
Act(type, target) == [type |-> type, target |-> target]

(***************************************************************************)
(* "revertible": the rollback plan has steps and a trigger condition. The  *)
(* actions are a set: the Coordinator collapses duplicates before anyone   *)
(* counts them, except for the Planner's, which are distinct. The scope is *)
(* a set, too: every scope lists its assets in the order of First.         *)
(***************************************************************************)
Strategy ==
  [actions : SUBSET Action, scope : (SUBSET Asset) \ {{}}, ttl : Nat, confidence : 0 .. 100,
   revertible : BOOLEAN, approved : BOOLEAN]

\* The asset a scope begins with.
First(scope) ==
  IF "subject" \in scope THEN "subject"
  ELSE IF "source" \in scope THEN "source" ELSE "neighbour"

Types(s) == {a.type : a \in s.actions}

(***************************************************************************)
(* RedTeamFindings. "critical": the assets named in "directly impacts      *)
(* CRITICAL assets"; "disrupted": those among them with a business risk of *)
(* their own; "paths": business paths at risk; "neighbours": a HIGH or     *)
(* CRITICAL neighbour of a target is exposed; "residual": an attack path   *)
(* stays open; "egress": some constraint recommends RESTRICT_EGRESS.       *)
(***************************************************************************)
Findings ==
  [critical : SUBSET Asset, disrupted : SUBSET Asset, paths : 0 .. 2,
   neighbours : BOOLEAN, residual : BOOLEAN, egress : BOOLEAN]

BusinessRisks(f) == f.paths + Cardinality(f.disrupted)

\* What a strategy may be challenged with.
Title ==
  {"encoding", "distributed", "alternative route", "mutation", "scope too small",
   "root cause", "llm hint", "multi-source distributed", "base64 encoding",
   "application-layer mutation", "scope too narrow", "traffic path bypass",
   "surface, not root cause"}

NoFindings ==
  [critical |-> {}, disrupted |-> {}, paths |-> 0,
   neighbours |-> FALSE, residual |-> FALSE, egress |-> FALSE]

NextAction == {"CONTINUE_DEBATE", "ENTER_VERIFICATION", "REQUEST_HUMAN_REVIEW"}

StrategyStatus ==
  {"pending_validation", "approved_for_execution", "requires_approval", "needs_revision"}

\* PolicyValidation; "answered" is the envelope's success, kept in mcp_error.
PolicyValidation ==
  [called : BOOLEAN, answered : BOOLEAN, valid : BOOLEAN, approval : BOOLEAN]

=============================================================================
