-------------------------- MODULE CoordinatorAgent --------------------------
(***************************************************************************)
(* CoordinatorAgent.run after a revision: decides whether the debate goes  *)
(* on, and whether the strategy may be executed without a human. A "case"  *)
(* is all it decides on:                                                   *)
(*   event, strategy, unresolved, round     the debate                     *)
(*   blast, findings                        topology, of both agents       *)
(*   policy                                 policy-mcp-server's answer     *)
(***************************************************************************)
EXTENDS DebateModels

CONSTANTS
  MaxRounds,             \* DebateState.maxRounds
  ConfidenceThreshold,   \* DebateState.confidenceThreshold
  HighRiskThreshold      \* DebateState.highRiskThreshold

ASSUME CoordinatorAssumption ==
  /\ MaxRounds \in Nat \ {0}
  /\ ConfidenceThreshold \in 0 .. 100
  /\ HighRiskThreshold \in 31 .. 100

Case ==
  [event : Event, strategy : Strategy, unresolved : SUBSET Title, round : Nat,
   blast : Level, findings : Findings, policy : PolicyValidation]

-----------------------------------------------------------------------------
(* Where the debate goes *)

HighRisk(c) == c.event.score >= HighRiskThreshold
Confident(c) == c.strategy.confidence >= ConfidenceThreshold
ReachedMaxRound(c) == c.round >= MaxRounds

Reason ==
  {"high_risk_low_confidence", "coverage_good_confidence_good", "max_round_reached",
   "need_more_coverage", "low_risk_sandbox_auto_executable"}

\* The first rung that applies.
LadderReason(c) ==
  CASE HighRisk(c) /\ ~Confident(c) -> "high_risk_low_confidence"
    [] ~(HighRisk(c) /\ ~Confident(c)) /\ c.unresolved = {} /\ Confident(c) ->
         "coverage_good_confidence_good"
    [] ~(HighRisk(c) /\ ~Confident(c)) /\ ~(c.unresolved = {} /\ Confident(c)) ->
         IF ReachedMaxRound(c) THEN "max_round_reached" ELSE "need_more_coverage"

\* Mutant: the last round approves whatever there is.
TiredNextOn(reason, confident) ==
  CASE reason = "high_risk_low_confidence" -> "REQUEST_HUMAN_REVIEW"
    [] reason = "need_more_coverage"       -> "CONTINUE_DEBATE"
    [] reason \in Reason \ {"high_risk_low_confidence", "need_more_coverage"} ->
         "ENTER_VERIFICATION"

NextOn(reason, confident) ==
  CASE reason = "high_risk_low_confidence" -> "REQUEST_HUMAN_REVIEW"
    [] reason = "need_more_coverage"       -> "CONTINUE_DEBATE"
    [] reason = "max_round_reached" ->
         IF confident THEN "ENTER_VERIFICATION" ELSE "REQUEST_HUMAN_REVIEW"
    [] reason \in {"coverage_good_confidence_good", "low_risk_sandbox_auto_executable"} ->
         "ENTER_VERIFICATION"

-----------------------------------------------------------------------------
(* Risk and safety *)

\* Open paths of a sandbox event do not make it HIGH.
SandboxPaths(c) ==
  c.blast = "LOW" /\ c.event.severity \in {"LOW", "MEDIUM"} /\ c.event.score <= 30

RiskLevel(c) ==
  LET When(condition, level) == IF condition THEN {level} ELSE {}
  IN  Highest({c.event.severity}
        \cup When(c.blast = "HIGH", "HIGH")
        \cup When(c.blast = "MEDIUM", "MEDIUM")
        \cup When(c.findings.residual, IF SandboxPaths(c) THEN "MEDIUM" ELSE "HIGH")
        \cup When(BusinessRisks(c.findings) >= 2, "HIGH")
        \cup When(BusinessRisks(c.findings) = 1, "MEDIUM")
        \cup When(c.event.score >= 90, "HIGH")
        \cup When(Cardinality(c.unresolved) >= 3, "MEDIUM"))

Revertible(s) == s.revertible /\ s.ttl >= 60

SafetyCheck ==
  {"critical_assets_impacted", "impact_level_high", "destructive_action_type",
   "rollback_plan_present", "ttl_minutes_present", "policy_human_approval_not_required"}

\* _evaluate_safety_checks: those that fail.
FailedChecks(c) ==
  LET Fails(check, condition) == IF condition THEN {check} ELSE {}
  IN  Fails("critical_assets_impacted",
            \/ c.findings.critical # {}
            \/ c.findings.neighbours
            \/ c.event.severity = "CRITICAL")
      \cup Fails("impact_level_high", \/ c.blast = "HIGH"
                                      \/ RiskLevel(c) \in {"HIGH", "CRITICAL"})
      \cup Fails("destructive_action_type",
                 Types(c.strategy) \cap {"ISOLATE_HOST", "DENY_ALL", "SCALE_DOWN"} # {})
      \cup Fails("rollback_plan_present", ~c.strategy.revertible)
      \cup Fails("ttl_minutes_present", c.strategy.ttl < 60)
      \cup Fails("policy_human_approval_not_required", c.policy.called /\ c.policy.approval)

\* Mutant: the Red-Teamer's findings are not looked at.
EventTierImpact(c) ==
  c.event.severity \in {"HIGH", "CRITICAL"} \/ c.blast = "HIGH"

\* An exposed HIGH/CRITICAL neighbour is not among these signals.
HighTierImpact(c) ==
  \/ c.findings.critical # {}
  \/ c.event.severity \in {"HIGH", "CRITICAL"}
  \/ c.blast = "HIGH"

\* _is_low_risk_auto_executable
LowRiskAuto(c) ==
  /\ c.policy.called /\ c.policy.valid /\ ~c.policy.approval
  /\ c.event.severity \in {"LOW", "MEDIUM"}
  /\ c.event.score <= 30
  /\ c.blast = "LOW"
  /\ ~HighTierImpact(c)
  /\ RiskLevel(c) \in {"LOW", "MEDIUM"}
  /\ Types(c.strategy) \cap {"DENY_ALL", "SCALE_DOWN", "DELETE"} = {}
  /\ Revertible(c.strategy)

-----------------------------------------------------------------------------
(* The decision *)

\* _resolve_strategy_status
StatusOn(next, policy) ==
  CASE policy.called /\ ~policy.valid -> "needs_revision"
    [] policy.called /\ policy.valid /\ policy.approval -> "requires_approval"
    [] ~(policy.called /\ ~policy.valid) /\ ~(policy.called /\ policy.approval) ->
         CASE next = "REQUEST_HUMAN_REVIEW" -> "requires_approval"
           [] next = "ENTER_VERIFICATION"   -> "approved_for_execution"
           [] next = "CONTINUE_DEBATE"      -> "pending_validation"

\* _resolve_human_approval
HumanOn(next, policy, risk) ==
  \/ policy.called /\ policy.approval
  \/ next = "REQUEST_HUMAN_REVIEW"
  \/ risk = "CRITICAL"

\* _collect_approval_reasons: whether there are any.
HasReasons(c, status) ==
  \/ FailedChecks(c) # {}
  \/ status = "needs_revision"
  \/ c.policy.called /\ ~c.policy.answered

Decide(c) ==
  LET lowRisk == LowRiskAuto(c)
      reason  == IF lowRisk THEN "low_risk_sandbox_auto_executable" ELSE LadderReason(c)
      next    == NextOn(reason, Confident(c))
      before  == StatusOn(next, c.policy)
      unsafe  == FailedChecks(c) # {}
      status  == IF lowRisk THEN "approved_for_execution"
                 ELSE IF unsafe /\ before = "approved_for_execution"
                 THEN "requires_approval" ELSE before
      human   == ~lowRisk /\ (unsafe \/ HumanOn(next, c.policy, RiskLevel(c)))
  IN  [reason |-> reason, next |-> next, status |-> status, human |-> human,
       auto |-> ~human /\ status = "approved_for_execution",
       risk |-> RiskLevel(c), failed |-> FailedChecks(c), policy |-> c.policy,
       reasons |-> HasReasons(c, status)]

Decision ==
  [reason : Reason, next : NextAction, status : StrategyStatus, human : BOOLEAN,
   auto : BOOLEAN, risk : Level, failed : SUBSET SafetyCheck,
   policy : PolicyValidation, reasons : BOOLEAN]

\* Mutant: a later veto leaves the ladder's approval in place.
StandingApprovalBy(c, d) ==
  \/ d.reason = "low_risk_sandbox_auto_executable"
  \/ NextOn(LadderReason(c), Confident(c)) = "ENTER_VERIFICATION"

(***************************************************************************)
(* DefenseStrategy.approved afterwards. The ladder sets it when it ends    *)
(* the debate, a low-risk strategy is approved, and a status that blocks   *)
(* the strategy takes the approval back.                                   *)
(***************************************************************************)
ApprovedBy(c, d) ==
  LET ladder == NextOn(LadderReason(c), Confident(c))
      before == \/ d.reason = "low_risk_sandbox_auto_executable"
                \/ IF ladder = "CONTINUE_DEBATE" THEN c.strategy.approved
                   ELSE ladder = "ENTER_VERIFICATION"
  IN  before /\ d.status \notin {"needs_revision", "requires_approval"}

\* Mutant: every visit counts as a new round.
RoundAfterVisit(c) == c.round + 1

\* Mutant: going on is not counted.
RoundBefore(c) == c.round

\* DebateState.round: it advances even when the low-risk path ends the debate.
RoundAfter(c) ==
  IF LadderReason(c) = "need_more_coverage" THEN c.round + 1 ELSE c.round

=============================================================================
