----------------------------- MODULE PolicyService -----------------------------
(***************************************************************************)
(* policy-mcp-server: seven rules about a strategy, the four tools that    *)
(* evaluate them, and the patches that the tools suggest.                  *)
(*                                                                         *)
(* A strategy is what the rules read of it:                                *)
(*   actions    a function from positions to actions                       *)
(*   scope      scope.assets                                               *)
(*   ttl        the ttl in seconds, a set with at most one element: it     *)
(*              may be missing or illegible                                *)
(*   revertible the rollback plan has steps and a trigger condition        *)
(*   approval   human_approval is declared, wherever it may stand          *)
(* An action has a type, a target, the parameters that decide, and         *)
(* "replicas". A listing is what the rules say of assets: those that are   *)
(* critical, those that are high, databases, and assets in a zone where a  *)
(* production path ends.                                                   *)
(***************************************************************************)
EXTENDS Integers

\* The actions that the rules of policy_rules.json apply to.
FullyBlocking == {"BLOCK_IP", "ISOLATE_HOST", "ISOLATE_POD"}
PathBlocking ==
  FullyBlocking \cup {"BLOCK_DOMAIN", "RESTRICT_EGRESS", "APPLY_FIREWALL_RULE"}
HighRiskAction == PathBlocking \cup {"DISABLE_ACCOUNT", "REVOKE_TOKEN"}
Destructive ==
  FullyBlocking \cup {"BLOCK_DOMAIN", "DISABLE_ACCOUNT", "REVOKE_TOKEN"}

(***************************************************************************)
(* What the rules list, by name. Of the shipped rules it holds that the    *)
(* critical databases are in a zone where a production path ends.          *)
(***************************************************************************)
Listing(names) ==
  {l \in [critical : SUBSET names, high : SUBSET names, databases : SUBSET names,
          onPath : SUBSET names] : l.critical \cap l.databases \subseteq l.onPath}

LegalTtl == 60 .. 86400

(***************************************************************************)
(* "ingress_only" and "flows" narrow a block, "production_flow" is a flow  *)
(* that names a production path; "matcher" and "5-tuple" are what WAF and  *)
(* firewall rules need, "passing" says that they do not block.             *)
(***************************************************************************)
Parameter == {"ingress_only", "flows", "production_flow", "matcher", "5-tuple", "passing"}

Replicas == {"absent", "illegible", "too few", "enough"}

Reaches(s, i, assets) == s.actions[i].target \in assets \/ s.scope \cap assets # {}

\* Mutant: only the target is looked up.
TargetHit(s, i, listing) == s.actions[i].target \in listing.critical

CriticalHit(s, i, listing) == Reaches(s, i, listing.critical)

AffectsProductionPath(s, i, listing) ==
  "production_flow" \in s.actions[i].params \/ Reaches(s, i, listing.onPath)

-----------------------------------------------------------------------------
(* The rules: does action i break it? *)

BlocksCriticalDatabase(s, i, listing) ==
  /\ s.actions[i].type \in FullyBlocking
  /\ Reaches(s, i, listing.critical \cap listing.databases)
  /\ s.actions[i].params \cap {"ingress_only", "flows"} = {}

BlocksPathWithoutTtl(s, i, listing) ==
  /\ s.actions[i].type \in PathBlocking
  /\ AffectsProductionPath(s, i, listing)
  /\ s.ttl \cap LegalTtl = {}

LacksRollback(s, i) == s.actions[i].type \in HighRiskAction /\ ~s.revertible

LacksReplicas(s, i) ==
  \/ s.actions[i].replicas \in {"illegible", "too few"}
  \/ s.actions[i].type = "SCALE_PROTECTION" /\ s.actions[i].replicas = "absent"

BlocksTooMuch(s, i, type, needed) ==
  /\ s.actions[i].type = type
  /\ s.actions[i].params \cap {"passing", needed} = {}

UnapprovedOnCritical(s, i, listing) ==
  /\ ~s.approval
  /\ s.actions[i].type \in HighRiskAction
  /\ CriticalHit(s, i, listing)

Breaks(rule, s, i, listing) ==
  \/ rule = "RULE-001" /\ BlocksCriticalDatabase(s, i, listing)
  \/ rule = "RULE-002" /\ BlocksPathWithoutTtl(s, i, listing)
  \/ rule = "RULE-003" /\ LacksRollback(s, i)
  \/ rule = "RULE-004" /\ LacksReplicas(s, i)
  \/ rule = "RULE-005" /\ BlocksTooMuch(s, i, "APPLY_WAF_RULE", "matcher")
  \/ rule = "RULE-006" /\ BlocksTooMuch(s, i, "APPLY_FIREWALL_RULE", "5-tuple")
  \/ rule = "RULE-007" /\ UnapprovedOnCritical(s, i, listing)

Severe == {"RULE-001", "RULE-002", "RULE-003", "RULE-007"}   \* critical or high
Mild == {"RULE-004", "RULE-005", "RULE-006"}
Rule == Severe \cup Mild
BusinessRule == {"RULE-001", "RULE-002", "RULE-005", "RULE-006"}

Findings(s, listing, rules) ==
  {f \in [rule : rules, at : DOMAIN s.actions] : Breaks(f.rule, s, f.at, listing)}

About(found, rules) == {f \in found : f.rule \in rules}

-----------------------------------------------------------------------------
(* The tools *)

\* Some high-risk action touches a critical asset, declared or not.
CriticalAction(s, listing) ==
  \E i \in DOMAIN s.actions :
    s.actions[i].type \in HighRiskAction /\ CriticalHit(s, i, listing)

Answer(found, approval) ==
  [valid |-> About(found, Severe) = {}, violations |-> About(found, Severe),
   warnings |-> About(found, Mild), approval |-> approval, suggestions |-> found]

\* validate_strategy, and suggest_safer_strategy, which returns the same.
Validate(s, listing) ==
  LET found == Findings(s, listing, Rule)
  IN  Answer(found, \/ About(found, {"RULE-001", "RULE-007"}) # {}
                    \/ CriticalAction(s, listing))

CheckBusiness(s, listing) ==
  LET found == Findings(s, listing, BusinessRule)
  IN  Answer(found, About(found, {"RULE-001"}) # {})

\* Destructive actions on high assets need a human as well, if nobody has approved.
RequireHuman(s, listing) ==
  LET found    == Findings(s, listing, {"RULE-001", "RULE-007"})
      advisory == \E i \in DOMAIN s.actions : /\ s.actions[i].type \in Destructive
                                              /\ s.actions[i].target \in listing.high
  IN  Answer(found, found # {} \/ (~s.approval /\ advisory))

-----------------------------------------------------------------------------
(* The suggestions *)

\* What the patches of these findings merge into an action.
Merged(rules) ==
  (IF "RULE-001" \in rules THEN {"ingress_only", "flows", "production_flow"} ELSE {})
  \cup (IF "RULE-005" \in rules THEN {"matcher"} ELSE {})
  \cup (IF "RULE-006" \in rules THEN {"5-tuple"} ELSE {})

\* The patches are applied to the actions they were made for.
PatchedActions(s, found) ==
  [i \in DOMAIN s.actions |->
     LET rules == {f.rule : f \in {g \in found : g.at = i}}
         a     == s.actions[i]
     IN  [type |-> a.type, target |-> a.target,
          params |-> a.params \cup Merged(rules),
          replicas |-> IF "RULE-004" \in rules THEN "enough" ELSE a.replicas]]

\* Mutant: the suggested ttl is in minutes.
PatchedInMinutes(s, found) ==
  [actions    |-> PatchedActions(s, found),
   scope      |-> s.scope,
   ttl        |-> IF About(found, {"RULE-002"}) # {} THEN {30} ELSE s.ttl,
   revertible |-> s.revertible \/ About(found, {"RULE-003"}) # {},
   approval   |-> s.approval \/ About(found, {"RULE-007"}) # {}]

\* The strategy after all suggested patches, which do not disturb each other.
Patched(s, found) ==
  [actions    |-> PatchedActions(s, found),
   scope      |-> s.scope,
   ttl        |-> IF About(found, {"RULE-002"}) # {} THEN {1800} ELSE s.ttl,
   revertible |-> s.revertible \/ About(found, {"RULE-003"}) # {},
   approval   |-> s.approval \/ About(found, {"RULE-007"}) # {}]

=============================================================================
