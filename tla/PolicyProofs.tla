----------------------------- MODULE PolicyProofs -----------------------------
(***************************************************************************)
(* Proofs about policy-mcp-server, for strategies of any number of actions *)
(* and any listing of assets.                                              *)
(***************************************************************************)
EXTENDS PolicyService, TLAPS

-----------------------------------------------------------------------------
(* Findings *)

LEMMA BrokenIsFound ==
  ASSUME NEW s, NEW listing, NEW rules, NEW i \in DOMAIN s.actions, NEW r \in rules,
         Breaks(r, s, i, listing)
  PROVE  [rule |-> r, at |-> i] \in Findings(s, listing, rules)
BY DEF Findings

LEMMA FoundIsBroken ==
  ASSUME NEW s, NEW listing, NEW rules, NEW f \in Findings(s, listing, rules)
  PROVE  f.rule \in rules /\ f.at \in DOMAIN s.actions /\ Breaks(f.rule, s, f.at, listing)
BY DEF Findings

\* An answer is valid only if no action breaks a severe rule.
LEMMA ValidMeansUnbroken ==
  ASSUME NEW s, NEW listing, Validate(s, listing).valid,
         NEW i \in DOMAIN s.actions, NEW r \in Severe
  PROVE  ~Breaks(r, s, i, listing)
<1> SUFFICES ASSUME Breaks(r, s, i, listing) PROVE FALSE
  OBVIOUS
<1> DEFINE found == Findings(s, listing, Rule)
           f == [rule |-> r, at |-> i]
<1>1. f \in found
  BY BrokenIsFound DEF Rule
<1>2. About(found, Severe) = {}
  BY DEF Validate, Answer
<1>3. f.rule \in Severe
  OBVIOUS
<1> QED
  BY <1>1, <1>2, <1>3 DEF About

-----------------------------------------------------------------------------
(* Approval *)

(***************************************************************************)
(* validate_strategy asks for a human exactly when some high-risk action   *)
(* touches a critical asset, whether or not the strategy declares an       *)
(* approval: the two rules that ask for one are special cases.             *)
(***************************************************************************)
THEOREM ApprovalMeansCritical ==
  ASSUME NEW s, NEW listing
  PROVE  Validate(s, listing).approval <=> CriticalAction(s, listing)
<1> DEFINE found == Findings(s, listing, Rule)
           asking == About(found, {"RULE-001", "RULE-007"})
<1>1. Validate(s, listing).approval = (asking # {} \/ CriticalAction(s, listing))
  BY DEF Validate, Answer
<1>2. asking # {} => CriticalAction(s, listing)
  <2> SUFFICES ASSUME NEW f \in asking PROVE CriticalAction(s, listing)
    OBVIOUS
  <2>1. f \in found /\ f.rule \in {"RULE-001", "RULE-007"}
    BY DEF About
  <2>2. f.at \in DOMAIN s.actions /\ Breaks(f.rule, s, f.at, listing)
    BY <2>1, FoundIsBroken
  <2>3. \/ BlocksCriticalDatabase(s, f.at, listing)
        \/ UnapprovedOnCritical(s, f.at, listing)
    BY <2>1, <2>2 DEF Breaks
  <2>4. s.actions[f.at].type \in HighRiskAction /\ CriticalHit(s, f.at, listing)
    BY <2>3 DEF BlocksCriticalDatabase, UnapprovedOnCritical, Reaches, CriticalHit,
       FullyBlocking, PathBlocking, HighRiskAction
  <2> QED
    BY <2>2, <2>4 DEF CriticalAction
<1> QED
  BY <1>1, <1>2

(***************************************************************************)
(* A strategy that declares no approval and touches a critical asset is    *)
(* not valid: an answer that is valid and asks for a human is possible     *)
(* only for a strategy that declares one.                                  *)
(***************************************************************************)
THEOREM UndeclaredIsInvalid ==
  ASSUME NEW s, NEW listing, ~s.approval, CriticalAction(s, listing)
  PROVE  ~Validate(s, listing).valid
<1> SUFFICES ASSUME Validate(s, listing).valid PROVE FALSE
  OBVIOUS
<1>1. PICK i \in DOMAIN s.actions :
        s.actions[i].type \in HighRiskAction /\ CriticalHit(s, i, listing)
  BY DEF CriticalAction
<1>2. Breaks("RULE-007", s, i, listing)
  BY <1>1 DEF Breaks, UnapprovedOnCritical
<1> QED
  BY <1>2, ValidMeansUnbroken DEF Severe

\* What the business check refuses, the full validation refuses as well.
THEOREM BusinessIsPart ==
  ASSUME NEW s, NEW listing
  PROVE  CheckBusiness(s, listing).violations \subseteq Validate(s, listing).violations
<1>1. /\ CheckBusiness(s, listing).violations
           = About(Findings(s, listing, BusinessRule), Severe)
      /\ Validate(s, listing).violations = About(Findings(s, listing, Rule), Severe)
  BY DEF CheckBusiness, Validate, Answer
<1>2. Findings(s, listing, BusinessRule) \subseteq Findings(s, listing, Rule)
  BY DEF Findings, BusinessRule, Rule, Severe, Mild
<1> QED
  BY <1>1, <1>2 DEF About

-----------------------------------------------------------------------------
(* Suggestions *)

\* A patched action, by what was found about it.
LEMMA PatchedAt ==
  ASSUME NEW s, NEW listing, NEW i \in DOMAIN s.actions,
         NEW a, a = s.actions[i],
         NEW p, p = Patched(s, Findings(s, listing, Rule)).actions[i]
  PROVE  /\ p.type = a.type /\ p.target = a.target
         /\ a.params \subseteq p.params
         /\ Breaks("RULE-001", s, i, listing) => "ingress_only" \in p.params
         /\ Breaks("RULE-005", s, i, listing) => "matcher" \in p.params
         /\ Breaks("RULE-006", s, i, listing) => "5-tuple" \in p.params
         /\ Breaks("RULE-004", s, i, listing) => p.replicas = "enough"
         /\ p.replicas \in {a.replicas, "enough"}
         /\ "production_flow" \in p.params =>
              "production_flow" \in a.params \/ Breaks("RULE-001", s, i, listing)
<1> DEFINE found == Findings(s, listing, Rule)
           rules == {f.rule : f \in {g \in found : g.at = i}}
<1>1. p = [type |-> a.type, target |-> a.target, params |-> a.params \cup Merged(rules),
           replicas |-> IF "RULE-004" \in rules THEN "enough" ELSE a.replicas]
  BY DEF Patched, PatchedActions
<1>2. \A r \in Rule : r \in rules <=> Breaks(r, s, i, listing)
  <2> SUFFICES ASSUME NEW r \in Rule PROVE r \in rules <=> Breaks(r, s, i, listing)
    OBVIOUS
  <2>1. ASSUME Breaks(r, s, i, listing) PROVE r \in rules
    <3>1. [rule |-> r, at |-> i] \in found
      BY <2>1, BrokenIsFound
    <3> QED
      BY <3>1
  <2>2. ASSUME r \in rules PROVE Breaks(r, s, i, listing)
    <3>1. PICK f \in found : f.at = i /\ f.rule = r
      BY <2>2
    <3> QED
      BY <3>1, FoundIsBroken
  <2> QED
    BY <2>1, <2>2
<1>3. {"RULE-001", "RULE-004", "RULE-005", "RULE-006"} \subseteq Rule
  BY DEF Rule, Severe, Mild
<1> HIDE DEF rules, found
<1>4. /\ p.type = a.type /\ p.target = a.target
      /\ a.params \subseteq p.params
      /\ "RULE-001" \in rules => "ingress_only" \in p.params
      /\ "RULE-005" \in rules => "matcher" \in p.params
      /\ "RULE-006" \in rules => "5-tuple" \in p.params
      /\ "RULE-004" \in rules => p.replicas = "enough"
      /\ p.replicas \in {a.replicas, "enough"}
      /\ "production_flow" \in p.params =>
           "production_flow" \in a.params \/ "RULE-001" \in rules
  BY <1>1 DEF Merged
<1> QED
  BY <1>2, <1>3, <1>4

\* No action of the patched strategy breaks a rule.
LEMMA PatchedIsUnbroken ==
  ASSUME NEW s, NEW names, NEW listing \in Listing(names),
         NEW p, p = Patched(s, Findings(s, listing, Rule)),
         NEW i \in DOMAIN s.actions, NEW r \in Rule, Breaks(r, p, i, listing)
  PROVE  FALSE
<1> DEFINE a == s.actions[i]
           b == p.actions[i]
<1>1. /\ b.type = a.type /\ b.target = a.target
      /\ a.params \subseteq b.params
      /\ Breaks("RULE-001", s, i, listing) => "ingress_only" \in b.params
      /\ Breaks("RULE-005", s, i, listing) => "matcher" \in b.params
      /\ Breaks("RULE-006", s, i, listing) => "5-tuple" \in b.params
      /\ Breaks("RULE-004", s, i, listing) => b.replicas = "enough"
      /\ b.replicas \in {a.replicas, "enough"}
      /\ "production_flow" \in b.params =>
           "production_flow" \in a.params \/ Breaks("RULE-001", s, i, listing)
  BY PatchedAt
<1>2. /\ p.scope = s.scope
      /\ p.ttl = s.ttl \/ p.ttl = {1800}
      /\ Breaks("RULE-002", s, i, listing) => p.ttl = {1800}
      /\ ~p.revertible => ~s.revertible /\ ~Breaks("RULE-003", s, i, listing)
      /\ ~p.approval => ~s.approval /\ ~Breaks("RULE-007", s, i, listing)
  <2> DEFINE found == Findings(s, listing, Rule)
             Late == About(found, {"RULE-002"}) # {}
             Stuck == About(found, {"RULE-003"}) # {}
             Unasked == About(found, {"RULE-007"}) # {}
  <2>1. /\ p.scope = s.scope
        /\ p.ttl = IF Late THEN {1800} ELSE s.ttl
        /\ p.revertible = (s.revertible \/ Stuck)
        /\ p.approval = (s.approval \/ Unasked)
    BY DEF Patched, PatchedActions
  <2>2. ASSUME NEW rule \in Rule, Breaks(rule, s, i, listing)
        PROVE  About(found, {rule}) # {}
    <3> DEFINE f == [rule |-> rule, at |-> i]
    <3>1. f \in found /\ f.rule = rule
      BY <2>2, BrokenIsFound
    <3> QED
      BY <3>1 DEF About
  <2>3. /\ Breaks("RULE-002", s, i, listing) => Late
        /\ Breaks("RULE-003", s, i, listing) => Stuck
        /\ Breaks("RULE-007", s, i, listing) => Unasked
    <3>1. "RULE-002" \in Rule /\ "RULE-003" \in Rule /\ "RULE-007" \in Rule
      BY DEF Rule, Severe
    <3> QED
      BY <2>2, <3>1
  <2> HIDE DEF Late, Stuck, Unasked
  <2>4. p.ttl = s.ttl \/ p.ttl = {1800}
    BY <2>1
  <2>5. Breaks("RULE-002", s, i, listing) => p.ttl = {1800}
    BY <2>1, <2>3
  <2>6. ~p.revertible => ~s.revertible /\ ~Breaks("RULE-003", s, i, listing)
    BY <2>1, <2>3, Zenon
  <2>7. ~p.approval => ~s.approval /\ ~Breaks("RULE-007", s, i, listing)
    BY <2>1, <2>3, Zenon
  <2> QED
    BY <2>1, <2>4, <2>5, <2>6, <2>7
<1>3. /\ b.type = a.type /\ b.target = a.target /\ p.scope = s.scope
      /\ a.params \subseteq b.params
  BY <1>1, <1>2
<1>4. \A assets : Reaches(p, i, assets) <=> Reaches(s, i, assets)
  BY <1>3 DEF Reaches
<1>5. CASE r = "RULE-001" /\ BlocksCriticalDatabase(p, i, listing)
  <2>1. Breaks("RULE-001", s, i, listing)
    BY <1>3, <1>4, <1>5 DEF Breaks, BlocksCriticalDatabase
  <2>2. "ingress_only" \in b.params
    BY <2>1, <1>1
  <2> QED
    BY <1>5, <2>2 DEF BlocksCriticalDatabase
<1>6. CASE r = "RULE-002" /\ BlocksPathWithoutTtl(p, i, listing)
  <2>1. p.ttl # {1800}
    <3>1. 1800 \in LegalTtl
      BY DEF LegalTtl
    <3> QED
      BY <1>6, <3>1 DEF BlocksPathWithoutTtl
  <2>2. p.ttl = s.ttl /\ ~Breaks("RULE-002", s, i, listing)
    BY <2>1, <1>2
  <2>3. ~AffectsProductionPath(s, i, listing)
    BY <1>3, <1>6, <2>2 DEF Breaks, BlocksPathWithoutTtl
  <2>4. "production_flow" \in b.params /\ "production_flow" \notin a.params
    BY <1>4, <1>6, <2>3 DEF BlocksPathWithoutTtl, AffectsProductionPath
  <2>5. Breaks("RULE-001", s, i, listing)
    BY <2>4, <1>1
  <2>6. Reaches(s, i, listing.onPath)
    BY <2>5 DEF Breaks, BlocksCriticalDatabase, Reaches, Listing
  <2> QED
    BY <2>3, <2>6 DEF AffectsProductionPath
<1>7. CASE r = "RULE-003" /\ LacksRollback(p, i)
  <2>1. ~p.revertible /\ b.type \in HighRiskAction
    BY <1>7 DEF LacksRollback
  <2>2. ~s.revertible /\ ~Breaks("RULE-003", s, i, listing)
    BY <2>1, <1>2, Zenon
  <2> QED
    BY <1>3, <2>1, <2>2 DEF LacksRollback, Breaks
<1>8. CASE r = "RULE-004" /\ LacksReplicas(p, i)
  <2>1. b.replicas # "enough"
    BY <1>8 DEF LacksReplicas
  <2>2. b.replicas = a.replicas /\ ~Breaks("RULE-004", s, i, listing)
    BY <2>1, <1>1
  <2> QED
    BY <1>3, <1>8, <2>2 DEF LacksReplicas, Breaks
<1>9. CASE r = "RULE-005" /\ BlocksTooMuch(p, i, "APPLY_WAF_RULE", "matcher")
  <2>1. Breaks("RULE-005", s, i, listing)
    BY <1>3, <1>9 DEF Breaks, BlocksTooMuch
  <2> QED
    BY <1>9, <2>1, <1>1 DEF BlocksTooMuch
<1>10. CASE r = "RULE-006" /\ BlocksTooMuch(p, i, "APPLY_FIREWALL_RULE", "5-tuple")
  <2>1. Breaks("RULE-006", s, i, listing)
    BY <1>3, <1>10 DEF Breaks, BlocksTooMuch
  <2> QED
    BY <1>10, <2>1, <1>1 DEF BlocksTooMuch
<1>11. CASE r = "RULE-007" /\ UnapprovedOnCritical(p, i, listing)
  <2>1. ~p.approval
    BY <1>11 DEF UnapprovedOnCritical
  <2>2. ~s.approval /\ ~Breaks("RULE-007", s, i, listing)
    BY <2>1, <1>2, Zenon
  <2> QED
    BY <1>3, <1>4, <1>11, <2>2 DEF UnapprovedOnCritical, CriticalHit, Breaks
<1> QED
  BY <1>5, <1>6, <1>7, <1>8, <1>9, <1>10, <1>11 DEF Breaks

(***************************************************************************)
(* The suggestions are sufficient: after all of them, no action breaks any *)
(* rule. That critical databases stand at the end of production paths is   *)
(* needed: the flows that the patch of RULE-001 allows would otherwise put *)
(* an action on a production path that had no use for a ttl before.        *)
(***************************************************************************)
THEOREM SuggestionsSuffice ==
  ASSUME NEW s, NEW names, NEW listing \in Listing(names)
  PROVE  Findings(Patched(s, Validate(s, listing).suggestions), listing, Rule) = {}
<1> DEFINE found == Findings(s, listing, Rule)
           p == Patched(s, found)
<1>1. Validate(s, listing).suggestions = found
  BY DEF Validate, Answer
<1>2. ASSUME NEW i \in DOMAIN s.actions, NEW r \in Rule, Breaks(r, p, i, listing)
      PROVE  FALSE
  BY <1>2, PatchedIsUnbroken
<1>3. DOMAIN p.actions = DOMAIN s.actions
  BY DEF Patched, PatchedActions
<1>4. Findings(p, listing, Rule) = {}
  <2> SUFFICES ASSUME NEW f \in Findings(p, listing, Rule) PROVE FALSE
    OBVIOUS
  <2>1. f.rule \in Rule /\ f.at \in DOMAIN p.actions /\ Breaks(f.rule, p, f.at, listing)
    BY FoundIsBroken
  <2> HIDE DEF p
  <2> QED
    BY <1>2, <1>3, <2>1
<1> QED
  BY <1>1, <1>4

=============================================================================
