--------------------------- MODULE PlannerRevision ---------------------------
(***************************************************************************)
(* PlannerRevisionAgent: revises the strategy after each round of          *)
(* challenges. Hardened WAF rules, narrowed ports, allow-lists and         *)
(* durations are parameters and left out: the fixes set them whenever they *)
(* look for them.                                                          *)
(***************************************************************************)
EXTENDS DebateModels

\* _is_low_risk_sandbox_profile
LowRisk(e, blast) == e.severity = "LOW" /\ e.score <= 30 /\ blast = "LOW"

AboutDistribution == {"distributed", "multi-source distributed"}
AboutEncoding == {"encoding", "base64 encoding"}
AboutMutation == {"mutation", "application-layer mutation"}
AboutRootCause == {"root cause", "surface, not root cause"}

\* _apply_challenge_driven_fixes
ChallengeFixes(s, challenges, lowRisk) ==
  LET first == First(s.scope)
      egress == IF /\ challenges \cap AboutDistribution # {}
                   /\ "RESTRICT_EGRESS" \notin Types(s)
                THEN {Act("RESTRICT_EGRESS", first)} ELSE {}
      isolation == IF "scope too small" \in challenges /\ "ISOLATE_POD" \notin Types(s)
                   THEN {Act(IF lowRisk THEN "RESTRICT_EGRESS" ELSE "ISOLATE_POD", first)}
                   ELSE {}
  IN  [s EXCEPT !.actions = @ \cup egress \cup isolation,
                !.ttl = IF challenges \cap AboutRootCause # {} /\ @ < 3600 THEN 3600 ELSE @]

Isolating == {"ISOLATE_POD", "ISOLATE_HOST", "BLOCK_IP"}

\* Findings name assets by id and the source is an IP address: no match.
Named(a, f) == a.target \in f.critical \ {"source"}

\* _downgrade_isolation_to_egress, when a constraint recommends egress.
Downgraded(actions, f) ==
  IF ~f.egress THEN actions
  ELSE {IF Named(a, f) /\ a.type \in Isolating THEN Act("RESTRICT_EGRESS", a.target) ELSE a :
          a \in actions}

\* _strip_critical_from_scope: never to an empty scope.
Stripped(scope, f) ==
  IF BusinessRisks(f) = 0 \/ scope \subseteq f.critical THEN scope ELSE scope \ f.critical

\* _apply_topology_findings_fixes
TopologyFixes(s, e, f) ==
  [s EXCEPT !.actions = Downgraded(@, f)
                        \cup (IF f.residual /\ e.source
                              THEN {Act("RESTRICT_EGRESS", "source")} ELSE {}),
            !.scope = Stripped(@, f)]

\* _enforce_low_risk_action_policy
SoftTypes == {"ALERT_ONLY", "APPLY_WAF_RULE", "RESTRICT_EGRESS"}

\* Mutant: nothing is softened as long as some action is soft.
SoftenedIfNeeded(s) ==
  IF Types(s) \cap SoftTypes # {} THEN s
  ELSE [s EXCEPT !.actions = {Act("RESTRICT_EGRESS", a.target) : a \in s.actions}]

\* Mutant: a block is dropped like the other types, only isolation becomes egress.
SoftenedIsolation(s) ==
  LET kept == {a \in s.actions : a.type \in SoftTypes}
      contained == {Act("RESTRICT_EGRESS", a.target) :
                      a \in {b \in s.actions : b.type \in {"ISOLATE_POD", "ISOLATE_HOST"}}}
  IN  [s EXCEPT !.actions = IF kept \cup contained = {}
                            THEN {Act("ALERT_ONLY", First(s.scope))} ELSE kept \cup contained]

Softened(s) ==
  LET kept == {a \in s.actions : a.type \in SoftTypes}
      contained == {Act("RESTRICT_EGRESS", a.target) :
                      a \in {b \in s.actions : b.type \in Isolating}}
  IN  [s EXCEPT !.actions = IF kept \cup contained = {}
                            THEN {Act("ALERT_ONLY", First(s.scope))} ELSE kept \cup contained]

\* run, up to the challenges that remain; the copy starts out as it was.
Revised(s, e, blast, challenges, f) ==
  LET bold == [s EXCEPT !.confidence = IF @ + 10 > 95 THEN 95 ELSE @ + 10]
      fixed == TopologyFixes(ChallengeFixes(bold, challenges, LowRisk(e, blast)), e, f)
  IN  IF LowRisk(e, blast) THEN Softened(fixed) ELSE fixed

\* _compute_unresolved
Unresolved(s, challenges, lowRisk) ==
  LET Covered(titles, condition) == IF condition THEN titles ELSE {}
      types == Types(s)
  IN  challenges
      \ (Covered(AboutDistribution, "RESTRICT_EGRESS" \in types)
         \cup Covered(AboutEncoding \cup AboutMutation, "APPLY_WAF_RULE" \in types)
         \cup Covered({"scope too small"}, \/ "ISOLATE_POD" \in types
                                           \/ lowRisk /\ "RESTRICT_EGRESS" \in types)
         \cup Covered(AboutRootCause, s.ttl >= 3600))

=============================================================================
