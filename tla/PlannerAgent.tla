---------------------------- MODULE PlannerAgent ----------------------------
(* PlannerAgent: the first strategy for an event, by rules. *)
EXTENDS DebateModels

Lower(a, b) == IF a < b THEN a ELSE b
Higher(a, b) == IF a > b THEN a ELSE b

(***************************************************************************)
(* _compute_blast_radius, over the assets that get_asset_info and          *)
(* get_neighbors returned. "criticality" maps the assets of the topology.  *)
(* A path into the Database zone would make it HIGH as well, but the code  *)
(* reads the zones of a path from a field that find_paths never returns.   *)
(***************************************************************************)
BlastRadius(criticality, found) ==
  IF \E x \in found : criticality[x] = "CRITICAL" THEN "HIGH"
  ELSE IF \E x \in found : criticality[x] = "HIGH" THEN "MEDIUM" ELSE "LOW"

Signals(e) ==
  (IF e.log4j THEN {Act("APPLY_WAF_RULE", "object")} ELSE {})
  \cup (IF e.log4j /\ e.source THEN {Act("BLOCK_IP", "source")} ELSE {})
  \cup (IF e.shell
        THEN {Act("RESTRICT_EGRESS", "subject"), Act("ISOLATE_POD", "subject")}
        ELSE {})

ConfidenceOf(e, blast) ==
  LET base  == Higher(50, e.score)
      log4j == IF e.log4j THEN Lower(95, Higher(base, 88)) ELSE base
      shell == IF e.shell THEN Lower(95, Higher(log4j, 90)) ELSE log4j
      rule  == IF Signals(e) = {} THEN Lower(shell, 65) ELSE shell
  IN  IF blast = "HIGH" THEN Lower(rule, 85) ELSE rule

(***************************************************************************)
(* _generate_strategy: WAF rule and IP block against Log4j, egress and pod *)
(* isolation against a shell, an alert when nothing matches. The assets    *)
(* found join the subject in the scope.                                    *)
(***************************************************************************)
Proposal(e, blast, found) ==
  [actions    |-> IF Signals(e) = {} THEN {Act("ALERT_ONLY", "subject")} ELSE Signals(e),
   scope      |-> {"subject"} \cup found,
   ttl        |-> IF e.shell THEN 1800 ELSE IF e.log4j THEN 3600 ELSE 900,
   confidence |-> ConfidenceOf(e, blast),
   revertible |-> TRUE,
   approved   |-> FALSE]

=============================================================================
