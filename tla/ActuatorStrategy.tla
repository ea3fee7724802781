-------------------------- MODULE ActuatorStrategy --------------------------
(***************************************************************************)
(* What actuator-service decides about one strategy request, before and    *)
(* while it executes it: bean validation at the controller, the            *)
(* "upstream-trust" validation of the service, the choice of an adapter    *)
(* per action, and the ExecutionRecord those decisions lead to.            *)
(*                                                                         *)
(* Identifiers are abstracted to the four shapes that the code's patterns  *)
(* tell apart:                                                             *)
(*   "blank"   null or white space, refused by @NotBlank                   *)
(*   "unsafe"  not matched by SAFE_IDENTIFIER [A-Za-z0-9._-]{1,128}        *)
(*   "safe"    matched by it, but not a Kubernetes (RFC 1123) name         *)
(*   "kube"    a Kubernetes name once lower-cased                          *)
(* A missing ttl is 0: every test of it in the code treats null and        *)
(* values that are not positive alike.                                     *)
(***************************************************************************)
EXTENDS Integers, Sequences

IdShape == {"blank", "unsafe", "safe", "kube"}

PlanShape == {"missing", "blank", "present"}

ActionType ==
  {"ALERT_ONLY", "BLOCK_IP", "APPLY_WAF_RULE", "RESTRICT_EGRESS", "ISOLATE_POD",
   "BLOCK_DOMAIN", "ISOLATE_HOST", "REVOKE_TOKEN", "DISABLE_ACCOUNT",
   "APPLY_FIREWALL_RULE", "SCALE_PROTECTION", "illegal type", "blank"}

\* nullSignature: parameters map "signature" to null, which Map.of refuses.
Action == [type : ActionType, target : IdShape, nullSignature : BOOLEAN]

Strategy == [id : IdShape, plan : PlanShape, actions : Seq(Action), ttl : Int]

(***************************************************************************)
(* @Valid on the controller's argument: a request that fails it gets a 400 *)
(* and leaves no record.                                                   *)
(***************************************************************************)
WellFormed(r) ==
  /\ r.id # "blank"
  /\ r.actions # << >>
  /\ r.plan # "blank"
  /\ \A i \in DOMAIN r.actions :
        r.actions[i].type # "blank" /\ r.actions[i].target # "blank"

\* validateStrategy: throws on the first check that fails.
Validated(r) ==
  /\ r.id \in {"safe", "kube"}
  /\ r.actions # << >>
  /\ r.plan = "present"
  /\ \A i \in DOMAIN r.actions :
        /\ r.actions[i].type \notin {"blank", "illegal type"}
        /\ r.actions[i].target \in {"safe", "kube"}

\* K8sAdapter.generateConfig re-sanitises both names that go into the YAML.
KubeAccepts(r, a) == r.id = "kube" /\ a.target = "kube"

WafAccepts(a) == ~a.nullSignature

(***************************************************************************)
(* resolveAdapter and the adapter's generateConfig return for this action; *)
(* otherwise one of them throws.                                           *)
(***************************************************************************)
Generates(r, a) ==
  \/ a.type \in {"ALERT_ONLY", "BLOCK_IP"}
  \/ a.type = "APPLY_WAF_RULE" /\ WafAccepts(a)
  \/ a.type \in {"RESTRICT_EGRESS", "ISOLATE_POD"} /\ KubeAccepts(r, a)

Executes(r) == \A i \in DOMAIN r.actions : Generates(r, r.actions[i])

-----------------------------------------------------------------------------

ExecutionStatus == {"SUCCEEDED", "FAILED"}

RollbackStatus == {"NOT_REQUIRED", "AVAILABLE", "RUNNING", "SUCCEEDED", "FAILED"}

Trigger == {"NONE", "MANUAL", "TTL_AUTO"}

\* The fields of ExecutionRecord that decide what happens to it later.
Record ==
  [status : ExecutionStatus, start : Nat, ttl : Int,
   rollback : RollbackStatus, trigger : Trigger]

(***************************************************************************)
(* The record StrategyExecutionServiceImpl.execute saves for a well-formed *)
(* request received at time "start". dryRun only chooses the wording of    *)
(* resultMessage, so it is left out.                                       *)
(***************************************************************************)
ExecutionOf(r, start) ==
  LET Outcome(status, rollback) ==
        [status |-> status, start |-> start, ttl |-> r.ttl,
         rollback |-> rollback, trigger |-> "NONE"]
  IN  CASE ~Validated(r)              -> Outcome("FAILED", "NOT_REQUIRED")
        [] Validated(r) /\ ~Executes(r) -> Outcome("FAILED", "FAILED")
        [] OTHER -> Outcome("SUCCEEDED",
                            IF r.ttl > 0 THEN "AVAILABLE" ELSE "NOT_REQUIRED")

\* ExecutionRecord.withRollback: a copy with the rollback fields replaced.
WithRollback(rec, rollback, trigger) ==
  [rec EXCEPT !.rollback = rollback, !.trigger = trigger]

=============================================================================
