----------------------------- MODULE VerifierRules -----------------------------
(***************************************************************************)
(* formal-verifier: the static rules R001 .. R006 and the continuity rules *)
(* BC001 .. BC005 about a strategy, which is what they read of it:         *)
(*   actions     a function from positions to actions                      *)
(*   assets      names in scope.assets                                     *)
(*   namespaces  scope.namespaces                                          *)
(*   ttl         in seconds; 0 stands for a missing one                    *)
(*   planned     there is a rollback plan                                  *)
(* An action has a type, the name of its target, "denyAll" (its policy is  *)
(* deny-all) and "denies" (denySources).                                   *)
(***************************************************************************)
EXTENDS Integers

\* What the rules look for in a name.
Word == {"0.0.0.0/0", "dns", "core-dns", "gateway-service", "db-primary",
         "auth-service", "redis-auth"}

\* The words in a name, and whether it is exactly that of a core service.
Name == [words : SUBSET Word, core : BOOLEAN]

Namespace == {"prod", "kube-system", "default"}

HighRiskActions == {"BLOCK_IP", "RESTRICT_EGRESS", "APPLY_WAF_RULE", "ISOLATE_POD"}

Types(s) == {s.actions[i].type : i \in DOMAIN s.actions}

\* Actions of these types whose target has the word in its name.
On(s, types, word) ==
  {i \in DOMAIN s.actions : s.actions[i].type \in types
                            /\ word \in s.actions[i].target.words}

-----------------------------------------------------------------------------
(* StaticRuleEngine *)

BlocksEveryAddress(s) ==
  "BLOCK_IP" \in Types(s) /\ \E name \in s.assets : "0.0.0.0/0" \in name.words

IsolatesSystemPods(s) == "ISOLATE_POD" \in Types(s) /\ "kube-system" \in s.namespaces

DeniesDns(s) == \E i \in On(s, {"RESTRICT_EGRESS"}, "dns") : s.actions[i].denyAll

LacksTtl(s) == Types(s) \cap HighRiskActions # {} /\ s.ttl <= 0

-----------------------------------------------------------------------------
(* ContinuityChecker *)

BlocksCoreDns(s) ==
  \E i \in On(s, {"BLOCK_IP", "RESTRICT_EGRESS"}, "core-dns") : s.actions[i].denyAll

BlocksGateway(s) ==
  \/ On(s, {"ISOLATE_POD"}, "gateway-service") # {}
  \/ \E i \in On(s, {"RESTRICT_EGRESS"}, "gateway-service") : s.actions[i].denyAll

CutsOffPrimary(s) ==
  \E i \in On(s, {"RESTRICT_EGRESS"}, "db-primary") :
    s.actions[i].denies \cap {"payment-service", "auth-service"} # {}

\* Mutant: an hour is not long.
IsolatesForHours(s) ==
  /\ "prod" \in s.namespaces
  /\ s.ttl > 3600
  /\ \E i \in DOMAIN s.actions : s.actions[i].type = "ISOLATE_POD" /\ s.actions[i].target.core

IsolatesCoreForLong(s) ==
  /\ "prod" \in s.namespaces
  /\ s.ttl > 1800
  /\ \E i \in DOMAIN s.actions : s.actions[i].type = "ISOLATE_POD" /\ s.actions[i].target.core

\* BC005, which warns only.
Warned(s) ==
  \E word \in {"auth-service", "redis-auth"} :
    On(s, {"BLOCK_IP", "RESTRICT_EGRESS"}, word) # {}

-----------------------------------------------------------------------------
(* StrategyVerifier.verify: Z3 and OPA are asked, but have no say. *)

Rejected(s) ==
  \/ BlocksEveryAddress(s) \/ IsolatesSystemPods(s) \/ DeniesDns(s) \/ LacksTtl(s)
  \/ ~s.planned
  \/ DOMAIN s.actions = {}
  \/ BlocksCoreDns(s) \/ BlocksGateway(s) \/ CutsOffPrimary(s) \/ IsolatesCoreForLong(s)

=============================================================================
