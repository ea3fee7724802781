---------------------------- MODULE EventWorkflow ----------------------------
(***************************************************************************)
(* DebateOrchestrator.process_event for one security event: the debate,    *)
(* then formal-verifier, then actuator-service, and the guards that        *)
(* POST /workflow/run puts behind it. The event arrives through "http" or  *)
(* through the Kafka worker, which has no guards.                          *)
(*                                                                         *)
(* The request to actuator-service may be lost, and its answer may come    *)
(* too late or not at all: the service handles the request on its own, in  *)
(* any order with what the client does in the meantime.                    *)
(***************************************************************************)
EXTENDS DebateWorkflow, SequencesExt

CONSTANTS
  GuardStrict,   \* WORKFLOW_GUARD_STRICT
  IdOf,          \* shape of the strategy's id
  ShapeOf,       \* shape of each asset's name, see ActuatorStrategy
  NameOf,        \* what formal-verifier finds in the name, see VerifierRules
  Namespaces     \* namespaces that events come from

Service == INSTANCE ActuatorStrategy
Verifier == INSTANCE VerifierRules

ASSUME WorkflowAssumption ==
  /\ GuardStrict \in BOOLEAN
  /\ IdOf \in Service!IdShape
  /\ ShapeOf \in [Asset -> Service!IdShape]
  /\ NameOf \in [Asset -> Verifier!Name]
  /\ Namespaces \subseteq Verifier!Namespace
  /\ None \notin Service!Record

VARIABLES
  door,           \* how the event came in
  namespace,      \* context.namespace of the event
  strictMode,     \* AGENT_BRAIN_FAILURE_MODE is strict, read once at startup
  stage,          \* where process_event or run_workflow is
  verification,   \* the verifier's verdict, or what the client made of none
  request,        \* POST /api/strategies/execute, on its way
  execution,      \* the ExecutionRecord of actuator-service
  answer          \* actuatorResponse of the result

flow == <<door, namespace, strictMode, stage, verification, request, execution, answer>>
vars == <<debate, flow>>

Init ==
  /\ DebateInit
  /\ door \in {"http", "kafka"}
  /\ namespace \in Namespaces
  /\ strictMode \in BOOLEAN
  /\ stage = "debate"
  /\ verification = "none"
  /\ request = "none"
  /\ execution = None
  /\ answer = None

Debate ==
  /\ stage = "debate"
  /\ DebateNext
  /\ UNCHANGED flow

-----------------------------------------------------------------------------
(* formal-verifier *)

\* should_verify
MayProceed ==
  /\ decision.next = "ENTER_VERIFICATION"
  /\ decision.status = "approved_for_execution"
  /\ decision.auto

(***************************************************************************)
(* A strategy as the verifier reads it. No agent denies all egress, denies *)
(* sources or drops the rollback plan.                                     *)
(***************************************************************************)
Judged(s) ==
  [actions    |-> [a \in s.actions |-> [type |-> a.type, target |-> NameOf[a.target],
                                        denyAll |-> FALSE, denies |-> {}]],
   assets     |-> {NameOf[x] : x \in s.scope},
   namespaces |-> {namespace},
   ttl        |-> s.ttl,
   planned    |-> TRUE]

Verdict == IF Verifier!Rejected(Judged(revised)) THEN "rejected" ELSE "passed"

\* Mutant: no answer is taken for a passed verification in strict mode too.
LenientVerdicts == {Verdict, "fallback"}

\* FormalVerifierClient.verify: without an answer, the failure mode decides.
Verdicts == {Verdict, IF strictMode THEN "unavailable" ELSE "fallback"}

Passed(verdict) == verdict \in {"passed", "fallback"}

Verify ==
  /\ stage = "debate" /\ pc = "done"
  /\ verification' \in IF MayProceed THEN Verdicts ELSE {"skipped"}
  /\ stage' = "verified"
  /\ UNCHANGED <<debate, door, namespace, strictMode, request, execution, answer>>

-----------------------------------------------------------------------------
(* actuator-service *)

HighRiskTypes == {"BLOCK_IP", "RESTRICT_EGRESS", "ISOLATE_POD", "ISOLATE_HOST"}

\* _pre_execute_check; the plan object itself is never missing.
PreCheckPasses(s) ==
  s.actions # {} /\ (s.ttl > 0 \/ Types(s) \cap HighRiskTypes = {})

\* _build_strategy_request. The order of the actions decides nothing.
RequestOf(s) ==
  [id |-> IdOf, plan |-> "present", ttl |-> s.ttl,
   actions |-> SetToSeq({[type |-> a.type, target |-> ShapeOf[a.target],
                          nullSignature |-> FALSE] : a \in s.actions})]

Answer(outcome, by) == [status |-> outcome, by |-> by]

Submit ==
  /\ stage = "verified"
  /\ IF Passed(verification) /\ PreCheckPasses(revised)
     THEN /\ request' = "sent"
          /\ stage' = "waiting"
          /\ UNCHANGED answer
     ELSE /\ answer' = Answer(IF Passed(verification) THEN "BLOCKED" ELSE "SKIPPED", "client")
          /\ stage' = "returned"
          /\ UNCHANGED request
  /\ UNCHANGED <<debate, door, namespace, strictMode, verification, execution>>

\* Mutant: the record is saved, the request stays open.
ExecuteOpenly ==
  /\ request = "sent"
  /\ execution' = Service!ExecutionOf(RequestOf(revised), 0)
  /\ UNCHANGED <<debate, door, namespace, strictMode, stage, verification, request, answer>>

\* A request that is not well-formed is answered with an error and no record.
Execute ==
  /\ request = "sent"
  /\ LET r == RequestOf(revised)
     IN  IF Service!WellFormed(r)
         THEN execution' = Service!ExecutionOf(r, 0) /\ request' = "handled"
         ELSE request' = "refused" /\ UNCHANGED execution
  /\ UNCHANGED <<debate, door, namespace, strictMode, stage, verification, answer>>

LoseRequest ==
  /\ request = "sent"
  /\ request' = "lost"
  /\ UNCHANGED <<debate, door, namespace, strictMode, stage, verification, execution, answer>>

\* Mutant: a response that arrives is a success, whatever its record says.
ReceiveSuccess ==
  /\ stage = "waiting" /\ request = "handled"
  /\ answer' = Answer("SUCCEEDED", "actuator")
  /\ stage' = "returned"
  /\ UNCHANGED <<debate, door, namespace, strictMode, verification, request, execution>>

ReceiveAnswer ==
  /\ stage = "waiting" /\ request = "handled"
  /\ answer' = Answer(execution.status, "actuator")
  /\ stage' = "returned"
  /\ UNCHANGED <<debate, door, namespace, strictMode, verification, request, execution>>

\* Mutant: only an error of the service ends the wait, not the timeout.
GiveUpWhenRefused ==
  /\ stage = "waiting" /\ request = "refused"
  /\ answer' = Answer(IF strictMode THEN "FAILED" ELSE "SIMULATED", "client")
  /\ stage' = "returned"
  /\ UNCHANGED <<debate, door, namespace, strictMode, verification, request, execution>>

\* No connection, an error of the service, or the client's timeout.
GiveUp ==
  /\ stage = "waiting"
  /\ answer' = Answer(IF strictMode THEN "FAILED" ELSE "SIMULATED", "client")
  /\ stage' = "returned"
  /\ UNCHANGED <<debate, door, namespace, strictMode, verification, request, execution>>

-----------------------------------------------------------------------------
(* POST /workflow/run *)

\* Whether a guard finds something depends on the text of event and result.
Guard ==
  /\ stage = "returned"
  /\ \E flagged \in BOOLEAN :
       answer' = IF door = "http" /\ GuardStrict /\ flagged
                 THEN Answer("BLOCKED", "guard") ELSE answer
  /\ stage' = "answered"
  /\ UNCHANGED <<debate, door, namespace, strictMode, verification, request, execution>>

Workflow == Debate \/ Verify \/ Submit \/ ReceiveAnswer \/ GiveUp \/ Guard

Next == Workflow \/ Execute \/ LoseRequest

WorkflowSpec == Init /\ [][Next]_vars

\* One thread runs the workflow to its end; nothing is assumed of the network.
FairWorkflowSpec == WorkflowSpec /\ WF_vars(Workflow)

-----------------------------------------------------------------------------
(* Type correctness *)

FlowTypeOK ==
  /\ door \in {"http", "kafka"}
  /\ namespace \in Namespaces
  /\ strictMode \in BOOLEAN
  /\ stage \in {"debate", "verified", "waiting", "returned", "answered"}
  /\ verification \in {"none", "skipped", "passed", "rejected",
                      IF strictMode THEN "unavailable" ELSE "fallback"}
  /\ request \in {"none", "sent", "lost", "handled", "refused"}
  /\ execution \in Service!Record \cup {None}
  /\ answer \in [status : {"SKIPPED", "BLOCKED", "SUCCEEDED", "FAILED", "SIMULATED"},
                 by : {"client", "actuator", "guard"}] \cup {None}
  /\ execution # None <=> request = "handled"

-----------------------------------------------------------------------------
(* Safety *)

(***************************************************************************)
(* Whatever order answers, timeouts and the service's own work take: a     *)
(* strategy is executed only if the Coordinator lets it run without a      *)
(* human and approved it, and the verifier passed it; only in compat mode  *)
(* may the verifier have been unreachable instead.                         *)
(***************************************************************************)
ExecutedIsGated ==
  execution # None =>
    /\ pc = "done" /\ decision.auto /\ decision.status = "approved_for_execution"
    /\ verification = "passed" \/ (verification = "fallback" /\ ~strictMode)

(***************************************************************************)
(* A strategy that passed the verification, the revised one of the last    *)
(* round, isolates no pod of the system or of the gateway, and none of a   *)
(* core service in production for more than half an hour: revisions raise  *)
(* the ttl of an isolation to an hour.                                     *)
(***************************************************************************)
PassedKeepsServices ==
  verification = "passed" =>
    \A a \in revised.actions :
      a.type = "ISOLATE_POD" =>
        /\ namespace # "kube-system"
        /\ "gateway-service" \notin NameOf[a.target].words
        /\ namespace = "prod" /\ NameOf[a.target].core => revised.ttl <= 1800

(***************************************************************************)
(* A result that reports a successful execution is backed by a record that *)
(* says so, and so is a result that says the strategy was not submitted.   *)
(***************************************************************************)
AnswerIsTrue ==
  answer # None =>
    /\ answer.status = "SUCCEEDED" => execution # None /\ execution.status = "SUCCEEDED"
    /\ answer.status = "SKIPPED" \/ answer = Answer("BLOCKED", "client") =>
         request = "none"

-----------------------------------------------------------------------------
(* Liveness *)

\* Every event is answered, even if the request to actuator-service is lost.
EventIsAnswered == <>(stage = "answered")

-----------------------------------------------------------------------------
(* What comments and documents say, and the code does not do *)

\* README: the guards stand at the very front of /workflow/run and block at once.
BlockedIsNotExecuted ==
  answer # None /\ answer.by = "guard" => execution = None

=============================================================================
