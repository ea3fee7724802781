--------------------------- MODULE WorkflowProofs ---------------------------
(***************************************************************************)
(* Proofs about EventWorkflow: whatever becomes of the request and of its  *)
(* answer, only a strategy that passed every gate is executed, and answers *)
(* are true.                                                               *)
(***************************************************************************)
EXTENDS EventWorkflow, DebateProofs

-----------------------------------------------------------------------------
(* The workflow runs the debate *)

LEMMA WorkflowInit == Init => DebateInit
BY DEF Init

LEMMA WorkflowStep == [Next]_vars => [DebateNext]_debate
BY DEF Next, Workflow, vars, Debate, Verify, Submit, Execute, LoseRequest,
   ReceiveAnswer, GiveUp, Guard

\* Behind the debate's end, nothing of the debate changes.
LEMMA OverIsOver == pc = "done" /\ [DebateNext]_debate => UNCHANGED debate
BY DEF DebateNext, Planner, RedTeamer, Revision, Coordinator

(***************************************************************************)
(* Verifier, actuator and guards do not interfere with the debate: it is   *)
(* the debate of DebateWorkflow, so what is proved of that one holds here. *)
(***************************************************************************)
THEOREM RunsTheDebate == WorkflowSpec => Spec
BY WorkflowInit, WorkflowStep, PTL DEF WorkflowSpec, Spec

-----------------------------------------------------------------------------
(* The inductive invariant *)

\* Where a request is, and what is behind each stage.
StageInv ==
  /\ stage \in {"debate", "verified", "waiting", "returned", "answered"}
  /\ stage # "debate" => pc = "done"
  /\ stage = "debate" => verification = "none"
  /\ stage \in {"debate", "verified"} => request = "none" /\ answer = None
  /\ stage = "waiting" => answer = None
  /\ request = "handled" <=> execution # None
  /\ execution # None => execution.status \in Service!ExecutionStatus

\* What the verifier was asked and answered.
VerdictInv ==
  /\ Passed(verification) => MayProceed
  /\ verification = "fallback" => ~strictMode
  /\ verification = "passed" => ~Verifier!Rejected(Judged(revised))
  /\ request # "none" => pc = "done" /\ Passed(verification)

FlowInv == StageInv /\ VerdictInv /\ AnswerIsTrue

\* The record of a strategy is a record.
LEMMA ExecutionIsRecord ==
  ASSUME NEW s, s.ttl \in Nat
  PROVE  Service!ExecutionOf(RequestOf(s), 0) \in Service!Record \ {None}
<1> DEFINE r == RequestOf(s)
           Outcome(outcome, undo) ==
             [status |-> outcome, start |-> 0, ttl |-> r.ttl,
              rollback |-> undo, trigger |-> "NONE"]
<1>1. r.ttl \in Int
  BY DEF RequestOf
<1>2. Service!ExecutionOf(r, 0) \in
        {Outcome("FAILED", "NOT_REQUIRED"), Outcome("FAILED", "FAILED"),
         Outcome("SUCCEEDED", "AVAILABLE"), Outcome("SUCCEEDED", "NOT_REQUIRED")}
  BY DEF Service!ExecutionOf
<1>3. Service!ExecutionOf(r, 0) \in Service!Record
  <2> HIDE DEF r
  <2> QED
    BY <1>1, <1>2 DEF Service!Record, Service!ExecutionStatus, Service!RollbackStatus,
       Service!Trigger
<1> QED
  BY <1>3, WorkflowAssumption

LEMMA FlowInvInit == Init => FlowInv
BY DEF Init, FlowInv, StageInv, VerdictInv, AnswerIsTrue, Passed

LEMMA FlowInvStep == DebateInv /\ FlowInv /\ [Next]_vars => FlowInv'
<1> SUFFICES ASSUME DebateInv, FlowInv, [Next]_vars
             PROVE  FlowInv'
  OBVIOUS
<1> USE DEF FlowInv, StageInv, VerdictInv, Passed
<1>1. CASE Debate
  BY <1>1 DEF Debate, flow, AnswerIsTrue
<1>2. CASE Verify
  BY <1>2 DEF Verify, Verdicts, Verdict, Judged, MayProceed, AnswerIsTrue, debate
<1>3. CASE Submit
  BY <1>3 DEF Submit, Answer, MayProceed, Judged, AnswerIsTrue, debate
<1>4. CASE Execute
  <2>1. /\ request = "sent" /\ UNCHANGED <<debate, door, namespace, strictMode, stage, verification, answer>>
        /\ \/ /\ execution' = Service!ExecutionOf(RequestOf(revised), 0)
              /\ request' = "handled"
           \/ request' = "refused" /\ execution' = execution
    BY <1>4 DEF Execute
  <2>2. pc = "done" /\ revised.ttl \in Nat /\ execution = None
    BY <2>1 DEF DebateInv, ApprovalInv
  <2>3. /\ Service!ExecutionOf(RequestOf(revised), 0) # None
        /\ Service!ExecutionOf(RequestOf(revised), 0).status \in Service!ExecutionStatus
    BY <2>2, ExecutionIsRecord DEF Service!Record
  <2>4. /\ request' = "handled" <=> execution' # None
        /\ execution' # None => execution'.status \in Service!ExecutionStatus
    BY <2>1, <2>2, <2>3
  <2>5. StageInv'
    BY <2>1, <2>4 DEF debate
  <2>6. VerdictInv'
    BY <2>1 DEF debate, MayProceed, Judged
  <2>7. AnswerIsTrue'
    BY <2>1, <2>2 DEF AnswerIsTrue
  <2> QED
    BY <2>5, <2>6, <2>7
<1>5. CASE LoseRequest
  BY <1>5 DEF LoseRequest, MayProceed, Judged, AnswerIsTrue, debate
<1>6. CASE ReceiveAnswer
  <2>1. /\ request = "handled" /\ answer' = Answer(execution.status, "actuator")
        /\ stage = "waiting" /\ stage' = "returned"
        /\ UNCHANGED <<debate, door, namespace, strictMode, verification, request, execution>>
    BY <1>6 DEF ReceiveAnswer
  <2>2. answer'.status = execution.status /\ answer'.by = "actuator"
    BY <2>1 DEF Answer
  <2>3. execution # None /\ execution.status \in {"SUCCEEDED", "FAILED"}
    BY <2>1 DEF Service!ExecutionStatus
  <2>4. StageInv' /\ VerdictInv'
    BY <2>1 DEF debate, MayProceed, Judged
  <2>5. AnswerIsTrue'
    BY <2>1, <2>2, <2>3 DEF AnswerIsTrue, Answer
  <2> QED
    BY <2>4, <2>5
<1>7. CASE GiveUp
  BY <1>7 DEF GiveUp, Answer, MayProceed, Judged, AnswerIsTrue, debate
<1>8. CASE Guard
  BY <1>8 DEF Guard, Answer, MayProceed, Judged, AnswerIsTrue, debate
<1>9. CASE UNCHANGED vars
  BY <1>9 DEF vars, flow, debate, MayProceed, Judged, AnswerIsTrue
<1> QED
  BY <1>1, <1>2, <1>3, <1>4, <1>5, <1>6, <1>7, <1>8, <1>9 DEF Next, Workflow

-----------------------------------------------------------------------------
(* Theorems *)

\* Both invariants hold of the composition: the debate's, and the workflow's around it.
THEOREM FlowInvariant == WorkflowSpec => [](DebateInv /\ FlowInv)
<1>1. Init => DebateInv /\ FlowInv
  BY WorkflowInit, DebateInvInit, FlowInvInit
<1>2. DebateInv /\ FlowInv /\ [Next]_vars => (DebateInv /\ FlowInv)'
  BY WorkflowStep, DebateInvStep, FlowInvStep
<1> QED
  BY <1>1, <1>2, PTL DEF WorkflowSpec

\* Only what the Coordinator approved and the verifier passed is executed.
THEOREM ExecutionIsGated == WorkflowSpec => []ExecutedIsGated
<1>1. FlowInv => ExecutedIsGated
  BY DEF FlowInv, StageInv, VerdictInv, ExecutedIsGated, MayProceed, Passed
<1> QED
  BY <1>1, FlowInvariant, PTL

\* No result reports an execution that did not happen, or denies one as skipped.
THEOREM AnswersAreTrue == WorkflowSpec => []AnswerIsTrue
<1>1. FlowInv => AnswerIsTrue
  BY DEF FlowInv
<1> QED
  BY <1>1, FlowInvariant, PTL

(***************************************************************************)
(* What passed the verification isolates no pod of the system or of the    *)
(* gateway, and no core service in production for long.                    *)
(***************************************************************************)
THEOREM PassedKeepsTheServices == WorkflowSpec => []PassedKeepsServices
<1>1. DebateInv /\ FlowInv => PassedKeepsServices
  <2> SUFFICES ASSUME DebateInv, FlowInv, verification = "passed",
                      NEW a \in revised.actions, a.type = "ISOLATE_POD"
               PROVE  /\ namespace # "kube-system"
                      /\ "gateway-service" \notin NameOf[a.target].words
                      /\ namespace = "prod" /\ NameOf[a.target].core => revised.ttl <= 1800
    BY DEF PassedKeepsServices
  <2> DEFINE s == Judged(revised)
  <2>1. ~Verifier!Rejected(s)
    BY DEF FlowInv, VerdictInv
  <2>2. /\ a \in DOMAIN s.actions
        /\ s.actions[a].type = "ISOLATE_POD"
        /\ s.actions[a].target = NameOf[a.target]
        /\ s.namespaces = {namespace}
        /\ s.ttl = revised.ttl
    BY DEF Judged
  <2> HIDE DEF s
  <2>3. /\ ~Verifier!IsolatesSystemPods(s)
        /\ ~Verifier!BlocksGateway(s)
        /\ ~Verifier!IsolatesCoreForLong(s)
    BY <2>1 DEF Verifier!Rejected
  <2>4. namespace # "kube-system"
    BY <2>2, <2>3 DEF Verifier!IsolatesSystemPods, Verifier!Types
  <2>5. "gateway-service" \notin NameOf[a.target].words
    BY <2>2, <2>3 DEF Verifier!BlocksGateway, Verifier!On
  <2>6. revised.ttl \in Nat
    BY DEF FlowInv, StageInv, DebateInv, ApprovalInv
  <2>7. ASSUME namespace = "prod", NameOf[a.target].core
        PROVE  revised.ttl <= 1800
    <3>1. "prod" \in s.namespaces
      BY <2>2, <2>7
    <3>2. s.actions[a].target.core
      BY <2>2, <2>7, Zenon
    <3>3. \E i \in DOMAIN s.actions :
            s.actions[i].type = "ISOLATE_POD" /\ s.actions[i].target.core
      BY <2>2, <3>2, Zenon
    <3>4. ~(s.ttl > 1800)
      BY <2>3, <3>1, <3>3 DEF Verifier!IsolatesCoreForLong
    <3> QED
      BY <2>2, <2>6, <3>4
  <2> QED
    BY <2>4, <2>5, <2>7
<1> QED
  BY <1>1, FlowInvariant, PTL

(***************************************************************************)
(* End to end: an executed strategy was approved, no answer of the policy  *)
(* server vetoed it, it touches no asset found or listed as CRITICAL with  *)
(* a high-risk action, answers no CRITICAL event and can be rolled back.   *)
(***************************************************************************)
THEOREM ExecutedIsSafe ==
  WorkflowSpec =>
    [](execution # None =>
         /\ revised.approved
         /\ decision.policy.answered =>
              decision.policy.valid /\ ~decision.policy.approval /\ SparesListed(revised)
         /\ findings.critical = {}
         /\ event.severity # "CRITICAL" /\ blast # "HIGH"
         /\ Revertible(revised))
<1>1. DebateInv /\ FlowInv =>
        (execution # None =>
           /\ revised.approved
           /\ decision.policy.answered =>
                decision.policy.valid /\ ~decision.policy.approval /\ SparesListed(revised)
           /\ findings.critical = {}
           /\ event.severity # "CRITICAL" /\ blast # "HIGH"
           /\ Revertible(revised))
  <2> SUFFICES ASSUME DebateInv, FlowInv, execution # None
               PROVE  /\ revised.approved
                      /\ decision.policy.answered =>
                           /\ decision.policy.valid /\ ~decision.policy.approval
                           /\ SparesListed(revised)
                      /\ findings.critical = {}
                      /\ event.severity # "CRITICAL" /\ blast # "HIGH"
                      /\ Revertible(revised)
    OBVIOUS
  <2>1. pc = "done" /\ decision.auto
    BY DEF FlowInv, StageInv, VerdictInv, MayProceed
  <2>2. revised.approved
    BY <2>1 DEF DebateInv, ApprovalInv
  <2>3. AutoIsGated /\ AutoSparesListed
    BY <2>1 DEF DebateInv, GateInv
  <2>4. decision.policy.answered => SparesListed(revised)
    BY <2>1, <2>3 DEF AutoSparesListed, SparesListed, Automatic, Over
  <2> QED
    BY <2>1, <2>2, <2>3, <2>4 DEF AutoIsGated, Automatic, Over
<1> QED
  BY <1>1, FlowInvariant, PTL

-----------------------------------------------------------------------------
(* Types *)

LEMMA FlowTypeInit == Init => FlowTypeOK
BY DEF Init, FlowTypeOK

LEMMA FlowTypeStep == DebateInv /\ FlowInv /\ FlowTypeOK /\ [Next]_vars => FlowTypeOK'
<1> SUFFICES ASSUME DebateInv, FlowInv, FlowTypeOK, [Next]_vars
             PROVE  FlowTypeOK'
  OBVIOUS
<1> USE DEF FlowTypeOK
<1>1. CASE Debate
  BY <1>1 DEF Debate, flow
<1>2. CASE Verify
  BY <1>2 DEF Verify, Verdicts, Verdict
<1>3. CASE Submit
  <2>1. /\ answer' \in {answer, Answer("BLOCKED", "client"), Answer("SKIPPED", "client")}
        /\ request' \in {request, "sent"} /\ request = "none"
        /\ stage' \in {"waiting", "returned"}
        /\ UNCHANGED <<door, namespace, strictMode, verification, execution>>
    BY <1>3 DEF Submit, FlowInv, StageInv
  <2> QED
    BY <2>1 DEF Answer
<1>4. CASE Execute
  <2>1. /\ request = "sent" /\ UNCHANGED <<door, namespace, strictMode, stage, verification, answer>>
        /\ \/ /\ execution' = Service!ExecutionOf(RequestOf(revised), 0)
              /\ request' = "handled"
           \/ request' = "refused" /\ execution' = execution
    BY <1>4 DEF Execute
  <2>2. pc = "done" /\ revised.ttl \in Nat
    BY <2>1 DEF FlowInv, VerdictInv, DebateInv, ApprovalInv
  <2>3. Service!ExecutionOf(RequestOf(revised), 0) \in Service!Record \ {None}
    BY <2>2, ExecutionIsRecord
  <2> QED
    BY <2>1, <2>3
<1>5. CASE LoseRequest
  BY <1>5 DEF LoseRequest
<1>6. CASE ReceiveAnswer
  BY <1>6 DEF ReceiveAnswer, Answer, FlowInv, StageInv, Service!ExecutionStatus
<1>7. CASE GiveUp
  BY <1>7 DEF GiveUp, Answer
<1>8. CASE Guard
  BY <1>8 DEF Guard, Answer
<1>9. CASE UNCHANGED vars
  BY <1>9 DEF vars, flow
<1> QED
  BY <1>1, <1>2, <1>3, <1>4, <1>5, <1>6, <1>7, <1>8, <1>9 DEF Next, Workflow

(***************************************************************************)
(* The variables of the workflow keep their types, for every strategy; a   *)
(* request counts as handled exactly when the service has a record of it.  *)
(***************************************************************************)
THEOREM FlowTypeCorrect == WorkflowSpec => []FlowTypeOK
BY FlowTypeInit, FlowTypeStep, FlowInvariant, PTL DEF WorkflowSpec

-----------------------------------------------------------------------------
(* Termination *)

\* A request on its way may still be executed or lost, whoever waits for it.
FlowStepsLeft ==
  (CASE stage = "debate"   -> StepsLeft + 5
     [] stage = "verified" -> 4
     [] stage = "waiting"  -> 2
     [] stage = "returned" -> 1
     [] stage = "answered" -> 0)
  + (IF request = "sent" THEN 1 ELSE 0)

FlowNearer ==
  /\ FlowStepsLeft \in 0 .. 3 * MaxRounds + 6
  /\ FlowStepsLeft' \in 0 .. FlowStepsLeft - 1

LEMMA FlowStepsLeftFall ==
  ASSUME DebateInv, DebateInv', FlowInv, Next
  PROVE  FlowNearer
<1> USE CoordinatorAssumption
<1>1. StepsLeft \in 0 .. 3 * MaxRounds + 1
  BY DEF StepsLeft, DebateInv, RoundInv, ApprovalInv
<1>2. /\ MaxRounds \in Nat
      /\ stage \in {"debate", "verified", "waiting", "returned", "answered"}
      /\ stage \in {"debate", "verified"} => request = "none"
  BY DEF FlowInv, StageInv
<1>3. FlowStepsLeft \in 0 .. 3 * MaxRounds + 6
  BY <1>1, <1>2 DEF FlowStepsLeft
<1>4. CASE Debate
  <2>1. StepsLeft' \in 0 .. StepsLeft - 1
    BY <1>4, StepsLeftFall DEF Debate
  <2>2. stage = "debate" /\ stage' = "debate" /\ request' = request
    BY <1>4 DEF Debate, flow
  <2> QED
    BY <1>1, <1>2, <1>3, <2>1, <2>2 DEF FlowStepsLeft, FlowNearer
<1>5. CASE Verify \/ Submit
  <2>1. \/ stage = "debate" /\ stage' = "verified" /\ request' = "none"
        \/ stage = "verified" /\ stage' \in {"waiting", "returned"}
           /\ request' \in {"none", "sent"}
    BY <1>2, <1>5 DEF Verify, Submit
  <2> QED
    BY <1>1, <1>2, <1>3, <2>1 DEF FlowStepsLeft, FlowNearer
<1>6. CASE ReceiveAnswer \/ GiveUp \/ Guard
  <2>1. /\ \/ stage = "waiting" /\ stage' = "returned"
           \/ stage = "returned" /\ stage' = "answered"
        /\ request' = request
    BY <1>6 DEF ReceiveAnswer, GiveUp, Guard
  <2> QED
    BY <1>2, <1>3, <2>1 DEF FlowStepsLeft, FlowNearer
<1>7. CASE Execute \/ LoseRequest
  <2>1. /\ request = "sent" /\ request' \in {"handled", "refused", "lost"}
        /\ stage' = stage
    BY <1>7 DEF Execute, LoseRequest
  <2> QED
    BY <1>1, <1>2, <1>3, <2>1 DEF FlowStepsLeft, FlowNearer
<1> QED
  BY <1>4, <1>5, <1>6, <1>7 DEF Next, Workflow

(***************************************************************************)
(* For any debate, verdict and fate of the request: each step, also one of *)
(* the network and of actuator-service, uses one of at most five steps     *)
(* beyond those of the debate. Nothing is done again, retried or undone.   *)
(***************************************************************************)
THEOREM WorkflowRunsOut == WorkflowSpec => [][FlowNearer]_vars
<1>1. DebateInv /\ DebateInv' /\ FlowInv /\ [Next]_vars => [FlowNearer]_vars
  BY FlowStepsLeftFall
<1> QED
  BY <1>1, RunsTheDebate, DebateInvariant, FlowInvariant, PTL DEF WorkflowSpec

=============================================================================
