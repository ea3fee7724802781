------------------------------- MODULE OpsChat -------------------------------
(***************************************************************************)
(* The ops chat of agent-brain (services/ops_orchestrator.py, the routes   *)
(* /ops/chat and /ops/audit of main.py) with the two records it leaves:    *)
(* the JSONL audit log and one JSON snapshot per request.                  *)
(*                                                                         *)
(* OpsOrchestrator.chat is a coroutine on the only event loop: a request   *)
(* keeps the loop from one await to the next, and it awaits nothing but    *)
(* the tools of os-mcp-server. Files are written on the loop.              *)
(*                                                                         *)
(* pc[r] names what request r does next. A pc that is an audit stage, and  *)
(* "validate" and "report", whose stages depend on the outcome, appends    *)
(* one event to the log. The process may crash at any step, a write may    *)
(* fail half way, and what is in the files stays.                          *)
(***************************************************************************)
EXTENDS OpsSafety, AuditFile

CONSTANTS
  Request,            \* requests to /ops/chat
  InstructionsOf,     \* InstructionsOf[r]: what the operator may ask in r
  ExecutorEnabled,    \* executor_enabled of the orchestrator
  None,               \* the loop is free
  MaxFaults,          \* writes that fail
  MaxCrashes          \* crashes of the process, each followed by a restart

ASSUME InstructionsAssumption ==
  InstructionsOf \in [Request -> SUBSET Instruction]
ASSUME EnabledAssumption == ExecutorEnabled \in BOOLEAN
ASSUME NoneAssumption == None \notin Request
ASSUME BoundsAssumption == MaxFaults \in Nat /\ MaxCrashes \in Nat

VARIABLES
  instruction,  \* what the operator asks
  loop,         \* the request that has the event loop
  pc,
  calls,        \* calls of tools still to make
  outcome,      \* status of the executor envelope, "none" before there is one
  file,         \* the audit log
  snapshot,     \* audit-<request>.json
  emitted,      \* number of events handed to the log (history)
  ran,          \* a command ran on the host (history)
  probed,       \* a tool was called (history)
  faults, crashes

chat == <<instruction, loop, pc, calls, outcome>>
history == <<emitted, ran, probed>>
vars == <<chat, file, snapshot, history, faults, crashes>>

Guarded == {"PROMPT_INJECTION_DETECTED", "CONFIG_GUARD_BLOCKED"}

Emitting == Guarded \cup {"REQUEST_RECEIVED", "DANGEROUS_INTENT_DETECTED", "validate",
                          "report", "EXECUTION_SKIPPED", "COMPLETED"}

Busy == Emitting \cup {"collect", "awaiting", "execute", "record"}

Stage == (Emitting \ {"validate", "report"}) \cup
         {"VALIDATED", "BLOCKED", "PENDING_APPROVAL", "EXECUTED", "REJECTED",
          "INVALID_INPUT", "TIMEOUT", "RUNTIME_ERROR", "ERROR"}

Event == [request : Request, stage : Stage, executor : ExecutorStatus \cup {"none"}]

TypeOK ==
  /\ instruction \in [Request -> Instruction]
  /\ loop \in Request \cup {None}
  /\ pc \in [Request -> Busy \cup {"idle", "answered", "lost"}]
  /\ calls \in [Request -> 0..2]
  /\ outcome \in [Request -> ExecutorStatus \cup {"none"}]
  /\ IsFileOf(file, Event)
  /\ snapshot \in [Request -> {"none", "whole", "torn"}]
  /\ emitted \in Nat
  /\ ran \in [Request -> BOOLEAN]
  /\ probed \in [Request -> BOOLEAN]
  /\ faults \in 0..MaxFaults
  /\ crashes \in 0..MaxCrashes
  /\ loop # None => pc[loop] \in Busy \ {"awaiting"}
  /\ \A r \in Request : pc[r] \in Busy \ {"awaiting"} => loop = r

Init ==
  /\ instruction \in {f \in [Request -> UNION {InstructionsOf[r] : r \in Request}] :
                        \A r \in Request : f[r] \in InstructionsOf[r]}
  /\ loop = None
  /\ pc = [r \in Request |-> "idle"]
  /\ calls = [r \in Request |-> 0]
  /\ outcome = [r \in Request |-> "none"]
  /\ file = EmptyFile
  /\ snapshot = [r \in Request |-> "none"]
  /\ emitted = 0
  /\ ran = [r \in Request |-> FALSE]
  /\ probed = [r \in Request |-> FALSE]
  /\ faults = 0
  /\ crashes = 0

-----------------------------------------------------------------------------
(* The order of the stages *)

Collecting(n) == IF n = 0 THEN "validate" ELSE "collect"

\* Mutant: the configuration guard is asked after the tools.
LateGuardAfterReceipt(i) ==
  IF Injected(i) THEN "PROMPT_INJECTION_DETECTED"
  ELSE IF Dangerous(i) THEN "DANGEROUS_INTENT_DETECTED"
  ELSE IF Plan(i).calls > 0 THEN "collect"
  ELSE IF Protected(i) THEN "CONFIG_GUARD_BLOCKED"
  ELSE "validate"

\* Both guards end the request before a tool or the validator sees it.
AfterReceipt(i) ==
  IF Injected(i) THEN "PROMPT_INJECTION_DETECTED"
  ELSE IF Protected(i) THEN "CONFIG_GUARD_BLOCKED"
  ELSE IF Dangerous(i) THEN "DANGEROUS_INTENT_DETECTED"
  ELSE Collecting(Plan(i).calls)

\* Mutant: the verdict is not logged before the command runs.
UnrecordedNextStage(r) ==
  CASE pc[r] = "REQUEST_RECEIVED"          ->
         LET next == AfterReceipt(instruction[r])
         IN  IF next = "validate" THEN "execute" ELSE next
    [] pc[r] \in Guarded                   -> "COMPLETED"
    [] pc[r] = "DANGEROUS_INTENT_DETECTED" -> "validate"
    [] pc[r] = "validate"                  -> "execute"
    [] pc[r] = "report"                    ->
         IF outcome[r] = "EXECUTED" THEN "COMPLETED" ELSE "EXECUTION_SKIPPED"
    [] pc[r] = "EXECUTION_SKIPPED"         -> "COMPLETED"
    [] pc[r] = "COMPLETED"                 -> "record"

NextStage(r) ==
  CASE pc[r] = "REQUEST_RECEIVED"          -> AfterReceipt(instruction[r])
    [] pc[r] \in Guarded                   -> "COMPLETED"
    [] pc[r] = "DANGEROUS_INTENT_DETECTED" -> "validate"
    [] pc[r] = "validate"                  -> "execute"
    [] pc[r] = "report"                    ->
         IF outcome[r] = "EXECUTED" THEN "COMPLETED" ELSE "EXECUTION_SKIPPED"
    [] pc[r] = "EXECUTION_SKIPPED"         -> "COMPLETED"
    [] pc[r] = "COMPLETED"                 -> "record"

\* stage_from_validator_envelope and stage_from_executor_envelope.
ValidatorStage(decision) ==
  CASE decision = "BLOCK"            -> "BLOCKED"
    [] decision = "REQUIRE_APPROVAL" -> "PENDING_APPROVAL"
    [] decision = "ALLOW"            -> "VALIDATED"

\* Mutant: every executor status is taken for a stage.
RawExecutorStage(status) == status

ExecutorStage(status) == IF status = "SKIPPED" THEN "ERROR" ELSE status

StageOf(r) ==
  CASE pc[r] = "validate" -> ValidatorStage(Validate(instruction[r]))
    [] pc[r] = "report"   -> ExecutorStage(outcome[r])
    [] OTHER              -> pc[r]

\* The synthetic envelope of a short circuit exists from its last event on.
OutcomeAfter(r) == IF pc[r] \in Guarded THEN "BLOCKED" ELSE outcome[r]

\* Mutant: the executor's envelope is not handed to the log.
AnonymousEventOf(r) == [request |-> r, stage |-> StageOf(r), executor |-> "none"]

EventOf(r) == [request |-> r, stage |-> StageOf(r), executor |-> outcome[r]]

-----------------------------------------------------------------------------
(* OpsOrchestrator.chat *)

Receive(r) ==
  /\ pc[r] = "idle" /\ loop = None
  /\ loop' = r
  /\ pc' = [pc EXCEPT ![r] = "REQUEST_RECEIVED"]
  /\ calls' = [calls EXCEPT ![r] = Plan(instruction[r]).calls]
  /\ UNCHANGED <<instruction, outcome, file, snapshot, history, faults, crashes>>

\* OpsAuditLog.append: a failed write is logged and otherwise ignored.
Appended(event) ==
  \/ file' = Written(file, event) /\ UNCHANGED faults
  \/ /\ faults < MaxFaults
     /\ file' \in Damaged(file, event)
     /\ faults' = faults + 1

Emit(r) ==
  /\ loop = r /\ pc[r] \in Emitting
  /\ Appended(EventOf(r))
  /\ emitted' = emitted + 1
  /\ pc' = [pc EXCEPT ![r] = NextStage(r)]
  /\ outcome' = [outcome EXCEPT ![r] = OutcomeAfter(r)]
  /\ UNCHANGED <<instruction, loop, calls, snapshot, ran, probed, crashes>>

\* _collect_mcp_context awaits one tool after the other.
CallTool(r) ==
  /\ loop = r /\ pc[r] = "collect"
  /\ loop' = None
  /\ pc' = [pc EXCEPT ![r] = "awaiting"]
  /\ calls' = [calls EXCEPT ![r] = @ - 1]
  /\ probed' = [probed EXCEPT ![r] = TRUE]
  /\ UNCHANGED <<instruction, outcome, file, snapshot, emitted, ran, faults, crashes>>

\* Mutant: nobody waits for the last call.
ForgottenToolReturns(r) ==
  /\ loop = None /\ pc[r] = "awaiting" /\ calls[r] > 0
  /\ loop' = r
  /\ pc' = [pc EXCEPT ![r] = "collect"]
  /\ UNCHANGED <<instruction, calls, outcome, file, snapshot, history, faults, crashes>>

\* An answer, an error and a timeout all end the call.
ToolReturns(r) ==
  /\ loop = None /\ pc[r] = "awaiting"
  /\ loop' = r
  /\ pc' = [pc EXCEPT ![r] = Collecting(calls[r])]
  /\ UNCHANGED <<instruction, calls, outcome, file, snapshot, history, faults, crashes>>

\* _maybe_execute: subprocess.run blocks the loop.
Execute(r) ==
  /\ loop = r /\ pc[r] = "execute"
  /\ \E e \in MaybeExecute(instruction[r], ExecutorEnabled) :
       /\ outcome' = [outcome EXCEPT ![r] = e.status]
       /\ ran' = [ran EXCEPT ![r] = e.ran]
  /\ pc' = [pc EXCEPT ![r] = "report"]
  /\ UNCHANGED <<instruction, loop, calls, file, snapshot, emitted, probed, faults, crashes>>

\* AuditLogger.write of the route: open "w" truncates, then the JSON follows.
Recorded(r) ==
  \/ snapshot' = [snapshot EXCEPT ![r] = "whole"] /\ UNCHANGED faults
  \/ /\ faults < MaxFaults
     /\ faults' = faults + 1
     /\ snapshot' \in {snapshot, [snapshot EXCEPT ![r] = "torn"]}

Answer(r) ==
  /\ loop = r /\ pc[r] = "record"
  /\ Recorded(r)
  /\ loop' = None
  /\ pc' = [pc EXCEPT ![r] = "answered"]
  /\ UNCHANGED <<instruction, calls, outcome, file, history, crashes>>

(***************************************************************************)
(* The process dies and starts again. The write it is in may be half done. *)
(***************************************************************************)
Crash ==
  /\ crashes < MaxCrashes
  /\ crashes' = crashes + 1
  /\ loop' = None
  /\ pc' = [r \in Request |-> IF pc[r] \in Busy THEN "lost" ELSE pc[r]]
  /\ IF loop # None /\ pc[loop] \in Emitting
     THEN \/ UNCHANGED <<file, emitted>>
          \/ file' \in Damaged(file, EventOf(loop)) /\ emitted' = emitted + 1
     ELSE UNCHANGED <<file, emitted>>
  /\ IF loop # None /\ pc[loop] = "record"
     THEN snapshot' \in {snapshot, [snapshot EXCEPT ![loop] = "torn"]}
     ELSE UNCHANGED snapshot
  /\ UNCHANGED <<instruction, calls, outcome, ran, probed, faults>>

Step(r) == Emit(r) \/ CallTool(r) \/ ToolReturns(r) \/ Execute(r) \/ Answer(r)

Next == Crash \/ \E r \in Request : Receive(r) \/ Step(r)

Spec == Init /\ [][Next]_vars

(***************************************************************************)
(* asyncio resumes every coroutine that is ready, subprocess.run and the   *)
(* calls of an established MCP session have timeouts. Nobody has to ask.   *)
(***************************************************************************)
FairSpec == Spec /\ \A r \in Request : WF_vars(Step(r))

-----------------------------------------------------------------------------
(* Safety *)

(***************************************************************************)
(* A command that ran on the host is the first of the plan; a rule allows  *)
(* it, no rule blocks it or wants an approval, for it, for the rest of the *)
(* plan or for the instruction; it is no chain of commands and is on the   *)
(* whitelist. validate only asks whether some command of the plan is       *)
(* allowed: that it is the one that runs follows from the plans.           *)
(***************************************************************************)
Vouched(i) ==
  /\ CommandsOf(i) # {}
  /\ LET first == Plan(i).commands[1]
     IN  first.allow /\ ~first.chained /\ first.parses /\ Whitelisted(first)
  /\ AllMatches(i) \subseteq {"ALLOW"}

OnlyVouchedRuns == \A r \in Request : ran[r] => Vouched(instruction[r])

(***************************************************************************)
(* A request that a guard refuses or that looks dangerous touches nothing: *)
(* no command runs, and no tool of the MCP server is called for it.        *)
(***************************************************************************)
Refusable(i) == Injected(i) \/ Protected(i) \/ Dangerous(i)

RefusedIsUntouched ==
  \A r \in Request : Refusable(instruction[r]) => ~ran[r] /\ ~probed[r]

(***************************************************************************)
(* A failed write or a crash costs the audit log at most the event it hits *)
(* and the one appended after it; all others stay legible.                 *)
(***************************************************************************)
LossIsBounded == emitted - Cardinality(Legible(file)) <= 2 * (faults + crashes)

(***************************************************************************)
(* No command runs before its authorisation is in the audit log, where     *)
(* crashes cannot damage it any more.                                      *)
(***************************************************************************)
AuthorisedOnRecord ==
  \A r \in Request :
    ran[r] /\ faults = 0 =>
      \E k \in LinesOf(file, r) : file.lines[k].event.stage = "VALIDATED"

(***************************************************************************)
(* One failed write does not hide how a command ended: what the answer     *)
(* says is also in the snapshot or in a legible event.                     *)
(***************************************************************************)
OutcomeOnRecord ==
  \A r \in Request :
    ran[r] /\ pc[r] = "answered" /\ faults <= 1 =>
      \/ snapshot[r] = "whole"
      \/ \E k \in LinesOf(file, r) : file.lines[k].event.executor = outcome[r]

-----------------------------------------------------------------------------
(* Liveness *)

\* Every request is answered, unless the process dies under it.
ChatAnswers ==
  \A r \in Request : pc[r] = "REQUEST_RECEIVED" ~> pc[r] \in {"answered", "lost"}

-----------------------------------------------------------------------------
(* What comments promise and the code does not keep *)

(***************************************************************************)
(* EXECUTION_SKIPPED is the record of "no command touched the host"        *)
(* (ops_orchestrator.py), but it follows TIMEOUT and RUNTIME_ERROR too.    *)
(***************************************************************************)
SkippedMeansUntouched ==
  \A k \in DOMAIN file.lines :
    LET event == file.lines[k].event
    IN  event.stage = "EXECUTION_SKIPPED" => ~ran[event.request]

\* "a truncated tail can never crash the whole replay" (ops_audit_log.py)
ReplayNeverFails == Loads(file)

=============================================================================
