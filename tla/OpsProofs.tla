------------------------------ MODULE OpsProofs ------------------------------
(***************************************************************************)
(* Theorems about OpsChat, for any requests, any instructions, and any     *)
(* number of failed writes and crashes.                                    *)
(***************************************************************************)
EXTENDS OpsChat, TLAPS, FiniteSetTheorems, SequenceTheorems

-----------------------------------------------------------------------------
(* The gates as functions *)

(***************************************************************************)
(* Everything a rule matches is ALLOW, and something is matched: that is   *)
(* all an ALLOW of the validator says when there is a command.             *)
(***************************************************************************)
LEMMA AllowMeansMatched ==
  ASSUME NEW i \in Instruction, Validate(i) = "ALLOW", CommandsOf(i) # {}
  PROVE  AllMatches(i) = {"ALLOW"}
  <1>1. "BLOCK" \notin AllMatches(i) /\ "REQUIRE_APPROVAL" \notin AllMatches(i)
        /\ AllMatches(i) # {}
    BY DEF Validate
  <1>2. AllMatches(i) \subseteq Decision
    BY DEF AllMatches, Matches
  <1> QED BY <1>1, <1>2 DEF Decision

\* The first command of a plan is allowed if anything in the plan is.
LEMMA FirstIsAllowed ==
  ASSUME NEW i \in Instruction, i.danger = "none", CommandsOf(i) # {},
         AllMatches(i) = {"ALLOW"}
  PROVE  Plan(i).commands[1].allow /\ ~Plan(i).commands[1].chained
  <1>1. ~i.empty
    BY DEF CommandsOf, Plan, Planned
  <1>2. CASE i.topic \in Topic
    <2>1. Plan(i) = PlanOn(i.topic)
      BY <1>1, <1>2 DEF Plan
    <2>2. CASE i.topic \in {"KYLINSEC_STATUS", "TCM_VERIFY", "KERNEL_MODULE_CHECK"}
      <3>1. CommandsOf(i) = {Unlisted}
        BY <2>1, <2>2 DEF CommandsOf, PlanOn, Planned
      <3>2. Matches(Unlisted) = {}
        BY DEF Matches, Unlisted, Query
      <3>3. "ALLOW" \notin AllMatches(i)
        BY <3>1, <3>2 DEF AllMatches
      <3> QED BY <3>3
    <2>3. CASE i.topic = "SERVICE_STATUS"
      <3>1. Plan(i).commands[1] = StatusQuery
        BY <2>1, <2>3 DEF PlanOn, Planned
      <3>2. StatusQuery.allow = TRUE /\ StatusQuery.chained = FALSE
        BY DEF StatusQuery, Query
      <3> QED BY <3>1, <3>2
    <2>4. CASE i.topic \notin {"KYLINSEC_STATUS", "TCM_VERIFY", "KERNEL_MODULE_CHECK",
                               "SERVICE_STATUS"}
      <3>1. Plan(i).commands[1] = Query
        BY <2>1, <2>4, <1>2 DEF PlanOn, Planned, Topic
      <3> QED BY <3>1 DEF Query
    <2> QED BY <2>2, <2>3, <2>4
  <1>3. CASE i.topic = "raw"
    <2>1. i.topic \notin Topic
      BY <1>3 DEF Topic
    <2>2. Plan(i) = Planned(<<i.text>>, 0)
      BY <1>1, <1>3, <2>1 DEF Plan
    <2>3. CommandsOf(i) = {i.text} /\ Plan(i).commands[1] = i.text
      BY <2>2 DEF CommandsOf, Planned
    <2>4. "ALLOW" \in Matches(i.text)
      BY <2>3 DEF AllMatches
    <2> QED BY <2>3, <2>4 DEF Matches
  <1>4. CASE i.topic = "unknown"
    BY <1>1, <1>4 DEF CommandsOf, Plan, Planned, Topic
  <1> QED BY <1>2, <1>3, <1>4 DEF Instruction

\* What _maybe_execute runs went through every gate.
LEMMA RunsAreVouched ==
  ASSUME NEW i \in Instruction, NEW enabled \in BOOLEAN,
         NEW e \in MaybeExecute(i, enabled), e.ran
  PROVE  Vouched(i) /\ ~Dangerous(i)
  <1>1. Validate(i) \in {"ALLOW", "BLOCK", "REQUIRE_APPROVAL"}
    BY DEF Validate
  <1>2. /\ Validate(i) = "ALLOW" /\ ~Dangerous(i) /\ CommandsOf(i) # {}
        /\ e \in ExecutionsOf(Plan(i).commands[1])
    BY <1>1 DEF MaybeExecute, Refused
  <1>3. AllMatches(i) = {"ALLOW"}
    BY <1>2, AllowMeansMatched
  <1>4. i.danger = "none"
    BY <1>2 DEF Dangerous, CommandsOf, Plan, Planned
  <1>5. Plan(i).commands[1].allow /\ ~Plan(i).commands[1].chained
    BY <1>2, <1>3, <1>4, FirstIsAllowed
  <1>6. Plan(i).commands[1].parses /\ Whitelisted(Plan(i).commands[1])
    BY <1>2 DEF ExecutionsOf, Refused
  <1> QED BY <1>2, <1>3, <1>5, <1>6 DEF Vouched

\* No plan calls more than two tools.
LEMMA PlansAreShort ==
  ASSUME NEW i \in Instruction
  PROVE  Plan(i).calls \in 0..2
  <1>1. PlanOn(i.topic).calls \in 0..2
    BY DEF PlanOn, Planned
  <1> QED BY <1>1 DEF Plan, Planned

\* Possible ends of _maybe_execute.
LEMMA StatusIsKnown ==
  ASSUME NEW i \in Instruction, NEW enabled \in BOOLEAN,
         NEW e \in MaybeExecute(i, enabled)
  PROVE  e.status \in ExecutorStatus /\ e.ran \in BOOLEAN
  <1>1. Validate(i) \in {"ALLOW", "BLOCK", "REQUIRE_APPROVAL"}
    BY DEF Validate
  <1>2. Runs \subseteq [status : ExecutorStatus, ran : BOOLEAN]
    BY DEF Runs, ExecutorStatus
  <1>3. ASSUME NEW s \in ExecutorStatus, e \in Refused(s)
        PROVE  e.status \in ExecutorStatus /\ e.ran \in BOOLEAN
    <2>1. e = [status |-> s, ran |-> FALSE]
      BY <1>3 DEF Refused
    <2> QED BY <2>1
  <1>4. {"INVALID_INPUT", "REJECTED", "BLOCKED", "PENDING_APPROVAL", "SKIPPED"}
          \subseteq ExecutorStatus
    BY DEF ExecutorStatus
  <1>5. \/ e \in Runs
        \/ e \in Refused("INVALID_INPUT")
        \/ e \in Refused("REJECTED")
        \/ e \in Refused("BLOCKED")
        \/ e \in Refused("PENDING_APPROVAL")
        \/ e \in Refused("SKIPPED")
    BY <1>1 DEF MaybeExecute, ExecutionsOf
  <1> QED BY <1>2, <1>3, <1>4, <1>5

-----------------------------------------------------------------------------
(* The file *)

\* Appending to a sequence, and replacing its last element.
LEMMA SeqOfT ==
  ASSUME NEW T, NEW s \in Seq(T), NEW x \in T
  PROVE  /\ Append(s, x) \in Seq(T) /\ Append(s, x) # << >>
         /\ Len(Append(s, x)) = Len(s) + 1
         /\ s # << >> => /\ Len(s) \in DOMAIN s
                         /\ [s EXCEPT ![Len(s)] = x] \in Seq(T)
                         /\ [s EXCEPT ![Len(s)] = x] # << >>
                         /\ Len([s EXCEPT ![Len(s)] = x]) = Len(s)
  <1>1. /\ Append(s, x) \in Seq(T) /\ Append(s, x) # << >>
        /\ Len(Append(s, x)) = Len(s) + 1
    BY AppendProperties
  <1>2. ASSUME s # << >>
        PROVE  /\ Len(s) \in 1..Len(s)
               /\ [s EXCEPT ![Len(s)] = x] \in Seq(T)
               /\ Len([s EXCEPT ![Len(s)] = x]) = Len(s)
    <2>1. Len(s) \in 1..Len(s)
      BY <1>2, EmptySeq, LenProperties
    <2> QED BY <2>1, ExceptSeq, LenProperties
  <1>3. ASSUME s # << >>
        PROVE  [s EXCEPT ![Len(s)] = x] # << >>
    BY <1>2, <1>3
  <1> QED BY <1>1, <1>2, <1>3, LenProperties

\* One more line, or bytes on the last one: either way it stays a file.
LEMMA PutIsFile ==
  ASSUME NEW events, NEW f, IsFileOf(f, events), NEW event \in events,
         NEW legible \in BOOLEAN, NEW ended \in BOOLEAN
  PROVE  IsFileOf(Put(f, Line(event, legible), ended), events)
  <1> DEFINE line == Line(event, legible)
             T == [event : events, legible : BOOLEAN]
  <1>1. line \in T
    BY DEF Line
  <1>2. f.lines \in Seq(T) /\ f.ended \in BOOLEAN /\ f.decodes \in BOOLEAN
    BY DEF IsFileOf
  <1>3. CASE f.ended
    <2>1. Append(f.lines, line) \in Seq(T) /\ Append(f.lines, line) # << >>
      BY <1>1, <1>2, SeqOfT
    <2> QED BY <1>2, <1>3, <2>1 DEF IsFileOf, Put
  <1>4. CASE ~f.ended
    <2> DEFINE last == f.lines[Len(f.lines)]
    <2>1. f.lines # << >> /\ Len(f.lines) \in DOMAIN f.lines
      BY <1>2, <1>4, SeqOfT, <1>1 DEF IsFileOf
    <2>2. last \in T
      BY <1>2, <2>1, ElementOfSeq, LenProperties
    <2>3. Glued(f.lines) = [f.lines EXCEPT ![Len(f.lines)] = [last EXCEPT !.legible = FALSE]]
      BY DEF Glued
    <2>4. [last EXCEPT !.legible = FALSE] \in T
      BY <2>2
    <2>5. Glued(f.lines) \in Seq(T) /\ Glued(f.lines) # << >>
      BY <1>2, <2>1, <2>3, <2>4, SeqOfT
    <2> QED BY <1>2, <1>4, <2>5 DEF IsFileOf, Put
  <1> QED BY <1>2, <1>3, <1>4

LEMMA WritesKeepFile ==
  ASSUME NEW events, NEW f, IsFileOf(f, events), NEW event \in events
  PROVE  /\ IsFileOf(Written(f, event), events)
         /\ \A g \in Damaged(f, event) : IsFileOf(g, events)
  <1>1. IsFileOf(Written(f, event), events)
    BY PutIsFile DEF Written
  <1>2. IsFileOf(Put(f, Line(event, TRUE), FALSE), events)
    BY PutIsFile
  <1>3. IsFileOf(Cut(f, event), events)
    BY PutIsFile DEF Cut
  <1>4. IsFileOf(CutInCharacter(f, event), events)
    BY <1>3 DEF CutInCharacter, IsFileOf
  <1> QED BY <1>1, <1>2, <1>3, <1>4 DEF Damaged

-----------------------------------------------------------------------------
(* Types *)

(***************************************************************************)
(* What the handlers leave for the next one: the calls of the plan, a call *)
(* to make, an envelope to report.                                         *)
(***************************************************************************)
Prepared ==
  \A r \in Request :
    /\ pc[r] = "REQUEST_RECEIVED" => calls[r] = Plan(instruction[r]).calls
    /\ pc[r] = "collect" => calls[r] # 0
    /\ pc[r] = "report" => outcome[r] \in ExecutorStatus

Held == Busy \ {"awaiting"}

\* Where a request goes from its stages, and what it reports.
LEMMA StagesAreKnown ==
  ASSUME TypeOK, Prepared, NEW r \in Request, pc[r] \in Emitting
  PROVE  /\ NextStage(r) \in Held
         /\ OutcomeAfter(r) \in ExecutorStatus \cup {"none"}
         /\ EventOf(r) \in Event
  <1>1. AfterReceipt(instruction[r]) \in Held
    BY DEF AfterReceipt, Collecting, Held, Busy, Emitting, Guarded
  <1>2. NextStage(r) \in Held
    BY <1>1 DEF NextStage, Held, Busy, Emitting, Guarded
  <1>3. OutcomeAfter(r) \in ExecutorStatus \cup {"none"}
    BY DEF OutcomeAfter, TypeOK, ExecutorStatus
  <1>4. StageOf(r) \in Stage
    <2>1. CASE pc[r] = "report"
      <3>1. ExecutorStage(outcome[r]) \in Stage
        BY <2>1 DEF Prepared, ExecutorStage, ExecutorStatus, Stage
      <3> QED BY <2>1, <3>1 DEF StageOf
    <2>2. CASE pc[r] = "validate"
      <3>1. Validate(instruction[r]) \in {"ALLOW", "BLOCK", "REQUIRE_APPROVAL"}
        BY DEF Validate
      <3>2. ValidatorStage(Validate(instruction[r])) \in Stage
        BY <3>1 DEF ValidatorStage, Stage
      <3> QED BY <2>2, <3>2 DEF StageOf
    <2>3. CASE pc[r] \notin {"report", "validate"}
      BY <2>3 DEF StageOf, Stage
    <2> QED BY <2>1, <2>2, <2>3
  <1>5. EventOf(r) \in Event
    BY <1>4 DEF EventOf, Event, TypeOK
  <1> QED BY <1>2, <1>3, <1>5

LEMMA TypesAreKept ==
  ASSUME TypeOK, Prepared, [Next]_vars
  PROVE  TypeOK'
  <1> USE InstructionsAssumption, NoneAssumption, BoundsAssumption
  <1>1. ASSUME NEW r \in Request, Receive(r)
        PROVE  TypeOK'
    <2>1. Plan(instruction[r]).calls \in 0..2
      BY PlansAreShort DEF TypeOK
    <2> QED BY <1>1, <2>1 DEF Receive, TypeOK, history, Busy, Emitting
  <1>2. ASSUME NEW r \in Request, Emit(r)
        PROVE  TypeOK'
    <2>1. /\ NextStage(r) \in Held /\ EventOf(r) \in Event
          /\ OutcomeAfter(r) \in ExecutorStatus \cup {"none"}
      BY <1>2, StagesAreKnown DEF Emit
    <2>2. IsFileOf(file', Event) /\ faults' \in 0..MaxFaults
      BY <1>2, <2>1, WritesKeepFile DEF Emit, Appended, TypeOK
    <2> QED BY <1>2, <2>1, <2>2 DEF Emit, TypeOK, Held
  <1>3. ASSUME NEW r \in Request, CallTool(r)
        PROVE  TypeOK'
    <2>1. calls[r] - 1 \in 0..2
      BY <1>3 DEF CallTool, TypeOK, Prepared
    <2> QED BY <1>3, <2>1 DEF CallTool, TypeOK, Busy
  <1>4. ASSUME NEW r \in Request, ToolReturns(r)
        PROVE  TypeOK'
    <2>1. Collecting(calls[r]) \in Held
      BY DEF Collecting, Held, Busy, Emitting
    <2> QED BY <1>4, <2>1 DEF ToolReturns, TypeOK, Held, history
  <1>5. ASSUME NEW r \in Request, Execute(r)
        PROVE  TypeOK'
    <2>1. PICK e \in MaybeExecute(instruction[r], ExecutorEnabled) :
            /\ outcome' = [outcome EXCEPT ![r] = e.status]
            /\ ran' = [ran EXCEPT ![r] = e.ran]
      BY <1>5 DEF Execute
    <2>2. e.status \in ExecutorStatus /\ e.ran \in BOOLEAN
      BY <2>1, StatusIsKnown, EnabledAssumption DEF TypeOK
    <2> QED BY <1>5, <2>1, <2>2 DEF Execute, TypeOK, Busy, Emitting
  <1>6. ASSUME NEW r \in Request, Answer(r)
        PROVE  TypeOK'
    <2>1. /\ snapshot' \in [Request -> {"none", "whole", "torn"}]
          /\ faults' \in 0..MaxFaults
      BY <1>6 DEF Answer, Recorded, TypeOK
    <2>2. \A q \in Request : pc'[q] \notin Busy \ {"awaiting"}
      <3>1. "answered" \notin Busy
        BY DEF Busy, Emitting, Guarded
      <3> QED BY <1>6, <3>1 DEF Answer, TypeOK
    <2> QED BY <1>6, <2>1, <2>2 DEF Answer, TypeOK, history
  <1>7. ASSUME Crash
        PROVE  TypeOK'
    <2>1. IsFileOf(file', Event) /\ emitted' \in Nat
      <3>1. CASE loop # None /\ pc[loop] \in Emitting
        <4>1. EventOf(loop) \in Event
          BY <3>1, StagesAreKnown DEF TypeOK
        <4> QED BY <1>7, <3>1, <4>1, WritesKeepFile DEF Crash, TypeOK
      <3> QED BY <1>7, <3>1 DEF Crash, TypeOK
    <2>2. snapshot' \in [Request -> {"none", "whole", "torn"}]
      BY <1>7 DEF Crash, TypeOK
    <2>3. \A r \in Request : pc'[r] \notin Busy
      BY <1>7 DEF Crash, TypeOK, Busy, Emitting, Guarded
    <2>4. /\ pc' \in [Request -> Busy \cup {"idle", "answered", "lost"}]
          /\ loop' = None /\ crashes' \in 0..MaxCrashes
      BY <1>7 DEF Crash, TypeOK
    <2> QED BY <1>7, <2>1, <2>2, <2>3, <2>4 DEF Crash, TypeOK
  <1>8. CASE UNCHANGED vars
    BY <1>8 DEF vars, chat, history, TypeOK
  <1> QED BY <1>1, <1>2, <1>3, <1>4, <1>5, <1>6, <1>7, <1>8 DEF Next, Step

-----------------------------------------------------------------------------
(* The gates *)

\* Only a request that neither guard refused comes here.
Unguarded == {"DANGEROUS_INTENT_DETECTED", "validate", "execute"}

(***************************************************************************)
(* What a request has passed when it comes to its tools, to the validator  *)
(* and to the executor, and what it has shown when something happened.     *)
(***************************************************************************)
Gated ==
  \A r \in Request :
    /\ pc[r] \in {"collect", "awaiting"} => ~Refusable(instruction[r])
    /\ pc[r] \in Unguarded =>
         ~Injected(instruction[r]) /\ ~Protected(instruction[r])
    /\ probed[r] => ~Refusable(instruction[r])
    /\ ran[r] => Vouched(instruction[r]) /\ ~Refusable(instruction[r])

\* TypeOK, Prepared and Gated are inductive together.
ChatInv == TypeOK /\ Prepared /\ Gated

LEMMA ChatInvInit ==
  ASSUME Init
  PROVE  ChatInv
  <1>1. instruction \in [Request -> Instruction]
    BY InstructionsAssumption DEF Init
  <1>2. IsFileOf(file, Event)
    BY EmptySeq DEF Init, EmptyFile, IsFileOf
  <1>3. TypeOK
    BY <1>1, <1>2, NoneAssumption, BoundsAssumption
    DEF Init, TypeOK, Busy, Emitting, Guarded
  <1>4. Prepared
    BY DEF Init, Prepared
  <1>5. Gated
    BY DEF Init, Gated, Unguarded
  <1> QED BY <1>3, <1>4, <1>5 DEF ChatInv

\* The next stage of a request respects what the guards found.
LEMMA StagesAreGated ==
  ASSUME ChatInv, NEW r \in Request, pc[r] \in Emitting
  PROVE  /\ NextStage(r) # "awaiting" /\ NextStage(r) # "REQUEST_RECEIVED"
         /\ NextStage(r) = "collect" => ~Refusable(instruction[r]) /\ calls[r] # 0
         /\ NextStage(r) \in Unguarded =>
              ~Injected(instruction[r]) /\ ~Protected(instruction[r])
         /\ NextStage(r) # "report"
  <1> DEFINE i == instruction[r]
  <1>1. /\ AfterReceipt(i) \notin {"awaiting", "REQUEST_RECEIVED", "report", "execute"}
        /\ AfterReceipt(i) = "collect" => ~Refusable(i) /\ Plan(i).calls # 0
        /\ AfterReceipt(i) \in Unguarded => ~Injected(i) /\ ~Protected(i)
    BY DEF AfterReceipt, Collecting, Refusable, Unguarded
  <1>2. CASE pc[r] = "REQUEST_RECEIVED"
    BY <1>1, <1>2 DEF NextStage, ChatInv, Prepared, Unguarded
  <1>3. CASE pc[r] = "validate"
    BY <1>3 DEF NextStage, ChatInv, Gated, Guarded, Unguarded
  <1>4. CASE pc[r] = "DANGEROUS_INTENT_DETECTED"
    BY <1>4 DEF NextStage, ChatInv, Gated, Guarded, Unguarded
  <1>5. CASE pc[r] \notin {"REQUEST_RECEIVED", "validate", "DANGEROUS_INTENT_DETECTED"}
    BY <1>5 DEF NextStage, Emitting, Guarded, Unguarded
  <1> QED BY <1>2, <1>3, <1>4, <1>5

LEMMA PreparedIsKept ==
  ASSUME ChatInv, [Next]_vars
  PROVE  Prepared'
  <1> USE DEF ChatInv
  <1>1. ASSUME NEW r \in Request, Receive(r)
        PROVE  Prepared'
    BY <1>1 DEF Receive, Prepared, TypeOK
  <1>2. ASSUME NEW r \in Request, Emit(r)
        PROVE  Prepared'
    <2>1. /\ NextStage(r) \notin {"REQUEST_RECEIVED", "report"}
          /\ NextStage(r) = "collect" => calls[r] # 0
      BY <1>2, StagesAreGated DEF Emit
    <2> QED BY <1>2, <2>1 DEF Emit, Prepared, TypeOK
  <1>3. ASSUME NEW r \in Request, CallTool(r)
        PROVE  Prepared'
    BY <1>3 DEF CallTool, Prepared, TypeOK
  <1>4. ASSUME NEW r \in Request, ToolReturns(r)
        PROVE  Prepared'
    BY <1>4 DEF ToolReturns, Collecting, Prepared, TypeOK
  <1>5. ASSUME NEW r \in Request, Execute(r)
        PROVE  Prepared'
    <2>1. PICK e \in MaybeExecute(instruction[r], ExecutorEnabled) :
            outcome' = [outcome EXCEPT ![r] = e.status]
      BY <1>5 DEF Execute
    <2>2. e.status \in ExecutorStatus
      BY <2>1, StatusIsKnown, EnabledAssumption DEF TypeOK
    <2> QED BY <1>5, <2>1, <2>2 DEF Execute, Prepared, TypeOK
  <1>6. ASSUME NEW r \in Request, Answer(r)
        PROVE  Prepared'
    BY <1>6 DEF Answer, Prepared, TypeOK
  <1>7. ASSUME Crash
        PROVE  Prepared'
    BY <1>7 DEF Crash, Prepared, TypeOK, Busy, Emitting
  <1>8. CASE UNCHANGED vars
    BY <1>8 DEF vars, chat, Prepared
  <1> QED BY <1>1, <1>2, <1>3, <1>4, <1>5, <1>6, <1>7, <1>8 DEF Next, Step

LEMMA GatedIsKept ==
  ASSUME ChatInv, [Next]_vars
  PROVE  Gated'
  <1> USE DEF ChatInv
  <1>1. ASSUME NEW r \in Request, Receive(r)
        PROVE  Gated'
    BY <1>1 DEF Receive, Gated, TypeOK, history, Unguarded
  <1>2. ASSUME NEW r \in Request, Emit(r)
        PROVE  Gated'
    <2>1. /\ NextStage(r) \in {"collect", "awaiting"} => ~Refusable(instruction[r])
          /\ NextStage(r) \in Unguarded =>
               ~Injected(instruction[r]) /\ ~Protected(instruction[r])
      BY <1>2, StagesAreGated DEF Emit
    <2> QED BY <1>2, <2>1 DEF Emit, Gated, TypeOK
  <1>3. ASSUME NEW r \in Request, CallTool(r)
        PROVE  Gated'
    BY <1>3 DEF CallTool, Gated, TypeOK, Unguarded
  <1>4. ASSUME NEW r \in Request, ToolReturns(r)
        PROVE  Gated'
    <2>1. ~Refusable(instruction[r])
      BY <1>4 DEF ToolReturns, Gated
    <2>2. ~Injected(instruction[r]) /\ ~Protected(instruction[r])
      BY <2>1 DEF Refusable
    <2> QED BY <1>4, <2>1, <2>2 DEF ToolReturns, Collecting, Gated, TypeOK, history, Unguarded
  <1>5. ASSUME NEW r \in Request, Execute(r)
        PROVE  Gated'
    <2>1. PICK e \in MaybeExecute(instruction[r], ExecutorEnabled) :
            ran' = [ran EXCEPT ![r] = e.ran]
      BY <1>5 DEF Execute
    <2>2. e.ran => Vouched(instruction[r]) /\ ~Dangerous(instruction[r])
      BY <2>1, RunsAreVouched, EnabledAssumption DEF TypeOK
    <2>3. ~Injected(instruction[r]) /\ ~Protected(instruction[r])
      BY <1>5 DEF Execute, Gated, Unguarded
    <2>4. e.ran => Vouched(instruction[r]) /\ ~Refusable(instruction[r])
      BY <2>2, <2>3 DEF Refusable
    <2> QED BY <1>5, <2>1, <2>4 DEF Execute, Gated, TypeOK, Unguarded
  <1>6. ASSUME NEW r \in Request, Answer(r)
        PROVE  Gated'
    BY <1>6 DEF Answer, Gated, TypeOK, history, Unguarded
  <1>7. ASSUME Crash
        PROVE  Gated'
    <2>1. \A r \in Request : pc'[r] = pc[r] \/ pc'[r] = "lost"
      BY <1>7 DEF Crash
    <2> QED BY <1>7, <2>1 DEF Crash, Gated, Unguarded
  <1>8. CASE UNCHANGED vars
    BY <1>8 DEF vars, chat, history, Gated
  <1> QED BY <1>1, <1>2, <1>3, <1>4, <1>5, <1>6, <1>7, <1>8 DEF Next, Step

LEMMA ChatInvHolds == Spec => []ChatInv
  <1>1. ChatInv /\ [Next]_vars => ChatInv'
    BY TypesAreKept, PreparedIsKept, GatedIsKept DEF ChatInv
  <1> QED BY ChatInvInit, <1>1, PTL DEF Spec

(***************************************************************************)
(* The types of the chat, its log and its snapshots.                       *)
(***************************************************************************)
THEOREM ChatTypeCorrect == Spec => []TypeOK
  BY ChatInvHolds, PTL DEF ChatInv

(***************************************************************************)
(* Whatever is asked, in whatever order requests, answers of tools, failed *)
(* writes and crashes come: a command that runs on the host was allowed by *)
(* a rule, refused by none, and is on the whitelist.                       *)
(***************************************************************************)
THEOREM OnlyVouchedCommandsRun == Spec => []OnlyVouchedRuns
  <1>1. ChatInv => OnlyVouchedRuns
    BY DEF ChatInv, Gated, OnlyVouchedRuns
  <1> QED BY <1>1, ChatInvHolds, PTL

(***************************************************************************)
(* What a guard refuses or looks dangerous reaches neither the host nor    *)
(* the tools.                                                              *)
(***************************************************************************)
THEOREM RefusedRequestsTouchNothing == Spec => []RefusedIsUntouched
  <1>1. ChatInv => RefusedIsUntouched
    BY DEF ChatInv, Gated, RefusedIsUntouched
  <1> QED BY <1>1, ChatInvHolds, PTL

-----------------------------------------------------------------------------
(* Losses *)

(***************************************************************************)
(* Of n events written to a file, b bounds the losses; a file that does    *)
(* not end with a newline will lose what is on its last line to the next   *)
(* append, and that one with it.                                           *)
(***************************************************************************)
Within(f, n, b) ==
  LET lost == n - Cardinality(Legible(f))
  IN  /\ lost <= b
      /\ ~f.ended => lost <= b - 1
      /\ ~f.ended /\ f.lines[Len(f.lines)].legible => lost <= b - 2

LEMMA LegibleIsFinite ==
  ASSUME NEW events, NEW f, IsFileOf(f, events)
  PROVE  /\ Legible(f) \subseteq 1..Len(f.lines) /\ Len(f.lines) \in Nat
         /\ IsFiniteSet(Legible(f)) /\ Cardinality(Legible(f)) \in Nat
  <1>1. Legible(f) \subseteq 1..Len(f.lines) /\ Len(f.lines) \in Nat
    BY LenProperties DEF Legible, IsFileOf
  <1>2. IsFiniteSet(1..Len(f.lines))
    BY <1>1, FS_Interval
  <1> QED BY <1>1, <1>2, FS_Subset, FS_CardinalityType

\* How an append changes the lines that can be read.
LEMMA LegibleAfterPut ==
  ASSUME NEW events, NEW f, IsFileOf(f, events), NEW ended, NEW g,
         NEW line \in [event : events, legible : BOOLEAN], g = Put(f, line, ended)
  PROVE  /\ f.ended /\ line.legible => Cardinality(Legible(g)) = Cardinality(Legible(f)) + 1
         /\ f.ended /\ ~line.legible => /\ Cardinality(Legible(g)) = Cardinality(Legible(f))
                                        /\ ~g.lines[Len(g.lines)].legible
         /\ ~f.ended /\ f.lines[Len(f.lines)].legible =>
              Cardinality(Legible(g)) = Cardinality(Legible(f)) - 1
         /\ ~f.ended /\ ~f.lines[Len(f.lines)].legible =>
              Cardinality(Legible(g)) = Cardinality(Legible(f))
         /\ ~f.ended => ~g.lines[Len(g.lines)].legible
  <1> DEFINE T == [event : events, legible : BOOLEAN]
             n == Len(f.lines)
  <1>1. line \in T
    OBVIOUS
  <1>2. f.lines \in Seq(T) /\ n \in Nat /\ DOMAIN f.lines = 1..n
    BY LenProperties DEF IsFileOf
  <1>3. IsFiniteSet(Legible(f)) /\ Cardinality(Legible(f)) \in Nat
        /\ Legible(f) \subseteq 1..n
    BY LegibleIsFinite
  <1>5. ASSUME f.ended
        PROVE  /\ line.legible => Cardinality(Legible(g)) = Cardinality(Legible(f)) + 1
               /\ ~line.legible => /\ Cardinality(Legible(g)) = Cardinality(Legible(f))
                              /\ ~g.lines[Len(g.lines)].legible
    <2>1. g.lines = Append(f.lines, line)
      BY <1>5 DEF Put
    <2>2. /\ Len(g.lines) = n + 1 /\ DOMAIN g.lines = 1..(n + 1)
          /\ \A k \in 1..n : g.lines[k] = f.lines[k]
          /\ g.lines[n + 1] = line
      BY <1>1, <1>2, <2>1, AppendProperties, LenProperties
    <2>3. Legible(g) = Legible(f) \cup (IF line.legible THEN {n + 1} ELSE {})
      BY <1>1, <1>2, <2>2 DEF Legible
    <2>4. n + 1 \notin Legible(f)
      BY <1>2, <1>3
    <2>5. CASE line.legible
      <3>1. Legible(g) = Legible(f) \cup {n + 1}
        BY <2>3, <2>5
      <3>2. Cardinality(Legible(g)) = Cardinality(Legible(f)) + 1
        BY <1>3, <2>4, <3>1, FS_AddElement
      <3> QED BY <1>1, <2>2, <2>5, <3>2
    <2>6. CASE ~line.legible
      <3>1. Legible(g) = Legible(f)
        BY <2>3, <2>6
      <3> QED BY <1>1, <1>3, <2>2, <2>6, <3>1
    <2> QED BY <2>5, <2>6
  <1>6. ASSUME ~f.ended
        PROVE  /\ f.lines[n].legible => Cardinality(Legible(g)) = Cardinality(Legible(f)) - 1
               /\ ~f.lines[n].legible => Cardinality(Legible(g)) = Cardinality(Legible(f))
               /\ ~g.lines[Len(g.lines)].legible
    <2>1. g.lines = Glued(f.lines)
      BY <1>6 DEF Put
    <2>2. n \in 1..n
      BY <1>1, <1>2, <1>6, SeqOfT DEF IsFileOf
    <2>3. f.lines[n] \in T
      BY <1>2, <2>2, ElementOfSeq
    <2>4. g.lines = [f.lines EXCEPT ![n] = [f.lines[n] EXCEPT !.legible = FALSE]]
      BY <2>1 DEF Glued
    <2>5. /\ Len(g.lines) = n /\ DOMAIN g.lines = 1..n
          /\ \A k \in 1..n : k # n => g.lines[k] = f.lines[k]
          /\ ~g.lines[n].legible
      <3>1. [f.lines[n] EXCEPT !.legible = FALSE] \in T
        BY <2>3
      <3>2. [f.lines[n] EXCEPT !.legible = FALSE].legible = FALSE
        BY <2>3
      <3>3. g.lines \in Seq(T) /\ Len(g.lines) = n
        BY <1>2, <2>2, <2>4, <3>1, ExceptSeq
      <3>4. \A k \in 1..n : g.lines[k] =
                 IF k = n THEN [f.lines[n] EXCEPT !.legible = FALSE] ELSE f.lines[k]
        BY <1>2, <2>4
      <3> QED BY <2>2, <3>2, <3>3, <3>4, LenProperties
    <2>6. Legible(g) = Legible(f) \ {n}
      BY <1>2, <2>5 DEF Legible
    <2>7. n \in Legible(f) <=> f.lines[n].legible
      BY <1>2, <2>2 DEF Legible
    <2>8. CASE f.lines[n].legible
      <3>1. Cardinality(Legible(g)) = Cardinality(Legible(f)) - 1
        BY <1>3, <2>6, <2>7, <2>8, FS_RemoveElement
      <3> QED BY <2>5, <2>8, <3>1
    <2>9. CASE ~f.lines[n].legible
      <3>1. Legible(g) = Legible(f)
        BY <2>6, <2>7, <2>9
      <3> QED BY <1>3, <2>5, <2>9, <3>1
    <2> QED BY <2>8, <2>9
  <1> QED BY <1>5, <1>6

LEMMA WrittenIsWithin ==
  ASSUME NEW events, NEW f, IsFileOf(f, events), NEW event \in events,
         NEW n \in Nat, NEW b \in Nat, Within(f, n, b)
  PROVE  Within(Written(f, event), n + 1, b)
  <1>1. PICK g, line, ended :
          g = Put(f, line, ended) /\ line = Line(event, TRUE) /\ ended = TRUE
    OBVIOUS
  <1>2. Cardinality(Legible(f)) \in Nat
    BY LegibleIsFinite
  <1>3. /\ f.ended => Cardinality(Legible(g)) = Cardinality(Legible(f)) + 1
        /\ ~f.ended /\ f.lines[Len(f.lines)].legible =>
             Cardinality(Legible(g)) = Cardinality(Legible(f)) - 1
        /\ ~f.ended /\ ~f.lines[Len(f.lines)].legible =>
             Cardinality(Legible(g)) = Cardinality(Legible(f))
    <2>1. line \in [event : events, legible : BOOLEAN] /\ line.legible
      BY <1>1 DEF Line
    <2>2. g = Put(f, line, ended)
      BY <1>1
    <2>3. f.ended /\ line.legible => Cardinality(Legible(g)) = Cardinality(Legible(f)) + 1
      BY <2>1, <2>2, LegibleAfterPut
    <2>4. /\ ~f.ended /\ f.lines[Len(f.lines)].legible =>
               Cardinality(Legible(g)) = Cardinality(Legible(f)) - 1
          /\ ~f.ended /\ ~f.lines[Len(f.lines)].legible =>
               Cardinality(Legible(g)) = Cardinality(Legible(f))
      BY <2>1, <2>2, LegibleAfterPut
    <2> QED BY <2>1, <2>3, <2>4
  <1>4. g.ended
    BY <1>1 DEF Put
  <1>5. Within(g, n + 1, b)
    BY <1>2, <1>3, <1>4 DEF Within
  <1> QED BY <1>1, <1>5 DEF Written

\* A write that is cut short costs its own event and perhaps a neighbour.
LEMMA CutIsWithin ==
  ASSUME NEW events, NEW f, IsFileOf(f, events),
         NEW n \in Nat, NEW b \in Nat, Within(f, n, b),
         NEW line \in [event : events, legible : BOOLEAN]
  PROVE  Within(Put(f, line, FALSE), n + 1, b + 2)
  <1>1. PICK g, ended : g = Put(f, line, ended) /\ ended = FALSE
    OBVIOUS
  <1>2. Cardinality(Legible(f)) \in Nat
    BY LegibleIsFinite
  <1>3. /\ f.ended /\ line.legible => Cardinality(Legible(g)) = Cardinality(Legible(f)) + 1
        /\ f.ended /\ ~line.legible => /\ Cardinality(Legible(g)) = Cardinality(Legible(f))
                                       /\ ~g.lines[Len(g.lines)].legible
        /\ ~f.ended /\ f.lines[Len(f.lines)].legible =>
             Cardinality(Legible(g)) = Cardinality(Legible(f)) - 1
        /\ ~f.ended /\ ~f.lines[Len(f.lines)].legible =>
             Cardinality(Legible(g)) = Cardinality(Legible(f))
        /\ ~f.ended => ~g.lines[Len(g.lines)].legible
    BY <1>1, LegibleAfterPut
  <1>4. Within(g, n + 1, b + 2)
    BY <1>2, <1>3 DEF Within
  <1> QED BY <1>1, <1>4

LEMMA DamagedIsWithin ==
  ASSUME NEW events, NEW f, IsFileOf(f, events), NEW event \in events,
         NEW n \in Nat, NEW b \in Nat, Within(f, n, b), NEW g \in Damaged(f, event)
  PROVE  Within(g, n + 1, b + 2)
  <1>1. CASE g = f
    <2>1. Cardinality(Legible(f)) \in Nat
      BY LegibleIsFinite
    <2> QED BY <1>1, <2>1 DEF Within
  <1>2. CASE g = Put(f, Line(event, TRUE), FALSE)
    <2>1. Line(event, TRUE) \in [event : events, legible : BOOLEAN]
      BY DEF Line
    <2> QED BY <1>2, <2>1, CutIsWithin
  <1>3. Within(Cut(f, event), n + 1, b + 2)
    <2>1. Line(event, FALSE) \in [event : events, legible : BOOLEAN]
      BY DEF Line
    <2> QED BY <2>1, CutIsWithin DEF Cut
  <1>4. CASE g = CutInCharacter(f, event)
    <2>1. IsFileOf(Cut(f, event), events)
      BY WritesKeepFile DEF Damaged
    <2>2. g.lines = Cut(f, event).lines /\ g.ended = Cut(f, event).ended
      BY <1>4, <2>1 DEF CutInCharacter, IsFileOf
    <2> QED BY <1>3, <2>2 DEF Within, Legible
  <1> QED BY <1>1, <1>2, <1>3, <1>4 DEF Damaged

LossInv == Within(file, emitted, 2 * (faults + crashes))

(***************************************************************************)
(* However many writes fail and however often the process dies, each time  *)
(* costs the log at most two events.                                       *)
(***************************************************************************)
THEOREM LossesAreBounded == Spec => []LossIsBounded
  <1>1. Init => LossInv
    <2> SUFFICES ASSUME Init PROVE LossInv
      OBVIOUS
    <2>1. file.ended /\ emitted = 0 /\ faults = 0 /\ crashes = 0
      BY DEF Init, EmptyFile
    <2>2. Legible(file) = {}
      BY EmptySeq, LenProperties DEF Init, EmptyFile, Legible
    <2>3. Cardinality(Legible(file)) = 0
      BY <2>2, FS_EmptySet
    <2> QED BY <2>1, <2>3 DEF LossInv, Within
  <1>2. ChatInv /\ LossInv /\ [Next]_vars => LossInv'
    <2> SUFFICES ASSUME ChatInv, LossInv, [Next]_vars
                 PROVE  LossInv'
      OBVIOUS
    <2> DEFINE b == 2 * (faults + crashes)
    <2>1. /\ IsFileOf(file, Event) /\ emitted \in Nat /\ b \in Nat
          /\ faults \in Nat /\ crashes \in Nat
      BY BoundsAssumption DEF ChatInv, TypeOK
    <2>2. ASSUME NEW r \in Request, Emit(r)
          PROVE  LossInv'
      <3>1. EventOf(r) \in Event
        BY <2>2, StagesAreKnown DEF Emit, ChatInv
      <3>2. CASE file' = Written(file, EventOf(r)) /\ UNCHANGED faults
        <4>1. Within(file', emitted + 1, b)
          BY <2>1, <3>1, <3>2, WrittenIsWithin DEF LossInv
        <4> QED BY <2>2, <3>2, <4>1 DEF Emit, LossInv
      <3>3. CASE file' \in Damaged(file, EventOf(r)) /\ faults' = faults + 1
        <4>1. Within(file', emitted + 1, b + 2)
          BY <2>1, <3>1, <3>3, DamagedIsWithin DEF LossInv
        <4>2. b + 2 = 2 * (faults' + crashes')
          BY <2>1, <2>2, <3>3 DEF Emit
        <4> QED BY <2>2, <4>1, <4>2 DEF Emit, LossInv
      <3> QED BY <2>2, <3>2, <3>3 DEF Emit, Appended
    <2>3. ASSUME Crash
          PROVE  LossInv'
      <3>1. b + 2 = 2 * (faults' + crashes')
        BY <2>1, <2>3 DEF Crash
      <3>2. CASE loop # None /\ pc[loop] \in Emitting /\ emitted' = emitted + 1
                 /\ file' \in Damaged(file, EventOf(loop))
        <4>1. EventOf(loop) \in Event
          BY <3>2, StagesAreKnown DEF ChatInv, TypeOK
        <4>2. Within(file', emitted + 1, b + 2)
          BY <2>1, <3>2, <4>1, DamagedIsWithin DEF LossInv
        <4> QED BY <3>1, <3>2, <4>2 DEF LossInv
      <3>3. CASE UNCHANGED <<file, emitted>>
        <4>1. Cardinality(Legible(file)) \in Nat
          BY <2>1, LegibleIsFinite
        <4>2. Within(file, emitted, b + 2)
          BY <2>1, <4>1 DEF LossInv, Within
        <4> QED BY <3>1, <3>3, <4>2 DEF LossInv
      <3> QED BY <2>3, <3>2, <3>3 DEF Crash
    <2>4. CASE UNCHANGED <<file, emitted>> /\ crashes' = crashes /\ faults' \in {faults, faults + 1}
      <3>1. Cardinality(Legible(file)) \in Nat
        BY <2>1, LegibleIsFinite
      <3>2. Within(file, emitted, 2 * (faults' + crashes'))
        BY <2>1, <2>4, <3>1 DEF LossInv, Within
      <3> QED BY <2>4, <3>2 DEF LossInv
    <2>5. ASSUME NEW r \in Request,
                 Receive(r) \/ CallTool(r) \/ ToolReturns(r) \/ Execute(r) \/ Answer(r)
          PROVE  UNCHANGED <<file, emitted>> /\ crashes' = crashes
                 /\ faults' \in {faults, faults + 1}
      BY <2>5 DEF Receive, CallTool, ToolReturns, Execute, Answer, Recorded, history
    <2>6. CASE UNCHANGED vars
      BY <2>4, <2>6 DEF vars, history
    <2> QED BY <2>2, <2>3, <2>4, <2>5, <2>6 DEF Next, Step
  <1>3. LossInv => LossIsBounded
    BY DEF LossInv, Within, LossIsBounded
  <1> QED BY <1>1, <1>2, <1>3, ChatInvHolds, PTL DEF Spec

-----------------------------------------------------------------------------
(* What the log keeps for good *)

\* A legible line for one of the events, where no later append can reach it.
Durable(f, ofInterest) ==
  \E k \in Legible(f) : /\ f.lines[k].event \in ofInterest
                        /\ k < Len(f.lines) \/ f.ended

LEMMA PutKeepsDurable ==
  ASSUME NEW events, NEW f, IsFileOf(f, events), NEW E, Durable(f, E),
         NEW line \in [event : events, legible : BOOLEAN], NEW ended
  PROVE  Durable(Put(f, line, ended), E)
  <1> DEFINE T == [event : events, legible : BOOLEAN]
             n == Len(f.lines)
  <1>1. PICK g : g = Put(f, line, ended)
    OBVIOUS
  <1>2. f.lines \in Seq(T) /\ n \in Nat /\ DOMAIN f.lines = 1..n
    BY LenProperties DEF IsFileOf
  <1>3. PICK k \in 1..n : /\ f.lines[k].legible /\ f.lines[k].event \in E
                          /\ k < n \/ f.ended
    BY <1>2 DEF Durable, Legible
  <1>4. Len(g.lines) \in Nat /\ DOMAIN g.lines = 1..Len(g.lines)
        /\ k < Len(g.lines) /\ g.lines[k] = f.lines[k]
    <2>1. CASE f.ended
      <3>1. g.lines = Append(f.lines, line)
        BY <1>1, <2>1 DEF Put
      <3> QED BY <1>2, <1>3, <3>1, AppendProperties, LenProperties
    <2>2. CASE ~f.ended /\ k < n
      <3>1. g.lines = Glued(f.lines)
        BY <1>1, <2>2 DEF Put
      <3> QED BY <1>2, <2>2, <3>1 DEF Glued
    <2> QED BY <1>3, <2>1, <2>2
  <1>5. k \in Legible(g)
    BY <1>3, <1>4 DEF Legible
  <1> QED BY <1>1, <1>3, <1>4, <1>5 DEF Durable

LEMMA WritesKeepDurable ==
  ASSUME NEW events, NEW f, IsFileOf(f, events), NEW E, Durable(f, E),
         NEW event \in events
  PROVE  /\ Durable(Written(f, event), E)
         /\ \A g \in Damaged(f, event) : Durable(g, E)
  <1>1. /\ Line(event, TRUE) \in [event : events, legible : BOOLEAN]
        /\ Line(event, FALSE) \in [event : events, legible : BOOLEAN]
    BY DEF Line
  <1>2. Durable(Written(f, event), E)
    BY <1>1, PutKeepsDurable DEF Written
  <1>3. Durable(Put(f, Line(event, TRUE), FALSE), E)
    BY <1>1, PutKeepsDurable
  <1>4. Durable(Cut(f, event), E)
    BY <1>1, PutKeepsDurable DEF Cut
  <1>5. ASSUME NEW g, g = CutInCharacter(f, event)
        PROVE  Durable(g, E)
    <2>1. IsFileOf(Cut(f, event), events)
      BY WritesKeepFile DEF Damaged
    <2>2. g.lines = Cut(f, event).lines /\ g.ended = Cut(f, event).ended
      BY <1>5, <2>1 DEF CutInCharacter, IsFileOf
    <2> QED BY <1>4, <2>2 DEF Durable, Legible
  <1> QED BY <1>2, <1>3, <1>4, <1>5 DEF Damaged

\* An event that is written on a file that ends with a newline stays.
LEMMA WrittenIsDurable ==
  ASSUME NEW events, NEW f, IsFileOf(f, events), f.ended,
         NEW event \in events, NEW E, event \in E
  PROVE  Durable(Written(f, event), E)
  <1> DEFINE T == [event : events, legible : BOOLEAN]
             n == Len(f.lines)
  <1>1. PICK g : g = Written(f, event)
    OBVIOUS
  <1>2. PICK line : line = Line(event, TRUE)
    OBVIOUS
  <1>3. line \in T /\ line.legible /\ line.event = event
    BY <1>2 DEF Line
  <1>4. f.lines \in Seq(T) /\ n \in Nat
    BY LenProperties DEF IsFileOf
  <1>5. g.lines = Append(f.lines, line) /\ g.ended
    BY <1>1, <1>2 DEF Written, Put
  <1>6. n + 1 \in DOMAIN g.lines /\ g.lines[n + 1] = line
    BY <1>3, <1>4, <1>5, AppendProperties, LenProperties
  <1>7. n + 1 \in Legible(g)
    BY <1>3, <1>6 DEF Legible
  <1> QED BY <1>1, <1>3, <1>5, <1>6, <1>7 DEF Durable

-----------------------------------------------------------------------------
(* Authorisations *)

Authorisation(r) == {e \in Event : e.request = r /\ e.stage = "VALIDATED"}

LEMMA RunsAreAllowed ==
  ASSUME NEW i \in Instruction, NEW enabled \in BOOLEAN,
         NEW e \in MaybeExecute(i, enabled), e.ran
  PROVE  Validate(i) = "ALLOW"
  <1>1. Validate(i) \in {"ALLOW", "BLOCK", "REQUIRE_APPROVAL"}
    BY DEF Validate
  <1> QED BY <1>1 DEF MaybeExecute, Refused

(***************************************************************************)
(* While no write has failed: an unfinished line is what a crash left, and *)
(* the first line after it is the receipt of a request; what is about to   *)
(* run, or ran, has its authorisation in the file for good.                *)
(***************************************************************************)
Fresh ==
  faults = 0 /\ ~file.ended =>
    \A r \in Request : pc[r] \in {"idle", "REQUEST_RECEIVED", "answered", "lost"}

Authorised ==
  faults = 0 =>
    \A r \in Request :
      (pc[r] = "execute" /\ Validate(instruction[r]) = "ALLOW") \/ ran[r] => Durable(file, Authorisation(r))

LEMMA FreshIsKept ==
  ASSUME ChatInv, Fresh, [Next]_vars
  PROVE  Fresh'
  <1> USE DEF ChatInv
  <1>0. faults \in Nat
    BY BoundsAssumption DEF TypeOK
  <1>1. ASSUME NEW r \in Request, Emit(r)
        PROVE  Fresh'
    <2>1. CASE file' = Written(file, EventOf(r))
      BY <2>1 DEF Written, Put, Fresh
    <2>2. CASE faults' = faults + 1
      BY <1>0, <2>2 DEF Fresh
    <2> QED BY <1>1, <2>1, <2>2 DEF Emit, Appended
  <1>2. ASSUME Crash
        PROVE  Fresh'
    <2>1. \A r \in Request : pc'[r] \in {"idle", "answered", "lost"}
      BY <1>2 DEF Crash, TypeOK
    <2> QED BY <2>1 DEF Fresh
  <1>3. ASSUME NEW r \in Request, Receive(r)
        PROVE  Fresh'
    BY <1>3 DEF Receive, Fresh, TypeOK
  <1>4. ASSUME NEW r \in Request, CallTool(r) \/ ToolReturns(r) \/ Execute(r)
        PROVE  Fresh'
    <2>1. /\ pc[r] \in {"collect", "awaiting", "execute"}
          /\ UNCHANGED <<file, faults>>
      BY <1>4 DEF CallTool, ToolReturns, Execute
    <2> QED BY <2>1 DEF Fresh
  <1>5. ASSUME NEW r \in Request, Answer(r)
        PROVE  Fresh'
    <2>1. /\ UNCHANGED file
          /\ faults' = 0 => faults = 0
          /\ \A q \in Request : pc'[q] \in {pc[q], "answered"}
      BY <1>0, <1>5 DEF Answer, Recorded, TypeOK
    <2> QED BY <2>1 DEF Fresh
  <1>6. CASE UNCHANGED vars
    BY <1>6 DEF vars, chat, Fresh
  <1> QED BY <1>1, <1>2, <1>3, <1>4, <1>5, <1>6 DEF Next, Step

LEMMA AuthorisedIsKept ==
  ASSUME ChatInv, Fresh, Authorised, [Next]_vars
  PROVE  Authorised'
  <1> USE DEF ChatInv
  <1>0. faults \in Nat /\ IsFileOf(file, Event)
    BY BoundsAssumption DEF TypeOK
  <1>1. ASSUME NEW r \in Request, Emit(r)
        PROVE  Authorised'
    <2>1. SUFFICES ASSUME faults' = 0, NEW q \in Request,
                          (pc'[q] = "execute" /\ Validate(instruction'[q]) = "ALLOW") \/ ran'[q]
                   PROVE  Durable(file', Authorisation(q))
      BY DEF Authorised
    <2>2. file' = Written(file, EventOf(r)) /\ faults = 0
      BY <1>0, <1>1, <2>1 DEF Emit, Appended
    <2>3. EventOf(r) \in Event
      BY <1>1, StagesAreKnown DEF Emit
    <2>4. CASE (pc[q] = "execute" /\ Validate(instruction[q]) = "ALLOW") \/ ran[q]
      <3>1. Durable(file, Authorisation(q))
        BY <2>2, <2>4 DEF Authorised
      <3> QED BY <1>0, <2>2, <2>3, <3>1, WritesKeepDurable
    <2>5. CASE ~((pc[q] = "execute" /\ Validate(instruction[q]) = "ALLOW") \/ ran[q])
      <3>1. q = r /\ NextStage(r) = "execute" /\ Validate(instruction[r]) = "ALLOW"
        BY <1>1, <2>1, <2>5 DEF Emit, TypeOK
      <3>2. AfterReceipt(instruction[r]) # "execute"
        BY DEF AfterReceipt, Collecting
      <3>3. pc[r] = "validate"
        BY <1>1, <3>1, <3>2 DEF NextStage, Emit, Emitting, Guarded
      <3>4. EventOf(r).stage = "VALIDATED" /\ EventOf(r).request = r
        BY <3>1, <3>3 DEF EventOf, StageOf, ValidatorStage
      <3>5. file.ended
        BY <2>2, <3>3 DEF Fresh
      <3>6. EventOf(r) \in Authorisation(q)
        BY <2>3, <3>1, <3>4 DEF Authorisation
      <3> QED BY <1>0, <2>2, <2>3, <3>5, <3>6, WrittenIsDurable
    <2> QED BY <2>4, <2>5
  <1>2. ASSUME Crash
        PROVE  Authorised'
    <2>1. SUFFICES ASSUME faults' = 0, NEW q \in Request,
                          (pc'[q] = "execute" /\ Validate(instruction'[q]) = "ALLOW") \/ ran'[q]
                   PROVE  Durable(file', Authorisation(q))
      BY DEF Authorised
    <2>2. pc'[q] # "execute"
      BY <1>2 DEF Crash, Busy
    <2>3. Durable(file, Authorisation(q))
      BY <1>2, <2>1, <2>2 DEF Crash, Authorised
    <2>4. CASE UNCHANGED file
      BY <2>3, <2>4
    <2>5. CASE loop # None /\ pc[loop] \in Emitting /\ file' \in Damaged(file, EventOf(loop))
      <3>1. EventOf(loop) \in Event
        BY <2>5, StagesAreKnown DEF TypeOK
      <3> QED BY <1>0, <2>3, <2>5, <3>1, WritesKeepDurable
    <2> QED BY <1>2, <2>4, <2>5 DEF Crash
  <1>3. ASSUME NEW r \in Request, Execute(r)
        PROVE  Authorised'
    <2>1. PICK e \in MaybeExecute(instruction[r], ExecutorEnabled) :
            ran' = [ran EXCEPT ![r] = e.ran]
      BY <1>3 DEF Execute
    <2>2. e.ran => Validate(instruction[r]) = "ALLOW"
      BY <2>1, RunsAreAllowed, EnabledAssumption DEF TypeOK
    <2> QED BY <1>3, <2>1, <2>2 DEF Execute, Authorised, TypeOK
  <1>4. ASSUME NEW r \in Request, Receive(r) \/ CallTool(r) \/ ToolReturns(r) \/ Answer(r)
        PROVE  Authorised'
    <2>1. /\ UNCHANGED <<instruction, file, ran>>
          /\ faults' = 0 => faults = 0
      BY <1>0, <1>4 DEF Receive, CallTool, ToolReturns, Answer, Recorded, history
    <2>2. \A q \in Request : pc'[q] = "execute" => pc[q] = "execute"
      BY <1>4 DEF Receive, CallTool, ToolReturns, Collecting, Answer, TypeOK
    <2> QED BY <2>1, <2>2 DEF Authorised
  <1>5. CASE UNCHANGED vars
    BY <1>5 DEF vars, chat, history, Authorised
  <1> QED BY <1>1, <1>2, <1>3, <1>4, <1>5 DEF Next, Step

(***************************************************************************)
(* However often the process crashes: as long as no write fails, a command *)
(* that ran on the host has its authorisation in the audit log.            *)
(***************************************************************************)
THEOREM AuthorisationsAreOnRecord == Spec => []AuthorisedOnRecord
  <1>1. Init => Fresh /\ Authorised
    BY DEF Init, EmptyFile, Fresh, Authorised
  <1>2. ChatInv /\ Fresh /\ Authorised /\ [Next]_vars => Fresh' /\ Authorised'
    BY FreshIsKept, AuthorisedIsKept
  <1>3. Authorised => AuthorisedOnRecord
    BY DEF Authorised, Durable, Authorisation, LinesOf, AuthorisedOnRecord
  <1> QED BY <1>1, <1>2, <1>3, ChatInvHolds, PTL DEF Spec

-----------------------------------------------------------------------------
(* Endings *)

\* A command that ran is being reported, or was.
Afterwards == {"report", "EXECUTION_SKIPPED", "COMPLETED", "record", "answered", "lost"}

\* The events that say how the command of r ended.
Ending(r) == {e \in Event : e.request = r /\ e.executor = outcome[r]}

(***************************************************************************)
(* The event that reports a command is in the log for good before the      *)
(* snapshot is written, unless a write failed by then; so a single failure *)
(* spares one of the two.                                                  *)
(***************************************************************************)
Told ==
  \A r \in Request :
    ran[r] =>
      /\ pc[r] \in Afterwards
      /\ pc[r] \in {"EXECUTION_SKIPPED", "COMPLETED", "record"} /\ faults = 0 =>
           Durable(file, Ending(r))
      /\ pc[r] = "answered" /\ faults <= 1 =>
           snapshot[r] = "whole" \/ Durable(file, Ending(r))

LEMMA ToldIsKept ==
  ASSUME ChatInv, Fresh, Told, [Next]_vars
  PROVE  Told'
  <1> USE DEF ChatInv
  <1>0. faults \in Nat /\ IsFileOf(file, Event)
    BY BoundsAssumption DEF TypeOK
  <1>1. ASSUME NEW r \in Request, Emit(r)
        PROVE  Told'
    <2>1. EventOf(r) \in Event
      BY <1>1, StagesAreKnown DEF Emit
    <2>2. \/ file' = Written(file, EventOf(r)) /\ faults' = faults
          \/ file' \in Damaged(file, EventOf(r)) /\ faults' = faults + 1
      BY <1>1 DEF Emit, Appended
    <2>3. ASSUME NEW E, Durable(file, E)
          PROVE  Durable(file', E)
      BY <1>0, <2>1, <2>2, <2>3, WritesKeepDurable
    <2>4. SUFFICES ASSUME NEW q \in Request, ran[q]
                   PROVE  /\ pc'[q] \in Afterwards
                          /\ pc'[q] \in {"EXECUTION_SKIPPED", "COMPLETED", "record"} /\ faults' = 0 =>
                               Durable(file', Ending(q)')
                          /\ pc'[q] = "answered" /\ faults' <= 1 =>
                               snapshot'[q] = "whole" \/ Durable(file', Ending(q)')
      BY <1>1 DEF Told, Emit
    <2>5. outcome'[q] = outcome[q]
      BY <1>1, <2>4 DEF Told, Afterwards, Emit, OutcomeAfter, Guarded, TypeOK
    <2>6. Ending(q)' = Ending(q)
      BY <2>5 DEF Ending
    <2>7. CASE q # r
      <3>1. pc'[q] = pc[q] /\ snapshot' = snapshot /\ faults <= faults'
        BY <1>0, <1>1, <2>2, <2>7 DEF Emit, TypeOK
      <3> QED BY <1>0, <2>2, <2>3, <2>4, <2>6, <3>1 DEF Told
    <2>8. CASE q = r
      <3>1. /\ pc[r] \in {"report", "EXECUTION_SKIPPED", "COMPLETED"}
            /\ pc'[r] \in {"EXECUTION_SKIPPED", "COMPLETED", "record"}
        BY <1>1, <2>4, <2>8 DEF Told, Afterwards, Emit, Emitting, Guarded, NextStage, TypeOK
      <3>2. CASE faults' = 0
        <4>1. file' = Written(file, EventOf(r)) /\ faults = 0
          BY <1>0, <2>2, <3>2
        <4>2. file.ended
          BY <3>1, <4>1 DEF Fresh
        <4>3. EventOf(r) \in Ending(r)
          BY <2>1 DEF EventOf, Ending
        <4>4. Durable(file', Ending(r))
          BY <1>0, <2>1, <4>1, <4>2, <4>3, WrittenIsDurable
        <4> QED BY <2>6, <2>8, <3>1, <4>4 DEF Afterwards
      <3> QED BY <2>8, <3>1, <3>2 DEF Afterwards
    <2> QED BY <2>7, <2>8
  <1>2. ASSUME Crash
        PROVE  Told'
    <2>1. ASSUME NEW E, Durable(file, E)
          PROVE  Durable(file', E)
      <3>1. CASE loop # None /\ pc[loop] \in Emitting /\ file' \in Damaged(file, EventOf(loop))
        <4>1. EventOf(loop) \in Event
          BY <3>1, StagesAreKnown DEF TypeOK
        <4> QED BY <1>0, <2>1, <3>1, <4>1, WritesKeepDurable
      <3> QED BY <1>2, <2>1, <3>1 DEF Crash
    <2>2. ASSUME NEW q \in Request, ran[q]
          PROVE  /\ pc'[q] \in {"answered", "lost"}
                 /\ pc'[q] = "answered" => pc[q] = "answered" /\ snapshot'[q] = snapshot[q]
                 /\ Ending(q)' = Ending(q)
      <3>1. pc[q] \in Busy \cup {"answered", "lost"}
        BY <2>2 DEF Told, Afterwards, Busy, Emitting
      <3>2. pc'[q] = IF pc[q] \in Busy THEN "lost" ELSE pc[q]
        BY <1>2 DEF Crash
      <3>3. pc[q] = "answered" => snapshot'[q] = snapshot[q]
        BY <1>2 DEF Crash, TypeOK
      <3> QED BY <1>2, <3>1, <3>2, <3>3 DEF Crash, Ending
    <2> QED BY <1>2, <2>1, <2>2 DEF Crash, Told, Afterwards
  <1>3. ASSUME NEW r \in Request, Execute(r)
        PROVE  Told'
    <2>1. /\ UNCHANGED <<file, snapshot, faults>>
          /\ pc'[r] = "report"
          /\ \A q \in Request \ {r} : pc'[q] = pc[q] /\ outcome'[q] = outcome[q] /\ ran'[q] = ran[q]
      BY <1>3 DEF Execute, TypeOK
    <2>2. \A q \in Request \ {r} : Ending(q)' = Ending(q)
      BY <2>1 DEF Ending
    <2> QED BY <2>1, <2>2 DEF Told, Afterwards
  <1>4. ASSUME NEW r \in Request, Receive(r) \/ CallTool(r) \/ ToolReturns(r)
        PROVE  Told'
    <2>1. /\ pc[r] \notin Afterwards
          /\ \A q \in Request \ {r} : pc'[q] = pc[q]
          /\ UNCHANGED <<outcome, file, snapshot, ran, faults>>
      BY <1>4 DEF Receive, CallTool, ToolReturns, Afterwards, history, TypeOK
    <2>2. \A q \in Request : Ending(q)' = Ending(q)
      BY <2>1 DEF Ending
    <2> QED BY <2>1, <2>2 DEF Told
  <1>5. ASSUME NEW r \in Request, Answer(r)
        PROVE  Told'
    <2>1. /\ pc[r] = "record" /\ pc'[r] = "answered"
          /\ \A q \in Request \ {r} : pc'[q] = pc[q] /\ snapshot'[q] = snapshot[q]
          /\ UNCHANGED <<outcome, file, ran>>
          /\ (snapshot'[r] = "whole" /\ faults' = faults) \/ faults' = faults + 1
      BY <1>5 DEF Answer, Recorded, history, TypeOK
    <2>2. \A q \in Request : Ending(q)' = Ending(q)
      BY <2>1 DEF Ending
    <2>3. /\ faults' = 0 => faults = 0
          /\ faults' <= 1 => faults <= 1 /\ (snapshot'[r] = "whole" \/ faults = 0)
      BY <1>0, <2>1
    <2> QED BY <2>1, <2>2, <2>3 DEF Told, Afterwards
  <1>6. CASE UNCHANGED vars
    BY <1>6 DEF vars, chat, history, Told, Ending
  <1> QED BY <1>1, <1>2, <1>3, <1>4, <1>5, <1>6 DEF Next, Step

(***************************************************************************)
(* How a command that ran on the host ended stays on record, in the audit  *)
(* log or in the snapshot, through any number of crashes and one failed    *)
(* write, whichever of the writes it is.                                   *)
(***************************************************************************)
THEOREM OutcomesAreOnRecord == Spec => []OutcomeOnRecord
  <1>1. Init => Fresh /\ Told
    BY DEF Init, EmptyFile, Fresh, Told
  <1>2. ChatInv /\ Fresh /\ Told /\ [Next]_vars => Fresh' /\ Told'
    BY FreshIsKept, ToldIsKept
  <1>3. Told => OutcomeOnRecord
    BY DEF Told, Durable, Ending, LinesOf, OutcomeOnRecord
  <1> QED BY <1>1, <1>2, <1>3, ChatInvHolds, PTL DEF Spec

-----------------------------------------------------------------------------
(* Termination *)

\* How many steps of the coroutine are still to come, at most.
StepsLeft(r) ==
  CASE pc[r] = "idle"                     -> 13
    [] pc[r] = "REQUEST_RECEIVED"         -> 8 + 2 * calls[r]
    [] pc[r] = "awaiting"                 -> 7 + 2 * calls[r]
    [] pc[r] = "collect"                  -> 6 + 2 * calls[r]
    [] pc[r] = "DANGEROUS_INTENT_DETECTED" -> 7
    [] pc[r] = "validate"                 -> 6
    [] pc[r] = "execute"                  -> 5
    [] pc[r] = "report"                   -> 4
    [] pc[r] \in Guarded \cup {"EXECUTION_SKIPPED"} -> 3
    [] pc[r] = "COMPLETED"                -> 2
    [] pc[r] = "record"                   -> 1
    [] pc[r] \in {"answered", "lost"}     -> 0

LEMMA StepsLeftIsNat ==
  ASSUME TypeOK, NEW r \in Request
  PROVE  StepsLeft(r) \in 0 .. 13
<1>1. /\ pc[r] \in Busy \cup {"idle", "answered", "lost"}
      /\ calls[r] \in 0 .. 2
  BY DEF TypeOK
<1> QED
  BY <1>1 DEF StepsLeft, Busy, Emitting, Guarded

LEMMA StepsLeftFall ==
  ASSUME ChatInv, ChatInv', NEW r \in Request, Receive(r) \/ Step(r)
  PROVE  StepsLeft(r)' < StepsLeft(r)
<1> USE DEF ChatInv
<1>1. calls[r] \in 0 .. 2 /\ calls'[r] \in 0 .. 2
  BY DEF TypeOK
<1>2. CASE Receive(r)
  <2>1. pc[r] = "idle" /\ pc'[r] = "REQUEST_RECEIVED"
    BY <1>2 DEF Receive, TypeOK
  <2> QED
    BY <1>1, <2>1 DEF StepsLeft, Guarded
<1>3. CASE Emit(r)
  <2>1. pc[r] \in Emitting /\ pc'[r] = NextStage(r) /\ calls'[r] = calls[r]
    BY <1>3 DEF Emit, TypeOK
  <2>2. CASE pc[r] = "REQUEST_RECEIVED"
    <3>1. pc'[r] \in Guarded \cup {"DANGEROUS_INTENT_DETECTED", "validate", "collect"}
      BY <2>1, <2>2 DEF NextStage, AfterReceipt, Collecting, Guarded
    <3> QED
      BY <1>1, <2>1, <2>2, <3>1 DEF StepsLeft, Guarded
  <2>3. CASE pc[r] # "REQUEST_RECEIVED"
    BY <1>1, <2>1, <2>3 DEF NextStage, StepsLeft, Emitting, Guarded
  <2> QED
    BY <2>2, <2>3
<1>4. CASE CallTool(r)
  <2>1. pc[r] = "collect" /\ pc'[r] = "awaiting" /\ calls'[r] = calls[r] - 1
    BY <1>4 DEF CallTool, TypeOK
  <2> QED
    BY <1>1, <2>1 DEF StepsLeft, Guarded
<1>5. CASE ToolReturns(r)
  <2>1. pc[r] = "awaiting" /\ pc'[r] \in {"validate", "collect"} /\ calls'[r] = calls[r]
    BY <1>5 DEF ToolReturns, Collecting, TypeOK
  <2> QED
    BY <1>1, <2>1 DEF StepsLeft, Guarded
<1>6. CASE Execute(r)
  <2>1. pc[r] = "execute" /\ pc'[r] = "report"
    BY <1>6 DEF Execute, TypeOK
  <2> QED
    BY <2>1 DEF StepsLeft, Guarded
<1>7. CASE Answer(r)
  <2>1. pc[r] = "record" /\ pc'[r] = "answered"
    BY <1>7 DEF Answer, TypeOK
  <2> QED
    BY <2>1 DEF StepsLeft, Guarded
<1> QED
  BY <1>2, <1>3, <1>4, <1>5, <1>6, <1>7 DEF Step

Nearer ==
  /\ \A r \in Request : StepsLeft(r) <= 13 /\ StepsLeft(r)' \in 0 .. StepsLeft(r)
  /\ crashes' = crashes => \E r \in Request : StepsLeft(r)' < StepsLeft(r)

(***************************************************************************)
(* Whatever is asked, and however requests interleave, fail and crash:     *)
(* each step brings a request nearer to its answer and sets none back, and *)
(* none has more than thirteen to go. A crash ends what it hits.           *)
(***************************************************************************)
THEOREM ChatsRunOut == Spec => [][Nearer]_vars
<1>1. ChatInv /\ ChatInv' /\ [Next]_vars => [Nearer]_vars
  <2> SUFFICES ASSUME ChatInv, ChatInv', Next
               PROVE  Nearer
    OBVIOUS
  <2>1. \A r \in Request : StepsLeft(r) \in 0 .. 13
    BY StepsLeftIsNat DEF ChatInv
  <2>2. \A r \in Request : StepsLeft(r)' \in 0 .. 13
    <3> SUFFICES ASSUME NEW r \in Request PROVE StepsLeft(r)' \in 0 .. 13
      OBVIOUS
    <3>1. /\ pc'[r] \in Busy \cup {"idle", "answered", "lost"}
          /\ calls'[r] \in 0 .. 2
      BY DEF ChatInv, TypeOK
    <3> QED
      BY <3>1 DEF StepsLeft, Busy, Emitting, Guarded
  <2>3. CASE Crash
    <3>1. \A r \in Request : /\ pc'[r] = IF pc[r] \in Busy THEN "lost" ELSE pc[r]
                             /\ calls' = calls
      BY <2>3 DEF Crash
    <3>2. \A r \in Request : pc'[r] = pc[r] => StepsLeft(r)' = StepsLeft(r)
      BY <3>1 DEF StepsLeft
    <3>3. \A r \in Request : pc'[r] = "lost" => StepsLeft(r)' = 0
      BY DEF StepsLeft, Guarded
    <3>4. crashes' # crashes
      BY <2>3, BoundsAssumption DEF Crash, ChatInv, TypeOK
    <3> QED
      BY <2>1, <3>1, <3>2, <3>3, <3>4 DEF Nearer
  <2>4. ASSUME NEW r \in Request, Receive(r) \/ Step(r)
        PROVE  /\ \A q \in Request : StepsLeft(q)' \in 0 .. StepsLeft(q)
               /\ StepsLeft(r)' < StepsLeft(r)
    <3>1. StepsLeft(r)' < StepsLeft(r)
      BY <2>4, StepsLeftFall
    <3>2. \A q \in Request \ {r} : pc'[q] = pc[q] /\ calls'[q] = calls[q]
      BY <2>4 DEF Receive, Step, Emit, CallTool, ToolReturns, Execute, Answer, ChatInv, TypeOK
    <3>3. \A q \in Request \ {r} : StepsLeft(q)' = StepsLeft(q)
      BY <3>2 DEF StepsLeft
    <3> QED
      BY <2>1, <2>2, <3>1, <3>3
  <2> QED
    BY <2>1, <2>3, <2>4 DEF Next, Nearer
<1> QED
  BY <1>1, ChatInvHolds, PTL DEF Spec

=============================================================================
