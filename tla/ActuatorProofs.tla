--------------------------- MODULE ActuatorProofs ---------------------------
(***************************************************************************)
(* Proofs about Actuator for every set of executions, requests and         *)
(* threads. The argument is one inductive invariant, IInv: what is stored  *)
(* under an id was saved once by execute and changes only through          *)
(* withRollback, a thread inside rollback() holds a copy that agrees with  *)
(* the store on everything execute wrote, and the scheduler only holds     *)
(* executions whose TTL has passed.                                        *)
(***************************************************************************)
EXTENDS Actuator, TLAPS

\* No ttl a client submits makes start + ttl overflow a Java long.
NoOverflow == \A r \in Requests : \A t \in Nat : t <= MaxTime => t + r.ttl <= MaxLong

Busy(c) == pc[c] # "idle"

\* Ids are issued once: an execution is unsaved or stored, not both.
IdInv ==
  /\ \A x \in received : /\ x.exec \in issued
                         /\ x.exec \notin Stored \cup rolledBack
                         /\ x.start <= clock
  /\ \A x, y \in received : x.exec = y.exec => x = y
  /\ Stored \cup rolledBack \subseteq issued
  /\ clock <= MaxTime

\* What a record's fields say about each other.
RecordInv ==
  \A e \in Stored :
    /\ store[e].start <= clock
    /\ store[e].rollback = "AVAILABLE" => store[e].status = "SUCCEEDED"
    /\ store[e].status = "SUCCEEDED" =>
         (store[e].ttl > 0 <=> store[e].rollback # "NOT_REQUIRED")
    /\ store[e].rollback \in {"NOT_REQUIRED", "AVAILABLE"} => store[e].trigger = "NONE"
    /\ store[e].rollback = "SUCCEEDED" => e \in rolledBack
    /\ e \in rolledBack => store[e].rollback \in {"RUNNING", "SUCCEEDED"}

\* A thread's copy agrees with the store on what execute wrote.
CopyInv ==
  \A c \in Caller : Busy(c) =>
    /\ exec[c] \in Stored
    /\ copy[c] \in Record
    /\ <<copy[c].status, copy[c].start, copy[c].ttl>> =
         <<store[exec[c]].status, store[exec[c]].start, store[exec[c]].ttl>>
    /\ store[exec[c]].rollback # "NOT_REQUIRED"
    /\ c \in Manual => exec[c] \in asked

\* The scheduler is busy with executed strategies whose TTL has passed.
Due(e) == e \in Stored /\ store[e].status = "SUCCEEDED" /\ Expired(store[e])

SchedulerInv ==
  /\ \A e \in batch : Due(e)
  /\ Busy(Scheduler) => Due(exec[Scheduler])

IInv ==
  /\ TypeOK
  /\ IdInv
  /\ RecordInv
  /\ CopyInv
  /\ NoOrphanRollback

\* No record's deadline leaves the range of a Java long.
NoOverflowInStore ==
  \A e \in Stored : store[e].ttl > 0 => store[e].start + store[e].ttl <= MaxLong

DueInv == NoOverflowInStore /\ SchedulerInv /\ AutoRollbackIsDue

-----------------------------------------------------------------------------

(* Types *)

\* Executing a strategy builds a record, and a copy of a record is one.
LEMMA RecordTyping ==
  /\ \A r \in Requests, t \in Nat : ExecutionOf(r, t) \in Record
  /\ \A rec \in Record, rb \in RollbackStatus, tr \in Trigger :
        WithRollback(rec, rb, tr) \in Record
<1>1. ASSUME NEW r \in Requests, NEW t \in Nat
      PROVE  ExecutionOf(r, t) \in Record
  <2>1. r.ttl \in Int
    BY <1>1, ActuatorAssumption DEF ActuatorAssumption, Strategy
  <2>2. QED
    BY <2>1 DEF ExecutionOf, Record, ExecutionStatus, RollbackStatus, Trigger
<1>2. QED
  BY <1>1 DEF WithRollback, Record

\* The trigger of a caller and the states a rollback saves have their types.
LEMMA CallerTyping ==
  /\ \A c \in Caller : TriggerOf(c) \in Trigger
  /\ {"RUNNING", "SUCCEEDED"} \subseteq RollbackStatus
  /\ Manual \subseteq Caller /\ Scheduler \in Caller
BY DEF Caller, TriggerOf, Trigger, RollbackStatus

\* Every step keeps the types of the variables.
LEMMA TypeInductive ==
  ASSUME TypeOK, [Next]_vars
  PROVE  TypeOK'
<1> USE DEF TypeOK
<1>1. ASSUME NEW e \in ExecId, NEW r \in Requests, ReceiveStrategy(e, r)
      PROVE  TypeOK'
  BY <1>1 DEF ReceiveStrategy, threads, history
<1>2. ASSUME NEW x \in received, SaveExecution(x)
      PROVE  TypeOK'
  BY <1>2, RecordTyping DEF SaveExecution, threads, history
<1>3. ASSUME NEW m \in Manual, NEW e \in ExecId, RequestRollback(m, e)
      PROVE  TypeOK'
  BY <1>3, CallerTyping DEF RequestRollback, Enter, Stored
<1>4. ASSUME NEW c \in Caller, SaveRunning(c)
      PROVE  TypeOK'
  BY <1>4, RecordTyping, CallerTyping DEF SaveRunning, history
<1>5. ASSUME NEW c \in Caller, SaveSucceeded(c)
      PROVE  TypeOK'
  BY <1>5, RecordTyping, CallerTyping DEF SaveSucceeded
<1>6. CASE Poll
  BY <1>6 DEF Poll, Candidates, Stored, history
<1>7. ASSUME NEW e \in ExecId, AutoRollback(e)
      PROVE  TypeOK'
  BY <1>7, CallerTyping DEF AutoRollback, Enter, Stored, history
<1>8. ASSUME NEW e \in ExecId, SkipRolledBack(e) \/ AbortBatch(e)
      PROVE  TypeOK'
  BY <1>8 DEF SkipRolledBack, AbortBatch, history
<1>9. CASE Tick
  BY <1>9 DEF Tick, threads, history
<1>10. CASE Restart
  BY <1>10 DEF Restart, history
<1>11. CASE UNCHANGED vars
  BY <1>11 DEF vars, threads, history
<1>12. QED
  BY <1>1, <1>2, <1>3, <1>4, <1>5, <1>6, <1>7, <1>8, <1>9, <1>10, <1>11
  DEF Next, Scheduled

\* Every variable of actuator-service keeps its type.
THEOREM TypeCorrect == Spec => []TypeOK
<1>1. Init => TypeOK
  BY ActuatorAssumption DEF Init, TypeOK
<1>2. TypeOK /\ [Next]_vars => TypeOK'
  BY TypeInductive
<1>3. QED
  BY <1>1, <1>2, PTL DEF Spec
-----------------------------------------------------------------------------
(* The inductive invariant *)

\* The fields of a record that execute saves.
LEMMA ExecutionFacts ==
  ASSUME NEW r \in Requests, NEW t \in Nat
  PROVE  LET rec == ExecutionOf(r, t)
         IN  /\ rec.start = t /\ rec.ttl = r.ttl /\ rec.trigger = "NONE"
             /\ rec.rollback \in {"NOT_REQUIRED", "AVAILABLE", "FAILED"}
             /\ rec.rollback = "AVAILABLE" => rec.status = "SUCCEEDED"
             /\ rec.status = "SUCCEEDED" =>
                  (rec.ttl > 0 <=> rec.rollback # "NOT_REQUIRED")
<1>1. CASE ~Validated(r)
  BY <1>1 DEF ExecutionOf
<1>2. CASE Validated(r) /\ ~Executes(r)
  BY <1>2 DEF ExecutionOf
<1>3. CASE Validated(r) /\ Executes(r)
  <2>1. ExecutionOf(r, t) =
          [status |-> "SUCCEEDED", start |-> t, ttl |-> r.ttl,
           rollback |-> IF r.ttl > 0 THEN "AVAILABLE" ELSE "NOT_REQUIRED",
           trigger |-> "NONE"]
    BY <1>3 DEF ExecutionOf
  <2>2. QED
    BY <2>1
<1>4. QED
  BY <1>1, <1>2, <1>3

\* The fields of a record that a rollback saves.
LEMMA RollbackFacts ==
  ASSUME NEW rec \in Record, NEW rb, NEW tr
  PROVE  LET new == WithRollback(rec, rb, tr)
         IN  /\ new.status = rec.status /\ new.start = rec.start
             /\ new.ttl = rec.ttl /\ new.rollback = rb /\ new.trigger = tr
BY DEF WithRollback, Record

\* The first save of an execution.
LEMMA SaveExecutionInv ==
  ASSUME IInv, TypeOK', NEW x \in received, SaveExecution(x)
  PROVE  IInv'
<1> DEFINE rec == ExecutionOf(x.request, x.start)
<1>1. /\ x.exec \in ExecId /\ x.request \in Requests /\ x.start \in Nat
      /\ x.exec \notin Stored /\ x.exec \in issued /\ x.start <= clock
      /\ x.exec \notin rolledBack
  BY DEF IInv, TypeOK, IdInv
<1>2. rec \in Record /\ rec # None
  BY <1>1, RecordTyping, ActuatorAssumption DEF ActuatorAssumption
<1>3. store' = [store EXCEPT ![x.exec] = rec] /\ received' = received \ {x}
      /\ UNCHANGED <<clock, pc, exec, copy, batch, issued, restarts, asked, rolledBack>>
  BY DEF SaveExecution, threads, history
<1>4. /\ store'[x.exec] = rec
      /\ \A e \in ExecId : e # x.exec => store'[e] = store[e]
      /\ Stored' = Stored \cup {x.exec}
  BY <1>1, <1>2, <1>3 DEF IInv, TypeOK, Stored
<1>5. IdInv'
  BY <1>1, <1>3, <1>4 DEF IInv, IdInv, TypeOK
<1>6. RecordInv'
  BY <1>1, <1>3, <1>4, ExecutionFacts DEF IInv, RecordInv, Stored
<1>7. CopyInv'
  BY <1>1, <1>3, <1>4 DEF IInv, CopyInv, Busy, Stored
<1>8. NoOrphanRollback'
  BY <1>1, <1>3, <1>4, ExecutionFacts DEF IInv, NoOrphanRollback, Stored
<1>9. QED
  BY <1>5, <1>6, <1>7, <1>8 DEF IInv

\* Saving from its copy, a thread rewrites the rollback fields of its record.
LEMMA Overwrite ==
  ASSUME IInv, NEW c \in Caller, Busy(c), NEW rb \in RollbackStatus,
         store' = [store EXCEPT ![exec[c]] = WithRollback(copy[c], rb, TriggerOf(c))]
  PROVE  /\ exec[c] \in Stored
         /\ Stored' = Stored
         /\ \A e \in Stored : e # exec[c] => store'[e] = store[e]
         /\ store'[exec[c]] \in Record
         /\ store'[exec[c]].status = store[exec[c]].status
         /\ store'[exec[c]].start = store[exec[c]].start
         /\ store'[exec[c]].ttl = store[exec[c]].ttl
         /\ store'[exec[c]].rollback = rb
         /\ store'[exec[c]].trigger = TriggerOf(c)
         /\ store[exec[c]].rollback # "NOT_REQUIRED"
<1> DEFINE new == WithRollback(copy[c], rb, TriggerOf(c))
<1>1. /\ exec[c] \in Stored /\ copy[c] \in Record
      /\ copy[c].status = store[exec[c]].status
      /\ copy[c].start = store[exec[c]].start
      /\ copy[c].ttl = store[exec[c]].ttl
      /\ store[exec[c]].rollback # "NOT_REQUIRED"
  BY DEF IInv, CopyInv
<1>2. new \in Record /\ new # None
  BY <1>1, RecordTyping, CallerTyping, ActuatorAssumption DEF ActuatorAssumption
<1>3. /\ store'[exec[c]] = new
      /\ \A e \in ExecId : e # exec[c] => store'[e] = store[e]
      /\ Stored' = Stored
  BY <1>1, <1>2 DEF IInv, TypeOK, Stored
<1>4. /\ new.status = copy[c].status /\ new.start = copy[c].start
      /\ new.ttl = copy[c].ttl /\ new.rollback = rb /\ new.trigger = TriggerOf(c)
  BY <1>1, RollbackFacts
<1>5. QED
  BY <1>1, <1>2, <1>3, <1>4 DEF Stored

\* Saving RUNNING from a copy, however stale, keeps the invariant.
LEMMA SaveRunningInv ==
  ASSUME IInv, TypeOK', NEW c \in Caller, SaveRunning(c)
  PROVE  IInv'
<1> DEFINE running == WithRollback(copy[c], "RUNNING", TriggerOf(c))
<1>1. /\ Busy(c) /\ pc[c] = "checked"
      /\ store' = [store EXCEPT ![exec[c]] = running]
      /\ copy' = [copy EXCEPT ![c] = running]
      /\ pc' = [pc EXCEPT ![c] = "running"]
      /\ UNCHANGED <<received, clock, exec, batch, issued, asked, rolledBack>>
  BY DEF SaveRunning, Busy, history
<1>2. /\ exec[c] \in Stored /\ Stored' = Stored
      /\ \A e \in Stored : e # exec[c] => store'[e] = store[e]
      /\ store'[exec[c]].status = store[exec[c]].status
      /\ store'[exec[c]].start = store[exec[c]].start
      /\ store'[exec[c]].ttl = store[exec[c]].ttl
      /\ store'[exec[c]].rollback = "RUNNING"
      /\ store[exec[c]].rollback # "NOT_REQUIRED"
      /\ store'[exec[c]] \in Record
  BY <1>1, Overwrite, CallerTyping
<1>3. /\ copy'[c] = store'[exec[c]] /\ pc'[c] = "running"
      /\ \A d \in Caller : d # c => copy'[d] = copy[d] /\ pc'[d] = pc[d]
  BY <1>1, <1>2 DEF IInv, TypeOK, Stored
<1>4. IdInv'
  BY <1>1, <1>2 DEF IInv, IdInv
<1>5. RecordInv'
  BY <1>1, <1>2 DEF IInv, RecordInv
<1>6. CopyInv'
  <2> SUFFICES ASSUME NEW d \in Caller, Busy(d)'
               PROVE  /\ exec[d] \in Stored
                      /\ copy'[d] \in Record
                      /\ copy'[d].status = store'[exec[d]].status
                      /\ copy'[d].start = store'[exec[d]].start
                      /\ copy'[d].ttl = store'[exec[d]].ttl
                      /\ store'[exec[d]].rollback # "NOT_REQUIRED"
                      /\ d \in Manual => exec[d] \in asked
    BY <1>1, <1>2 DEF CopyInv
  <2>1. CASE d = c
    BY <2>1, <1>1, <1>2, <1>3 DEF IInv, CopyInv
  <2>2. CASE d # c
    <3>1. Busy(d) /\ copy'[d] = copy[d]
      BY <2>2, <1>3 DEF Busy
    <3>2. CASE exec[d] = exec[c]
      BY <3>1, <3>2, <1>2 DEF IInv, CopyInv
    <3>3. CASE exec[d] # exec[c]
      BY <3>1, <3>3, <1>2 DEF IInv, CopyInv
    <3>4. QED
      BY <3>2, <3>3
  <2>3. QED
    BY <2>1, <2>2
<1>7. NoOrphanRollback'
  BY <1>1, <1>2, <1>3 DEF IInv, NoOrphanRollback
<1>8. QED
  BY <1>4, <1>5, <1>6, <1>7 DEF IInv

\* So does saving SUCCEEDED.
LEMMA SaveSucceededInv ==
  ASSUME IInv, TypeOK', NEW c \in Caller, SaveSucceeded(c)
  PROVE  IInv'
<1>1. /\ Busy(c) /\ pc[c] = "running"
      /\ store' = [store EXCEPT ![exec[c]] =
                      WithRollback(copy[c], "SUCCEEDED", TriggerOf(c))]
      /\ rolledBack' = rolledBack \cup {exec[c]}
      /\ pc' = [pc EXCEPT ![c] = "idle"]
      /\ exec' = [exec EXCEPT ![c] = None]
      /\ copy' = [copy EXCEPT ![c] = None]
      /\ UNCHANGED <<received, clock, batch, issued, asked>>
  BY DEF SaveSucceeded, Busy
<1>2. /\ exec[c] \in Stored /\ Stored' = Stored
      /\ \A e \in Stored : e # exec[c] => store'[e] = store[e]
      /\ store'[exec[c]].status = store[exec[c]].status
      /\ store'[exec[c]].start = store[exec[c]].start
      /\ store'[exec[c]].ttl = store[exec[c]].ttl
      /\ store'[exec[c]].rollback = "SUCCEEDED"
      /\ store[exec[c]].rollback # "NOT_REQUIRED"
  BY <1>1, Overwrite, CallerTyping
<1>3. /\ pc'[c] = "idle"
      /\ \A d \in Caller : d # c =>
           copy'[d] = copy[d] /\ pc'[d] = pc[d] /\ exec'[d] = exec[d]
  BY <1>1 DEF IInv, TypeOK
<1>4. IdInv'
  BY <1>1, <1>2 DEF IInv, IdInv
<1>5. RecordInv'
  BY <1>1, <1>2 DEF IInv, RecordInv
<1>6. CopyInv'
  <2> SUFFICES ASSUME NEW d \in Caller, Busy(d)'
               PROVE  /\ exec'[d] \in Stored
                      /\ copy'[d] \in Record
                      /\ copy'[d].status = store'[exec'[d]].status
                      /\ copy'[d].start = store'[exec'[d]].start
                      /\ copy'[d].ttl = store'[exec'[d]].ttl
                      /\ store'[exec'[d]].rollback # "NOT_REQUIRED"
                      /\ d \in Manual => exec'[d] \in asked
    BY <1>1, <1>2 DEF CopyInv
  <2>1. d # c /\ Busy(d) /\ copy'[d] = copy[d] /\ exec'[d] = exec[d]
    BY <1>3 DEF Busy
  <2>2. CASE exec[d] = exec[c]
    BY <2>1, <2>2, <1>2 DEF IInv, CopyInv
  <2>3. CASE exec[d] # exec[c]
    BY <2>1, <2>3, <1>2 DEF IInv, CopyInv
  <2>4. QED
    BY <2>2, <2>3
<1>7. NoOrphanRollback'
  BY <1>1, <1>2, <1>3 DEF IInv, NoOrphanRollback
<1>8. QED
  BY <1>4, <1>5, <1>6, <1>7 DEF IInv

\* Entering rollback(): a thread takes a copy and nothing else changes.
LEMMA EnterInv ==
  ASSUME IInv, TypeOK', NEW c \in Caller, NEW e \in ExecId, Enter(c, e),
         UNCHANGED <<store, received, clock, issued, rolledBack>>,
         asked \subseteq asked', c \in Manual => e \in asked'
  PROVE  IInv'
<1>1. /\ e \in Stored /\ store[e] \in Record /\ pc[c] = "idle"
      /\ store[e].rollback \in {"AVAILABLE", "FAILED"}
      /\ pc'[c] = "checked" /\ exec'[c] = e /\ copy'[c] = store[e]
      /\ \A d \in Caller : d # c =>
           copy'[d] = copy[d] /\ pc'[d] = pc[d] /\ exec'[d] = exec[d]
  BY DEF IInv, TypeOK, Enter, Stored, Rollbackable
<1>2. Stored' = Stored
  BY DEF Stored
<1>3. IdInv' /\ RecordInv'
  BY <1>2 DEF IInv, IdInv, RecordInv
<1>4. CopyInv'
  BY <1>1, <1>2 DEF IInv, CopyInv, Busy
<1>5. NoOrphanRollback'
  BY <1>1, <1>2 DEF IInv, NoOrphanRollback
<1>6. QED
  BY <1>3, <1>4, <1>5 DEF IInv

\* Every step keeps the invariant.
LEMMA InvInductive ==
  ASSUME IInv, [Next]_vars
  PROVE  IInv'
<1>0. TypeOK'
  BY TypeInductive DEF IInv
<1>1. ASSUME NEW e \in ExecId, NEW r \in Requests, ReceiveStrategy(e, r)
      PROVE  IInv'
  <2>1. /\ e \notin issued /\ issued' = issued \cup {e}
        /\ received' = received \cup {[exec |-> e, request |-> r, start |-> clock]}
        /\ UNCHANGED <<store, clock, pc, exec, copy, batch, asked, rolledBack>>
    BY <1>1 DEF ReceiveStrategy, threads, history
  <2>2. IdInv'
    BY <2>1 DEF IInv, IdInv, TypeOK, Stored
  <2>3. RecordInv' /\ CopyInv' /\ NoOrphanRollback'
    BY <2>1 DEF IInv, RecordInv, CopyInv, Busy, NoOrphanRollback, Stored
  <2>4. QED
    BY <1>0, <2>2, <2>3 DEF IInv
<1>2. ASSUME NEW x \in received, SaveExecution(x)
      PROVE  IInv'
  BY <1>0, <1>2, SaveExecutionInv
<1>3. ASSUME NEW m \in Manual, NEW e \in ExecId, RequestRollback(m, e)
      PROVE  IInv'
  BY <1>0, <1>3, EnterInv, CallerTyping DEF RequestRollback
<1>4. ASSUME NEW c \in Caller, SaveRunning(c) \/ SaveSucceeded(c)
      PROVE  IInv'
  BY <1>0, <1>4, SaveRunningInv, SaveSucceededInv
<1>5. ASSUME NEW e \in ExecId, AutoRollback(e)
      PROVE  IInv'
  BY <1>0, <1>5, EnterInv, CallerTyping, ActuatorAssumption
  DEF AutoRollback, history, ActuatorAssumption
<1>6. CASE \/ Poll
           \/ \E e \in ExecId : SkipRolledBack(e) \/ AbortBatch(e)
           \/ UNCHANGED vars
  <2>1. UNCHANGED <<store, received, clock, pc, exec, copy, issued, asked, rolledBack>>
    BY <1>6 DEF Poll, SkipRolledBack, AbortBatch, vars, threads, history
  <2>2. QED
    BY <1>0, <2>1 DEF IInv, IdInv, RecordInv, CopyInv, Busy, NoOrphanRollback, Stored
<1>7. CASE Tick
  <2>1. /\ clock' = clock + 1 /\ clock < MaxTime
        /\ UNCHANGED <<store, received, pc, exec, copy, issued, asked, rolledBack>>
    BY <1>7 DEF Tick, threads, history
  <2>2. IdInv' /\ RecordInv'
    BY <2>1, ActuatorAssumption
    DEF IInv, IdInv, RecordInv, TypeOK, Stored, Record, ActuatorAssumption
  <2>3. CopyInv' /\ NoOrphanRollback'
    BY <2>1 DEF IInv, CopyInv, Busy, NoOrphanRollback, Stored
  <2>4. QED
    BY <1>0, <2>2, <2>3 DEF IInv
<1>8. CASE Restart
  <2>1. /\ Stored' = {} /\ received' = {} /\ \A c \in Caller : ~Busy(c)'
        /\ UNCHANGED <<clock, issued, rolledBack>>
    BY <1>8 DEF Restart, Stored, Busy, history
  <2>2. QED
    BY <1>0, <2>1 DEF IInv, IdInv, RecordInv, CopyInv, NoOrphanRollback
<1>9. QED
  BY <1>1, <1>2, <1>3, <1>4, <1>5, <1>6, <1>7, <1>8 DEF Next, Scheduled

\* The inductive invariant holds in every reachable state.
LEMMA Invariant == Spec => []IInv
<1>1. Init => IInv
  <2>1. Init => TypeOK
    BY ActuatorAssumption DEF Init, TypeOK
  <2>2. QED
    BY <2>1, ActuatorAssumption
    DEF Init, IInv, IdInv, RecordInv, CopyInv, Busy, NoOrphanRollback, Stored,
        ActuatorAssumption
<1>2. IInv /\ [Next]_vars => IInv'
  BY InvInductive
<1>3. QED
  BY <1>1, <1>2, PTL DEF Spec

\* A record is RUNNING only while some thread is about to save its outcome.
THEOREM NoOrphan == Spec => []NoOrphanRollback
BY Invariant, PTL DEF IInv

\* A step leaves what execute recorded as it is, or forgets the record.
LEMMA StepKeepsExecution ==
  ASSUME IInv, [Next]_vars, NEW e \in Stored, store'[e] # None
  PROVE  SameExecution(store[e], store'[e])
<1>1. CASE store'[e] = store[e]
  BY <1>1 DEF SameExecution
<1>2. ASSUME NEW x \in received, SaveExecution(x)
      PROVE  store'[e] = store[e]
  BY <1>2 DEF SaveExecution, IInv, IdInv, TypeOK, Stored
<1>3. ASSUME NEW c \in Caller, SaveRunning(c) \/ SaveSucceeded(c)
      PROVE  SameExecution(store[e], store'[e])
  <2>1. PICK rb \in RollbackStatus :
          store' = [store EXCEPT ![exec[c]] = WithRollback(copy[c], rb, TriggerOf(c))]
    BY <1>3, CallerTyping DEF SaveRunning, SaveSucceeded
  <2>2. Busy(c)
    BY <1>3 DEF SaveRunning, SaveSucceeded, Busy
  <2>3. QED
    BY <1>1, <2>1, <2>2, Overwrite DEF SameExecution
<1>4. CASE Restart
  BY <1>4 DEF Restart, Stored
<1>5. CASE UNCHANGED store
  BY <1>5, <1>1
<1>6. QED
  BY <1>1, <1>2, <1>3, <1>4, <1>5
  DEF Next, Scheduled, ReceiveStrategy, RequestRollback, Poll, AutoRollback,
      SkipRolledBack, AbortBatch, Tick, vars

(***************************************************************************)
(* Saving from a copy read earlier never rewrites what execute recorded,   *)
(* nor attaches a rollback to a record that needs none.                    *)
(***************************************************************************)
THEOREM KeepsExecution == Spec => RollbackKeepsExecution
<1> DEFINE Keeps == \A e \in Stored : store'[e] # None => SameExecution(store[e], store'[e])
<1>1. IInv /\ [Next]_vars => [Keeps]_vars
  BY StepKeepsExecution
<1>2. QED
  BY <1>1, Invariant, PTL DEF Spec, RollbackKeepsExecution

-----------------------------------------------------------------------------
(* Rollbacks by the scheduler *)

\* Without overflow, a candidate of a poll has outlived its TTL.
LEMMA CandidatesAreDue ==
  ASSUME IInv, NoOverflowInStore, NEW e \in Candidates
  PROVE  Due(e)
<1>1. /\ e \in Stored /\ store[e] \in Record /\ store[e].ttl > 0
      /\ store[e].rollback = "AVAILABLE" /\ clock >= DueAt(store[e])
  BY DEF Candidates, IInv, TypeOK, Stored
<1>2. store[e].start + store[e].ttl <= MaxLong
  BY <1>1 DEF NoOverflowInStore
<1>3. clock >= store[e].start + store[e].ttl
  BY <1>1, <1>2, ActuatorAssumption DEF DueAt, Record, ActuatorAssumption
<1>4. QED
  BY <1>1, <1>3 DEF Due, Expired, IInv, RecordInv

\* What is due stays due until it is forgotten.
LEMMA DueStable ==
  ASSUME IInv, [Next]_vars, NEW e \in Stored, Due(e), store'[e] # None
  PROVE  Due(e)'
<1>1. SameExecution(store[e], store'[e]) /\ e \in Stored'
  BY StepKeepsExecution DEF Stored
<1>2. clock \in Nat /\ clock' \in Nat /\ clock' >= clock
  BY DEF IInv, TypeOK, Next, vars, ReceiveStrategy, SaveExecution, RequestRollback,
         SaveRunning, SaveSucceeded, Scheduled, Poll, AutoRollback, SkipRolledBack,
         AbortBatch, Tick, Restart
<1>3. store[e].start \in Nat /\ store[e].ttl \in Int
  BY DEF IInv, TypeOK, Stored, Record
<1>4. QED
  BY <1>1, <1>2, <1>3 DEF Due, Expired, SameExecution

\* No stored deadline overflows when no requested one does.
LEMMA NoOverflowInductive ==
  ASSUME NoOverflow, IInv, NoOverflowInStore, [Next]_vars
  PROVE  NoOverflowInStore'
<1> SUFFICES ASSUME NEW e \in Stored', store'[e].ttl > 0
             PROVE  store'[e].start + store'[e].ttl <= MaxLong
  BY DEF NoOverflowInStore
<1>1. CASE e \in Stored
  BY <1>1, StepKeepsExecution DEF NoOverflowInStore, SameExecution, Stored
<1>2. CASE e \notin Stored
  <2>1. PICK x \in received : SaveExecution(x) /\ x.exec = e
    <3>1. e \in ExecId /\ store[e] = None /\ store'[e] # None
      BY <1>2 DEF Stored
    <3>2. ASSUME NEW c \in Caller, SaveRunning(c) \/ SaveSucceeded(c)
          PROVE  store'[e] = store[e]
      BY <1>2, <3>1, <3>2
      DEF SaveRunning, SaveSucceeded, IInv, TypeOK, CopyInv, Busy
    <3>3. QED
      BY <3>1, <3>2
      DEF Next, Scheduled, ReceiveStrategy, SaveExecution, RequestRollback, Poll,
          AutoRollback, SkipRolledBack, AbortBatch, Tick, Restart, vars, IInv, TypeOK
  <2>2. /\ x.exec \in ExecId /\ x.request \in Requests
        /\ x.start \in Nat /\ x.start <= MaxTime
    BY ActuatorAssumption DEF IInv, TypeOK, IdInv, ActuatorAssumption
  <2>3. store'[e] = ExecutionOf(x.request, x.start)
    BY <2>1, <2>2 DEF SaveExecution, IInv, TypeOK
  <2>4. store'[e].start = x.start /\ store'[e].ttl = x.request.ttl
    BY <2>2, <2>3, ExecutionFacts
  <2>5. QED
    BY <2>2, <2>4 DEF NoOverflow
<1>3. QED
  BY <1>1, <1>2

\* Every step keeps the scheduler to executions that are due.
LEMMA DueInductive ==
  ASSUME NoOverflow, IInv, DueInv, [Next]_vars
  PROVE  DueInv'
<1>1. NoOverflowInStore'
  BY NoOverflowInductive DEF DueInv
<1>2. TypeOK' /\ IInv'
  BY InvInductive DEF IInv
<1>3. SchedulerInv'
  <2>1. CASE Restart
    BY <2>1, CallerTyping DEF Restart, SchedulerInv, Busy
  <2>2. CASE Poll
    <3>1. batch' = Candidates /\ UNCHANGED <<store, clock, pc, exec>>
      BY <2>2 DEF Poll
    <3>2. \A e \in batch' : Due(e)
      BY <3>1, CandidatesAreDue DEF DueInv
    <3>3. QED
      BY <3>1, <3>2 DEF DueInv, SchedulerInv, Due, Expired, Busy, Stored
  <2>3. CASE ~Restart /\ ~Poll
    <3>1. \A e \in Stored : store'[e] # None
      <4>1. ASSUME NEW c \in Caller, SaveRunning(c) \/ SaveSucceeded(c)
            PROVE  Stored' = Stored
        <5>1. PICK rb \in RollbackStatus :
            store' = [store EXCEPT ![exec[c]] = WithRollback(copy[c], rb, TriggerOf(c))]
          BY <4>1, CallerTyping DEF SaveRunning, SaveSucceeded
        <5>2. QED
          BY <4>1, <5>1, Overwrite DEF SaveRunning, SaveSucceeded, Busy
      <4>2. QED
        BY <2>3, <4>1
        DEF Next, Scheduled, ReceiveStrategy, SaveExecution, RequestRollback,
            AutoRollback, SkipRolledBack, AbortBatch, Tick, vars, Stored,
            IInv, IdInv, TypeOK
    <3>2. batch' \subseteq batch
      BY <2>3
      DEF Next, Scheduled, ReceiveStrategy, SaveExecution, RequestRollback,
          SaveRunning, SaveSucceeded, AutoRollback, SkipRolledBack, AbortBatch,
          Tick, vars, threads
    <3>3. Busy(Scheduler)' => \/ Busy(Scheduler) /\ exec'[Scheduler] = exec[Scheduler]
                              \/ exec'[Scheduler] \in batch
      <4>1. ASSUME NEW m \in Manual, NEW e \in ExecId, RequestRollback(m, e)
            PROVE  exec'[Scheduler] = exec[Scheduler] /\ pc'[Scheduler] = pc[Scheduler]
        BY <4>1, ActuatorAssumption, CallerTyping
        DEF RequestRollback, Enter, IInv, TypeOK, ActuatorAssumption
      <4>2. ASSUME NEW c \in Caller, SaveRunning(c) \/ SaveSucceeded(c), Busy(Scheduler)'
            PROVE  exec'[Scheduler] = exec[Scheduler] /\ Busy(Scheduler)
        BY <4>2, CallerTyping DEF SaveRunning, SaveSucceeded, Busy, IInv, TypeOK
      <4>3. ASSUME NEW e \in ExecId, AutoRollback(e)
            PROVE  exec'[Scheduler] \in batch
        BY <4>3, CallerTyping DEF AutoRollback, NextInBatch, Enter, IInv, TypeOK
      <4>4. QED
        BY <2>3, <4>1, <4>2, <4>3
        DEF Next, Scheduled, ReceiveStrategy, SaveExecution, SkipRolledBack,
            AbortBatch, Tick, vars, threads, Busy
    <3>4. \A e : Due(e) => Due(e)'
      BY <3>1, DueStable DEF Due
    <3>5. QED
      BY <3>2, <3>3, <3>4 DEF DueInv, SchedulerInv
  <2>4. QED
    BY <2>1, <2>2, <2>3
<1>4. AutoRollbackIsDue'
  <2> SUFFICES ASSUME NEW e \in Stored', store'[e].trigger = "TTL_AUTO"
               PROVE  Due(e)'
    BY DEF AutoRollbackIsDue, Due
  <2>1. store'[e] # None
    BY DEF Stored
  <2>2. CASE e \in Stored /\ store'[e] = store[e]
    <3>1. Due(e)
      BY <2>2 DEF DueInv, AutoRollbackIsDue, Due
    <3>2. QED
      BY <2>1, <2>2, <3>1, DueStable
  <2>3. ASSUME NEW x \in received, SaveExecution(x), x.exec = e
        PROVE  FALSE
    <3>1. x.exec \in ExecId /\ x.request \in Requests /\ x.start \in Nat
      BY DEF IInv, TypeOK
    <3>2. store'[e] = ExecutionOf(x.request, x.start)
      BY <2>3, <3>1 DEF SaveExecution, IInv, TypeOK
    <3>3. QED
      BY <3>1, <3>2, ExecutionFacts
  <2>4. ASSUME NEW c \in Caller, SaveRunning(c) \/ SaveSucceeded(c), exec[c] = e
        PROVE  Due(e)'
    <3>1. PICK rb \in RollbackStatus :
          store' = [store EXCEPT ![exec[c]] = WithRollback(copy[c], rb, TriggerOf(c))]
      BY <2>4, CallerTyping DEF SaveRunning, SaveSucceeded
    <3>2. Busy(c)
      BY <2>4 DEF SaveRunning, SaveSucceeded, Busy
    <3>3. e \in Stored /\ store'[e].trigger = TriggerOf(c)
      BY <2>4, <3>1, <3>2, Overwrite
    <3>4. c = Scheduler
      BY <3>3 DEF TriggerOf
    <3>5. Due(e)
      BY <2>4, <3>2, <3>4 DEF DueInv, SchedulerInv
    <3>6. QED
      BY <2>1, <3>3, <3>5, DueStable
  <2>5. QED
    <3>1. CASE Restart
      BY <3>1, <2>1 DEF Restart, Stored
    <3>2. ASSUME NEW x \in received, SaveExecution(x), x.exec # e
          PROVE  e \in Stored /\ store'[e] = store[e]
      BY <3>2, <2>1 DEF SaveExecution, IInv, TypeOK, Stored
    <3>3. ASSUME NEW c \in Caller, SaveRunning(c) \/ SaveSucceeded(c), exec[c] # e
          PROVE  e \in Stored /\ store'[e] = store[e]
      BY <3>3, <2>1 DEF SaveRunning, SaveSucceeded, IInv, TypeOK, Stored
    <3>4. CASE UNCHANGED store
      BY <3>4, <2>2 DEF Stored
    <3>5. QED
      BY <2>2, <2>3, <2>4, <3>1, <3>2, <3>3, <3>4
      DEF Next, Scheduled, ReceiveStrategy, RequestRollback, Poll, AutoRollback,
          SkipRolledBack, AbortBatch, Tick, vars
<1>5. QED
  BY <1>1, <1>3, <1>4 DEF DueInv

(***************************************************************************)
(* If no deadline overflows, an automatic rollback happens only after the  *)
(* TTL, and only to a strategy that was executed.                          *)
(***************************************************************************)
THEOREM AutoRollbackOnlyWhenDue ==
  ASSUME NoOverflow
  PROVE  Spec => []AutoRollbackIsDue
<1>1. Init => DueInv
  BY CallerTyping
  DEF Init, DueInv, NoOverflowInStore, SchedulerInv, AutoRollbackIsDue, Busy, Stored
<1>2. IInv /\ DueInv /\ [Next]_vars => DueInv'
  BY DueInductive
<1>3. DueInv => AutoRollbackIsDue
  BY DEF DueInv
<1>4. QED
  BY <1>1, <1>2, <1>3, Invariant, PTL DEF Spec

-----------------------------------------------------------------------------
(* Actuator implements RollbackPromise *)

\* The phase of an execution, case by case.
LEMMA PhaseFacts ==
  ASSUME NEW e
  PROVE  /\ e \in rolledBack => PhaseOf(e) = "kept"
         /\ e \notin rolledBack /\ e \in Stored =>
              PhaseOf(e) = IF store[e].rollback = "NOT_REQUIRED" THEN "final"
                           ELSE IF store[e].status = "FAILED" THEN "failed" ELSE "open"
         /\ e \notin rolledBack /\ e \notin Stored =>
              PhaseOf(e) = IF e \in issued /\ e \notin Unsaved THEN "lost" ELSE "none"
<1>1. CASE e \in rolledBack
  BY <1>1 DEF PhaseOf
<1>2. CASE e \notin rolledBack /\ e \in Stored
  BY <1>2 DEF PhaseOf
<1>3. CASE e \notin rolledBack /\ e \notin Stored
  BY <1>3 DEF PhaseOf
<1>4. QED
  BY <1>1, <1>2, <1>3

\* The same after a step.
LEMMA PhaseFactsPrime ==
  ASSUME NEW e
  PROVE  /\ e \in rolledBack' => PhaseOf(e)' = "kept"
         /\ e \notin rolledBack' /\ e \in Stored' =>
              PhaseOf(e)' = IF store'[e].rollback = "NOT_REQUIRED" THEN "final"
                           ELSE IF store'[e].status = "FAILED" THEN "failed" ELSE "open"
         /\ e \notin rolledBack' /\ e \notin Stored' =>
              PhaseOf(e)' = IF e \in issued' /\ e \notin Unsaved' THEN "lost" ELSE "none"
<1>1. CASE e \in rolledBack'
  BY <1>1 DEF PhaseOf
<1>2. CASE e \notin rolledBack' /\ e \in Stored'
  BY <1>2 DEF PhaseOf
<1>3. CASE e \notin rolledBack' /\ e \notin Stored'
  BY <1>3 DEF PhaseOf
<1>4. QED
  BY <1>1, <1>2, <1>3

\* The abstract variables stutter when nothing they are read off changes.
LEMMA PromiseStutter ==
  ASSUME UNCHANGED <<rolledBack, asked, clock, store>>,
         \A e \in ExecId : e \notin Stored =>
            (e \in issued /\ e \notin Unsaved <=> e \in issued' /\ e \notin Unsaved')
  PROVE  UNCHANGED Promise!vars
<1>1. Stored' = Stored
  BY DEF Stored
<1>2. \A e \in ExecId : PhaseOf(e)' = PhaseOf(e)
  BY <1>1, PhaseFacts, PhaseFactsPrime
<1>3. Outlived' = Outlived
  BY <1>1 DEF Outlived, Expired
<1>4. QED
  BY <1>2, <1>3 DEF Promise!vars

\* The save that ends execute records the execution.
LEMMA SaveExecutionRecords ==
  ASSUME IInv, NEW x \in received, SaveExecution(x)
  PROVE  Promise!Record(x.exec)
<1> DEFINE rec == ExecutionOf(x.request, x.start)
<1>1. /\ x.exec \in ExecId /\ x.request \in Requests /\ x.start \in Nat
      /\ x.exec \notin Stored /\ x.exec \in issued /\ x.exec \notin rolledBack
      /\ rec \in Record /\ rec # None
  BY RecordTyping, ActuatorAssumption DEF IInv, TypeOK, IdInv, ActuatorAssumption
<1>2. /\ store'[x.exec] = rec
      /\ \A e \in ExecId : e # x.exec => store'[e] = store[e]
      /\ Stored' = Stored \cup {x.exec}
      /\ Unsaved' = Unsaved \ {x.exec} /\ x.exec \in Unsaved
      /\ UNCHANGED <<clock, issued, asked, rolledBack>>
  BY <1>1 DEF SaveExecution, history, IInv, TypeOK, IdInv, Stored, Unsaved
<1>3. PhaseOf(x.exec) = "none" /\ PhaseOf(x.exec)' \in {"open", "failed", "final"}
  BY <1>1, <1>2, PhaseFacts, PhaseFactsPrime
<1>4. \A e \in ExecId : e # x.exec => PhaseOf(e)' = PhaseOf(e)
  BY <1>2, PhaseFacts, PhaseFactsPrime
<1>5. /\ Outlived \subseteq ExecId /\ x.exec \notin Outlived
      /\ Outlived' \in {Outlived, Outlived \cup {x.exec}}
  BY <1>1, <1>2 DEF Outlived, Expired, Stored
<1>6. x.exec \in Outlived' => PhaseOf(x.exec)' = "open"
  <2> SUFFICES ASSUME rec.status = "SUCCEEDED", rec.ttl > 0
               PROVE  PhaseOf(x.exec)' = "open"
    BY <1>2 DEF Outlived, Expired
  <2>1. rec.rollback # "NOT_REQUIRED"
    BY <1>1, ExecutionFacts
  <2>2. QED
    BY <1>1, <1>2, <2>1, PhaseFactsPrime
<1>7. QED
  BY <1>1, <1>2, <1>3, <1>4, <1>5, <1>6 DEF Promise!Record

\* Saving RUNNING changes nothing the promise speaks of.
LEMMA SaveRunningStutters ==
  ASSUME IInv, NEW c \in Caller, SaveRunning(c)
  PROVE  UNCHANGED Promise!vars
<1>1. /\ Busy(c)
      /\ store' = [store EXCEPT ![exec[c]] =
                      WithRollback(copy[c], "RUNNING", TriggerOf(c))]
      /\ UNCHANGED <<received, clock, issued, asked, rolledBack>>
  BY DEF SaveRunning, Busy, history
<1>2. /\ exec[c] \in Stored /\ Stored' = Stored
      /\ \A e \in Stored : e # exec[c] => store'[e] = store[e]
      /\ store'[exec[c]].status = store[exec[c]].status
      /\ store'[exec[c]].start = store[exec[c]].start
      /\ store'[exec[c]].ttl = store[exec[c]].ttl
      /\ store'[exec[c]].rollback # "NOT_REQUIRED"
      /\ store[exec[c]].rollback # "NOT_REQUIRED"
  BY <1>1, Overwrite, CallerTyping
<1>3. \A e \in Stored : /\ store'[e].status = store[e].status
                        /\ store'[e].rollback = "NOT_REQUIRED" <=>
                             store[e].rollback = "NOT_REQUIRED"
                        /\ Expired(store[e])' <=> Expired(store[e])
  BY <1>1, <1>2 DEF Expired
<1>4. \A e \in ExecId : PhaseOf(e)' = PhaseOf(e)
  BY <1>1, <1>2, <1>3, PhaseFacts, PhaseFactsPrime DEF Unsaved
<1>5. Outlived' = Outlived
  BY <1>2, <1>3 DEF Outlived
<1>6. QED
  BY <1>1, <1>4, <1>5 DEF Promise!vars

\* The first save of SUCCEEDED keeps the promise, a racing one changes nothing.
LEMMA SaveSucceededKeeps ==
  ASSUME IInv, DueInv, NEW c \in Caller, SaveSucceeded(c), NEW e \in ExecId, exec[c] = e
  PROVE  Promise!Keep(e) \/ UNCHANGED Promise!vars
<1>1. /\ Busy(c)
      /\ store' = [store EXCEPT ![exec[c]] =
                      WithRollback(copy[c], "SUCCEEDED", TriggerOf(c))]
      /\ rolledBack' = rolledBack \cup {e}
      /\ UNCHANGED <<received, clock, issued, asked>>
  BY DEF SaveSucceeded, Busy
<1>2. /\ e \in Stored /\ Stored' = Stored
      /\ \A d \in Stored : d # e => store'[d] = store[d]
      /\ store'[e].status = store[e].status
      /\ store'[e].start = store[e].start
      /\ store'[e].ttl = store[e].ttl
      /\ store[e].rollback # "NOT_REQUIRED"
  BY <1>1, Overwrite, CallerTyping
<1>3. Outlived' = Outlived
  BY <1>1, <1>2 DEF Outlived, Expired
<1>4. \A d \in ExecId : d # e => PhaseOf(d)' = PhaseOf(d)
  BY <1>1, <1>2, PhaseFacts, PhaseFactsPrime DEF Unsaved
<1>5. PhaseOf(e)' = "kept"
  BY <1>1, PhaseFactsPrime
<1>6. CASE e \in rolledBack
  <2>1. PhaseOf(e) = "kept"
    BY <1>6, PhaseFacts
  <2>2. \A d \in ExecId : PhaseOf(d)' = PhaseOf(d)
    BY <2>1, <1>4, <1>5
  <2>3. QED
    BY <2>2, <1>1, <1>3 DEF Promise!vars
<1>7. CASE e \notin rolledBack
  <2>1. c = Scheduler => store[e].status = "SUCCEEDED" /\ e \in Outlived
    BY <1>1, <1>2 DEF DueInv, SchedulerInv, Due, Outlived
  <2>2. c # Scheduler => e \in asked
    BY <1>1 DEF IInv, CopyInv, Caller
  <2>3. PhaseOf(e) = IF store[e].status = "FAILED" THEN "failed" ELSE "open"
    BY <1>2, <1>7, PhaseFacts
  <2>4. \/ PhaseOf(e) = "open" /\ e \in Outlived \cup asked
        \/ PhaseOf(e) = "failed" /\ e \in asked
    BY <2>1, <2>2, <2>3
  <2>5. QED
    BY <2>4, <1>1, <1>3, <1>4, <1>5 DEF Promise!Keep
<1>8. QED
  BY <1>6, <1>7

\* An accepted manual rollback is a request.
LEMMA RequestRequests ==
  ASSUME IInv, NEW m \in Manual, NEW e \in ExecId, RequestRollback(m, e)
  PROVE  Promise!Request(e)
<1>1. /\ e \in Stored /\ store[e].rollback \in {"AVAILABLE", "FAILED"}
      /\ asked' = asked \cup {e}
      /\ UNCHANGED <<store, received, clock, issued, rolledBack>>
  BY DEF RequestRollback, Enter, Rollbackable
<1>2. e \notin rolledBack
  BY <1>1 DEF IInv, RecordInv
<1>3. PhaseOf(e) \in {"open", "failed"}
  BY <1>1, <1>2, PhaseFacts
<1>4. \A d \in ExecId : PhaseOf(d)' = PhaseOf(d)
  BY <1>1, PhaseFacts, PhaseFactsPrime DEF Stored, Unsaved
<1>5. Outlived' = Outlived
  BY <1>1 DEF Outlived, Expired, Stored
<1>6. QED
  BY <1>1, <1>3, <1>4, <1>5 DEF Promise!Request

\* Time passes: some TTLs expire.
LEMMA TickExpires ==
  ASSUME IInv, Tick
  PROVE  Promise!Expire
<1>1. /\ clock' = clock + 1 /\ clock \in Nat /\ Stored' = Stored
      /\ UNCHANGED <<store, received, issued, asked, rolledBack>>
  BY DEF Tick, threads, history, Stored, IInv, TypeOK
<1>2. \A e \in ExecId : PhaseOf(e)' = PhaseOf(e)
  BY <1>1, PhaseFacts, PhaseFactsPrime DEF Unsaved
<1>3. Outlived \subseteq Outlived'
  BY <1>1 DEF Outlived, Expired, IInv, TypeOK, Stored, Record
<1>4. \A e \in Outlived' : e \in ExecId /\ PhaseOf(e) \in {"open", "kept"}
  <2> SUFFICES ASSUME NEW e \in Outlived'
               PROVE  e \in ExecId /\ PhaseOf(e) \in {"open", "kept"}
    OBVIOUS
  <2>1. e \in Stored /\ store[e].status = "SUCCEEDED" /\ store[e].ttl > 0
    BY <1>1 DEF Outlived, Expired
  <2>2. store[e].rollback # "NOT_REQUIRED"
    BY <2>1 DEF IInv, RecordInv
  <2>3. QED
    BY <2>1, <2>2, PhaseFacts DEF Stored
<1>5. Outlived' = Outlived \cup Outlived'
  BY <1>3
<1>6. Outlived' \in SUBSET {e \in ExecId : [d \in ExecId |-> PhaseOf(d)][e] \in {"open", "kept"}}
  BY <1>4
<1>7. QED
  BY <1>1, <1>2, <1>5, <1>6 DEF Promise!Expire

\* A restart loses what was not rolled back.
LEMMA RestartLoses ==
  ASSUME IInv, Restart
  PROVE  Promise!Lose
<1>1. /\ Stored' = {} /\ Unsaved' = {}
      /\ UNCHANGED <<issued, asked, rolledBack>>
  BY DEF Restart, Stored, Unsaved, history
<1>2. Outlived' = {}
  BY <1>1 DEF Outlived
<1>3. ASSUME NEW e \in ExecId
      PROVE  /\ PhaseOf(e)' \in Promise!Phase
             /\ \/ PhaseOf(e)' = "lost" /\ PhaseOf(e) # "kept"
                \/ PhaseOf(e)' = PhaseOf(e) /\ PhaseOf(e) \in {"none", "kept", "lost"}
  <2>1. CASE e \in rolledBack
    BY <2>1, <1>1, PhaseFacts, PhaseFactsPrime DEF Promise!Phase
  <2>2. CASE e \notin rolledBack /\ e \in issued
    <3>1. PhaseOf(e)' = "lost"
      BY <2>2, <1>1, PhaseFactsPrime
    <3>2. PhaseOf(e) # "kept"
      BY <2>2, PhaseFacts
    <3>3. QED
      BY <3>1, <3>2 DEF Promise!Phase
  <2>3. CASE e \notin issued
    <3>1. e \notin Stored \cup rolledBack
      BY <2>3 DEF IInv, IdInv
    <3>2. QED
      BY <2>3, <3>1, <1>1, PhaseFacts, PhaseFactsPrime DEF Promise!Phase
  <2>4. QED
    BY <2>1, <2>2, <2>3
<1>4. QED
  BY <1>1, <1>2, <1>3 DEF Promise!Lose

\* Every step of actuator-service is a step of the promise, or a stutter.
LEMMA StepRefines ==
  ASSUME IInv, DueInv, [Next]_vars
  PROVE  [Promise!Next]_(Promise!vars)
<1>1. ASSUME NEW e \in ExecId, NEW r \in Requests, ReceiveStrategy(e, r)
      PROVE  UNCHANGED Promise!vars
  <2> DEFINE x == [exec |-> e, request |-> r, start |-> clock]
  <2>1. /\ e \notin issued /\ issued' = issued \cup {e}
        /\ received' = received \cup {x} /\ x.exec = e
        /\ UNCHANGED <<store, clock, asked, rolledBack>>
    BY <1>1 DEF ReceiveStrategy, threads, history
  <2>2. \A d : d \in Unsaved' <=> d \in Unsaved \/ d = e
    BY <2>1 DEF Unsaved
  <2>3. \A d \in ExecId : (d \in issued /\ d \notin Unsaved)
                         <=> (d \in issued' /\ d \notin Unsaved')
    BY <2>1, <2>2
  <2>4. QED
    BY <2>1, <2>3, PromiseStutter
<1>2. ASSUME NEW x \in received, SaveExecution(x)
      PROVE  Promise!Next
  BY <1>2, SaveExecutionRecords DEF Promise!Next, IInv, TypeOK
<1>3. ASSUME NEW m \in Manual, NEW e \in ExecId, RequestRollback(m, e)
      PROVE  Promise!Next
  BY <1>3, RequestRequests DEF Promise!Next
<1>4. ASSUME NEW c \in Caller, SaveRunning(c)
      PROVE  UNCHANGED Promise!vars
  BY <1>4, SaveRunningStutters
<1>5. ASSUME NEW c \in Caller, SaveSucceeded(c)
      PROVE  Promise!Next \/ UNCHANGED Promise!vars
  <2>1. exec[c] \in ExecId
    BY <1>5 DEF SaveSucceeded, IInv, TypeOK
  <2>2. PICK e \in ExecId : exec[c] = e
    BY <2>1
  <2>3. QED
    BY <1>5, <2>2, SaveSucceededKeeps DEF Promise!Next
<1>6. CASE Scheduled \/ UNCHANGED vars
  <2>1. UNCHANGED <<store, received, clock, issued, asked, rolledBack>>
    BY <1>6 DEF Scheduled, Poll, AutoRollback, SkipRolledBack, AbortBatch, vars, history
  <2>2. QED
    BY <2>1, PromiseStutter DEF Unsaved
<1>7. CASE Tick
  BY <1>7, TickExpires DEF Promise!Next
<1>8. CASE Restart
  BY <1>8, RestartLoses DEF Promise!Next
<1>9. QED
  BY <1>1, <1>2, <1>3, <1>4, <1>5, <1>6, <1>7, <1>8 DEF Next

(***************************************************************************)
(* If no deadline overflows, actuator-service keeps the safety part of its *)
(* promise: an execution is rolled back after its TTL or on request only,  *)
(* a failed one on request only, a rejected one never.                     *)
(***************************************************************************)
THEOREM ImplementsPromise ==
  ASSUME NoOverflow
  PROVE  Spec => Promise!SafeSpec
<1>1. Init => Promise!Init
  <2> SUFFICES ASSUME Init
               PROVE  Promise!Init
    OBVIOUS
  <2>1. Stored = {} /\ Outlived = {} /\ asked = {} /\ rolledBack = {} /\ issued = {}
    BY DEF Init, Stored, Outlived
  <2>2. \A e \in ExecId : PhaseOf(e) = "none"
    BY <2>1, PhaseFacts
  <2>3. QED
    BY <2>1, <2>2 DEF Promise!Init
<1>2. Init => DueInv
  BY CallerTyping
  DEF Init, DueInv, NoOverflowInStore, SchedulerInv, AutoRollbackIsDue, Busy, Stored
<1>3. IInv /\ DueInv /\ [Next]_vars => DueInv'
  BY DueInductive
<1>4. IInv /\ DueInv /\ [Next]_vars => [Promise!Next]_(Promise!vars)
  BY StepRefines
<1>5. QED
  BY <1>1, <1>2, <1>3, <1>4, Invariant, PTL DEF Spec, Promise!SafeSpec
=============================================================================
