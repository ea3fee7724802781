------------------------------ MODULE Actuator ------------------------------
(***************************************************************************)
(* actuator-service: the store of execution records, the execution of      *)
(* strategies, manual rollbacks (one HTTP thread each) and the scheduler   *)
(* thread that rolls back what outlived its TTL.                           *)
(*                                                                         *)
(* RollbackServiceImpl.rollback reads a record, checks it, saves it as     *)
(* RUNNING and saves it again as SUCCEEDED, from the copy it read and      *)
(* without a lock: each of these is a step of its own, so the callers      *)
(* interleave. The store is a ConcurrentHashMap in memory: a restart       *)
(* forgets everything.                                                     *)
(***************************************************************************)
EXTENDS ActuatorStrategy

CONSTANTS
  ExecId,            \* execution ids (random UUIDs, never issued twice)
  Requests,          \* the strategies that clients submit
  Manual,            \* HTTP threads that serve POST .../rollback
  Scheduler,         \* the @Scheduled thread
  SchedulerEnabled,  \* app.rollback.scheduler-enabled
  None,              \* no such key in the store; no value
  MaxLong,           \* largest value of a Java long
  MaxTime,           \* bound on the clock
  MaxRestarts        \* bound on restarts of the process

ASSUME ActuatorAssumption ==
  /\ \A r \in Requests : r \in Strategy /\ r.ttl <= MaxLong
  /\ Scheduler \notin Manual
  /\ SchedulerEnabled \in BOOLEAN
  /\ None \notin ExecId /\ None \notin Record
  /\ MaxLong \in Nat /\ MaxTime \in 0 .. MaxLong
  /\ MaxRestarts \in Nat

Caller == Manual \cup {Scheduler}

VARIABLES
  store,       \* ExecutionRecordRepository.storage
  received,    \* executions begun and not yet saved
  clock,       \* Instant.now().getEpochSecond()
  pc,          \* where each caller is inside RollbackServiceImpl.rollback
  exec,        \* the execution id it was called with
  copy,        \* the record it read ("existing") or built last ("running")
  batch,       \* the candidates processAutoRollback has still to visit
  issued,      \* execution ids issued so far
  restarts,
  asked,       \* history: executions whose manual rollback was accepted
  rolledBack   \* history: executions saved with a rollback that succeeded

threads == <<pc, exec, copy, batch>>
history == <<asked, rolledBack>>
vars == <<store, received, clock, threads, issued, restarts, history>>

Init ==
  /\ store = [e \in ExecId |-> None]
  /\ received = {}
  /\ clock = 0
  /\ pc = [c \in Caller |-> "idle"]
  /\ exec = [c \in Caller |-> None]
  /\ copy = [c \in Caller |-> None]
  /\ batch = {}
  /\ issued = {}
  /\ restarts = 0
  /\ asked = {}
  /\ rolledBack = {}

Stored == {e \in ExecId : store[e] # None}

-----------------------------------------------------------------------------
(* StrategyExecutionServiceImpl.execute *)

\* A well-formed request gets a fresh id and the time at which it started.
ReceiveStrategy(e, r) ==
  /\ WellFormed(r)
  /\ e \notin issued
  /\ issued' = issued \cup {e}
  /\ received' = received \cup {[exec |-> e, request |-> r, start |-> clock]}
  /\ UNCHANGED <<store, clock, threads, restarts, history>>

\* Validation, adapters and the save that ends every path of execute.
SaveExecution(x) ==
  /\ received' = received \ {x}
  /\ store' = [store EXCEPT ![x.exec] = ExecutionOf(x.request, x.start)]
  /\ UNCHANGED <<clock, threads, issued, restarts, history>>

-----------------------------------------------------------------------------
(* RollbackServiceImpl.rollback, in three steps *)

\* Mutant: a record that needs no rollback passes the check.
RollbackableOrNotRequired(rec) == rec.rollback \notin {"RUNNING", "SUCCEEDED"}

\* Neither "already succeeded" nor "not rollbackable".
Rollbackable(rec) == rec.rollback \in {"AVAILABLE", "FAILED"}

\* Mutant: the trigger of a manual rollback is left null.
NullTriggerOf(c) == IF c = Scheduler THEN "TTL_AUTO" ELSE None

TriggerOf(c) == IF c = Scheduler THEN "TTL_AUTO" ELSE "MANUAL"

\* findById and the two checks pass for caller c and execution e.
Enter(c, e) ==
  /\ pc[c] = "idle"
  /\ e \in Stored
  /\ Rollbackable(store[e])
  /\ pc' = [pc EXCEPT ![c] = "checked"]
  /\ exec' = [exec EXCEPT ![c] = e]
  /\ copy' = [copy EXCEPT ![c] = store[e]]

\* repository.save(running)
SaveRunning(c) ==
  /\ pc[c] = "checked"
  /\ LET running == WithRollback(copy[c], "RUNNING", TriggerOf(c))
     IN  /\ copy' = [copy EXCEPT ![c] = running]
         /\ store' = [store EXCEPT ![exec[c]] = running]
  /\ pc' = [pc EXCEPT ![c] = "running"]
  /\ UNCHANGED <<received, clock, exec, batch, issued, restarts, history>>

\* Mutant: the outcome is not saved.
ForgetSucceeded(c) ==
  /\ pc[c] = "running"
  /\ rolledBack' = rolledBack \cup {exec[c]}
  /\ pc' = [pc EXCEPT ![c] = "idle"]
  /\ exec' = [exec EXCEPT ![c] = None]
  /\ copy' = [copy EXCEPT ![c] = None]
  /\ UNCHANGED <<store, received, clock, batch, issued, restarts, asked>>

\* repository.save(success)
SaveSucceeded(c) ==
  /\ pc[c] = "running"
  /\ store' = [store EXCEPT ![exec[c]] =
                 WithRollback(copy[c], "SUCCEEDED", TriggerOf(c))]
  /\ rolledBack' = rolledBack \cup {exec[c]}
  /\ pc' = [pc EXCEPT ![c] = "idle"]
  /\ exec' = [exec EXCEPT ![c] = None]
  /\ copy' = [copy EXCEPT ![c] = None]
  /\ UNCHANGED <<received, clock, batch, issued, restarts, asked>>

\* POST /strategies/{e}/rollback. An unknown id gets a 404, a record that is
\* not rollbackable a 400 and one already rolled back itself: no step.
RequestRollback(m, e) ==
  /\ Enter(m, e)
  /\ asked' = asked \cup {e}
  /\ UNCHANGED <<store, received, clock, batch, issued, restarts, rolledBack>>

-----------------------------------------------------------------------------
(* RollbackManager.processAutoRollback *)

\* start + ttl in the arithmetic of a Java long, for a positive ttl.
DueAt(rec) ==
  LET sum == rec.start + rec.ttl
  IN  IF sum > MaxLong THEN sum - 2 * (MaxLong + 1) ELSE sum

\* Mutants: the TTL is not awaited; only the very second is matched; failed
\* rollbacks are candidates too.
EagerCandidates ==
  {e \in Stored : store[e].ttl > 0 /\ store[e].rollback = "AVAILABLE"}

PunctualCandidates == {e \in EagerCandidates : clock = DueAt(store[e])}

RetriedCandidates ==
  {e \in Stored : /\ store[e].ttl > 0
                  /\ store[e].rollback \in {"AVAILABLE", "FAILED"}
                  /\ clock >= DueAt(store[e])}

\* findAutoRollbackCandidates(clock)
Candidates ==
  {e \in Stored : /\ store[e].ttl > 0
                  /\ store[e].rollback = "AVAILABLE"
                  /\ clock >= DueAt(store[e])}

\* One tick of the scheduler: a snapshot of what is due.
Poll ==
  /\ SchedulerEnabled
  /\ pc[Scheduler] = "idle"
  /\ batch = {}
  /\ Candidates # {}
  /\ batch' = Candidates
  /\ UNCHANGED <<store, received, clock, pc, exec, copy, issued, restarts, history>>

\* findAll sorts by start time, latest first.
NextInBatch(e) ==
  /\ pc[Scheduler] = "idle"
  /\ e \in batch
  /\ \A other \in batch : store[other].start <= store[e].start

AutoRollback(e) ==
  /\ NextInBatch(e)
  /\ Enter(Scheduler, e)
  /\ batch' = batch \ {e}
  /\ UNCHANGED <<store, received, clock, issued, restarts, history>>

\* The candidate was rolled back since the snapshot: the call returns.
SkipRolledBack(e) ==
  /\ NextInBatch(e)
  /\ store[e].rollback = "SUCCEEDED"
  /\ batch' = batch \ {e}
  /\ UNCHANGED <<store, received, clock, pc, exec, copy, issued, restarts, history>>

\* It is being rolled back: BusinessException leaves the loop, and the rest
\* of the batch waits for another poll.
AbortBatch(e) ==
  /\ NextInBatch(e)
  /\ store[e].rollback # "SUCCEEDED"
  /\ ~Rollbackable(store[e])
  /\ batch' = {}
  /\ UNCHANGED <<store, received, clock, pc, exec, copy, issued, restarts, history>>

-----------------------------------------------------------------------------

Tick ==
  /\ clock < MaxTime
  /\ clock' = clock + 1
  /\ UNCHANGED <<store, received, threads, issued, restarts, history>>

\* The process dies and starts again with an empty map.
Restart ==
  /\ restarts < MaxRestarts
  /\ restarts' = restarts + 1
  /\ store' = [e \in ExecId |-> None]
  /\ received' = {}
  /\ pc' = [c \in Caller |-> "idle"]
  /\ exec' = [c \in Caller |-> None]
  /\ copy' = [c \in Caller |-> None]
  /\ batch' = {}
  /\ UNCHANGED <<clock, issued, history>>

Scheduled ==
  \/ Poll
  \/ \E e \in ExecId : AutoRollback(e) \/ SkipRolledBack(e) \/ AbortBatch(e)

Next ==
  \/ \E e \in ExecId, r \in Requests : ReceiveStrategy(e, r)
  \/ \E x \in received : SaveExecution(x)
  \/ \E m \in Manual, e \in ExecId : RequestRollback(m, e)
  \/ \E c \in Caller : SaveRunning(c) \/ SaveSucceeded(c)
  \/ Scheduled
  \/ Tick
  \/ Restart

Spec == Init /\ [][Next]_vars

(***************************************************************************)
(* Spring runs the scheduled method again after each run, and a thread     *)
(* inside rollback() has nothing to wait for. Nobody has to submit a       *)
(* strategy or ask for a rollback, and no execution has to finish.         *)
(***************************************************************************)
FairSpec ==
  /\ Spec
  /\ WF_vars(Scheduled)
  /\ \A c \in Caller : WF_vars(SaveRunning(c) \/ SaveSucceeded(c))
-----------------------------------------------------------------------------

\* Types of the variables; a thread inside rollback() has an id and a record.
TypeOK ==
  /\ store \in [ExecId -> Record \cup {None}]
  /\ received \subseteq [exec : ExecId, request : Requests, start : Nat]
  /\ clock \in Nat
  /\ pc \in [Caller -> {"idle", "checked", "running"}]
  /\ exec \in [Caller -> ExecId \cup {None}]
  /\ copy \in [Caller -> Record \cup {None}]
  /\ \A c \in Caller : pc[c] # "idle" => exec[c] \in ExecId /\ copy[c] \in Record
  /\ batch \subseteq ExecId
  /\ issued \subseteq ExecId
  /\ restarts \in Nat
  /\ asked \subseteq ExecId
  /\ rolledBack \subseteq ExecId

(***************************************************************************)
(* RUNNING is a state no caller can leave through rollback() and no poll   *)
(* picks up, so a record may only be RUNNING while a thread is about to    *)
(* save its outcome, whatever races with that thread.                      *)
(***************************************************************************)
NoOrphanRollback ==
  \A e \in Stored : store[e].rollback = "RUNNING" =>
    \E c \in Caller : pc[c] = "running" /\ exec[c] = e

\* The ttl of the record has really passed.
Expired(rec) == rec.ttl > 0 /\ clock >= rec.start + rec.ttl

(***************************************************************************)
(* "ttl_expired" is the reason of a rollback only after the TTL, and only  *)
(* for a strategy that was executed: a batch computed earlier, a record    *)
(* that changed since, or a racing manual rollback do not alter that.      *)
(***************************************************************************)
AutoRollbackIsDue ==
  \A e \in Stored : store[e].trigger = "TTL_AUTO" =>
    store[e].status = "SUCCEEDED" /\ Expired(store[e])

(***************************************************************************)
(* Saving from a copy read earlier never rewrites what execute recorded,   *)
(* nor attaches a rollback to a record that needs none.                    *)
(***************************************************************************)
SameExecution(old, new) ==
  /\ <<new.status, new.start, new.ttl>> = <<old.status, old.start, old.ttl>>
  /\ old.rollback = "NOT_REQUIRED" => new = old

RollbackKeepsExecution ==
  [][\A e \in Stored : store'[e] # None => SameExecution(store[e], store'[e])]_vars

(***************************************************************************)
(* A rollback that has succeeded is skipped from then on                   *)
(* ("Skip rollback, already succeeded").                                   *)
(***************************************************************************)
SucceededIsFinal ==
  [][\A e \in Stored : store[e].rollback = "SUCCEEDED" =>
        store'[e] \in {store[e], None}]_vars

(***************************************************************************)
(* Whatever outlives its TTL is rolled back, even when batches are aborted *)
(* by concurrent manual rollbacks; only a restart may forget it.           *)
(***************************************************************************)
DueIsRolledBack ==
  \A e \in ExecId :
    (e \in Stored /\ SchedulerEnabled /\ store[e].status = "SUCCEEDED"
       /\ Expired(store[e]))
      ~> (e \in rolledBack \/ store[e] = None)

-----------------------------------------------------------------------------
(* What the component promises, read off its state. *)

Unsaved == {x.exec : x \in received}

PhaseOf(e) ==
  CASE e \in rolledBack                              -> "kept"
    [] e \notin rolledBack /\ e \in Stored ->
         IF store[e].rollback = "NOT_REQUIRED" THEN "final"
         ELSE IF store[e].status = "FAILED" THEN "failed" ELSE "open"
    [] e \notin rolledBack /\ e \notin Stored ->
         IF e \in issued /\ e \notin Unsaved THEN "lost" ELSE "none"

Outlived ==
  {e \in Stored : store[e].status = "SUCCEEDED" /\ Expired(store[e])}

Promise == INSTANCE RollbackPromise WITH
  phase <- [e \in ExecId |-> PhaseOf(e)], expired <- Outlived, requested <- asked

(***************************************************************************)
(* Threads, stale copies and aborted batches implement the promise: no     *)
(* execution is rolled back before its TTL unless asked for, a failed one  *)
(* only when asked for, a final one never, and each rollback that is due   *)
(* or accepted does happen unless a restart forgets it.                    *)
(***************************************************************************)
KeepsPromise == Promise!Spec

=============================================================================
