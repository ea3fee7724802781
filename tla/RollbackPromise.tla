--------------------------- MODULE RollbackPromise ---------------------------
(***************************************************************************)
(* What actuator-service promises about the executions it accepts, without *)
(* threads, records or polling: an execution with a TTL stays open until   *)
(* it is rolled back, which happens only after the TTL or because somebody *)
(* asked, and then for certain, unless the process forgets the execution   *)
(* before. A failed execution is rolled back on request only, a final one  *)
(* (rejected, or executed without TTL) never.                              *)
(***************************************************************************)
CONSTANT ExecId

VARIABLES
  phase,      \* what has become of each execution
  expired,    \* executions whose TTL has passed
  requested   \* executions somebody asked to roll back

vars == <<phase, expired, requested>>

Phase == {"none", "open", "failed", "final", "kept", "lost"}

TypeOK ==
  /\ phase \in [ExecId -> Phase]
  /\ expired \subseteq ExecId
  /\ requested \subseteq ExecId

Init ==
  /\ phase = [e \in ExecId |-> "none"]
  /\ expired = {}
  /\ requested = {}

\* An execution is recorded, possibly so late that its TTL has passed.
Record(e) ==
  /\ phase[e] = "none"
  /\ \E p \in {"open", "failed", "final"} :
        /\ phase' = [phase EXCEPT ![e] = p]
        /\ expired' \in IF p = "open" THEN {expired, expired \cup {e}} ELSE {expired}
  /\ UNCHANGED requested

Expire ==
  /\ \E E \in SUBSET {e \in ExecId : phase[e] \in {"open", "kept"}} :
        expired' = expired \cup E
  /\ UNCHANGED <<phase, requested>>

Request(e) ==
  /\ phase[e] \in {"open", "failed"}
  /\ requested' = requested \cup {e}
  /\ UNCHANGED <<phase, expired>>

Keep(e) ==
  /\ \/ phase[e] = "open" /\ e \in expired \cup requested
     \/ phase[e] = "failed" /\ e \in requested
  /\ phase' = [phase EXCEPT ![e] = "kept"]
  /\ UNCHANGED <<expired, requested>>

\* What is not kept yet may be forgotten, all of it at once.
Lose ==
  /\ phase' \in [ExecId -> Phase]
  /\ \A e \in ExecId :
        \/ phase'[e] = "lost" /\ phase[e] # "kept"
        \/ phase'[e] = phase[e] /\ phase[e] \in {"none", "kept", "lost"}
  /\ expired' = {}
  /\ UNCHANGED requested

Next ==
  \/ \E e \in ExecId : Record(e) \/ Request(e) \/ Keep(e)
  \/ Expire
  \/ Lose

SafeSpec == Init /\ [][Next]_vars

Spec == SafeSpec /\ \A e \in ExecId : WF_vars(Keep(e))

=============================================================================
