----------------------------- MODULE MCActuator -----------------------------
(* Small instances of Actuator for TLC. *)
EXTENDS Actuator, TLC

BlockIp == [type |-> "BLOCK_IP", target |-> "safe", nullSignature |-> FALSE]
BlockDomain == [BlockIp EXCEPT !.type = "BLOCK_DOMAIN"]

\* Executed and reverted after one or two units of time.
Short == [id |-> "safe", plan |-> "present", actions |-> <<BlockIp>>, ttl |-> 1]
Long == [Short EXCEPT !.ttl = 2]
\* Executed for good, rejected by validation, no adapter.
Permanent == [Short EXCEPT !.ttl = 0]
NoPlan == [Short EXCEPT !.plan = "missing"]
NoAdapter == [Short EXCEPT !.actions = <<BlockIp, BlockDomain>>]

MCRequests == {Short, Long, Permanent, NoPlan, NoAdapter}
TtlRequests == {Short, Permanent, NoPlan, NoAdapter}

Symmetry == Permutations(ExecId) \cup Permutations(Manual)

=============================================================================
