----------------------------- MODULE EventDelivery -----------------------------
(***************************************************************************)
(* What the Kafka worker of agent-brain promises about the records of the  *)
(* topic, without positions, commits and threads. Records are settled in   *)
(* the order of the topic: the handler ran to its end, with or without     *)
(* success. What is settled may be handled again, which does not show. A   *)
(* record is lost only in two ways: an orderly shutdown loses at most the  *)
(* next one, and a consumer that joins before the group has a place on the *)
(* topic may skip everything there is. Once it has one, it keeps it.       *)
(***************************************************************************)
EXTENDS Naturals, Sequences

VARIABLES
  fate,     \* of each record of the topic, in order
  placed    \* the group has a place on the topic

Init == fate = <<>> /\ placed = FALSE

Publish == fate' = Append(fate, "waiting") /\ UNCHANGED placed

\* Everything before the record has left the queue.
IsNext(o) ==
  /\ o \in DOMAIN fate
  /\ fate[o] = "waiting"
  /\ \A p \in 1 .. o - 1 : fate[p] # "waiting"

Settle ==
  /\ \E o \in DOMAIN fate : IsNext(o) /\ fate' = [fate EXCEPT ![o] = "settled"]
  /\ UNCHANGED placed

TakePlace == placed' = TRUE /\ UNCHANGED fate

StopLosesNext ==
  /\ \E o \in DOMAIN fate : IsNext(o) /\ fate' = [fate EXCEPT ![o] = "lost"]
  /\ placed' \in {placed, TRUE}

JoinAtEnd ==
  /\ ~placed
  /\ fate' = [o \in DOMAIN fate |-> IF fate[o] = "waiting" THEN "lost" ELSE fate[o]]
  /\ UNCHANGED placed

Next == Publish \/ Settle \/ TakePlace \/ StopLosesNext \/ JoinAtEnd

Spec == Init /\ [][Next]_<<fate, placed>>

=============================================================================
