------------------------------ MODULE EventIngest ------------------------------
(***************************************************************************)
(* SecurityEventIngestWorker of agent-brain: a daemon thread that feeds    *)
(* the records defense-gateway publishes to the workflow (EventWorkflow),  *)
(* while the main thread starts and stops the service.                     *)
(*                                                                         *)
(* Of the Kafka consumer, which is external, the model keeps what the      *)
(* worker relies on: a record's position is passed just before the record  *)
(* is yielded; positions are committed in the background only between two  *)
(* records, and by close(), which another thread calls; a consumer that    *)
(* was too slow loses its place in the group and goes back to the          *)
(* committed position, or to auto_offset_reset if there is none.           *)
(***************************************************************************)
EXTENDS DefenseGateway, FiniteSets

CONSTANTS
  ResetToLatest,   \* auto_offset_reset is latest, not earliest
  MaxStarts,       \* times the service is started
  MaxRejoins       \* times the consumer loses its place

ASSUME IngestAssumption ==
  /\ ResetToLatest \in BOOLEAN
  /\ MaxStarts \in Nat /\ MaxRejoins \in Nat /\ MaxPosts \in Nat
  /\ None \notin Nat

VARIABLES
  service,     \* the process, and how far stop() is
  thread,      \* the worker's thread
  consumer,    \* self._consumer
  position,    \* offset of the next record
  inHand,      \* the record the handler works on, or None
  committed,   \* the group's committed position, at the broker, or None
  base,        \* where reading without a committed position last began
  settled,     \* records whose handler returned
  tries,       \* how often each record was handed to the handler
  starts, stops, rejoins

worker == <<service, thread, consumer, position, inHand, committed, base, settled, tries>>
counters == <<starts, stops, rejoins>>
vars == <<gateway, worker, counters>>

Init ==
  /\ GatewayInit
  /\ service = "down"
  /\ thread = "none"
  /\ consumer = "none"
  /\ position = 1
  /\ inHand = None
  /\ committed = None
  /\ base = 1
  /\ settled = {}
  /\ tries = [o \in 1 .. MaxPosts |-> 0]
  /\ starts = 0 /\ stops = 0 /\ rejoins = 0

Stopping == service \in {"stopping", "closed"}

-----------------------------------------------------------------------------
(* The main thread *)

Start ==
  /\ service = "down"
  /\ starts < MaxStarts
  /\ service' = "up"
  /\ thread' = "connecting"
  /\ starts' = starts + 1
  /\ UNCHANGED <<gateway, consumer, position, inHand, committed, base, settled, tries,
                 stops, rejoins>>

\* stop: the flag first, then the consumer.
SetStop ==
  /\ service = "up"
  /\ service' = "stopping"
  /\ stops' = stops + 1
  /\ UNCHANGED <<gateway, thread, consumer, position, inHand, committed, base, settled,
                 tries, starts, rejoins>>

\* close() commits where the thread has got to, unless the group has moved on.
CloseConsumer ==
  /\ service = "stopping"
  /\ service' = "closed"
  /\ IF consumer = "open"
     THEN consumer' = "closed" /\ committed' \in {committed, position}
     ELSE UNCHANGED <<consumer, committed>>
  /\ UNCHANGED <<gateway, thread, position, inHand, base, settled, tries, counters>>

\* The process ends with all its threads.
Ends ==
  /\ service' = "down"
  /\ thread' = "none"
  /\ consumer' = "none"
  /\ inHand' = None
  /\ UNCHANGED <<gateway, position, committed, base, settled, tries, counters>>

\* After join(timeout=5), whether or not the thread is done.
Exit == service = "closed" /\ Ends

Crash == service # "down" /\ Ends

-----------------------------------------------------------------------------
(* The worker's thread: _run *)

\* Where reading begins, and what that skips.
SeekTo(start) ==
  IF start = None
  THEN /\ position' = IF ResetToLatest THEN Len(log) + 1 ELSE 1
       /\ base' = IF ResetToLatest THEN Len(log) + 1 ELSE base
  ELSE position' = start /\ UNCHANGED base

Connect ==
  /\ thread = "connecting"
  /\ thread' = "polling"
  /\ consumer' = "open"
  /\ SeekTo(committed)
  /\ UNCHANGED <<gateway, service, inHand, committed, settled, tries, counters>>

Between == thread = "polling" /\ consumer = "open" /\ inHand = None

\* An exception ends the thread, and nothing in this process starts another.
Die ==
  /\ thread = "connecting" \/ Between
  /\ thread' = "ended"
  /\ UNCHANGED <<gateway, service, consumer, position, inHand, committed, base,
                 settled, tries, counters>>

\* Mutant: a stopping worker passes the record over and goes on.
TakeOn ==
  /\ Between
  /\ position <= Len(log)
  /\ position' = position + 1
  /\ IF Stopping
     THEN UNCHANGED <<inHand, tries>>
     ELSE inHand' = position /\ tries' = [tries EXCEPT ![position] = @ + 1]
  /\ UNCHANGED <<gateway, service, thread, consumer, committed, base, settled, counters>>

\* Mutant: the last record is left on the topic.
TakeButLast == position < Len(log) /\ TakeOn

\* Mutant: the position is committed when a record is taken.
TakeAndCommit ==
  /\ Between
  /\ position <= Len(log)
  /\ position' = position + 1
  /\ committed' = position + 1
  /\ inHand' = position
  /\ tries' = [tries EXCEPT ![position] = @ + 1]
  /\ UNCHANGED <<gateway, service, thread, consumer, base, settled, counters>>

\* The flag is looked at when the record has been yielded.
Take ==
  /\ Between
  /\ position <= Len(log)
  /\ position' = position + 1
  /\ IF Stopping
     THEN thread' = "ended" /\ UNCHANGED <<inHand, tries>>
     ELSE /\ inHand' = position
          /\ tries' = [tries EXCEPT ![position] = @ + 1]
          /\ UNCHANGED thread
  /\ UNCHANGED <<gateway, service, consumer, committed, base, settled, counters>>

\* Mutant: a record whose handler failed is read again.
HandleOrRetry ==
  /\ inHand # None
  /\ \/ settled' = settled \cup {inHand} /\ UNCHANGED position
     \/ position' = inHand /\ UNCHANGED settled
  /\ inHand' = None
  /\ UNCHANGED <<gateway, service, thread, consumer, committed, base, tries, counters>>

\* _handle_raw: a record that cannot be read, or whose workflow fails, is settled too.
Handle ==
  /\ inHand # None
  /\ settled' = settled \cup {inHand}
  /\ inHand' = None
  /\ UNCHANGED <<gateway, service, thread, consumer, position, committed, base, tries,
                 counters>>

\* Mutant: the position after the next one is committed.
CommitNext ==
  /\ Between
  /\ committed # position + 1
  /\ committed' = position + 1
  /\ UNCHANGED <<gateway, service, thread, consumer, position, inHand, base, settled,
                 tries, counters>>

AutoCommit ==
  /\ Between
  /\ committed # position
  /\ committed' = position
  /\ UNCHANGED <<gateway, service, thread, consumer, position, inHand, base, settled,
                 tries, counters>>

\* max_poll_interval_ms has passed since the last poll.
Rejoin ==
  /\ Between
  /\ rejoins < MaxRejoins
  /\ rejoins' = rejoins + 1
  /\ SeekTo(committed)
  /\ UNCHANGED <<gateway, service, thread, consumer, inHand, committed, settled, tries,
                 starts, stops>>

\* The iterator of a closed consumer is at its end.
StreamEnds ==
  /\ thread = "polling" /\ consumer = "closed" /\ inHand = None
  /\ thread' = "ended"
  /\ UNCHANGED <<gateway, service, consumer, position, inHand, committed, base, settled,
                 tries, counters>>

Thread == Connect \/ Take \/ Handle \/ StreamEnds

Next ==
  \/ GatewayNext /\ UNCHANGED <<worker, counters>>
  \/ Start \/ SetStop \/ CloseConsumer \/ Exit \/ Crash
  \/ Thread \/ Die \/ AutoCommit \/ Rejoin

Spec == Init /\ [][Next]_vars

(***************************************************************************)
(* The thread goes on as long as there is something to do. Nothing is      *)
(* assumed of commits, of the broker or of who starts and stops services.  *)
(***************************************************************************)
FairSpec == Spec /\ WF_vars(Thread)

-----------------------------------------------------------------------------
(* Type correctness *)

TypeOK ==
  /\ GatewayTypeOK
  /\ service \in {"down", "up", "stopping", "closed"}
  /\ thread \in {"none", "connecting", "polling", "ended"}
  /\ consumer \in {"none", "open", "closed"}
  /\ position \in 1 .. Len(log) + 1
  /\ inHand \in (1 .. Len(log)) \cup {None}
  /\ committed \in (1 .. Len(log) + 1) \cup {None}
  /\ base \in 1 .. Len(log) + 1
  /\ settled \subseteq 1 .. Len(log)
  /\ tries \in [1 .. MaxPosts -> Nat]
  /\ starts \in 0 .. MaxStarts
  /\ stops \in 0 .. starts
  /\ rejoins \in 0 .. MaxRejoins

-----------------------------------------------------------------------------
(* Safety *)

\* Records the group has passed that no handler has seen to its end.
Unsettled == {o \in base .. Len(log) : o \notin settled}

Passed(o) == committed # None /\ o < committed

(***************************************************************************)
(* A crash repeats work but loses nothing: of the records the worker has   *)
(* begun to read from, at most one for every orderly shutdown is committed *)
(* without having been handled, and the one in hand of a stopping service. *)
(***************************************************************************)
LossIsBounded ==
  Cardinality({o \in Unsettled : Passed(o)}) <= stops

\* No record reaches the handler more often than reading began anew.
RepeatsAreBounded == \A o \in DOMAIN tries : tries[o] <= starts + rejoins

(***************************************************************************)
(* An event the gateway has accepted gets no further record: whoever       *)
(* repeats the POST is refused. The record is not made up for either, if   *)
(* the producer has dropped it.                                            *)
(***************************************************************************)
AcceptedIsPublishedOnce ==
  [][\A e \in saved :
       Cardinality(RecordsOf(Records', e)) <= Cardinality(RecordsOf(Records, e))]_vars

\* What a record is, seen from outside.
FateOf(o) ==
  CASE o \in settled -> "settled"
    [] o \notin settled /\ (o < base \/ (Passed(o) /\ o # inHand)) -> "lost"
    [] o \notin settled /\ ~(o < base \/ (Passed(o) /\ o # inHand)) -> "waiting"

Delivery == INSTANCE EventDelivery WITH
  fate <- [o \in 1 .. Len(log) |-> FateOf(o)], placed <- committed # None

\* The worker implements the delivery it promises.
DeliversInOrder == Delivery!Spec

-----------------------------------------------------------------------------
(* Liveness *)

(***************************************************************************)
(* Every record is settled or lost, unless the worker stops working: a     *)
(* service that is down, or one whose thread has ended, reads no more.     *)
(***************************************************************************)
RecordsAreReached ==
  \A o \in 1 .. MaxPosts :
    o <= Len(log) ~> FateOf(o) # "waiting" \/ thread \in {"none", "ended"}

=============================================================================
