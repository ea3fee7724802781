---------------------------- MODULE DefenseGateway ----------------------------
(***************************************************************************)
(* defense-gateway: POST /api/events inserts the event into its table,     *)
(* hands a record of it to the Kafka producer and commits, in this order.  *)
(* Kafka is external: the producer sends its records in order, one after   *)
(* the other, and drops what it could not send in time; the gateway never  *)
(* looks at the outcome of a send. The topic has one partition.            *)
(***************************************************************************)
EXTENDS Naturals, Sequences, SequencesExt

CONSTANTS
  EventId,    \* the ids clients send
  Client,     \* concurrent requests
  MaxPosts,   \* requests the clients make altogether
  None        \* no event

VARIABLES
  saved,      \* committed rows, by event id
  request,    \* the request each thread works on
  outbox,     \* records the producer has not delivered yet
  log,        \* the topic security.events
  posts       \* requests so far

gateway == <<saved, request, outbox, log, posts>>

\* No request, or one that has been answered.
Idle == [stage |-> "idle", event |-> None]

Open(c) == request[c] # Idle

Records == log \o outbox

\* Records of an event, on their way or on the topic.
RecordsOf(records, e) == {i \in DOMAIN records : records[i] = e}

GatewayInit ==
  /\ saved = {}
  /\ request = [c \in Client |-> Idle]
  /\ outbox = <<>>
  /\ log = <<>>
  /\ posts = 0

Answered(c) == request' = [request EXCEPT ![c] = Idle]

\* Mutant: the record is handed over before the row is inserted.
PublishFirst(c, e) ==
  /\ ~Open(c)
  /\ posts < MaxPosts
  /\ \A d \in Client : Open(d) => request[d].event # e
  /\ request' = [request EXCEPT ![c] =
       IF e \in saved THEN Idle ELSE [stage |-> "inserted", event |-> e]]
  /\ outbox' = Append(outbox, e)
  /\ posts' = posts + 1
  /\ UNCHANGED <<saved, log>>

(***************************************************************************)
(* repository.save: the id is an IDENTITY column, so the row is inserted   *)
(* at once. A duplicate id is refused; as long as another transaction      *)
(* holds the id, the insert waits for it.                                  *)
(***************************************************************************)
Insert(c, e) ==
  /\ ~Open(c)
  /\ posts < MaxPosts
  /\ \A d \in Client : Open(d) => request[d].event # e
  /\ request' = [request EXCEPT ![c] =
       IF e \in saved THEN Idle ELSE [stage |-> "inserted", event |-> e]]
  /\ posts' = posts + 1
  /\ UNCHANGED <<saved, outbox, log>>

\* publishToKafka: the future of the send is dropped.
Publish(c) ==
  /\ request[c].stage = "inserted"
  /\ outbox' = Append(outbox, request[c].event)
  /\ request' = [request EXCEPT ![c].stage = "published"]
  /\ UNCHANGED <<saved, log, posts>>

Commit(c) ==
  /\ request[c].stage = "published"
  /\ saved' = saved \cup {request[c].event}
  /\ Answered(c)
  /\ UNCHANGED <<outbox, log, posts>>

\* The database is gone, or too slow: the record stays with the producer.
RollBack(c) ==
  /\ Open(c)
  /\ Answered(c)
  /\ UNCHANGED <<saved, outbox, log, posts>>

Deliver ==
  /\ outbox # <<>>
  /\ log' = Append(log, Head(outbox))
  /\ outbox' = Tail(outbox)
  /\ UNCHANGED <<saved, request, posts>>

\* delivery.timeout.ms
Expire ==
  /\ \E i \in DOMAIN outbox : outbox' = RemoveAt(outbox, i)
  /\ UNCHANGED <<saved, request, log, posts>>

GatewayCrash ==
  /\ outbox # <<>> \/ \E c \in Client : Open(c)
  /\ outbox' = <<>>
  /\ request' = [c \in Client |-> Idle]
  /\ UNCHANGED <<saved, log, posts>>

GatewayNext ==
  \/ \E c \in Client : \/ \E e \in EventId : Insert(c, e)
                       \/ Publish(c) \/ Commit(c) \/ RollBack(c)
  \/ Deliver \/ Expire \/ GatewayCrash

GatewayTypeOK ==
  /\ saved \subseteq EventId
  /\ request \in [Client -> {Idle} \cup [stage : {"inserted", "published"}, event : EventId]]
  /\ outbox \in Seq(EventId)
  /\ log \in Seq(EventId)
  /\ posts \in 0 .. MaxPosts

=============================================================================
