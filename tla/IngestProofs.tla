----------------------------- MODULE IngestProofs -----------------------------
(***************************************************************************)
(* Proofs about DefenseGateway and EventIngest: what is published once,    *)
(* what is read again and what is lost, and that the worker implements     *)
(* EventDelivery.                                                          *)
(***************************************************************************)
EXTENDS EventIngest, TLAPS, FiniteSetTheorems, SequenceTheorems

-----------------------------------------------------------------------------
(* The inductive invariant *)

\* What is in hand, and where the thread and its consumer may be together.
ThreadInv ==
  /\ service = "down" => thread = "none"
  /\ thread \in {"none", "connecting"} => consumer = "none" /\ inHand = None
  /\ thread = "ended" => inHand = None
  /\ inHand # None => consumer # "none" /\ position = inHand + 1 /\ base <= inHand
  /\ service = "up" => stops < starts

\* Reading goes on from where the group is, which is not before reading began.
PositionInv ==
  /\ base <= position
  /\ committed # None => base <= committed
  /\ consumer # "none" /\ committed # None => committed <= position
  /\ ~ResetToLatest => base = 1

(***************************************************************************)
(* What was read is settled, or the group is past it: except the last      *)
(* record, if it is in hand, or was passed over by a stopping worker.      *)
(***************************************************************************)
CoverInv ==
  consumer # "none" =>
    \A o \in base .. position - 1 :
      \/ o \in settled
      \/ Passed(o)
      \/ o = position - 1 /\ (inHand = o \/ thread = "ended")

Lost == {o \in Unsettled : Passed(o)}

\* A stop that has not closed the consumer yet may lose one more.
LossInv == Cardinality(Lost) + (IF service = "stopping" THEN 1 ELSE 0) <= stops

\* What reading has not come to yet has a try left.
TryInv ==
  /\ RepeatsAreBounded
  /\ thread = "connecting" => \A o \in DOMAIN tries : tries[o] < starts + rejoins
  /\ thread = "polling" =>
       \A o \in DOMAIN tries : o >= position => tries[o] < starts + rejoins

IngestInv == TypeOK /\ ThreadInv /\ PositionInv /\ CoverInv

\* The table's unique index keeps open requests apart from each other and from the rows.
RequestInv ==
  /\ \A c \in Client : Open(c) => request[c].event \notin saved
  /\ \A c, d \in Client : Open(c) /\ Open(d) /\ request[c].event = request[d].event => c = d

-----------------------------------------------------------------------------
(* The gateway and the topic *)

LEMMA RemovedIsShorter ==
  ASSUME NEW S, NEW s \in Seq(S), NEW i \in 1 .. Len(s)
  PROVE  /\ RemoveAt(s, i) \in Seq(S)
         /\ Len(RemoveAt(s, i)) = Len(s) - 1
         /\ \A j \in 1 .. Len(s) - 1 :
              RemoveAt(s, i)[j] = s[IF j < i THEN j ELSE j + 1]
<1> DEFINE a == SubSeq(s, 1, i - 1)
           b == SubSeq(s, i + 1, Len(s))
<1>1. Len(s) \in Nat /\ \A j \in 1 .. Len(s) : s[j] \in S
  BY ElementOfSeq
<1>2. /\ a \in Seq(S) /\ Len(a) = i - 1
      /\ \A j \in 1 .. i - 1 : a[j] = s[j]
  <2>1. \A j \in 1 .. i - 1 : s[j] \in S
    BY <1>1
  <2>2. 1 \in Int /\ i - 1 \in Int
    OBVIOUS
  <2>3. /\ a \in Seq(S) /\ Len(a) = (IF 1 <= i - 1 THEN i - 1 - 1 + 1 ELSE 0)
        /\ \A j \in 1 .. i - 1 - 1 + 1 : a[j] = s[1 + j - 1]
    BY <2>1, <2>2, SubSeqProperties
  <2> QED
    BY <2>3
<1>3. /\ b \in Seq(S) /\ Len(b) = Len(s) - i
      /\ \A j \in 1 .. Len(s) - i : b[j] = s[i + j]
  <2>1. \A j \in i + 1 .. Len(s) : s[j] \in S
    BY <1>1
  <2>2. i + 1 \in Int /\ Len(s) \in Int
    BY <1>1
  <2>3. /\ b \in Seq(S) /\ Len(b) = (IF i + 1 <= Len(s) THEN Len(s) - (i + 1) + 1 ELSE 0)
        /\ \A j \in 1 .. Len(s) - (i + 1) + 1 : b[j] = s[(i + 1) + j - 1]
    BY <2>1, <2>2, SubSeqProperties
  <2> QED
    BY <2>3, <1>1
<1> HIDE DEF a, b
<1>4. /\ a \o b \in Seq(S) /\ Len(a \o b) = Len(a) + Len(b)
      /\ \A j \in 1 .. Len(a) + Len(b) :
           (a \o b)[j] = IF j <= Len(a) THEN a[j] ELSE b[j - Len(a)]
  BY <1>2, <1>3, ConcatProperties
<1>5. \A j \in 1 .. Len(s) - 1 : (a \o b)[j] = s[IF j < i THEN j ELSE j + 1]
  BY <1>1, <1>2, <1>3, <1>4
<1>6. RemoveAt(s, i) = a \o b
  BY DEF RemoveAt, a, b
<1>7. Len(a) + Len(b) = Len(s) - 1
  BY <1>1, <1>2, <1>3
<1> QED
  BY <1>4, <1>5, <1>6, <1>7

LEMMA GatewayTypeInit == GatewayInit => GatewayTypeOK
BY IngestAssumption DEF GatewayInit, GatewayTypeOK, Idle

LEMMA GatewayTypeStep ==
  ASSUME GatewayTypeOK, [GatewayNext]_gateway
  PROVE  /\ GatewayTypeOK'
         /\ log' = log \/ \E e \in EventId : log' = Append(log, e)
<1> USE DEF GatewayTypeOK
<1>1. ASSUME NEW c \in Client, NEW e \in EventId, Insert(c, e)
      PROVE  GatewayTypeOK' /\ log' = log
  BY <1>1, IngestAssumption DEF Insert
<1>2. ASSUME NEW c \in Client, Publish(c)
      PROVE  GatewayTypeOK' /\ log' = log
  <2>1. request[c] \in [stage : {"inserted", "published"}, event : EventId]
    BY <1>2 DEF Publish, Idle
  <2>2. request' \in [Client -> {Idle} \cup [stage : {"inserted", "published"}, event : EventId]]
    BY <1>2, <2>1 DEF Publish
  <2>3. outbox' \in Seq(EventId)
    BY <1>2, <2>1 DEF Publish
  <2> QED
    BY <1>2, <2>2, <2>3 DEF Publish
<1>3. ASSUME NEW c \in Client, Commit(c)
      PROVE  GatewayTypeOK' /\ log' = log
  <2>1. request[c].event \in EventId
    BY <1>3 DEF Commit, Idle
  <2> QED
    BY <1>3, <2>1 DEF Commit, Answered
<1>4. ASSUME NEW c \in Client, RollBack(c)
      PROVE  GatewayTypeOK' /\ log' = log
  BY <1>4 DEF RollBack, Answered
<1>5. CASE Deliver
  <2>1. Head(outbox) \in EventId /\ Tail(outbox) \in Seq(EventId)
    BY <1>5, HeadTailProperties DEF Deliver
  <2> QED
    BY <1>5, <2>1, AppendProperties DEF Deliver
<1>6. CASE Expire
  <2>1. PICK i \in 1 .. Len(outbox) : outbox' = RemoveAt(outbox, i)
    BY <1>6 DEF Expire
  <2>2. outbox' \in Seq(EventId)
    BY <2>1, RemovedIsShorter
  <2> QED
    BY <1>6, <2>2 DEF Expire
<1>7. CASE GatewayCrash
  BY <1>7 DEF GatewayCrash
<1>8. CASE UNCHANGED gateway
  BY <1>8 DEF gateway
<1> QED
  BY <1>1, <1>2, <1>3, <1>4, <1>5, <1>6, <1>7, <1>8 DEF GatewayNext

\* What a step of the gateway is for the worker: nothing, or a longer topic.
LEMMA TopicGrows ==
  ASSUME GatewayTypeOK, [GatewayNext]_gateway
  PROVE  /\ GatewayTypeOK'
         /\ Len(log) \in Nat
         /\ Len(log') = Len(log) \/ Len(log') = Len(log) + 1
<1>1. GatewayTypeOK' /\ (log' = log \/ \E e \in EventId : log' = Append(log, e))
  BY GatewayTypeStep
<1>2. log \in Seq(EventId) /\ Len(log) \in Nat
  BY DEF GatewayTypeOK
<1> QED
  BY <1>1, <1>2, AppendProperties

LEMMA GatewayOrNot == [Next]_vars => [GatewayNext]_gateway
BY DEF Next, vars, Thread, Start, SetStop, CloseConsumer, Exit, Crash, Ends, Connect, Take,
   Handle, StreamEnds, Die, AutoCommit, Rejoin

-----------------------------------------------------------------------------
(* The worker *)

LEMMA IngestInvInit == Init => IngestInv
<1> SUFFICES ASSUME Init PROVE IngestInv
  OBVIOUS
<1>1. GatewayTypeOK /\ Len(log) = 0
  BY GatewayTypeInit DEF Init, GatewayInit
<1>2. TypeOK
  BY <1>1, IngestAssumption DEF Init, TypeOK
<1>3. ThreadInv /\ PositionInv /\ CoverInv
  BY DEF Init, ThreadInv, PositionInv, CoverInv
<1> QED
  BY <1>2, <1>3 DEF IngestInv

LEMMA TypeStep == IngestInv /\ [Next]_vars => TypeOK'
<1> SUFFICES ASSUME IngestInv, [Next]_vars
             PROVE  TypeOK'
  OBVIOUS
<1> USE DEF IngestInv, TypeOK
<1>0. Len(log) \in Nat
  BY DEF GatewayTypeOK
<1>1. CASE GatewayNext /\ UNCHANGED <<worker, counters>>
  BY <1>1, TopicGrows DEF worker, counters
<1>same. UNCHANGED gateway => GatewayTypeOK' /\ Len(log') = Len(log)
  BY DEF gateway, GatewayTypeOK
<1>2. CASE Start
  BY <1>2, <1>same, IngestAssumption DEF Start
<1>3. CASE SetStop
  BY <1>3, <1>same, IngestAssumption DEF SetStop, ThreadInv
<1>4. CASE CloseConsumer
  BY <1>4, <1>same DEF CloseConsumer, counters
<1>5. CASE Exit \/ Crash
  BY <1>5, <1>same DEF Exit, Crash, Ends, counters
<1>6. CASE Connect
  BY <1>6, <1>same, <1>0 DEF Connect, SeekTo, counters
<1>7. CASE Die
  BY <1>7, <1>same DEF Die, counters
<1>8. CASE Take
  BY <1>8, <1>same, <1>0 DEF Take, Between, counters
<1>9. CASE Handle
  BY <1>9, <1>same DEF Handle, counters
<1>10. CASE AutoCommit
  BY <1>10, <1>same DEF AutoCommit, counters
<1>11. CASE Rejoin
  BY <1>11, <1>same, <1>0, IngestAssumption DEF Rejoin, SeekTo
<1>12. CASE StreamEnds
  BY <1>12, <1>same DEF StreamEnds, counters
<1>13. CASE UNCHANGED vars
  BY <1>13, <1>same DEF vars, worker, counters
<1> QED
  BY <1>1, <1>2, <1>3, <1>4, <1>5, <1>6, <1>7, <1>8, <1>9, <1>10, <1>11, <1>12, <1>13
     DEF Next, Thread

\* The topic's growth alone leaves the worker's invariants as they are.
LEMMA WorkerSleeps ==
  ASSUME IngestInv, UNCHANGED <<worker, counters>>
  PROVE  ThreadInv' /\ PositionInv' /\ CoverInv'
BY DEF IngestInv, ThreadInv, PositionInv, CoverInv, Passed, worker, counters

LEMMA ThreadStep == IngestInv /\ [Next]_vars => ThreadInv'
<1> SUFFICES ASSUME IngestInv, [Next]_vars
             PROVE  ThreadInv'
  OBVIOUS
<1> USE DEF IngestInv, ThreadInv
<1>1. CASE UNCHANGED <<worker, counters>>
  BY <1>1, WorkerSleeps
<1>2. CASE Start
  BY <1>2, IngestAssumption DEF Start, TypeOK
<1>3. CASE SetStop
  BY <1>3 DEF SetStop
<1>4. CASE CloseConsumer
  BY <1>4 DEF CloseConsumer, counters, TypeOK
<1>5. CASE Exit \/ Crash
  BY <1>5 DEF Exit, Crash, Ends, counters
<1>6. CASE Connect
  BY <1>6 DEF Connect, SeekTo, counters
<1>7. CASE Die
  BY <1>7 DEF Die, Between, counters
<1>8. CASE Take
  BY <1>8, IngestAssumption DEF Take, Between, counters, TypeOK, PositionInv
<1>9. CASE Handle
  BY <1>9 DEF Handle, counters
<1>10. CASE AutoCommit
  BY <1>10 DEF AutoCommit, Between, counters
<1>11. CASE Rejoin
  BY <1>11 DEF Rejoin, SeekTo, Between
<1>12. CASE StreamEnds
  BY <1>12 DEF StreamEnds, counters
<1> QED
  BY <1>1, <1>2, <1>3, <1>4, <1>5, <1>6, <1>7, <1>8, <1>9, <1>10, <1>11, <1>12
     DEF Next, Thread, vars

LEMMA PositionStep == IngestInv /\ [Next]_vars => PositionInv'
<1> SUFFICES ASSUME IngestInv, [Next]_vars
             PROVE  PositionInv'
  OBVIOUS
<1> USE DEF IngestInv, PositionInv
<1>0. Len(log) \in Nat /\ position \in Nat /\ base \in Nat /\ base >= 1
  BY DEF TypeOK, GatewayTypeOK
<1>1. CASE UNCHANGED <<worker, counters>>
  BY <1>1, WorkerSleeps
<1>2. CASE Start
  BY <1>2 DEF Start
<1>3. CASE SetStop
  BY <1>3 DEF SetStop
<1>4. CASE CloseConsumer
  BY <1>4, <1>0 DEF CloseConsumer, counters
<1>5. CASE Exit \/ Crash
  BY <1>5 DEF Exit, Crash, Ends, counters
<1>6. CASE Connect
  BY <1>6, <1>0 DEF Connect, SeekTo, counters, TypeOK
<1>7. CASE Die
  BY <1>7 DEF Die, counters
<1>8. CASE Take
  BY <1>8, <1>0 DEF Take, counters, TypeOK
<1>9. CASE Handle
  BY <1>9 DEF Handle, counters
<1>10. CASE AutoCommit
  BY <1>10, <1>0 DEF AutoCommit, counters
<1>11. CASE Rejoin
  BY <1>11, <1>0 DEF Rejoin, SeekTo, TypeOK
<1>12. CASE StreamEnds
  BY <1>12 DEF StreamEnds, counters
<1> QED
  BY <1>1, <1>2, <1>3, <1>4, <1>5, <1>6, <1>7, <1>8, <1>9, <1>10, <1>11, <1>12
     DEF Next, Thread, vars

LEMMA CoverStep == IngestInv /\ [Next]_vars => CoverInv'
<1> SUFFICES ASSUME IngestInv, [Next]_vars
             PROVE  CoverInv'
  OBVIOUS
<1> USE DEF IngestInv, CoverInv, Passed
<1>0. Len(log) \in Nat /\ position \in Nat /\ base \in Nat /\ base >= 1
  BY DEF TypeOK, GatewayTypeOK
<1>1. CASE UNCHANGED <<worker, counters>>
  BY <1>1, WorkerSleeps
<1>2. CASE Start
  BY <1>2 DEF Start, ThreadInv
<1>3. CASE SetStop
  BY <1>3 DEF SetStop
<1>4. CASE CloseConsumer
  BY <1>4, <1>0, IngestAssumption DEF CloseConsumer, counters, TypeOK, PositionInv
<1>5. CASE Exit \/ Crash
  BY <1>5 DEF Exit, Crash, Ends
<1>6. CASE Connect
  BY <1>6, <1>0 DEF Connect, SeekTo, TypeOK, PositionInv
<1>7. CASE Die
  BY <1>7 DEF Die, Between, ThreadInv
<1>8. CASE Take
  BY <1>8, <1>0, IngestAssumption DEF Take, Between, PositionInv
<1>9. CASE Handle
  BY <1>9 DEF Handle
<1>10. CASE AutoCommit
  BY <1>10, <1>0, IngestAssumption DEF AutoCommit, Between
<1>11. CASE Rejoin
  BY <1>11, <1>0 DEF Rejoin, SeekTo, TypeOK, PositionInv
<1>12. CASE StreamEnds
  BY <1>12 DEF StreamEnds
<1> QED
  BY <1>1, <1>2, <1>3, <1>4, <1>5, <1>6, <1>7, <1>8, <1>9, <1>10, <1>11, <1>12
     DEF Next, Thread, vars

LEMMA IngestInvStep == IngestInv /\ [Next]_vars => IngestInv'
BY TypeStep, ThreadStep, PositionStep, CoverStep DEF IngestInv

-----------------------------------------------------------------------------
(* How often records are tried *)

LEMMA TryInvInit == Init => TryInv
BY DEF Init, TryInv, RepeatsAreBounded

LEMMA TryInvStep == IngestInv /\ TryInv /\ [Next]_vars => TryInv'
<1> SUFFICES ASSUME IngestInv, TryInv, [Next]_vars
             PROVE  TryInv'
  OBVIOUS
<1> USE DEF TryInv, RepeatsAreBounded
<1>0. /\ starts \in Nat /\ rejoins \in Nat /\ position \in Nat
      /\ tries \in [1 .. MaxPosts -> Nat]
  BY IngestAssumption DEF IngestInv, TypeOK, GatewayTypeOK
<1>1. CASE Start
  BY <1>1, <1>0 DEF Start
<1>2. CASE Rejoin
  BY <1>2, <1>0 DEF Rejoin, Between
<1>3. CASE Connect
  BY <1>3 DEF Connect, counters
<1>4. CASE Take
  <2>1. /\ thread = "polling" /\ position' = position + 1
        /\ UNCHANGED <<starts, rejoins>>
    BY <1>4 DEF Take, Between, counters
  <2>2. CASE Stopping
    BY <1>4, <2>1, <2>2, <1>0 DEF Take
  <2>3. CASE ~Stopping
    <3>1. thread' = "polling" /\ tries' = [tries EXCEPT ![position] = @ + 1]
      BY <1>4, <2>1, <2>3 DEF Take
    <3>2. \A o \in DOMAIN tries : o # position => tries'[o] = tries[o]
      BY <3>1
    <3>3. position \in DOMAIN tries => tries'[position] = tries[position] + 1
      BY <3>1
    <3>4. DOMAIN tries' = DOMAIN tries
      BY <3>1
    <3>5. \A o \in DOMAIN tries : tries'[o] <= starts + rejoins
      BY <3>2, <3>3, <2>1, <1>0
    <3>6. \A o \in DOMAIN tries : o >= position + 1 => tries'[o] < starts + rejoins
      BY <3>2, <2>1, <1>0
    <3> QED
      BY <2>1, <3>1, <3>4, <3>5, <3>6
  <2> QED
    BY <2>2, <2>3
<1>5. CASE Exit \/ Crash \/ Die \/ StreamEnds
  BY <1>5 DEF Exit, Crash, Ends, Die, StreamEnds, counters
<1>6. CASE UNCHANGED <<tries, starts, rejoins, thread, position>>
  BY <1>6
<1> QED
  BY <1>1, <1>2, <1>3, <1>4, <1>5, <1>6
     DEF Next, Thread, vars, worker, counters, SetStop, CloseConsumer, Handle, AutoCommit

-----------------------------------------------------------------------------
(* How many records are lost *)

LEMMA LostIsFinite ==
  ASSUME TypeOK
  PROVE  IsFiniteSet(Lost) /\ Cardinality(Lost) \in Nat
<1>1. Len(log) \in Nat
  BY DEF TypeOK, GatewayTypeOK
<1>2. IsFiniteSet(1 .. Len(log))
  BY <1>1, FS_Interval
<1>3. Lost \subseteq 1 .. Len(log)
  BY <1>1 DEF Lost, Unsettled, TypeOK
<1>4. IsFiniteSet(Lost)
  BY <1>2, <1>3, FS_Subset
<1> QED
  BY <1>4, FS_CardinalityType

\* Only a consumer that is being closed loses anything, and then one record.
LEMMA StepLosesAtMostOne ==
  ASSUME IngestInv, [Next]_vars
  PROVE  /\ CloseConsumer => Lost' \subseteq Lost \cup {position - 1}
         /\ ~CloseConsumer => Lost' \subseteq Lost
<1>0. /\ Len(log) \in Nat /\ position \in Nat /\ base \in Nat /\ base >= 1
      /\ None \notin Nat
  BY IngestAssumption DEF IngestInv, TypeOK, GatewayTypeOK
<1> DEFINE IsLost(o) == o \in base .. Len(log) /\ o \notin settled /\ Passed(o)
<1>lost. \A o : (o \in Lost <=> IsLost(o)) /\ (o \in Lost' <=> IsLost(o)')
  BY DEF Lost, Unsettled
<1>1. CASE CloseConsumer
  <2>1. CASE consumer = "open"
    <3>1. /\ committed' = committed \/ committed' = position
          /\ UNCHANGED <<log, base, settled>>
      BY <1>1, <2>1 DEF CloseConsumer, gateway
    <3>2. ASSUME NEW o, IsLost(o)', o # position - 1
          PROVE  IsLost(o)
      BY <3>1, <3>2, <2>1, <1>0 DEF IngestInv, CoverInv, Passed
    <3> QED
      BY <1>lost, <3>2, <1>1
  <2>2. CASE consumer # "open"
    <3>1. UNCHANGED <<log, base, settled, committed>>
      BY <1>1, <2>2 DEF CloseConsumer, gateway
    <3> QED
      BY <1>lost, <3>1, <1>1 DEF Passed
  <2> QED
    BY <2>1, <2>2
<1>2. CASE AutoCommit
  <2>1. /\ committed' = position /\ UNCHANGED <<log, base, settled>>
        /\ consumer = "open" /\ thread = "polling" /\ inHand = None
    BY <1>2 DEF AutoCommit, Between, gateway
  <2>2. ASSUME NEW o, IsLost(o)'
        PROVE  IsLost(o)
    BY <2>1, <2>2, <1>0 DEF IngestInv, CoverInv, Passed
  <2> QED
    BY <1>lost, <2>2, <1>2 DEF AutoCommit, CloseConsumer, Between
<1>3. CASE Connect \/ Rejoin
  <2>1. /\ UNCHANGED <<log, settled, committed>>
        /\ committed # None => base' = base
    BY <1>3 DEF Connect, Rejoin, SeekTo, gateway
  <2>2. ASSUME NEW o, IsLost(o)'
        PROVE  IsLost(o)
    BY <2>1, <2>2 DEF Passed
  <2> QED
    BY <1>lost, <2>2
<1>4. CASE Handle
  <2>1. settled \subseteq settled' /\ UNCHANGED <<log, base, committed>>
    BY <1>4 DEF Handle, gateway
  <2>2. ASSUME NEW o, IsLost(o)'
        PROVE  IsLost(o)
    BY <2>1, <2>2 DEF Passed
  <2> QED
    BY <1>lost, <2>2
<1>5. CASE GatewayNext /\ UNCHANGED <<worker, counters>>
  <2>1. Len(log') = Len(log) \/ Len(log') = Len(log) + 1
    BY <1>5, TopicGrows DEF IngestInv, TypeOK
  <2>2. UNCHANGED <<base, settled, committed>>
    BY <1>5 DEF worker
  <2>3. ASSUME NEW o, IsLost(o)'
        PROVE  IsLost(o)
    <3>1. o \in base .. Len(log') /\ o \notin settled /\ committed # None /\ o < committed
      BY <2>2, <2>3 DEF Passed
    <3>2. committed \in 1 .. Len(log) + 1
      BY <3>1 DEF IngestInv, TypeOK
    <3> QED
      BY <3>1, <3>2, <2>1, <1>0 DEF Passed
  <2> QED
    BY <1>lost, <2>3
<1>6. CASE UNCHANGED <<log, base, settled, committed>>
  <2>1. ASSUME NEW o, IsLost(o)'
        PROVE  IsLost(o)
    BY <1>6, <2>1 DEF Passed
  <2> QED
    BY <1>lost, <2>1
<1> QED
  BY <1>1, <1>2, <1>3, <1>4, <1>5, <1>6
     DEF Next, Thread, vars, gateway, worker, Start, SetStop, Exit, Crash, Ends, Die, Take,
         StreamEnds

LEMMA LossInvInit == Init => LossInv
<1> SUFFICES ASSUME Init PROVE LossInv
  OBVIOUS
<1>1. Lost = {}
  BY DEF Init, Lost, Passed
<1> QED
  BY <1>1, FS_EmptySet DEF Init, LossInv

LEMMA LossInvStep == IngestInv /\ LossInv /\ [Next]_vars => LossInv'
<1> SUFFICES ASSUME IngestInv, LossInv, [Next]_vars
             PROVE  LossInv'
  OBVIOUS
<1>0. TypeOK /\ TypeOK'
  BY TypeStep DEF IngestInv
<1>1. /\ IsFiniteSet(Lost) /\ Cardinality(Lost) \in Nat
      /\ Cardinality(Lost') \in Nat
      /\ stops \in Nat /\ stops' \in Nat
  <2>1. IsFiniteSet(Lost) /\ Cardinality(Lost) \in Nat
    BY <1>0, LostIsFinite
  <2>2. Lost' \subseteq Lost \cup {position - 1}
    BY StepLosesAtMostOne
  <2>3. IsFiniteSet(Lost \cup {position - 1})
    BY <2>1, FS_AddElement
  <2>4. Cardinality(Lost') \in Nat
    BY <2>2, <2>3, FS_Subset, FS_CardinalityType
  <2>5. stops \in Nat /\ stops' \in Nat
    BY <1>0 DEF TypeOK
  <2> QED
    BY <2>1, <2>4, <2>5
<1>2. CASE CloseConsumer
  <2>1. Lost' \subseteq Lost \cup {position - 1}
    BY <1>2, StepLosesAtMostOne
  <2>2. /\ IsFiniteSet(Lost \cup {position - 1})
        /\ Cardinality(Lost \cup {position - 1}) \in Nat
        /\ Cardinality(Lost \cup {position - 1}) <= Cardinality(Lost) + 1
    BY <1>1, FS_AddElement
  <2>3. Cardinality(Lost') <= Cardinality(Lost) + 1
    BY <2>1, <2>2, <1>1, FS_Subset
  <2>4. service = "stopping" /\ service' = "closed" /\ stops' = stops
    BY <1>2 DEF CloseConsumer, counters
  <2> QED
    BY <2>3, <2>4, <1>1 DEF LossInv
<1>3. CASE ~CloseConsumer
  <2>1. Cardinality(Lost') <= Cardinality(Lost)
    BY <1>1, <1>3, StepLosesAtMostOne, FS_Subset
  <2>2. CASE SetStop
    BY <2>1, <2>2, <1>1 DEF SetStop, LossInv
  <2>3. CASE stops' = stops /\ (service' = "stopping" => service = "stopping")
    BY <2>1, <2>3, <1>1 DEF LossInv
  <2>4. SetStop \/ (stops' = stops /\ (service' = "stopping" => service = "stopping"))
    BY <1>3 DEF Next, Thread, vars, worker, counters, Start, Exit, Crash, Ends, Connect, Die,
       Take, Handle, AutoCommit, Rejoin, StreamEnds
  <2> QED
    BY <2>2, <2>3, <2>4
<1> QED
  BY <1>2, <1>3

-----------------------------------------------------------------------------
(* The request's record and its row *)

LEMMA RecordsAreFinite ==
  ASSUME NEW S, NEW s \in Seq(S), NEW e
  PROVE  IsFiniteSet(RecordsOf(s, e)) /\ Cardinality(RecordsOf(s, e)) \in Nat
<1>1. DOMAIN s = 1 .. Len(s) /\ Len(s) \in Nat
  BY ElementOfSeq
<1>2. IsFiniteSet(1 .. Len(s))
  BY <1>1, FS_Interval
<1>3. RecordsOf(s, e) \subseteq 1 .. Len(s)
  BY <1>1 DEF RecordsOf
<1> QED
  BY <1>2, <1>3, FS_Subset, FS_CardinalityType

\* A queue whose records of an event are all among another's has no more of them.
LEMMA FewerRecords ==
  ASSUME NEW S, NEW s \in Seq(S), NEW t \in Seq(S), NEW e,
         NEW f, \A i \in DOMAIN t : f[i] \in DOMAIN s /\ s[f[i]] = t[i],
         f \in [DOMAIN t -> DOMAIN s],
         \A i, j \in DOMAIN t : f[i] = f[j] => i = j
  PROVE  Cardinality(RecordsOf(t, e)) <= Cardinality(RecordsOf(s, e))
<1> DEFINE g == [i \in RecordsOf(t, e) |-> f[i]]
<1>1. g \in [RecordsOf(t, e) -> RecordsOf(s, e)]
  BY DEF RecordsOf
<1>2. \A i, j \in RecordsOf(t, e) : g[i] = g[j] => i = j
  BY DEF RecordsOf
<1> HIDE DEF g
<1>3. g \in Injection(RecordsOf(t, e), RecordsOf(s, e))
  BY <1>1, <1>2 DEF Injection, IsInjective
<1>4. IsFiniteSet(RecordsOf(s, e))
  BY RecordsAreFinite
<1> QED
  BY <1>3, <1>4, FS_Injection

LEMMA RequestInvInit == Init => RequestInv
BY DEF Init, GatewayInit, RequestInv, Open, Idle

LEMMA RequestInvStep == GatewayTypeOK /\ RequestInv /\ [GatewayNext]_gateway => RequestInv'
<1> SUFFICES ASSUME GatewayTypeOK, RequestInv, [GatewayNext]_gateway
             PROVE  RequestInv'
  OBVIOUS
<1> USE DEF RequestInv, Open
<1>1. ASSUME NEW c \in Client, NEW e \in EventId, Insert(c, e)
      PROVE  RequestInv'
  BY <1>1 DEF Insert, GatewayTypeOK, Idle
<1>2. ASSUME NEW c \in Client, Publish(c)
      PROVE  RequestInv'
  <2>1. /\ Open(c) /\ UNCHANGED saved
        /\ \A d \in Client : request'[d].event = request[d].event
        /\ \A d \in Client : d # c => request'[d] = request[d]
    BY <1>2 DEF Publish, Idle, GatewayTypeOK
  <2>2. \A d \in Client : (Open(d))' => Open(d)
    BY <2>1
  <2> QED
    BY <2>1, <2>2
<1>3. ASSUME NEW c \in Client, Commit(c)
      PROVE  RequestInv'
  <2>1. /\ Open(c) /\ saved' = saved \cup {request[c].event}
        /\ request' = [request EXCEPT ![c] = Idle]
    BY <1>3 DEF Commit, Answered, Idle
  <2> QED
    BY <2>1 DEF GatewayTypeOK
<1>4. ASSUME NEW c \in Client, RollBack(c)
      PROVE  RequestInv'
  BY <1>4 DEF RollBack, Answered, GatewayTypeOK
<1>5. CASE Deliver \/ Expire \/ UNCHANGED gateway
  BY <1>5 DEF Deliver, Expire, gateway
<1>6. CASE GatewayCrash
  BY <1>6 DEF GatewayCrash
<1> QED
  BY <1>1, <1>2, <1>3, <1>4, <1>5, <1>6 DEF GatewayNext

LEMMA NoNewRecord ==
  ASSUME GatewayTypeOK, RequestInv, [GatewayNext]_gateway, NEW e \in saved
  PROVE  Cardinality(RecordsOf(Records', e)) <= Cardinality(RecordsOf(Records, e))
<1> USE DEF Records
<1>0. /\ log \in Seq(EventId) /\ outbox \in Seq(EventId)
      /\ Len(log) \in Nat /\ Len(outbox) \in Nat
      /\ log' \in Seq(EventId) /\ outbox' \in Seq(EventId)
      /\ Len(log') \in Nat /\ Len(outbox') \in Nat
  BY GatewayTypeStep DEF GatewayTypeOK
<1>1. /\ Records \in Seq(EventId) /\ Len(Records) = Len(log) + Len(outbox)
      /\ \A i \in 1 .. Len(log) + Len(outbox) :
           Records[i] = IF i <= Len(log) THEN log[i] ELSE outbox[i - Len(log)]
  BY <1>0, ConcatProperties
<1>2. /\ Records' \in Seq(EventId) /\ Len(Records') = Len(log') + Len(outbox')
      /\ \A i \in 1 .. Len(log') + Len(outbox') :
           Records'[i] = IF i <= Len(log') THEN log'[i] ELSE outbox'[i - Len(log')]
  BY <1>0, ConcatProperties
<1>3. /\ DOMAIN Records = 1 .. Len(log) + Len(outbox)
      /\ DOMAIN Records' = 1 .. Len(log') + Len(outbox')
  BY <1>1, <1>2, ElementOfSeq
<1> HIDE DEF Records
<1>log. \A i \in 1 .. Len(log) : Records[i] = log[i]
  BY <1>0, <1>1
<1>out. \A i \in 1 .. Len(outbox) : Records[Len(log) + i] = outbox[i]
  <2>1. ASSUME NEW i \in 1 .. Len(outbox)
        PROVE  Records[Len(log) + i] = outbox[i]
    <3>1. /\ Len(log) + i \in 1 .. Len(log) + Len(outbox) /\ ~(Len(log) + i <= Len(log))
          /\ Len(log) + i - Len(log) = i
      BY <1>0
    <3>2. Records[Len(log) + i] = outbox[Len(log) + i - Len(log)]
      BY <3>1, <1>1
    <3> QED
      BY <3>1, <3>2
  <2> QED
    BY <2>1
<1>log1. \A i \in 1 .. Len(log') : Records'[i] = log'[i]
  BY <1>0, <1>2
<1>out1. \A i \in 1 .. Len(outbox') : Records'[Len(log') + i] = outbox'[i]
  <2>1. ASSUME NEW i \in 1 .. Len(outbox')
        PROVE  Records'[Len(log') + i] = outbox'[i]
    <3>1. /\ Len(log') + i \in 1 .. Len(log') + Len(outbox') /\ ~(Len(log') + i <= Len(log'))
          /\ Len(log') + i - Len(log') = i
      BY <1>0
    <3>2. Records'[Len(log') + i] = outbox'[Len(log') + i - Len(log')]
      BY <3>1, <1>2
    <3> QED
      BY <3>1, <3>2
  <2> QED
    BY <2>1
\* Records of e that are where they were.
<1>fewer. (RecordsOf(Records', e) \subseteq RecordsOf(Records, e)) =>
            Cardinality(RecordsOf(Records', e)) <= Cardinality(RecordsOf(Records, e))
  <2>1. IsFiniteSet(RecordsOf(Records, e))
    BY <1>1, RecordsAreFinite
  <2> QED
    BY <2>1, FS_Subset
<1>4. ASSUME NEW c \in Client, Publish(c)
      PROVE  RecordsOf(Records', e) \subseteq RecordsOf(Records, e)
  <2>1. request[c].event \in EventId /\ request[c].event # e
    BY <1>4 DEF Publish, RequestInv, Open, Idle, GatewayTypeOK
  <2>2. /\ outbox' = Append(outbox, request[c].event) /\ log' = log
        /\ Len(outbox') = Len(outbox) + 1
        /\ \A i \in 1 .. Len(outbox) : outbox'[i] = outbox[i]
        /\ outbox'[Len(outbox) + 1] = request[c].event
    BY <1>0, <1>4, <2>1, AppendProperties DEF Publish
  <2>3. ASSUME NEW i \in DOMAIN Records', Records'[i] = e
        PROVE  i \in DOMAIN Records /\ Records[i] = e
    <3>1. CASE i \in 1 .. Len(log)
      BY <3>1, <2>2, <2>3, <1>0, <1>3, <1>log, <1>log1
    <3>2. CASE i \notin 1 .. Len(log)
      <4>1. PICK j \in 1 .. Len(outbox) + 1 : i = Len(log) + j
        <5>1. i \in 1 .. Len(log) + (Len(outbox) + 1)
          BY <2>2, <1>3
        <5>2. i - Len(log) \in 1 .. Len(outbox) + 1 /\ i = Len(log) + (i - Len(log))
          BY <5>1, <3>2, <1>0
        <5> QED
          BY <5>2
      <4>2. Records'[i] = outbox'[j]
        BY <4>1, <2>2, <1>out1
      <4>3. j # Len(outbox) + 1
        BY <4>2, <2>1, <2>2, <2>3
      <4>4. j \in 1 .. Len(outbox)
        BY <4>1, <4>3, <1>0
      <4>5. Records[i] = outbox[j] /\ outbox'[j] = outbox[j]
        BY <4>1, <4>4, <2>2, <1>out
      <4>6. i \in DOMAIN Records
        BY <4>1, <4>4, <1>0, <1>3
      <4> QED
        BY <4>2, <4>5, <4>6, <2>3
    <3> QED
      BY <3>1, <3>2
  <2> QED
    BY <2>3 DEF RecordsOf
<1>5. CASE Deliver
  <2>1. /\ log' = Append(log, Head(outbox)) /\ outbox' = Tail(outbox) /\ outbox # <<>>
        /\ Head(outbox) = outbox[1] /\ Head(outbox) \in EventId
        /\ Len(outbox) >= 1
    BY <1>0, <1>5, HeadTailProperties, EmptySeq DEF Deliver
  <2>2. /\ Len(outbox') = Len(outbox) - 1
        /\ \A i \in 1 .. Len(outbox) - 1 : outbox'[i] = outbox[i + 1]
    BY <1>0, <2>1, HeadTailProperties
  <2>3. /\ Len(log') = Len(log) + 1
        /\ \A i \in 1 .. Len(log) : log'[i] = log[i]
        /\ log'[Len(log) + 1] = outbox[1]
    BY <1>0, <2>1, AppendProperties
  <2>4. Len(Records') = Len(Records)
    BY <2>2, <2>3, <1>0, <1>1, <1>2
  <2>5. ASSUME NEW i \in DOMAIN Records'
        PROVE  i \in DOMAIN Records /\ Records'[i] = Records[i]
    <3>1. i \in 1 .. Len(log) + Len(outbox) /\ i \in DOMAIN Records
      BY <2>2, <2>3, <1>0, <1>3
    <3>2. CASE i \in 1 .. Len(log)
      <4>1. i \in 1 .. Len(log')
        BY <3>2, <2>3, <1>0
      <4> QED
        BY <3>1, <3>2, <4>1, <2>3, <1>log, <1>log1
    <3>3. CASE i = Len(log) + 1
      <4>1. Records'[i] = outbox[1]
        BY <3>3, <2>3, <1>0, <1>log1
      <4>2. Records[i] = outbox[1]
        BY <3>3, <2>1, <1>0, <1>out
      <4> QED
        BY <3>1, <4>1, <4>2
    <3>4. CASE i \notin 1 .. Len(log) /\ i # Len(log) + 1
      <4>1. PICK j \in 1 .. Len(outbox') : i = Len(log') + j
        <5>1. i - Len(log') \in 1 .. Len(outbox') /\ i = Len(log') + (i - Len(log'))
          BY <3>1, <3>4, <2>2, <2>3, <1>0
        <5> QED
          BY <5>1
      <4>2. Records'[i] = outbox'[j] /\ outbox'[j] = outbox[j + 1]
        BY <4>1, <2>2, <1>out1
      <4>3. i = Len(log) + (j + 1) /\ j + 1 \in 1 .. Len(outbox)
        BY <4>1, <2>2, <2>3, <1>0
      <4>4. Records[i] = outbox[j + 1]
        BY <4>3, <1>out
      <4> QED
        BY <3>1, <4>2, <4>4
    <3> QED
      BY <3>2, <3>3, <3>4
  <2>6. RecordsOf(Records', e) \subseteq RecordsOf(Records, e)
    BY <2>5 DEF RecordsOf
  <2> QED
    BY <2>6, <1>fewer
<1>6. CASE Expire
  <2>1. PICK k \in DOMAIN outbox : outbox' = RemoveAt(outbox, k)
    BY <1>6 DEF Expire
  <2>2. k \in 1 .. Len(outbox) /\ log' = log
    BY <1>0, <2>1, <1>6 DEF Expire
  <2>3. /\ Len(outbox') = Len(outbox) - 1
        /\ \A j \in 1 .. Len(outbox) - 1 : outbox'[j] = outbox[IF j < k THEN j ELSE j + 1]
    BY <1>0, <2>1, <2>2, RemovedIsShorter
  <2> DEFINE f == [i \in DOMAIN Records' |-> IF i < Len(log) + k THEN i ELSE i + 1]
  <2>4. f \in [DOMAIN Records' -> DOMAIN Records]
    BY <2>2, <2>3, <1>0, <1>3
  <2>5. \A i, j \in DOMAIN Records' : f[i] = f[j] => i = j
    BY <2>2, <1>0, <1>3
  <2>6. ASSUME NEW i \in DOMAIN Records'
        PROVE  f[i] \in DOMAIN Records /\ Records[f[i]] = Records'[i]
    <3>1. /\ f[i] \in DOMAIN Records
          /\ i \in 1 .. Len(log) + Len(outbox')
      BY <2>2, <2>4, <1>3
    <3>2. CASE i \in 1 .. Len(log)
      <4>1. f[i] = i
        BY <3>2, <2>2, <1>0
      <4> QED
        BY <3>1, <3>2, <4>1, <2>2, <1>log, <1>log1
    <3>3. CASE i \notin 1 .. Len(log)
      <4>1. PICK j \in 1 .. Len(outbox') : i = Len(log) + j
        <5>1. i - Len(log) \in 1 .. Len(outbox') /\ i = Len(log) + (i - Len(log))
          BY <3>1, <3>3, <1>0
        <5> QED
          BY <5>1
      <4>2. Records'[i] = outbox'[j]
        BY <4>1, <2>2, <1>out1
      <4>3. CASE j < k
        <5>1. f[i] = Len(log) + j /\ j \in 1 .. Len(outbox)
          BY <4>1, <4>3, <2>2, <2>3, <1>0
        <5>2. outbox'[j] = outbox[j]
          BY <4>1, <4>3, <2>3
        <5> QED
          BY <3>1, <4>2, <5>1, <5>2, <1>out
      <4>4. CASE ~(j < k)
        <5>1. f[i] = Len(log) + (j + 1) /\ j + 1 \in 1 .. Len(outbox)
          BY <4>1, <4>4, <2>2, <2>3, <1>0
        <5>2. outbox'[j] = outbox[j + 1]
          BY <4>1, <4>4, <2>3
        <5> QED
          BY <3>1, <4>2, <5>1, <5>2, <1>out
      <4> QED
        BY <4>3, <4>4
    <3> QED
      BY <3>2, <3>3
  <2> HIDE DEF f
  <2> QED
    BY <2>4, <2>5, <2>6, <1>1, <1>2, FewerRecords
<1>7. CASE GatewayCrash
  <2>1. log' = log /\ Len(outbox') = 0
    BY <1>7, EmptySeq DEF GatewayCrash
  <2>2. RecordsOf(Records', e) \subseteq RecordsOf(Records, e)
    BY <2>1, <1>0, <1>1, <1>2, <1>3 DEF RecordsOf
  <2> QED
    BY <2>2, <1>fewer
<1>8. CASE UNCHANGED <<log, outbox>>
  <2>1. Records' = Records
    BY <1>8 DEF Records
  <2> QED
    BY <2>1, <1>fewer
<1> QED
  BY <1>4, <1>5, <1>6, <1>7, <1>8, <1>fewer
     DEF GatewayNext, gateway, Insert, Commit, RollBack

-----------------------------------------------------------------------------
(* The properties *)

LEMMA AlwaysIngestInv == Spec => []IngestInv
<1> QED
  BY IngestInvInit, IngestInvStep, PTL DEF Spec

(***************************************************************************)
(* The variables of the worker and of the gateway keep their types: no     *)
(* position, committed position or record in hand lies past the topic.     *)
(***************************************************************************)
THEOREM IngestTypeCorrect == Spec => []TypeOK
<1>1. IngestInv => TypeOK
  BY DEF IngestInv
<1> QED
  BY <1>1, AlwaysIngestInv, PTL

(***************************************************************************)
(* No record is handed to the handler more often than reading began anew:  *)
(* only another start, or a rejoin, can make the worker read it again.     *)
(***************************************************************************)
THEOREM RepeatsStayBounded == Spec => []RepeatsAreBounded
<1>1. TryInv => RepeatsAreBounded
  BY DEF TryInv
<1>2. Spec => []TryInv
  BY TryInvInit, TryInvStep, AlwaysIngestInv, PTL DEF Spec
<1> QED
  BY <1>1, <1>2, PTL

(***************************************************************************)
(* Crashes, rejoins and background commits lose nothing that was begun:    *)
(* the records committed unhandled are at most one for every stop().       *)
(***************************************************************************)
THEOREM LossStaysBounded == Spec => []LossIsBounded
<1>1. IngestInv /\ LossInv => LossIsBounded
  <2> SUFFICES ASSUME IngestInv, LossInv PROVE LossIsBounded
    OBVIOUS
  <2>1. Cardinality(Lost) \in Nat /\ stops \in Nat
    BY LostIsFinite DEF IngestInv, TypeOK
  <2>2. Cardinality(Lost) <= stops
    BY <2>1 DEF LossInv
  <2> QED
    BY <2>2 DEF Lost, LossIsBounded
<1>2. Spec => []LossInv
  BY LossInvInit, LossInvStep, AlwaysIngestInv, PTL DEF Spec
<1> QED
  BY <1>1, <1>2, AlwaysIngestInv, PTL

(***************************************************************************)
(* Once the row of an event is committed, no POST puts another record of   *)
(* it into the producer or on the topic, with any number of requests.      *)
(***************************************************************************)
THEOREM AcceptedStaysPublishedOnce == Spec => AcceptedIsPublishedOnce
<1>1. TypeOK /\ RequestInv /\ [Next]_vars => RequestInv'
  BY GatewayOrNot, RequestInvStep DEF TypeOK
<1>2. Spec => []RequestInv
  BY <1>1, RequestInvInit, IngestTypeCorrect, PTL DEF Spec
<1>3. TypeOK /\ RequestInv /\ [Next]_vars =>
        [\A e \in saved : Cardinality(RecordsOf(Records', e)) <=
                            Cardinality(RecordsOf(Records, e))]_vars
  BY GatewayOrNot, NoNewRecord DEF TypeOK
<1> QED
  BY <1>2, <1>3, IngestTypeCorrect, PTL DEF Spec, AcceptedIsPublishedOnce

-----------------------------------------------------------------------------
(* The worker implements the delivery it promises *)

Fate == [o \in 1 .. Len(log) |-> FateOf(o)]

Placed == committed # None

Fates == {"settled", "lost", "waiting"}

\* What the worker will not come back to, if it has not settled it.
Gone(o) == o < base \/ (Passed(o) /\ o # inHand)

LEMMA FateIs ==
  \A o : /\ FateOf(o) = IF o \in settled THEN "settled" ELSE IF Gone(o) THEN "lost" ELSE "waiting"
         /\ FateOf(o)' = (IF o \in settled THEN "settled" ELSE IF Gone(o) THEN "lost" ELSE "waiting")'
BY DEF FateOf, Gone

LEMMA FateIsSeq ==
  ASSUME TypeOK
  PROVE  /\ Fate \in Seq(Fates) /\ Len(Fate) = Len(log) /\ Len(log) \in Nat
         /\ DOMAIN Fate = 1 .. Len(log)
<1>1. Len(log) \in Nat
  BY DEF TypeOK, GatewayTypeOK
<1>2. Fate \in [1 .. Len(log) -> Fates]
  BY FateIs DEF Fate, Fates
<1> QED
  BY <1>1, <1>2

LEMMA DeliveryInit == Init => Delivery!Init
<1> SUFFICES ASSUME Init PROVE Delivery!Init
  OBVIOUS
<1>1. Fate \in Seq(Fates) /\ Len(Fate) = 0
  BY FateIsSeq, IngestInvInit DEF IngestInv, Init, GatewayInit
<1>2. Fate = <<>>
  BY <1>1, EmptySeq
<1> QED
  BY <1>2 DEF Delivery!Init, Fate, Init

\* The step is a stutter of the delivery, but for the group's place.
LEMMA SameFates ==
  ASSUME UNCHANGED <<log, settled>>, \A o \in 1 .. Len(log) \ settled : Gone(o)' <=> Gone(o)
  PROVE  Fate' = Fate
<1>1. \A o \in 1 .. Len(log) : FateOf(o)' = FateOf(o)
  BY FateIs
<1> QED
  BY <1>1 DEF Fate

\* What one record's going does to the fates.
LEMMA OneGoes ==
  ASSUME IngestInv, UNCHANGED <<log, settled>>, NEW n \in 1 .. Len(log) \ settled,
         Gone(n)', ~Gone(n),
         \A o \in 1 .. Len(log) \ settled : o # n => (Gone(o)' <=> Gone(o)),
         \A o \in 1 .. n - 1 : o \in settled \/ Gone(o)
  PROVE  \E o \in DOMAIN Fate : Delivery!IsNext(o) /\ Fate' = [Fate EXCEPT ![o] = "lost"]
<1>1. Fate' = [Fate EXCEPT ![n] = "lost"]
  <2>1. \A o \in 1 .. Len(log) : o # n => FateOf(o)' = FateOf(o)
    BY FateIs
  <2>2. FateOf(n)' = "lost"
    BY FateIs
  <2> QED
    BY <2>1, <2>2 DEF Fate
<1>2. Delivery!IsNext(n)
  <2>1. Len(log) \in Nat
    BY DEF IngestInv, TypeOK, GatewayTypeOK
  <2>2. \A o \in 1 .. n - 1 : o \in 1 .. Len(log) /\ FateOf(o) # "waiting"
    BY <2>1, FateIs
  <2>3. FateOf(n) = "waiting"
    BY FateIs
  <2> QED
    BY <2>2, <2>3 DEF Delivery!IsNext, Fate
<1> QED
  BY <1>1, <1>2 DEF Fate

\* Before the record in hand, everything has left the queue.
LEMMA InHandIsNext ==
  ASSUME IngestInv, inHand # None
  PROVE  /\ inHand \in 1 .. Len(log)
         /\ inHand \notin settled => ~Gone(inHand)
         /\ \A o \in 1 .. inHand - 1 : o \in settled \/ Gone(o)
<1>1. /\ inHand \in 1 .. Len(log) /\ inHand \in Nat
      /\ position = inHand + 1 /\ base <= inHand /\ consumer # "none"
      /\ base \in Nat /\ None \notin Nat
  BY IngestAssumption DEF IngestInv, TypeOK, ThreadInv, GatewayTypeOK
<1>2. ~Gone(inHand)
  BY <1>1 DEF Gone
<1>3. ASSUME NEW o \in 1 .. inHand - 1
      PROVE  o \in settled \/ Gone(o)
  <2>1. CASE o < base
    BY <2>1 DEF Gone
  <2>2. CASE ~(o < base)
    <3>1. o \in base .. position - 1 /\ o # position - 1 /\ o # inHand
      BY <1>1, <2>2
    <3>2. o \in settled \/ Passed(o)
      BY <1>1, <3>1 DEF IngestInv, CoverInv
    <3> QED
      BY <3>1, <3>2 DEF Gone
  <2> QED
    BY <2>1, <2>2
<1> QED
  BY <1>1, <1>2, <1>3

LEMMA PublishesOne ==
  ASSUME IngestInv, GatewayNext, UNCHANGED <<worker, counters>>
  PROVE  [Delivery!Next]_<<Fate, Placed>>
<1>1. log' = log \/ \E e \in EventId : log' = Append(log, e)
  BY GatewayTypeStep DEF IngestInv, TypeOK
<1>2. UNCHANGED <<settled, base, committed, inHand, Placed>> /\ \A o : Gone(o)' <=> Gone(o)
  BY DEF worker, Gone, Passed, Placed
<1>3. CASE log' = log
  <2>1. Fate' = Fate
    BY <1>2, <1>3, SameFates
  <2> QED
    BY <1>2, <2>1
<1>4. CASE \E e \in EventId : log' = Append(log, e)
  <2>1. Len(log) \in Nat /\ Len(log') = Len(log) + 1
    BY <1>4, AppendProperties DEF IngestInv, TypeOK, GatewayTypeOK
  <2>2. \A o \in 1 .. Len(log) : FateOf(o)' = FateOf(o)
    BY <1>2, FateIs
  <2>3. ASSUME NEW n, n = Len(log) + 1
        PROVE  FateOf(n)' = "waiting"
    <3>1. n \notin settled /\ ~Gone(n)
      BY <2>1, <2>3 DEF IngestInv, TypeOK, Gone, Passed
    <3> QED
      BY <1>2, <3>1, FateIs
  <2>4. /\ Fate \in Seq(Fates) /\ Len(Fate) = Len(log)
        /\ "waiting" \in Fates
    BY FateIsSeq DEF IngestInv, Fates
  <2>5. /\ Append(Fate, "waiting") \in Seq(Fates)
        /\ Len(Append(Fate, "waiting")) = Len(log) + 1
        /\ \A o \in 1 .. Len(log) : Append(Fate, "waiting")[o] = Fate[o]
        /\ Append(Fate, "waiting")[Len(log) + 1] = "waiting"
    BY <2>4, AppendProperties
  <2>6. Append(Fate, "waiting") \in [1 .. Len(log) + 1 -> Fates]
    BY <2>5, LenProperties
  <2>7. Fate' = [o \in 1 .. Len(log) + 1 |-> FateOf(o)']
    BY <2>1 DEF Fate
  <2>8. \A o \in 1 .. Len(log) + 1 : Append(Fate, "waiting")[o] = FateOf(o)'
    <3>1. \A o \in 1 .. Len(log) : Fate[o] = FateOf(o)
      BY DEF Fate
    <3>2. \A o \in 1 .. Len(log) + 1 : o \in 1 .. Len(log) \/ o = Len(log) + 1
      BY <2>1
    <3> QED
      BY <3>1, <3>2, <2>2, <2>3, <2>5
  <2>9. Fate' = Append(Fate, "waiting")
    BY <2>6, <2>7, <2>8
  <2> QED
    BY <2>9, <1>2 DEF Delivery!Next, Delivery!Publish, Fate, Placed
<1> QED
  BY <1>1, <1>3, <1>4

LEMMA HandleSettles ==
  ASSUME IngestInv, Handle
  PROVE  [Delivery!Next]_<<Fate, Placed>>
<1>1. /\ UNCHANGED <<log, base, committed, Placed>>
      /\ settled' = settled \cup {inHand} /\ inHand # None /\ inHand' = None
      /\ None \notin Nat /\ Len(log) \in Nat
  BY IngestAssumption DEF Handle, gateway, Placed, IngestInv, TypeOK, GatewayTypeOK
<1>2. PICK n : n = inHand /\ n \in 1 .. Len(log)
  BY <1>1, InHandIsNext
<1>3. \A o \in 1 .. Len(log) : o # n => FateOf(o)' = FateOf(o)
  <2>1. \A o \in 1 .. Len(log) : o # n => (Gone(o)' <=> Gone(o)) /\ (o \in settled' <=> o \in settled)
    BY <1>1, <1>2 DEF Gone, Passed
  <2> QED
    BY <2>1, FateIs
<1>4. FateOf(n)' = "settled"
  BY <1>1, <1>2, FateIs
<1>5. CASE n \in settled
  <2>1. FateOf(n) = "settled"
    BY <1>5, FateIs
  <2>2. Fate' = Fate
    BY <1>1, <1>3, <1>4, <2>1 DEF Fate
  <2> QED
    BY <1>1, <2>2
<1>6. CASE n \notin settled
  <2>1. Fate' = [Fate EXCEPT ![n] = "settled"]
    BY <1>1, <1>3, <1>4 DEF Fate
  <2>2. FateOf(n) = "waiting" /\ \A o \in 1 .. n - 1 : o \in 1 .. Len(log) /\ FateOf(o) # "waiting"
    BY <1>1, <1>2, <1>6, InHandIsNext, FateIs
  <2>3. Delivery!IsNext(n) /\ n \in DOMAIN Fate
    BY <1>2, <2>2 DEF Delivery!IsNext, Fate
  <2> QED
    BY <1>1, <2>1, <2>3 DEF Delivery!Next, Delivery!Settle, Fate, Placed
<1> QED
  BY <1>5, <1>6

LEMMA TakeIsSilent ==
  ASSUME IngestInv, Take
  PROVE  [Delivery!Next]_<<Fate, Placed>>
<1>1. /\ UNCHANGED <<log, base, committed, settled, Placed>>
      /\ inHand = None /\ inHand' \in {None, position}
      /\ consumer = "open" /\ None \notin Nat /\ position \in Nat
  BY IngestAssumption DEF Take, Between, gateway, Placed, IngestInv, TypeOK
<1>2. ~Passed(position)
  BY <1>1 DEF Passed, IngestInv, PositionInv, TypeOK
<1>3. \A o \in 1 .. Len(log) : Gone(o)' <=> Gone(o)
  BY <1>1, <1>2 DEF Gone, Passed
<1>4. Fate' = Fate
  BY <1>1, <1>3, SameFates
<1> QED
  BY <1>1, <1>4

LEMMA CommitTakesPlace ==
  ASSUME IngestInv, AutoCommit
  PROVE  [Delivery!Next]_<<Fate, Placed>>
<1>1. /\ UNCHANGED <<log, base, settled, inHand>>
      /\ committed' = position /\ inHand = None /\ position \in Nat
      /\ consumer = "open" /\ thread = "polling" /\ None \notin Nat /\ base \in Nat
      /\ Len(log) \in Nat
  BY IngestAssumption DEF AutoCommit, Between, gateway, IngestInv, TypeOK, GatewayTypeOK
<1>2. ASSUME NEW o \in 1 .. Len(log) \ settled
      PROVE  Gone(o)' <=> Gone(o)
  <2>1. Gone(o) => Gone(o)'
    BY <1>1 DEF Gone, Passed, IngestInv, PositionInv, TypeOK
  <2>2. ASSUME Gone(o)', ~(o < base)
        PROVE  Gone(o)
    <3>1. o \in base .. position - 1
      BY <2>2, <1>1 DEF Gone, Passed
    <3>2. Passed(o)
      BY <3>1, <1>1 DEF IngestInv, CoverInv
    <3> QED
      BY <3>2, <1>1 DEF Gone
  <2> QED
    BY <2>1, <2>2 DEF Gone
<1>3. Fate' = Fate
  BY <1>1, <1>2, SameFates
<1>4. Placed' = TRUE
  BY <1>1 DEF Placed
<1> QED
  BY <1>3, <1>4 DEF Delivery!Next, Delivery!TakePlace, Fate, Placed

LEMMA EndLosesNext ==
  ASSUME IngestInv, Ends
  PROVE  [Delivery!Next]_<<Fate, Placed>>
<1>1. /\ UNCHANGED <<log, base, settled, committed, Placed>>
      /\ inHand' = None /\ None \notin Nat
  BY IngestAssumption DEF Ends, gateway, Placed
<1>2. \A o \in 1 .. Len(log) : o # inHand => (Gone(o)' <=> Gone(o))
  BY <1>1 DEF Gone, Passed
<1>3. CASE \A o \in 1 .. Len(log) \ settled : Gone(o)' <=> Gone(o)
  <2>1. Fate' = Fate
    BY <1>1, <1>3, SameFates
  <2> QED
    BY <1>1, <2>1
<1>4. CASE ~\A o \in 1 .. Len(log) \ settled : Gone(o)' <=> Gone(o)
  <2>1. PICK n \in 1 .. Len(log) \ settled : ~(Gone(n)' <=> Gone(n))
    BY <1>4
  <2>2. n = inHand /\ inHand # None
    BY <2>1, <1>1, <1>2
  <2>3. ~Gone(n) /\ \A o \in 1 .. n - 1 : o \in settled \/ Gone(o)
    BY <2>1, <2>2, InHandIsNext
  <2>4. Gone(n)'
    BY <2>1, <2>3
  <2>5. \E o \in DOMAIN Fate : Delivery!IsNext(o) /\ Fate' = [Fate EXCEPT ![o] = "lost"]
    BY <2>2, <2>3, <2>4, <1>1, <1>2, OneGoes
  <2> QED
    BY <2>5, <1>1 DEF Delivery!Next, Delivery!StopLosesNext, Fate, Placed
<1> QED
  BY <1>3, <1>4

LEMMA CloseLosesNext ==
  ASSUME IngestInv, CloseConsumer
  PROVE  [Delivery!Next]_<<Fate, Placed>>
<1>1. /\ UNCHANGED <<log, base, settled, inHand>>
      /\ None \notin Nat /\ base \in Nat /\ position \in Nat /\ Len(log) \in Nat
  BY IngestAssumption DEF CloseConsumer, gateway, IngestInv, TypeOK, GatewayTypeOK
<1>2. CASE committed' = committed
  <2>1. \A o \in 1 .. Len(log) : Gone(o)' <=> Gone(o)
    BY <1>1, <1>2 DEF Gone, Passed
  <2>2. Fate' = Fate
    BY <1>1, <2>1, SameFates
  <2> QED
    BY <1>2, <2>2 DEF Placed
<1>3. CASE committed' # committed
  <2>1. committed' = position /\ consumer = "open" /\ Placed' = TRUE
    BY <1>1, <1>3 DEF CloseConsumer, Placed
  <2>2. \A o \in 1 .. Len(log) : Gone(o) => Gone(o)'
    BY <1>1, <2>1 DEF Gone, Passed, IngestInv, PositionInv, TypeOK
  <2>3. ASSUME NEW o \in 1 .. Len(log) \ settled, Gone(o)', ~Gone(o)
        PROVE  o = position - 1 /\ base <= o
    <3>1. o \in base .. position - 1 /\ ~Passed(o) /\ inHand # o
      BY <2>3, <2>1, <1>1 DEF Gone, Passed
    <3> QED
      BY <3>1, <2>1, <1>1 DEF IngestInv, CoverInv
  <2>4. CASE \A o \in 1 .. Len(log) \ settled : Gone(o)' <=> Gone(o)
    <3>1. Fate' = Fate
      BY <1>1, <2>4, SameFates
    <3> QED
      BY <2>1, <3>1 DEF Delivery!Next, Delivery!TakePlace, Fate, Placed
  <2>5. CASE ~\A o \in 1 .. Len(log) \ settled : Gone(o)' <=> Gone(o)
    <3>1. PICK n \in 1 .. Len(log) \ settled : Gone(n)' /\ ~Gone(n)
      BY <2>2, <2>5
    <3>2. n = position - 1 /\ base <= n
      BY <2>3, <3>1
    <3>3. \A o \in 1 .. Len(log) \ settled : o # n => (Gone(o)' <=> Gone(o))
      BY <2>2, <2>3, <3>2
    <3>4. ASSUME NEW o \in 1 .. n - 1
          PROVE  o \in settled \/ Gone(o)
      <4>1. CASE o < base
        BY <4>1 DEF Gone
      <4>2. CASE ~(o < base)
        <5>1. o \in base .. position - 1 /\ o # position - 1
          BY <4>2, <3>2, <1>1
        <5>2. o \in settled \/ Passed(o)
          BY <5>1, <2>1 DEF IngestInv, CoverInv
        <5>3. inHand # o
          BY <5>1, <1>1 DEF IngestInv, ThreadInv
        <5> QED
          BY <5>2, <5>3 DEF Gone
      <4> QED
        BY <4>1, <4>2
    <3>5. \E o \in DOMAIN Fate : Delivery!IsNext(o) /\ Fate' = [Fate EXCEPT ![o] = "lost"]
      BY <3>1, <3>3, <3>4, <1>1, OneGoes
    <3> QED
      BY <3>5, <2>1 DEF Delivery!Next, Delivery!StopLosesNext, Fate, Placed
  <2> QED
    BY <2>4, <2>5
<1> QED
  BY <1>2, <1>3

LEMMA SeekJoins ==
  ASSUME IngestInv, inHand = None, UNCHANGED <<log, settled, committed, inHand>>,
         SeekTo(committed)
  PROVE  [Delivery!Next]_<<Fate, Placed>>
<1>1. UNCHANGED Placed /\ Len(log) \in Nat
  BY DEF Placed, IngestInv, TypeOK, GatewayTypeOK
<1>2. CASE base' = base
  <2>1. \A o \in 1 .. Len(log) : Gone(o)' <=> Gone(o)
    BY <1>2 DEF Gone, Passed
  <2>2. Fate' = Fate
    BY <2>1, SameFates
  <2> QED
    BY <1>1, <2>2
<1>3. CASE base' # base
  <2>1. committed = None /\ base' = Len(log) + 1
    BY <1>3 DEF SeekTo
  <2>2. \A o \in 1 .. Len(log) : Gone(o)'
    BY <2>1, <1>1 DEF Gone
  <2>3. \A o \in 1 .. Len(log) :
          FateOf(o)' = IF FateOf(o) = "waiting" THEN "lost" ELSE FateOf(o)
    BY <2>2, FateIs
  <2>4. Fate' = [o \in DOMAIN Fate |-> IF Fate[o] = "waiting" THEN "lost" ELSE Fate[o]]
    BY <2>3 DEF Fate
  <2> QED
    BY <2>1, <2>4, <1>1 DEF Delivery!Next, Delivery!JoinAtEnd, Fate, Placed
<1> QED
  BY <1>2, <1>3

LEMMA DeliveryStep == IngestInv /\ [Next]_vars => [Delivery!Next]_<<Fate, Placed>>
<1> SUFFICES ASSUME IngestInv, [Next]_vars
             PROVE  [Delivery!Next]_<<Fate, Placed>>
  OBVIOUS
<1>1. CASE GatewayNext /\ UNCHANGED <<worker, counters>>
  BY <1>1, PublishesOne
<1>2. CASE CloseConsumer
  BY <1>2, CloseLosesNext
<1>3. CASE Exit \/ Crash
  BY <1>3, EndLosesNext DEF Exit, Crash
<1>4. CASE Connect
  BY <1>4, SeekJoins DEF Connect, gateway, IngestInv, ThreadInv
<1>5. CASE Rejoin
  BY <1>5, SeekJoins DEF Rejoin, Between, gateway
<1>6. CASE Take
  BY <1>6, TakeIsSilent
<1>7. CASE Handle
  BY <1>7, HandleSettles
<1>8. CASE AutoCommit
  BY <1>8, CommitTakesPlace
<1>9. CASE UNCHANGED <<log, settled, base, committed, inHand>>
  <2>1. \A o \in 1 .. Len(log) : Gone(o)' <=> Gone(o)
    BY <1>9 DEF Gone, Passed
  <2>2. Fate' = Fate
    BY <1>9, <2>1, SameFates
  <2> QED
    BY <1>9, <2>2 DEF Placed
<1>10. Start \/ SetStop \/ Die \/ StreamEnds \/ UNCHANGED vars =>
         UNCHANGED <<log, settled, base, committed, inHand>>
  BY DEF Start, SetStop, Die, StreamEnds, vars, gateway, worker
<1> QED
  BY <1>1, <1>2, <1>3, <1>4, <1>5, <1>6, <1>7, <1>8, <1>9, <1>10 DEF Next, Thread

(***************************************************************************)
(* The worker, with its positions, commits and threads, does what          *)
(* EventDelivery says: records are settled in the order of the topic, only *)
(* the next one can be lost with a shutdown, and everything there is only  *)
(* by a consumer that joins before the group has a place.                  *)
(***************************************************************************)
THEOREM WorkerDelivers == Spec => DeliversInOrder
<1>1. IngestInv /\ [Next]_vars =>
        [Delivery!Next]_<<[o \in 1 .. Len(log) |-> FateOf(o)], committed # None>>
  BY DeliveryStep DEF Fate, Placed
<1> QED
  BY <1>1, DeliveryInit, AlwaysIngestInv, PTL DEF Spec, DeliversInOrder, Delivery!Spec

\* When one record has left the queue, no earlier one still waits.
InOrder == \A o \in DOMAIN Fate : \A p \in 1 .. o - 1 : Fate[o] # "waiting" => Fate[p] # "waiting"

LEMMA DeliveryKeepsOrder ==
  ASSUME TypeOK, InOrder, [Delivery!Next]_<<Fate, Placed>>
  PROVE  InOrder'
<1>1. /\ Fate \in Seq(Fates) /\ Len(Fate) = Len(log) /\ Len(log) \in Nat
      /\ DOMAIN Fate = 1 .. Len(log)
  BY FateIsSeq
<1>2. PICK f : f = Fate
  OBVIOUS
<1>3. PICK g : g = Fate'
  OBVIOUS
<1>4. /\ f \in Seq(Fates) /\ Len(f) \in Nat /\ DOMAIN f = 1 .. Len(f)
      /\ \A o \in DOMAIN f : \A p \in 1 .. o - 1 : f[o] # "waiting" => f[p] # "waiting"
  BY <1>1, <1>2 DEF InOrder
<1>5. SUFFICES \A o \in DOMAIN g : \A p \in 1 .. o - 1 : g[o] # "waiting" => g[p] # "waiting"
  BY <1>3 DEF InOrder
<1>6. CASE g = Append(f, "waiting")
  <2>1. /\ DOMAIN g = 1 .. Len(f) + 1 /\ g[Len(f) + 1] = "waiting"
        /\ \A o \in 1 .. Len(f) : g[o] = f[o]
    BY <1>4, <1>6, AppendProperties, LenProperties DEF Fates
  <2> QED
    BY <1>4, <2>1
<1>7. CASE \E o \in DOMAIN f : /\ f[o] = "waiting" /\ (\A p \in 1 .. o - 1 : f[p] # "waiting")
                               /\ \/ g = [f EXCEPT ![o] = "settled"]
                                  \/ g = [f EXCEPT ![o] = "lost"]
  <2>1. PICK o \in DOMAIN f : /\ \A p \in 1 .. o - 1 : f[p] # "waiting"
                              /\ DOMAIN g = DOMAIN f /\ g[o] # "waiting"
                              /\ \A p \in DOMAIN f \ {o} : g[p] = f[p]
    BY <1>4, <1>7
  <2>2. ASSUME NEW q \in DOMAIN f, NEW p \in 1 .. q - 1, g[q] # "waiting"
        PROVE  g[p] # "waiting"
    <3>1. p \in DOMAIN f /\ (q = o => f[p] # "waiting") /\ (q # o => f[q] # "waiting")
      BY <1>4, <2>1, <2>2
    <3>2. f[p] # "waiting"
      BY <1>4, <3>1, <2>2
    <3> QED
      BY <2>1, <3>1, <3>2
  <2> QED
    BY <2>1, <2>2
<1>8. CASE g = [o \in DOMAIN f |-> IF f[o] = "waiting" THEN "lost" ELSE f[o]]
  <2>1. \A o \in DOMAIN g : g[o] # "waiting"
    BY <1>8
  <2>2. \A o \in DOMAIN g : \A p \in 1 .. o - 1 : p \in DOMAIN g
    BY <1>4, <1>8
  <2> QED
    BY <2>1, <2>2
<1>9. CASE g = f
  BY <1>4, <1>9
<1>10. CASE Delivery!Publish
  BY <1>2, <1>3, <1>6, <1>10 DEF Delivery!Publish, Fate
<1>11. CASE Delivery!Settle
  BY <1>2, <1>3, <1>7, <1>11 DEF Delivery!Settle, Delivery!IsNext, Fate
<1>12. CASE Delivery!StopLosesNext
  BY <1>2, <1>3, <1>7, <1>12 DEF Delivery!StopLosesNext, Delivery!IsNext, Fate
<1>13. CASE Delivery!JoinAtEnd
  BY <1>2, <1>3, <1>8, <1>13 DEF Delivery!JoinAtEnd, Fate
<1>14. CASE Delivery!TakePlace \/ UNCHANGED <<Fate, Placed>>
  BY <1>2, <1>3, <1>9, <1>14 DEF Delivery!TakePlace, Fate
<1> QED
  BY <1>10, <1>11, <1>12, <1>13, <1>14 DEF Delivery!Next

(***************************************************************************)
(* So records leave the topic in order, settled or lost: when one has      *)
(* left, no earlier one still waits, with any number of stops, crashes,    *)
(* rejoins and restarts.                                                   *)
(***************************************************************************)
THEOREM RecordsLeaveInOrder == Spec => []InOrder
<1>1. Init => InOrder
  <2> SUFFICES ASSUME Init PROVE InOrder
    OBVIOUS
  <2>1. Fate = <<>>
    BY DeliveryInit DEF Delivery!Init, Fate
  <2> QED
    BY <2>1 DEF InOrder
<1>2. IngestInv /\ InOrder /\ [Next]_vars => InOrder'
  BY DeliveryStep, DeliveryKeepsOrder DEF IngestInv
<1> QED
  BY <1>1, <1>2, AlwaysIngestInv, PTL DEF Spec

=============================================================================
