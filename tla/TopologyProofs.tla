---------------------------- MODULE TopologyProofs ----------------------------
(***************************************************************************)
(* Proofs about TopologyProbe and TopologyCache: probes exclude each       *)
(* other, what is stored is whole and is what the probe that reported      *)
(* success has seen, and nobody is told what is older than the question.   *)
(***************************************************************************)
EXTENDS TopologyCache, SocketProofs

Topologies == {Build(rows) : rows \in SocketTables \cup {<<>>}}

-----------------------------------------------------------------------------
(* The inductive invariant of the probes *)

Types ==
  /\ silent \in BOOLEAN
  /\ running \in BOOLEAN
  /\ stage \in [Prober -> Stage]
  /\ built \in [Prober -> Topologies \cup {HostOnly}]
  /\ auto \in {"loop", "wait", "ended"}
  /\ stopping \in BOOLEAN
  /\ tmp \in File \cup {None}
  /\ stored \in File \cup {None}
  /\ clock \in Time

InProbe(p) == stage[p] \notin Idle

\* The lock, and what stop_auto does to it: then only the thread may probe.
LockInv ==
  /\ \A p, q \in Prober : InProbe(p) /\ InProbe(q) => p = q
  /\ running => \E p \in Prober : InProbe(p)
  /\ ~running /\ ~stopping => \A p \in Prober : ~InProbe(p)
  /\ stopping => \A p \in Manual : stage[p] = "idle"

\* What a prober has in hand on each of its ways.
HandInv ==
  \A p \in Prober :
    /\ stage[p] \in {"connecting", "probing", "writing", "filling"} => clock < MaxWrites
    /\ stage[p] \in {"writing", "filling", "renaming"} => built[p] \in Topologies
    /\ stage[p] = "renaming" =>
         tmp.whole /\ tmp.by = p /\ tmp.topology = built[p] /\ tmp.time = clock
    /\ stage[p] = "done" =>
         stored # None /\ stored.by = p /\ stored.topology = built[p]

StoredInv == stored # None => stored.whole /\ stored.time <= clock

ProbeInv == Types /\ LockInv /\ HandInv /\ StoredInv

LEMMA ProbeInvInit == ProbeInit => ProbeInv
<1> SUFFICES ASSUME ProbeInit
             PROVE  ProbeInv
  OBVIOUS
<1>1. \A p \in Prober : stage[p] = "idle" /\ ~InProbe(p)
  BY DEF ProbeInit, InProbe, Idle
<1>2. Types
  <2>1. clock \in Time
    BY ProbeAssumption DEF ProbeInit, Time
  <2>2. stage \in [Prober -> Stage] /\ built \in [Prober -> Topologies \cup {HostOnly}]
    BY DEF ProbeInit, Stage, Idle
  <2>3. running \in BOOLEAN /\ stopping \in BOOLEAN /\ silent \in BOOLEAN
    BY DEF ProbeInit
  <2> QED
    BY <2>1, <2>2, <2>3 DEF ProbeInit, Types, AutoStart
<1>3. LockInv
  BY <1>1 DEF ProbeInit, LockInv, Prober
<1>4. HandInv
  BY <1>1 DEF HandInv
<1>5. StoredInv
  BY DEF ProbeInit, StoredInv
<1> QED
  BY <1>2, <1>3, <1>4, <1>5 DEF ProbeInv

LEMMA FileOfIsFile ==
  ASSUME NEW p \in Prober, NEW time \in Time, NEW whole \in BOOLEAN, built[p] \in Topologies
  PROVE  FileOf(p, time, whole) \in File
BY DEF FileOf, File, Topologies

\* Asking for a probe changes neither what a prober has in hand nor who is in probe().
LEMMA AskingKeepsInv ==
  ASSUME ProbeInv, NEW p \in Prober, stage[p] \in Idle,
         NEW to \in Idle, p = "auto" \/ to = "idle" \/ ~stopping,
         stage' = stage \/ Go(p, to),
         auto' \in {"loop", "wait", "ended"},
         UNCHANGED <<silent, running, built, stopping, tmp, stored, clock>>
  PROVE  ProbeInv'
<1> USE DEF ProbeInv
<1>1. stage' \in [Prober -> Stage]
  BY DEF Types, Go, Stage
<1>2. \A q \in Prober : stage'[q] = stage[q] \/ (q = p /\ stage'[q] = to)
  BY DEF Types, Go
<1>3. \A q \in Prober : InProbe(q)' <=> InProbe(q)
  BY <1>2 DEF InProbe
<1>4. Types'
  BY <1>1 DEF Types
<1>5. LockInv'
  BY <1>2, <1>3, ProbeAssumption DEF LockInv, Prober
<1>6. HandInv'
  BY <1>2 DEF HandInv, Idle
<1>7. StoredInv'
  BY DEF StoredInv
<1> QED
  BY <1>4, <1>5, <1>6, <1>7

\* A prober that leaves has let go of the lock.
LEMMA LeavingKeepsInv ==
  ASSUME ProbeInv, NEW p \in Prober, InProbe(p), Leave(p), running' = FALSE,
         UNCHANGED <<silent, auto, stopping, tmp, stored, clock>>
  PROVE  ProbeInv'
<1> USE DEF ProbeInv
<1>1. /\ stage' = [stage EXCEPT ![p] = "idle"]
      /\ built' = [built EXCEPT ![p] = HostOnly]
  BY DEF Leave, Go
<1>2. Types'
  BY <1>1 DEF Types, Stage, Idle
<1>3. \A q \in Prober : stage'[q] = "idle" \/ (q # p /\ ~InProbe(q) /\ stage'[q] = stage[q])
  BY <1>1 DEF Types, LockInv
<1>4. \A q \in Prober : ~InProbe(q)'
  BY <1>3 DEF InProbe, Idle
<1>5. LockInv'
  BY <1>3, <1>4 DEF LockInv, Prober
<1>6. HandInv'
  BY <1>4 DEF HandInv, InProbe, Idle
<1>7. StoredInv'
  BY DEF StoredInv
<1> QED
  BY <1>2, <1>5, <1>6, <1>7

\* Who goes on in probe() stays the only one.
LEMMA WorkingKeepsLock ==
  ASSUME Types, LockInv, NEW p \in Prober, InProbe(p),
         NEW to \in Stage \ Idle, Go(p, to), UNCHANGED <<running, stopping>>
  PROVE  /\ stage' \in [Prober -> Stage]
         /\ stage'[p] = to
         /\ \A q \in Prober : q # p => stage'[q] \in Idle
         /\ LockInv'
<1>1. stage' = [stage EXCEPT ![p] = to]
  BY DEF Go
<1>2. stage' \in [Prober -> Stage] /\ stage'[p] = to
  BY <1>1 DEF Types
<1>3. \A q \in Prober : q # p => stage'[q] = stage[q] /\ stage[q] \in Idle
  BY <1>1 DEF Types, LockInv, InProbe
<1>4. \A q \in Prober : InProbe(q)' <=> q = p
  BY <1>2, <1>3 DEF InProbe
<1>5. stopping => p \notin Manual
  BY DEF LockInv, InProbe, Idle, Prober
<1>6. LockInv'
  BY <1>2, <1>3, <1>4, <1>5 DEF LockInv, Prober
<1> QED
  BY <1>2, <1>3, <1>6

LEMMA ProbeInvStep == ProbeInv /\ [ProbeNext]_probe => ProbeInv'
<1> SUFFICES ASSUME ProbeInv, [ProbeNext]_probe
             PROVE  ProbeInv'
  OBVIOUS
<1>idle. "idle" \in Idle /\ "asked" \in Idle
  BY DEF Idle
<1>auto. "auto" \in Prober
  BY DEF Prober
<1>1. ASSUME NEW p \in Manual, Request(p)
      PROVE  ProbeInv'
  BY <1>1, <1>idle, AskingKeepsInv DEF Request, Prober, ProbeInv, Types
<1>2. CASE AutoLook
  <2>1. auto' \in {"loop", "wait", "ended"}
    BY <1>2 DEF AutoLook
  <2> QED
    BY <1>2, <2>1, <1>idle, <1>auto, AskingKeepsInv DEF AutoLook
<1>3. CASE AutoWait
  <2>1. auto' \in {"loop", "wait", "ended"}
    BY <1>3 DEF AutoWait
  <2> QED
    BY <1>3, <2>1, <1>idle, <1>auto, AskingKeepsInv DEF AutoWait
<1>4. ASSUME NEW p \in Prober, Enter(p)
      PROVE  ProbeInv'
  <2>1. CASE running
    BY <1>4, <2>1, <1>idle, AskingKeepsInv DEF Enter, ProbeInv, Types
  <2>2. CASE ~running
    <3> USE DEF ProbeInv
    <3>1. /\ stage[p] = "asked" /\ clock < MaxWrites
          /\ stage' = [stage EXCEPT ![p] = "connecting"]
          /\ running' = TRUE
          /\ UNCHANGED <<silent, built, auto, stopping, tmp, stored, clock>>
      BY <1>4, <2>2 DEF Enter, Go
    <3>2. \A q \in Prober : ~InProbe(q)
      <4>1. CASE ~stopping
        BY <2>2, <4>1 DEF LockInv
      <4>2. CASE stopping
        BY <3>1, <4>2 DEF LockInv, InProbe, Idle, Prober
      <4> QED
        BY <4>1, <4>2 DEF Types
    <3>3. \A q \in Prober : InProbe(q)' <=> q = p
      BY <3>1, <3>2 DEF InProbe, Types, Idle
    <3>4. Types'
      BY <3>1 DEF Types, Stage
    <3>5. LockInv'
      BY <3>1, <3>3 DEF LockInv, Types
    <3>6. HandInv'
      BY <3>1, <3>3 DEF HandInv, InProbe, Types, Idle
    <3>7. StoredInv'
      BY <3>1 DEF StoredInv
    <3> QED
      BY <3>4, <3>5, <3>6, <3>7
  <2> QED
    BY <2>1, <2>2 DEF ProbeInv, Types
<1>work. ASSUME NEW p \in Prober, NEW to \in Stage \ Idle, stage[p] \notin Idle,
                Go(p, to), UNCHANGED <<running, stopping>>
         PROVE  /\ stage' \in [Prober -> Stage]
                /\ stage'[p] = to
                /\ \A q \in Prober : q # p => stage'[q] \in Idle
                /\ LockInv'
  BY <1>work, WorkingKeepsLock DEF ProbeInv, InProbe
<1>5. ASSUME NEW p \in Prober, OpenClient(p)
      PROVE  ProbeInv'
  <2>1. /\ stage[p] = "connecting" /\ Go(p, "probing")
        /\ UNCHANGED <<silent, running, built, auto, stopping, tmp, stored, clock>>
    BY <1>5 DEF OpenClient
  <2>2. /\ stage' \in [Prober -> Stage] /\ LockInv' /\ stage'[p] = "probing"
        /\ \A q \in Prober : q # p => stage'[q] \in Idle
    BY <2>1, <1>work DEF Stage, Idle
  <2> QED
    BY <2>1, <2>2 DEF ProbeInv, Types, HandInv, StoredInv, Idle
<1>6. ASSUME NEW p \in Prober, Probe(p)
      PROVE  ProbeInv'
  <2>1. /\ stage[p] = "probing" /\ Go(p, "writing")
        /\ UNCHANGED <<silent, running, auto, stopping, tmp, stored, clock>>
    BY <1>6 DEF Probe
  <2>2. PICK rows \in SocketTables \cup {<<>>} : built' = [built EXCEPT ![p] = Build(rows)]
    BY <1>6 DEF Probe
  <2>3. built' \in [Prober -> Topologies \cup {HostOnly}] /\ built'[p] \in Topologies
    BY <2>2 DEF Topologies, ProbeInv, Types
  <2>4. /\ stage' \in [Prober -> Stage] /\ LockInv' /\ stage'[p] = "writing"
        /\ \A q \in Prober : q # p => stage'[q] \in Idle
    BY <2>1, <1>work DEF Stage, Idle
  <2>5. Types'
    BY <2>1, <2>3, <2>4 DEF ProbeInv, Types
  <2>6. HandInv'
    BY <2>1, <2>3, <2>4 DEF ProbeInv, HandInv, Idle
  <2> QED
    BY <2>1, <2>4, <2>5, <2>6 DEF ProbeInv, StoredInv
<1>7. ASSUME NEW p \in Prober, OpenTmp(p)
      PROVE  ProbeInv'
  <2>1. /\ stage[p] = "writing" /\ Go(p, "filling") /\ tmp' = FileOf(p, clock, FALSE)
        /\ UNCHANGED <<silent, running, built, auto, stopping, stored, clock>>
    BY <1>7 DEF OpenTmp
  <2>2. tmp' \in File
    BY <2>1, FileOfIsFile DEF ProbeInv, Types, HandInv
  <2>3. /\ stage' \in [Prober -> Stage] /\ LockInv' /\ stage'[p] = "filling"
        /\ \A q \in Prober : q # p => stage'[q] \in Idle
    BY <2>1, <1>work DEF Stage, Idle
  <2> QED
    BY <2>1, <2>2, <2>3 DEF ProbeInv, Types, HandInv, StoredInv, Idle
<1>8. ASSUME NEW p \in Prober, FillTmp(p)
      PROVE  ProbeInv'
  <2>1. /\ stage[p] = "filling" /\ Go(p, "renaming")
        /\ clock' = clock + 1 /\ tmp' = FileOf(p, clock', TRUE)
        /\ UNCHANGED <<silent, running, built, auto, stopping, stored>>
    BY <1>8 DEF FillTmp
  <2>2. clock' \in Time /\ clock <= clock' /\ clock \in Nat
    BY <2>1, ProbeAssumption DEF ProbeInv, Types, HandInv, Time
  <2>3. tmp' \in File
    BY <2>1, <2>2, FileOfIsFile DEF ProbeInv, Types, HandInv
  <2>4. tmp'.whole /\ tmp'.by = p /\ tmp'.topology = built[p] /\ tmp'.time = clock'
    BY <2>1 DEF FileOf
  <2>5. /\ stage' \in [Prober -> Stage] /\ LockInv' /\ stage'[p] = "renaming"
        /\ \A q \in Prober : q # p => stage'[q] \in Idle
    BY <2>1, <1>work DEF Stage, Idle
  <2>6. Types'
    BY <2>1, <2>2, <2>3, <2>5 DEF ProbeInv, Types
  <2>7. HandInv'
    BY <2>1, <2>4, <2>5 DEF ProbeInv, HandInv, Idle
  <2>8. StoredInv'
    BY <2>1, <2>2 DEF ProbeInv, StoredInv, Types, File, Time
  <2> QED
    BY <2>5, <2>6, <2>7, <2>8 DEF ProbeInv
<1>9. ASSUME NEW p \in Prober, Rename(p)
      PROVE  ProbeInv'
  <2>1. /\ stage[p] = "renaming" /\ Go(p, "done") /\ tmp # None
        /\ stored' = tmp /\ tmp' = None
        /\ UNCHANGED <<silent, running, built, auto, stopping, clock>>
    BY <1>9 DEF Rename
  <2>2. stored'.whole /\ stored'.by = p /\ stored'.topology = built[p] /\ stored'.time = clock
    BY <2>1 DEF ProbeInv, HandInv
  <2>3. /\ stage' \in [Prober -> Stage] /\ LockInv' /\ stage'[p] = "done"
        /\ \A q \in Prober : q # p => stage'[q] \in Idle
    BY <2>1, <1>work DEF Stage, Idle
  <2>4. Types'
    BY <2>1, <2>3 DEF ProbeInv, Types
  <2>5. HandInv'
    BY <2>1, <2>2, <2>3 DEF ProbeInv, HandInv, Idle
  <2>6. StoredInv'
    BY <2>1, <2>2, ProbeAssumption DEF ProbeInv, StoredInv, Types, Time
  <2> QED
    BY <2>3, <2>4, <2>5, <2>6 DEF ProbeInv
<1>10. ASSUME NEW p \in Prober, Succeed(p) \/ Fail(p)
       PROVE  ProbeInv'
  <2>1. InProbe(p)
    BY <1>10 DEF Succeed, Fail, MayFail, InProbe, Idle
  <2> QED
    BY <1>10, <2>1, LeavingKeepsInv DEF Succeed, Fail
<1>11. CASE Stop
  BY <1>11 DEF Stop, ProbeInv, Types, LockInv, HandInv, StoredInv, InProbe
<1>12. CASE Joined
  BY <1>12 DEF Joined, ProbeInv, Types, LockInv, HandInv, StoredInv, InProbe
<1>13. CASE Restart
  <2>1. /\ running' = FALSE /\ stopping' = FALSE /\ auto' = AutoStart
        /\ stage' = [p \in Prober |-> "idle"] /\ built' = [p \in Prober |-> HostOnly]
        /\ UNCHANGED <<silent, tmp, stored, clock>>
    BY <1>13 DEF Restart
  <2>2. \A p \in Prober : stage'[p] = "idle" /\ ~InProbe(p)'
    BY <2>1 DEF InProbe, Idle
  <2>3. Types'
    BY <2>1 DEF ProbeInv, Types, Stage, Idle, AutoStart
  <2>4. LockInv'
    BY <2>1, <2>2 DEF LockInv, Prober
  <2>5. HandInv'
    BY <2>2 DEF HandInv
  <2> QED
    BY <2>1, <2>3, <2>4, <2>5 DEF ProbeInv, StoredInv
<1>14. CASE UNCHANGED probe
  BY <1>14 DEF probe, ProbeInv, Types, LockInv, HandInv, StoredInv, InProbe
<1>15. ASSUME NEW p \in Prober, ProbeStep(p)
       PROVE  ProbeInv'
  BY <1>15, <1>4, <1>5, <1>6, <1>7, <1>8, <1>9, <1>10 DEF ProbeStep
<1> QED
  BY <1>1, <1>2, <1>3, <1>11, <1>12, <1>13, <1>14, <1>15, <1>auto
     DEF ProbeNext, AutoNext, Prober

-----------------------------------------------------------------------------
(* The inductive invariant of the readers *)

ReaderState ==
  [at : {"idle", "looked", "loaded", "published", "resolved"},
   path : {"shipped", "dynamic"}, time : Time, loaded : Time]

CacheTypes ==
  /\ reader \in [Readers -> ReaderState]
  /\ cached \in Time \cup {None}
  /\ cachedTime \in Time \cup {None}
  /\ cachedFrom \in {"shipped", "dynamic", None}

Newest == TimeAt(Candidate)

\* What a reader has seen is no newer than the file.
SeenInv ==
  \A r \in Readers :
    /\ reader[r].path = "dynamic" => stored # None
    /\ reader[r].path = "shipped" => reader[r].time = 0
    /\ reader[r].time <= Newest

CacheInv == CacheTypes /\ SeenInv

LEMMA NewestIsTime ==
  ASSUME ProbeInv
  PROVE  Newest \in Time /\ 0 \in Time /\ \A t \in Time : t \in Nat /\ 0 <= t
<1>1. 0 \in Time /\ \A t \in Time : t \in Nat /\ 0 <= t
  BY ProbeAssumption DEF Time
<1> QED
  BY <1>1 DEF Newest, TimeAt, Candidate, ProbeInv, Types, File

\* The time of what is read never goes back, and there stays something to read.
LEMMA NewestGrows ==
  ASSUME ProbeInv, [ProbeNext]_probe
  PROVE  /\ Newest \in Time /\ Newest' \in Time /\ Newest <= Newest'
         /\ stored # None => stored' # None
<1>1. stored' = stored \/ (\E p \in Prober : Rename(p))
  BY DEF ProbeNext, AutoNext, ProbeStep, AutoLook, AutoWait, Stop, Joined, Restart,
     Request, Enter, OpenClient, Probe, OpenTmp, FillTmp, Succeed, Fail, Prober, probe
<1>2. ProbeInv'
  BY ProbeInvStep
<1>3. \A t \in Time : t \in Nat /\ 0 <= t
  BY NewestIsTime
<1>4. Newest \in Time /\ Newest' \in Time
  BY <1>2, NewestIsTime DEF Newest, TimeAt, Candidate, ProbeInv, Types, File
<1>5. ASSUME NEW p \in Prober, Rename(p)
      PROVE  Newest <= Newest' /\ stored' # None
  <2>1. stored' # None /\ stored'.time = clock
    BY <1>5 DEF Rename, ProbeInv, HandInv
  <2>2. stored # None => stored.time <= clock
    BY DEF ProbeInv, StoredInv
  <2>3. clock \in Time
    BY DEF ProbeInv, Types
  <2> QED
    BY <2>1, <2>2, <2>3, <1>3 DEF Newest, TimeAt, Candidate
<1>6. CASE stored' = stored
  BY <1>6, <1>4, ProbeAssumption DEF Newest, TimeAt, Candidate, Time
<1> QED
  BY <1>1, <1>4, <1>5, <1>6

LEMMA CacheInvInit == ProbeInv /\ CacheInit => CacheInv
BY NewestIsTime
   DEF CacheInit, CacheInv, CacheTypes, SeenInv, ReaderState, Resting

\* A reader that goes on, whatever the others do.
LEMMA ReaderGoesOn ==
  ASSUME ProbeInv, CacheInv, NEW r \in Readers, NEW state \in ReaderState,
         reader' = [reader EXCEPT ![r] = state], UNCHANGED probe,
         state.path = "dynamic" => stored # None,
         state.path = "shipped" => state.time = 0,
         state.time <= Newest,
         cached' \in Time \cup {None}, cachedTime' \in Time \cup {None},
         cachedFrom' \in {"shipped", "dynamic", None}
  PROVE  CacheInv'
<1>1. CacheTypes'
  BY DEF CacheInv, CacheTypes
<1>2. Newest' = Newest /\ stored' = stored
  BY DEF Newest, TimeAt, Candidate, probe
<1>3. \A q \in Readers : reader'[q] = state \/ reader'[q] = reader[q]
  BY DEF CacheInv, CacheTypes
<1>4. SeenInv'
  BY <1>2, <1>3 DEF CacheInv, SeenInv
<1> QED
  BY <1>1, <1>4 DEF CacheInv

LEMMA CacheInvStep == ProbeInv /\ CacheInv /\ [Next]_vars => CacheInv'
<1> SUFFICES ASSUME ProbeInv, CacheInv, [Next]_vars
             PROVE  CacheInv'
  OBVIOUS
<1>0. /\ Newest \in Time /\ 0 \in Time /\ \A t \in Time : 0 <= t
      /\ Candidate = "dynamic" => stored # None
      /\ Candidate \in {"shipped", "dynamic"}
  BY NewestIsTime DEF Candidate
<1>1. ASSUME NEW r \in Readers, Look(r)
      PROVE  CacheInv'
  <2> DEFINE state == [at |-> "looked", path |-> Candidate, time |-> TimeAt(Candidate),
                       loaded |-> 0]
  <2>1. /\ reader' = [reader EXCEPT ![r] = state]
        /\ UNCHANGED <<probe, cached, cachedTime, cachedFrom>>
    BY <1>1 DEF Look
  <2>2. state \in ReaderState /\ (state.path = "shipped" => state.time = 0)
    BY <1>0 DEF ReaderState, Newest, TimeAt
  <2>3. state.time <= Newest /\ (state.path = "dynamic" => stored # None)
    BY <1>0, ProbeAssumption DEF Newest, Time
  <2> QED
    BY <2>1, <2>2, <2>3, ReaderGoesOn DEF CacheInv, CacheTypes
<1>rest. Resting \in ReaderState /\ Resting.path = "shipped" /\ Resting.time = 0
  BY <1>0 DEF Resting, ReaderState
<1>2. ASSUME NEW r \in Readers, Load(r)
      PROVE  CacheInv'
  <2> DEFINE seen == reader[r]
             state == [seen EXCEPT !.at = "loaded", !.loaded = TimeAt(seen.path)]
  <2>1. /\ reader' = [reader EXCEPT ![r] = IF WholeAt(seen.path) THEN state ELSE Resting]
        /\ UNCHANGED <<probe, cached, cachedTime, cachedFrom>>
    BY <1>2 DEF Load
  <2>2. seen \in ReaderState /\ (seen.path = "dynamic" => stored # None)
    BY DEF CacheInv, CacheTypes, SeenInv
  <2>3. TimeAt(seen.path) \in Time
    BY <2>2, <1>0 DEF TimeAt, ReaderState, ProbeInv, Types, File
  <2>4. state \in ReaderState /\ state.path = seen.path /\ state.time = seen.time
    BY <2>2, <2>3 DEF ReaderState
  <2>5. CASE WholeAt(seen.path)
    <3> HIDE DEF state
    <3> QED
      BY <2>1, <2>4, <2>5, ReaderGoesOn DEF CacheInv, CacheTypes, SeenInv
  <2>6. CASE ~WholeAt(seen.path)
    BY <2>1, <2>6, <1>rest, <1>0, ReaderGoesOn DEF CacheInv, CacheTypes
  <2> QED
    BY <2>5, <2>6
<1>3. ASSUME NEW r \in Readers, Trust(r) \/ Publish(r) \/ Stamp(r)
      PROVE  CacheInv'
  <2>1. PICK where \in {"published", "resolved"} :
          reader' = [reader EXCEPT ![r].at = where]
    BY <1>3 DEF Trust, Publish, Stamp
  <2> DEFINE state == [reader[r] EXCEPT !.at = where]
  <2>2. reader[r] \in ReaderState
    BY DEF CacheInv, CacheTypes
  <2>3. /\ reader' = [reader EXCEPT ![r] = state]
        /\ state \in ReaderState
        /\ state.path = reader[r].path /\ state.time = reader[r].time
    BY <2>1, <2>2 DEF ReaderState, CacheInv, CacheTypes
  <2>4. /\ UNCHANGED probe
        /\ cached' \in Time \cup {None} /\ cachedTime' \in Time \cup {None}
        /\ cachedFrom' \in {"shipped", "dynamic", None}
    BY <1>3, <2>2 DEF Trust, Publish, Stamp, CacheInv, CacheTypes, ReaderState
  <2> HIDE DEF state
  <2> QED
    BY <2>3, <2>4, ReaderGoesOn DEF CacheInv, SeenInv
<1>4. ASSUME NEW r \in Readers, Answer(r)
      PROVE  CacheInv'
  BY <1>4, <1>0, <1>rest, ReaderGoesOn DEF Answer, CacheInv, CacheTypes
<1>5. CASE ProbeNext /\ UNCHANGED cache
  <2>1. /\ Newest <= Newest' /\ Newest' \in Time
        /\ stored # None => stored' # None
    BY <1>5, NewestGrows
  <2>2. \A r \in Readers : reader[r].time <= Newest'
    BY <1>0, <2>1, ProbeAssumption DEF CacheInv, CacheTypes, SeenInv, ReaderState, Time
  <2> QED
    BY <1>5, <2>1, <2>2 DEF cache, CacheInv, CacheTypes, SeenInv
<1>6. CASE UNCHANGED vars
  BY <1>6 DEF vars, probe, cache, CacheInv, CacheTypes, SeenInv, Newest, TimeAt, Candidate
<1> QED
  BY <1>1, <1>2, <1>3, <1>4, <1>5, <1>6 DEF Next, Read

-----------------------------------------------------------------------------
(* What a reader is told *)

\* With one reader: what is in memory is as new as its time says, and as what was looked at.
MemoryInv ==
  /\ cachedFrom # None => cachedTime # None
  /\ cachedTime # None => cached # None /\ cachedTime <= cached /\ cachedTime <= Newest
  /\ \A r \in Readers :
       /\ reader[r].at \in {"looked", "loaded", "published"} /\ cachedTime # None =>
            cachedTime <= reader[r].time
       /\ reader[r].at = "loaded" => reader[r].time <= reader[r].loaded
       /\ reader[r].at \in {"published", "resolved"} =>
            cached # None /\ reader[r].time <= cached

OneReader == \A r, s \in Readers : r = s

LEMMA MemoryInvInit == CacheInit => MemoryInv
BY DEF CacheInit, MemoryInv, Resting

LEMMA MemoryInvStep ==
  ASSUME OneReader
  PROVE  ProbeInv /\ CacheInv /\ MemoryInv /\ [Next]_vars => MemoryInv'
<1> SUFFICES ASSUME ProbeInv, CacheInv, MemoryInv, [Next]_vars
             PROVE  MemoryInv'
  OBVIOUS
<1>0. /\ Newest \in Time /\ 0 \in Time /\ \A t \in Time : t \in Nat /\ 0 <= t /\ t # None
      /\ \A r \in Readers : reader[r] \in ReaderState
      /\ cached \in Time \cup {None} /\ cachedTime \in Time \cup {None}
  BY NewestIsTime, CacheAssumption DEF CacheInv, CacheTypes
<1>1. ASSUME NEW r \in Readers, Look(r)
      PROVE  MemoryInv'
  <2>1. /\ reader'[r] = [at |-> "looked", path |-> Candidate, time |-> Newest, loaded |-> 0]
        /\ UNCHANGED <<stored, cached, cachedTime, cachedFrom>>
    BY <1>1 DEF Look, CacheInv, CacheTypes, Newest, probe
  <2>2. Newest' = Newest
    BY <2>1 DEF Newest, TimeAt, Candidate
  <2> QED
    BY <2>1, <2>2 DEF MemoryInv, OneReader
<1>2. ASSUME NEW r \in Readers, Trust(r)
      PROVE  MemoryInv'
  <2>1. /\ reader[r].at = "looked" /\ ~IsStale(reader[r])
        /\ reader'[r] = [reader[r] EXCEPT !.at = "resolved"]
        /\ UNCHANGED <<stored, cached, cachedTime, cachedFrom>>
    BY <1>2 DEF Trust, CacheInv, CacheTypes, probe
  <2>2. Newest' = Newest
    BY <2>1 DEF Newest, TimeAt, Candidate
  <2>3. cached # None /\ cachedTime = reader[r].time
    BY <2>1 DEF IsStale
  <2>4. reader'[r].at = "resolved" /\ reader'[r].time = reader[r].time
    BY <2>1, <1>0 DEF ReaderState
  <2>5. reader[r].time <= cached
    BY <2>3, <1>0 DEF MemoryInv, ReaderState
  <2> QED
    BY <2>1, <2>2, <2>3, <2>4, <2>5 DEF MemoryInv, OneReader
<1>3. ASSUME NEW r \in Readers, Load(r)
      PROVE  MemoryInv'
  <2> DEFINE seen == reader[r]
             loaded == [seen EXCEPT !.at = "loaded", !.loaded = TimeAt(seen.path)]
  <2>1. /\ seen.at = "looked"
        /\ reader'[r] = IF WholeAt(seen.path) THEN loaded ELSE Resting
        /\ UNCHANGED <<stored, cached, cachedTime, cachedFrom>>
    BY <1>3 DEF Load, CacheInv, CacheTypes, probe
  <2>2. Newest' = Newest
    BY <2>1 DEF Newest, TimeAt, Candidate
  <2>3. loaded.at = "loaded" /\ loaded.time = seen.time /\ loaded.loaded = TimeAt(seen.path)
    BY <1>0 DEF ReaderState
  <2>4. seen.time <= TimeAt(seen.path)
    <3>1. CASE seen.path = "shipped"
      BY <3>1, <1>0 DEF CacheInv, SeenInv, TimeAt
    <3>2. CASE seen.path = "dynamic"
      BY <3>2 DEF CacheInv, SeenInv, TimeAt, Newest, Candidate
    <3> QED
      BY <3>1, <3>2, <1>0 DEF ReaderState
  <2>5. \/ reader'[r].at = "idle"
        \/ /\ reader'[r].at = "loaded" /\ reader'[r].time = seen.time
           /\ seen.time <= reader'[r].loaded
    <3> HIDE DEF loaded
    <3> QED
      BY <2>1, <2>3, <2>4 DEF Resting
  <2> QED
    BY <2>1, <2>2, <2>5 DEF MemoryInv, OneReader
<1>4. ASSUME NEW r \in Readers, Publish(r)
      PROVE  MemoryInv'
  <2>1. /\ reader[r].at = "loaded" /\ cached' = reader[r].loaded
        /\ reader'[r] = [reader[r] EXCEPT !.at = "published"]
        /\ UNCHANGED <<stored, cachedTime, cachedFrom>>
    BY <1>4 DEF Publish, CacheInv, CacheTypes, probe
  <2>2. Newest' = Newest
    BY <2>1 DEF Newest, TimeAt, Candidate
  <2>3. reader'[r].at = "published" /\ reader'[r].time = reader[r].time
    BY <2>1, <1>0 DEF ReaderState
  <2>4. cached' \in Time /\ reader[r].time \in Time /\ reader[r].time <= cached'
    BY <2>1, <1>0 DEF MemoryInv, ReaderState
  <2>5. cachedTime # None => cachedTime <= reader[r].time /\ cachedTime <= cached'
    BY <2>1, <2>4, <1>0 DEF MemoryInv
  <2> QED
    BY <2>1, <2>2, <2>3, <2>4, <2>5, <1>0 DEF MemoryInv, OneReader
<1>5. ASSUME NEW r \in Readers, Stamp(r)
      PROVE  MemoryInv'
  <2>1. /\ reader[r].at = "published" /\ cachedTime' = reader[r].time
        /\ reader'[r] = [reader[r] EXCEPT !.at = "resolved"]
        /\ UNCHANGED <<stored, cached>>
    BY <1>5 DEF Stamp, CacheInv, CacheTypes, probe
  <2>2. Newest' = Newest
    BY <2>1 DEF Newest, TimeAt, Candidate
  <2>3. reader'[r].at = "resolved" /\ reader'[r].time = reader[r].time
    BY <2>1, <1>0 DEF ReaderState
  <2>4. cached # None /\ cachedTime' \in Time /\ cachedTime' <= cached /\ cachedTime' <= Newest
    BY <2>1, <1>0 DEF MemoryInv, ReaderState, CacheInv, SeenInv
  <2> QED
    BY <2>1, <2>2, <2>3, <2>4, <1>0 DEF MemoryInv, OneReader
<1>6. ASSUME NEW r \in Readers, Answer(r)
      PROVE  MemoryInv'
  <2>1. reader'[r] = Resting /\ UNCHANGED <<stored, cached, cachedTime, cachedFrom>>
    BY <1>6 DEF Answer, CacheInv, CacheTypes, probe
  <2>2. Newest' = Newest
    BY <2>1 DEF Newest, TimeAt, Candidate
  <2> QED
    BY <2>1, <2>2 DEF MemoryInv, OneReader, Resting
<1>7. CASE ProbeNext /\ UNCHANGED cache
  <2>1. Newest <= Newest' /\ Newest' \in Time
    BY <1>7, NewestGrows
  <2>2. cachedTime # None => cachedTime <= Newest'
    BY <2>1, <1>0 DEF MemoryInv
  <2> QED
    BY <1>7, <2>2 DEF cache, MemoryInv
<1>8. CASE UNCHANGED vars
  BY <1>8 DEF vars, probe, cache, MemoryInv, Newest, TimeAt, Candidate
<1> QED
  BY <1>1, <1>2, <1>3, <1>4, <1>5, <1>6, <1>7, <1>8 DEF Next, Read

-----------------------------------------------------------------------------
(* The theorems *)

LEMMA InvHolds == Spec => [](ProbeInv /\ CacheInv)
<1>1. Init => ProbeInv /\ CacheInv
  BY ProbeInvInit, CacheInvInit DEF Init
<1>2. [Next]_vars => [ProbeNext]_probe
  BY DEF Next, vars, Read, Look, Trust, Load, Publish, Stamp, Answer
<1>3. ProbeInv /\ CacheInv /\ [Next]_vars => ProbeInv' /\ CacheInv'
  BY <1>2, ProbeInvStep, CacheInvStep
<1> QED
  BY <1>1, <1>3, PTL DEF Spec

(***************************************************************************)
(* Whatever is probed, read, stopped and restarted, and by however many:   *)
(* one prober is past the lock at most, also while stop_auto takes the     *)
(* flag from the thread that it waits for.                                 *)
(***************************************************************************)
THEOREM CacheTypeCorrect == Spec => []TypeOK
<1>1. ProbeInv /\ CacheInv => TypeOK
  <2> SUFFICES ASSUME ProbeInv, CacheInv
               PROVE  TypeOK
    OBVIOUS
  <2>1. Busy = {} \/ \E p \in Prober : Busy = {p}
    BY DEF Busy, ProbeInv, LockInv, InProbe
  <2>2. Cardinality(Busy) <= 1
    <3>1. CASE Busy = {}
      BY <3>1, FS_EmptySet
    <3>2. ASSUME NEW p \in Prober, Busy = {p}
          PROVE  Cardinality(Busy) <= 1
      BY <3>2, FS_Singleton
    <3> QED
      BY <2>1, <3>1, <3>2
  <2>3. (running => Busy # {}) /\ (Busy # {} => running \/ stopping)
    BY DEF Busy, ProbeInv, LockInv, InProbe, Types
  <2> QED
    BY <2>2, <2>3 DEF TypeOK, ProbeInv, Types, CacheInv, CacheTypes
<1> QED
  BY <1>1, InvHolds, PTL

\* At whatever step agent-brain is left or fails, no reader finds half a file.
THEOREM StoredStaysWhole == Spec => []StoredIsWhole
<1>1. ProbeInv => StoredIsWhole
  BY DEF ProbeInv, StoredInv, StoredIsWhole
<1> QED
  BY <1>1, InvHolds, PTL

\* And what it finds is consistent, whatever socket tables the host has had.
THEOREM StoredStaysConsistent == Spec => []StoredIsConsistent
<1>1. ProbeInv => StoredIsConsistent
  <2> SUFFICES ASSUME ProbeInv, stored # None
               PROVE  Consistent(stored.topology)
    BY DEF StoredIsConsistent
  <2>1. PICK rows \in SocketTables \cup {<<>>} : stored.topology = Build(rows)
    BY DEF ProbeInv, Types, File
  <2>2. Len(rows) \in Nat
    BY ProbeAssumption
  <2> QED
    BY <2>1, <2>2, BuiltIsConsistent
<1> QED
  BY <1>1, InvHolds, PTL

\* However many requests and threads probe: success means that one's own file is read.
THEOREM SuccessMeansStored == Spec => SuccessIsStored
<1>1. ProbeInv /\ [Next]_vars =>
        [\A p \in Prober :
           Succeed(p) => stored # None /\ stored.by = p /\ stored.topology = built[p]]_vars
  BY DEF Succeed, ProbeInv, HandInv
<1> QED
  BY <1>1, InvHolds, PTL DEF Spec, SuccessIsStored

(***************************************************************************)
(* One server thread and any number of probers: the time is taken before   *)
(* the file is loaded, so what is in memory may be newer than its time     *)
(* says, and is never older than what the question found.                  *)
(***************************************************************************)
THEOREM AnswersStayCurrent == ASSUME OneReader PROVE Spec => AnswersAreCurrent
<1>1. Init => MemoryInv
  BY MemoryInvInit DEF Init
<1>2. ProbeInv /\ CacheInv /\ MemoryInv /\ [Next]_vars => MemoryInv'
  BY MemoryInvStep
<1>3. MemoryInv /\ [Next]_vars =>
        [\A r \in Readers : Answer(r) => cached >= reader[r].time]_vars
  BY DEF MemoryInv, Answer
<1> QED
  BY <1>1, <1>2, <1>3, InvHolds, PTL DEF Spec, AnswersAreCurrent

=============================================================================
