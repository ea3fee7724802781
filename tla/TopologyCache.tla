----------------------------- MODULE TopologyCache -----------------------------
(***************************************************************************)
(* topology-mcp-server's view of the file that agent-brain stores: it      *)
(* serves the stored topology, or the shipped one as long as there is      *)
(* none, from memory, and compares path and time of the file with those    *)
(* of what it has loaded whenever it is asked.                             *)
(*                                                                         *)
(* A topology is represented by its time, the shipped one by 0. Readers    *)
(* are threads that share the module: one in a server of its own.          *)
(***************************************************************************)
EXTENDS TopologyProbe

CONSTANT Readers

ASSUME CacheAssumption == None \notin Nat /\ None \notin {"shipped", "dynamic"}

VARIABLES
  cached,      \* _default_topology
  cachedTime,  \* _default_topology_mtime
  cachedFrom,  \* _default_topology_source
  reader       \* where each of them is in _resolve_topology, and what it has seen

cache == <<cached, cachedTime, cachedFrom, reader>>
vars == <<probe, cache>>

Resting == [at |-> "idle", path |-> "shipped", time |-> 0, loaded |-> 0]

CacheInit ==
  /\ cached = None
  /\ cachedTime = None
  /\ cachedFrom = None
  /\ reader = [r \in Readers |-> Resting]

Init == ProbeInit /\ CacheInit

\* _default_topology_candidate_path, and what is there.
Candidate == IF stored = None THEN "shipped" ELSE "dynamic"
TimeAt(path) == IF path = "shipped" THEN 0 ELSE stored.time
WholeAt(path) == path = "shipped" \/ stored.whole

Look(r) ==
  /\ reader[r].at = "idle"
  /\ reader' = [reader EXCEPT ![r] = [at |-> "looked", path |-> Candidate,
                                      time |-> TimeAt(Candidate), loaded |-> 0]]
  /\ UNCHANGED <<probe, cached, cachedTime, cachedFrom>>

IsStale(seen) ==
  cached = None \/ cachedFrom # seen.path \/ cachedTime # seen.time

Trust(r) ==
  /\ reader[r].at = "looked" /\ ~IsStale(reader[r])
  /\ reader' = [reader EXCEPT ![r].at = "resolved"]
  /\ UNCHANGED <<probe, cached, cachedTime, cachedFrom>>

\* A file that is not whole raises an exception, and nothing is remembered.
Load(r) ==
  /\ reader[r].at = "looked" /\ IsStale(reader[r])
  /\ LET seen == reader[r]
     IN  reader' = [reader EXCEPT ![r] =
           IF WholeAt(seen.path)
           THEN [seen EXCEPT !.at = "loaded", !.loaded = TimeAt(seen.path)]
           ELSE Resting]
  /\ UNCHANGED <<probe, cached, cachedTime, cachedFrom>>

Publish(r) ==
  /\ reader[r].at = "loaded"
  /\ cached' = reader[r].loaded
  /\ reader' = [reader EXCEPT ![r].at = "published"]
  /\ UNCHANGED <<probe, cachedTime, cachedFrom>>

\* Mutant: the time is taken after the file was loaded.
StampNow(r) ==
  /\ reader[r].at = "published"
  /\ cachedFrom' = reader[r].path
  /\ cachedTime' = TimeAt(reader[r].path)
  /\ reader' = [reader EXCEPT ![r].at = "resolved"]
  /\ UNCHANGED <<probe, cached>>

\* The time is that of the file before it was loaded.
Stamp(r) ==
  /\ reader[r].at = "published"
  /\ cachedFrom' = reader[r].path
  /\ cachedTime' = reader[r].time
  /\ reader' = [reader EXCEPT ![r].at = "resolved"]
  /\ UNCHANGED <<probe, cached>>

\* The answer is made of what is in memory by then.
Answer(r) ==
  /\ reader[r].at = "resolved"
  /\ reader' = [reader EXCEPT ![r] = Resting]
  /\ UNCHANGED <<probe, cached, cachedTime, cachedFrom>>

Read(r) == Look(r) \/ Trust(r) \/ Load(r) \/ Publish(r) \/ Stamp(r) \/ Answer(r)

Next ==
  \/ ProbeNext /\ UNCHANGED cache
  \/ \E r \in Readers : Read(r)

Spec == Init /\ [][Next]_vars

(***************************************************************************)
(* The thread of the automatic probes runs, and so does the event loop for *)
(* a request that was made. Nobody needs to ask, and nothing has to fail,  *)
(* stop or die.                                                            *)
(***************************************************************************)
FairSpec ==
  /\ Spec
  /\ WF_vars(AutoNext /\ UNCHANGED cache)
  /\ \A p \in Manual : WF_vars(ProbeStep(p) /\ UNCHANGED cache)

-----------------------------------------------------------------------------
(* Type correctness *)

Busy == {p \in Prober : stage[p] \notin Idle}

\* One prober is past the lock at most, and as long as it is, "running" is set.
TypeOK ==
  /\ silent \in BOOLEAN
  /\ running \in BOOLEAN
  /\ stage \in [Prober -> Stage]
  /\ auto \in {"loop", "wait", "ended"}
  /\ stopping \in BOOLEAN
  /\ tmp \in File \cup {None} /\ stored \in File \cup {None}
  /\ clock \in Time
  /\ cached \in Time \cup {None} /\ cachedTime \in Time \cup {None}
  /\ cachedFrom \in {"shipped", "dynamic", None}
  /\ Cardinality(Busy) <= 1
  /\ running => Busy # {}
  /\ Busy # {} => running \/ stopping

-----------------------------------------------------------------------------
(* Safety *)

(***************************************************************************)
(* Wherever agent-brain dies, is stopped or fails, and whoever else probes *)
(* at that time: the file that is read is whole.                           *)
(***************************************************************************)
StoredIsWhole == stored # None => stored.whole

(***************************************************************************)
(* A stored topology is consistent, whatever repeats in the socket table:  *)
(* path search relies on edges between assets, and the graph that the      *)
(* dashboard draws shows the connections that the topology has.            *)
(***************************************************************************)
StoredIsConsistent == stored # None => Consistent(stored.topology)

\* A probe that reports success stored what it saw, and nobody has replaced that.
SuccessIsStored ==
  [][\A p \in Prober :
       Succeed(p) => stored # None /\ stored.by = p /\ stored.topology = built[p]]_vars

(***************************************************************************)
(* An answer is never older than what was stored when the question came,   *)
(* even if a probe stores a new topology while the old one is loaded: then *)
(* the next question finds a file of another time.                         *)
(***************************************************************************)
AnswersAreCurrent ==
  [][\A r \in Readers : Answer(r) => cached >= reader[r].time]_vars

-----------------------------------------------------------------------------
(* Liveness *)

\* Unless os-mcp-server leaves a greeting unanswered, no probe blocks the next one.
ProbesEnd == running /\ ~silent ~> ~running

(***************************************************************************)
(* If automatic probes are enabled, a missing topology is stored in the    *)
(* end: a probe that failed, was refused or died is made up for.           *)
(***************************************************************************)
MissingIsStored ==
  AutoEnabled /\ ~silent /\ ~Stored ~> Stored \/ stopping

=============================================================================
