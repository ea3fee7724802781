----------------------------- MODULE TopologyProbe -----------------------------
(***************************************************************************)
(* OsTopologyProbeManager of agent-brain: probes the host on request and   *)
(* from a thread of its own, one probe at a time, and stores the topology  *)
(* in a file that it writes under another name and then renames.           *)
(*                                                                         *)
(* agent-brain may be stopped, or die, between any two steps; the files    *)
(* stay. _status also keeps the last error, mode and counts for display;   *)
(* they are left out.                                                      *)
(***************************************************************************)
EXTENDS SocketTopology

CONSTANTS
  Manual,        \* requests POST /topology/os-probe/run
  AutoEnabled,   \* ENABLE_OS_TOPOLOGY_AUTO_PROBE
  SocketTables,  \* what the host's socket table may be
  None,          \* no file
  MaxWrites,     \* bound: probes that are begun
  MaxFailures,   \* bound: probes that raise an exception
  MaxStarts      \* bound: starts of agent-brain

ASSUME ProbeAssumption ==
  /\ "auto" \notin Manual
  /\ AutoEnabled \in BOOLEAN
  /\ SocketTables \subseteq Seq(Row)
  /\ MaxWrites \in Nat /\ MaxFailures \in Nat /\ MaxStarts \in Nat \ {0}

Prober == Manual \cup {"auto"}

VARIABLES
  silent,    \* os-mcp-server, started in real mode, never answers a greeting
  running,   \* _status["running"]
  stage,     \* where each prober is in probe()
  built,     \* the topology that each of them has built
  auto,      \* where _auto_loop is: "loop", "wait" or "ended"
  stopping,  \* stop_auto was called
  tmp,       \* the file that is written
  stored,    \* the file that is read
  clock,     \* writes so far, the time of a file
  failures,
  starts

probe == <<silent, running, stage, built, auto, stopping, tmp, stored, clock,
           failures, starts>>

Idle == {"idle", "asked"}
Stage == Idle \cup {"connecting", "probing", "writing", "filling", "renaming", "done"}

\* The times of the files; the shipped topology is older than any stored one.
Time == 0 .. MaxWrites

File ==
  [by : Prober, time : Time, whole : BOOLEAN,
   topology : {Build(rows) : rows \in SocketTables \cup {<<>>}}]

AutoStart == IF AutoEnabled THEN "loop" ELSE "ended"

ProbeInit ==
  /\ silent \in BOOLEAN
  /\ running = FALSE
  /\ stage = [p \in Prober |-> "idle"]
  /\ built = [p \in Prober |-> HostOnly]
  /\ auto = AutoStart
  /\ stopping = FALSE
  /\ tmp = None
  /\ stored = None
  /\ clock = 0
  /\ failures = 0
  /\ starts = 1

Go(p, to) == stage' = [stage EXCEPT ![p] = to]
Leave(p) == Go(p, "idle") /\ built' = [built EXCEPT ![p] = HostOnly]

-----------------------------------------------------------------------------
(* Who asks for a probe *)

Request(p) ==
  /\ p \in Manual /\ stage[p] = "idle" /\ ~stopping
  /\ Go(p, "asked")
  /\ UNCHANGED <<silent, running, built, auto, stopping, tmp, stored, clock, failures, starts>>

\* load_stored_topology: a file that cannot be parsed is none.
Stored == stored # None /\ stored.whole

\* Mutant: a probe that was refused or failed is not tried again.
AutoLookOnce ==
  /\ auto = "loop" /\ stage["auto"] = "idle"
  /\ IF stopping \/ Stored
     THEN auto' = "ended" /\ UNCHANGED stage
     ELSE auto' = "ended" /\ Go("auto", "asked")
  /\ UNCHANGED <<silent, running, built, stopping, tmp, stored, clock, failures, starts>>

\* The head of the loop: probe at once if there is nothing stored.
AutoLook ==
  /\ auto = "loop" /\ stage["auto"] = "idle"
  /\ auto' = IF stopping THEN "ended" ELSE "wait"
  /\ IF stopping \/ Stored THEN UNCHANGED stage ELSE Go("auto", "asked")
  /\ UNCHANGED <<silent, running, built, stopping, tmp, stored, clock, failures, starts>>

\* The wait ends with the interval or with the call of stop_auto.
AutoWait ==
  /\ auto = "wait" /\ stage["auto"] = "idle"
  /\ IF stopping THEN auto' = "ended" /\ UNCHANGED stage
     ELSE auto' = "loop" /\ Go("auto", "asked")
  /\ UNCHANGED <<silent, running, built, stopping, tmp, stored, clock, failures, starts>>

-----------------------------------------------------------------------------
(* probe() *)

\* Mutant: nobody looks whether a probe is running.
EnterAnyway(p) ==
  /\ stage[p] = "asked" /\ clock < MaxWrites
  /\ running' = TRUE /\ Go(p, "connecting")
  /\ UNCHANGED <<silent, built, auto, stopping, tmp, stored, clock, failures, starts>>

\* Under the lock.
Enter(p) ==
  /\ stage[p] = "asked"
  /\ IF running THEN Go(p, "idle") /\ UNCHANGED running
     ELSE clock < MaxWrites /\ Go(p, "connecting") /\ running' = TRUE
  /\ UNCHANGED <<silent, built, auto, stopping, tmp, stored, clock, failures, starts>>

\* In real mode, a server is started and greeted, without a timeout.
OpenClient(p) ==
  /\ stage[p] = "connecting" /\ ~silent
  /\ Go(p, "probing")
  /\ UNCHANGED <<silent, running, built, auto, stopping, tmp, stored, clock, failures, starts>>

\* Mutant: the next probe may begin as soon as this one has what it needs.
ProbeAndLeave(p) ==
  /\ stage[p] = "probing"
  /\ \E rows \in SocketTables \cup {<<>>} : built' = [built EXCEPT ![p] = Build(rows)]
  /\ running' = FALSE
  /\ Go(p, "writing")
  /\ UNCHANGED <<silent, auto, stopping, tmp, stored, clock, failures, starts>>

\* Both tools answer in time or with an envelope that says they did not.
Probe(p) ==
  /\ stage[p] = "probing"
  /\ \E rows \in SocketTables \cup {<<>>} : built' = [built EXCEPT ![p] = Build(rows)]
  /\ Go(p, "writing")
  /\ UNCHANGED <<silent, running, auto, stopping, tmp, stored, clock, failures, starts>>

FileOf(p, time, whole) == [by |-> p, time |-> time, whole |-> whole, topology |-> built[p]]

\* Mutant: the file that is read is written.
OpenInPlace(p) ==
  /\ stage[p] = "writing"
  /\ stored' = FileOf(p, clock, FALSE)
  /\ tmp' = FileOf(p, clock, FALSE)
  /\ Go(p, "filling")
  /\ UNCHANGED <<silent, running, built, auto, stopping, clock, failures, starts>>

OpenTmp(p) ==
  /\ stage[p] = "writing"
  /\ tmp' = FileOf(p, clock, FALSE)
  /\ Go(p, "filling")
  /\ UNCHANGED <<silent, running, built, auto, stopping, stored, clock, failures, starts>>

FillTmp(p) ==
  /\ stage[p] = "filling"
  /\ clock' = clock + 1
  /\ tmp' = FileOf(p, clock', TRUE)
  /\ Go(p, "renaming")
  /\ UNCHANGED <<silent, running, built, auto, stopping, stored, failures, starts>>

Rename(p) ==
  /\ stage[p] = "renaming" /\ tmp # None
  /\ stored' = tmp
  /\ tmp' = None
  /\ Go(p, "done")
  /\ UNCHANGED <<silent, running, built, auto, stopping, clock, failures, starts>>

\* "success": TRUE
Succeed(p) ==
  /\ stage[p] = "done"
  /\ running' = FALSE
  /\ Leave(p)
  /\ UNCHANGED <<silent, auto, stopping, tmp, stored, clock, failures, starts>>

\* The client cannot be opened, or the file not be written or renamed.
MayFail(p) ==
  \/ stage[p] = "connecting" /\ ~silent
  \/ stage[p] \in {"writing", "filling", "renaming"}

\* Mutant: the exception leaves the probe running.
FailRunning(p) ==
  /\ MayFail(p) /\ failures < MaxFailures
  /\ failures' = failures + 1
  /\ Leave(p)
  /\ UNCHANGED <<silent, running, auto, stopping, tmp, stored, clock, starts>>

Fail(p) ==
  /\ MayFail(p) /\ failures < MaxFailures
  /\ failures' = failures + 1
  /\ running' = FALSE
  /\ Leave(p)
  /\ UNCHANGED <<silent, auto, stopping, tmp, stored, clock, starts>>

ProbeStep(p) ==
  \/ Enter(p) \/ OpenClient(p) \/ Probe(p) \/ OpenTmp(p) \/ FillTmp(p) \/ Rename(p)
  \/ Succeed(p) \/ Fail(p)

-----------------------------------------------------------------------------
(* Stops and restarts *)

\* The web server runs its shutdown handlers when all requests are answered.
Stop ==
  /\ ~stopping /\ \A p \in Manual : stage[p] = "idle"
  /\ stopping' = TRUE
  /\ UNCHANGED <<silent, running, stage, built, auto, tmp, stored, clock, failures, starts>>

\* join returns when the thread has ended, or after 5 seconds.
Joined ==
  /\ stopping /\ running
  /\ running' = FALSE
  /\ UNCHANGED <<silent, stage, built, auto, stopping, tmp, stored, clock, failures, starts>>

\* agent-brain dies, or exits after it was stopped, and is started again.
Restart ==
  /\ starts < MaxStarts
  /\ starts' = starts + 1
  /\ running' = FALSE
  /\ stage' = [p \in Prober |-> "idle"]
  /\ built' = [p \in Prober |-> HostOnly]
  /\ auto' = AutoStart
  /\ stopping' = FALSE
  /\ UNCHANGED <<silent, tmp, stored, clock, failures>>

AutoNext == AutoLook \/ AutoWait \/ ProbeStep("auto")

ProbeNext ==
  \/ AutoNext \/ Stop \/ Joined \/ Restart
  \/ \E p \in Manual : Request(p) \/ ProbeStep(p)

=============================================================================
