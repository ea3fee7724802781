# A verification of the autonomous defense system

TLA+ models of the system in `src/`, TLC configurations that check them on
small instances, and TLAPS proofs of the theorems that matter most for every
value of their constants. Read this file first, then `RollbackPromise.tla`
(the shortest specification), then the modules in the order of the table below.

## 1. The system

A security event enters, four agents argue about a response, the response is
verified and executed, and what was executed is rolled back when its time is
over. Beside that runs a chat for operators that turns a sentence into a host
command.

    producer --HTTP--> defense-gateway --Kafka--> agent-brain (worker) --+
                                                                         v
    dashboard / client --HTTP--> agent-brain: POST /workflow/run --> process_event
                                                                         |
         topology-mcp-server <---- debate: Planner, Red-Teamer, <--------+
         policy-mcp-server   <----        Revision, Coordinator          |
                                                                         v
                                  formal-verifier <--- verify -----------+
                                  actuator-service <-- execute ----------+
                                    (records, adapters, rollback, scheduler)

    operator --HTTP--> agent-brain: POST /ops/chat --> guards, parser, validator,
                                    least-privilege executor, audit log

### Inventory

For each component: the state it keeps, its operations, what is hard about it,
and what makes it correct.

| component | state | operations | hard | correct when |
|---|---|---|---|---|
| **actuator-service** (Java) | `ConcurrentHashMap` of ExecutionRecords, in memory | execute; rollback (HTTP); scheduled rollback of what outlived its ttl; list, get | rollback is read, check, save, save without a lock; the scheduler walks a snapshot and leaves the loop on an exception; restart forgets all | what is due is rolled back; nothing is rolled back early; no record is stuck in RUNNING; a rollback never rewrites the execution |
| **debate agents** (Python) | none; functions of the debate state and of the servers' answers | Planner, Red-Teamer, Revision, Coordinator | every MCP call may fail and fails open; later stages overrule earlier ones; rounds feed back | see the workflow |
| **debate workflow** | `DebateState`: proposal, revision, challenges, findings, round, decision | one graph node per agent, a loop | an approval given in one round, vetoes that arrive after the decision, the last round | what runs without a human passed every gate; low-risk events are answered softly; containment is never dropped; the debate ends |
| **event workflow** | one event, one answer | debate, verify, submit, guards | the verifier is unreachable, the actuator answers late or never, the guards stand behind the execution | nothing unapproved is executed; no answer claims what did not happen; every event is answered |
| **MCP clients** | a session per client, opened on the first call | dispatch to local code or to a server, open, close | the handshake has no timeout; concurrent workflows share one policy client, which each of them closes | a call ends in an answer or in a failure that says so |
| **Kafka ingest worker** | consumer, thread, counters | start, stop, handle | positions are committed in the background and by `close()`, whatever the handler is doing; stop comes from another thread; the thread is never restarted | records are handled in order; a stop loses at most one; only a restart or a lost place repeats any |
| **ops chat** | one request in flight, audit lines | guard, parse, guard, collect context, validate, execute, audit | the order of the gates; requests interleave at awaits; commands time out after they started | only validated read-only commands run; every request leaves a complete trail |
| **least-privilege executor** | none | whitelist, run with a timeout | a command line is checked as text and run as tokens | nothing outside the whitelist runs |
| **audit logs** | append-only files, a hash chain | append, replay, rotate, verify | torn lines after a crash, swallowed write errors, replay while appending | what was appended is replayed; tampering is detected |
| **topology probe** | a topology file, a timer thread, a flag | probe, write, start, stop | the loop and the manual probe write one temporary file; another process reads the result | a reader finds one complete topology, no older than when it asked; probes end; a missing topology is stored |
| **formal-verifier** (Python) | none | verify a strategy against rules | a limit that is what the Planner asks for, names that are looked for by substring | nothing passes that cuts off a core service |
| **policy-mcp-server** | a rule file, read once | four tools over seven rules, patches | its list of assets is not the topology's; patches make other rules apply | what it lists as critical is spared; its suggestions suffice |
| **topology-mcp-server** | one topology in memory, with path and time of its file | queries, impact analysis | the file is replaced while it is loaded | an answer is no older than the question |
| **other mcp-servers** (os, kylinsec, actuator) | none | commands of the host, HTTP calls | | |
| **defense-gateway** (Java) | events table | create event: insert, publish, commit | publishes inside the transaction, before the commit; the outcome of a send is ignored | an accepted event is not published again |
| **acd-orchestration-service**, **dashboard-ui**, **MVP bridge**, **LLM service**, **shared-models**, **deploy and docs** | demonstration, rendering, hints, data classes, scripts | | | not in the plan, except the dashboard's task store |

`PROJECT.json` lists the components with their sources and the hazards at the
lines where they bite.

## 2. Modules

| module | models | uses |
|---|---|---|
| `ActuatorStrategy` | what `execute` decides about one request: bean validation, `validateStrategy`, adapters, and the record that results | |
| `Actuator` | actuator-service: store, execute, three-step rollback by any number of HTTP threads and by the scheduler, restart | `ActuatorStrategy` |
| `RollbackPromise` | abstract specification: an execution is open, final or failed; open ones are kept (rolled back) when due or asked for, unless lost | |
| `DebateModels` | the values the agents exchange | |
| `PlannerAgent`, `RedTeamerAgent`, `PlannerRevision`, `CoordinatorAgent` | one agent each, as operators | `DebateModels` |
| `PolicyService` | policy-mcp-server: the rules, the four tools, the patches they suggest | |
| `DebateWorkflow` | the graph, one action per node | the four agents, an instance of `PolicyService` |
| `VerifierRules` | formal-verifier: static and continuity rules, the verdict | |
| `EventWorkflow` | the workflow of one event around the debate, the request to actuator-service and its fate | `DebateWorkflow`, instances of `VerifierRules` and `ActuatorStrategy` |
| `EventDelivery` | abstract specification: records are settled in order, repeated, or lost in two ways | |
| `DefenseGateway` | POST of an event: insert, publish, commit; the producer and the topic | |
| `EventIngest` | the Kafka worker: thread, consumer, positions, stops, crashes | `DefenseGateway`, implements `EventDelivery` |
| `SocketTopology` | the topology that is built from a socket table | |
| `TopologyProbe` | manual and automatic probes, the two files, stops and crashes | `SocketTopology` |
| `TopologyCache` | topology-mcp-server's copy of the stored topology | `TopologyProbe` |
| `OpsSafety` | guards, parser, validator and whitelist of the ops chat, as functions of what their patterns find | |
| `AuditFile` | the JSONL audit log as its readers see it: lines, torn lines, a missing newline | |
| `OpsChat` | requests to `/ops/chat` on one event loop, the audit log and the snapshots, failed writes and crashes | `OpsSafety`, `AuditFile` |
| `MCActuator`, `MCDebate`, `MCWorkflow`, `MCOps`, `MCIngest`, `MCTopology` | values of the constants for TLC | |
| `ActuatorProofs`, `PolicyProofs`, `DebateProofs`, `WorkflowProofs`, `OpsProofs`, `IngestProofs`, `SocketProofs`, `TopologyProofs` | theorems | the modules they are named after; `TopologyProofs` is about `TopologyCache` and uses `SocketProofs` |

### How state and actions correspond to the code

**Actuator.** `store` is `ExecutionRecordRepository.storage`. A record keeps
what decides: status, start, ttl, rollback status, trigger. `ReceiveStrategy`
and `SaveExecution` are the beginning and the end of
`StrategyExecutionServiceImpl.execute`: the start time is taken first and the
record saved last, and time may pass in between. `RequestRollback`,
`SaveRunning` and `SaveSucceeded` are the three accesses of
`RollbackServiceImpl.rollback` to the store; `copy` is the record the thread
read, from which both saves are built. `Poll` takes the snapshot of
`findAutoRollbackCandidates`, and `AutoRollback`, `SkipRolledBack` and
`AbortBatch` are the three ways an iteration of the loop can go: the call
enters, returns early, or throws a `BusinessException` that leaves the loop.
The due time wraps around as a Java `long` does. Requests are records of what
validation and adapters tell apart (the four shapes of an identifier).

**Debate.** Each variable of `DebateWorkflow` is a field of `DebateState`, or
of the planner metadata, and each action is a node of the graph together with
the edge behind it. Machines are named by their role in the event (subject,
object, source address, a neighbour known to the topology), scores are per
cent, and challenges are their titles. A scope is the set of its assets: the
code asks a scope only which assets are in it and which is the first, and every
scope has them in the order of `First`. What the topology server answers is
computed from `criticality` where the agents depend on it (which assets are
CRITICAL, which effects break paths); whether it answers at all, and how many
paths it finds, is any value. The policy server evaluates its rules
(`ServerAnswer`) on the strategy as it is serialised (`Sent`), with a `listing`
of assets of its own; a failed call leaves the defaults of `PolicyValidation`,
as the code does.
`Decide` is the whole of `CoordinatorAgent.run`: the ladder, the risk level,
the safety checks, the policy answer and the low-risk path in their order.

**Event workflow.** `stage` is where `process_event` or `run_workflow` is.
`request` is the HTTP request to actuator-service on its way: `Execute` and
`LoseRequest` may happen at any time after `Submit`, also after the client's
`GiveUp` (its timeout). `Guard` stands where the code has it, after the
execution. `door` distinguishes the HTTP route from the Kafka worker, which
calls `process_event` without guards. The verdict is that of `VerifierRules` on
the strategy of the debate (`Judged`); whether the verifier answers at all is
free.

**Policy rules.** A strategy is a function from positions to actions, and an
action is what the rules read: type, target, which parameters narrow it, its
replicas. Each rule is one predicate about one action; a finding is a rule and a
position, and stands for the violation and for the suggestion made from it.
`Patched` is the strategy to which a client has applied the patches: nothing in
the code does, the patches say what to set, merge or append.

**Ingest.** `request[c]` is a transaction of the gateway: `Insert` waits for
another transaction that holds the same event id, as the unique index does, and
refuses an id that is committed. `outbox` is the producer's buffer, `log` the
one partition of the topic. In `EventIngest` the actions `Start`, `SetStop`,
`CloseConsumer` and `Exit` belong to the main thread, `Connect`, `Take`,
`Handle`, `StreamEnds` and `Die` to the worker's; `AutoCommit` and `Rejoin` are
what kafka-python does beside it, between two records. `inHand` is the record
`_handle_raw` works on. `base`, `settled` and `tries` are history.

**Topology.** `stage[p]` is where prober `p` is in `probe()`, with the lock, the
client, the two tools, the temporary file and the rename as separate steps, so
that a crash (`Restart`), an exception (`Fail`) and another prober may come
between any two. `_write_topology` is three steps: opening truncates, filling
gives the file its time, renaming replaces. `Joined` is the end of `stop_auto`,
which clears `running` although a probe may still be under way. A reader goes
through `_resolve_topology` in five steps: it looks at path and time, trusts or
loads, publishes, stamps and answers. A topology is its time there, the file's
`mtime`; that two writes get different times is assumed. The topology itself is
made of the socket rows one by one (`Stages`), with edges and links in bags,
since a connection that is listed twice is entered twice.

**Ops chat.** A command is what the catalogues see in it: whether a BLOCK,
REQUIRE_APPROVAL or ALLOW rule matches, whether it is a chain, what its program
is; an instruction is what the guards find in it, the intent it matches, and the
command it would be if run verbatim. The plans of the safe intents are the
commands and tool calls their builders write down. `pc[r]` is what request `r`
does next; where it is the name of an audit stage, `Emit` appends that event.
`OpsOrchestrator.chat` gives up the event loop only at a tool call (`CallTool`,
`ToolReturns`), so everything between two awaits is done by one request, one
write or command per step, and `Crash` may come between any two. `file` is what
`_load_all` would find in the JSONL file; `Damaged` lists what a failed write
leaves behind. `ran`, `probed` and `emitted` record what no variable of the
code keeps: whether a command ran, whether a tool was called, how many events
were handed to the log.

## 3. What the runs show

Every property is explained by the comment above it. Each has a mutant of a
modelled definition that breaks it, in `PROJECT.json`.

| run | shows | instance | states |
|---|---|---|---|
| `Actuator_races` | no orphaned RUNNING record, no early automatic rollback, no rewritten execution; what is due is rolled back; refinement of `RollbackPromise` | 2 executions, 2 HTTP threads, scheduler, 1 restart, 5 kinds of request | 383 thousand |
| `Actuator_double` | *violation*: a rollback that SUCCEEDED is run again | without restart | |
| `Debate_gates` | the gates of automatic execution, listed assets are spared, suggestions repair, softening, containment, termination | 7 events, 3 topologies, 3 listings, every failure of both servers | 40 thousand |
| `Debate_vetoed` | *violation*: a failed safety check does not forbid automatic execution | the same | |
| `Debate_critical` | *violation*: a CRITICAL asset is isolated after the revision | the same | |
| `Workflow_gates` | only approved and verified strategies are executed, what passed keeps the core services, answers are true, every event is answered | 3 events, 3 namespaces, 2 listings, both doors, both failure modes | 61 thousand |
| `Workflow_blocked` | *violation*: BLOCKED is answered after an execution | the same, no topology | |
| `Ops_gates` | only vouched commands run, refused requests touch nothing, authorisations and outcomes are on record, losses are bounded, requests are answered | 2 requests, 14 instructions, 1 failed write, 1 crash | 531 thousand |
| `Ingest_delivery` | accepted events are not published again; records are settled in order, losses and repetitions are bounded, records are reached; refinement of `EventDelivery` | 2 clients, 2 requests, 2 ids, 2 starts, 1 lost place | 355 thousand |
| `Topology_probe` | the stored topology is whole and consistent, success is stored, answers are current, probes end, a missing topology is stored | automatic and 1 manual prober, 1 reader, 3 probes, 1 exception, 2 starts | 303 thousand |
| `Ops_skipped` | *violation*: EXECUTION_SKIPPED is logged for a command that ran | the same | |
| `Ops_torn` | *violation*: a torn character makes the log unreadable | the same | |

**Bounds.** Actuator: two executions suffice for a batch that is aborted at its
first element, and two HTTP threads with the scheduler for every pair of racing
callers; three time units let both TTLs (1 and 2) pass with different start
times. Rollbacks of more threads or executions are covered by the proofs.
`MaxLong` is far from the times used, except in the arithmetic that is proved
about. Debate: thresholds and rounds are the defaults of `DebateState`; the
events cover each signal the Planner looks for, and scores on both sides of
each threshold. Nothing bounds the debate besides `MaxRounds`, which the code
has too.

Listings: one for each relation between what the rules list and what the
topology knows. Ingest: two requests with two ids include the repetition of one
event, two events that overtake each other, and a second record behind one that
is in hand; two starts and one lost place give a group with and without a
committed position. `ResetToLatest` is the default of the service. Topology: a
socket table with a listening service and a repeated connection; three probes
let a new topology replace one that is being loaded. With a second reader thread
`AnswersAreCurrent` does not hold, see section 5.

Ops chat: the first request asks one of fourteen instructions, one for each way
through the gates, the second is a harmless one that interleaves with it; a
failed write and a crash, which may be one after the other, produce every kind
of torn line and the line glued to it. The proofs hold for any number of both.

**Fairness.** Spring runs the scheduled method again after each run
(`WF` of `Scheduled`), and a thread inside `rollback()` waits for nothing
(`WF` of its two saves). The graph and `process_event` run in one thread from
one node to the next (`WF` of `DebateNext` and of `Workflow`; the client's
timeout is why waiting for the actuator ends). In the ops chat each request has
`WF` of its next step: asyncio resumes what is ready, commands and tool calls
have timeouts. This assumes local mode or an established MCP session, since the
handshake that opens one has no timeout; nobody has to ask. The ingest thread
has `WF` of its own steps: it blocks in the consumer only if there is no record,
and the handler ends as the workflow does. The thread of the automatic probes
and each manual probe have `WF` of their steps, which have timeouts, but for the
handshake: `silent` says that it is never answered, and the liveness properties
say that they hold without that. Nothing is assumed of the
network, of actuator-service as the workflow sees it, of operators or of
producers of events.

**Deadlock** is not checked: debates, workflows and chats end, and the clock of
the actuator is bounded.

## 4. What is proved

All for any number of threads, executions and requests, any events, topologies,
thresholds and rounds, any probers, socket tables, clients and restarts; the
assumptions are the named `ASSUME`s of the modules, which TLC evaluates in each
run. Every invariant and every action property of the passing runs is proved.
What a proof needs beyond its invariant is said with it.

* `ActuatorProofs`. `TypeCorrect`; `NoOrphan` and `KeepsExecution` from an
  inductive invariant that says of each caller what its stale copy has in
  common with the record: a record is RUNNING only if a caller in `running` has
  its id, and a copy agrees with the stored record in everything `execute`
  wrote. The properties alone are not inductive, since a save writes back the
  copy. `AutoRollbackOnlyWhenDue` also needs that everything in `batch`, and the
  copy of the scheduler, is due, and that `start + ttl` fits into a long
  (`NoOverflow`, an assumption of the theorem: the code does not check it).
  `ImplementsPromise` maps each step to a step of `RollbackPromise` or to a
  stutter, under the same assumption.
* `PolicyProofs`, about the operators of `PolicyService` for any strategy and
  listing. `ApprovalMeansCritical`: `validate_strategy` asks for a human exactly
  when a high-risk action touches a critical asset, so rules 1 and 7 add nothing
  to that. `UndeclaredIsInvalid`: without a declared approval such a strategy is
  not valid either. `BusinessIsPart`: the business check objects to nothing
  else. `SuggestionsSuffice`: no rule is broken after all patches. Its lemmas
  take one rule each: the patch of a rule repairs it, and no other patch breaks
  it. The assumption on listings is needed there: a flow that is allow-listed
  by the patch of rule 1 puts the action on a production path, and rule 2 has
  been asked about that action already because critical databases are in a zone
  where a production path ends.
* `DebateProofs`. `ApprovalIsForAuto`, `AutoPassesGates`,
  `AutoSparesWhatIsListed`, `VerificationNeedsTrust` and `RoundsAreBounded`,
  from `DebateInv`: the round and where the debate is; that an approval is never
  on the strategy before the debate is over; and what a decision that closes it
  has passed. Lemmas about `Decide` carry the weight, the workflow only
  preserves them. `SuggestionsAlwaysRepair` and the listed assets rest on
  `PolicyProofs`.
  `DebateTypeCorrect` needs one lemma for what each agent and both servers hand
  on, and `ChallengeInv`, since what is left unresolved is computed from the
  challenges to the Planner's proposal. `LowRiskStaysSoft` is about the last thing
  a revision does, and about the Planner's containment reaching that point
  through the fixes (`ChallengeFixesAdd`); after the first round it is the previous
  revision that is softened again. `ContainmentStays`, an action property, does not
  hold of revisions as such: a strategy that denies everything would lose that
  when it is softened. `DenyInv` says that no agent proposes it.
* `WorkflowProofs`. `FlowTypeCorrect`; `RunsTheDebate` (the workflow implements
  `DebateWorkflow`), `ExecutionIsGated`, `AnswersAreTrue` and
  `PassedKeepsTheServices` from `FlowInv`, and `ExecutedIsSafe`, which joins
  both ends: what is executed passed the gates of the debate and spares what the
  policy server lists.
* `OpsProofs`. `ChatTypeCorrect`; `OnlyVouchedCommandsRun` and
  `RefusedRequestsTouchNothing` from `ChatInv`, which says what a request has
  behind it at each `pc`: its calls are those of its plan, only a request that
  no guard refuses is past the guards, and only an allowed one has run. That
  the first command of the plan is the one the validator vouched for is a lemma
  about the plans. `LossesAreBounded` counts lines: each event is a legible
  line, or was lost to a fault or a crash, or was glued to such a line, and the
  file can be unfinished only at the price of one. `AuthorisationsAreOnRecord`
  needs that without a failed write the file ends with a newline until the
  process dies, and that a request behind `validate` has its VALIDATED line.
  `OutcomesAreOnRecord` follows the outcome along the writes it passes (`Told`):
  until the snapshot is written, either a write has failed already or a line
  that no append can reach any more (`Durable`) says how the command ended, so
  one failure cannot take both.
* `IngestProofs`, for any clients, events, starts and rejoins. `IngestInv` joins
  the types with what the record in hand says about thread and consumer, with
  the positions (reading goes on from where the group is, never before `base`),
  and with `CoverInv`: what was read is settled, or the group is past it, but
  for the record in hand. `LossStaysBounded` counts: a stop that has not
  closed its consumer yet has one loss to its credit (`LossInv`).
  `RepeatsStayBounded`: what reading has not come to has a try left (`TryInv`).
  `AcceptedStaysPublishedOnce` is an action property; it needs that open
  transactions have different events, none of them committed (`RequestInv`).
  `WorkerDelivers` is the refinement of `EventDelivery`, step by step: the fate
  of a record is computed from `settled`, `base` and the group's position, and
  `InHandIsNext` shows that what the worker handles or loses is the first record
  that waits. `RecordsLeaveInOrder` follows from the steps of `EventDelivery`.
* `SocketProofs`. `BuiltIsConsistent`, for every socket table, by induction over
  its rows. The library's induction theorems cannot be instantiated here, so
  `SetInduction` states induction for a set of numbers, and `Stages` is a function
  on an interval. A row adds one edge and one link between the same ends
  (`ConnectKeepsSound`), which is counted on both sides; what is sound
  (`Sound`) includes that the bags are bags and that the host stays.
* `TopologyProofs`. `ProbeInv`: at most one prober is past the lock, although
  `stop_auto` clears the flag that keeps them apart, because the loop
  that could start another one waits for the thread (`LockInv`); and what a prober has
  in hand on each of its ways (`HandInv`): whoever is about to rename has the
  temporary file to itself. From it follow `StoredStaysWhole`,
  `StoredStaysConsistent` (with `BuiltIsConsistent`) and `SuccessMeansStored`.
  `CacheTypeCorrect` adds the readers. `AnswersStayCurrent` needs `MemoryInv`, that
  the topology in memory is at least as new as the time it is stamped with, and
  one reader thread (`OneReader`): with two it is false, see section 5. A
  topology server of its own has one; local mode has not.

**Only model-checked,** because it is out of the prover's reach (fairness and
`ENABLED`): the liveness properties `DueIsRolledBack`, `DebateEnds`,
`EventIsAnswered`, `ChatAnswers`, `RecordsAreReached`, `ProbesEnd` and
`MissingIsStored`, and the fairness of `KeepsPromise`, whose steps are proved in
`ImplementsPromise`. Of the termination of debate, workflow and chat the other half
is proved: `DebateRunsOut`, `WorkflowRunsOut` and `ChatsRunOut` give a measure
(`StepsLeft`, `FlowStepsLeft`) that each step decreases, from a bound that only
depends on `MaxRounds`, so nothing goes on forever; that nothing stops before is
what the runs check. The debate's measure needs that going on is always counted
as a round (`GoingOnIsARound`). The violations are TLC's counterexamples.

## 5. Disagreements found while modelling

Six have a run with a counterexample and are listed under `findings`. Others
are visible in the code but have no run of their own:

* `ExecutionRecordRepository.java:44`: `start + ttl` wraps around, a ttl near
  the largest long is due at once. The model has it; the theorems assume it away.
* The sample request of the README has a WAF action with target `/api/pay`,
  which `validateStrategy` refuses since a slash is no safe identifier.
* A failed policy call is recorded as `mcp_called=True`, and `valid` stays true
  (`coordinator.py:479`); only the other gates keep such a strategy from running.
* The topology queries fail open: without answers the blast radius is LOW.
* The Planner looks for the Database zone in a field `zones` that `find_paths`
  does not return.
* The default challenge about an alternative traffic route is never covered, so
  a debate that does not take the low-risk path uses all its rounds or ends as
  high risk. Confidence rises by 0.1 each round whatever the revision did.
* The Red-Teamer challenges the Planner's proposal in each round, not the
  revised strategy.
* A timeout of the actuator client is reported as "unavailable", though the
  service may have executed the strategy.
* `DefenseStrategy` has no field that declares an approval, so rule 7 of the
  policy server fires on every strategy of a debate that touches a critical
  asset with a high-risk action: it is invalid, and the branch of the Coordinator
  for strategies that are valid but need an approval is never taken.
* The docstring of `_affects_production_path` (`policy_service.py:253`) names a
  third case, a high-risk action on any listed asset, which the code does not
  have; that of `require_human_approval` (`:818`) says that any high-risk action
  on a critical asset needs a human, declared or not, and the code asks again
  only for blocked databases. `validate_strategy` does ask, so after all patches
  one tool still asks for a human and the other does not.
* `_get_actions` (`policy_service.py:147`) skips elements that are no objects
  before it counts, so `actions[i]` of a patch may name another element.
* The continuity rules look for policies `deny_all` or `deny-all`
  (`rule_engine.py:107`); the agents write `deny-all-egress` and
  `deny-untrusted-egress`, which are never found.
* An empty answer of an MCP server counts as a success without data
  (`policy_client.py:451`), and the Coordinator reads it as valid.
* Workflows run in threads that share one `PolicyMCPClient`, and each call ends
  with `aclose()` (`coordinator.py:519`): in real mode one thread may close the
  session that another one waits for, which then gets a failed call.
* A probe whose two tools fail reports success and replaces a good topology by
  one with the host alone (`os_topology_probe.py:171`, `:405`).
* In local mode the threads of concurrent workflows share the globals of
  `topology_service`. One that loaded the old file may publish it after another
  one has published and stamped the new file; the time is the new one's then,
  and the old topology is served until the file changes again. TLC finds this
  with two readers; no document says anything to the contrary.
* `reload_default_topology` (`topology_service.py:239`) loads first and takes the
  time afterwards, the order that the mutant of `Stamp` has; nothing calls it.
* The role of an asset is that of its first row: a service that is listed with a
  connection before its listening socket stays a `local-process`. `_asset_id`
  maps names that differ in punctuation, or after 72 characters, to one id.
* A record that the ingest worker cannot handle is counted and passed over. A
  worker whose thread has ended shows as not running in the health answer, and
  nothing starts it again. With the shipped `latest`, a group without a committed position skips
  what was published before it joined.
* A low-risk `RESTRICT_EGRESS` whose target is an IP address is refused by
  `K8sAdapter`.
* The parser turns a request to tamper with a repository into
  `rm /etc/yum.repos.d/kylin.repo`, which no rule matches: it is answered with
  PENDING_APPROVAL instead of BLOCK.
* The intents about KylinSec, TCM and kernel modules plan commands that no rule
  knows and tools that the client does not have: they always end in
  PENDING_APPROVAL.
* A request whose executor status is SKIPPED is logged with the stage ERROR.
* `subprocess.run` holds the event loop: for up to five seconds no other request
  is served, the health check included.

## 6. What is left out

Texts (rationales, challenges' wording, evidence, generated configuration),
metrics and logging; the optional LLM hints, which only add text; `dryRun`,
which only changes wording; the catch branch of `RollbackServiceImpl`, which
nothing in its `try` reaches; the checks of action parameters beyond the alphabet
of `DebateModels`. In the ops chat: the regular expressions themselves, disabled
logs, and a session of os-mcp-server that is being opened. In the policy
server: rule files other than the shipped one, reloading them, and strategies
with broken fields, which are refused. In ingest: more than one partition, and
consumers of other groups. Around the topology files: loss of power (nothing is
flushed to disk), two writes within the resolution of file times, and the
display fields of `_status`. Components without a module are in the inventory.

**Not modelled, and why.** The os, kylinsec and actuator MCP servers keep no
state: each call runs a command or an HTTP request and shapes the result; what
their failures do to their callers is in `OpsChat`, `TopologyProbe` and
`DebateWorkflow`. The MVP bridge and the legacy acd-orchestration-service
convert data and stream steps of a simulation. The dashboard renders what the
services answer.

## 7. Plan

1. ~~Actuator, with its abstract specification and proofs.~~
2. ~~Debate agents and workflow.~~
3. ~~Event workflow, its composition with the debate and with `ActuatorStrategy`.~~
4. ~~Ops chat: gates, interleaving, audit file.~~
5. ~~Ingest: gateway transaction, Kafka positions, worker and restart.~~
6. ~~Topology: two writers of one temporary file, a reader in between.~~
7. ~~Rules of formal-verifier and of policy-mcp-server, composed with workflow and
   debate.~~
8. ~~Proofs of topology, ingest, the type invariants of debate and workflow,
   `LowRiskIsSoftened`, `ContainmentIsKept`, `OutcomeOnRecord`, the measures of
   debate, workflow and chat.~~ Left: a measure for the worker's records and for
   probes, whose steps are not bounded by their own state alone.
9. `AuditChain`: the hash chain of `tcm_integrity` across tampering.
10. The dashboard's task store.
