--------------------------- MODULE DebateWorkflow ---------------------------
(***************************************************************************)
(* DebateWorkflow: the graph that takes one event through the Planner, the *)
(* Red-Teamer, the revision and the Coordinator, and back to the           *)
(* Red-Teamer until the Coordinator ends the debate.                       *)
(*                                                                         *)
(* The topology and policy servers are asked anew on every visit and may   *)
(* fail or answer; the topology server may answer differently each time.   *)
(* The policy server evaluates its rules (PolicyService) with a listing of *)
(* assets of its own, which need not agree with the topology.              *)
(***************************************************************************)
EXTENDS PlannerAgent, RedTeamerAgent, PlannerRevision, CoordinatorAgent

CONSTANTS
  Events,            \* the events that may be processed
  Topologies,        \* criticality of each asset, or "unknown"
  Listings,          \* what the rules of policy-mcp-server list
  TopologyEnabled,   \* TopologyMCPClient.enabled
  PolicyEnabled,     \* PolicyMCPClient.enabled
  None               \* no strategy, no decision

Policy == INSTANCE PolicyService

ASSUME DebateAssumption ==
  /\ Events \subseteq Event
  /\ Topologies \subseteq [Asset -> Level \cup {"unknown"}]
  /\ Listings \subseteq Policy!Listing(Asset)
  /\ TopologyEnabled \in BOOLEAN
  /\ PolicyEnabled \in BOOLEAN
  /\ None \notin Strategy /\ None \notin Decision

VARIABLES
  pc,           \* the node of the graph that runs next
  event,        \* DebateState.securityEvent
  criticality,  \* of the assets the topology service knows
  listing,      \* the policy server's assets
  blast,        \* plannerMetadata.expected_blast_radius
  proposal,     \* plannerProposal
  findings,     \* redTeamFindings
  challenges,   \* redTeamChallenges
  revised,      \* revisedProposal
  unresolved,   \* unresolvedChallenges
  round,
  status,       \* DebateState.status
  decision      \* finalDecision

debate == <<pc, event, criticality, listing, blast, proposal, findings,
            challenges, revised, unresolved, round, status, decision>>

DebateStatus ==
  {"INIT", "IN_PROGRESS", "NEEDS_REVISION", "READY_FOR_DECISION", "CLOSED"}

DebateInit ==
  /\ pc = "planner"
  /\ event \in Events
  /\ criticality \in Topologies
  /\ listing \in Listings
  /\ blast = "LOW"
  /\ proposal = None
  /\ findings = NoFindings
  /\ challenges = {}
  /\ revised = None
  /\ unresolved = {}
  /\ round = 0
  /\ status = "INIT"
  /\ decision = None

\* Each query of the topology service may fail.
Planner ==
  /\ pc = "planner"
  /\ \E found \in SUBSET {x \in {"subject", "source", "neighbour"} :
                            criticality[x] # "unknown" /\ (x = "source" => event.source)} :
       /\ ~TopologyEnabled => found = {}
       /\ blast' = BlastRadius(criticality, found)
       /\ proposal' = Proposal(event, blast', found)
  /\ round' = round + 1
  /\ status' = "IN_PROGRESS"
  /\ pc' = "red_teamer"
  /\ UNCHANGED <<event, criticality, listing, findings, challenges, revised,
                 unresolved, decision>>

\* It challenges the Planner's proposal in every round, with or without findings.
RedTeamer ==
  /\ pc = "red_teamer"
  /\ challenges' = Challenges(proposal)
  /\ \/ findings' = NoFindings
     \/ /\ TopologyEnabled
        /\ \E evaluated \in BOOLEAN, paths \in 0 .. 2, neighbours, residual \in BOOLEAN :
             /\ paths > 0 => evaluated /\ DisruptsPaths(proposal, criticality)
             /\ neighbours => Types(proposal) \cap BlockLike # {}
             /\ residual => event.source
             /\ findings' = FindingsOf(proposal, criticality, evaluated, paths,
                                       neighbours, residual)
  /\ status' = "NEEDS_REVISION"
  /\ pc' = "revision"
  /\ UNCHANGED <<event, criticality, listing, blast, proposal, revised,
                 unresolved, round, decision>>

Revision ==
  /\ pc = "revision"
  /\ LET current == IF revised = None THEN proposal ELSE revised
     IN  revised' = Revised(current, event, blast, challenges, findings)
  /\ unresolved' = Unresolved(revised', challenges, LowRisk(event, blast))
  /\ status' = "READY_FOR_DECISION"
  /\ pc' = "coordinator"
  /\ UNCHANGED <<event, criticality, listing, blast, proposal, findings,
                 challenges, round, decision>>

PolicyType(kind) ==
  CASE kind = "DENY_ALL"   -> "APPLY_FIREWALL_RULE"
    [] kind = "SCALE_DOWN" -> "SCALE_PROTECTION"
    [] kind \notin {"DENY_ALL", "SCALE_DOWN"} -> kind

(***************************************************************************)
(* A strategy as the policy server reads it. DefenseStrategy has no field  *)
(* that declares an approval. The parameters that agents set do not change *)
(* whether such a strategy is valid or needs a human.                      *)
(***************************************************************************)
Sent(s) ==
  [actions    |-> [a \in s.actions |->
                     [type |-> PolicyType(a.type), target |-> a.target,
                      params |-> {}, replicas |-> "absent"]],
   scope      |-> s.scope,
   ttl        |-> {s.ttl},
   revertible |-> s.revertible,
   approval   |-> FALSE]

ServerAnswer(s) ==
  LET validation == Policy!Validate(Sent(s), listing)
  IN  [called |-> TRUE, answered |-> TRUE,
       valid |-> validation.valid, approval |-> validation.approval]

(***************************************************************************)
(* _run_policy_validation. A call that fails leaves the defaults: called,  *)
(* valid and no approval required.                                         *)
(***************************************************************************)
PolicyValidations ==
  IF ~PolicyEnabled
  THEN {[called |-> FALSE, answered |-> FALSE, valid |-> TRUE, approval |-> FALSE]}
  ELSE {[called |-> TRUE, answered |-> FALSE, valid |-> TRUE, approval |-> FALSE],
        ServerAnswer(revised)}

CaseWith(policy) ==
  [event |-> event, strategy |-> revised, unresolved |-> unresolved, round |-> round,
   blast |-> blast, findings |-> findings, policy |-> policy]

\* The node and the router behind it.
Coordinator ==
  /\ pc = "coordinator"
  /\ \E policy \in PolicyValidations :
       LET c == CaseWith(policy)
           d == Decide(c)
       IN  /\ decision' = d
           /\ revised' = [revised EXCEPT !.approved = ApprovedBy(c, d)]
           /\ round' = RoundAfter(c)
           /\ status' = IF d.next = "CONTINUE_DEBATE" THEN "IN_PROGRESS" ELSE "CLOSED"
           /\ pc' = IF d.next = "CONTINUE_DEBATE" THEN "red_teamer" ELSE "done"
  /\ UNCHANGED <<event, criticality, listing, blast, proposal, findings,
                 challenges, unresolved>>

DebateNext == Planner \/ RedTeamer \/ Revision \/ Coordinator

Spec == DebateInit /\ [][DebateNext]_debate

\* The graph runs node after node until it reaches END.
FairSpec == Spec /\ WF_debate(DebateNext)

-----------------------------------------------------------------------------
(* Type correctness *)

TypeOK ==
  /\ pc \in {"planner", "red_teamer", "revision", "coordinator", "done"}
  /\ event \in Events
  /\ criticality \in Topologies
  /\ listing \in Listings
  /\ blast \in Level
  /\ proposal \in Strategy \cup {None}
  /\ revised \in Strategy \cup {None}
  /\ findings \in Findings
  /\ challenges \subseteq Title
  /\ unresolved \subseteq challenges
  /\ round \in 0 .. MaxRounds
  /\ status \in DebateStatus
  /\ decision \in Decision \cup {None}
  /\ proposal = None <=> pc = "planner"
  /\ pc = "coordinator" => revised # None
  /\ pc = "done" => revised # None /\ decision # None /\ status = "CLOSED"

-----------------------------------------------------------------------------
(* Safety *)

Over == pc = "done"
Automatic == Over /\ decision.auto
LowRiskPath == decision.reason = "low_risk_sandbox_auto_executable"

(***************************************************************************)
(* A strategy carries the approval that verifier and actuator rely on only *)
(* at the end of a debate, and exactly when the decision lets it run       *)
(* without a human: neither a round that went on nor a policy, risk or     *)
(* safety veto after the ladder approved leaves it behind.                 *)
(***************************************************************************)
ApprovedMeansAuto ==
  revised # None => (revised.approved <=> Automatic)

(***************************************************************************)
(* What may run without a human was not vetoed by an answer of the policy  *)
(* server, touches no asset that the Red-Teamer reported CRITICAL, neither *)
(* answers a CRITICAL event nor has a HIGH blast radius, and can be rolled *)
(* back.                                                                   *)
(***************************************************************************)
AutoIsGated ==
  Automatic =>
    /\ decision.policy.answered => decision.policy.valid /\ ~decision.policy.approval
    /\ findings.critical = {}
    /\ event.severity # "CRITICAL" /\ blast # "HIGH"
    /\ Revertible(revised)

(***************************************************************************)
(* If the policy server answers, nothing runs without a human that uses a  *)
(* high-risk action while it has an asset listed as critical for its       *)
(* target or in its scope, whatever the topology thinks of that asset. The *)
(* answer and the revision it was given for must not come apart.           *)
(***************************************************************************)
AutoSparesListed ==
  Automatic /\ decision.policy.answered =>
    \A a \in revised.actions :
      PolicyType(a.type) \in Policy!HighRiskAction =>
        /\ a.target \notin listing.critical
        /\ revised.scope \cap listing.critical = {}

\* What another client may send: these actions with any ttl, plan and approval.
Sendable(s) ==
  {[Sent(s) EXCEPT !.ttl = ttl, !.revertible = revertible, !.approval = approval] :
     ttl \in {{}, {86400}, {86401}}, revertible, approval \in BOOLEAN}

(***************************************************************************)
(* Whoever applies all suggestions of policy-mcp-server to a strategy ends *)
(* up with one that breaks no rule, although patches make other rules      *)
(* apply: flows on an allow-list put an action on a production path.       *)
(***************************************************************************)
SuggestionsRepair ==
  pc = "coordinator" =>
    \A s \in Sendable(revised) :
      LET suggestions == Policy!Validate(s, listing).suggestions
      IN  Policy!Findings(Policy!Patched(s, suggestions), listing, Policy!Rule) = {}

(***************************************************************************)
(* The debate hands to verification only strategies it trusts enough, even *)
(* when it runs out of rounds; only the low-risk path need not be trusted. *)
(***************************************************************************)
OnlyTrustedIsVerified ==
  Over /\ decision.next = "ENTER_VERIFICATION" =>
    LowRiskPath \/ revised.confidence >= ConfidenceThreshold

(***************************************************************************)
(* For a low-risk event every isolation or block, proposed or added by a   *)
(* fix of any round, has become an egress restriction of the same target:  *)
(* softened, but not dropped.                                              *)
(***************************************************************************)
LowRiskIsSoftened ==
  revised # None /\ LowRisk(event, blast) =>
    /\ Types(revised) \subseteq SoftTypes
    /\ \A a \in proposal.actions :
         a.type \in Isolating => Act("RESTRICT_EGRESS", a.target) \in revised.actions

\* The targets a strategy contains.
Contained(s) == {a.target : a \in {b \in s.actions : b.type \in BlockLike}}

\* Whatever it changes, a revision never gives up the containment of a target.
ContainmentIsKept ==
  [][proposal # None /\ revised' # None =>
       Contained(IF revised = None THEN proposal ELSE revised) \subseteq Contained(revised')
    ]_debate

-----------------------------------------------------------------------------
(* Liveness *)

\* Every debate ends: no answer of the servers keeps it going.
DebateEnds == <>Over

-----------------------------------------------------------------------------
(* What comments say, and the code does not do *)

(***************************************************************************)
(* SafetyCheck: any check that fails forces human approval and forbids     *)
(* automatic execution.                                                    *)
(***************************************************************************)
FailedCheckForbidsAuto ==
  decision # None /\ decision.failed # {} => decision.human /\ ~decision.auto

(***************************************************************************)
(* _apply_topology_findings_fixes: an asset reported CRITICAL is no longer *)
(* isolated or blocked after the revision, only its egress restricted.     *)
(***************************************************************************)
CriticalIsNotIsolated ==
  pc = "coordinator" =>
    \A a \in revised.actions :
      a.target \in findings.critical /\ a.target # "source" => a.type \notin Isolating

=============================================================================
