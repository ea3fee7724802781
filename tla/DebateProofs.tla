---------------------------- MODULE DebateProofs ----------------------------
(***************************************************************************)
(* Proofs about DebateWorkflow, for every event, topology, threshold and   *)
(* number of rounds: what it promises about approval and about what runs   *)
(* without a human.                                                        *)
(***************************************************************************)
EXTENDS DebateWorkflow, TLAPS

Rules == INSTANCE PolicyProofs

-----------------------------------------------------------------------------
(* The approval a strategy carries, from agent to agent *)

\* The strategy has a ttl and an approval, with this value.
Carries(s, approval) ==
  /\ {"approved", "ttl"} \subseteq DOMAIN s
  /\ s.approved = approval
  /\ s.ttl \in Nat

\* The Planner proposes, it does not approve.
LEMMA ProposalIsUnapproved ==
  ASSUME NEW e, NEW b, NEW found
  PROVE  Carries(Proposal(e, b, found), FALSE)
<1> DEFINE s == Proposal(e, b, found)
<1>1. s.ttl = IF e.shell THEN 1800 ELSE IF e.log4j THEN 3600 ELSE 900
  BY DEF Proposal
<1>2. s.approved = FALSE /\ {"approved", "ttl"} \subseteq DOMAIN s
  BY DEF Proposal
<1>3. s.ttl \in Nat
  BY <1>1
<1> QED
  BY <1>2, <1>3 DEF Carries

\* A revision neither gives nor takes approval.
LEMMA RevisionKeepsApproval ==
  ASSUME NEW s, NEW e, NEW b, NEW ch, NEW f, NEW v, Carries(s, v)
  PROVE  Carries(Revised(s, e, b, ch, f), v)
<1> DEFINE bold == [s EXCEPT !.confidence = IF @ + 10 > 95 THEN 95 ELSE @ + 10]
           met == ChallengeFixes(bold, ch, LowRisk(e, b))
           fixed == TopologyFixes(met, e, f)
<1>1. Carries(bold, v)
  BY DEF Carries
<1>2. Carries(met, v)
  BY <1>1 DEF Carries, ChallengeFixes
<1>3. Carries(fixed, v)
  BY <1>2 DEF Carries, TopologyFixes
<1>4. Carries(Softened(fixed), v)
  BY <1>3 DEF Carries, Softened
<1> QED
  BY <1>3, <1>4 DEF Revised

-----------------------------------------------------------------------------
(* The Coordinator *)

\* Only a debate that has rounds left asks for more coverage.
LEMMA RoundsLeft ==
  ASSUME NEW c, LadderReason(c) = "need_more_coverage"
  PROVE  ~ReachedMaxRound(c)
BY DEF LadderReason

\* What the Coordinator lets run without a human passed every gate.
LEMMA AutoPassedTheGates ==
  ASSUME NEW c, c.strategy.ttl \in Nat, Decide(c).auto
  PROVE  /\ ~(c.policy.called /\ ~c.policy.valid) /\ ~(c.policy.called /\ c.policy.approval)
         /\ c.findings.critical = {}
         /\ c.event.severity # "CRITICAL" /\ c.blast # "HIGH"
         /\ Revertible(c.strategy)
<1>1. CASE LowRiskAuto(c)
  BY <1>1 DEF LowRiskAuto, HighTierImpact
<1>2. CASE ~LowRiskAuto(c)
  <2>1. /\ FailedChecks(c) = {}
        /\ StatusOn(Decide(c).next, c.policy) = "approved_for_execution"
    BY <1>2 DEF Decide
  <2>2. /\ ~(c.policy.called /\ c.policy.approval)
        /\ c.findings.critical = {}
        /\ c.event.severity # "CRITICAL" /\ c.blast # "HIGH"
        /\ c.strategy.revertible /\ ~(c.strategy.ttl < 60)
    BY <2>1 DEF FailedChecks
  <2>3. ~(c.policy.called /\ ~c.policy.valid)
    BY <2>1 DEF StatusOn
  <2> QED
    BY <2>2, <2>3 DEF Revertible
<1> QED
  BY <1>1, <1>2

(***************************************************************************)
(* Of a strategy that was not approved before, approval afterwards and     *)
(* automatic execution are the same once the debate is over; as long as it *)
(* goes on there is neither.                                               *)
(***************************************************************************)
LEMMA ApprovalIsAuto ==
  ASSUME NEW c, c.strategy.approved = FALSE
  PROVE  /\ Decide(c).next = "CONTINUE_DEBATE" => ~ApprovedBy(c, Decide(c))
         /\ Decide(c).next # "CONTINUE_DEBATE" => (ApprovedBy(c, Decide(c)) <=> Decide(c).auto)
<1> DEFINE d == Decide(c)
           ladder == NextOn(LadderReason(c), Confident(c))
<1>1. CASE LowRiskAuto(c)
  <2>1. /\ d.reason = "low_risk_sandbox_auto_executable"
        /\ d.status = "approved_for_execution"
        /\ d.auto
    BY <1>1 DEF Decide
  <2>2. d.next # "CONTINUE_DEBATE"
    BY <1>1 DEF Decide, NextOn
  <2> QED
    BY <2>1, <2>2 DEF ApprovedBy
<1>2. CASE ~LowRiskAuto(c)
  <2>1. /\ d.reason = LadderReason(c) /\ d.next = ladder
        /\ LadderReason(c) # "low_risk_sandbox_auto_executable"
    <3>1. d.reason = LadderReason(c)
      BY <1>2 DEF Decide
    <3>2. d.next = ladder
      BY <1>2 DEF Decide
    <3>3. LadderReason(c) # "low_risk_sandbox_auto_executable"
      BY DEF LadderReason
    <3> QED
      BY <3>1, <3>2, <3>3
  <2>2. CASE ladder = "CONTINUE_DEBATE"
    BY <2>1, <2>2 DEF ApprovedBy
  <2>3. CASE ladder = "REQUEST_HUMAN_REVIEW"
    <3>1. d.auto => StatusOn(ladder, c.policy) = "approved_for_execution"
      BY <1>2, <2>1 DEF Decide
    <3>2. ~d.auto
      BY <2>3, <3>1 DEF StatusOn
    <3> QED
      BY <2>1, <2>3, <3>2 DEF ApprovedBy
  <2>4. CASE ladder = "ENTER_VERIFICATION"
    <3>1. StatusOn(ladder, c.policy) \in
            {"needs_revision", "requires_approval", "approved_for_execution"}
      BY <2>4 DEF StatusOn
    <3>2. d.status = IF FailedChecks(c) # {}
                        /\ StatusOn(ladder, c.policy) = "approved_for_execution"
                     THEN "requires_approval" ELSE StatusOn(ladder, c.policy)
      BY <1>2, <2>1 DEF Decide
    <3>3. d.human = (FailedChecks(c) # {} \/ HumanOn(ladder, c.policy, RiskLevel(c)))
      BY <1>2, <2>1 DEF Decide
    <3>4. d.auto = (~d.human /\ d.status = "approved_for_execution")
      BY DEF Decide
    <3>5. ASSUME d.status = "approved_for_execution"
          PROVE  ~d.human
      <4>1. FailedChecks(c) = {}
        BY <3>1, <3>2, <3>5
      <4>2. RiskLevel(c) # "CRITICAL"
        BY <4>1 DEF FailedChecks
      <4>3. ~(c.policy.called /\ c.policy.approval)
        BY <4>1 DEF FailedChecks
      <4> QED
        BY <2>4, <3>3, <4>1, <4>2, <4>3 DEF HumanOn
    <3>6. ApprovedBy(c, d) <=> d.status = "approved_for_execution"
      BY <2>1, <2>4, <3>1, <3>2 DEF ApprovedBy
    <3> QED
      BY <2>1, <2>4, <3>4, <3>5, <3>6
  <2>5. ladder \in {"CONTINUE_DEBATE", "REQUEST_HUMAN_REVIEW", "ENTER_VERIFICATION"}
    <3>1. LadderReason(c) \in
            {"high_risk_low_confidence", "coverage_good_confidence_good",
             "max_round_reached", "need_more_coverage"}
      BY DEF LadderReason
    <3> QED
      BY <3>1 DEF NextOn
  <2> QED
    BY <2>2, <2>3, <2>4, <2>5
<1> QED
  BY <1>1, <1>2

\* Only the low-risk path enters verification without the confidence for it.
LEMMA VerifiedIsTrusted ==
  ASSUME NEW c, Decide(c).next = "ENTER_VERIFICATION"
  PROVE  \/ Decide(c).reason = "low_risk_sandbox_auto_executable"
         \/ Confident(c)
<1>1. CASE LowRiskAuto(c)
  BY <1>1 DEF Decide
<1>2. CASE ~LowRiskAuto(c)
  <2>1. NextOn(LadderReason(c), Confident(c)) = "ENTER_VERIFICATION"
    BY <1>2 DEF Decide
  <2> QED
    BY <2>1 DEF NextOn, LadderReason
<1> QED
  BY <1>1, <1>2

-----------------------------------------------------------------------------
(* The inductive invariant *)

\* Only a policy server that was asked answers, and about the strategy at hand.
LEMMA AnsweredMeansCalled ==
  ASSUME NEW policy \in PolicyValidations, policy.answered
  PROVE  policy.called /\ policy = ServerAnswer(revised)
<1>1. CASE PolicyEnabled
  <2>1. \/ policy = [called |-> TRUE, answered |-> FALSE, valid |-> TRUE, approval |-> FALSE]
        \/ policy = ServerAnswer(revised)
    BY <1>1, Zenon DEF PolicyValidations
  <2>2. policy = ServerAnswer(revised)
    BY <2>1
  <2>3. ServerAnswer(revised).called
    BY DEF ServerAnswer
  <2> QED
    BY <2>2, <2>3
<1>2. CASE ~PolicyEnabled
  <2>1. policy.answered = FALSE
    BY <1>2 DEF PolicyValidations
  <2> QED
    BY <2>1
<1> QED
  BY <1>1, <1>2

\* A strategy that touches no asset listed as critical with a high-risk action.
SparesListed(s) ==
  \A a \in s.actions :
    PolicyType(a.type) \in Policy!HighRiskAction =>
      /\ a.target \notin listing.critical
      /\ s.scope \cap listing.critical = {}

\* The server asks for a human as soon as a strategy does not spare what it lists.
LEMMA UnaskedSparesListed ==
  ASSUME NEW s, ~ServerAnswer(s).approval
  PROVE  SparesListed(s)
<1> DEFINE sent == Sent(s)
<1>1. ~Policy!CriticalAction(sent, listing)
  BY DEF ServerAnswer, Policy!Validate, Policy!Answer
<1>2. SUFFICES ASSUME NEW a \in s.actions, PolicyType(a.type) \in Policy!HighRiskAction
               PROVE  /\ a.target \notin listing.critical
                      /\ s.scope \cap listing.critical = {}
  BY DEF SparesListed
<1>3. /\ a \in DOMAIN sent.actions
      /\ sent.actions[a].type = PolicyType(a.type)
      /\ sent.actions[a].target = a.target
      /\ sent.scope = s.scope
  BY DEF Sent
<1> HIDE DEF sent
<1>4. ~Policy!CriticalHit(sent, a, listing)
  BY <1>1, <1>2, <1>3 DEF Policy!CriticalAction
<1>5. a.target \notin listing.critical /\ sent.scope \cap listing.critical = {}
  BY <1>3, <1>4 DEF Policy!CriticalHit, Policy!Reaches
<1> QED
  BY <1>3, <1>5

\* The debate counts its rounds, and does not count more than it may.
RoundInv ==
  /\ round \in 0 .. MaxRounds
  /\ pc = "planner" <=> round = 0

\* No strategy is approved while the debate goes on.
ApprovalInv ==
  /\ pc \in {"planner", "red_teamer", "revision", "coordinator", "done"}
  /\ pc = "planner" => revised = None
  /\ pc \in {"red_teamer", "revision", "coordinator"} => Carries(proposal, FALSE)
  /\ pc \in {"red_teamer", "revision"} /\ revised # None => Carries(revised, FALSE)
  /\ pc = "coordinator" => Carries(revised, FALSE)
  /\ pc = "done" => (revised.approved <=> decision.auto) /\ revised.ttl \in Nat

\* At the end, the decision's gates still hold of what it was made on.
GateInv ==
  pc = "done" =>
    /\ AutoIsGated
    /\ AutoSparesListed
    /\ OnlyTrustedIsVerified

DebateInv == RoundInv /\ ApprovalInv /\ GateInv

LEMMA DebateInvInit == DebateInit => DebateInv
BY CoordinatorAssumption DEF DebateInit, DebateInv, RoundInv, ApprovalInv, GateInv

\* Each node of the graph, and every step of something else, keeps the invariant.
LEMMA DebateInvStep == DebateInv /\ [DebateNext]_debate => DebateInv'
<1> SUFFICES ASSUME DebateInv, [DebateNext]_debate
             PROVE  DebateInv'
  OBVIOUS
<1> USE CoordinatorAssumption
<1>1. CASE Planner
  <2>1. /\ pc = "planner" /\ pc' = "red_teamer" /\ round' = round + 1
        /\ revised' = revised
    BY <1>1 DEF Planner
  <2>2. Carries(proposal', FALSE)
    BY <1>1, ProposalIsUnapproved DEF Planner
  <2>3. RoundInv'
    BY <2>1 DEF DebateInv, RoundInv
  <2> QED
    BY <2>1, <2>2, <2>3 DEF DebateInv, ApprovalInv, GateInv
<1>2. CASE RedTeamer
  BY <1>2 DEF RedTeamer, DebateInv, RoundInv, ApprovalInv, GateInv
<1>3. CASE Revision
  <2> DEFINE current == IF revised = None THEN proposal ELSE revised
  <2>1. /\ pc = "revision" /\ pc' = "coordinator" /\ round' = round
        /\ proposal' = proposal
        /\ revised' = Revised(current, event, blast, challenges, findings)
    BY <1>3 DEF Revision
  <2>2. Carries(current, FALSE)
    BY <2>1 DEF DebateInv, ApprovalInv
  <2>3. Carries(revised', FALSE)
    BY <2>1, <2>2, RevisionKeepsApproval
  <2>4. Carries(proposal', FALSE)
    BY <2>1 DEF DebateInv, ApprovalInv
  <2> QED
    BY <2>1, <2>3, <2>4 DEF DebateInv, RoundInv, ApprovalInv, GateInv
<1>4. CASE Coordinator
  <2> PICK policy \in PolicyValidations :
        LET c == CaseWith(policy)
            d == Decide(c)
        IN  /\ decision' = d
            /\ revised' = [revised EXCEPT !.approved = ApprovedBy(c, d)]
            /\ round' = RoundAfter(c)
            /\ status' = IF d.next = "CONTINUE_DEBATE" THEN "IN_PROGRESS" ELSE "CLOSED"
            /\ pc' = IF d.next = "CONTINUE_DEBATE" THEN "red_teamer" ELSE "done"
    BY <1>4 DEF Coordinator
  <2> DEFINE c == CaseWith(policy)
             d == Decide(c)
  <2>1. /\ pc = "coordinator"
        /\ event' = event /\ blast' = blast /\ findings' = findings /\ proposal' = proposal
        /\ listing' = listing
    BY <1>4 DEF Coordinator
  <2>2. /\ c.event = event /\ c.strategy = revised /\ c.round = round
        /\ c.blast = blast /\ c.findings = findings /\ c.policy = policy
    BY DEF CaseWith
  <2>3. Carries(revised, FALSE) /\ Carries(proposal, FALSE)
    BY <2>1 DEF DebateInv, ApprovalInv
  <2>4. /\ c.strategy.approved = FALSE
        /\ c.strategy.ttl \in Nat
    BY <2>2, <2>3 DEF Carries
  <2>5. /\ revised'.approved = ApprovedBy(c, d)
        /\ revised'.ttl = revised.ttl /\ revised'.ttl \in Nat
        /\ {"approved", "ttl"} \subseteq DOMAIN revised'
        /\ revised'.revertible = revised.revertible
        /\ revised'.confidence = revised.confidence
        /\ revised'.actions = revised.actions /\ revised'.scope = revised.scope
    BY <2>3 DEF Carries
  <2>6. RoundInv'
    <3>0. pc = "coordinator" /\ pc' \in {"red_teamer", "done"}
      BY <2>1
    <3>1. CASE LadderReason(c) = "need_more_coverage"
      <4>1. ~(round >= MaxRounds)
        BY <2>2, <3>1, RoundsLeft DEF ReachedMaxRound
      <4>2. round' = round + 1
        BY <2>2, <3>1 DEF RoundAfter
      <4> QED
        BY <3>0, <4>1, <4>2 DEF DebateInv, RoundInv
    <3>2. CASE LadderReason(c) # "need_more_coverage"
      BY <2>2, <3>0, <3>2 DEF RoundAfter, DebateInv, RoundInv
    <3> QED
      BY <3>1, <3>2
  <2>7. CASE d.next = "CONTINUE_DEBATE"
    <3>1. pc' = "red_teamer"
      BY <2>7
    <3>2. Carries(revised', FALSE)
      <4>1. ~ApprovedBy(c, d)
        BY <2>4, <2>7, ApprovalIsAuto
      <4>2. ApprovedBy(c, d) \in BOOLEAN
        BY DEF ApprovedBy
      <4>3. revised'.approved = FALSE
        BY <2>5, <4>1, <4>2
      <4> QED
        BY <2>5, <4>3 DEF Carries
    <3> QED
      BY <2>1, <2>3, <2>6, <3>1, <3>2 DEF DebateInv, ApprovalInv, GateInv
  <2>8. CASE d.next # "CONTINUE_DEBATE"
    <3>1. pc' = "done" /\ decision' = d
      BY <2>8
    <3>2. revised'.approved <=> d.auto
      BY <2>4, <2>5, <2>8, ApprovalIsAuto
    <3>3. AutoIsGated'
      <4>1. CASE d.auto
        <5>1. /\ ~(policy.called /\ ~policy.valid) /\ ~(policy.called /\ policy.approval)
              /\ findings.critical = {}
              /\ event.severity # "CRITICAL" /\ blast # "HIGH"
              /\ Revertible(revised)
          BY <2>2, <2>4, <4>1, AutoPassedTheGates
        <5>2. d.policy = policy
          BY <2>2 DEF Decide
        <5>3. policy.answered => policy.called
          BY AnsweredMeansCalled, Zenon
        <5>4. Revertible(revised)'
          BY <2>5, <5>1 DEF Revertible
        <5>5. decision'.policy.answered => decision'.policy.valid /\ ~decision'.policy.approval
          BY <3>1, <5>1, <5>2, <5>3
        <5> QED
          BY <2>1, <5>1, <5>4, <5>5 DEF AutoIsGated
      <4>2. CASE ~d.auto
        BY <3>1, <4>2 DEF AutoIsGated, Automatic
      <4> QED
        BY <4>1, <4>2
    <3>4. OnlyTrustedIsVerified'
      BY <2>2, <2>5, <3>1, VerifiedIsTrusted DEF OnlyTrustedIsVerified, Over, LowRiskPath, Confident
    <3>5. (revised.approved <=> decision.auto)'
      BY <3>1, <3>2, Zenon
    <3>6. ApprovalInv'
      BY <2>5, <3>1, <3>5 DEF ApprovalInv
    <3>7. AutoSparesListed'
      <4>1. SUFFICES ASSUME d.auto, policy.answered PROVE SparesListed(revised)'
        <5>1. d.policy = policy
          BY <2>2 DEF Decide
        <5> QED
          BY <3>1, <4>1, <5>1, Zenon DEF AutoSparesListed, SparesListed, Automatic, Over
      <4>2. policy.called /\ policy = ServerAnswer(revised)
        BY <4>1, AnsweredMeansCalled
      <4>3. ~policy.approval
        BY <2>2, <2>4, <4>1, <4>2, AutoPassedTheGates
      <4>4. SparesListed(revised)
        BY <4>2, <4>3, UnaskedSparesListed
      <4> QED
        BY <2>1, <2>5, <4>4 DEF SparesListed
    <3>8. GateInv'
      BY <3>3, <3>4, <3>7 DEF GateInv
    <3> QED
      BY <2>6, <3>6, <3>8 DEF DebateInv
  <2> QED
    BY <2>7, <2>8
<1>5. CASE UNCHANGED debate
  <2>1. RoundInv'
    BY <1>5 DEF debate, DebateInv, RoundInv
  <2>2. ApprovalInv'
    BY <1>5 DEF debate, DebateInv, ApprovalInv
  <2>3. GateInv'
    BY <1>5 DEF debate, DebateInv, GateInv, AutoIsGated, AutoSparesListed,
       OnlyTrustedIsVerified, Automatic, Over, LowRiskPath, Revertible
  <2> QED
    BY <2>1, <2>2, <2>3 DEF DebateInv
<1> QED
  BY <1>1, <1>2, <1>3, <1>4, <1>5 DEF DebateNext

-----------------------------------------------------------------------------
(* Theorems *)

\* Rounds, approvals and the gates of the last decision, at every node of the graph.
THEOREM DebateInvariant == Spec => []DebateInv
BY DebateInvInit, DebateInvStep, PTL DEF Spec

(***************************************************************************)
(* For any thresholds, events and answers: a strategy is approved exactly  *)
(* when the debate is over and lets it run without a human.                *)
(***************************************************************************)
THEOREM ApprovalIsForAuto == Spec => []ApprovedMeansAuto
<1>1. DebateInv => ApprovedMeansAuto
  <2> SUFFICES ASSUME DebateInv, revised # None
               PROVE  revised.approved <=> Automatic
    BY Zenon DEF ApprovedMeansAuto
  <2>1. CASE pc = "done"
    <3>1. revised.approved <=> decision.auto
      BY <2>1 DEF DebateInv, ApprovalInv
    <3> QED
      BY <2>1, <3>1, Zenon DEF Automatic, Over
  <2>2. CASE pc # "done"
    <3>1. revised.approved = FALSE
      BY <2>2 DEF DebateInv, ApprovalInv, Carries
    <3>2. ~Automatic
      BY <2>2 DEF Automatic, Over
    <3> QED
      BY <3>1, <3>2, Zenon
  <2> QED
    BY <2>1, <2>2
<1> QED
  BY <1>1, DebateInvariant, PTL

(***************************************************************************)
(* What runs without a human passed the policy server, the topology        *)
(* findings, the severity and blast radius, and the rollback gate.         *)
(***************************************************************************)
THEOREM AutoPassesGates == Spec => []AutoIsGated
<1>1. DebateInv => AutoIsGated
  <2>1. CASE pc = "done"
    BY <2>1 DEF DebateInv, GateInv
  <2>2. CASE pc # "done"
    BY <2>2 DEF AutoIsGated, Automatic, Over
  <2> QED
    BY <2>1, <2>2
<1> QED
  BY <1>1, DebateInvariant, PTL

(***************************************************************************)
(* What runs without a human after an answer of the policy server spares   *)
(* every asset that it lists as critical, whatever the topology says.      *)
(***************************************************************************)
THEOREM AutoSparesWhatIsListed == Spec => []AutoSparesListed
<1>1. DebateInv => AutoSparesListed
  <2>1. CASE pc = "done"
    BY <2>1 DEF DebateInv, GateInv
  <2>2. CASE pc # "done"
    BY <2>2 DEF AutoSparesListed, Automatic, Over
  <2> QED
    BY <2>1, <2>2
<1> QED
  BY <1>1, DebateInvariant, PTL

(***************************************************************************)
(* Only a trusted strategy enters verification, except on the low-risk     *)
(* path.                                                                   *)
(***************************************************************************)
THEOREM VerificationNeedsTrust == Spec => []OnlyTrustedIsVerified
<1>1. DebateInv => OnlyTrustedIsVerified
  BY DEF DebateInv, GateInv, OnlyTrustedIsVerified, Over
<1> QED
  BY <1>1, DebateInvariant, PTL

(***************************************************************************)
(* Whatever rules the policy server has and whatever the strategy is, all  *)
(* its suggestions together leave no rule broken.                          *)
(***************************************************************************)
THEOREM SuggestionsAlwaysRepair == Spec => []SuggestionsRepair
<1>1. listing \in Listings => SuggestionsRepair
  <2> SUFFICES ASSUME listing \in Listings, NEW s
               PROVE  LET suggestions == Policy!Validate(s, listing).suggestions
                      IN  Policy!Findings(Policy!Patched(s, suggestions), listing,
                                          Policy!Rule) = {}
    BY DEF SuggestionsRepair
  <2>1. listing \in Rules!Listing(Asset)
    BY DebateAssumption DEF Policy!Listing, Rules!Listing
  <2>2. Rules!Findings(Rules!Patched(s, Rules!Validate(s, listing).suggestions), listing,
                       Rules!Rule) = {}
    BY <2>1, Rules!SuggestionsSuffice
  <2>3. \A r, t, i : Rules!Breaks(r, t, i, listing) <=> Policy!Breaks(r, t, i, listing)
    BY DEF Rules!Breaks, Policy!Breaks, Rules!BlocksCriticalDatabase,
       Policy!BlocksCriticalDatabase, Rules!BlocksPathWithoutTtl,
       Policy!BlocksPathWithoutTtl, Rules!LacksRollback, Policy!LacksRollback,
       Rules!LacksReplicas, Policy!LacksReplicas, Rules!BlocksTooMuch,
       Policy!BlocksTooMuch, Rules!UnapprovedOnCritical, Policy!UnapprovedOnCritical,
       Rules!FullyBlocking, Policy!FullyBlocking, Rules!PathBlocking,
       Policy!PathBlocking, Rules!HighRiskAction, Policy!HighRiskAction,
       Rules!CriticalHit, Policy!CriticalHit, Rules!Reaches, Policy!Reaches,
       Rules!AffectsProductionPath, Policy!AffectsProductionPath, Rules!LegalTtl,
       Policy!LegalTtl
  <2>4. Rules!Rule = Policy!Rule
    BY DEF Rules!Rule, Policy!Rule, Rules!Severe, Policy!Severe, Rules!Mild, Policy!Mild
  <2>5. \A t : Rules!Findings(t, listing, Rules!Rule) = Policy!Findings(t, listing, Policy!Rule)
    BY <2>3, <2>4 DEF Rules!Findings, Policy!Findings
  <2>6. \A found : Rules!Patched(s, found) = Policy!Patched(s, found)
    BY DEF Rules!Patched, Policy!Patched, Rules!PatchedActions, Policy!PatchedActions,
       Rules!Merged, Policy!Merged, Rules!About, Policy!About
  <2>7. /\ Rules!Validate(s, listing).suggestions = Rules!Findings(s, listing, Rules!Rule)
        /\ Policy!Validate(s, listing).suggestions = Policy!Findings(s, listing, Policy!Rule)
    BY DEF Rules!Validate, Policy!Validate, Rules!Answer, Policy!Answer
  <2> QED
    BY <2>2, <2>5, <2>6, <2>7
<1>2. DebateInit => listing \in Listings
  BY DEF DebateInit
<1>3. listing \in Listings /\ [DebateNext]_debate => (listing \in Listings)'
  BY DEF DebateNext, Planner, RedTeamer, Revision, Coordinator, debate
<1> QED
  BY <1>1, <1>2, <1>3, PTL DEF Spec

\* No debate takes more rounds than DebateState.maxRounds.
THEOREM RoundsAreBounded == Spec => [](round \in 0 .. MaxRounds)
<1>1. DebateInv => round \in 0 .. MaxRounds
  BY DEF DebateInv, RoundInv
<1> QED
  BY <1>1, DebateInvariant, PTL

-----------------------------------------------------------------------------
(* Types *)

LEMMA ActIsAction ==
  ASSUME NEW k \in ActionKind, NEW x \in Asset
  PROVE  Act(k, x) \in Action
BY DEF Act, Action

LEMMA FirstIsAsset == \A scope : First(scope) \in Asset
BY DEF First, Asset

LEMMA ProposalIsStrategy ==
  ASSUME NEW e \in Event, NEW b, NEW found \in SUBSET Asset
  PROVE  Proposal(e, b, found) \in Strategy
<1>1. Signals(e) \subseteq Action
  BY ActIsAction DEF Signals, ActionKind, Asset
<1>2. Act("ALERT_ONLY", "subject") \in Action
  BY ActIsAction DEF ActionKind, Asset
<1>3. ConfidenceOf(e, b) \in 0 .. 100
  BY DEF ConfidenceOf, Lower, Higher, Event
<1>4. {"subject"} \cup found \in (SUBSET Asset) \ {{}}
  <2>1. "subject" \in {"subject"} \cup found
    OBVIOUS
  <2>2. {"subject"} \cup found \subseteq Asset
    BY DEF Asset
  <2>3. \A x : x \subseteq Asset /\ "subject" \in x => x \in (SUBSET Asset) \ {{}}
    OBVIOUS
  <2> QED
    BY <2>1, <2>2, <2>3
<1>5. (IF Signals(e) = {} THEN {Act("ALERT_ONLY", "subject")} ELSE Signals(e)) \in SUBSET Action
  BY <1>1, <1>2
<1>6. (IF e.shell THEN 1800 ELSE IF e.log4j THEN 3600 ELSE 900) \in Nat
  OBVIOUS
<1> QED
  BY <1>3, <1>4, <1>5, <1>6 DEF Proposal, Strategy

LEMMA RevisedIsStrategy ==
  ASSUME NEW s \in Strategy, NEW e, NEW b, NEW ch, NEW f
  PROVE  Revised(s, e, b, ch, f) \in Strategy
<1> DEFINE bold == [s EXCEPT !.confidence = IF @ + 10 > 95 THEN 95 ELSE @ + 10]
           met == ChallengeFixes(bold, ch, LowRisk(e, b))
           fixed == TopologyFixes(met, e, f)
<1>1. bold \in Strategy
  BY DEF Strategy
<1>2. met \in Strategy
  <2> HIDE DEF bold
  <2>1. First(bold.scope) \in Asset
    BY FirstIsAsset
  <2>2. /\ Act("RESTRICT_EGRESS", First(bold.scope)) \in Action
        /\ Act(IF LowRisk(e, b) THEN "RESTRICT_EGRESS" ELSE "ISOLATE_POD", First(bold.scope)) \in Action
    BY <2>1, ActIsAction DEF ActionKind
  <2>3. \E actions \in SUBSET Action, ttl \in Nat :
          met = [bold EXCEPT !.actions = actions, !.ttl = ttl]
    <3>1. bold.actions \in SUBSET Action /\ bold.ttl \in Nat
      BY <1>1 DEF Strategy
    <3> DEFINE egress == IF /\ ch \cap AboutDistribution # {}
                            /\ "RESTRICT_EGRESS" \notin Types(bold)
                         THEN {Act("RESTRICT_EGRESS", First(bold.scope))} ELSE {}
               kind == IF LowRisk(e, b) THEN "RESTRICT_EGRESS" ELSE "ISOLATE_POD"
               isolation == IF "scope too small" \in ch /\ "ISOLATE_POD" \notin Types(bold)
                            THEN {Act(kind, First(bold.scope))} ELSE {}
               ttl == IF ch \cap AboutRootCause # {} /\ bold.ttl < 3600 THEN 3600 ELSE bold.ttl
    <3>2. egress \subseteq Action /\ isolation \subseteq Action
      BY <2>2
    <3>3. ttl \in Nat
      BY <3>1
    <3>4. met = [bold EXCEPT !.actions = bold.actions \cup egress \cup isolation, !.ttl = ttl]
      BY DEF ChallengeFixes
    <3> HIDE DEF egress, isolation, ttl, met
    <3>5. bold.actions \cup egress \cup isolation \in SUBSET Action
      BY <3>1, <3>2
    <3> QED
      BY <3>3, <3>4, <3>5
  <2> HIDE DEF met
  <2> QED
    BY <1>1, <2>3 DEF Strategy
<1>3. fixed \in Strategy
  <2> HIDE DEF met
  <2>1. \A a \in Action : Act("RESTRICT_EGRESS", a.target) \in Action
    BY ActIsAction DEF Action, ActionKind
  <2>2. Downgraded(met.actions, f) \in SUBSET Action
    BY <1>2, <2>1 DEF Downgraded, Strategy
  <2>3. Act("RESTRICT_EGRESS", "source") \in Action
    BY ActIsAction DEF ActionKind, Asset
  <2>4. Stripped(met.scope, f) \in (SUBSET Asset) \ {{}}
    BY <1>2 DEF Stripped, Strategy
  <2> QED
    BY <1>2, <2>2, <2>3, <2>4 DEF TopologyFixes, Strategy
<1>4. Softened(fixed) \in Strategy
  <2> HIDE DEF fixed
  <2>1. \A a \in Action : Act("RESTRICT_EGRESS", a.target) \in Action
    BY ActIsAction DEF Action, ActionKind
  <2>2. Act("ALERT_ONLY", First(fixed.scope)) \in Action
    BY FirstIsAsset, ActIsAction DEF ActionKind
  <2> QED
    BY <1>3, <2>1, <2>2 DEF Softened, Strategy
<1> QED
  BY <1>3, <1>4 DEF Revised

LEMMA FindingsAreFindings ==
  ASSUME NEW s \in Strategy, NEW crit, NEW evaluated, NEW paths \in 0 .. 2,
         NEW neighbours \in BOOLEAN, NEW residual \in BOOLEAN
  PROVE  FindingsOf(s, crit, evaluated, paths, neighbours, residual) \in Findings
<1>1. Affected(s, crit) \subseteq Asset
  BY DEF Affected, Strategy, Action
<1> QED
  BY <1>1 DEF FindingsOf, Findings

\* A highest level is one of the levels.
LEMMA HighestIsLevel ==
  ASSUME NEW levels \in SUBSET Level, levels # {}
  PROVE  Highest(levels) \in Level
<1>1. \E l \in levels : \A m \in levels : Rank[m] <= Rank[l]
  <2> USE DEF Rank, Level
  <2>1. CASE "CRITICAL" \in levels
    BY <2>1
  <2>2. CASE "CRITICAL" \notin levels /\ "HIGH" \in levels
    BY <2>2
  <2>3. CASE "CRITICAL" \notin levels /\ "HIGH" \notin levels /\ "MEDIUM" \in levels
    BY <2>3
  <2>4. CASE levels = {"LOW"}
    BY <2>4
  <2> QED
    BY <2>1, <2>2, <2>3, <2>4
<1> QED
  BY <1>1 DEF Highest

LEMMA RiskIsLevel ==
  ASSUME NEW c, c.event \in Event
  PROVE  RiskLevel(c) \in Level
<1> DEFINE When(condition, level) == IF condition THEN {level} ELSE {}
           levels == {c.event.severity}
                       \cup When(c.blast = "HIGH", "HIGH")
                       \cup When(c.blast = "MEDIUM", "MEDIUM")
                       \cup When(c.findings.residual, IF SandboxPaths(c) THEN "MEDIUM" ELSE "HIGH")
                       \cup When(BusinessRisks(c.findings) >= 2, "HIGH")
                       \cup When(BusinessRisks(c.findings) = 1, "MEDIUM")
                       \cup When(c.event.score >= 90, "HIGH")
                       \cup When(Cardinality(c.unresolved) >= 3, "MEDIUM")
<1>1. levels \in SUBSET Level /\ levels # {}
  BY DEF Event, Level
<1>2. RiskLevel(c) = Highest(levels)
  BY DEF RiskLevel
<1> HIDE DEF levels
<1> QED
  BY <1>1, <1>2, HighestIsLevel

LEMMA FailedAreChecks == \A c : FailedChecks(c) \subseteq SafetyCheck
BY DEF FailedChecks, SafetyCheck

LEMMA DecisionIsDecision ==
  ASSUME NEW c, c.event \in Event, c.policy \in PolicyValidation
  PROVE  Decide(c) \in Decision
<1> DEFINE d == Decide(c)
<1>1. d.reason \in Reason
  BY DEF Decide, LadderReason, Reason
<1>2. \A confident : \A reason \in Reason : NextOn(reason, confident) \in NextAction
  BY DEF Reason, NextOn, NextAction
<1>3. d.next = NextOn(d.reason, Confident(c))
  BY DEF Decide
<1>4. d.next \in NextAction
  BY <1>1, <1>2, <1>3
<1>5. \A next \in NextAction : StatusOn(next, c.policy) \in StrategyStatus
  BY DEF NextAction, StatusOn, StrategyStatus
<1>6. d.status \in {"approved_for_execution", "requires_approval", StatusOn(d.next, c.policy)}
  BY DEF Decide
<1>7. d.status \in StrategyStatus
  BY <1>4, <1>5, <1>6 DEF StrategyStatus
<1>8. d.risk \in Level /\ d.failed \subseteq SafetyCheck /\ d.policy \in PolicyValidation
  BY RiskIsLevel, FailedAreChecks DEF Decide
<1>9. d.human \in BOOLEAN /\ d.auto \in BOOLEAN
  BY DEF Decide
<1>10. d.reasons \in BOOLEAN
  BY DEF Decide, HasReasons
<1>11. PICK reason, next, state, human, auto, risk, failed, policy, reasons :
         d = [reason |-> reason, next |-> next, status |-> state, human |-> human,
              auto |-> auto, risk |-> risk, failed |-> failed, policy |-> policy,
              reasons |-> reasons]
  BY DEF Decide
<1> HIDE DEF d
<1>12. /\ d.reason = reason /\ d.next = next /\ d.status = state /\ d.human = human
       /\ d.auto = auto /\ d.risk = risk /\ d.failed = failed /\ d.policy = policy
       /\ d.reasons = reasons
  BY <1>11
<1>13. /\ reason \in Reason /\ next \in NextAction /\ state \in StrategyStatus
       /\ human \in BOOLEAN /\ auto \in BOOLEAN /\ risk \in Level
       /\ failed \in SUBSET SafetyCheck /\ policy \in PolicyValidation /\ reasons \in BOOLEAN
  BY <1>1, <1>4, <1>7, <1>8, <1>9, <1>10, <1>12
<1>14. [reason |-> reason, next |-> next, status |-> state, human |-> human,
        auto |-> auto, risk |-> risk, failed |-> failed, policy |-> policy,
        reasons |-> reasons] \in Decision
  BY <1>13 DEF Decision
<1> QED
  BY <1>11, <1>14 DEF d

LEMMA ValidationsAreTyped == PolicyValidations \subseteq PolicyValidation
<1>1. ServerAnswer(revised) \in PolicyValidation
  BY DEF ServerAnswer, Policy!Validate, Policy!Answer, PolicyValidation
<1>2. /\ [called |-> FALSE, answered |-> FALSE, valid |-> TRUE, approval |-> FALSE] \in PolicyValidation
      /\ [called |-> TRUE, answered |-> FALSE, valid |-> TRUE, approval |-> FALSE] \in PolicyValidation
  BY DEF PolicyValidation
<1> QED
  BY <1>1, <1>2, Zenon DEF PolicyValidations

LEMMA TypeInit == DebateInit => TypeOK
<1> SUFFICES ASSUME DebateInit PROVE TypeOK
  OBVIOUS
<1>1. NoFindings \in Findings
  BY DEF NoFindings, Findings
<1> QED
  BY <1>1, CoordinatorAssumption DEF DebateInit, TypeOK, Level, DebateStatus

\* The same challenges are raised in every round, so those unresolved are among them.
ChallengeInv ==
  /\ pc = "planner" => unresolved = {}
  /\ pc # "planner" => unresolved \subseteq Challenges(proposal)
  /\ pc \in {"revision", "coordinator"} => challenges = Challenges(proposal)

LEMMA ChallengeInvStep == ChallengeInv /\ [DebateNext]_debate => ChallengeInv'
BY DEF ChallengeInv, DebateNext, debate, Planner, RedTeamer, Revision, Coordinator, Unresolved

LEMMA ChallengesAreTitles == \A s : Challenges(s) \subseteq Title
BY DEF Challenges, Defaults, Title

LEMMA TypeStep == DebateInv /\ ChallengeInv /\ TypeOK /\ [DebateNext]_debate => TypeOK'
<1> SUFFICES ASSUME DebateInv, ChallengeInv, TypeOK, [DebateNext]_debate
             PROVE  TypeOK'
  OBVIOUS
<1> USE DEF TypeOK
<1>0. round' \in 0 .. MaxRounds /\ event \in Event /\ None \notin Strategy /\ None \notin Decision
  BY DebateInvStep, DebateAssumption DEF DebateInv, RoundInv
<1>1. CASE Planner
  <2> PICK found \in SUBSET Asset : /\ blast' = BlastRadius(criticality, found)
                                    /\ proposal' = Proposal(event, blast', found)
    BY <1>1 DEF Planner, Asset
  <2>1. blast' \in Level
    BY DEF BlastRadius, Level
  <2>2. proposal' \in Strategy /\ proposal' # None
    BY <1>0, ProposalIsStrategy
  <2>3. /\ pc = "planner" /\ pc' = "red_teamer" /\ status' = "IN_PROGRESS"
        /\ UNCHANGED <<event, criticality, listing, findings, challenges, revised,
                       unresolved, decision>>
    BY <1>1 DEF Planner
  <2> QED
    BY <1>0, <2>1, <2>2, <2>3 DEF DebateStatus
<1>2. CASE RedTeamer
  <2>1. /\ pc = "red_teamer" /\ pc' = "revision" /\ status' = "NEEDS_REVISION"
        /\ challenges' = Challenges(proposal)
        /\ UNCHANGED <<event, criticality, listing, blast, proposal, revised,
                       unresolved, round, decision>>
    BY <1>2 DEF RedTeamer
  <2>2. proposal \in Strategy
    BY <2>1
  <2>3. findings' \in Findings
    <3>1. NoFindings \in Findings
      BY DEF NoFindings, Findings
    <3>2. CASE findings' = NoFindings
      BY <3>1, <3>2
    <3>3. CASE findings' # NoFindings
      <4> PICK evaluated \in BOOLEAN, paths \in 0 .. 2, neighbours, residual \in BOOLEAN :
            findings' = FindingsOf(proposal, criticality, evaluated, paths, neighbours, residual)
        BY <1>2, <3>3 DEF RedTeamer
      <4> QED
        BY <2>2, FindingsAreFindings
    <3> QED
      BY <3>2, <3>3
  <2>4. challenges' \subseteq Title
    BY <2>1, ChallengesAreTitles
  <2>5. unresolved \subseteq challenges'
    BY <2>1 DEF ChallengeInv
  <2> QED
    BY <1>0, <2>1, <2>3, <2>4, <2>5 DEF DebateStatus
<1>3. CASE Revision
  <2> DEFINE current == IF revised = None THEN proposal ELSE revised
  <2>1. /\ pc = "revision" /\ pc' = "coordinator" /\ status' = "READY_FOR_DECISION"
        /\ revised' = Revised(current, event, blast, challenges, findings)
        /\ unresolved' = Unresolved(revised', challenges, LowRisk(event, blast))
        /\ UNCHANGED <<event, criticality, listing, blast, proposal, findings,
                       challenges, round, decision>>
    BY <1>3 DEF Revision
  <2>2. current \in Strategy
    BY <2>1
  <2>3. revised' \in Strategy /\ revised' # None
    BY <1>0, <2>1, <2>2, RevisedIsStrategy
  <2>4. unresolved' \subseteq challenges'
    BY <2>1 DEF Unresolved
  <2> QED
    BY <1>0, <2>1, <2>3, <2>4 DEF DebateStatus
<1>4. CASE Coordinator
  <2> PICK policy \in PolicyValidations :
        LET c == CaseWith(policy)
            d == Decide(c)
        IN  /\ decision' = d
            /\ revised' = [revised EXCEPT !.approved = ApprovedBy(c, d)]
            /\ round' = RoundAfter(c)
            /\ status' = IF d.next = "CONTINUE_DEBATE" THEN "IN_PROGRESS" ELSE "CLOSED"
            /\ pc' = IF d.next = "CONTINUE_DEBATE" THEN "red_teamer" ELSE "done"
    BY <1>4 DEF Coordinator
  <2> DEFINE c == CaseWith(policy)
  <2>1. /\ pc = "coordinator"
        /\ UNCHANGED <<event, criticality, listing, blast, proposal, findings,
                       challenges, unresolved>>
    BY <1>4 DEF Coordinator
  <2>2. c.event = event /\ c.policy = policy
    BY DEF CaseWith
  <2>3. decision' \in Decision /\ decision' # None
    BY <1>0, <2>2, DecisionIsDecision, ValidationsAreTyped
  <2>4. ApprovedBy(c, decision') \in BOOLEAN
    BY DEF ApprovedBy
  <2>5. revised' \in Strategy /\ revised' # None
    <3>1. revised \in Strategy
      BY <2>1
    <3>2. revised' = [revised EXCEPT !.approved = ApprovedBy(c, decision')]
      OBVIOUS
    <3> QED
      BY <1>0, <2>4, <3>1, <3>2 DEF Strategy
  <2>6. \/ pc' = "red_teamer" /\ status' = "IN_PROGRESS"
        \/ pc' = "done" /\ status' = "CLOSED"
    OBVIOUS
  <2> QED
    BY <1>0, <2>1, <2>3, <2>5, <2>6 DEF DebateStatus
<1>5. CASE UNCHANGED debate
  BY <1>5 DEF debate
<1> QED
  BY <1>1, <1>2, <1>3, <1>4, <1>5 DEF DebateNext

(***************************************************************************)
(* Whatever events, topologies and answers there are, the agents hand each *)
(* other strategies, findings and decisions, and each in its turn.         *)
(***************************************************************************)
THEOREM DebateTypeCorrect == Spec => []TypeOK
<1>1. DebateInit => ChallengeInv
  BY DEF DebateInit, ChallengeInv
<1>2. Spec => []ChallengeInv
  BY <1>1, ChallengeInvStep, PTL DEF Spec
<1> QED
  BY <1>2, TypeInit, TypeStep, DebateInvariant, PTL DEF Spec

-----------------------------------------------------------------------------
(* What a revision does to the actions *)

\* Answers to challenges only add actions, of two types.
LEMMA ChallengeFixesAdd ==
  ASSUME NEW s, NEW ch, NEW soft, "actions" \in DOMAIN s
  PROVE  /\ DOMAIN ChallengeFixes(s, ch, soft) = DOMAIN s
         /\ \E added : /\ ChallengeFixes(s, ch, soft).actions = s.actions \cup added
                       /\ \A a \in added : a.type \in {"RESTRICT_EGRESS", "ISOLATE_POD"}
<1> DEFINE egress == IF /\ ch \cap AboutDistribution # {}
                        /\ "RESTRICT_EGRESS" \notin Types(s)
                     THEN {Act("RESTRICT_EGRESS", First(s.scope))} ELSE {}
           kind == IF soft THEN "RESTRICT_EGRESS" ELSE "ISOLATE_POD"
           isolation == IF "scope too small" \in ch /\ "ISOLATE_POD" \notin Types(s)
                        THEN {Act(kind, First(s.scope))} ELSE {}
<1>1. \A a \in egress \cup isolation : a.type \in {"RESTRICT_EGRESS", "ISOLATE_POD"}
  <2>1. \A a \in egress : a.type = "RESTRICT_EGRESS"
    BY DEF Act
  <2>2. \A a \in isolation : a.type = kind
    <3>1. \A x : Act(kind, x).type = kind
      BY DEF Act
    <3>2. \A a \in isolation : a = Act(kind, First(s.scope))
      OBVIOUS
    <3> HIDE DEF kind, isolation
    <3> QED
      BY <3>1, <3>2
  <2> QED
    BY <2>1, <2>2
<1>2. ChallengeFixes(s, ch, soft).actions = s.actions \cup (egress \cup isolation)
  BY DEF ChallengeFixes
<1>3. DOMAIN ChallengeFixes(s, ch, soft) = DOMAIN s
  BY DEF ChallengeFixes
<1> QED
  BY <1>1, <1>2, <1>3

\* An action that isolates or blocks stays, or becomes egress of the same target.
LEMMA RevisionContains ==
  ASSUME NEW s \in Strategy, NEW e, NEW b, NEW ch, NEW f, NEW a \in s.actions
  PROVE  LET r == Revised(s, e, b, ch, f)
         IN  /\ a.type \in Isolating =>
                  \/ a \in r.actions /\ ~LowRisk(e, b)
                  \/ Act("RESTRICT_EGRESS", a.target) \in r.actions
             /\ a.type = "RESTRICT_EGRESS" => a \in r.actions
<1> DEFINE bold == [s EXCEPT !.confidence = IF @ + 10 > 95 THEN 95 ELSE @ + 10]
           met == ChallengeFixes(bold, ch, LowRisk(e, b))
           fixed == TopologyFixes(met, e, f)
           egress == Act("RESTRICT_EGRESS", a.target)
<1>1. {"actions", "scope"} \subseteq DOMAIN bold /\ bold.actions = s.actions
  BY DEF Strategy
<1> HIDE DEF bold
<1>2. a \in met.actions
  BY <1>1, ChallengeFixesAdd
<1>3. {"actions", "scope"} \subseteq DOMAIN met
  BY <1>1, ChallengeFixesAdd
<1> HIDE DEF met
<1>4. {"actions", "scope"} \subseteq DOMAIN fixed
  BY <1>3 DEF TopologyFixes
<1>5. Downgraded(met.actions, f) \subseteq fixed.actions
  BY <1>3 DEF TopologyFixes
<1>6. a \in Downgraded(met.actions, f) \/ (a.type \in Isolating /\ egress \in Downgraded(met.actions, f))
  BY <1>2 DEF Downgraded
<1>7. a \in fixed.actions \/ (a.type \in Isolating /\ egress \in fixed.actions)
  BY <1>5, <1>6
<1>8. egress.type = "RESTRICT_EGRESS"
  BY DEF Act
<1> HIDE DEF fixed, egress
<1>9. /\ a.type \in Isolating => egress \in Softened(fixed).actions
      /\ a.type = "RESTRICT_EGRESS" => a \in Softened(fixed).actions
  BY <1>4, <1>7, <1>8 DEF Softened, SoftTypes, Isolating, egress
<1>10. Revised(s, e, b, ch, f) = IF LowRisk(e, b) THEN Softened(fixed) ELSE fixed
  BY DEF Revised, bold, met, fixed
<1>11. "RESTRICT_EGRESS" \notin Isolating
  BY DEF Isolating
<1> QED
  BY <1>7, <1>9, <1>10, <1>11 DEF egress

\* For a low-risk event, only soft actions are left.
LEMMA LowRiskRevisionIsSoft ==
  ASSUME NEW s, NEW e, NEW b, NEW ch, NEW f, "actions" \in DOMAIN s, LowRisk(e, b)
  PROVE  Types(Revised(s, e, b, ch, f)) \subseteq SoftTypes
<1> DEFINE bold == [s EXCEPT !.confidence = IF @ + 10 > 95 THEN 95 ELSE @ + 10]
           met == ChallengeFixes(bold, ch, LowRisk(e, b))
           fixed == TopologyFixes(met, e, f)
<1>1. "actions" \in DOMAIN fixed
  BY DEF TopologyFixes, ChallengeFixes
<1> HIDE DEF fixed
<1>2. \A a \in Softened(fixed).actions : a.type \in SoftTypes
  BY <1>1 DEF Softened, SoftTypes, Act
<1>3. Revised(s, e, b, ch, f) = Softened(fixed)
  BY DEF Revised, fixed
<1> QED
  BY <1>2, <1>3 DEF Types

\* No agent proposes to deny everything, the one containment a revision would drop.
DeniesAll(s) == "DENY_ALL" \in Types(s)

LEMMA NobodyDeniesAll ==
  /\ \A e, b, found : ~DeniesAll(Proposal(e, b, found))
  /\ \A e, b, ch, f : \A s \in Strategy :
       ~DeniesAll(s) => ~DeniesAll(Revised(s, e, b, ch, f))
<1>1. ASSUME NEW e, NEW b, NEW found
      PROVE  ~DeniesAll(Proposal(e, b, found))
  <2>1. \A a \in Proposal(e, b, found).actions : a.type # "DENY_ALL"
    BY DEF Proposal, Signals, Act
  <2> QED
    BY <2>1 DEF DeniesAll, Types
<1>2. ASSUME NEW s \in Strategy, NEW e, NEW b, NEW ch, NEW f, ~DeniesAll(s)
      PROVE  ~DeniesAll(Revised(s, e, b, ch, f))
  <2> DEFINE bold == [s EXCEPT !.confidence = IF @ + 10 > 95 THEN 95 ELSE @ + 10]
             met == ChallengeFixes(bold, ch, LowRisk(e, b))
             fixed == TopologyFixes(met, e, f)
             Clean(r) == "actions" \in DOMAIN r /\ \A a \in r.actions : a.type # "DENY_ALL"
  <2>1. Clean(bold)
    BY <1>2 DEF Strategy, DeniesAll, Types
  <2>2. Clean(met)
    <3> HIDE DEF bold
    <3> QED
      BY <2>1, ChallengeFixesAdd
  <2>3. Clean(fixed)
    <3> HIDE DEF met
    <3> QED
      BY <2>2 DEF TopologyFixes, Downgraded, Act
  <2>4. Clean(Softened(fixed))
    <3> HIDE DEF fixed
    <3> QED
      BY <2>3 DEF Softened, SoftTypes, Act
  <2> QED
    BY <2>3, <2>4 DEF Revised, DeniesAll, Types
<1> QED
  BY <1>1, <1>2

LEMMA RevisionKeepsContainment ==
  ASSUME NEW s \in Strategy, NEW e, NEW b, NEW ch, NEW f, ~DeniesAll(s)
  PROVE  Contained(s) \subseteq Contained(Revised(s, e, b, ch, f))
<1> DEFINE r == Revised(s, e, b, ch, f)
<1>1. SUFFICES ASSUME NEW a \in s.actions, a.type \in BlockLike
               PROVE  a.target \in Contained(r)
  BY DEF Contained
<1>2. a.type \in Isolating \/ a.type = "RESTRICT_EGRESS"
  BY <1>1 DEF BlockLike, Isolating, DeniesAll, Types
<1>3. a \in r.actions \/ Act("RESTRICT_EGRESS", a.target) \in r.actions
  BY <1>2, RevisionContains
<1> HIDE DEF r
<1>4. CASE a \in r.actions
  BY <1>1, <1>4 DEF Contained
<1>5. CASE Act("RESTRICT_EGRESS", a.target) \in r.actions
  BY <1>5 DEF Contained, Act, BlockLike
<1> QED
  BY <1>3, <1>4, <1>5

DenyInv ==
  /\ pc # "planner" => ~DeniesAll(proposal)
  /\ revised # None => ~DeniesAll(revised)

LEMMA DenyInvStep == DebateInv /\ TypeOK /\ DenyInv /\ [DebateNext]_debate => DenyInv'
<1> SUFFICES ASSUME DebateInv, TypeOK, DenyInv, [DebateNext]_debate
             PROVE  DenyInv'
  OBVIOUS
<1> USE DEF DenyInv
<1>1. CASE Planner
  <2>1. revised = None /\ revised' = revised
    BY <1>1 DEF Planner, DebateInv, ApprovalInv
  <2>2. ~DeniesAll(proposal')
    BY <1>1, NobodyDeniesAll DEF Planner
  <2> QED
    BY <2>1, <2>2 DEF DeniesAll, Types
<1>2. CASE RedTeamer
  BY <1>2 DEF RedTeamer, DeniesAll, Types
<1>3. CASE Revision
  <2> DEFINE current == IF revised = None THEN proposal ELSE revised
  <2>1. /\ pc = "revision" /\ proposal' = proposal
        /\ revised' = Revised(current, event, blast, challenges, findings)
    BY <1>3 DEF Revision
  <2>2. current \in Strategy /\ ~DeniesAll(current)
    BY <2>1 DEF TypeOK
  <2>3. ~DeniesAll(revised')
    BY <2>1, <2>2, NobodyDeniesAll
  <2> QED
    BY <2>1, <2>3 DEF DeniesAll, Types
<1>4. CASE Coordinator
  <2>1. /\ pc = "coordinator" /\ proposal' = proposal /\ revised \in Strategy
        /\ revised # None /\ revised'.actions = revised.actions
    BY <1>4 DEF Coordinator, TypeOK, Strategy
  <2> QED
    BY <2>1 DEF DeniesAll, Types
<1>5. CASE UNCHANGED debate
  BY <1>5 DEF debate, DeniesAll, Types
<1> QED
  BY <1>1, <1>2, <1>3, <1>4, <1>5 DEF DebateNext

(***************************************************************************)
(* In whatever round, with whatever findings: a revision may change how a  *)
(* target is contained, but the target stays contained. The Coordinator    *)
(* and the other agents leave the actions alone.                           *)
(***************************************************************************)
THEOREM ContainmentStays == Spec => ContainmentIsKept
<1> DEFINE Current == IF revised = None THEN proposal ELSE revised
           Kept == proposal # None /\ revised' # None =>
                     Contained(Current) \subseteq Contained(revised')
<1>1. DebateInit => DenyInv
  BY DEF DebateInit, DenyInv
<1>2. Spec => []DenyInv
  BY <1>1, DenyInvStep, DebateInvariant, DebateTypeCorrect, PTL DEF Spec
<1>3. DebateInv /\ TypeOK /\ DenyInv /\ [DebateNext]_debate => [Kept]_debate
  <2> SUFFICES ASSUME DebateInv, TypeOK, DenyInv, DebateNext
               PROVE  Kept
    OBVIOUS
  <2>1. CASE Planner \/ RedTeamer
    <3>1. revised' = revised
      BY <2>1 DEF Planner, RedTeamer
    <3> QED
      BY <3>1 DEF Contained
  <2>2. CASE Revision
    <3>1. /\ pc = "revision"
          /\ revised' = Revised(Current, event, blast, challenges, findings)
      BY <2>2 DEF Revision
    <3>2. Current \in Strategy /\ ~DeniesAll(Current)
      BY <3>1 DEF TypeOK, DenyInv
    <3> HIDE DEF Current
    <3> QED
      BY <3>1, <3>2, RevisionKeepsContainment
  <2>3. CASE Coordinator
    <3>1. revised \in Strategy /\ revised # None /\ revised'.actions = revised.actions
      BY <2>3 DEF Coordinator, TypeOK, Strategy
    <3> QED
      BY <3>1 DEF Contained
  <2> QED
    BY <2>1, <2>2, <2>3 DEF DebateNext
<1> QED
  BY <1>2, <1>3, DebateInvariant, DebateTypeCorrect, PTL DEF Spec, ContainmentIsKept

LEMMA SoftenedStep ==
  DebateInv /\ TypeOK /\ LowRiskIsSoftened /\ [DebateNext]_debate => LowRiskIsSoftened'
<1> SUFFICES ASSUME DebateInv, TypeOK, LowRiskIsSoftened, [DebateNext]_debate
             PROVE  LowRiskIsSoftened'
  OBVIOUS
<1> USE DEF LowRiskIsSoftened
<1>1. CASE Planner
  BY <1>1 DEF Planner, DebateInv, ApprovalInv
<1>2. CASE RedTeamer
  BY <1>2 DEF RedTeamer, Types, LowRisk
<1>3. CASE Revision
  <2> DEFINE current == IF revised = None THEN proposal ELSE revised
  <2>1. /\ pc = "revision" /\ UNCHANGED <<proposal, event, blast>>
        /\ revised' = Revised(current, event, blast, challenges, findings)
    BY <1>3 DEF Revision
  <2>2. current \in Strategy
    BY <2>1 DEF TypeOK
  <2>3. SUFFICES ASSUME LowRisk(event, blast)
                 PROVE  /\ Types(revised') \subseteq SoftTypes
                        /\ \A a \in proposal.actions :
                             a.type \in Isolating =>
                               Act("RESTRICT_EGRESS", a.target) \in revised'.actions
    BY <2>1 DEF LowRisk, Types
  <2>4. "actions" \in DOMAIN current
    <3> HIDE DEF current
    <3> QED
      BY <2>2 DEF Strategy
  <2>5. Types(revised') \subseteq SoftTypes
    <3> HIDE DEF current
    <3> QED
      BY <2>1, <2>3, <2>4, LowRiskRevisionIsSoft
  <2>6. ASSUME NEW a \in proposal.actions, a.type \in Isolating
        PROVE  Act("RESTRICT_EGRESS", a.target) \in revised'.actions
    <3>1. CASE revised = None
      <4>1. current = proposal
        BY <3>1
      <4> HIDE DEF current
      <4> QED
        BY <2>1, <2>2, <2>3, <2>6, <4>1, RevisionContains
    <3>2. CASE revised # None
      <4>1. Act("RESTRICT_EGRESS", a.target) \in current.actions
        BY <2>3, <2>6, <3>2
      <4>2. Act("RESTRICT_EGRESS", a.target).type = "RESTRICT_EGRESS"
        BY DEF Act
      <4> HIDE DEF current
      <4> QED
        BY <2>1, <2>2, <4>1, <4>2, RevisionContains
    <3> QED
      BY <3>1, <3>2
  <2> QED
    BY <2>5, <2>6
<1>4. CASE Coordinator
  <2>1. /\ revised \in Strategy /\ revised # None /\ revised'.actions = revised.actions
        /\ UNCHANGED <<proposal, event, blast>>
    BY <1>4 DEF Coordinator, TypeOK, Strategy
  <2> QED
    BY <2>1 DEF Types, LowRisk
<1>5. CASE UNCHANGED debate
  BY <1>5 DEF debate, Types, LowRisk
<1> QED
  BY <1>1, <1>2, <1>3, <1>4, <1>5 DEF DebateNext

(***************************************************************************)
(* For a low-risk event only soft actions are left after every revision,   *)
(* and every target the Planner isolated or blocked has its egress         *)
(* restricted instead.                                                     *)
(***************************************************************************)
THEOREM LowRiskStaysSoft == Spec => []LowRiskIsSoftened
<1>1. DebateInit => LowRiskIsSoftened
  BY DEF DebateInit, LowRiskIsSoftened
<1> QED
  BY <1>1, SoftenedStep, DebateInvariant, DebateTypeCorrect, PTL DEF Spec

-----------------------------------------------------------------------------
(* Termination *)

\* How many nodes of the graph are still to run, at most.
StepsLeft ==
  CASE pc = "planner"     -> 3 * MaxRounds + 1
    [] pc = "red_teamer"  -> 3 * (MaxRounds - round) + 3
    [] pc = "revision"    -> 3 * (MaxRounds - round) + 2
    [] pc = "coordinator" -> 3 * (MaxRounds - round) + 1
    [] pc = "done"        -> 0

\* Going on is counted.
LEMMA GoingOnIsARound ==
  ASSUME NEW c, Decide(c).next = "CONTINUE_DEBATE"
  PROVE  RoundAfter(c) = c.round + 1
<1>1. NextOn(LadderReason(c), Confident(c)) = "CONTINUE_DEBATE" => LadderReason(c) = "need_more_coverage"
  BY DEF NextOn, LadderReason
<1>2. NextOn(LadderReason(c), Confident(c)) = "CONTINUE_DEBATE"
  BY DEF Decide, NextOn
<1> QED
  BY <1>1, <1>2 DEF RoundAfter

LEMMA StepsLeftFall ==
  DebateInv /\ DebateInv' /\ DebateNext => StepsLeft \in Nat /\ StepsLeft' \in 0 .. StepsLeft - 1
<1> SUFFICES ASSUME DebateInv, DebateInv', DebateNext
             PROVE  StepsLeft \in Nat /\ StepsLeft' \in 0 .. StepsLeft - 1
  OBVIOUS
<1>1. /\ MaxRounds \in Nat /\ MaxRounds >= 1
      /\ round \in 0 .. MaxRounds /\ round' \in 0 .. MaxRounds
      /\ pc = "planner" => round = 0
  BY CoordinatorAssumption DEF DebateInv, RoundInv
<1>2. CASE Planner
  <2>1. pc = "planner" /\ pc' = "red_teamer" /\ round' = 1
    BY <1>1, <1>2 DEF Planner
  <2> QED
    BY <1>1, <2>1 DEF StepsLeft
<1>3. CASE RedTeamer
  <2>1. pc = "red_teamer" /\ pc' = "revision" /\ round' = round
    BY <1>3 DEF RedTeamer
  <2> QED
    BY <1>1, <2>1 DEF StepsLeft
<1>4. CASE Revision
  <2>1. pc = "revision" /\ pc' = "coordinator" /\ round' = round
    BY <1>4 DEF Revision
  <2> QED
    BY <1>1, <2>1 DEF StepsLeft
<1>5. CASE Coordinator
  <2>1. PICK policy \in PolicyValidations :
          /\ round' = RoundAfter(CaseWith(policy))
          /\ pc' = IF Decide(CaseWith(policy)).next = "CONTINUE_DEBATE" THEN "red_teamer" ELSE "done"
    BY <1>5 DEF Coordinator
  <2>2. pc = "coordinator" /\ CaseWith(policy).round = round
    BY <1>5 DEF Coordinator, CaseWith
  <2>3. CASE pc' = "red_teamer"
    <3>1. round' = round + 1
      BY <2>1, <2>2, <2>3, GoingOnIsARound
    <3> QED
      BY <1>1, <2>2, <2>3, <3>1 DEF StepsLeft
  <2>4. CASE pc' = "done"
    BY <1>1, <2>2, <2>4 DEF StepsLeft
  <2> QED
    BY <2>1, <2>3, <2>4
<1> QED
  BY <1>2, <1>3, <1>4, <1>5 DEF DebateNext

Nearer ==
  /\ StepsLeft \in 0 .. 3 * MaxRounds + 1
  /\ StepsLeft' \in 0 .. StepsLeft - 1

(***************************************************************************)
(* For any events, topologies, thresholds and answers: each node that runs *)
(* brings the debate nearer to its end, which is at most three nodes for   *)
(* each round and the Planner away.                                        *)
(***************************************************************************)
THEOREM DebateRunsOut == Spec => [][Nearer]_debate
<1>1. DebateInv /\ DebateInv' /\ [DebateNext]_debate => [Nearer]_debate
  <2> SUFFICES ASSUME DebateInv, DebateInv', DebateNext
               PROVE  Nearer
    OBVIOUS
  <2>1. StepsLeft \in Nat /\ StepsLeft' \in 0 .. StepsLeft - 1
    BY StepsLeftFall
  <2>2. StepsLeft <= 3 * MaxRounds + 1
    BY CoordinatorAssumption DEF StepsLeft, DebateInv, RoundInv, ApprovalInv
  <2> QED
    BY <2>1, <2>2 DEF Nearer
<1> QED
  BY <1>1, DebateInvariant, PTL DEF Spec

=============================================================================
