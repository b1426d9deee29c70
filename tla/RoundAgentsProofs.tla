--------------------------- MODULE RoundAgentsProofs ---------------------------
(***************************************************************************)
(* What RoundAgents keeps, for every set of UEs, flows and slices and      *)
(* every answer of the models.  Three things carry the argument: a         *)
(* decision, fresh or reused, is as far as it is resolved about the        *)
(* request and backed by the entitlement some UE of it has now             *)
(* (GroundedInv); an optimizer result places flows as the decision lets it *)
(* (PreviewOk); and a plan made of the two has the properties of a plan    *)
(* for as long as it is in force (PlanSound).                              *)
(***************************************************************************)
EXTENDS RoundAgents, ListsProofs

(* Some UE of the request may use these slices now.                         *)
Entitling(slices) == \E ue \in request.supis : slices \subseteq Authorized(ue)

(* Evidence of a grounding stage is about UEs of the request.               *)
EvidenceOk(ev) ==
    /\ ev \in EvidenceType
    /\ ev.catalog \subseteq request.supis
    /\ ev.am \in request.supis \cup {NoUe}
    /\ Entitling(ev.entitled)

(* A UE of the request, or of a flow that was handed on unresolved.         *)
Reached(d, ue) ==
    \/ ue \in request.supis
    \/ \E f \in d.flows \ d.resolved : Owner[f] = ue

(* So is a decision as far as it is resolved, and the slices it authorizes  *)
(* are backed.                                                              *)
DecisionOk(d) ==
    /\ d \in DecisionType
    /\ \A f \in d.resolved : Owner[f] \in request.supis
    /\ \A ue \in d.ues : Reached(d, ue)
    /\ d.am \in request.supis \cup {NoUe}
    /\ Entitling(d.authorized)

GroundedInv == EvidenceOk(evidence) /\ DecisionOk(decision) /\ DecisionOk(previous)

(* State that lives no longer than its stage, round or run.                 *)
Quiet ==
    /\ phase # "ground" => evidence = NoEvidence
    /\ phase # "plan" \/ ~ Plannable => preview = NoPreview
    /\ ~ Planned => plan = NoPlan
    /\ phase = "done" => decision = NoDecision /\ previous = NoPrevious /\ missed = {}

(* A feasible result of the optimizer respects the decision.                *)
PreviewOk(seen) == seen \in PreviewType /\ (seen.feasible => seen.place \in Placements)

(* The latency floors of the round are above what was measured.             *)
MissFloors == \A m \in missed : m.flow \in DOMAIN floors /\ floors[m.flow] > m.latency

(* A plan has one policy for a flow.                                        *)
OnePolicy == \A a, b \in plan.sm : a.flow = b.flow => a = b

(* A plan takes flows of its decision, and where they must move, to slices  *)
(* the decision authorizes.                                                 *)
WithinGrant ==
    Planned =>
        \A policy \in plan.sm :
            /\ policy.flow \in decision.flows
            /\ ~ Blocked /\ policy.flow \in Movers => policy.slice \in decision.authorized

PlanSound ==
    /\ WithinGrant
    /\ HandoffGrounded
    /\ MigrationAuthorized
    /\ JointPlanAgrees
    /\ BlockedKeepsServing
    /\ MissAnswered
    /\ AssociationOfItsUe

(* The inductive invariant.                                                 *)
AgentInv ==
    /\ AgentTypeOK
    /\ Quiet
    /\ GroundedInv
    /\ PreviewOk(preview)
    /\ MissFloors
    /\ OnePolicy
    /\ PlanSound

(* A request, as Main may have decided it.                                  *)
RequestTyped == request \in RequestType /\ request.domains # {} /\ request.supis # {}

(* What Main may have decided of a request names a UE and a domain.         *)
LEMMA RequestOk == AgentTypeOK => RequestTyped
BY GroundingAssumption DEF AgentTypeOK, RequestTyped

(* Any UE may use no slices at all.                                         *)
LEMMA NoneEntitled == AgentTypeOK => Entitling({})
BY RequestOk DEF Entitling, RequestTyped

(* Having read nothing is evidence about the request.                       *)
LEMMA NoEvidenceOk == AgentTypeOK => EvidenceOk(NoEvidence)
BY NoneEntitled DEF EvidenceOk, NoEvidence, EvidenceType

(* So is having decided nothing, or having nothing to reuse.                *)
LEMMA NoDecisionOk == AgentTypeOK => DecisionOk(NoDecision) /\ DecisionOk(NoPrevious)
BY NoneEntitled DEF DecisionOk, NoDecision, NoPrevious, DecisionType, MigrationKinds

(* The entitlement tool answers with slices.                                *)
LEMMA AuthorizedTyped ==
    ASSUME AgentTypeOK, NEW ue \in Ues PROVE Authorized(ue) \subseteq Slices
BY GroundingAssumption DEF Authorized, AgentTypeOK

(* Evidence of the request stays so, whichever UEs the advisor asks the     *)
(* tools about.                                                             *)
LEMMA ReadingsOk ==
    ASSUME AgentTypeOK, EvidenceOk(evidence), NEW ev \in Readings
    PROVE  EvidenceOk(ev)
<1>1. RequestTyped
  BY RequestOk
<1>2. PICK calls \in Invocations : ev \in Gathered(calls)
  BY DEF Readings
<1>3. PICK am \in LastRead(calls, "amContext", evidence.am),
           ue \in LastRead(calls, "subscription", NoUe) :
        ev = [catalog   |-> evidence.catalog \cup Read(calls, "catalog"),
              searched  |-> evidence.searched \/ \E c \in calls : c.tool = "search",
              am        |-> am,
              amTargets |-> evidence.amTargets \/ \E c \in calls : c.tool = "amSearch",
              read      |-> evidence.read \/ Read(calls, "subscription") # {},
              entitled  |-> IF ue = NoUe THEN evidence.entitled ELSE Authorized(ue)]
  BY <1>2, SMT DEF Gathered
<1>4. /\ Read(calls, "catalog") \subseteq request.supis
      /\ am \in request.supis \cup {NoUe}
      /\ ue \in request.supis \cup {NoUe}
  BY DEF Read, LastRead, EvidenceOk
<1>5. request.supis \subseteq Ues
  BY <1>1 DEF RequestTyped, RequestType
<1>6. /\ ev.catalog \subseteq request.supis
      /\ ev.am \in request.supis \cup {NoUe}
  BY <1>3, <1>4 DEF EvidenceOk
<1>7. Entitling(ev.entitled) /\ ev.entitled \subseteq Slices
  <2>1. CASE ue = NoUe
    BY <1>3, <2>1 DEF EvidenceOk, EvidenceType
  <2>2. CASE ue # NoUe
    <3>1. ue \in request.supis /\ ue \in Ues
      BY <1>4, <1>5, <2>2
    <3>2. ev.entitled = Authorized(ue)
      BY <1>3, <2>2
    <3> QED BY <3>1, <3>2, AuthorizedTyped DEF Entitling
  <2> QED BY <2>1, <2>2
<1>8. ev \in EvidenceType
  BY <1>3, <1>4, <1>5, <1>7, GroundingAssumption DEF EvidenceOk, EvidenceType
<1> QED BY <1>6, <1>7, <1>8 DEF EvidenceOk

(* A decision the validator accepts is backed by the evidence it was        *)
(* accepted on.                                                             *)
LEMMA AcceptedFlows ==
    ASSUME AgentTypeOK, NEW ev, EvidenceOk(ev), NEW answer \in GroundingAnswers, Accepts(answer, ev),
           NEW found \in Found(answer, ev)
    PROVE  DecisionOk(DecisionOf(answer, ev, found))
<1> DEFINE d == DecisionOf(answer, ev, found)
<1>1. RequestTyped
  BY RequestOk
<1>2. answer \in AnswerType
  BY GroundingAssumption
<1>3. \A f \in answer.resolved : f \in Flows /\ Owner[f] \in request.supis
  <2>1. CASE "qos" \in request.domains
    BY <2>1 DEF Accepts, FlowsGrounded, CatalogFlows, EvidenceOk
  <2>2. CASE "qos" \notin request.domains
    <3>1. request.domains = {"mobility"}
      BY <1>1, <2>2 DEF RequestTyped, RequestType, Domains
    <3> QED BY <3>1 DEF Accepts, MobilityGrounded
  <2> QED BY <2>1, <2>2
<1>4. answer.carried \cap answer.resolved = {}
  BY GroundingAssumption
<1>5. found \subseteq answer.carried
  BY DEF Found
<1>6. \A ue \in Attributed(answer, ev, found) :
         ue \in Ues /\ \E f \in answer.resolved \cup answer.carried : Owner[f] = ue
  BY <1>2, <1>5, GroundingAssumption DEF Attributed, AnswerType
<1>7. /\ d.flows = answer.resolved \cup answer.carried /\ d.resolved = answer.resolved
      /\ d.ues = Attributed(answer, ev, found)
      /\ d.am = ev.am /\ d.authorized = ev.entitled
  BY DEF DecisionOf
<1>8. d \in DecisionType
  BY <1>2, <1>6 DEF DecisionOf, DecisionType, AnswerType, EvidenceOk, EvidenceType
<1> HIDE DEF d
<1>9. \A ue \in d.ues : Reached(d, ue)
  BY <1>3, <1>4, <1>6, <1>7 DEF Reached
<1>10. DecisionOk(d)
  BY <1>3, <1>7, <1>8, <1>9 DEF DecisionOk, EvidenceOk
<1> QED BY <1>10 DEF d

(* Without a plan there is nothing to hold a plan to.                       *)
LEMMA SoundUnplanned ==
    ASSUME AgentTypeOK, Quiet, DecisionOk(decision), ~ Planned
    PROVE  PlanSound /\ OnePolicy
<1>1. plan = NoPlan
  BY DEF Quiet
<1>2. plan.sm = {} /\ plan.ue = NoUe
  BY <1>1 DEF NoPlan
<1> QED BY <1>1, <1>2 DEF PlanSound, HandoffGrounded, MigrationAuthorized, JointPlanAgrees, BlockedKeepsServing,
                          WithinGrant,
        MissAnswered, AssociationOfItsUe, DecisionOk, OnePolicy

(* What backed a decision backs it as long as neither the UEs of the        *)
(* request nor the AM policies of the UE store change.                      *)
LEMMA SameBacking ==
    ASSUME request'.supis = request.supis, amAllowed' = amAllowed
    PROVE  /\ EvidenceOk(evidence') => EvidenceOk(evidence)'
           /\ DecisionOk(decision') => DecisionOk(decision)'
           /\ DecisionOk(previous') => DecisionOk(previous)'
BY DEF EvidenceOk, DecisionOk, Reached, Entitling, Authorized

(* How a failed attempt leaves its stage.                                   *)
LEMMA StageGoesOn ==
    ASSUME AgentTypeOK, phase \in Advisors, NEW failed, FailAttempt(failed)
    PROVE  /\ phase' \in {phase, "failed"}
           /\ attempt' \in 0 .. MaxAttempts
           /\ attempt' > 0 <=> phase' \in Advisors
           /\ ~ MayRetry(failed) => phase' = "failed"
           /\ MayRetry(failed) => phase' = phase /\ attempt' = attempt + 1
BY StageAssumption DEF FailAttempt, MayRetry, AgentTypeOK, Advisors

(* A failed attempt of the grounding stage keeps the invariant.             *)
LEMMA GroundingFails ==
    ASSUME AgentInv, phase = "ground", NEW failed, NEW readings,
           \A ev \in readings : EvidenceOk(ev), evidence' \in After(failed, readings),
           FailAttempt(failed), UNCHANGED <<request, decision, amAllowed, planningVars, roundVars>>
    PROVE  AgentInv'
<1> USE DEF AgentInv
<1>1. /\ phase' \in {"ground", "failed"}
      /\ attempt' \in 0 .. MaxAttempts
      /\ attempt' > 0 <=> phase' \in Advisors
      /\ ~ MayRetry(failed) => phase' = "failed"
      /\ MayRetry(failed) => phase' = "ground"
  BY StageGoesOn DEF Advisors
<1>2. EvidenceOk(evidence') /\ (phase' # "ground" => evidence' = NoEvidence)
  BY <1>1, NoEvidenceOk DEF After
<1>3. /\ UNCHANGED <<request, decision, amAllowed>>
      /\ UNCHANGED <<preview, plan, floors, stable>>
      /\ UNCHANGED <<round, previous, missed>>
  BY DEF planningVars, roundVars
<1>4. ~ Planned /\ ~ Planned'
  BY <1>1 DEF Planned
<1>5. GroundedInv'
  BY <1>2, <1>3, SameBacking DEF GroundedInv
<1>6. AgentTypeOK'
  BY <1>1, <1>2, <1>3 DEF AgentTypeOK, EvidenceOk, Phases
<1>7. Quiet'
  BY <1>1, <1>2, <1>3, <1>4 DEF Quiet
<1>8. PlanSound' /\ OnePolicy'
  BY <1>3, <1>4, <1>5, <1>6, <1>7, SoundUnplanned, PTL DEF GroundedInv
<1>9. PreviewOk(preview)'
  BY <1>3 DEF PreviewOk, Placements, Blocked, Leaving
<1>10. MissFloors'
  BY <1>3 DEF MissFloors
<1> QED BY <1>5, <1>6, <1>7, <1>8, <1>9, <1>10

(* Every end of an attempt of the grounding stage keeps it.                 *)
LEMMA GroundStep ==
    ASSUME AgentInv, Ground, UNCHANGED <<planningVars, roundVars>>
    PROVE  AgentInv'
<1> USE DEF AgentInv
<1>1. /\ \A ev \in Readings : EvidenceOk(ev)
      /\ EvidenceOk(evidence)
  BY ReadingsOk DEF GroundedInv
<1>2. CASE GroundingInvocationFails
  BY <1>1, <1>2, GroundingFails DEF GroundingInvocationFails
<1>3. CASE GroundingRunsOut
  BY <1>1, <1>3, GroundingFails DEF GroundingRunsOut
<1>4. CASE GroundingUnparsed
  BY <1>1, <1>4, GroundingFails DEF GroundingUnparsed
<1>5. CASE GroundingUnbuildable
  BY <1>1, <1>5, GroundingFails DEF GroundingUnbuildable
<1>6. CASE GroundingInvalid
  <2> DEFINE refused == {ev \in Readings : \E answer \in GroundingAnswers : ~ Accepts(answer, ev)}
  <2>1. \A ev \in refused : EvidenceOk(ev)
    BY <1>1
  <2>2. /\ phase = "ground"
        /\ evidence' \in After("validation", refused)
        /\ FailAttempt("validation")
        /\ UNCHANGED <<request, decision, amAllowed>>
    BY <1>6 DEF GroundingInvalid
  <2> HIDE DEF refused
  <2> QED BY <2>1, <2>2, GroundingFails
<1>7. CASE GroundingAccepted
  <2>1. /\ phase = "ground" /\ evidence' = NoEvidence
        /\ UNCHANGED <<request, amAllowed>>
        /\ UNCHANGED <<preview, plan, floors, stable>>
        /\ UNCHANGED <<round, previous, missed>>
    BY <1>7 DEF GroundingAccepted, planningVars, roundVars
  <2>2. DecisionOk(decision')
    <3>1. PICK ev \in Readings : decision' \in Decisions(ev)
      BY <1>7 DEF GroundingAccepted
    <3>2. PICK answer \in GroundingAnswers :
             /\ Accepts(answer, ev)
             /\ decision' \in {DecisionOf(answer, ev, found) : found \in Found(answer, ev)}
      BY <3>1 DEF Decisions
    <3>3. PICK found \in Found(answer, ev) : decision' = DecisionOf(answer, ev, found)
      BY <3>2
    <3> QED BY <1>1, <3>1, <3>2, <3>3, AcceptedFlows
  <2>3. /\ phase' \in {"failed", "plan"}
        /\ attempt' \in 0 .. MaxAttempts
        /\ attempt' > 0 <=> phase' \in Advisors
    BY <1>7, StageAssumption DEF GroundingAccepted, EndStage, BeginStage, Advisors
  <2>4. GroundedInv'
    BY <2>1, <2>2, SameBacking, NoEvidenceOk DEF GroundedInv
  <2>5. ~ Planned /\ ~ Planned' /\ plan = NoPlan /\ preview = NoPreview
    BY <2>1, <2>3 DEF Planned, Quiet
  <2>6. AgentTypeOK'
    <3>1. evidence' \in EvidenceType /\ decision' \in DecisionType
      BY <2>1, <2>2, NoEvidenceOk DEF EvidenceOk, DecisionOk
    <3> QED BY <2>1, <2>3, <3>1 DEF AgentTypeOK, Phases, Advisors
  <2>7. Quiet'
    BY <2>1, <2>3, <2>5 DEF Quiet
  <2>8. PlanSound' /\ OnePolicy'
    BY <2>4, <2>5, <2>6, <2>7, SoundUnplanned, PTL DEF GroundedInv
  <2>9. PreviewOk(preview)'
    BY <2>1, <2>5 DEF PreviewOk, NoPreview
  <2>10. MissFloors'
    BY <2>1 DEF MissFloors
  <2> QED BY <2>4, <2>6, <2>7, <2>8, <2>9, <2>10
<1> QED BY <1>2, <1>3, <1>4, <1>5, <1>6, <1>7 DEF Ground

(* No preview places no flow.                                               *)
LEMMA EmptyPlacement == << >> \in UNION {[F -> Slices] : F \in SUBSET Flows}
<1>1. << >> \in [{} -> Slices]
  OBVIOUS
<1> QED BY <1>1

(* A placement of the optimizer is one of the decision's flows.             *)
LEMMA PlacementsTyped ==
    ASSUME decision \in DecisionType, NEW place \in Placements
    PROVE  /\ place \in [decision.flows -> Slices]
           /\ place \in UNION {[F -> Slices] : F \in SUBSET Flows}
<1>1. place \in [decision.flows -> Slices]
  BY DEF Placements
<1>2. decision.flows \in SUBSET Flows
  BY DEF DecisionType
<1> QED BY <1>1, <1>2

(* An optimizer that has not run, or found nothing, has placed nothing.     *)
LEMMA NoPreviewOk == PreviewOk(NoPreview) /\ PreviewOk(Infeasible)
BY EmptyPlacement DEF PreviewOk, NoPreview, Infeasible, PreviewType

(* Whatever an invocation of the strategy advisor does, the cached preview  *)
(* is one the optimizer may give.                                           *)
LEMMA TurnsOk ==
    ASSUME decision \in DecisionType, PreviewOk(preview), NEW turn \in StrategyTurns
    PROVE  PreviewOk(turn.seen) /\ turn.context \in Ues \cup {NoUe}
<1>1. \A seen \in Previews : PreviewOk(seen)
  <2> SUFFICES ASSUME NEW seen \in Previews PROVE PreviewOk(seen)
    OBVIOUS
  <2>1. CASE seen = preview
    BY <2>1
  <2>2. CASE seen = Infeasible
    BY <2>2, NoPreviewOk
  <2>3. CASE \E place \in Placements : seen = [ran |-> TRUE, feasible |-> TRUE, place |-> place]
    <3>1. PICK place \in Placements : seen = [ran |-> TRUE, feasible |-> TRUE, place |-> place]
      BY <2>3
    <3> QED BY <3>1, PlacementsTyped DEF PreviewOk, PreviewType
  <2> QED BY <2>1, <2>2, <2>3 DEF Previews
<1>2. CASE turn = [called |-> FALSE, seen |-> preview, context |-> NoUe]
  BY <1>2
<1>3. CASE turn \in [called : {TRUE}, seen : Previews, context : {NoUe}]
  BY <1>1, <1>3
<1>4. CASE turn \in [called : {FALSE}, seen : {preview}, context : Ues]
  <2>1. turn.seen \in {preview} /\ turn.context \in Ues
    BY <1>4
  <2> QED BY <2>1
<1>5. CASE turn \in [called : {TRUE}, seen : Previews, context : Ues]
  BY <1>1, <1>5
<1>6. \/ turn = [called |-> FALSE, seen |-> preview, context |-> NoUe]
      \/ turn \in [called : {TRUE}, seen : Previews, context : {NoUe}]
      \/ turn \in [called : {FALSE}, seen : {preview}, context : Ues]
      \/ turn \in [called : {TRUE}, seen : Previews, context : Ues]
  BY Zenon DEF StrategyTurns
<1> QED BY <1>2, <1>3, <1>4, <1>5, <1>6

(* Bounding a proposal leaves no AM or URSP policy under a blocked          *)
(* migration.                                                               *)
LEMMA BoundedOk ==
    ASSUME NEW q \in PlanningAnswers
    PROVE  /\ Bounded(q) \in ProposalType
           /\ Blocked => Bounded(q).allowed = {} /\ ~ Bounded(q).ursp
<1>1. q \in ProposalType
  BY PlanningAssumption
<1>2. CASE ~ Blocked
  BY <1>1, <1>2 DEF Bounded
<1>3. CASE Blocked
  BY <1>1, <1>3 DEF Bounded, ProposalType, PlanningStatus
<1> QED BY <1>2, <1>3

(* A validated proposal for a flow rests on a feasible preview that places  *)
(* it.                                                                      *)
LEMMA FlowsPlaced ==
    ASSUME decision \in DecisionType, NEW p \in ProposalType, NEW turn,
           PreviewOk(turn.seen), ProposalOk(p, turn), p.sm # {}
    PROVE  /\ p.sm \subseteq decision.flows
           /\ turn.seen.feasible
           /\ turn.seen.place \in Placements
           /\ turn.seen.place \in [decision.flows -> Slices]
           /\ ~ Blocked => ~ TargetUnauthorized(turn)
<1>1. PoliciesOf(p)
  BY DEF PoliciesOf
<1>2. /\ ~ (~ Blocked /\ TargetUnauthorized(turn))
      /\ EvidenceSupports(p, turn)
  BY <1>1 DEF ProposalOk
<1>3. p.sm \subseteq decision.flows /\ turn.seen.feasible
  BY <1>2 DEF EvidenceSupports, Placed
<1>4. turn.seen.place \in Placements
  BY <1>3 DEF PreviewOk
<1> QED BY <1>2, <1>3, <1>4, PlacementsTyped

(* A plan for one UE's request is for that UE, one for several may be for   *)
(* the UE of an unresolved flow.                                            *)
ForReached(ue) ==
    \/ ue \in request.supis \cup {NoUe}
    \/ Cardinality(request.supis) # 1 /\ Reached(decision, ue)

(* The UE of a plan is one its decision reaches.                            *)
LEMMA PlanUesOk ==
    ASSUME AgentTypeOK, DecisionOk(decision), NEW ue \in PlanUes
    PROVE  /\ ForReached(ue)
           /\ ue \in Ues \cup {NoUe}
<1>1. request.supis \subseteq Ues /\ decision.ues \subseteq Ues
  BY RequestOk DEF RequestTyped, RequestType, AgentTypeOK, DecisionType
<1>2. CASE Cardinality(request.supis) = 1
  BY <1>1, <1>2 DEF PlanUes, ForReached
<1>3. CASE Cardinality(request.supis) # 1
  BY <1>1, <1>3 DEF PlanUes, ForReached, DecisionOk
<1> QED BY <1>2, <1>3

(* What is known of the one place where a plan with policies is made.       *)
Drafted(p, turn, ue, pl) ==
    /\ p \in ProposalType
    /\ Blocked => p.allowed = {} /\ ~ p.ursp
    /\ PreviewOk(turn.seen) /\ turn.context \in Ues \cup {NoUe}
    /\ ForReached(ue) /\ ue \in Ues \cup {NoUe}
    /\ pl = Compiled(p, turn, ue)
    /\ ProposalOk(p, turn) /\ PlanOk(pl, p, turn)

(* A QoS policy of a draft follows the preview.                             *)
LEMMA DraftedPolicies ==
    ASSUME AgentTypeOK, NEW p, NEW turn, NEW ue, NEW pl, Drafted(p, turn, ue, pl),
           NEW policy \in pl.sm
    PROVE  /\ policy.flow \in p.sm /\ policy.flow \in decision.flows /\ policy.flow \in Flows
           /\ policy.slice = turn.seen.place[policy.flow]
           /\ policy.slice \in Slices
           /\ policy.latency = p.latency /\ policy.latency \in Nat
           /\ policy \in [flow : Flows, slice : Slices, bandwidth : Nat, latency : Nat]
           /\ turn.seen.place \in Placements
           /\ ~ Blocked => ~ TargetUnauthorized(turn)
           /\ turn.seen.feasible /\ policy.flow \in DOMAIN turn.seen.place
<1>1. pl.sm = {[flow |-> f, slice |-> turn.seen.place[f], latency |-> p.latency,
                bandwidth |-> IF turn.called THEN Granted[f] ELSE p.bandwidth] : f \in p.sm}
  BY DEF Drafted, Compiled
<1>2. PICK f \in p.sm :
         policy = [flow |-> f, slice |-> turn.seen.place[f], latency |-> p.latency,
                   bandwidth |-> IF turn.called THEN Granted[f] ELSE p.bandwidth]
  BY <1>1
<1>3. /\ p.sm \subseteq decision.flows
      /\ turn.seen.feasible
      /\ turn.seen.place \in Placements
      /\ turn.seen.place \in [decision.flows -> Slices]
      /\ ~ Blocked => ~ TargetUnauthorized(turn)
  BY <1>2, FlowsPlaced DEF AgentTypeOK, Drafted
<1>4. decision.flows \subseteq Flows
  BY DEF AgentTypeOK, DecisionType
<1>5. /\ f \in Flows /\ f \in decision.flows /\ turn.seen.place[f] \in Slices
      /\ p.latency \in Nat /\ p.bandwidth \in Nat /\ Granted[f] \in Nat
  BY <1>2, <1>3, <1>4, PlanningAssumption DEF Drafted, ProposalType
<1>6. /\ policy.flow = f /\ policy.slice = turn.seen.place[f] /\ policy.latency = p.latency
      /\ policy.bandwidth \in Nat
  BY <1>2, <1>5
<1>7. policy \in [flow : Flows, slice : Slices, bandwidth : Nat, latency : Nat]
  BY <1>2, <1>5
<1> QED BY <1>2, <1>3, <1>5, <1>6, <1>7

(* A draft is a plan.                                                       *)
LEMMA DraftedTyped ==
    ASSUME AgentTypeOK, NEW p, NEW turn, NEW ue, NEW pl, Drafted(p, turn, ue, pl)
    PROVE  pl \in PlanType
<1>1. \A policy \in pl.sm : policy \in [flow : Flows, slice : Slices, bandwidth : Nat, latency : Nat]
  BY DraftedPolicies
<1>2. /\ pl.status = p.status /\ pl.ursp = p.ursp
      /\ pl.ue = (IF p.allowed = {} THEN NoUe ELSE ue)
      /\ pl.association = (IF p.allowed = {} THEN NoUe ELSE Association(turn))
      /\ pl.allowed = (IF p.allowed = {} THEN {} ELSE p.allowed \cup Selected(p, turn))
      /\ pl.target = (IF p.allowed = {} THEN {} ELSE p.target \cup Selected(p, turn))
  BY DEF Drafted, Compiled
<1>3. Selected(p, turn) \subseteq Slices
  <2>1. CASE p.sm = {}
    BY <2>1 DEF Selected
  <2>2. CASE p.sm # {}
    BY <2>2, FlowsPlaced DEF Selected, Drafted, AgentTypeOK
  <2> QED BY <2>1, <2>2
<1>4. Association(turn) \in Ues \cup {NoUe}
  BY DEF Association, Drafted, AgentTypeOK, DecisionType
<1>5. /\ p.status \in PlanningStatus /\ p.ursp \in BOOLEAN
      /\ p.allowed \subseteq Slices /\ p.target \subseteq Slices
      /\ ue \in Ues \cup {NoUe}
  BY DEF Drafted, ProposalType
<1>6. /\ pl.allowed \subseteq Slices /\ pl.target \subseteq Slices
      /\ pl.ue \in Ues \cup {NoUe} /\ pl.association \in Ues \cup {NoUe}
  BY <1>2, <1>3, <1>4, <1>5
<1>7. pl = [status |-> pl.status, ursp |-> pl.ursp, sm |-> pl.sm, ue |-> pl.ue,
            association |-> pl.association, allowed |-> pl.allowed, target |-> pl.target]
  BY DEF Drafted, Compiled
<1> HIDE DEF Drafted
<1> QED BY <1>1, <1>2, <1>5, <1>6, <1>7 DEF PlanType

(* A draft that passes the checks before and after compiling has the        *)
(* properties of a plan: the heart of the argument.                         *)
LEMMA DraftedSound ==
    ASSUME AgentInv, NEW p, NEW turn, NEW ue, Drafted(p, turn, ue, plan'),
           UNCHANGED <<request, decision, amAllowed, floors, missed>>
    PROVE  PlanSound' /\ OnePolicy'
<1> USE DEF AgentInv
<1>1. /\ plan'.status = p.status /\ plan'.ursp = p.ursp
      /\ plan'.ue = (IF p.allowed = {} THEN NoUe ELSE ue)
      /\ plan'.association = (IF p.allowed = {} THEN NoUe ELSE Association(turn))
      /\ plan'.allowed = (IF p.allowed = {} THEN {} ELSE p.allowed \cup Selected(p, turn))
      /\ plan'.target = (IF p.allowed = {} THEN {} ELSE p.target \cup Selected(p, turn))
  BY DEF Drafted, Compiled
<1>2. \A policy \in plan'.sm :
         /\ policy.flow \in p.sm /\ policy.flow \in decision.flows
         /\ policy.slice = turn.seen.place[policy.flow]
         /\ policy.latency = p.latency
         /\ turn.seen.place \in Placements
         /\ ~ Blocked => ~ TargetUnauthorized(turn)
         /\ turn.seen.feasible /\ policy.flow \in DOMAIN turn.seen.place
  BY DraftedPolicies
<1>3. ProposalOk(p, turn) /\ PlanOk(plan', p, turn)
  BY DEF Drafted
<1>4. OnePolicy'
  BY DEF OnePolicy, Drafted, Compiled
<1>5. HandoffGrounded'
  BY <1>1 DEF HandoffGrounded, GroundedInv, DecisionOk, Drafted, ForReached, Reached
<1>6. MigrationAuthorized' /\ WithinGrant'
  <2> SUFFICES ASSUME ~ Blocked, NEW policy \in plan'.sm
               PROVE  /\ policy.flow \in Leaving => policy.slice # Serving[policy.flow]
                      /\ policy.flow \in Movers => policy.slice \in decision.authorized
                      /\ policy.flow \in Movers =>
                             \E other \in request.supis : policy.slice \in Authorized(other)
    BY <1>2 DEF MigrationAuthorized, WithinGrant, Movers, Leaving, Blocked, Authorized
  <2>1. policy.flow \in Leaving => turn.seen.place[policy.flow] # Serving[policy.flow]
    BY <1>2 DEF Placements
  <2>2. policy.flow \in Movers => policy.flow \in Leaving
    BY <1>2 DEF Movers, Leaving
  <2>3. policy.flow \in Movers => policy.flow \in Moved(turn)
    BY <1>2, <2>1, <2>2 DEF Moved, Placed
  <2>4. policy.flow \in Movers => turn.seen.place[policy.flow] \in decision.authorized
    BY <1>2, <2>3 DEF TargetUnauthorized
  <2> QED BY <1>2, <2>1, <2>4 DEF GroundedInv, DecisionOk, Entitling
<1>7. JointPlanAgrees'
  <2> SUFFICES ASSUME plan'.status = "executable_plan", request.domains = Domains,
                      NEW policy \in plan'.sm
               PROVE  policy.slice \in plan'.allowed \cap plan'.target
    BY DEF JointPlanAgrees
  <2>1. "mobility" \in request.domains
    BY DEF Domains
  <2>2. p.sm # {} /\ PoliciesOf(p)
    BY <1>2 DEF PoliciesOf
  <2>3. p.allowed # {}
    BY <1>1, <1>3, <2>1, <2>2 DEF ProposalOk, DomainsCovered, BlockedOk
  <2>4. policy.slice \in Selected(p, turn)
    BY <1>2 DEF Selected
  <2> QED BY <1>1, <2>3, <2>4
<1>8. BlockedKeepsServing'
  <2> SUFFICES ASSUME Blocked
               PROVE  /\ plan'.allowed = {} /\ ~ plan'.ursp
                      /\ \A policy \in plan'.sm : policy.slice = Serving[policy.flow]
    BY DEF BlockedKeepsServing, Blocked
  <2> QED BY <1>1, <1>2 DEF Drafted, Placements
<1>9. MissAnswered'
  <2> SUFFICES ASSUME plan'.status = "executable_plan", "qos" \in request.domains, NEW m \in missed
               PROVE  \E policy \in plan'.sm : policy.flow = m.flow /\ policy.latency > m.latency
    BY DEF MissAnswered
  <2>1. FloorsKept(plan')
    BY <1>1, <1>3 DEF PlanOk
  <2>2. m.flow \in DOMAIN floors /\ floors[m.flow] > m.latency /\ floors[m.flow] \in Nat /\ m.latency \in Nat
    BY DEF MissFloors, AgentTypeOK
  <2>3. PICK policy \in plan'.sm : policy.flow = m.flow /\ policy.latency >= floors[m.flow]
    BY <2>1, <2>2 DEF FloorsKept
  <2>4. policy.latency \in Nat
    BY DraftedPolicies, <2>3
  <2> QED BY <2>2, <2>3, <2>4
<1>10. AssociationOfItsUe'
  <2> SUFFICES ASSUME plan'.ue # NoUe, decision.am # NoUe, Cardinality(request.supis) = 1
               PROVE  plan'.association = plan'.ue
    BY DEF AssociationOfItsUe
  <2>1. request.supis \subseteq Ues
    BY RequestOk DEF RequestTyped, RequestType
  <2>2. IsFiniteSet(request.supis)
    BY <2>1, GroundingAssumption, FS_Subset
  <2>3. PICK only : request.supis = {only}
    BY <2>2, FS_Singleton
  <2>4. decision.am = only
    BY <2>3 DEF GroundedInv, DecisionOk
  <2>5. plan'.ue = only /\ plan'.association = decision.am
    BY <1>1, <2>3 DEF Drafted, Association, ForReached
  <2> QED BY <2>4, <2>5
<1> QED BY <1>4, <1>5, <1>6, <1>7, <1>8, <1>9, <1>10 DEF PlanSound

(* A grounding kept for a later round is one that may be reused.            *)
LEMMA ForLaterOk ==
    ASSUME AgentTypeOK, NEW d, DecisionOk(d)
    PROVE  DecisionOk(ForLater(d))
BY NoDecisionOk DEF ForLater

(* A failed attempt of the strategy stage keeps the invariant.              *)
LEMMA StrategyFails ==
    ASSUME AgentInv, phase = "plan", Plannable, NEW failed, NEW turns,
           \A turn \in turns : PreviewOk(turn.seen), preview' \in Kept(failed, turns),
           FailAttempt(failed), UNCHANGED <<groundingVars, plan, floors, stable>>,
           UNCHANGED <<round, missed, previous>>
    PROVE  AgentInv' /\ phase' # "mediate"
<1> USE DEF AgentInv
<1>1. /\ phase' \in {"plan", "failed"}
      /\ attempt' \in 0 .. MaxAttempts
      /\ attempt' > 0 <=> phase' \in Advisors
      /\ ~ MayRetry(failed) => phase' = "failed"
      /\ MayRetry(failed) => phase' = "plan"
  BY StageGoesOn DEF Advisors
<1>2. /\ UNCHANGED <<request, evidence, decision, amAllowed>>
      /\ UNCHANGED <<plan, floors, stable>>
      /\ UNCHANGED <<round, previous, missed>>
  BY DEF groundingVars
<1>3. PreviewOk(preview') /\ (phase' # "plan" => preview' = NoPreview)
  BY <1>1, NoPreviewOk DEF Kept
<1>4. ~ Planned /\ ~ Planned'
  BY <1>1 DEF Planned
<1>5. GroundedInv'
  BY <1>2, SameBacking DEF GroundedInv
<1>6. AgentTypeOK'
  BY <1>1, <1>2, <1>3 DEF AgentTypeOK, PreviewOk, Phases, Advisors
<1>7. Quiet'
  BY <1>1, <1>2, <1>3, <1>4 DEF Quiet, Plannable
<1>8. PlanSound' /\ OnePolicy'
  BY <1>4, <1>5, <1>6, <1>7, SoundUnplanned, PTL DEF GroundedInv
<1>9. PreviewOk(preview)'
  BY <1>2, <1>3 DEF PreviewOk, Placements, Blocked, Leaving
<1>10. MissFloors'
  BY <1>2 DEF MissFloors
<1> QED BY <1>1, <1>5, <1>6, <1>7, <1>8, <1>9, <1>10

(* The stage ends, with a plan or without, and takes its preview along.     *)
LEMMA StrategyEnds ==
    ASSUME AgentInv, phase = "plan", phase' \in {"mediate", "failed"}, attempt' = 0,
           preview' = NoPreview, UNCHANGED <<groundingVars, floors, stable, round, missed>>,
           previous' \in {previous, ForLater(decision)},
           plan' \in PlanType, PlanSound', OnePolicy', phase' # "mediate" => plan' = NoPlan
    PROVE  AgentInv'
<1> USE DEF AgentInv
<1>1. /\ UNCHANGED <<request, evidence, decision, amAllowed>>
      /\ UNCHANGED <<floors, stable>>
      /\ UNCHANGED <<round, missed>>
  BY DEF groundingVars
<1>2. DecisionOk(previous')
  BY ForLaterOk DEF GroundedInv
<1>3. GroundedInv'
  BY <1>1, <1>2, SameBacking DEF GroundedInv
<1>4. AgentTypeOK'
  <2>1. preview' \in PreviewType
    BY NoPreviewOk DEF PreviewOk
  <2>2. previous' \in DecisionType
    BY <1>2 DEF DecisionOk
  <2>3. phase' \in Phases /\ attempt' \in 0 .. MaxAttempts /\ (attempt' > 0 <=> phase' \in Advisors)
    BY StageAssumption DEF Phases, Advisors
  <2> QED BY <1>1, <2>1, <2>2, <2>3 DEF AgentTypeOK
<1>5. Quiet'
  BY <1>1 DEF Quiet, Planned
<1>6. PreviewOk(preview)'
  BY <1>4 DEF PreviewOk, NoPreview, AgentTypeOK
<1>7. MissFloors'
  BY <1>1 DEF MissFloors
<1> QED BY <1>3, <1>4, <1>5, <1>6, <1>7

(* Plans without policies are plans.                                        *)
LEMMA NoPlanTyped == NoPlan \in PlanType /\ [NoPlan EXCEPT !.status = "needs_upstream_reground"] \in PlanType
BY DEF NoPlan, PlanType, PlanningStatus

(* Every end of an attempt of the strategy stage keeps the invariant.       *)
LEMMA PlanStep ==
    ASSUME AgentInv, Plan PROVE AgentInv'
<1> USE DEF AgentInv
<1>1. /\ previous' = (IF phase' = "mediate" THEN ForLater(decision) ELSE previous)
      /\ UNCHANGED <<round, missed>>
      /\ Strategy
  BY DEF Plan
<1>2. \A turn \in StrategyTurns : PreviewOk(turn.seen) /\ turn.context \in Ues \cup {NoUe}
  BY TurnsOk DEF AgentTypeOK
<1>3. phase = "plan" /\ ~ Planned /\ plan = NoPlan
  BY <1>1 DEF Strategy, StrategyRefused, StrategyInvocationFails, StrategyUnreadable, StrategyInvalid,
              StrategyCompiled, StrategyUncompiled, Planned, Quiet
<1>4. CASE StrategyRefused
  <2>1. /\ plan' \in PlanType /\ plan'.sm = {} /\ plan'.ue = NoUe
        /\ plan'.status = "needs_upstream_reground"
        /\ plan'.allowed = {} /\ ~ plan'.ursp
    BY <1>4, NoPlanTyped DEF StrategyRefused, NoPlan
  <2>2. /\ UNCHANGED <<groundingVars, floors, stable>>
        /\ UNCHANGED <<request, decision, amAllowed>>
        /\ phase' = "mediate" /\ attempt' = 0
    BY <1>4 DEF StrategyRefused, groundingVars, EndStage
  <2>3. preview' = NoPreview
    BY <1>4 DEF StrategyRefused, Quiet
  <2>4. PlanSound'
    BY <2>1, <2>2 DEF PlanSound, HandoffGrounded, MigrationAuthorized, JointPlanAgrees, BlockedKeepsServing,
                      WithinGrant,
                      MissAnswered, AssociationOfItsUe, GroundedInv, DecisionOk, Movers, Leaving, Blocked
  <2>5. OnePolicy'
    BY <2>1 DEF OnePolicy
  <2> QED BY <1>1, <1>3, <2>1, <2>2, <2>3, <2>4, <2>5, StrategyEnds
<1>5. CASE StrategyInvocationFails
  <2>1. phase' # "mediate"
    BY <1>3, <1>5, StageGoesOn DEF Advisors, StrategyInvocationFails
  <2> QED BY <1>1, <1>2, <1>5, <2>1, StrategyFails DEF StrategyInvocationFails
<1>6. CASE StrategyUnreadable
  <2>1. /\ phase' = "failed" /\ attempt' = 0
        /\ preview' = NoPreview /\ plan' = NoPlan
        /\ UNCHANGED <<groundingVars, floors, stable>>
    BY <1>3, <1>6 DEF StrategyUnreadable, FailAttempt, MayRetry, RetryPhases
  <2>2. UNCHANGED <<request, decision, amAllowed>>
    BY <2>1 DEF groundingVars
  <2>3. plan' \in PlanType /\ plan'.sm = {}
    BY <2>1, NoPlanTyped DEF NoPlan
  <2>4. PlanSound' /\ OnePolicy'
    BY <2>1, <2>3 DEF PlanSound, HandoffGrounded, MigrationAuthorized, JointPlanAgrees, BlockedKeepsServing,
                      WithinGrant,
                      MissAnswered, AssociationOfItsUe, Planned, OnePolicy
  <2> QED BY <1>1, <1>3, <2>1, <2>3, <2>4, StrategyEnds
<1>7. CASE StrategyInvalid
  <2> DEFINE refused == {turn \in StrategyTurns : \E p \in PlanningAnswers : ~ ProposalOk(Bounded(p), turn)}
  <2>1. /\ phase = "plan" /\ Plannable
        /\ preview' \in Kept("validation", refused)
        /\ FailAttempt("validation")
        /\ UNCHANGED <<groundingVars, plan, floors, stable>>
    BY <1>7 DEF StrategyInvalid
  <2>2. \A turn \in refused : PreviewOk(turn.seen)
    BY <1>2
  <2> HIDE DEF refused
  <2>3. phase' # "mediate"
    BY <2>1, StageGoesOn DEF Advisors
  <2> QED BY <1>1, <2>1, <2>2, <2>3, StrategyFails
<1>8. CASE StrategyCompiled
  <2>1. PICK draft \in Accepted : Compiles(draft) /\ plan' \in PlansOf(draft)
    BY <1>8 DEF StrategyCompiled
  <2> DEFINE p == draft.proposal
             turn == draft.turn
  <2>2. /\ turn \in StrategyTurns /\ ProposalOk(p, turn)
        /\ p \in ProposalType
        /\ Blocked => p.allowed = {} /\ ~ p.ursp
    BY <2>1, BoundedOk DEF Accepted
  <2>3. PICK ue \in PlanUes : plan' = Compiled(p, turn, ue)
    BY <2>1 DEF PlansOf
  <2>4. PlanOk(plan', p, turn)
    BY <2>1 DEF Compiles
  <2>5. ForReached(ue) /\ ue \in Ues \cup {NoUe}
    BY <2>3, PlanUesOk DEF GroundedInv
  <2> HIDE DEF p, turn
  <2>6. Drafted(p, turn, ue, plan')
    BY <1>2, <2>2, <2>3, <2>4, <2>5 DEF Drafted
  <2>7. /\ UNCHANGED <<groundingVars, floors, stable>>
        /\ UNCHANGED <<request, decision, amAllowed>>
        /\ phase' = "mediate" /\ attempt' = 0 /\ preview' = NoPreview
    BY <1>8 DEF StrategyCompiled, groundingVars, EndStage
  <2>8. plan' \in PlanType
    BY <2>6, DraftedTyped
  <2>9. PlanSound' /\ OnePolicy'
    BY <1>1, <2>6, <2>7, DraftedSound
  <2> QED BY <1>1, <1>3, <2>7, <2>8, <2>9, StrategyEnds
<1>9. CASE StrategyUncompiled
  <2>1. /\ phase' = "failed" /\ attempt' = 0
        /\ preview' = NoPreview /\ plan' = NoPlan
        /\ UNCHANGED <<groundingVars, floors, stable>>
    BY <1>3, <1>9 DEF StrategyUncompiled, EndStage
  <2>2. plan' \in PlanType /\ plan'.sm = {}
    BY <2>1, NoPlanTyped DEF NoPlan
  <2>3. PlanSound' /\ OnePolicy'
    BY <2>1, <2>2 DEF PlanSound, HandoffGrounded, MigrationAuthorized, JointPlanAgrees, BlockedKeepsServing,
                      WithinGrant,
                      MissAnswered, AssociationOfItsUe, Planned, OnePolicy
  <2> QED BY <1>1, <1>3, <2>1, <2>2, <2>3, StrategyEnds
<1> QED BY <1>1, <1>4, <1>5, <1>6, <1>7, <1>8, <1>9 DEF Strategy

-------------------------------------------------------------------------------
(* Steps between the stages.                                                *)

(* A state without a plan in force has the properties of a plan.            *)
LEMMA NoPlanSound ==
    ASSUME plan' = NoPlan, request' \in Requests, decision' \in DecisionType,
           \A f \in decision'.resolved : Owner[f] \in request'.supis,
           decision'.am \in request'.supis \cup {NoUe},
           phase' \notin {"mediate", "dispatch"}
    PROVE  PlanSound' /\ OnePolicy'
BY DEF PlanSound, HandoffGrounded, MigrationAuthorized, JointPlanAgrees, BlockedKeepsServing, WithinGrant,
       MissAnswered, AssociationOfItsUe, Planned, OnePolicy, NoPlan

(* A step that makes no plan, keeps or forgets what was grounded, and       *)
(* leaves the UEs of the request.                                           *)
LEMMA RoundMoves ==
    ASSUME AgentInv, phase \notin {"done", "ground"},
           phase' \in Phases \ {"mediate", "dispatch"}, attempt' \in 0 .. MaxAttempts,
           attempt' > 0 <=> phase' \in Advisors,
           request' \in Requests, request'.supis = request.supis,
           evidence' = evidence, preview' = NoPreview, plan' = NoPlan,
           decision' \in {decision, previous, NoDecision}, previous' \in {previous, NoPrevious},
           amAllowed' \in [Ues -> SUBSET Slices],
           amAllowed' = amAllowed \/ (decision' = NoDecision /\ previous' = NoPrevious),
           phase' = "done" => decision' = NoDecision /\ previous' = NoPrevious /\ missed' = {},
           DOMAIN floors' \subseteq Flows, \A f \in DOMAIN floors' : floors'[f] \in Nat,
           stable' \in BOOLEAN, round' \in 0 .. MaxRounds,
           missed' \subseteq [flow : Flows, latency : Nat], MissFloors'
    PROVE  AgentInv'
<1> USE DEF AgentInv
<1>1. evidence' = NoEvidence
  BY DEF Quiet
<1>2. AgentTypeOK'
  <2>1. evidence' \in EvidenceType /\ preview' \in PreviewType /\ plan' \in PlanType
    BY <1>1, NoEvidenceOk, NoPreviewOk, NoPlanTyped DEF EvidenceOk, PreviewOk
  <2>2. decision' \in DecisionType /\ previous' \in DecisionType
    BY NoDecisionOk DEF AgentTypeOK, DecisionOk
  <2> QED BY <2>1, <2>2 DEF AgentTypeOK
<1>3. EvidenceOk(NoEvidence)' /\ DecisionOk(NoDecision)' /\ DecisionOk(NoPrevious)'
  BY <1>2, NoEvidenceOk, NoDecisionOk, PTL
<1>4. EvidenceOk(evidence)'
  BY <1>1, <1>3 DEF EvidenceOk, Entitling, Authorized
<1>5. DecisionOk(decision)' /\ DecisionOk(previous)'
  <2>1. CASE amAllowed' = amAllowed
    <3>1. DecisionOk(decision') /\ DecisionOk(previous')
      BY NoDecisionOk DEF GroundedInv
    <3> QED BY <2>1, <3>1, SameBacking
  <2>2. CASE decision' = NoDecision /\ previous' = NoPrevious
    BY <1>3, <2>2 DEF DecisionOk, Reached, Entitling, Authorized
  <2> QED BY <2>1, <2>2
<1>6. GroundedInv'
  BY <1>4, <1>5 DEF GroundedInv
<1>7. Quiet'
  BY <1>1 DEF Quiet
<1>8. PlanSound' /\ OnePolicy'
  <2>1. ~ Planned'
    BY DEF Planned
  <2> QED BY <1>2, <1>5, <1>7, <2>1, SoundUnplanned, PTL
<1>9. PreviewOk(preview)'
  BY <1>2 DEF PreviewOk, NoPreview, AgentTypeOK
<1> QED BY <1>2, <1>6, <1>7, <1>8, <1>9

(* What the end of a run resets.                                            *)
LEMMA EndRunMoves ==
    ASSUME EndRun
    PROVE  /\ phase' = "done" /\ attempt' = 0 /\ round' = 0
           /\ decision' = NoDecision /\ previous' = NoPrevious /\ missed' = {} /\ stable' = FALSE
           /\ DOMAIN floors' = {} /\ MissFloors'
BY DEF EndRun, EndStage, MissFloors

(* What is left to the next round, or that there is none.  The floor the    *)
(* loop state derives of a missed latency is above it because a plan states *)
(* one latency of a flow.                                                   *)
LEMMA NextRoundMoves ==
    ASSUME AgentInv, NEW measured \in SUBSET [flow : Flows, latency : Nat],
           \A a, b \in measured : a.flow = b.flow => a.latency = b.latency, NextRound(measured)
    PROVE  /\ phase' \in {"main", "done"} /\ attempt' = 0 /\ round' \in 0 .. MaxRounds
           /\ decision' \in {decision, NoDecision} /\ previous' \in {previous, NoPrevious}
           /\ phase' = "done" => decision' = NoDecision /\ previous' = NoPrevious /\ missed' = {}
           /\ missed' \subseteq [flow : Flows, latency : Nat] /\ stable' \in BOOLEAN
           /\ DOMAIN floors' \subseteq Flows /\ \A f \in DOMAIN floors' : floors'[f] \in Nat
           /\ MissFloors'
<1> USE DEF AgentInv
<1>1. CASE round = MaxRounds
  <2>1. EndRun
    BY <1>1 DEF NextRound
  <2> QED BY <2>1, EndRunMoves, RoundsAssumption
<1>2. CASE round # MaxRounds
  <2> DEFINE missedFlows == {m.flow : m \in measured}
             worst(f) == Max({m.latency : m \in {x \in measured : x.flow = f}})
  <2>1. \A m \in measured : worst(m.flow) = m.latency
    <3> SUFFICES ASSUME NEW m \in measured PROVE worst(m.flow) = m.latency
      OBVIOUS
    <3>1. {n.latency : n \in {x \in measured : x.flow = m.flow}} = {m.latency}
      OBVIOUS
    <3> QED BY <3>1 DEF Max
  <2>2. /\ phase' = "main" /\ attempt' = 0 /\ round' = round + 1
        /\ floors' = [f \in missedFlows |-> 1 + worst(f)]
        /\ missed' = measured
        /\ UNCHANGED <<stable, previous, decision>>
    BY <1>2 DEF NextRound, EndStage
  <2> HIDE DEF worst
  <2>3. \A m \in measured : m.flow \in Flows /\ m.latency \in Nat
    OBVIOUS
  <2>4. /\ DOMAIN floors' = missedFlows /\ missedFlows \subseteq Flows
        /\ \A f \in missedFlows : \E m \in measured : f = m.flow /\ floors'[f] = 1 + m.latency
    BY <2>1, <2>2, <2>3
  <2>5. round' \in 0 .. MaxRounds
    BY <1>2, <2>2, RoundsAssumption DEF AgentTypeOK
  <2>6. MissFloors'
    BY <2>1, <2>2, <2>3, <2>4 DEF MissFloors
  <2>7. \A f \in DOMAIN floors' : floors'[f] \in Nat
    BY <2>3, <2>4
  <2> QED BY <2>2, <2>4, <2>5, <2>6, <2>7 DEF AgentTypeOK
<1> QED BY <1>1, <1>2

(* The end of a round keeps the invariant.                                  *)
LEMMA RoundEnds ==
    ASSUME AgentInv, phase \notin {"done", "ground", "plan"},
           NEW measured \in SUBSET [flow : Flows, latency : Nat],
           \A a, b \in measured : a.flow = b.flow => a.latency = b.latency, NextRound(measured),
           plan' = NoPlan, UNCHANGED <<request, evidence, amAllowed, preview>>
    PROVE  AgentInv'
<1> USE DEF AgentInv
<1>1. /\ phase' \in {"main", "done"} /\ attempt' = 0 /\ round' \in 0 .. MaxRounds
      /\ decision' \in {decision, NoDecision} /\ previous' \in {previous, NoPrevious}
      /\ phase' = "done" => decision' = NoDecision /\ previous' = NoPrevious /\ missed' = {}
      /\ missed' \subseteq [flow : Flows, latency : Nat] /\ stable' \in BOOLEAN
      /\ DOMAIN floors' \subseteq Flows /\ \A f \in DOMAIN floors' : floors'[f] \in Nat
      /\ MissFloors'
  BY NextRoundMoves
<1>2. /\ phase' \in Phases \ {"mediate", "dispatch"} /\ attempt' \in 0 .. MaxAttempts
      /\ attempt' > 0 <=> phase' \in Advisors
  BY <1>1, StageAssumption DEF Phases, Advisors
<1>3. preview' = NoPreview /\ amAllowed' \in [Ues -> SUBSET Slices] /\ request' \in Requests
  BY DEF Quiet, AgentTypeOK
<1> QED BY <1>1, <1>2, <1>3, RoundMoves

(* So does the end of a run, whether or not the commit wrote the AM policy. *)
LEMMA RunEndsStep ==
    ASSUME AgentInv, phase = "dispatch", EndRun, plan' = NoPlan,
           CommitAm \/ UNCHANGED amAllowed, UNCHANGED <<request, evidence, preview>>
    PROVE  AgentInv'
<1> USE DEF AgentInv
<1>1. /\ phase' = "done" /\ attempt' = 0 /\ round' = 0
      /\ decision' = NoDecision /\ previous' = NoPrevious /\ missed' = {} /\ stable' = FALSE
      /\ DOMAIN floors' = {} /\ MissFloors'
  BY EndRunMoves
<1>2. /\ phase' \in Phases \ {"mediate", "dispatch"} /\ attempt' \in 0 .. MaxAttempts
      /\ attempt' > 0 <=> phase' \in Advisors
      /\ round' \in 0 .. MaxRounds
  BY <1>1, StageAssumption, RoundsAssumption DEF Phases, Advisors
<1>3. amAllowed' \in [Ues -> SUBSET Slices]
  BY DEF CommitAm, AgentTypeOK, PlanType
<1>4. preview' = NoPreview /\ request' \in Requests
  BY DEF Quiet, AgentTypeOK
<1>5. /\ DOMAIN floors' \subseteq Flows /\ \A f \in DOMAIN floors' : floors'[f] \in Nat
      /\ stable' \in BOOLEAN /\ missed' \subseteq [flow : Flows, latency : Nat]
  BY <1>1
<1>6. /\ decision' \in {decision, previous, NoDecision} /\ previous' \in {previous, NoPrevious}
      /\ amAllowed' = amAllowed \/ (decision' = NoDecision /\ previous' = NoPrevious)
      /\ phase' = "done" => decision' = NoDecision /\ previous' = NoPrevious /\ missed' = {}
      /\ request'.supis = request.supis /\ evidence' = evidence
      /\ MissFloors'
  BY <1>1
<1> QED BY <1>2, <1>3, <1>4, <1>5, <1>6, RoundMoves

(* So does Main's choice of the agent of a round.                           *)
LEMMA MainStep ==
    ASSUME AgentInv, MainGrounds \/ MainReuses \/ MainRaises
    PROVE  AgentInv'
<1> USE DEF AgentInv
<1>1. /\ phase = "main" /\ plan = NoPlan /\ preview = NoPreview
      /\ UNCHANGED <<evidence, amAllowed, preview, plan, floors, round, missed>>
  BY DEF MainGrounds, MainReuses, MainRaises, Quiet, Planned, groundingVars, planningVars, roundVars
<1>2. /\ phase' \in {"ground", "plan", "failed"} /\ attempt' = (IF phase' = "failed" THEN 0 ELSE 1)
  BY DEF MainGrounds, MainReuses, MainRaises, BeginStage, EndStage
<1>3. request' \in Requests /\ request'.supis = request.supis
  BY DEF MainGrounds, MainReuses, MainRaises, MainDecides, groundingVars, AgentTypeOK
<1>4. /\ decision' \in {decision, previous, NoDecision}
      /\ previous' \in {previous, NoPrevious}
      /\ stable' \in BOOLEAN
  BY DEF MainGrounds, MainReuses, MainRaises, ForLater, Scope, groundingVars, planningVars, roundVars, AgentTypeOK
<1>5. /\ phase' \in Phases \ {"mediate", "dispatch"} /\ attempt' \in 0 .. MaxAttempts
      /\ attempt' > 0 <=> phase' \in Advisors
  BY <1>2, StageAssumption DEF Phases, Advisors
<1>6. MissFloors'
  BY <1>1 DEF MissFloors
<1> QED BY <1>1, <1>2, <1>3, <1>4, <1>5, <1>6, RoundMoves DEF AgentTypeOK

(* So does the start of a run.                                              *)
LEMMA StartStep ==
    ASSUME AgentInv, StartRun PROVE AgentInv'
<1> USE DEF AgentInv
<1>1. /\ phase = "done" /\ phase' = "main" /\ attempt' = 0 /\ round' = 1 /\ request' \in Requests
      /\ UNCHANGED <<evidence, decision, amAllowed, preview, plan, floors, stable, previous, missed>>
  BY DEF StartRun, EndStage, planningVars
<1>2. /\ evidence' = NoEvidence /\ decision' = NoDecision /\ previous' = NoPrevious
      /\ preview' = NoPreview /\ plan' = NoPlan
  BY <1>1 DEF Quiet, Planned
<1>3. AgentTypeOK'
  <2>1. phase' \in Phases /\ attempt' \in 0 .. MaxAttempts /\ (attempt' > 0 <=> phase' \in Advisors)
        /\ round' \in 0 .. MaxRounds
    BY <1>1, StageAssumption, RoundsAssumption DEF Phases, Advisors
  <2> QED BY <1>1, <2>1 DEF AgentTypeOK
<1>4. EvidenceOk(NoEvidence)' /\ DecisionOk(NoDecision)' /\ DecisionOk(NoPrevious)'
  BY <1>3, NoEvidenceOk, NoDecisionOk, PTL
<1>5. GroundedInv'
  BY <1>2, <1>4 DEF GroundedInv, EvidenceOk, DecisionOk, Reached, Entitling, Authorized
<1>6. Quiet'
  BY <1>1, <1>2 DEF Quiet
<1>7. PlanSound' /\ OnePolicy'
  <2>1. ~ Planned'
    BY <1>1 DEF Planned
  <2> QED BY <1>3, <1>5, <1>6, <2>1, SoundUnplanned, PTL DEF GroundedInv
<1>8. PreviewOk(preview)'
  BY <1>2, <1>3 DEF PreviewOk, NoPreview, AgentTypeOK
<1>9. MissFloors'
  BY <1>1 DEF MissFloors
<1> QED BY <1>3, <1>5, <1>6, <1>7, <1>8, <1>9

(* So does the mediator's approval.                                         *)
LEMMA ApproveStep ==
    ASSUME AgentInv, MediatorApproves PROVE AgentInv'
<1> USE DEF AgentInv
<1>1. /\ phase = "mediate" /\ phase' = "dispatch" /\ attempt' = 0
      /\ UNCHANGED <<request, evidence, decision, amAllowed, preview, plan, floors, stable, round, previous, missed>>
  BY DEF MediatorApproves, EndStage, groundingVars, planningVars, roundVars
<1>2. AgentTypeOK'
  <2>1. phase' \in Phases /\ attempt' \in 0 .. MaxAttempts /\ (attempt' > 0 <=> phase' \in Advisors)
    BY <1>1, StageAssumption DEF Phases, Advisors
  <2> QED BY <1>1, <2>1 DEF AgentTypeOK
<1>3. GroundedInv'
  BY <1>1, SameBacking DEF GroundedInv
<1>4. Quiet' /\ Planned /\ Planned'
  BY <1>1 DEF Quiet, Planned
<1>5. PlanSound'
  BY <1>1, <1>4 DEF PlanSound, HandoffGrounded, MigrationAuthorized, JointPlanAgrees, BlockedKeepsServing,
                    WithinGrant,
                    MissAnswered, AssociationOfItsUe, Movers, Leaving, Blocked, Authorized
<1>6. OnePolicy' /\ PreviewOk(preview)' /\ MissFloors'
  BY <1>1 DEF OnePolicy, PreviewOk, MissFloors, Placements, Blocked, Leaving
<1> QED BY <1>2, <1>3, <1>4, <1>5, <1>6

(* So does a dispatch that was refused or missed latencies.                 *)
LEMMA DispatchFailsStep ==
    ASSUME AgentInv, DispatchFails PROVE AgentInv'
<1> USE DEF AgentInv
<1>1. PICK flows \in SUBSET FlowsOf(plan) :
         NextRound({[flow |-> p.flow, latency |-> p.latency] : p \in {q \in plan.sm : q.flow \in flows}})
  BY DEF DispatchFails
<1> DEFINE measured == {[flow |-> p.flow, latency |-> p.latency] : p \in {q \in plan.sm : q.flow \in flows}}
<1>2. plan.sm \subseteq [flow : Flows, slice : Slices, bandwidth : Nat, latency : Nat]
  BY DEF AgentTypeOK, PlanType
<1>3. measured \in SUBSET [flow : Flows, latency : Nat]
  BY <1>2
<1>4. \A a, b \in measured : a.flow = b.flow => a.latency = b.latency
  BY DEF OnePolicy
<1>5. phase = "dispatch" /\ plan' = NoPlan /\ UNCHANGED <<request, evidence, amAllowed, preview>>
  BY DEF DispatchFails
<1> HIDE DEF measured
<1>6. NextRound(measured)
  BY <1>1 DEF measured
<1> QED BY <1>3, <1>4, <1>5, <1>6, RoundEnds

(* Every step keeps the invariant.                                          *)
LEMMA AgentsStep ==
    ASSUME AgentInv, AgentsNext PROVE AgentInv'
<1>1. ASSUME NextRound({}), plan' = NoPlan, UNCHANGED <<request, evidence, amAllowed, preview>>,
             phase \notin {"done", "ground", "plan"}
      PROVE  AgentInv'
  BY <1>1, RoundEnds
<1>2. CASE StartRun
  BY <1>2, StartStep
<1>3. CASE MainRaises \/ MainGrounds \/ MainReuses
  BY <1>3, MainStep
<1>4. CASE Ground /\ UNCHANGED <<planningVars, roundVars>>
  BY <1>4, GroundStep
<1>5. CASE Plan
  BY <1>5, PlanStep
<1>6. CASE RoundFails
  <2>1. plan = NoPlan
    BY <1>6 DEF RoundFails, AgentInv, Quiet, Planned
  <2> QED BY <1>1, <1>6, <2>1 DEF RoundFails
<1>7. CASE PlanBlocked \/ MediatorRevises
  BY <1>1, <1>7 DEF PlanBlocked, MediatorRevises
<1>8. CASE MediatorApproves
  BY <1>8, ApproveStep
<1>9. CASE DispatchSucceeds
  BY <1>9, RunEndsStep DEF DispatchSucceeds
<1>10. CASE DispatchRaises
  BY <1>10, RunEndsStep DEF DispatchRaises
<1>11. CASE DispatchFails
  BY <1>11, DispatchFailsStep
<1> QED BY <1>2, <1>3, <1>4, <1>5, <1>6, <1>7, <1>8, <1>9, <1>10, <1>11 DEF AgentsNext, Round

(* It holds before the first run.                                           *)
LEMMA AgentsStart == AgentsInit => AgentInv
<1> SUFFICES ASSUME AgentsInit PROVE AgentInv
  OBVIOUS
<1>1. AgentTypeOK
  <2>1. evidence \in EvidenceType /\ decision \in DecisionType /\ previous \in DecisionType
    BY DEF AgentsInit, NoEvidence, NoDecision, NoPrevious, EvidenceType, DecisionType, MigrationKinds
  <2>2. preview \in PreviewType /\ plan \in PlanType
    BY NoPreviewOk, NoPlanTyped DEF AgentsInit, PreviewOk
  <2>3. phase \in Phases /\ attempt \in 0 .. MaxAttempts /\ (attempt > 0 <=> phase \in Advisors)
        /\ round \in 0 .. MaxRounds
    BY StageAssumption, RoundsAssumption DEF AgentsInit, Phases, Advisors
  <2>4. missed = {} /\ stable \in BOOLEAN
    BY DEF AgentsInit
  <2>5. DOMAIN floors = {}
    <3>1. floors = << >>
      BY DEF AgentsInit
    <3> QED BY <3>1
  <2> QED BY <2>1, <2>2, <2>3, <2>4, <2>5, GroundingAssumption DEF AgentsInit, AgentTypeOK
<1>2. GroundedInv
  BY <1>1, NoEvidenceOk, NoDecisionOk DEF AgentsInit, GroundedInv
<1>3. Quiet /\ ~ Planned
  BY DEF AgentsInit, Quiet, Planned
<1>4. PlanSound /\ OnePolicy
  BY <1>1, <1>2, <1>3, SoundUnplanned DEF GroundedInv
<1>5. PreviewOk(preview) /\ MissFloors
  BY NoPreviewOk DEF AgentsInit, MissFloors
<1> QED BY <1>1, <1>2, <1>3, <1>4, <1>5 DEF AgentInv

(* It reads nothing but the state of the agents.                            *)
LEMMA AgentsStutter ==
    ASSUME AgentInv, UNCHANGED agentVars PROVE AgentInv'
BY DEF agentVars, stageVars, groundingVars, planningVars, roundVars, AgentInv, AgentTypeOK, Quiet, GroundedInv,
       EvidenceOk, DecisionOk, Reached, Entitling, Authorized, PreviewOk, Placements, Blocked, Movers, Leaving,
       MissFloors, OnePolicy, PlanSound, HandoffGrounded, MigrationAuthorized, JointPlanAgrees, BlockedKeepsServing,
                   WithinGrant,
       MissAnswered, AssociationOfItsUe, Planned, Plannable

(* The inductive invariant holds throughout, whatever the models answer,    *)
(* for any UEs, flows and slices, any limits of tool calls and attempts and *)
(* any number of rounds and runs.                                           *)
THEOREM AgentsInvariant == AgentsSpec => []AgentInv
<1>1. AgentInv /\ [AgentsNext]_agentVars => AgentInv'
  BY AgentsStep, AgentsStutter
<1> QED BY <1>1, AgentsStart, PTL DEF AgentsSpec

(* Every state of the agents is well typed and no stage (StageRunner.run)   *)
(* makes more than its attempts.                                            *)
THEOREM AgentsTypeCorrect == AgentsSpec => []AgentTypeOK
BY AgentsInvariant, PTL DEF AgentInv

(* The resolved flows and the AM association the strategy agent works from  *)
(* are of the request's UEs, in the first round and in one that reuses a    *)
(* grounding, and a plan is for one of them, unless it is for several and   *)
(* an unresolved binding carries another UE's flow                          *)
(* (_refresh_intent_evidence_from_tool_results, _planning_supi).            *)
THEOREM HandoffIsGrounded == AgentsSpec => []HandoffGrounded
<1>1. AgentInv => HandoffGrounded
  BY DEF AgentInv, PlanSound
<1> QED BY <1>1, AgentsInvariant, PTL

(* A plan takes every flow that must move off its slice, and a resolved one *)
(* only to a slice that a UE of the request may use at that very moment     *)
(* (_migration_target_is_unauthorized): runs of one loop write the UE store *)
(* one after the other, and no grounding outlives its run.                  *)
THEOREM MigrationIsAuthorized == AgentsSpec => []MigrationAuthorized
<1>1. AgentInv => MigrationAuthorized
  BY DEF AgentInv, PlanSound
<1> QED BY <1>1, AgentsInvariant, PTL

(* The slices of the QoS half of an executable joint plan are allowed and   *)
(* targeted by its AM half (assemble_policy_plan).                          *)
THEOREM JointPlansAgree == AgentsSpec => []JointPlanAgrees
<1>1. AgentInv => JointPlanAgrees
  BY DEF AgentInv, PlanSound
<1> QED BY <1>1, AgentsInvariant, PTL

(* A blocked migration leaves every flow on its slice and no AM or URSP     *)
(* policy.                                                                  *)
THEOREM BlockedMigrationStays == AgentsSpec => []BlockedKeepsServing
<1>1. AgentInv => BlockedKeepsServing
  BY DEF AgentInv, PlanSound
<1> QED BY <1>1, AgentsInvariant, PTL

(* An executable QoS plan asks more time for every flow whose latency the   *)
(* dispatch before it missed.                                               *)
THEOREM MissIsAnswered == AgentsSpec => []MissAnswered
<1>1. AgentInv => MissAnswered
  BY DEF AgentInv, PlanSound
<1> QED BY <1>1, AgentsInvariant, PTL

(* The AM policy for the one UE of a request is for its own association.    *)
THEOREM AssociationIsOfItsUe == AgentsSpec => []AssociationOfItsUe
<1>1. AgentInv => AssociationOfItsUe
  BY DEF AgentInv, PlanSound
<1> QED BY <1>1, AgentsInvariant, PTL

-------------------------------------------------------------------------------
(* Sums over finite sets.                                                   *)

(* The sum of w over a set, as the fold computes it: member by member in    *)
(* the order CHOOSE takes them.                                             *)
Chosen(S) == CHOOSE x \in S : TRUE
Folded(w, g, S) == IF S = {} THEN 0 ELSE w[Chosen(S)] + g[S \ {Chosen(S)}]
Sums(g, w, S) == g = [T \in SUBSET S |-> Folded(w, g, T)]
Total(w, S) == (CHOOSE g : Sums(g, w, S))[S]

LEMMA SumIs == ASSUME NEW w, NEW S PROVE MapThenSumSet(LAMBDA x : w[x], S) = Total(w, S)
BY DEF MapThenSumSet, MapThenFoldSet, Total, Sums, Folded, Chosen

(* There is such a fold, it is a number and it is the only one.              *)
LEMMA OneSum ==
  ASSUME NEW S, IsFiniteSet(S), NEW w \in [S -> Nat]
  PROVE  /\ \E g : Sums(g, w, S)
         /\ \A g : Sums(g, w, S) => g \in [SUBSET S -> Nat]
         /\ \A g, h : Sums(g, w, S) /\ Sums(h, w, S) => g = h
<1> DEFINE Upto(g, n) == /\ g \in [{T \in SUBSET S : Cardinality(T) <= n} -> Nat]
                         /\ \A T \in SUBSET S : Cardinality(T) <= n => g[T] = Folded(w, g, T)
           Good == {n \in Nat : \E g : Upto(g, n)}
<1>1. \A T \in SUBSET S : IsFiniteSet(T) /\ Cardinality(T) \in Nat
  BY FS_Subset, FS_CardinalityType
<1>2. \A T \in SUBSET S : T # {} =>
          /\ Chosen(T) \in T /\ T \ {Chosen(T)} \in SUBSET S
          /\ Cardinality(T) # 0
          /\ Cardinality(T \ {Chosen(T)}) = Cardinality(T) - 1
  <2>1. \A T \in SUBSET S : T # {} => Chosen(T) \in T
    BY DEF Chosen
  <2> QED BY <1>1, <2>1, FS_RemoveElement, FS_EmptySet
<1>3. 0 \in Good
  <2> DEFINE g == [T \in {T \in SUBSET S : Cardinality(T) <= 0} |-> 0]
  <2>1. \A T \in SUBSET S : Cardinality(T) <= 0 => T = {}
    BY <1>1, FS_EmptySet
  <2>2. g \in [{T \in SUBSET S : Cardinality(T) <= 0} -> Nat]
    OBVIOUS
  <2>3. \A T \in SUBSET S : Cardinality(T) <= 0 => g[T] = Folded(w, g, T)
    BY <2>1 DEF Folded
  <2>4. Upto(g, 0)
    BY <2>2, <2>3
  <2> HIDE DEF Upto
  <2> QED BY <2>4
<1>4. ASSUME NEW n \in Nat, n \in Good
      PROVE  n + 1 \in Good
  <2>1. PICK g : Upto(g, n)
    BY <1>4
  <2> DEFINE D == {T \in SUBSET S : Cardinality(T) <= n + 1}
             h == [T \in D |-> IF Cardinality(T) <= n THEN g[T] ELSE Folded(w, g, T)]
  <2>2. \A T \in D : T # {} => /\ T \ {Chosen(T)} \in SUBSET S
                               /\ Cardinality(T \ {Chosen(T)}) <= n
                               /\ T \ {Chosen(T)} \in D
                               /\ g[T \ {Chosen(T)}] \in Nat /\ w[Chosen(T)] \in Nat
    BY <1>1, <1>2, <2>1
  <2>3. \A T \in D : Folded(w, g, T) \in Nat
    BY <2>2 DEF Folded
  <2>4. h \in [D -> Nat]
    <3>1. \A T \in D : h[T] \in Nat
      BY <2>1, <2>3
    <3> QED BY <3>1
  <2>5. \A T \in D : Folded(w, h, T) = Folded(w, g, T)
    <3>1. \A T \in D : T # {} => h[T \ {Chosen(T)}] = g[T \ {Chosen(T)}]
      BY <2>2
    <3> HIDE DEF h
    <3> QED BY <3>1 DEF Folded
  <2>6. \A T \in SUBSET S : Cardinality(T) <= n + 1 => h[T] = Folded(w, h, T)
    <3>1. \A T \in D : h[T] = Folded(w, g, T)
      BY <2>1
    <3> QED BY <2>5, <3>1
  <2> HIDE DEF h
  <2>7. Upto(h, n + 1)
    BY <2>4, <2>6
  <2> HIDE DEF Upto
  <2> QED BY <2>7
<1>5. Nat \subseteq Good
  <2> HIDE DEF Good
  <2> QED BY <1>3, <1>4, EveryNumber
<1>6. \A T \in SUBSET S : Cardinality(T) <= Cardinality(S)
  BY FS_Subset
<1>7. \E g : Sums(g, w, S)
  <2>1. PICK g : Upto(g, Cardinality(S))
    <3> HIDE DEF Upto
    <3> QED BY <1>1, <1>5
  <2>2. {T \in SUBSET S : Cardinality(T) <= Cardinality(S)} = SUBSET S
    BY <1>6
  <2>3. g = [T \in SUBSET S |-> g[T]]
    BY <2>1, <2>2
  <2>4. \A T \in SUBSET S : g[T] = Folded(w, g, T)
    BY <1>6, <2>1
  <2>5. g = [T \in SUBSET S |-> Folded(w, g, T)]
    BY <2>3, <2>4
  <2> QED BY <2>5 DEF Sums
<1>8. ASSUME NEW g, NEW h, Sums(g, w, S), Sums(h, w, S)
      PROVE  g \in [SUBSET S -> Nat] /\ g = h
  <2>1. /\ DOMAIN g = SUBSET S /\ DOMAIN h = SUBSET S
        /\ \A T \in SUBSET S : g[T] = Folded(w, g, T) /\ h[T] = Folded(w, h, T)
        /\ g = [T \in SUBSET S |-> g[T]] /\ h = [T \in SUBSET S |-> h[T]]
    BY <1>8 DEF Sums
  <2> DEFINE Same == {n \in Nat : \A T \in SUBSET S : Cardinality(T) = n => g[T] \in Nat /\ g[T] = h[T]}
  <2>2. 0 \in Same
    BY <1>1, <2>1, FS_EmptySet DEF Folded
  <2>3. ASSUME NEW n \in Nat, n \in Same
        PROVE  n + 1 \in Same
    <3>1. ASSUME NEW T \in SUBSET S, Cardinality(T) = n + 1
          PROVE  g[T] \in Nat /\ g[T] = h[T]
      <4>1. T # {} /\ T \ {Chosen(T)} \in SUBSET S /\ Cardinality(T \ {Chosen(T)}) = n
            /\ Chosen(T) \in S
        <5>1. T # {}
          BY <3>1, FS_EmptySet
        <5> QED BY <1>2, <3>1, <5>1
      <4>2. g[T \ {Chosen(T)}] \in Nat /\ g[T \ {Chosen(T)}] = h[T \ {Chosen(T)}]
        BY <2>3, <4>1
      <4>3. w[Chosen(T)] \in Nat
        BY <4>1
      <4>4. g[T] = w[Chosen(T)] + g[T \ {Chosen(T)}] /\ h[T] = w[Chosen(T)] + h[T \ {Chosen(T)}]
        <5>1. g[T] = Folded(w, g, T) /\ h[T] = Folded(w, h, T)
          BY <2>1
        <5> QED BY <4>1, <5>1 DEF Folded
      <4> QED BY <4>2, <4>3, <4>4
    <3> QED BY <3>1
  <2>4. Nat \subseteq Same
    <3> HIDE DEF Same
    <3> QED BY <2>2, <2>3, EveryNumber
  <2>5. \A T \in SUBSET S : g[T] \in Nat /\ g[T] = h[T]
    BY <1>1, <2>4
  <2> QED BY <2>1, <2>5
<1> QED BY <1>7, <1>8
LEMMA TotalOfSubset ==
  ASSUME NEW S, IsFiniteSet(S), NEW w \in [S -> Nat], NEW g, Sums(g, w, S), NEW T \in SUBSET S
  PROVE  Total(w, T) = g[T]
<1> DEFINE v == [x \in T |-> w[x]]
           h == [U \in SUBSET T |-> g[U]]
<1>1. IsFiniteSet(T) /\ v \in [T -> Nat]
  BY FS_Subset
<1>2. \A k : Sums(k, w, T) <=> Sums(k, v, T)
  <2>1. \A k : \A U \in SUBSET T : Folded(w, k, U) = Folded(v, k, U)
    BY DEF Folded, Chosen
  <2> HIDE DEF v
  <2> QED BY <2>1 DEF Sums
<1>3. Sums(h, w, T)
  <2>1. \A U \in SUBSET T : g[U] = Folded(w, g, U)
    BY DEF Sums
  <2>2. \A U \in SUBSET T : Folded(w, h, U) = Folded(w, g, U)
    BY DEF Folded
  <2>3. h = [U \in SUBSET T |-> Folded(w, h, U)]
    <3>1. \A U \in SUBSET T : h[U] = Folded(w, h, U)
      BY <2>1, <2>2
    <3>2. h = [U \in SUBSET T |-> h[U]]
      OBVIOUS
    <3> HIDE DEF h
    <3> QED BY <3>1, <3>2
  <2> HIDE DEF h
  <2> QED BY <2>3 DEF Sums
<1> DEFINE t == CHOOSE k : Sums(k, w, T)
<1>4. Sums(t, w, T)
  BY <1>3
<1> HIDE DEF v, t, h
<1>5. t = h
  BY <1>1, <1>2, <1>3, <1>4, OneSum
<1>6. Total(w, T) = h[T]
  BY <1>5 DEF Total, t
<1> QED BY <1>6 DEF h

(* What a sum is worth does not depend on the order: any member may be      *)
(* taken out.                                                               *)
LEMMA TotalIs ==
  ASSUME NEW S, IsFiniteSet(S), NEW w \in [S -> Nat]
  PROVE  /\ Total(w, {}) = 0
         /\ \A T \in SUBSET S : Total(w, T) \in Nat
         /\ \A T \in SUBSET S : \A x \in T : Total(w, T) = w[x] + Total(w, T \ {x})
<1>1. PICK g : Sums(g, w, S)
  BY OneSum
<1>2. g \in [SUBSET S -> Nat] /\ \A T \in SUBSET S : g[T] = Folded(w, g, T)
  <2>1. g \in [SUBSET S -> Nat]
    BY <1>1, OneSum
  <2>2. \A T \in SUBSET S : g[T] = Folded(w, g, T)
    BY <1>1 DEF Sums
  <2> QED BY <2>1, <2>2
<1>3. \A T \in SUBSET S : Total(w, T) = g[T]
  BY <1>1, TotalOfSubset
<1>4. g[{}] = 0
  BY <1>2 DEF Folded
<1> DEFINE Good == {n \in Nat : \A T \in SUBSET S : Cardinality(T) = n =>
                                  \A x \in T : g[T] = w[x] + g[T \ {x}]}
<1>5. \A T \in SUBSET S : IsFiniteSet(T) /\ Cardinality(T) \in Nat
  BY FS_Subset, FS_CardinalityType
<1>6. 0 \in Good
  BY <1>5, FS_EmptySet
<1>7. ASSUME NEW n \in Nat, n \in Good
      PROVE  n + 1 \in Good
  <2>1. ASSUME NEW T \in SUBSET S, Cardinality(T) = n + 1, NEW x \in T
        PROVE  g[T] = w[x] + g[T \ {x}]
    <3> DEFINE y == Chosen(T)
    <3>1. y \in T
      BY DEF Chosen
    <3>2. g[T] = w[y] + g[T \ {y}]
      BY <1>2 DEF Folded
    <3> HIDE DEF y
    <3>3. CASE x = y
      BY <3>2, <3>3
    <3>4. CASE x # y
      <4>1. /\ T \ {y} \in SUBSET S /\ x \in T \ {y} /\ Cardinality(T \ {y}) = n
            /\ T \ {x} \in SUBSET S /\ y \in T \ {x} /\ Cardinality(T \ {x}) = n
        <5>1. Cardinality(T \ {y}) = n /\ Cardinality(T \ {x}) = n
          BY <1>5, <2>1, <3>1, FS_RemoveElement
        <5> QED BY <3>1, <3>4, <5>1
      <4>2. g[T \ {y}] = w[x] + g[(T \ {y}) \ {x}]
        BY <1>7, <4>1
      <4>3. g[T \ {x}] = w[y] + g[(T \ {x}) \ {y}]
        BY <1>7, <4>1
      <4>4. (T \ {y}) \ {x} = (T \ {x}) \ {y}
        OBVIOUS
      <4> DEFINE r == (T \ {x}) \ {y}
      <4>5. r \in SUBSET S
        OBVIOUS
      <4> HIDE DEF r
      <4>6. g[r] \in Nat /\ w[x] \in Nat /\ w[y] \in Nat
        BY <1>2, <3>1, <4>5
      <4>7. g[T \ {y}] = w[x] + g[r] /\ g[T \ {x}] = w[y] + g[r]
        BY <4>2, <4>3, <4>4 DEF r
      <4> QED BY <3>2, <4>6, <4>7
    <3> QED BY <3>3, <3>4
  <2> QED BY <2>1
<1>8. Nat \subseteq Good
  <2> HIDE DEF Good
  <2> QED BY <1>6, <1>7, EveryNumber
<1>9. \A T \in SUBSET S : \A x \in T : g[T] = w[x] + g[T \ {x}]
  BY <1>5, <1>8
<1>10. \A T \in SUBSET S : \A x \in T : T \ {x} \in SUBSET S
  OBVIOUS
<1>11. {} \in SUBSET S
  OBVIOUS
<1> QED BY <1>2, <1>3, <1>4, <1>9, <1>10, <1>11

(* A smaller set has a smaller sum.                                         *)
LEMMA TotalGrows ==
  ASSUME NEW D, IsFiniteSet(D), NEW w \in [D -> Nat], NEW S \in SUBSET D, NEW T \in SUBSET S
  PROVE  Total(w, T) <= Total(w, S)
<1> DEFINE G == {U \in SUBSET (S \ T) : Total(w, T) <= Total(w, T \cup U)}
<1>1. IsFiniteSet(S \ T)
  <2>1. S \ T \in SUBSET D
    OBVIOUS
  <2> QED BY <2>1, FS_Subset
<1>2. {} \in G
  <2>1. T \cup {} = T /\ T \in SUBSET D /\ Total(w, T) \in Nat
    BY TotalIs
  <2> QED BY <2>1
<1>3. ASSUME NEW U \in SUBSET (S \ T), NEW x \in S \ T, U \in G, x \notin U
      PROVE  U \cup {x} \in G
  <2> DEFINE V == T \cup (U \cup {x})
  <2>1. V \in SUBSET D /\ x \in V /\ V \ {x} = T \cup U /\ T \cup U \in SUBSET D
    BY <1>3
  <2> HIDE DEF V
  <2>2. Total(w, V) = w[x] + Total(w, T \cup U)
    BY <2>1, TotalIs
  <2>3. Total(w, T) \in Nat /\ Total(w, T \cup U) \in Nat /\ w[x] \in Nat
    <3>1. T \in SUBSET D
      OBVIOUS
    <3> QED BY <2>1, <3>1, TotalIs
  <2>4. Total(w, T) <= Total(w, V)
    BY <1>3, <2>2, <2>3
  <2> QED BY <1>3, <2>4 DEF V
<1>4. S \ T \in G
  <2> HIDE DEF G
  <2> QED BY <1>1, <1>2, <1>3, EveryFiniteSet
<1>5. T \cup (S \ T) = S
  OBVIOUS
<1> QED BY <1>4, <1>5

-------------------------------------------------------------------------------
(* The mediator lets no slice be overloaded.                                *)

(* A plan on its way to the gateway has passed the check of capacities.     *)
Approved == phase = "dispatch" => ~ CapacityConflict(plan)

LEMMA ApprovedStays == AgentsSpec => []Approved
<1>1. AgentsInit => Approved
  BY DEF AgentsInit, Approved
<1>2. Approved /\ [AgentsNext]_agentVars => Approved'
  <2> SUFFICES ASSUME Approved, [AgentsNext]_agentVars, phase' = "dispatch"
               PROVE  ~ CapacityConflict(plan')
    BY DEF Approved
  <2>1. CASE MediatorApproves
    BY <2>1 DEF MediatorApproves, Conflict, planningVars
  <2>2. CASE UNCHANGED agentVars
    BY <2>2 DEF Approved, agentVars, stageVars, planningVars
  <2>3. CASE StartRun \/ MainRaises \/ MainGrounds \/ MainReuses \/ RoundFails
    BY <2>3 DEF StartRun, MainRaises, MainGrounds, MainReuses, RoundFails, NextRound, EndRun,
       EndStage, BeginStage
  <2>4. CASE PlanBlocked \/ MediatorRevises \/ DispatchSucceeds \/ DispatchRaises \/ DispatchFails
    BY <2>4 DEF PlanBlocked, MediatorRevises, DispatchSucceeds, DispatchRaises, DispatchFails,
       NextRound, EndRun, EndStage
  <2>5. CASE Ground
    BY <2>5 DEF Ground, GroundingInvocationFails, GroundingRunsOut, GroundingUnparsed,
       GroundingUnbuildable, GroundingInvalid, GroundingAccepted, FailAttempt, BeginStage, EndStage
  <2>6. CASE Plan
    BY <2>6 DEF Plan, Strategy, StrategyRefused, StrategyInvocationFails, StrategyUnreadable,
       StrategyInvalid, StrategyCompiled, StrategyUncompiled, FailAttempt, EndStage
  <2> QED BY <2>1, <2>2, <2>3, <2>4, <2>5, <2>6 DEF AgentsNext, Round
<1> QED BY <1>1, <1>2, PTL DEF AgentsSpec

(* Policies on a slice, and what its other flows have.                      *)
On(s) == {policy \in plan.sm : policy.slice = s}
Bandwidths(s) == [policy \in On(s) |-> policy.bandwidth]
Deltas(s) == [policy \in On(s) |-> Delta(policy)]

(* The sums the model speaks of.                                            *)
LEMMA SumsOfPlan ==
    ASSUME NEW s, IsFiniteSet(On(s)), Bandwidths(s) \in [On(s) -> Nat], Deltas(s) \in [On(s) -> Nat]
    PROVE  /\ SliceDelta(plan, s) = Total(Deltas(s), On(s))
           /\ SliceLoad(s) = Total(Bandwidths(s), On(s)) + Total(Allocated, Served(s) \ FlowsOf(plan))
           /\ SliceCapacity(s) = Remaining[s] + Total(Allocated, Served(s))
<1> DEFINE D(g) == [T \in SUBSET On(s) |->
                       IF T = {} THEN 0 ELSE Delta(Chosen(T)) + g[T \ {Chosen(T)}]]
           B(g) == [T \in SUBSET On(s) |->
                       IF T = {} THEN 0 ELSE Chosen(T).bandwidth + g[T \ {Chosen(T)}]]
<1>1. SliceDelta(plan, s) = (CHOOSE g : g = D(g))[On(s)]
  BY DEF SliceDelta, MapThenSumSet, MapThenFoldSet, Chosen, On
<1>2. MapThenSumSet(LAMBDA policy : policy.bandwidth, On(s)) = (CHOOSE g : g = B(g))[On(s)]
  BY DEF MapThenSumSet, MapThenFoldSet, Chosen
<1>3. \A T \in SUBSET On(s) : T # {} => Chosen(T) \in On(s)
  BY DEF Chosen
<1>4. \A g : g = D(g) <=> Sums(g, Deltas(s), On(s))
  <2>1. \A g : \A T \in SUBSET On(s) :
           Folded(Deltas(s), g, T) = IF T = {} THEN 0 ELSE Delta(Chosen(T)) + g[T \ {Chosen(T)}]
    BY <1>3 DEF Folded, Deltas
  <2> QED BY <2>1 DEF Sums
<1>5. \A g : g = B(g) <=> Sums(g, Bandwidths(s), On(s))
  <2>1. \A g : \A T \in SUBSET On(s) :
           Folded(Bandwidths(s), g, T) = IF T = {} THEN 0 ELSE Chosen(T).bandwidth + g[T \ {Chosen(T)}]
    BY <1>3 DEF Folded, Bandwidths
  <2> QED BY <2>1 DEF Sums
<1> HIDE DEF D, B
<1>6. SliceDelta(plan, s) = Total(Deltas(s), On(s))
  <2>1. \E g : Sums(g, Deltas(s), On(s))
    <3>1. PICK S, w : S = On(s) /\ w = Deltas(s)
      OBVIOUS
    <3>2. IsFiniteSet(S) /\ w \in [S -> Nat]
      BY <3>1
    <3>3. \E g : Sums(g, w, S)
      BY <3>2, OneSum
    <3> QED BY <3>1, <3>3
  <2> DEFINE d == CHOOSE g : g = D(g)
             t == CHOOSE g : Sums(g, Deltas(s), On(s))
  <2>2. Sums(t, Deltas(s), On(s))
    BY <2>1
  <2>3. d = D(d)
    <3>1. \E g : g = D(g)
      BY <1>4, <2>1
    <3> QED BY <3>1
  <2> HIDE DEF d, t
  <2>4. d = t
    BY <1>4, <2>2, <2>3, OneSum
  <2> QED BY <1>1, <2>4 DEF Total, d, t
<1>7. MapThenSumSet(LAMBDA policy : policy.bandwidth, On(s)) = Total(Bandwidths(s), On(s))
  <2>1. \E g : Sums(g, Bandwidths(s), On(s))
    <3>1. PICK S, w : S = On(s) /\ w = Bandwidths(s)
      OBVIOUS
    <3>2. IsFiniteSet(S) /\ w \in [S -> Nat]
      BY <3>1
    <3>3. \E g : Sums(g, w, S)
      BY <3>2, OneSum
    <3> QED BY <3>1, <3>3
  <2> DEFINE d == CHOOSE g : g = B(g)
             t == CHOOSE g : Sums(g, Bandwidths(s), On(s))
  <2>2. Sums(t, Bandwidths(s), On(s))
    BY <2>1
  <2>3. d = B(d)
    <3>1. \E g : g = B(g)
      BY <1>5, <2>1
    <3> QED BY <3>1
  <2> HIDE DEF d, t
  <2>4. d = t
    BY <1>5, <2>2, <2>3, OneSum
  <2> QED BY <1>2, <2>4 DEF Total, d, t
<1>8. SliceLoad(s) = Total(Bandwidths(s), On(s)) + Total(Allocated, Served(s) \ FlowsOf(plan))
  BY <1>7, SumIs DEF SliceLoad, On
<1>9. SliceCapacity(s) = Remaining[s] + Total(Allocated, Served(s))
  BY SumIs DEF SliceCapacity
<1> QED BY <1>6, <1>8, <1>9

(* A plan with one policy for a flow has no more policies than flows, and   *)
(* what a policy adds is a number.                                          *)
LEMMA PoliciesFinite ==
    ASSUME plan \in PlanType, OnePolicy, NEW s
    PROVE  /\ IsFiniteSet(On(s))
           /\ Bandwidths(s) \in [On(s) -> Nat]
           /\ Deltas(s) \in [On(s) -> Nat]
<1>1. \A p \in On(s) : p.flow \in Flows /\ p.bandwidth \in Nat /\ Delta(p) \in Nat
  <2>1. \A p \in On(s) : p.flow \in Flows /\ p.bandwidth \in Nat
    BY DEF PlanType, On
  <2> QED BY <2>1, MediationAssumption DEF Delta
<1> DEFINE g == [f \in {p.flow : p \in On(s)} |-> CHOOSE p \in On(s) : p.flow = f]
<1>2. IsFiniteSet({p.flow : p \in On(s)})
  <2>1. {p.flow : p \in On(s)} \subseteq Flows
    BY <1>1
  <2> QED BY <2>1, MediationAssumption, FS_Subset
<1>3. g \in Surjection({p.flow : p \in On(s)}, On(s))
  <2>1. \A p \in On(s) : g[p.flow] = p
    <3> SUFFICES ASSUME NEW p \in On(s)
                 PROVE  (CHOOSE q \in On(s) : q.flow = p.flow) = p
      OBVIOUS
    <3>1. \A q \in On(s) : q.flow = p.flow => q = p
      BY DEF OnePolicy, On
    <3> QED BY <3>1
  <2>2. \A f \in {p.flow : p \in On(s)} : g[f] \in On(s)
    <3> HIDE DEF g
    <3> QED BY <2>1
  <2>3. g \in [{p.flow : p \in On(s)} -> On(s)]
    BY <2>2
  <2> HIDE DEF g
  <2> QED BY <2>1, <2>3 DEF Surjection
<1>4. IsFiniteSet(On(s))
  <2> HIDE DEF g
  <2> QED BY <1>2, <1>3, FS_Surjection
<1> QED BY <1>1, <1>4 DEF Bandwidths, Deltas

(* Policy after policy: what it adds to its slice, beside what its flow had *)
(* there already, is at least its bandwidth.                                *)
LEMMA DeltasCover ==
    ASSUME plan \in PlanType, OnePolicy, NEW s \in Slices
    PROVE  Total(Bandwidths(s), On(s)) + Total(Allocated, Served(s) \ FlowsOf(plan))
               <= Total(Deltas(s), On(s)) + Total(Allocated, Served(s))
<1> DEFINE b == Bandwidths(s)
           d == Deltas(s)
           Gone(T) == {p.flow : p \in T}
           Rest(T) == Served(s) \ Gone(T)
           G == {T \in SUBSET On(s) : Total(b, T) + Total(Allocated, Rest(T))
                                          <= Total(d, T) + Total(Allocated, Served(s))}
<1>1. IsFiniteSet(On(s)) /\ b \in [On(s) -> Nat] /\ d \in [On(s) -> Nat]
  BY PoliciesFinite
<1>2. Served(s) \in SUBSET Flows /\ IsFiniteSet(Flows) /\ Allocated \in [Flows -> Nat]
  BY MediationAssumption DEF Served
<1>3. \A T \in SUBSET On(s) : Total(b, T) \in Nat /\ Total(d, T) \in Nat
  BY <1>1, TotalIs
<1>4. \A U \in SUBSET Flows : Total(Allocated, U) \in Nat
  BY <1>2, TotalIs
<1>5. \A T : Rest(T) \in SUBSET Flows
  BY <1>2
<1>6. {} \in G
  <2>1. Rest({}) = Served(s)
    OBVIOUS
  <2>2. Total(b, {}) = 0 /\ Total(d, {}) = 0
    BY <1>1, TotalIs
  <2>3. Total(Allocated, Served(s)) \in Nat
    BY <1>2, <1>4
  <2> HIDE DEF b, d, Rest
  <2> QED BY <2>1, <2>2, <2>3
<1>7. ASSUME NEW T \in SUBSET On(s), NEW p \in On(s), T \in G, p \notin T
      PROVE  T \cup {p} \in G
  <2> DEFINE U == T \cup {p}
             f == p.flow
  <2>1. U \in SUBSET On(s) /\ p \in U /\ U \ {p} = T
    BY <1>7
  <2>2. f \in Flows /\ p.bandwidth \in Nat /\ Allocated[f] \in Nat /\ p.slice = s
    BY <1>2 DEF PlanType, On
  <2>3. f \notin Gone(T)
    BY <1>7 DEF OnePolicy, On
  <2>4. Rest(U) = Rest(T) \ {f}
    OBVIOUS
  <2>5. b[p] = p.bandwidth /\ d[p] = Delta(p) /\ Delta(p) \in Nat
    BY <1>1 DEF Bandwidths, Deltas
  <2> HIDE DEF U, b, d
  <2>6. Total(b, U) = p.bandwidth + Total(b, T) /\ Total(d, U) = Delta(p) + Total(d, T)
    BY <1>1, <2>1, <2>5, TotalIs
  <2>7. /\ Total(b, T) \in Nat /\ Total(d, T) \in Nat /\ Total(Allocated, Rest(T)) \in Nat
        /\ Total(Allocated, Rest(U)) \in Nat /\ Total(Allocated, Served(s)) \in Nat
    BY <1>2, <1>3, <1>4, <1>5
  <2>8. Total(b, T) + Total(Allocated, Rest(T)) <= Total(d, T) + Total(Allocated, Served(s))
    BY <1>7
  <2>9. CASE f \in Served(s)
    <3>1. f \in Rest(T)
      BY <2>3, <2>9
    <3>2. Total(Allocated, Rest(T)) = Allocated[f] + Total(Allocated, Rest(U))
      BY <1>2, <1>5, <2>4, <3>1, TotalIs
    <3>3. Serving[f] = s
      BY <2>9 DEF Served
    <3>4. p.bandwidth <= Delta(p) + Allocated[f]
      BY <2>2, <3>3 DEF Delta
    <3>5. Total(b, U) + Total(Allocated, Rest(U)) <= Total(d, U) + Total(Allocated, Served(s))
      <4> HIDE DEF f, Rest
      <4> QED BY <2>2, <2>5, <2>6, <2>7, <2>8, <3>2, <3>4
    <3> QED BY <2>1, <3>5 DEF U
  <2>10. CASE f \notin Served(s)
    <3>1. Rest(U) = Rest(T)
      BY <2>4, <2>10
    <3>2. Delta(p) = p.bandwidth
      BY <2>2, <2>10 DEF Delta, Served
    <3>3. Total(b, U) + Total(Allocated, Rest(U)) <= Total(d, U) + Total(Allocated, Served(s))
      <4> HIDE DEF f, Rest
      <4> QED BY <2>2, <2>6, <2>7, <2>8, <3>1, <3>2
    <3> QED BY <2>1, <3>3 DEF U
  <2> QED BY <2>9, <2>10
<1>8. On(s) \in G
  <2> HIDE DEF G
  <2> QED BY <1>1, <1>6, <1>7, EveryFiniteSet
<1>9. Total(Allocated, Served(s) \ FlowsOf(plan)) <= Total(Allocated, Rest(On(s)))
  <2>1. Served(s) \ FlowsOf(plan) \in SUBSET Rest(On(s))
    BY DEF FlowsOf, On
  <2>2. Rest(On(s)) \in SUBSET Flows
    BY <1>5
  <2> HIDE DEF Rest
  <2> QED BY <1>2, <2>1, <2>2, TotalGrows
<1>10. Total(Allocated, Served(s) \ FlowsOf(plan)) \in Nat /\ Total(Allocated, Rest(On(s))) \in Nat
  BY <1>2, <1>4
<1>11. Total(Allocated, Served(s)) \in Nat /\ Total(b, On(s)) \in Nat /\ Total(d, On(s)) \in Nat
  BY <1>2, <1>3, <1>4
<1>12. Total(b, On(s)) + Total(Allocated, Rest(On(s))) <= Total(d, On(s)) + Total(Allocated, Served(s))
  BY <1>8
<1> HIDE DEF Rest
<1> QED BY <1>9, <1>10, <1>11, <1>12

(* With a plan the mediator lets through in force, no slice of the snapshot *)
(* carries more than its capacity.                                          *)
THEOREM ApprovedPlansFit == AgentsSpec => []FitsSnapshot
<1>1. AgentInv /\ Approved => FitsSnapshot
  <2> SUFFICES ASSUME AgentInv, Approved, phase = "dispatch", NEW s \in Slices
               PROVE  SliceLoad(s) <= SliceCapacity(s)
    BY DEF FitsSnapshot
  <2>1. plan \in PlanType /\ OnePolicy
    BY DEF AgentInv, AgentTypeOK
  <2>2. SliceDelta(plan, s) <= Remaining[s]
    <3>1. ~ (SliceDelta(plan, s) > Remaining[s])
      BY DEF Approved, CapacityConflict
    <3>2. SliceDelta(plan, s) \in Nat
      <4>1. SliceDelta(plan, s) = Total(Deltas(s), On(s))
        BY <2>1, PoliciesFinite, SumsOfPlan
      <4>2. Total(Deltas(s), On(s)) \in Nat
        BY <2>1, PoliciesFinite, TotalIs
      <4> QED BY <4>1, <4>2
    <3>3. Remaining[s] \in Nat
      BY MediationAssumption
    <3> QED BY <3>1, <3>2, <3>3
  <2>3. SliceDelta(plan, s) = Total(Deltas(s), On(s))
    BY <2>1, PoliciesFinite, SumsOfPlan
  <2>4. /\ SliceLoad(s) = Total(Bandwidths(s), On(s)) + Total(Allocated, Served(s) \ FlowsOf(plan))
        /\ SliceCapacity(s) = Remaining[s] + Total(Allocated, Served(s))
    BY <2>1, PoliciesFinite, SumsOfPlan
  <2>5. Total(Bandwidths(s), On(s)) + Total(Allocated, Served(s) \ FlowsOf(plan))
           <= Total(Deltas(s), On(s)) + Total(Allocated, Served(s))
    BY <2>1, DeltasCover
  <2>6. /\ Total(Bandwidths(s), On(s)) \in Nat /\ Total(Deltas(s), On(s)) \in Nat
        /\ Total(Allocated, Served(s)) \in Nat /\ Total(Allocated, Served(s) \ FlowsOf(plan)) \in Nat
        /\ Remaining[s] \in Nat
    <3>1. Total(Bandwidths(s), On(s)) \in Nat /\ Total(Deltas(s), On(s)) \in Nat
      BY <2>1, PoliciesFinite, TotalIs
    <3>2. Served(s) \in SUBSET Flows /\ Served(s) \ FlowsOf(plan) \in SUBSET Flows
      BY DEF Served
    <3> QED BY <3>1, <3>2, MediationAssumption, TotalIs
  <2> QED BY <2>2, <2>3, <2>4, <2>5, <2>6
<1> QED BY <1>1, AgentsInvariant, ApprovedStays, PTL

-------------------------------------------------------------------------------
(* Action properties.                                                       *)

(* Gathering loses nothing that was read before.                            *)
LEMMA ReadingsKeep ==
    ASSUME AgentTypeOK, NEW ev \in Readings
    PROVE  /\ evidence.catalog \subseteq ev.catalog
           /\ evidence.searched => ev.searched
           /\ evidence.am # NoUe => ev.am # NoUe
           /\ evidence.read => ev.read
<1>1. PICK calls \in Invocations : ev \in Gathered(calls)
  BY DEF Readings
<1>2. PICK am \in LastRead(calls, "amContext", evidence.am),
           ue \in LastRead(calls, "subscription", NoUe) :
        ev = [catalog   |-> evidence.catalog \cup Read(calls, "catalog"),
              searched  |-> evidence.searched \/ \E c \in calls : c.tool = "search",
              am        |-> am,
              amTargets |-> evidence.amTargets \/ \E c \in calls : c.tool = "amSearch",
              read      |-> evidence.read \/ Read(calls, "subscription") # {},
              entitled  |-> IF ue = NoUe THEN evidence.entitled ELSE Authorized(ue)]
  BY <1>1, SMT DEF Gathered
<1>3. evidence.am # NoUe => am # NoUe
  <2>1. NoUe \notin request.supis
    BY RequestOk, GroundingAssumption DEF RequestTyped, RequestType
  <2> QED BY <2>1 DEF LastRead, Read
<1> QED BY <1>2, <1>3 DEF AgentTypeOK

(* A retry of the grounding stage keeps what the attempts before it read.   *)
THEOREM EvidenceSurvives == AgentsSpec => EvidenceKept
<1>1. ASSUME AgentInv, AgentsNext, phase = "ground", phase' = "ground"
      PROVE  /\ evidence.catalog \subseteq evidence'.catalog
             /\ evidence.searched => evidence'.searched
             /\ evidence.am # NoUe => evidence'.am # NoUe
             /\ evidence.read => evidence'.read
  <2>1. Ground
    BY <1>1 DEF AgentsNext, Round, StartRun, MainRaises, MainGrounds, MainReuses, Plan, Strategy, StrategyRefused,
                StrategyInvocationFails, StrategyUnreadable, StrategyInvalid, StrategyCompiled, StrategyUncompiled,
                RoundFails, PlanBlocked, MediatorRevises, MediatorApproves, DispatchSucceeds, DispatchRaises,
                DispatchFails
  <2>2. evidence' \in Readings \cup {evidence}
    <3>1. \A failed, readings : evidence' \in After(failed, readings) /\ FailAttempt(failed)
                                  => evidence' \in readings
      BY <1>1 DEF After, FailAttempt
    <3>2. ~ GroundingAccepted
      BY <1>1 DEF GroundingAccepted, EndStage, BeginStage
    <3> QED BY <2>1, <3>1, <3>2, Zenon DEF Ground, GroundingInvocationFails, GroundingRunsOut, GroundingUnparsed,
                GroundingUnbuildable, GroundingInvalid
  <2>3. AgentTypeOK
    BY <1>1 DEF AgentInv
  <2> QED BY <2>2, <2>3, ReadingsKeep
<1>2. AgentInv /\ [AgentsNext]_agentVars =>
          [phase = "ground" /\ phase' = "ground" =>
               /\ evidence.catalog \subseteq evidence'.catalog
               /\ evidence.searched => evidence'.searched
               /\ evidence.am # NoUe => evidence'.am # NoUe
               /\ evidence.read => evidence'.read]_agentVars
  BY <1>1
<1> QED BY <1>2, AgentsInvariant, PTL DEF AgentsSpec, EvidenceKept

(* Pairs in lexicographic order, as numbers.                                *)
LEMMA Further ==
    ASSUME NEW a \in Nat, NEW b \in Nat, NEW K \in Nat, NEW x \in Nat, NEW y \in Nat,
           a < b, x < K
    PROVE  b * K + y > a * K + x
<1>1. PICK d \in Nat : b = a + 1 + d
  <2> WITNESS b - a - 1 \in Nat
  <2> QED OBVIOUS
<1>2. b * K = a * K + K + d * K
  BY <1>1
<1>3. d * K \in Nat /\ a * K \in Nat
  OBVIOUS
<1> QED BY <1>2, <1>3

(* A failed attempt ends its stage or is followed by the next.              *)
LEMMA StageAdvances ==
    ASSUME AgentTypeOK, phase \in Advisors, NEW failed, FailAttempt(failed)
    PROVE  phase' = "failed" \/ (phase' = phase /\ attempt' = attempt + 1)
BY StageGoesOn

(* The end of a round ends the run or begins the next round.                *)
LEMMA NextRoundAdvances ==
    ASSUME NEW measured, NextRound(measured)
    PROVE  phase' = "done" \/ (phase' = "main" /\ round' = round + 1)
BY DEF NextRound, EndRun, EndStage

(* The ways a run moves on.                                                 *)
LEMMA StepAdvances ==
    ASSUME AgentInv, AgentsNext, phase # "done"
    PROVE  \/ phase' = "done"
           \/ phase' = "main" /\ round' = round + 1
           \/ round' = round /\ phase' = phase /\ attempt' = attempt + 1
           \/ round' = round /\ phase' # "done" /\ PhaseRank[phase'] > PhaseRank[phase]
<1> DEFINE Advances ==
           \/ phase' = "done"
           \/ phase' = "main" /\ round' = round + 1
           \/ round' = round /\ phase' = phase /\ attempt' = attempt + 1
           \/ round' = round /\ phase' # "done" /\ PhaseRank[phase'] > PhaseRank[phase]
<1> SUFFICES Advances
  OBVIOUS
<1>1. AgentTypeOK
  BY DEF AgentInv
<1>2. CASE MainRaises \/ MainGrounds \/ MainReuses
  BY <1>2 DEF MainRaises, MainGrounds, MainReuses, EndStage, BeginStage, roundVars, PhaseRank
<1>3. CASE Ground /\ UNCHANGED <<planningVars, roundVars>>
  <2>1. round' = round /\ phase = "ground"
    BY <1>3 DEF roundVars, Ground, GroundingInvocationFails, GroundingRunsOut, GroundingUnparsed,
                GroundingUnbuildable, GroundingInvalid, GroundingAccepted
  <2>2. CASE GroundingAccepted
    BY <2>1, <2>2 DEF GroundingAccepted, EndStage, BeginStage, PhaseRank
  <2>3. CASE \E failed \in {"invoke", "parse", "repair", "validation"} : FailAttempt(failed)
    BY <1>1, <2>1, <2>3, StageAdvances DEF Advisors, PhaseRank
  <2> QED BY <1>3, <2>2, <2>3 DEF Ground, GroundingInvocationFails, GroundingRunsOut, GroundingUnparsed,
                GroundingUnbuildable, GroundingInvalid
<1>4. CASE Plan
  <2>1. round' = round /\ phase = "plan"
    BY <1>4 DEF Plan, Strategy, StrategyRefused, StrategyInvocationFails, StrategyUnreadable, StrategyInvalid,
                StrategyCompiled, StrategyUncompiled
  <2>2. CASE StrategyRefused \/ StrategyCompiled \/ StrategyUncompiled
    BY <2>1, <2>2 DEF StrategyRefused, StrategyCompiled, StrategyUncompiled, EndStage, PhaseRank
  <2>3. CASE \E failed \in {"invoke", "repair", "validation"} : FailAttempt(failed)
    BY <1>1, <2>1, <2>3, StageAdvances DEF Advisors, PhaseRank
  <2> QED BY <1>4, <2>2, <2>3 DEF Plan, Strategy, StrategyInvocationFails, StrategyUnreadable, StrategyInvalid
<1>5. CASE RoundFails \/ PlanBlocked \/ MediatorRevises \/ DispatchFails
  BY <1>5, NextRoundAdvances DEF RoundFails, PlanBlocked, MediatorRevises, DispatchFails
<1>6. CASE MediatorApproves
  BY <1>6 DEF MediatorApproves, EndStage, roundVars, PhaseRank
<1>7. CASE DispatchSucceeds \/ DispatchRaises
  BY <1>7 DEF DispatchSucceeds, DispatchRaises, EndRun, EndStage
<1>8. ~ StartRun
  BY DEF StartRun
<1> QED BY <1>2, <1>3, <1>4, <1>5, <1>6, <1>7, <1>8 DEF AgentsNext, Round

(* Every step of a run brings it nearer to its end: the rank of a state     *)
(* only grows and is bounded, so that no run goes on for ever.              *)
THEOREM RunsAdvance == AgentsSpec => RunAdvances
<1> DEFINE K == MaxAttempts + 1
           at == round * 6 + PhaseRank[phase]
<1>1. ASSUME AgentInv, AgentInv', AgentsNext, phase # "done"
      PROVE  Progress' > Progress
  <2>1. /\ K \in Nat /\ round \in Nat /\ round <= MaxRounds /\ MaxRounds \in Nat
        /\ attempt \in Nat /\ attempt < K /\ attempt' \in Nat /\ round' \in Nat
    BY <1>1, StageAssumption, RoundsAssumption DEF AgentInv, AgentTypeOK
  <2>2. PhaseRank[phase] \in 0 .. 5
    BY <1>1 DEF PhaseRank, AgentInv, AgentTypeOK, Phases, Advisors
  <2>3. phase' # "done" => PhaseRank[phase'] \in 0 .. 5
    BY <1>1 DEF PhaseRank, AgentInv, AgentTypeOK, Phases, Advisors
  <2>4. at \in Nat /\ at < (MaxRounds + 1) * 6
    BY <2>1, <2>2
  <2>5. Progress = at * K + attempt
    BY <1>1 DEF Progress
  <2>6. CASE phase' = "done"
    <3>1. Progress' = ((MaxRounds + 1) * 6) * K + 0
      BY <2>1, <2>6 DEF Progress
    <3>2. (MaxRounds + 1) * 6 \in Nat
      BY <2>1
    <3> HIDE DEF K, at
    <3> QED BY <2>1, <2>4, <2>5, <3>1, <3>2, Further
  <2>7. CASE phase' # "done"
    <3>1. Progress' = at' * K + attempt'
      BY <2>7 DEF Progress
    <3>2. at' \in Nat
      BY <2>1, <2>3, <2>7
    <3>3. CASE phase' = phase /\ round' = round /\ attempt' = attempt + 1
      <4>1. at' = at
        BY <3>3
      <4>2. at * K \in Nat
        BY <2>1, <2>4
      <4> HIDE DEF K, at
      <4> QED BY <2>1, <2>5, <3>1, <3>3, <4>1, <4>2
    <3>4. CASE at' > at
      <4> HIDE DEF K, at
      <4> QED BY <2>1, <2>4, <2>5, <3>1, <3>2, <3>4, Further
    <3>5. phase' = "main" /\ round' = round + 1 => at' > at
      BY <2>1, <2>2 DEF PhaseRank
    <3>6. round' = round /\ PhaseRank[phase'] > PhaseRank[phase] => at' > at
      BY <2>1, <2>2, <2>3, <2>7
    <3> QED BY <1>1, <2>7, <3>3, <3>4, <3>5, <3>6, StepAdvances
  <2> QED BY <2>6, <2>7
<1>2. AgentInv /\ AgentInv' /\ [AgentsNext]_agentVars => [phase # "done" => Progress' > Progress]_agentVars
  BY <1>1
<1> QED BY <1>2, AgentsInvariant, PTL DEF AgentsSpec, RunAdvances

-------------------------------------------------------------------------------
(* The refinement of SlicePlacement.                                        *)

EntitledOf == [ue \in Ues |-> Authorized(ue)]

(* The entitlement of the contract is the one the UE store has now.         *)
LEMMA EntitledTyped == AgentTypeOK => EntitledOf \in [Ues -> SUBSET Slices]
BY AuthorizedTyped DEF EntitledOf

(* A decision is a grant of the contract.                                   *)
LEMMA GrantTyped ==
    ASSUME AgentTypeOK
    PROVE  GrantOf \in Placement!Grants \cup {Placement!NoGrant}
<1>1. Movers \subseteq Flows /\ decision.authorized \subseteq Slices
  BY DEF AgentTypeOK, DecisionType, Movers
<1> QED BY <1>1 DEF GrantOf, Placement!Grants, Placement!NoGrant

(* Nothing is placed without a plan.                                        *)
LEMMA Unplaced == Quiet /\ ~ Planned => PlacementOf = {}
BY DEF Quiet, NoPlan, PlacementOf

(* A step outside of a plan may change the decision only.                   *)
LEMMA Decides ==
    ASSUME AgentInv, AgentInv', ~ Planned, ~ Planned', UNCHANGED amAllowed
    PROVE  Placement!Decide
<1>1. /\ AgentTypeOK /\ AgentTypeOK'
      /\ Quiet /\ Quiet'
      /\ GroundedInv'
  BY DEF AgentInv
<1>2. PlacementOf = {} /\ (PlacementOf = {})'
  BY <1>1, Unplaced, PTL
<1>3. EntitledOf' = EntitledOf
  BY DEF EntitledOf, Authorized
<1>4. GrantOf' \in Placement!Grants \cup {Placement!NoGrant}
  <2>1. Movers' \subseteq Flows /\ decision'.authorized \subseteq Slices
    BY <1>1 DEF AgentTypeOK, DecisionType, Movers
  <2> QED BY <2>1 DEF GrantOf, Placement!Grants, Placement!NoGrant
<1>5. \E ue \in Ues : GrantOf'.slices \subseteq EntitledOf[ue]
  <2>1. PICK ue \in request'.supis : decision'.authorized \subseteq Authorized(ue)'
    BY <1>1 DEF GroundedInv, DecisionOk, Entitling
  <2>2. ue \in Ues
    BY <1>1, GroundingAssumption DEF AgentTypeOK, RequestType
  <2>3. GrantOf'.slices \subseteq decision'.authorized
    BY DEF GrantOf
  <2>4. Authorized(ue)' = EntitledOf[ue]
    BY <2>2 DEF EntitledOf, Authorized
  <2> QED BY <2>1, <2>2, <2>3, <2>4
<1> QED BY <1>2, <1>3, <1>4, <1>5 DEF Placement!Decide, EntitledOf

(* A plan is a placement within the decision it was made under.             *)
LEMMA Places ==
    ASSUME AgentInv, AgentInv', ~ Planned, Planned',
           UNCHANGED <<request, decision, amAllowed>>
    PROVE  Placement!Place \/ UNCHANGED <<EntitledOf, GrantOf, PlacementOf>>
<1>1. /\ AgentTypeOK' /\ AgentTypeOK /\ Quiet
      /\ WithinGrant' /\ MigrationAuthorized' /\ BlockedKeepsServing'
  BY DEF AgentInv, PlanSound
<1>2. PlacementOf = {}
  BY <1>1, Unplaced
<1>3. EntitledOf' = EntitledOf /\ GrantOf' = GrantOf
  BY DEF EntitledOf, Authorized, GrantOf, Movers, Blocked
<1>4. CASE plan'.sm = {}
  BY <1>2, <1>3, <1>4 DEF PlacementOf
<1>5. CASE plan'.sm # {}
  <2>1. \A policy \in plan'.sm : policy.flow \in Flows /\ policy.slice \in Slices
    BY <1>1 DEF AgentTypeOK, PlanType
  <2>2. PlacementOf' \in SUBSET [flow : Flows, slice : Slices]
    BY <2>1 DEF PlacementOf
  <2>3. GrantOf # Placement!NoGrant
    <3>1. decision # NoDecision
      BY <1>1, <1>5 DEF WithinGrant, NoDecision
    <3> QED BY <3>1 DEF GrantOf, Placement!NoGrant
  <2>4. \A p \in PlacementOf' :
           /\ GrantOf.kind = "denied" => p.slice = Serving[p.flow]
           /\ GrantOf.kind # "denied" /\ p.flow \in GrantOf.movers =>
                  p.slice \in GrantOf.slices \ {Serving[p.flow]}
    <3> SUFFICES ASSUME NEW policy \in plan'.sm
                 PROVE  /\ GrantOf.kind = "denied" => policy.slice = Serving[policy.flow]
                        /\ GrantOf.kind # "denied" /\ policy.flow \in GrantOf.movers =>
                               policy.slice \in GrantOf.slices \ {Serving[policy.flow]}
      BY DEF PlacementOf
    <3>1. /\ GrantOf.kind = "denied" => Blocked
          /\ GrantOf.kind # "denied" => ~ Blocked \/ decision = NoDecision
          /\ GrantOf.movers = Movers \/ GrantOf.movers = {}
          /\ decision # NoDecision => GrantOf.slices = decision.authorized
      BY DEF GrantOf
    <3>2. Blocked => policy.slice = Serving[policy.flow]
      BY <1>1 DEF BlockedKeepsServing, Blocked
    <3>3. ~ Blocked /\ policy.flow \in Movers =>
              policy.slice \in decision.authorized \ {Serving[policy.flow]}
      BY <1>1 DEF MigrationAuthorized, WithinGrant, Blocked, Movers, Leaving
    <3>4. decision = NoDecision => GrantOf.movers = {}
      BY DEF GrantOf
    <3> QED BY <3>1, <3>2, <3>3, <3>4
  <2> QED BY <1>2, <1>3, <2>2, <2>3, <2>4 DEF Placement!Place, EntitledOf
<1> QED BY <1>4, <1>5

(* The end of a plan, with whatever it left in the UE store.                *)
LEMMA Withdraws ==
    ASSUME AgentInv, AgentInv', plan' = NoPlan, decision' \in {decision, NoDecision}
    PROVE  Placement!Withdraw
<1>1. PlacementOf' = {}
  BY DEF PlacementOf, NoPlan
<1>2. GrantOf' \in {GrantOf, Placement!NoGrant}
  BY DEF GrantOf, Movers, Blocked, Placement!NoGrant
<1>3. (EntitledOf \in [Ues -> SUBSET Slices])'
  <2>1. AgentTypeOK'
    BY DEF AgentInv
  <2> QED BY <2>1, EntitledTyped, PTL
<1> QED BY <1>1, <1>2, <1>3 DEF Placement!Withdraw, EntitledOf

(* Every step of the agents is one of SlicePlacement, or none.              *)
LEMMA PlacementStep ==
    ASSUME AgentInv, AgentInv', AgentsNext
    PROVE  Placement!PlacementNext \/ UNCHANGED <<EntitledOf, GrantOf, PlacementOf>>
<1>1. CASE StartRun \/ MainRaises \/ MainGrounds \/ MainReuses \/ RoundFails
  <2>1. ~ Planned /\ ~ Planned' /\ UNCHANGED amAllowed
    BY <1>1, NextRoundAdvances
       DEF StartRun, MainRaises, MainGrounds, MainReuses, RoundFails, EndStage, BeginStage, Planned, groundingVars
  <2> QED BY <2>1, Decides DEF Placement!PlacementNext
<1>2. CASE Ground /\ UNCHANGED <<planningVars, roundVars>>
  <2>1. ~ Planned /\ ~ Planned' /\ UNCHANGED amAllowed
    BY <1>2 DEF Ground, GroundingInvocationFails, GroundingRunsOut, GroundingUnparsed, GroundingUnbuildable,
                GroundingInvalid, GroundingAccepted, FailAttempt, BeginStage, EndStage, Planned
  <2> QED BY <2>1, Decides DEF Placement!PlacementNext
<1>3. CASE Plan
  <2>1. ~ Planned /\ UNCHANGED <<request, decision, amAllowed>>
    BY <1>3 DEF Plan, Strategy, StrategyRefused, StrategyInvocationFails, StrategyUnreadable, StrategyInvalid,
                StrategyCompiled, StrategyUncompiled, Planned, groundingVars
  <2> QED BY <2>1, Decides, Places DEF Placement!PlacementNext
<1>4. CASE MediatorApproves
  BY <1>4 DEF MediatorApproves, groundingVars, planningVars, EntitledOf, Authorized, GrantOf, Movers, Blocked,
              PlacementOf
<1>5. CASE PlanBlocked \/ MediatorRevises \/ DispatchSucceeds \/ DispatchRaises \/ DispatchFails
  <2>1. plan' = NoPlan
    BY <1>5 DEF PlanBlocked, MediatorRevises, DispatchSucceeds, DispatchRaises, DispatchFails
  <2>2. decision' \in {decision, NoDecision}
    BY <1>5 DEF PlanBlocked, MediatorRevises, DispatchSucceeds, DispatchRaises, DispatchFails, NextRound, EndRun
  <2> QED BY <2>1, <2>2, Withdraws DEF Placement!PlacementNext
<1> QED BY <1>1, <1>2, <1>3, <1>4, <1>5 DEF AgentsNext, Round

(* And it holds before the first run of the loop.                           *)
LEMMA PlacementStarts == AgentsInit => Placement!PlacementInit
<1> SUFFICES ASSUME AgentsInit PROVE Placement!PlacementInit
  OBVIOUS
<1>1. AgentInv
  BY AgentsStart
<1>2. EntitledOf \in [Ues -> SUBSET Slices]
  BY <1>1, EntitledTyped DEF AgentInv
<1>3. GrantOf = Placement!NoGrant /\ PlacementOf = {}
  BY DEF AgentsInit, GrantOf, Placement!NoGrant, PlacementOf, NoPlan
<1> QED BY <1>2, <1>3 DEF Placement!PlacementInit, EntitledOf

(* The agents keep the contract of slice placement, for all answers of the  *)
(* models: a refinement mapping takes each of their steps to a step of      *)
(* SlicePlacement or to none.                                               *)
THEOREM AgentsImplementPlacement == AgentsSpec => ImplementsPlacement
<1>1. ASSUME AgentInv, AgentInv', [AgentsNext]_agentVars
      PROVE  [Placement!PlacementNext]_<<EntitledOf, GrantOf, PlacementOf>>
  <2>1. CASE AgentsNext
    BY <1>1, <2>1, PlacementStep
  <2>2. CASE UNCHANGED agentVars
    BY <2>2 DEF agentVars, groundingVars, planningVars, EntitledOf, Authorized, GrantOf, Movers, Blocked,
                PlacementOf
  <2> QED BY <1>1, <2>1, <2>2
<1> QED BY <1>1, PlacementStarts, AgentsInvariant, PTL
        DEF AgentsSpec, ImplementsPlacement, Placement!PlacementSpec, EntitledOf
=============================================================================
