------------------------------ MODULE RoundAgents ------------------------------
(***************************************************************************)
(* The agents of the control loop over the rounds of one run, and over     *)
(* several runs for the same UEs: Main routes a round to the intent        *)
(* encoding agent or, reusing the previous grounding, to the strategy      *)
(* agent; the plan is mediated and dispatched, and what the dispatch       *)
(* measured constrains the next round.  ControlLoop is the same loop with  *)
(* the agents' answers left open and the dispatch in full.                 *)
(***************************************************************************)
EXTENDS Mediation

CONSTANT MaxRounds   \* rounds of a run

ASSUME RoundsAssumption == MaxRounds \in Nat \ {0}

VARIABLES round,      \* round of the run, 0 outside of one
          previous,   \* grounding of the last round that had a plan
          missed      \* what the last round measured as infeasible

roundVars == <<round, previous, missed>>
agentVars == <<stageVars, groundingVars, planningVars, roundVars>>

NoPrevious == [NoDecision EXCEPT !.open = TRUE]

Phases == Advisors \cup {"main", "mediate", "dispatch", "failed", "done"}

AgentsInit ==
    /\ phase = "done" /\ attempt = 0
    /\ request \in Requests
    /\ evidence = NoEvidence /\ decision = NoDecision
    /\ amAllowed = InitialAm
    /\ preview = NoPreview /\ plan = NoPlan /\ floors = << >> /\ stable = FALSE
    /\ round = 0
    /\ previous = NoPrevious /\ missed = {}

(* A run of the loop for a request.  Only the UE store is left of the run   *)
(* before.                                                                  *)
StartRun ==
    /\ phase = "done"
    /\ request' \in Requests
    /\ round' = 1
    /\ EndStage("main")
    /\ UNCHANGED <<evidence, decision, amAllowed, planningVars, previous, missed>>

EndRun ==
    /\ EndStage("done")
    /\ floors' = << >> /\ missed' = {} /\ stable' = FALSE
    /\ previous' = NoPrevious /\ decision' = NoDecision
    /\ round' = 0

(* The loop goes on with what the last round reported, or ends.             *)
NextRound(measured) ==
    IF round = MaxRounds THEN EndRun
    ELSE /\ EndStage("main")
         /\ round' = round + 1
         /\ floors' = [f \in {m.flow : m \in measured} |->
                          1 + Max({m.latency : m \in {x \in measured : x.flow = f}})]
         /\ missed' = measured
         /\ UNCHANGED <<stable, previous, decision>>

RoundFails ==
    /\ phase = "failed"
    /\ NextRound({})
    /\ UNCHANGED <<request, evidence, amAllowed, preview, plan>>

MainRaises ==
    /\ phase = "main"
    /\ EndStage("failed")
    /\ UNCHANGED <<groundingVars, planningVars, roundVars>>

(* compile_global_intent: the first round regrounds in full, later ones are *)
(* of the scope Main names.                                                 *)
Scope == IF round = 1 THEN {FALSE} ELSE BOOLEAN

(* A grounding no later round can read is forgotten.                        *)
ForLater(grounding) == IF round < MaxRounds THEN grounding ELSE NoPrevious

(* Main decides anew in every round; the UEs and the wording are the        *)
(* user's.                                                                  *)
MainDecides ==
    request' \in {r \in Requests : r.supis = request.supis
                       /\ r.provisioning = request.provisioning /\ r.amNamed = request.amNamed}

MainGrounds ==
    /\ phase = "main"
    /\ MainDecides
    /\ stable' \in Scope
    /\ decision' = NoDecision
    /\ previous' = ForLater(previous)
    /\ BeginStage("ground")
    /\ UNCHANGED <<evidence, amAllowed, preview, plan, floors, round, missed>>

(* should_reuse_grounding_decision.                                         *)
Reusable ==
    /\ round > 1
    /\ ~ previous.open
    /\ Cardinality(request.supis) = 1 => previous.ues \subseteq request.supis

MainReuses ==
    /\ phase = "main"
    /\ Reusable
    /\ MainDecides
    /\ stable' \in Scope
    /\ decision' = previous
    /\ previous' = ForLater(previous)
    /\ BeginStage("plan")
    /\ UNCHANGED <<evidence, amAllowed, preview, plan, floors, round, missed>>

PlanBlocked ==
    /\ phase = "mediate"
    /\ ~ Dispatchable(plan)
    /\ NextRound({})
    /\ plan' = NoPlan
    /\ UNCHANGED <<request, evidence, amAllowed, preview>>

(* Other conflicts than the two modelled may stop a plan as well.           *)
MediatorRevises ==
    /\ phase = "mediate"
    /\ Dispatchable(plan)
    /\ NextRound({})
    /\ plan' = NoPlan
    /\ UNCHANGED <<request, evidence, amAllowed, preview>>

MediatorApproves ==
    /\ phase = "mediate"
    /\ Dispatchable(plan)
    /\ ~ Conflict(plan)
    /\ EndStage("dispatch")
    /\ UNCHANGED <<groundingVars, planningVars, roundVars>>

(* commit_applied_policy_plan, as far as the entitlement of a later run     *)
(* reads it.                                                                *)
CommitAm ==
    IF plan.ue = NoUe THEN UNCHANGED amAllowed
    ELSE amAllowed' = [amAllowed EXCEPT ![plan.ue] = plan.allowed]

DispatchSucceeds ==
    /\ phase = "dispatch"
    /\ CommitAm
    /\ EndRun
    /\ plan' = NoPlan
    /\ UNCHANGED <<request, evidence, preview>>

(* An exception of the commit escapes the run, before or after the store    *)
(* has the AM policy.                                                       *)
DispatchRaises ==
    /\ phase = "dispatch"
    /\ CommitAm \/ UNCHANGED amAllowed
    /\ EndRun
    /\ plan' = NoPlan
    /\ UNCHANGED <<request, evidence, preview>>

(* The policies were refused, or missed the latency of some flows.          *)
DispatchFails ==
    /\ phase = "dispatch"
    /\ \E flows \in SUBSET FlowsOf(plan) :
           NextRound({[flow |-> p.flow, latency |-> p.latency] :
                         p \in {q \in plan.sm : q.flow \in flows}})
    /\ plan' = NoPlan
    /\ UNCHANGED <<request, evidence, amAllowed, preview>>

(* The plan of the round makes its grounding the previous one.              *)
Plan ==
    /\ Strategy
    /\ previous' = IF phase' = "mediate" THEN ForLater(decision) ELSE previous
    /\ UNCHANGED <<round, missed>>

Round ==
    \/ MainRaises
    \/ MainGrounds
    \/ MainReuses
    \/ Ground /\ UNCHANGED <<planningVars, roundVars>>
    \/ Plan
    \/ RoundFails
    \/ PlanBlocked
    \/ MediatorRevises
    \/ MediatorApproves
    \/ DispatchSucceeds
    \/ DispatchRaises
    \/ DispatchFails

AgentsNext == StartRun \/ Round

AgentsSpec == AgentsInit /\ [][AgentsNext]_agentVars

-------------------------------------------------------------------------------
(* Properties.                                                              *)

(* Types, and a stage never makes more than MaxAttempts attempts: an        *)
(* attempt is under way exactly while a stage runs.                         *)
AgentTypeOK ==
    /\ phase \in Phases
    /\ attempt \in 0 .. MaxAttempts
    /\ attempt > 0 <=> phase \in Advisors
    /\ request \in Requests
    /\ evidence \in EvidenceType
    /\ decision \in DecisionType /\ previous \in DecisionType
    /\ amAllowed \in [Ues -> SUBSET Slices]
    /\ preview \in PreviewType
    /\ plan \in PlanType
    /\ DOMAIN floors \subseteq Flows /\ \A f \in DOMAIN floors : floors[f] \in Nat
    /\ stable \in BOOLEAN
    /\ round \in 0 .. MaxRounds
    /\ missed \subseteq [flow : Flows, latency : Nat]

Planned == phase \in {"mediate", "dispatch"}

(* A tool answers for any UE the advisor asks about, and a decision may be  *)
(* one of an earlier round; still, a flow that is handed to the strategy    *)
(* agent as resolved is one of the request's UEs, and so is the UE whose AM *)
(* association goes along (_refresh_intent_evidence_from_tool_results).  An *)
(* unresolved binding has no such check and may carry the flow of anyone:   *)
(* it is the one way a plan can be for a UE that was not asked about, and   *)
(* of a request for one UE it never is (_planning_supi).                    *)
HandoffGrounded ==
    phase = "plan" \/ Planned =>
        /\ \A f \in decision.resolved : Owner[f] \in request.supis
        /\ decision.am \in request.supis \cup {NoUe}
        /\ \/ plan.ue \in request.supis \cup {NoUe}
           \/ /\ Cardinality(request.supis) # 1
              /\ \E f \in decision.flows \ decision.resolved : Owner[f] = plan.ue

(* A plan takes every flow that must move away from its slice, and one that *)
(* was resolved to a slice that a UE of the request may use at that very    *)
(* moment, although the advisor's target, the optimizer's choice and the    *)
(* entitlement read come from three places                                  *)
(* (_migration_target_is_unauthorized).  The target of an unresolved flow   *)
(* is not looked up: the optimizer moves it where there is room.            *)
MigrationAuthorized ==
    Planned /\ ~ Blocked =>
        \A policy \in plan.sm :
            /\ policy.flow \in Leaving => policy.slice # Serving[policy.flow]
            /\ policy.flow \in Movers =>
                   \E ue \in request.supis : policy.slice \in Authorized(ue)

(* The two domains of a joint plan agree: a slice a flow is put on is both  *)
(* allowed and targeted by the AM policy, whatever slices the advisor chose *)
(* for it (assemble_policy_plan).                                           *)
JointPlanAgrees ==
    Planned /\ plan.status = "executable_plan" /\ request.domains = Domains =>
        {policy.slice : policy \in plan.sm} \subseteq plan.allowed \cap plan.target

(* A migration the grounding has blocked leaves no trace in the plan: no AM *)
(* or URSP policy, and no flow, not even one that was not to move, leaves   *)
(* its slice (_enforce_entitlement_limited_execution_boundary).             *)
BlockedKeepsServing ==
    Planned /\ Blocked =>
        /\ plan.allowed = {} /\ ~ plan.ursp
        /\ \A policy \in plan.sm : policy.slice = Serving[policy.flow]

(* An executable plan answers every latency the dispatch before it missed:  *)
(* it keeps the flow and asks for more time                                 *)
(* (_validate_pda_qos_retry_constraints).                                   *)
MissAnswered ==
    Planned /\ plan.status = "executable_plan" /\ "qos" \in request.domains =>
        \A m \in missed : \E policy \in plan.sm :
            policy.flow = m.flow /\ policy.latency > m.latency

Served(s) == {f \in Flows : Serving[f] = s}

SliceCapacity(s) == Remaining[s] + MapThenSumSet(LAMBDA f : Allocated[f], Served(s))

(* Load of a slice with the plan in force.                                  *)
SliceLoad(s) ==
    MapThenSumSet(LAMBDA policy : policy.bandwidth, {p \in plan.sm : p.slice = s})
        + MapThenSumSet(LAMBDA f : Allocated[f], Served(s) \ FlowsOf(plan))

(* What the mediator lets through fits: with the plan in force no slice of  *)
(* the snapshot carries more than its capacity, whatever flows come, stay   *)
(* and go (the mediator's sum of deltas against the remaining bandwidth).   *)
FitsSnapshot == phase = "dispatch" => \A s \in Slices : SliceLoad(s) <= SliceCapacity(s)

(* The AM policy for the one UE of a request is for that UE's association   *)
(* whenever the grounding has read it, whichever UE the strategy advisor    *)
(* inspected (_resolve_am_association_id).                                  *)
AssociationOfItsUe ==
    Planned /\ plan.ue # NoUe /\ decision.am # NoUe /\ Cardinality(request.supis) = 1 =>
        plan.association = plan.ue

(* While a grounding stage goes on, no attempt loses what the ones before   *)
(* it read (prepare_advisor_retry).                                         *)
EvidenceKept ==
    [][phase = "ground" /\ phase' = "ground" =>
           /\ evidence.catalog \subseteq evidence'.catalog
           /\ evidence.searched => evidence'.searched
           /\ evidence.am # NoUe => evidence'.am # NoUe
           /\ evidence.read => evidence'.read]_agentVars

(* How far a run has come.                                                  *)
PhaseRank == [main |-> 0, ground |-> 1, plan |-> 2, mediate |-> 3, dispatch |-> 4, failed |-> 5]

Progress ==
    IF phase = "done" THEN (MaxRounds + 1) * 6 * (MaxAttempts + 1)
    ELSE (round * 6 + PhaseRank[phase]) * (MaxAttempts + 1) + attempt

(* Whatever the models answer and the tools do, every step of a run takes   *)
(* it nearer to its end, so that no run of the loop goes on for ever.       *)
RunAdvances == [][phase # "done" => Progress' > Progress]_agentVars

GrantOf ==
    IF decision = NoDecision THEN [kind |-> "none", movers |-> {}, slices |-> {}]
    ELSE [kind |-> IF Blocked THEN "denied" ELSE IF Movers = {} THEN "open" ELSE "granted",
          movers |-> Movers, slices |-> decision.authorized]

PlacementOf == {[flow |-> policy.flow, slice |-> policy.slice] : policy \in plan.sm}

Placement == INSTANCE SlicePlacement
                 WITH entitled <- [ue \in Ues |-> Authorized(ue)],
                      grant <- GrantOf, placed <- PlacementOf

(* The agents keep the contract of slice placement: every decision, read or *)
(* reused, is backed by the entitlement of a UE at the time it is taken,    *)
(* and every plan stays inside the decision it was made under.  The grant   *)
(* names the resolved flows: no more of them was checked.                   *)
ImplementsPlacement == Placement!PlacementSpec
=============================================================================
