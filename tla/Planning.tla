-------------------------------- MODULE Planning --------------------------------
(***************************************************************************)
(* The optimization strategy agent (OSA).  Its advisor previews the joint  *)
(* optimizer, inspects the UE's mobility policies and proposes policies;   *)
(* runtime code bounds the proposal by the entitlement the grounding       *)
(* decision carries, checks it and compiles the policy plan, in which the  *)
(* optimizer and not the advisor says on which slice a flow runs.          *)
(***************************************************************************)
EXTENDS Grounding

CONSTANTS Serving,          \* slice each flow runs on in the session's snapshot
          Granted,          \* bandwidth the optimizer grants a flow it places
          PlanningAnswers   \* objects the advisor may return

PlanningStatus == {"executable_plan", "partial_plan", "needs_upstream_reground"}

ProposalType == [status : PlanningStatus, sm : SUBSET Flows, bandwidth : Nat, latency : Nat,
                 allowed : SUBSET Slices, target : SUBSET Slices, ursp : BOOLEAN,
                 partial : BOOLEAN]

(* What OsaAdvisorOutput and AmPolicySpec refuse to hold, the advisor's     *)
(* loop never returns.                                                      *)
WellFormedProposal(p) ==
    /\ p.target \subseteq p.allowed
    /\ p.allowed # {} => p.target # {}
    /\ p.status = "needs_upstream_reground" => p.sm = {} /\ p.allowed = {} /\ ~ p.ursp
    /\ p.status = "partial_plan" => p.sm # {} \/ p.allowed # {} \/ p.ursp \/ p.partial

ASSUME PlanningAssumption ==
    /\ Serving \in [Flows -> Slices]
    /\ Granted \in [Flows -> Nat]
    /\ PlanningAnswers \subseteq ProposalType
    /\ \A p \in PlanningAnswers : WellFormedProposal(p)

VARIABLES preview,   \* optimizer result cached for the stage
          plan,      \* PolicyPlanDraft
          floors,    \* qos_retry_constraints: measured latency floor of a flow
          stable     \* Main's retry scope is target_stable

planningVars == <<preview, plan, floors, stable>>

(* place is empty when there is no feasible result.                         *)
PreviewType == [ran : BOOLEAN, feasible : BOOLEAN, place : UNION {[F -> Slices] : F \in SUBSET Flows}]
NoPreview   == [ran |-> FALSE, feasible |-> FALSE, place |-> << >>]
Infeasible  == [ran |-> TRUE, feasible |-> FALSE, place |-> << >>]

PlanType == [status : PlanningStatus \cup {"none"},
             sm : SUBSET [flow : Flows, slice : Slices, bandwidth : Nat, latency : Nat],
             ue : Ues \cup {NoUe}, association : Ues \cup {NoUe},
             allowed : SUBSET Slices, target : SUBSET Slices, ursp : BOOLEAN]
NoPlan   == [status |-> "none", sm |-> {}, ue |-> NoUe, association |-> NoUe,
             allowed |-> {}, target |-> {}, ursp |-> FALSE]

-------------------------------------------------------------------------------
(* Evidence of the stage.                                                   *)

Blocked == decision.kind \in BlockedKinds

(* _required_slice_change_constraints: a constraint on a flow that was not  *)
(* resolved names no source slice and is dropped.                           *)
Movers == decision.movers \cap decision.resolved

(* Flows the optimizer is made to move: its request takes the source slice  *)
(* from the snapshot, which knows the flow of an unresolved binding too.    *)
Leaving == decision.movers \cap decision.flows

(* Mutant: a blocked migration is left to the optimizer.                    *)
PlacementsUnbounded ==
    {place \in [decision.flows -> Slices] :
        ~ Blocked => \A f \in Leaving : place[f] # Serving[f]}

(* Placements build_optimizer_request leaves to the optimizer: under a      *)
(* blocked migration every flow keeps its slice, otherwise a flow that must *)
(* move leaves it and any other flow may.                                   *)
Placements ==
    {place \in [decision.flows -> Slices] :
        /\ Blocked => \A f \in decision.flows : place[f] = Serving[f]
        /\ ~ Blocked => \A f \in Leaving : place[f] # Serving[f]}

(* preview_qos_optimizer runs once in a stage: later calls, in this attempt *)
(* or a later one, return the first result.                                 *)
Previews ==
    IF preview.ran THEN {preview}
    ELSE {Infeasible} \cup {[ran |-> TRUE, feasible |-> TRUE, place |-> place] : place \in Placements}

(* What one invocation leaves: did it call the preview, what the stage's    *)
(* cache holds then, and the UE whose mobility policies it inspected last.  *)
StrategyTurns ==
    {[called |-> FALSE, seen |-> preview, context |-> NoUe]}
    \cup (IF "qos" \in request.domains
          THEN [called : {TRUE}, seen : Previews, context : {NoUe}] ELSE {})
    \cup (IF "mobility" \in request.domains
          THEN [called : {FALSE}, seen : {preview}, context : Ues] ELSE {})
    \cup (IF request.domains = Domains
          THEN [called : {TRUE}, seen : Previews, context : Ues] ELSE {})

Placed(turn, flows) == turn.seen.feasible /\ flows \subseteq DOMAIN turn.seen.place

-------------------------------------------------------------------------------
(* Bounding and checking the proposal.                                      *)

(* _enforce_entitlement_limited_execution_boundary.                         *)
Bounded(p) ==
    IF ~ Blocked THEN p
    ELSE [p EXCEPT !.allowed = {}, !.target = {}, !.ursp = FALSE,
                   !.status = IF p.sm # {} \/ p.partial THEN "partial_plan" ELSE p.status]

Moved(turn) == {f \in Movers : Placed(turn, {f}) /\ turn.seen.place[f] # Serving[f]}

(* Mutant: the slice selected for a flow that must move is not looked up.   *)
TargetUnauthorizedUnchecked(turn) == Movers # {} /\ decision.authorized = {}

(* _migration_target_is_unauthorized.                                       *)
TargetUnauthorized(turn) ==
    /\ Movers # {}
    /\ \/ decision.authorized = {}
       \/ \E f \in Moved(turn) : turn.seen.place[f] \notin decision.authorized

PoliciesOf(p) == p.sm # {} \/ p.allowed # {} \/ p.ursp

(* The rules for a migration the decision does not let happen.              *)
BlockedOk(p, turn) ==
    /\ p.status = "partial_plan"
    /\ p.allowed = {} /\ ~ p.ursp
    /\ p.sm # {} => \A f \in Movers :
           /\ Placed(turn, {f})
           /\ turn.seen.place[f] = Serving[f]
           /\ decision.authorized # {} => Serving[f] \in decision.authorized

DomainsCovered(p) ==
    /\ p.sm # {} => "qos" \in request.domains
    /\ p.allowed # {} => "mobility" \in request.domains
    /\ p.status = "executable_plan" =>
           /\ "qos" \in request.domains => p.sm # {}
           /\ "mobility" \in request.domains => p.allowed # {}

MigrationTargeted(p, turn) ==
    p.status = "executable_plan" /\ Movers # {} /\ ~ Blocked =>
        /\ p.sm # {} /\ p.allowed # {}
        /\ \A f \in Moved(turn) : turn.seen.place[f] \in p.target

(* _validate_required_slice_changes.                                        *)
MoversMoved(turn) == \A f \in Movers : Placed(turn, {f}) => f \in Moved(turn)

(* A feasible preview of every flow leaves no reason not to execute.        *)
MustExecute(turn) ==
    /\ "qos" \in request.domains
    /\ decision.flows # {} /\ Placed(turn, decision.flows)
    /\ ~ Blocked /\ MoversMoved(turn)

EvidenceSupports(p, turn) ==
    /\ p.sm # {} =>
           /\ p.sm \subseteq decision.flows
           /\ Placed(turn, p.sm)
           /\ Blocked \/ MoversMoved(turn)
    /\ p.allowed # {} => turn.context # NoUe

(* validate_advisor_output finds nothing to object to.  A migration takes   *)
(* both domains, which a reused decision may have had and the round not.    *)
ProposalOk(p, turn) ==
    /\ Blocked => BlockedOk(p, turn)
    /\ IF ~ Blocked /\ TargetUnauthorized(turn)
       THEN p.status # "executable_plan" /\ ~ PoliciesOf(p)
       ELSE IF ~ Blocked /\ Movers # {} /\ "mobility" \notin request.domains
       THEN p.status = "needs_upstream_reground" /\ ~ PoliciesOf(p)
       ELSE /\ DomainsCovered(p)
            /\ MigrationTargeted(p, turn)
            /\ MustExecute(turn) => p.status = "executable_plan"
            /\ EvidenceSupports(p, turn)
            /\ stable /\ p.sm # {} => p.sm = decision.flows

-------------------------------------------------------------------------------
(* Compiling the plan.                                                      *)

Selected(p, turn) == {turn.seen.place[f] : f \in p.sm}

(* The UE the plan is for: the request's, or of several the one of the      *)
(* first binding that is attributed to any.                                 *)
PlanUes == IF Cardinality(request.supis) = 1 THEN request.supis
           ELSE IF decision.ues = {} THEN {NoUe} ELSE decision.ues

(* Mutant: the association is the one of whichever UE was inspected.        *)
AssociationInspected(turn) == turn.context

(* The association the grounding decision carries, else the inspected one.  *)
Association(turn) == IF decision.am # NoUe THEN decision.am ELSE turn.context

(* Mutant: the slices the optimizer chose are not added to the AM policy.   *)
CompiledAdvisorSlices(p, turn, ue) ==
    [status |-> p.status, ursp |-> p.ursp,
     sm |-> {[flow |-> f, slice |-> turn.seen.place[f], latency |-> p.latency,
              bandwidth |-> IF turn.called THEN Granted[f] ELSE p.bandwidth] : f \in p.sm},
     ue |-> IF p.allowed = {} THEN NoUe ELSE ue,
     association |-> IF p.allowed = {} THEN NoUe ELSE Association(turn),
     allowed |-> p.allowed, target |-> p.target]

(* assemble_policy_plan.  The optimizer's slices are added to what the AM   *)
(* policy allows and targets; its bandwidths replace the advisor's unless   *)
(* they come from the cache of an earlier attempt, which carries none.      *)
Compiled(p, turn, ue) ==
    [status |-> p.status, ursp |-> p.ursp,
     sm |-> {[flow |-> f, slice |-> turn.seen.place[f], latency |-> p.latency,
              bandwidth |-> IF turn.called THEN Granted[f] ELSE p.bandwidth] : f \in p.sm},
     ue |-> IF p.allowed = {} THEN NoUe ELSE ue,
     association |-> IF p.allowed = {} THEN NoUe ELSE Association(turn),
     allowed |-> IF p.allowed = {} THEN {} ELSE p.allowed \cup Selected(p, turn),
     target |-> IF p.allowed = {} THEN {} ELSE p.target \cup Selected(p, turn)]

FlowsOf(pl) == {policy.flow : policy \in pl.sm}

(* Mutant: a measured flow the plan leaves out does not count.              *)
FloorsKeptIfPlanned(pl) ==
    \A policy \in pl.sm : policy.flow \in DOMAIN floors => policy.latency >= floors[policy.flow]

(* _validate_pda_qos_retry_constraints.                                     *)
FloorsKept(pl) ==
    \A f \in DOMAIN floors : \E policy \in pl.sm :
        policy.flow = f /\ policy.latency >= floors[f]

(* validate_compiled_plan: a partial plan must hold something, and only an  *)
(* executable one is held to the floors, the scope and the joint slices.    *)
PlanOk(pl, p, turn) ==
    /\ pl.association # NoUe => pl.association = turn.context
    /\ p.status = "partial_plan" => PoliciesOf(p) \/ p.partial
    /\ p.status = "executable_plan" =>
           /\ PoliciesOf(p)
           /\ "qos" \in request.domains => FloorsKept(pl)
           /\ stable /\ decision.flows # {} => FlowsOf(pl) = decision.flows
           /\ request.domains = Domains =>
                  {policy.slice : policy \in pl.sm} \subseteq pl.allowed

-------------------------------------------------------------------------------
(* Ends of an attempt.                                                      *)

(* The cache goes with the stage.                                           *)
Kept(failed, turns) ==
    IF turns = {} \/ MayRetry(failed) THEN {turn.seen : turn \in turns} ELSE {NoPreview}

(* A QoS round needs flows in the decision, resolved or not.                *)
Plannable == "qos" \in request.domains => decision.bound

(* Without them the advisor is not asked: the plan asks for a new grounding.*)
StrategyRefused ==
    /\ phase = "plan"
    /\ ~ Plannable
    /\ plan' = [NoPlan EXCEPT !.status = "needs_upstream_reground"]
    /\ EndStage("mediate")
    /\ UNCHANGED <<groundingVars, preview, floors, stable>>

StrategyInvocationFails ==
    /\ phase = "plan"
    /\ Plannable
    /\ preview' \in Kept("invoke", StrategyTurns)
    /\ FailAttempt("invoke")
    /\ UNCHANGED <<groundingVars, plan, floors, stable>>

(* A truncated tool result cannot be read back, which no policy retries.    *)
StrategyUnreadable ==
    /\ phase = "plan"
    /\ Plannable
    /\ preview' = NoPreview
    /\ FailAttempt("repair")
    /\ UNCHANGED <<groundingVars, plan, floors, stable>>

StrategyInvalid ==
    /\ phase = "plan"
    /\ Plannable
    /\ preview' \in Kept("validation",
           {turn \in StrategyTurns : \E p \in PlanningAnswers : ~ ProposalOk(Bounded(p), turn)})
    /\ FailAttempt("validation")
    /\ UNCHANGED <<groundingVars, plan, floors, stable>>

(* Accepted proposals, bounded, with the invocation they come from.         *)
Accepted ==
    {draft \in [proposal : {Bounded(p) : p \in PlanningAnswers}, turn : StrategyTurns] :
        ProposalOk(draft.proposal, draft.turn)}

PlansOf(draft) == {Compiled(draft.proposal, draft.turn, ue) : ue \in PlanUes}

Compiles(draft) == \A pl \in PlansOf(draft) : PlanOk(pl, draft.proposal, draft.turn)

(* The accepted proposal is compiled.                                       *)
StrategyCompiled ==
    /\ phase = "plan"
    /\ Plannable
    /\ plan' \in UNION {PlansOf(draft) : draft \in {d \in Accepted : Compiles(d)}}
    /\ EndStage("mediate")
    /\ preview' = NoPreview
    /\ UNCHANGED <<groundingVars, floors, stable>>

(* Compiling fails, by a rule of PlanOk or a detail of a payload: so does   *)
(* the round, without another attempt.                                      *)
StrategyUncompiled ==
    /\ phase = "plan"
    /\ Plannable
    /\ Accepted # {}
    /\ EndStage("failed")
    /\ preview' = NoPreview
    /\ UNCHANGED <<groundingVars, plan, floors, stable>>

Strategy ==
    \/ StrategyRefused
    \/ StrategyInvocationFails
    \/ StrategyUnreadable
    \/ StrategyInvalid
    \/ StrategyCompiled
    \/ StrategyUncompiled
=============================================================================
