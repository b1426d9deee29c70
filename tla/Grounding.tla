------------------------------- MODULE Grounding -------------------------------
(***************************************************************************)
(* The intent encoding agent (IEA).  Its advisor reads the UE's flow       *)
(* catalog, AM policy and slice entitlement through tools, binds the       *)
(* request's targets to flows and says whether a slice migration may go    *)
(* ahead.  Runtime code gathers what the tools returned as evidence that   *)
(* outlives the attempt, attaches the facts of the evidence to the         *)
(* advisor's choices and checks the one against the other.                 *)
(***************************************************************************)
EXTENDS AdvisorStage

CONSTANTS Ues, NoUe, Flows, Slices,
          Owner,             \* UE of each flow
          Access,            \* slices in a UE's accessMobilityContext
          InitialAm,         \* slices its AM policies allow at first
          Requests,          \* what Main may have decided about the request
          GroundingAnswers   \* objects the advisor may return

Domains == {"qos", "mobility"}
BlockedKinds == {"blocked_by_subscription_entitlement",
                 "blocked_requires_subscription_provisioning", "evidence_missing"}
MigrationKinds == BlockedKinds \cup {"migration_authorized", "not_applicable"}

RequestType == [domains : SUBSET Domains, supis : SUBSET Ues, change : BOOLEAN,
                provisioning : BOOLEAN, named : SUBSET Flows, amNamed : BOOLEAN]
(* resolved are the flows it binds, unresolved the targets it names without *)
(* binding them, and carried the flow ids it puts on unresolved bindings    *)
(* all the same, which need not be those of the targets.  An id bound both  *)
(* ways counts as resolved.                                                 *)
AnswerType == [resolved : SUBSET Flows, unresolved : SUBSET Flows, carried : SUBSET Flows,
               movers : SUBSET Flows, kind : MigrationKinds, targets : SUBSET Slices,
               provisioning : BOOLEAN, claimsAm : BOOLEAN, open : BOOLEAN]

ASSUME GroundingAssumption ==
    /\ IsFiniteSet(Ues) /\ NoUe \notin Ues
    /\ Owner \in [Flows -> Ues]
    /\ Access \in [Ues -> SUBSET Slices]
    /\ InitialAm \in [Ues -> SUBSET Slices]
    /\ Requests \subseteq RequestType
    /\ \A r \in Requests : r.domains # {} /\ r.supis # {}
    /\ GroundingAnswers \subseteq AnswerType
    /\ \A a \in GroundingAnswers :
           a.carried \cap a.resolved = {} /\ (a.carried # {} => a.unresolved # {})
    /\ DOMAIN CallLimit = {"catalog", "search", "amContext", "amSearch", "subscription"}

VARIABLES request,    \* Main's decision about the request, this round
          evidence,   \* IntentEvidence of the stage
          decision,   \* GroundingDecision handed to the strategy agent
          amAllowed   \* slices the AM policies in the UE store allow

groundingVars == <<request, evidence, decision, amAllowed>>

EvidenceType == [catalog : SUBSET Ues, searched : BOOLEAN,
                 am : Ues \cup {NoUe}, amTargets : BOOLEAN,
                 read : BOOLEAN, entitled : SUBSET Slices]

(* flows are those with an id on some binding, ues the UEs that the tools'  *)
(* results attribute bindings to.                                           *)
DecisionType == [bound : BOOLEAN, flows : SUBSET Flows, resolved : SUBSET Flows, ues : SUBSET Ues,
                 movers : SUBSET Flows, kind : MigrationKinds,
                 authorized : SUBSET Slices, am : Ues \cup {NoUe}, open : BOOLEAN]

NoEvidence == [catalog |-> {}, searched |-> FALSE, am |-> NoUe,
               amTargets |-> FALSE, read |-> FALSE, entitled |-> {}]
NoDecision == [bound |-> FALSE, flows |-> {}, resolved |-> {}, ues |-> {},
               movers |-> {}, kind |-> "not_applicable", authorized |-> {}, am |-> NoUe, open |-> FALSE]

-------------------------------------------------------------------------------
(* Tools.  A flow that only a search has found cannot be resolved: of the   *)
(* searches it counts that they were made.                                  *)

ToolCalls ==
    [tool : {"catalog", "amContext", "subscription"}, arg : Ues]
        \cup [tool : {"search", "amSearch"}, arg : {"query"}]

(* The entitlement tool is there for a migration Main itself has announced. *)
Offered ==
    {call \in ToolCalls :
        \/ "qos" \in request.domains /\ call.tool \in {"catalog", "search"}
        \/ "mobility" \in request.domains /\ call.tool \in {"amContext", "amSearch"}
        \/ request.domains = Domains /\ request.change /\ call.tool = "subscription"}

ToolCallSets == {calls \in SUBSET ToolCalls : Admits(calls)}

Invocations == LET offered == Offered IN {calls \in ToolCallSets : calls \subseteq offered}

(* Mutant: what a tool says of a UE counts for the request, whoever asked.  *)
ReadByAnyone(calls, tool) == {call.arg : call \in {c \in calls : c.tool = tool}}

(* UEs whose answer to the tool is kept as evidence.                        *)
Read(calls, tool) ==
    {ue \in request.supis : [tool |-> tool, arg |-> ue] \in calls}

(* get_ue_slice_subscription: every slice some AM or access context of the  *)
(* UE allows, as the UE store has it now.                                   *)
Authorized(ue) == Access[ue] \cup amAllowed[ue]

(* The last answer to the tool in an attempt, an earlier one if it has none.*)
LastRead(calls, tool, before) ==
    IF Read(calls, tool) = {} THEN {before} ELSE Read(calls, tool)

(* Mutant: every attempt starts from no evidence.                           *)
GatheredAfresh(calls) ==
    {[catalog   |-> Read(calls, "catalog"),
      searched  |-> \E c \in calls : c.tool = "search",
      am        |-> am,
      amTargets |-> \E c \in calls : c.tool = "amSearch",
      read      |-> Read(calls, "subscription") # {},
      entitled  |-> IF ue = NoUe THEN {} ELSE Authorized(ue)] :
        am \in LastRead(calls, "amContext", NoUe),
        ue \in LastRead(calls, "subscription", NoUe)}

(* Evidences the calls of an attempt can leave.  Catalogs and candidates    *)
(* accumulate, AM context and entitlement are those read last.              *)
Gathered(calls) ==
    {[catalog   |-> evidence.catalog \cup Read(calls, "catalog"),
      searched  |-> evidence.searched \/ \E c \in calls : c.tool = "search",
      am        |-> am,
      amTargets |-> evidence.amTargets \/ \E c \in calls : c.tool = "amSearch",
      read      |-> evidence.read \/ Read(calls, "subscription") # {},
      entitled  |-> IF ue = NoUe THEN evidence.entitled ELSE Authorized(ue)] :
        am \in LastRead(calls, "amContext", evidence.am),
        ue \in LastRead(calls, "subscription", NoUe)}

(* Evidence as it may be after one more attempt.                            *)
Readings == UNION {Gathered(calls) : calls \in Invocations}

-------------------------------------------------------------------------------
(* The advisor's answer against the evidence.                               *)

CatalogFlows(ev) == {f \in Flows : Owner[f] \in ev.catalog}

(* Ids on unresolved bindings whose flows a search has found.               *)
Found(answer, ev) == IF ev.searched THEN SUBSET answer.carried ELSE {{}}

(* _binding_supi_from_evidence: UEs of the bindings that a catalog or a     *)
(* search knows the flow of.  Any other binding is put down to the UE of    *)
(* the request, if it has one only.                                         *)
Attributed(answer, ev, found) ==
    {Owner[f] : f \in answer.resolved \cup found \cup (answer.carried \cap CatalogFlows(ev))}

(* Mutant: the slices the advisor names count as authorized.                *)
DecisionOfAdvisor(answer, ev, found) ==
    [bound |-> answer.resolved \cup answer.unresolved # {},
     flows |-> answer.resolved \cup answer.carried, resolved |-> answer.resolved,
     ues |-> Attributed(answer, ev, found), movers |-> answer.movers, kind |-> answer.kind,
     authorized |-> ev.entitled \cup answer.targets, am |-> ev.am, open |-> answer.open]

(* _compile_advisor_output and _attach_subscription_evidence.  The id of an *)
(* unresolved binding is handed on like any other.                          *)
DecisionOf(answer, ev, found) ==
    [bound |-> answer.resolved \cup answer.unresolved # {},
     flows |-> answer.resolved \cup answer.carried, resolved |-> answer.resolved,
     ues |-> Attributed(answer, ev, found), movers |-> answer.movers, kind |-> answer.kind,
     authorized |-> ev.entitled, am |-> ev.am, open |-> answer.open]

MigrationSupported(answer, ev) ==
    answer.movers # {} =>
        /\ ev.read
        /\ answer.kind # "not_applicable"
        /\ ev.entitled # {} \/ answer.provisioning
        /\ answer.provisioning => request.provisioning
        /\ answer.kind = "blocked_by_subscription_entitlement" => ~ answer.provisioning
        /\ answer.kind = "evidence_missing" => request.provisioning
        /\ answer.kind = "migration_authorized" =>
               ev.entitled # {} /\ answer.targets \subseteq ev.entitled

(* A resolved flow needs the baseline that only a catalog entry carries; of *)
(* an unresolved one nothing is asked but its name.  A target counts as     *)
(* bound by its name, or by an id the catalog has under that name.          *)
FlowsGrounded(answer, ev) ==
    /\ answer.resolved \cup answer.unresolved # {}
    /\ request.named \subseteq
           answer.resolved \cup answer.unresolved \cup (answer.carried \cap CatalogFlows(ev))
    /\ answer.resolved \subseteq CatalogFlows(ev)

CatalogConsulted(ev) ==
    /\ ev.catalog # {}
    /\ request.named # {} /\ CatalogFlows(ev) # {} =>
           ev.searched \/ request.named \cap CatalogFlows(ev) # {}

MobilityGrounded(answer, ev) ==
    /\ answer.resolved \cup answer.unresolved = {}
    /\ ev.am # NoUe \/ answer.claimsAm
    /\ request.amNamed => ev.amTargets \/ answer.claimsAm

(* validate_grounding finds nothing to object to.                           *)
Accepts(answer, ev) ==
    /\ MigrationSupported(answer, ev)
    /\ "qos" \in request.domains => FlowsGrounded(answer, ev) /\ CatalogConsulted(ev)
    /\ request.domains = {"mobility"} => MobilityGrounded(answer, ev)

-------------------------------------------------------------------------------
(* Ends of an attempt.                                                      *)

(* The evidence goes with the stage.                                        *)
After(failed, readings) == IF MayRetry(failed) THEN readings ELSE {NoEvidence}

(* The tool loop raises: a tool or the model failed, a limit was exceeded,  *)
(* a call was repeated.  What the calls before it returned is kept.         *)
GroundingInvocationFails ==
    /\ phase = "ground"
    /\ evidence' \in After("invoke", Readings)
    /\ FailAttempt("invoke")
    /\ UNCHANGED <<request, decision, amAllowed>>

(* The loop has spent its turns: the one failure that carries no messages.  *)
GroundingRunsOut ==
    /\ phase = "ground"
    /\ {calls \in Invocations : MayRunOut(calls)} # {}
    /\ evidence' \in After("invoke", {evidence})
    /\ FailAttempt("invoke")
    /\ UNCHANGED <<request, decision, amAllowed>>

(* The answer is not a GroundingAdvisorOutput.                              *)
GroundingUnparsed ==
    /\ phase = "ground"
    /\ evidence' \in After("parse", Readings)
    /\ FailAttempt("parse")
    /\ UNCHANGED <<request, decision, amAllowed>>

(* A resolved flow without an identifier: GroundingDecision cannot be built *)
(* of the answer, which no policy retries.                                  *)
GroundingUnbuildable ==
    /\ phase = "ground"
    /\ evidence' \in After("repair", Readings)
    /\ FailAttempt("repair")
    /\ UNCHANGED <<request, decision, amAllowed>>

GroundingInvalid ==
    /\ phase = "ground"
    /\ evidence' \in After("validation",
           {ev \in Readings : \E answer \in GroundingAnswers : ~ Accepts(answer, ev)})
    /\ FailAttempt("validation")
    /\ UNCHANGED <<request, decision, amAllowed>>

Decisions(ev) ==
    UNION {{DecisionOf(answer, ev, found) : found \in Found(answer, ev)} :
              answer \in {a \in GroundingAnswers : Accepts(a, ev)}}

(* The decision is handed on; one with open questions goes back to the      *)
(* operator and the round has no plan.                                      *)
GroundingAccepted ==
    /\ phase = "ground"
    /\ decision' \in UNION {Decisions(ev) : ev \in Readings}
    /\ evidence' = NoEvidence
    /\ IF decision'.open THEN EndStage("failed") ELSE BeginStage("plan")
    /\ UNCHANGED <<request, amAllowed>>

Ground ==
    \/ GroundingInvocationFails
    \/ GroundingRunsOut
    \/ GroundingUnparsed
    \/ GroundingUnbuildable
    \/ GroundingInvalid
    \/ GroundingAccepted
=============================================================================
