---------------------------- MODULE PolicyExecution ----------------------------
(***************************************************************************)
(* One execution of a policy plan by the Policy Dispatch agent: compile,   *)
(* dispatch every policy to the gateway, check the slice it landed on,     *)
(* assure it, then either report the failures or write the plan back to    *)
(* the UE context.  The gateway (ns-3 behind the PCF interface) is         *)
(* external: it applies or rejects an operation at any time, also after    *)
(* the dispatcher has stopped waiting for it.                              *)
(***************************************************************************)
EXTENDS Integers, Sequences, FiniteSets

CONSTANTS
    Policies,      \* policy objects a plan may hold
    Supis,         \* UE identifiers
    NoSupi,        \* the empty supi of a plan
    SupiOf,        \* SupiOf[p]: the UE the policy is for
    KindOf,        \* KindOf[p]: "sm", "ursp" or "am"
    TargetOf,      \* TargetOf[p]: "flow", "app" or "ue"
    SliceBound,    \* policies whose details request a slice
    WellFormed,    \* policies PolicyCompiler.compile_policy accepts
    Served,        \* UEs whose context names a serving AMF at the start
    Plans,         \* the plans a planner may hand over
    PollBudget,    \* polls that fit in PCF_POLICY_OVERALL_DEADLINE_SEC
    MaxExecutions, \* bound: executions of a plan in one behaviour
    MaxReadFaults  \* bound: reads of the UE context that fail

Kinds   == {"sm", "ursp", "am"}
Targets == {"flow", "app", "ue"}

PlanType == [supi : Supis \cup {NoSupi}, policies : Seq(Policies)]

ASSUME PolicyAssumption ==
    /\ NoSupi \notin Supis
    /\ SupiOf \in [Policies -> Supis]
    /\ KindOf \in [Policies -> Kinds]
    /\ TargetOf \in [Policies -> Targets]
    /\ \A p \in WellFormed : (KindOf[p] = "am") => (TargetOf[p] = "ue")
    /\ SliceBound \subseteq Policies
    /\ WellFormed \subseteq Policies
    /\ Served \subseteq Supis

ASSUME PlanAssumption ==
    \A pl \in Plans : /\ pl \in PlanType
                      /\ \A i, j \in 1 .. Len(pl.policies) :
                            pl.policies[i] = pl.policies[j] => i = j

ASSUME BoundAssumption ==
    PollBudget \in Nat \ {0} /\ MaxExecutions \in Nat /\ MaxReadFaults \in Nat

VARIABLES
    xpc,         \* control state of execute_and_evaluate_from_request
    plan,        \* the plan being executed
    idx,         \* index of the policy being dispatched (1-based)
    op,          \* state of the gateway operation this policy waits for
    budget,      \* polls left before the PDA deadline
    receipts,    \* PolicyExecutionBatch.execution_receipts
    failures,    \* PolicyExecutionBatch.failures
    report,      \* the FeedbackReport handed back
    orphans,     \* operations in flight at the gateway that nobody polls
    applied,     \* policies the gateway has applied
    ueAccess,    \* ueAccess[s]: SM and URSP policies in UeContextRecord s
    ueAssoc,     \* ueAssoc[s]: rows of UeAmPolicyAssociationRecord for s
    ueMobility,  \* ueMobility[s]: amPolicyContext.associations of s
    ueEvents,    \* ueEvents[s]: policies with a UeMobilityEventRecord for s
    ueServing,   \* UEs whose UeContextRecord names a serving AMF
    ueBound,     \* UEs with an AMF row in UeServingNfBindingRecord
    existing,    \* current_ue_context: the copy commit_applied_policy_plan works on
    readFaults,  \* number of context reads that have failed
    executions,  \* number of executions started
    expired,     \* history: policies whose dispatch outlived the PDA deadline
    reposted     \* history: such policies dispatched once more

batchVars == <<plan, idx, op, budget, receipts, failures>>
gwVars    == <<orphans, applied>>
ueVars    == <<ueAccess, ueAssoc, ueMobility, ueEvents, ueServing, ueBound, existing,
               readFaults>>
histVars  == <<executions, expired, reposted>>
execVars  == <<xpc, batchVars, report, gwVars, ueVars, histVars>>

NoReport == [status |-> "none", forbidden |-> FALSE, nested |-> FALSE]

(* ExecutionOutcome and FeedbackReport share this shape: the execution      *)
(* status, retry_forbidden at the top level of feedback_payload, and        *)
(* retry_forbidden inside feedback_payload["controller_feedback"].          *)
Statuses   == {"Success", "Partial Success", "Failed"}
ReportType == [status : Statuses \cup {"none"}, forbidden : BOOLEAN, nested : BOOLEAN]

(* An execution receipt and, when the policy was acknowledged, the entry of  *)
(* assurance_results that goes with it.                                     *)
Verdicts == {"satisfied", "violated", "failed", "skipped"}
Receipt == [policy : Policies, ok : BOOLEAN, verdict : Verdicts \cup {"none"}]
Failure == [policy : Policies, phase : {"dispatch", "assurance"}, forbidden : BOOLEAN]
OpState == {"none", "inflight", "applied", "rejected"}
Stages  == {"idle", "compile", "dispatch", "poll", "assure", "outcome",
            "access", "assoc", "context", "binding", "event", "done", "raised"}

ContextCopy == [access : SUBSET Policies, mobility : SUBSET Policies, serving : BOOLEAN]
EmptyContext == [access |-> {}, mobility |-> {}, serving |-> FALSE]

TypeOK ==
    /\ xpc \in Stages
    /\ plan \in PlanType
    /\ idx \in Nat \ {0}
    /\ op \in OpState
    /\ budget \in 0 .. PollBudget
    /\ receipts \in Seq(Receipt)
    /\ failures \in Seq(Failure)
    /\ report \in ReportType
    /\ orphans \in [Policies -> Nat]
    /\ applied \subseteq Policies
    /\ ueAccess \in [Supis -> SUBSET Policies]
    /\ ueAssoc \in [Supis -> SUBSET Policies]
    /\ ueMobility \in [Supis -> SUBSET Policies]
    /\ ueEvents \in [Supis -> SUBSET Policies]
    /\ ueServing \subseteq Supis
    /\ ueBound \subseteq Supis
    /\ existing \in ContextCopy
    /\ readFaults \in 0 .. MaxReadFaults
    /\ executions \in Nat
    /\ expired \subseteq Policies
    /\ reposted \subseteq Policies

ExecInit ==
    /\ xpc = "idle"
    /\ plan = [supi |-> NoSupi, policies |-> << >>]
    /\ idx = 1
    /\ op = "none"
    /\ budget = 0
    /\ receipts = << >>
    /\ failures = << >>
    /\ report = NoReport
    /\ orphans = [p \in Policies |-> 0]
    /\ applied = {}
    /\ ueAccess = [s \in Supis |-> {}]
    /\ ueAssoc = [s \in Supis |-> {}]
    /\ ueMobility = [s \in Supis |-> {}]
    /\ ueEvents = [s \in Supis |-> {}]
    /\ ueServing = Served
    /\ ueBound = {}
    /\ existing = EmptyContext
    /\ readFaults = 0
    /\ executions = 0
    /\ expired = {}
    /\ reposted = {}

-------------------------------------------------------------------------------
(* Compilation: ExecutionController.execute up to the batch.               *)

(* The dispatcher is handed a plan: execute_and_evaluate.                   *)
BeginExecution(pl) ==
    /\ xpc \in {"idle", "done", "raised"}
    /\ executions < MaxExecutions
    /\ xpc' = "compile"
    /\ plan' = pl
    /\ idx' = 1
    /\ op' = "none"
    /\ budget' = 0
    /\ receipts' = << >>
    /\ failures' = << >>
    /\ report' = NoReport
    /\ executions' = executions + 1
    /\ UNCHANGED <<gwVars, ueVars, expired, reposted>>

(* _build_feedback_payload: a failed or partial outcome gets a payload of   *)
(* its own, and the controller's payload is kept below controller_feedback. *)
BuildFeedback(outcome) ==
    IF outcome.status = "Success"
    THEN outcome
    ELSE [outcome EXCEPT !.forbidden = FALSE, !.nested = outcome.forbidden]

Deliver(outcome) ==
    /\ report' = BuildFeedback(outcome)
    /\ xpc' = "done"

PolicySet(pl) == {pl.policies[i] : i \in 1 .. Len(pl.policies)}

Compilable == plan.policies # << >> /\ PolicySet(plan) \subseteq WellFormed

CompilePlan ==
    /\ xpc = "compile"
    /\ Compilable
    /\ xpc' = "dispatch"
    /\ UNCHANGED <<batchVars, report, gwVars, ueVars, histVars>>

CompileFails ==
    /\ xpc = "compile"
    /\ ~ Compilable
    /\ Deliver([status |-> "Failed", forbidden |-> FALSE, nested |-> FALSE])
    /\ UNCHANGED <<batchVars, gwVars, ueVars, histVars>>

-------------------------------------------------------------------------------
(* Dispatch of one policy: _dispatch_single_policy and                     *)
(* dispatch_policy_to_pcf_request.                                         *)

Current == plan.policies[idx]

(* Mutant: the batch stops one policy early.                                *)
NextPolicyStopsEarly ==
    /\ idx' = idx + 1
    /\ op' = "none"
    /\ budget' = 0
    /\ xpc' = IF idx + 1 < Len(plan.policies) THEN "dispatch" ELSE "outcome"

(* The batch moves on: to the next policy or, after the last, the outcome.  *)
NextPolicy ==
    /\ idx' = idx + 1
    /\ op' = "none"
    /\ budget' = 0
    /\ xpc' = IF idx < Len(plan.policies) THEN "dispatch" ELSE "outcome"

(* ExecutionDecisionError, caught by PolicyBatchExecutor.run.  An operation *)
(* the gateway still works on stays behind unobserved.                      *)
DispatchFails(forbidden, left) ==
    /\ receipts' = Append(receipts, [policy |-> Current, ok |-> FALSE, verdict |-> "none"])
    /\ failures' = Append(failures, [policy |-> Current, phase |-> "dispatch",
                                     forbidden |-> forbidden])
    /\ orphans' = IF left THEN [orphans EXCEPT ![Current] = @ + 1] ELSE orphans
    /\ expired' = IF forbidden THEN expired \cup {Current} ELSE expired
    /\ NextPolicy

Posting ==
    /\ xpc = "dispatch"
    /\ reposted' = IF Current \in expired THEN reposted \cup {Current} ELSE reposted

(* Nothing reached a gateway, it refused the request, or its answer was lost *)
(* or came from another instance: the operation may still have been created. *)
PostFails(accepted) ==
    /\ Posting
    /\ DispatchFails(FALSE, accepted)
    /\ UNCHANGED <<plan, report, applied, ueVars, executions>>

(* A synchronous success label: success, applied, completed, succeeded.     *)
PostApplied ==
    /\ Posting
    /\ xpc' = "assure"
    /\ op' = "applied"
    /\ applied' = applied \cup {Current}
    /\ UNCHANGED <<plan, idx, budget, receipts, failures, report, orphans, ueVars,
                   executions, expired>>

(* A synchronous failure label; ns3Wait is a phase that says ns-3 is still  *)
(* working on it (ns3_timeout, waiting_for_ns3).                            *)
PostTerminalFailure(ns3Wait) ==
    /\ Posting
    /\ DispatchFails(ns3Wait, ns3Wait)
    /\ UNCHANGED <<plan, report, applied, ueVars, executions>>

PostPending ==
    /\ Posting
    /\ xpc' = "poll"
    /\ op' = "inflight"
    /\ budget' = PollBudget
    /\ UNCHANGED <<plan, idx, receipts, failures, report, gwVars, ueVars,
                   executions, expired>>

(* "pending" without operation_id: phase dispatch_contract.                 *)
PostPendingWithoutOperation ==
    /\ Posting
    /\ DispatchFails(FALSE, TRUE)
    /\ UNCHANGED <<plan, report, applied, ueVars, executions>>

(* One turn of the poll loop fetches the operation's state while polls are  *)
(* left; only a terminal answer ends the loop before the deadline does.     *)
Fetching == xpc = "poll" /\ budget > 0

(* Mutant: every "pending" answer starts the deadline anew.                 *)
PollPendingForever ==
    /\ Fetching
    /\ op = "inflight"
    /\ budget' = IF budget = 1 THEN PollBudget ELSE budget - 1
    /\ UNCHANGED <<xpc, plan, idx, op, receipts, failures, report, gwVars, ueVars, histVars>>

PollPending ==
    /\ Fetching
    /\ op = "inflight"
    /\ budget' = budget - 1
    /\ UNCHANGED <<xpc, plan, idx, op, receipts, failures, report, gwVars, ueVars, histVars>>

PollApplied ==
    /\ Fetching
    /\ op = "applied"
    /\ xpc' = "assure"
    /\ UNCHANGED <<batchVars, report, gwVars, ueVars, histVars>>

PollRejected(ns3Wait) ==
    /\ Fetching
    /\ op = "rejected"
    /\ DispatchFails(ns3Wait, ns3Wait)
    /\ UNCHANGED <<plan, report, applied, ueVars, executions, reposted>>

(* The GET fails or carries no status: "failed" is terminal for the poller, *)
(* whatever the operation does next.                                        *)
PollBreaks ==
    /\ Fetching
    /\ DispatchFails(FALSE, op = "inflight")
    /\ UNCHANGED <<plan, report, applied, ueVars, executions, reposted>>

(* The last fetch said "pending"; the operation may have ended since.       *)
PollDeadline ==
    /\ xpc = "poll"
    /\ budget = 0
    /\ DispatchFails(TRUE, op = "inflight")
    /\ UNCHANGED <<plan, report, applied, ueVars, executions, reposted>>

-------------------------------------------------------------------------------
(* The gateway.                                                            *)

GatewayApplies ==
    /\ op = "inflight"
    /\ op' = "applied"
    /\ applied' = applied \cup {Current}
    /\ UNCHANGED <<xpc, plan, idx, budget, receipts, failures, report, orphans,
                   ueVars, histVars>>

GatewayRejects ==
    /\ op = "inflight"
    /\ op' = "rejected"
    /\ UNCHANGED <<xpc, plan, idx, budget, receipts, failures, report, gwVars,
                   ueVars, histVars>>

(* An unobserved operation ends.                                            *)
OrphanEnds(p, applies) ==
    /\ orphans[p] > 0
    /\ orphans' = [orphans EXCEPT ![p] = @ - 1]
    /\ applied' = IF applies THEN applied \cup {p} ELSE applied
    /\ UNCHANGED <<xpc, batchVars, report, ueVars, histVars>>

-------------------------------------------------------------------------------
(* Slice check and assurance of an acknowledged policy.                    *)

(* The receipt the gateway sends back: the slice it observed and the        *)
(* post-apply monitoring record.                                            *)
Evidence == [slice : {"requested", "other", "missing"}, contract : BOOLEAN,
             baseline : 0 .. 1, latest : 0 .. 1, epoch : 0 .. 1,
             checks : {"none", "hold", "broken"}]

SliceError(p, ev) == p \in SliceBound /\ ev.slice # "requested"

(* contract_valid: version, run id and generation present, and both the     *)
(* sample and its SLA epoch are later than the baseline.                    *)
FreshEvidence(ev) ==
    /\ ev.contract
    /\ ev.latest > ev.baseline
    /\ ev.epoch > ev.baseline
    /\ ev.checks # "none"

(* Mutant: a receipt without evidence counts as nothing to assure.          *)
VerdictWithoutEvidence(p, ev) ==
    IF TargetOf[p] # "flow" \/ ~ FreshEvidence(ev) THEN "skipped"
    ELSE IF ev.checks = "hold" THEN "satisfied" ELSE "violated"

(* _post_apply_assurance_verdict, or AssuranceEvaluator.evaluate, which     *)
(* skips every policy that does not target a flow.                          *)
Verdict(p, ev) ==
    IF TargetOf[p] # "flow" THEN "skipped"
    ELSE IF ~ FreshEvidence(ev) THEN "failed"
    ELSE IF ev.checks = "hold" THEN "satisfied" ELSE "violated"

Assure(ev) ==
    /\ xpc = "assure"
    /\ ~ SliceError(Current, ev)
    /\ receipts' = Append(receipts, [policy |-> Current, ok |-> TRUE,
                                     verdict |-> Verdict(Current, ev)])
    /\ failures' = IF Verdict(Current, ev) \in {"violated", "failed"}
                   THEN Append(failures, [policy |-> Current, phase |-> "assurance",
                                          forbidden |-> FALSE])
                   ELSE failures
    /\ NextPolicy
    /\ UNCHANGED <<plan, report, gwVars, ueVars, histVars>>

WrongSlice(ev) ==
    /\ xpc = "assure"
    /\ SliceError(Current, ev)
    /\ DispatchFails(FALSE, FALSE)
    /\ UNCHANGED <<plan, report, applied, ueVars, executions, reposted>>

-------------------------------------------------------------------------------
(* Outcome of the batch and write-back.                                    *)

Failed(phase) == \E i \in 1 .. Len(failures) : failures[i].phase = phase
Acknowledged  == \E i \in 1 .. Len(receipts) : receipts[i].ok
RetryForbidden == \E i \in 1 .. Len(failures) : failures[i].forbidden

FailedStatus == IF ~ Failed("assurance") /\ Acknowledged THEN "Partial Success" ELSE "Failed"

ReportFailures ==
    /\ xpc = "outcome"
    /\ failures # << >>
    /\ Deliver([status |-> FailedStatus, forbidden |-> RetryForbidden, nested |-> FALSE])
    /\ UNCHANGED <<batchVars, gwVars, ueVars, histVars>>

CommitSupi == IF plan.supi # NoSupi THEN plan.supi ELSE SupiOf[plan.policies[1]]

AccessPolicies   == {p \in PolicySet(plan) : KindOf[p] # "am"}
MobilityPolicies == {p \in PolicySet(plan) : KindOf[p] = "am"}

(* Mutant: the walk starts one policy late.                                 *)
NextMobilityOffByOne(i) ==
    IF \E j \in i + 1 .. Len(plan.policies) : KindOf[plan.policies[j]] = "am"
    THEN CHOOSE j \in i + 1 .. Len(plan.policies) : KindOf[plan.policies[j]] = "am"
    ELSE 0

(* commit_applied_policy_plan walks the mobility policies in plan order; idx *)
(* is reused as the cursor of that walk.                                     *)
NextMobility(i) ==
    IF \E j \in i .. Len(plan.policies) : KindOf[plan.policies[j]] = "am"
    THEN CHOOSE j \in i .. Len(plan.policies) :
            /\ KindOf[plan.policies[j]] = "am"
            /\ \A k \in i .. Len(plan.policies) : KindOf[plan.policies[k]] = "am" => j <= k
    ELSE 0

(* Mutant: the UE context is updated and the association row left out.      *)
CommitMobilityContextFirst(i) ==
    IF NextMobility(i) = 0
    THEN /\ Deliver([status |-> "Success", forbidden |-> FALSE, nested |-> FALSE])
         /\ UNCHANGED idx
    ELSE /\ xpc' = "context"
         /\ idx' = NextMobility(i)
         /\ UNCHANGED report

(* Go on with the first mobility policy at or after i, or report success.   *)
CommitMobilityFrom(i) ==
    IF NextMobility(i) = 0
    THEN /\ Deliver([status |-> "Success", forbidden |-> FALSE, nested |-> FALSE])
         /\ UNCHANGED idx
    ELSE /\ xpc' = "assoc"
         /\ idx' = NextMobility(i)
         /\ UNCHANGED report

(* get_ue_context_by_supi swallows every exception and answers None, which  *)
(* the committer takes for an empty context.                                *)
ReadContext(read) ==
    existing' = IF read
                THEN [access   |-> ueAccess[CommitSupi],
                      mobility |-> ueMobility[CommitSupi],
                      serving  |-> CommitSupi \in ueServing]
                ELSE EmptyContext

(* Mutant: a plan with an acknowledged policy is written back as a whole.   *)
BeginCommitPartial(read) ==
    /\ xpc = "outcome"
    /\ Acknowledged
    /\ ReadContext(read)
    /\ IF AccessPolicies # {}
       THEN xpc' = "access" /\ UNCHANGED <<idx, report>>
       ELSE CommitMobilityFrom(1)
    /\ UNCHANGED <<plan, op, budget, receipts, failures, gwVars, ueAccess, ueAssoc,
                   ueMobility, ueEvents, ueServing, ueBound, readFaults, histVars>>

BeginCommit(read) ==
    /\ xpc = "outcome"
    /\ failures = << >>
    /\ read \/ readFaults < MaxReadFaults
    /\ readFaults' = IF read THEN readFaults ELSE readFaults + 1
    /\ ReadContext(read)
    /\ IF AccessPolicies # {}
       THEN xpc' = "access" /\ UNCHANGED <<idx, report>>
       ELSE CommitMobilityFrom(1)
    /\ UNCHANGED <<plan, op, budget, receipts, failures, gwVars, ueAccess, ueAssoc,
                   ueMobility, ueEvents, ueServing, ueBound, histVars>>

(* Mutant: the context is replaced, not merged.                             *)
CommitAccessReplaces ==
    /\ xpc = "access"
    /\ existing' = [existing EXCEPT !.access = AccessPolicies]
    /\ ueAccess' = [ueAccess EXCEPT ![CommitSupi] = existing'.access]
    /\ CommitMobilityFrom(1)
    /\ UNCHANGED <<plan, op, budget, receipts, failures, gwVars, ueAssoc, ueMobility,
                   ueEvents, ueServing, ueBound, readFaults, histVars>>

(* merge_applied_access_policies into the copy, upsert_ue_context with it.  *)
CommitAccess ==
    /\ xpc = "access"
    /\ existing' = [existing EXCEPT !.access = @ \cup AccessPolicies]
    /\ ueAccess' = [ueAccess EXCEPT ![CommitSupi] = existing'.access]
    /\ CommitMobilityFrom(1)
    /\ UNCHANGED <<plan, op, budget, receipts, failures, gwVars, ueAssoc, ueMobility,
                   ueEvents, ueServing, ueBound, readFaults, histVars>>

(* upsert_am_policy_association, its own transaction.                       *)
CommitAssociation ==
    /\ xpc = "assoc"
    /\ ueAssoc' = [ueAssoc EXCEPT ![CommitSupi] = @ \cup {Current}]
    /\ xpc' = "context"
    /\ UNCHANGED <<batchVars, report, gwVars, ueAccess, ueMobility, ueEvents, ueServing,
                   ueBound, existing, readFaults, histVars>>

(* upsert_ue_context with the mobility context, another transaction: the    *)
(* serving NF context is written back as it was read.                       *)
CommitMobilityContext ==
    /\ xpc = "context"
    /\ existing' = [existing EXCEPT !.mobility = @ \cup {Current}]
    /\ ueMobility' = [ueMobility EXCEPT ![CommitSupi] = existing'.mobility]
    /\ ueServing' = IF existing.serving THEN ueServing \cup {CommitSupi}
                    ELSE ueServing \ {CommitSupi}
    /\ xpc' = IF existing.serving THEN "binding" ELSE "event"
    /\ UNCHANGED <<batchVars, report, gwVars, ueAccess, ueAssoc, ueEvents, ueBound,
                   readFaults, histVars>>

(* upsert_serving_nf_binding, a third one.                                  *)
CommitBinding ==
    /\ xpc = "binding"
    /\ ueBound' = ueBound \cup {CommitSupi}
    /\ xpc' = "event"
    /\ UNCHANGED <<batchVars, report, gwVars, ueAccess, ueAssoc, ueMobility, ueEvents,
                   ueServing, existing, readFaults, histVars>>

(* record_mobility_event, a fourth one.                                     *)
CommitMobilityEvent ==
    /\ xpc = "event"
    /\ ueEvents' = [ueEvents EXCEPT ![CommitSupi] = @ \cup {Current}]
    /\ CommitMobilityFrom(idx + 1)
    /\ UNCHANGED <<plan, op, budget, receipts, failures, gwVars, ueAccess, ueAssoc,
                   ueMobility, ueServing, ueBound, existing, readFaults, histVars>>

(* Any of the five transactions fails: the exception leaves execute().      *)
CommitRaises ==
    /\ xpc \in {"access", "assoc", "context", "binding", "event"}
    /\ xpc' = "raised"
    /\ UNCHANGED <<batchVars, report, gwVars, ueVars, histVars>>

-------------------------------------------------------------------------------
Dispatch ==
    \/ \E accepted \in BOOLEAN : PostFails(accepted)
    \/ PostApplied
    \/ \E ns3Wait \in BOOLEAN : PostTerminalFailure(ns3Wait)
    \/ PostPending
    \/ PostPendingWithoutOperation

Poll ==
    \/ PollPending
    \/ PollApplied
    \/ \E ns3Wait \in BOOLEAN : PollRejected(ns3Wait)
    \/ PollBreaks
    \/ PollDeadline

Gateway ==
    \/ GatewayApplies
    \/ GatewayRejects
    \/ \E p \in Policies, applies \in BOOLEAN : OrphanEnds(p, applies)

Commit ==
    \/ \E read \in BOOLEAN : BeginCommit(read)
    \/ CommitAccess
    \/ CommitAssociation
    \/ CommitMobilityContext
    \/ CommitBinding
    \/ CommitMobilityEvent
    \/ CommitRaises

(* Every step the dispatcher takes once it holds a plan.                    *)
Execute ==
    \/ CompilePlan
    \/ CompileFails
    \/ Dispatch
    \/ Poll
    \/ \E ev \in Evidence : Assure(ev) \/ WrongSlice(ev)
    \/ ReportFailures
    \/ Commit

ExecNext ==
    \/ \E pl \in Plans : BeginExecution(pl)
    \/ Execute
    \/ Gateway

ExecSpec == ExecInit /\ [][ExecNext]_execVars

(* The dispatcher is a synchronous call: once begun it keeps taking steps.  *)
(* Nothing is assumed of the gateway.                                       *)
ExecFairSpec == ExecSpec /\ WF_execVars(Execute)

-------------------------------------------------------------------------------
(* Properties.                                                             *)

(* The rows of a UE context only name policies the gateway has applied: a   *)
(* plan with one failed, expired or unassured policy is not written back    *)
(* (execute returns before commit_policies when the batch has failures).    *)
CommittedWasApplied ==
    \A s \in Supis : ueAccess[s] \cup ueAssoc[s] \cup ueMobility[s] \cup ueEvents[s]
                        \subseteq applied

(* A report of "Success" speaks of the whole plan: every policy is active   *)
(* at the gateway and all of its rows are in the UE store, although they    *)
(* are written by separate transactions any of which may fail.              *)
SuccessIsWholePlan ==
    (xpc = "done" /\ report.status = "Success") =>
        \A p \in PolicySet(plan) :
            /\ p \in applied
            /\ IF KindOf[p] = "am"
               THEN p \in ueAssoc[CommitSupi] \cap ueMobility[CommitSupi] \cap ueEvents[CommitSupi]
               ELSE p \in ueAccess[CommitSupi]

(* "Dispatch every policy once": the receipts are the plan's policies in    *)
(* plan order, one each, and a failure of one policy neither skips nor      *)
(* repeats another.                                                         *)
Dispatched ==
    IF xpc \in {"dispatch", "poll", "assure"} THEN idx - 1
    ELSE IF xpc = "compile" THEN 0
    ELSE Len(receipts)

EachPolicyOnce ==
    /\ Len(receipts) = Dispatched
    /\ Len(receipts) <= Len(plan.policies)
    /\ \A i \in 1 .. Len(receipts) : receipts[i].policy = plan.policies[i]
    /\ xpc = "outcome" => Len(receipts) = Len(plan.policies)

(* The UE store changes only on behalf of a plan whose policies were all    *)
(* acknowledged, each flow policy with fresh evidence that its SLA holds.   *)
Assured(r) == r.ok /\ r.verdict = (IF TargetOf[r.policy] = "flow" THEN "satisfied" ELSE "skipped")

WriteBackIsAssured ==
    [][<<ueAccess, ueAssoc, ueMobility, ueEvents>>' # <<ueAccess, ueAssoc, ueMobility, ueEvents>>
        => /\ Len(receipts) = Len(plan.policies)
           /\ \A i \in 1 .. Len(receipts) : Assured(receipts[i])]_execVars

(* The association row is written first and is the authority: whatever      *)
(* transaction fails, no mobility context and no mobility event names an    *)
(* association that has no row.                                             *)
MobilityWriteOrder ==
    \A s \in Supis : ueMobility[s] \cup ueEvents[s] \subseteq ueAssoc[s]

(* Writing a plan back keeps what earlier plans wrote (the merge of         *)
(* merge_applied_access_policies).                                          *)
CommittedKept ==
    [][\A s \in Supis : ueAccess[s] \subseteq ueAccess'[s] /\ ueMobility[s] \subseteq ueMobility'[s]]_execVars

(* A policy is written to the context of the UE it is for.                  *)
CommittedUnderOwnSupi ==
    \A s \in Supis : \A p \in ueAccess[s] \cup ueMobility[s] : SupiOf[p] = s

(* An execution ends, whatever the gateway does: the PDA deadline bounds    *)
(* every wait.                                                              *)
ExecutionEnds == (xpc = "compile") ~> (xpc \in {"done", "raised"})

-------------------------------------------------------------------------------
(* The inductive invariant behind CommittedWasApplied.                     *)

CommitStages == {"access", "assoc", "context", "binding", "event"}

CursorInPlan ==
    /\ xpc = "compile" => idx = 1 /\ op = "none"
    /\ xpc \in {"dispatch", "poll", "assure"} \cup (CommitStages \ {"access"})
          => idx \in 1 .. Len(plan.policies)
    /\ xpc \in CommitStages \cup {"outcome"} => plan.policies # << >>
    /\ xpc = "assure" => op = "applied"
    /\ op = "inflight" => xpc = "poll"
    /\ op = "applied" => xpc \in {"poll", "assure"} /\ Current \in applied

(* A receipt that reports success is true of the gateway, and a batch       *)
(* without failures has no other.                                           *)
ReceiptsAreTrue ==
    /\ \A i \in 1 .. Len(receipts) : receipts[i].ok => receipts[i].policy \in applied
    /\ failures = << >> => \A i \in 1 .. Len(receipts) : receipts[i].ok

CommitIsWhole ==
    xpc \in CommitStages => failures = << >> /\ Len(receipts) = Len(plan.policies)

CopyWasApplied == existing.access \cup existing.mobility \subseteq applied

ExecInv ==
    /\ TypeOK
    /\ CursorInPlan
    /\ EachPolicyOnce
    /\ ReceiptsAreTrue
    /\ CommitIsWhole
    /\ CopyWasApplied
    /\ CommittedWasApplied
=============================================================================
