------------------------------ MODULE ControlLoop ------------------------------
(***************************************************************************)
(* One run of MainControlOrchestrator: up to MaxRounds rounds of Main      *)
(* routing, intent encoding, strategy, mediation, policy execution and     *)
(* diagnosis, the window of round traces the next round is fed from, and   *)
(* the session row.  The agents are language models: what they answer is   *)
(* a choice among the answers the code accepts.  Policy execution is the   *)
(* module PolicyExecution, whose gateway runs on between the rounds.       *)
(***************************************************************************)
EXTENDS PolicyExecution

CONSTANTS
    MaxRounds,    \* max_rounds of the orchestrator
    MaxStages,    \* bound: stages of a staged intent
    WindowSize,   \* round traces kept (3 in the code)
    MaxRowFaults  \* bound: updates of the session row that fail

ASSUME RoundAssumption ==
    /\ MaxRounds \in Nat \ {0}
    /\ MaxStages \in Nat \ {0}
    /\ WindowSize \in Nat \ {0}
    /\ MaxRowFaults \in Nat

VARIABLES
    cpc,        \* control state of run()
    round,      \* round_index
    stages,     \* number of stages Main put into control_semantics
    grounding,  \* grounding_decision of this round
    previous,   \* previous_grounding_decision
    draft,      \* policy_plan of this round, with its planning_status
    verdict,    \* mediator_status of this round
    completed,  \* state.completed
    rounds,     \* state.rounds: the traces of the last rounds
    result,     \* state.latest_result
    session,    \* status of the session_context row
    rowFaults   \* number of updates of that row that have failed

loopVars    == <<cpc, round, stages, grounding, previous, draft, verdict, completed,
                 rounds, result, session, rowFaults>>
controlVars == <<execVars, loopVars>>

Planning    == {"main", "iea", "osa"}
PlanStatus  == {"executable_plan", "partial_plan", "blocked"}
NoGrounding == [round |-> 0, stage |-> 0, open |-> FALSE]
NoDraft     == [status |-> "none", plan |-> [supi |-> NoSupi, policies |-> << >>]]
NoResult    == [round |-> 0, completed |-> FALSE, traces |-> << >>]

ControlInit ==
    /\ ExecInit
    /\ cpc = "idle"
    /\ round = 0
    /\ stages \in 1 .. MaxStages
    /\ grounding = NoGrounding
    /\ previous = NoGrounding
    /\ draft = NoDraft
    /\ verdict = "none"
    /\ completed = FALSE
    /\ rounds = << >>
    /\ result = NoResult
    /\ session = "none"
    /\ rowFaults = 0

-------------------------------------------------------------------------------
(* Session.                                                                *)

(* The row is created "active"; the update that binds the snapshot may fail *)
(* and nobody looks.                                                        *)
StartSession ==
    /\ cpc = "idle"
    /\ session' = "active"
    /\ cpc' = "main"
    /\ round' = 1
    /\ UNCHANGED <<execVars, stages, grounding, previous, draft, verdict, completed,
                   rounds, result, rowFaults>>

(* No snapshot to bind, or no row: start_control_session raises.            *)
StartFails ==
    /\ cpc = "idle"
    /\ cpc' = "escaped"
    /\ UNCHANGED <<execVars, round, stages, grounding, previous, draft, verdict,
                   completed, rounds, result, session, rowFaults>>

(* Mutant: the row is closed as "completed" whenever a policy was dispatched. *)
FinishSessionOptimistic(stored) ==
    /\ cpc = "finish"
    /\ stored
    /\ session' = IF executions > 0 THEN "completed" ELSE "failed"
    /\ cpc' = "returned"
    /\ UNCHANGED <<execVars, round, stages, grounding, previous, draft, verdict,
                   completed, rounds, result, rowFaults>>

(* finish_control_session; a failed update is logged by the store only.     *)
FinishSession(stored) ==
    /\ cpc = "finish"
    /\ stored \/ rowFaults < MaxRowFaults
    /\ session' = IF ~ stored THEN session
                  ELSE IF completed THEN "completed" ELSE "failed"
    /\ rowFaults' = IF stored THEN rowFaults ELSE rowFaults + 1
    /\ cpc' = "returned"
    /\ UNCHANGED <<execVars, round, stages, grounding, previous, draft, verdict,
                   completed, rounds, result>>

-------------------------------------------------------------------------------
(* The end of a round.                                                     *)

TraceOf(kind, status) ==
    [round |-> round, kind |-> kind, stage |-> grounding.stage, status |-> status]

(* append_round_trace keeps the last three rounds.                          *)
AppendTrace(trace) ==
    rounds' = IF Len(rounds) < WindowSize THEN Append(rounds, trace)
              ELSE Append(Tail(rounds), trace)

(* latest_result; its round_traces are those of the loop state, set either  *)
(* by the constructor or by append_round_trace.                             *)
SetResult(done) ==
    result' = [round |-> round, completed |-> done, traces |-> rounds']

NextRound(stop) ==
    IF stop \/ round = MaxRounds
    THEN cpc' = "finish" /\ UNCHANGED round
    ELSE cpc' = "main" /\ round' = round + 1

(* What a new round starts from.                                            *)
ClearRound ==
    /\ grounding' = NoGrounding
    /\ draft' = NoDraft
    /\ verdict' = "none"

-------------------------------------------------------------------------------
(* Planning: _plan_round.                                                  *)

(* should_reuse_grounding_decision: sameUe says that the grounded flows are *)
(* those of the supi Main named.                                            *)
MayReuse(next, sameUe) ==
    /\ round > 1
    /\ previous # NoGrounding
    /\ ~ previous.open
    /\ next = "optimization_strategy"
    /\ sameUe

(* Main answers with requested domains and a SUPI scope; round 1 is always  *)
(* routed to intent encoding.                                               *)
MainAnswers(next, sameUe) ==
    /\ cpc = "main"
    /\ round = 1 => next = "intent_encoding"
    /\ IF MayReuse(next, sameUe)
       THEN cpc' = "osa" /\ grounding' = previous
       ELSE cpc' = "iea" /\ UNCHANGED grounding
    /\ UNCHANGED <<execVars, round, stages, previous, draft, verdict, completed,
                   rounds, result, session, rowFaults>>

(* scope_global_intent_for_intent_encoding: the stage is the round's.       *)
ScopedStage == IF round < stages THEN round ELSE stages

(* Mutant: open questions are handed on to the strategy agent.              *)
GroundingReadyWithQuestions ==
    /\ cpc = "iea"
    /\ \E open \in BOOLEAN :
          grounding' = [round |-> round, stage |-> ScopedStage, open |-> open]
    /\ cpc' = "osa"
    /\ UNCHANGED <<execVars, round, stages, previous, draft, verdict, completed, rounds,
                   result, session, rowFaults>>

GroundingReady ==
    /\ cpc = "iea"
    /\ grounding' = [round |-> round, stage |-> ScopedStage, open |-> FALSE]
    /\ cpc' = "osa"
    /\ UNCHANGED <<execVars, round, stages, previous, draft, verdict, completed, rounds,
                   result, session, rowFaults>>

(* Mutant: a round that ends in a negotiation leaves no trace.              *)
GroundingQuestionsUntraced ==
    /\ cpc = "iea"
    /\ UNCHANGED rounds
    /\ SetResult(FALSE)
    /\ NextRound(FALSE)
    /\ ClearRound
    /\ UNCHANGED <<execVars, stages, previous, completed, session, rowFaults>>

(* Open questions: a negotiation request, and the round is over.  The       *)
(* grounding does not become the previous one.                              *)
GroundingQuestions ==
    /\ cpc = "iea"
    /\ AppendTrace([TraceOf("negotiation", "none") EXCEPT !.stage = ScopedStage])
    /\ SetResult(FALSE)
    /\ NextRound(FALSE)
    /\ ClearRound
    /\ UNCHANGED <<execVars, stages, previous, completed, session, rowFaults>>

StrategyAnswers(status, pl) ==
    /\ cpc = "osa"
    /\ draft' = [status |-> status, plan |-> pl]
    /\ previous' = grounding
    /\ cpc' = "execute"
    /\ UNCHANGED <<execVars, round, stages, grounding, verdict, completed, rounds,
                   result, session, rowFaults>>

(* Main, IEA or OSA raises, or Main names no domain or no SUPI.             *)
PlanningFails ==
    /\ cpc \in Planning
    /\ completed' = FALSE
    /\ AppendTrace(TraceOf("planning_failure", "Failed"))
    /\ SetResult(FALSE)
    /\ NextRound(FALSE)
    /\ ClearRound
    /\ UNCHANGED <<execVars, stages, previous, session, rowFaults>>

-------------------------------------------------------------------------------
(* Execution of the planned round: execute_planned_round.                  *)

Dispatchable ==
    \/ draft.status = "executable_plan"
    \/ draft.status = "partial_plan" /\ draft.plan.policies # << >>

ToMediation ==
    /\ cpc = "execute"
    /\ Dispatchable
    /\ cpc' = "mediate"
    /\ UNCHANGED <<execVars, round, stages, grounding, previous, draft, verdict,
                   completed, rounds, result, session, rowFaults>>

(* A planning blocker: no mediation, no dispatch and no diagnosis.          *)
PlanBlocked ==
    /\ cpc = "execute"
    /\ ~ Dispatchable
    /\ completed' = FALSE
    /\ AppendTrace(TraceOf("blocked", "Failed"))
    /\ SetResult(FALSE)
    /\ NextRound(FALSE)
    /\ ClearRound
    /\ UNCHANGED <<execVars, stages, previous, session, rowFaults>>

MediatorApproves ==
    /\ cpc = "mediate"
    /\ verdict' = "approved"
    /\ BeginExecution(draft.plan)
    /\ cpc' = "dispatch"
    /\ UNCHANGED <<round, stages, grounding, previous, draft, completed, rounds,
                   result, session, rowFaults>>

(* Mutant: a plan the mediator wants revised is dispatched as it is.        *)
MediatorBlocksButDispatches(v) ==
    /\ cpc = "mediate"
    /\ verdict' = v
    /\ BeginExecution(draft.plan)
    /\ cpc' = "dispatch"
    /\ UNCHANGED <<round, stages, grounding, previous, draft, completed, rounds,
                   result, session, rowFaults>>

MediatorBlocks(v) ==
    /\ cpc = "mediate"
    /\ verdict' = v
    /\ cpc' = "diagnose"
    /\ UNCHANGED <<execVars, round, stages, grounding, previous, draft, completed,
                   rounds, result, session, rowFaults>>

(* The dispatcher runs to its end inside the round.                         *)
DispatcherSteps ==
    /\ cpc = "dispatch"
    /\ Execute
    /\ UNCHANGED loopVars

DispatcherReports ==
    /\ cpc = "dispatch"
    /\ xpc = "done"
    /\ cpc' = "diagnose"
    /\ UNCHANGED <<execVars, round, stages, grounding, previous, draft, verdict,
                   completed, rounds, result, session, rowFaults>>

Reported == verdict = "approved"

(* Mutant: a round whose plan was dispatched is complete.                   *)
RoundCompletedOnReport == Reported

(* completed = report.execution_status == "Success".                        *)
RoundCompleted == Reported /\ report.status = "Success"

(* The loop reads retry_forbidden at the top level of the payload.          *)
StopsRetrying == Reported /\ report.forbidden

(* Mutant: the result is built before the trace is appended, and the trace  *)
(* is not copied into it.                                                   *)
RoundEndsStaleResult ==
    /\ cpc = "diagnose"
    /\ completed' = RoundCompleted
    /\ AppendTrace(IF Reported THEN TraceOf("executed", report.status)
                   ELSE TraceOf("mediated", "Failed"))
    /\ result' = [round |-> round, completed |-> RoundCompleted, traces |-> rounds]
    /\ NextRound(RoundCompleted \/ StopsRetrying)
    /\ ClearRound
    /\ UNCHANGED <<execVars, stages, previous, session, rowFaults>>

(* The diagnosis is in: the round is judged and its trace appended.         *)
RoundEnds ==
    /\ cpc = "diagnose"
    /\ completed' = RoundCompleted
    /\ AppendTrace(IF Reported THEN TraceOf("executed", report.status)
                   ELSE TraceOf("mediated", "Failed"))
    /\ SetResult(RoundCompleted)
    /\ NextRound(RoundCompleted \/ StopsRetrying)
    /\ ClearRound
    /\ UNCHANGED <<execVars, stages, previous, session, rowFaults>>

(* What run() does not catch: the memory context of a new round, a missing  *)
(* snapshot, the mediator, an exception of the dispatcher, the diagnosis    *)
(* and the memory written after it.  The session row stays as it is.        *)
Escapes ==
    /\ \/ cpc \in {"main", "execute", "mediate", "diagnose"}
       \/ cpc = "dispatch" /\ xpc = "raised"
    /\ cpc' = "escaped"
    /\ UNCHANGED <<execVars, round, stages, grounding, previous, draft, verdict,
                   completed, rounds, result, session, rowFaults>>

-------------------------------------------------------------------------------
GatewayRuns == Gateway /\ UNCHANGED loopVars

Loop ==
    \/ StartSession
    \/ StartFails
    \/ \E next \in {"intent_encoding", "optimization_strategy"}, sameUe \in BOOLEAN :
          MainAnswers(next, sameUe)
    \/ GroundingReady
    \/ GroundingQuestions
    \/ \E status \in PlanStatus, pl \in Plans : StrategyAnswers(status, pl)
    \/ PlanningFails
    \/ ToMediation
    \/ PlanBlocked
    \/ MediatorApproves
    \/ \E v \in {"revise", "reject"} : MediatorBlocks(v)
    \/ DispatcherSteps
    \/ DispatcherReports
    \/ RoundEnds
    \/ Escapes
    \/ \E stored \in BOOLEAN : FinishSession(stored)

ControlNext == Loop \/ GatewayRuns

ControlSpec == ControlInit /\ [][ControlNext]_controlVars

(* run() is a synchronous call: it goes on until it returns or raises.      *)
(* Nothing is assumed of the gateway.                                       *)
ControlFairSpec == ControlSpec /\ WF_controlVars(Loop)

-------------------------------------------------------------------------------
(* Properties.                                                             *)

Stored == UNION {ueAccess[s] \cup ueMobility[s] : s \in Supis}

(* A run that says "completed", in its result or in the session row, has a  *)
(* last plan that is whole: every policy active at the gateway and stored,  *)
(* whatever failed in the rounds before it and however late the gateway     *)
(* answered them.                                                           *)
CompletedIsStored ==
    (session = "completed" \/ (cpc = "returned" /\ result.completed)) =>
        /\ PolicySet(plan) # {}
        /\ PolicySet(plan) \subseteq applied \cap Stored

(* Every way a round may end leaves exactly one trace, so the feedback a    *)
(* round is given is that of the round before it: the window holds the last *)
(* rounds, consecutive and in order.  The result a caller gets holds these, *)
(* the last round's number and its completed flag, which the session row    *)
(* does not contradict, although the code builds the result before the      *)
(* trace in one branch and after it in the others.                          *)
RoundsEnded == IF cpc \in {"idle", "escaped"} THEN 0
               ELSE IF cpc \in {"finish", "returned"} THEN round ELSE round - 1

ResultTellsTheRounds ==
    /\ cpc # "escaped" =>
        /\ Len(rounds) = IF RoundsEnded < WindowSize THEN RoundsEnded ELSE WindowSize
        /\ \A i \in 1 .. Len(rounds) : rounds[i].round = RoundsEnded - Len(rounds) + i
    /\ cpc = "returned" =>
        /\ result = [round |-> round, completed |-> completed, traces |-> rounds]
        /\ session \in {"completed", "failed"} => (session = "completed") = completed

(* The strategy agent never plans on a grounding with an open question, and *)
(* a grounding that is reused was made in an earlier round of this run.     *)
PlansOnSettledGrounding ==
    cpc \in {"osa", "execute", "mediate", "dispatch", "diagnose"} =>
        /\ ~ grounding.open
        /\ grounding.round \in 1 .. round
        /\ grounding.stage = IF grounding.round < stages THEN grounding.round ELSE stages

(* The UE store changes only inside a round whose plan the mediator         *)
(* approved, on behalf of that round's plan, while the session is open.     *)
StoreFollowsApproval ==
    [][Stored' # Stored =>
          /\ verdict = "approved" /\ plan = draft.plan
          /\ session = "active"]_controlVars

(* What the run promises, as an abstract specification.                     *)
Session == INSTANCE ControlSession
    WITH PlanSets <- {PolicySet(pl) : pl \in Plans},
         row <- session, active <- applied, stored <- Stored

ImplementsSession == Session!SessionSpec

(* policy_batch_executor tells the loop to "terminate this case without     *)
(* retrying or redispatching the policy" when the dispatch deadline has     *)
(* passed: such a policy is never posted again.                             *)
NoRedispatchAfterDeadline == reposted = {}

(* A later stage is grounded "after_previous_stage": only when a round of   *)
(* the stage before it has succeeded.                                       *)
StageAfterPrevious ==
    (cpc = "osa" /\ grounding.stage > 1) =>
        \E i \in 1 .. Len(rounds) : /\ rounds[i].stage = grounding.stage - 1
                                    /\ rounds[i].status = "Success"
=============================================================================
