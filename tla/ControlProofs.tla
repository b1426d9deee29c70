----------------------------- MODULE ControlProofs -----------------------------
(***************************************************************************)
(* Proofs about a run of either orchestrator, for any plans, rounds,       *)
(* stages, size of the trace window and faults.                            *)
(***************************************************************************)
EXTENDS Orchestrators, PolicyExecutionProofs

(* How a round ends, whichever action ends it.                              *)
RoundOver(done, trace) ==
    /\ completed' = done
    /\ AppendTrace(trace)
    /\ SetResult(done)
    /\ \/ cpc' = "finish" /\ round' = round
       \/ ~done /\ cpc' = "main" /\ round' = round + 1
    /\ ClearRound
    /\ UNCHANGED <<execVars, stages, previous, session, rowFaults>>

InRound == {"main", "iea", "osa", "execute", "mediate", "dispatch"}

(* A round that is broken off.                                              *)
LEMMA RoundBreaksOff ==
  ASSUME PlanningFails \/ PlanBlocked \/ SingleRoundRaises
  PROVE  /\ cpc \in InRound \cup {"diagnose"}
         /\ \E kind \in {"planning_failure", "blocked"} : RoundOver(FALSE, TraceOf(kind, "Failed"))
<1>1. CASE PlanningFails
  BY <1>1 DEF PlanningFails, Planning, NextRound, RoundOver, InRound
<1>2. CASE PlanBlocked
  BY <1>2 DEF PlanBlocked, NextRound, RoundOver, InRound
<1>3. CASE SingleRoundRaises
  BY <1>3 DEF SingleRoundRaises, Raised, NextRound, RoundOver, InRound
<1> QED BY <1>1, <1>2, <1>3

(* A round that is judged.                                                  *)
LEMMA RoundIsJudged ==
  ASSUME RoundEnds \/ SingleRoundEnds
  PROVE  /\ cpc = "diagnose"
         /\ RoundOver(RoundCompleted, IF Reported THEN TraceOf("executed", report.status)
                                      ELSE TraceOf("mediated", "Failed"))
<1>1. CASE RoundEnds
  BY <1>1 DEF RoundEnds, NextRound, RoundOver
<1>2. CASE SingleRoundEnds
  BY <1>2 DEF SingleRoundEnds, NextRound, RoundOver
<1> QED BY <1>1, <1>2

-------------------------------------------------------------------------------
(* A run is an execution as PolicyExecution has it, whatever happens around *)
(* it: what is dispatched is a plan the planner has handed over.            *)

PlanHandedOver == cpc \in {"execute", "mediate"} => draft.plan \in Plans

LEMMA HandOver ==
  ASSUME PlanHandedOver, [OrchestratorNext]_orchestratorVars
  PROVE  PlanHandedOver'
<1>1. CASE \E status \in PlanStatus, pl \in Plans :
              StrategyAnswers(status, pl) \/ SinglePlans(status, pl)
  BY <1>1 DEF StrategyAnswers, SinglePlans, PlanHandedOver
<1>2. CASE ToMediation
  BY <1>2 DEF ToMediation, PlanHandedOver
<1>3. CASE PlanningFails \/ PlanBlocked \/ SingleRoundRaises
  BY <1>3, RoundBreaksOff DEF RoundOver, PlanHandedOver
<1>4. CASE RoundEnds \/ SingleRoundEnds
  BY <1>4, RoundIsJudged DEF RoundOver, PlanHandedOver
<1>5. CASE GroundingQuestions
  BY <1>5 DEF GroundingQuestions, NextRound, PlanHandedOver
<1>6. CASE MediatorApproves \/ \E v \in {"revise", "reject"} : MediatorBlocks(v)
  BY <1>6 DEF MediatorApproves, MediatorBlocks, PlanHandedOver
<1>7. CASE DispatcherSteps \/ GatewayRuns \/ UNCHANGED orchestratorVars
  BY <1>7 DEF DispatcherSteps, GatewayRuns, orchestratorVars, controlVars, loopVars, PlanHandedOver
<1>8. CASE \/ StartSession \/ StartFails \/ GroundingReady \/ DispatcherReports \/ Escapes
           \/ \E next \in {"intent_encoding", "optimization_strategy"}, sameUe \in BOOLEAN :
                 MainAnswers(next, sameUe)
           \/ \E stored \in BOOLEAN : FinishSession(stored)
  BY <1>8 DEF StartSession, StartFails, GroundingReady, DispatcherReports, Escapes, MainAnswers,
              FinishSession, PlanHandedOver
<1> QED BY <1>1, <1>2, <1>3, <1>4, <1>5, <1>6, <1>7, <1>8
        DEF OrchestratorNext, MultiAgentRuns, SingleAgentRuns, ControlNext, SingleNext, Loop, SingleLoop

LEMMA ExecutionSteps ==
  ASSUME PlanHandedOver, [OrchestratorNext]_orchestratorVars
  PROVE  [ExecNext]_execVars
<1>1. CASE PlanningFails \/ PlanBlocked \/ SingleRoundRaises
  BY <1>1, RoundBreaksOff DEF RoundOver
<1>2. CASE RoundEnds \/ SingleRoundEnds
  BY <1>2, RoundIsJudged DEF RoundOver
<1>3. CASE MediatorApproves
  BY <1>3 DEF MediatorApproves, PlanHandedOver, ExecNext
<1>4. CASE DispatcherSteps \/ GatewayRuns
  BY <1>4 DEF DispatcherSteps, GatewayRuns, ExecNext
<1>5. CASE \/ \E status \in PlanStatus, pl \in Plans :
                 StrategyAnswers(status, pl) \/ SinglePlans(status, pl)
           \/ ToMediation \/ GroundingQuestions \/ GroundingReady
           \/ \E v \in {"revise", "reject"} : MediatorBlocks(v)
  BY <1>5 DEF StrategyAnswers, SinglePlans, ToMediation, GroundingQuestions, GroundingReady,
              MediatorBlocks
<1>6. CASE \/ StartSession \/ StartFails \/ DispatcherReports \/ Escapes
           \/ \E next \in {"intent_encoding", "optimization_strategy"}, sameUe \in BOOLEAN :
                 MainAnswers(next, sameUe)
           \/ \E stored \in BOOLEAN : FinishSession(stored)
  BY <1>6 DEF StartSession, StartFails, DispatcherReports, Escapes, MainAnswers, FinishSession
<1>7. CASE UNCHANGED orchestratorVars
  BY <1>7 DEF orchestratorVars, controlVars
<1> QED BY <1>1, <1>2, <1>3, <1>4, <1>5, <1>6, <1>7
        DEF OrchestratorNext, MultiAgentRuns, SingleAgentRuns, ControlNext, SingleNext, Loop, SingleLoop

(* Whatever PolicyExecution proves of its executions holds in every run of  *)
(* either orchestrator: rounds, retries, mediation and exceptions that cut  *)
(* a round short only begin executions, interleave with them or leave them  *)
(* alone.                                                                   *)
THEOREM RunIsAnExecution == OrchestratorSpec => ExecSpec
<1>1. OrchestratorInit => ExecInit /\ PlanHandedOver
  BY DEF OrchestratorInit, ControlInit, PlanHandedOver
<1>2. PlanHandedOver /\ [OrchestratorNext]_orchestratorVars => PlanHandedOver'
  BY HandOver
<1>3. PlanHandedOver /\ [OrchestratorNext]_orchestratorVars => [ExecNext]_execVars
  BY ExecutionSteps
<1> QED BY <1>1, <1>2, <1>3, PTL DEF OrchestratorSpec, ExecSpec

-------------------------------------------------------------------------------
(* What a report of success says of a run's plan.                           *)

SuccessNamesPolicies == xpc = "done" /\ report.status = "Success" => plan.policies # << >>

LEMMA SuccessNotEmpty == ExecSpec => [](ExecInv /\ SuccessIsWholePlan /\ SuccessNamesPolicies)
<1>1. ExecInit => SuccessNamesPolicies
  BY DEF ExecInit, SuccessNamesPolicies
<1>2. ExecInv /\ SuccessNamesPolicies /\ [ExecNext]_execVars => SuccessNamesPolicies'
  <2> SUFFICES ASSUME ExecInv, SuccessNamesPolicies, [ExecNext]_execVars
               PROVE  SuccessNamesPolicies'
    OBVIOUS
  <2>1. CASE Dispatch \/ Poll
    BY <2>1 DEF Dispatch, Poll, PostFails, PostApplied, PostTerminalFailure, PostPending,
       PostPendingWithoutOperation, PollPending, PollApplied, PollRejected, PollBreaks, PollDeadline,
       Posting, Fetching, DispatchFails, NextPolicy, SuccessNamesPolicies
  <2>2. CASE Gateway \/ UNCHANGED execVars
    BY <2>2 DEF Gateway, GatewayApplies, GatewayRejects, OrphanEnds, execVars, batchVars,
       SuccessNamesPolicies
  <2>3. CASE Commit
    <3>1. plan.policies # << >> /\ plan' = plan
      BY <2>3 DEF Commit, BeginCommit, CommitAccess, CommitAssociation, CommitMobilityContext,
         CommitBinding, CommitMobilityEvent, CommitRaises, CommitStages, ExecInv, CursorInPlan, batchVars
    <3> QED BY <3>1 DEF SuccessNamesPolicies
  <2>4. CASE CompileFails \/ ReportFailures
    BY <2>4 DEF CompileFails, ReportFailures, Deliver, BuildFeedback, FailedStatus, SuccessNamesPolicies
  <2>5. CASE CompilePlan \/ (\E pl \in Plans : BeginExecution(pl))
             \/ (\E ev \in Evidence : Assure(ev) \/ WrongSlice(ev))
    BY <2>5 DEF CompilePlan, BeginExecution, Assure, WrongSlice, DispatchFails, NextPolicy,
       SuccessNamesPolicies
  <2> QED BY <2>1, <2>2, <2>3, <2>4, <2>5 DEF ExecNext, Execute
<1> QED BY <1>1, <1>2, ExecInvariant, SuccessIsWhole, PTL DEF ExecSpec

(* The plan a report of success speaks of is active and stored as a whole.  *)
LEMMA SuccessIsStored ==
  ASSUME ExecInv, SuccessIsWholePlan, SuccessNamesPolicies, xpc = "done", report.status = "Success"
  PROVE  PolicySet(plan) # {} /\ PolicySet(plan) \subseteq applied \cap Stored
<1>1. plan.policies \in Seq(Policies) /\ plan.policies # << >> /\ plan \in PlanType
  BY DEF SuccessNamesPolicies, ExecInv, TypeOK, PlanType
<1>2. CommitSupi \in Supis
  BY <1>1, CommitSupiIsUe DEF ExecInv
<1>3. PolicySet(plan) # {}
  <2>1. 1 \in 1 .. Len(plan.policies)
    BY <1>1
  <2> QED BY <2>1 DEF PolicySet
<1>4. ASSUME NEW p \in PolicySet(plan)
      PROVE  p \in applied /\ p \in Stored
  <2>1. p \in applied /\ p \in ueAccess[CommitSupi] \cup ueMobility[CommitSupi]
    BY DEF SuccessIsWholePlan
  <2> QED BY <1>2, <2>1 DEF Stored
<1> QED BY <1>3, <1>4

-------------------------------------------------------------------------------
(* The state of a run.                                                      *)

Busy == {"main", "iea", "osa", "execute", "mediate", "dispatch", "diagnose", "finish"}

GroundingType == [round : Nat, stage : Nat, open : BOOLEAN]
Trace == [round : Nat, stage : Nat, status : Statuses \cup {"none"},
          kind : {"negotiation", "planning_failure", "blocked", "executed", "mediated"}]

RunShape ==
    /\ cpc \in Busy \cup {"idle", "returned", "escaped"}
    /\ round \in Nat /\ (cpc \in Busy \cup {"returned"} => round >= 1)
    /\ stages \in Nat \ {0}
    /\ grounding \in GroundingType /\ previous \in GroundingType
    /\ rounds \in Seq(Trace)
    /\ cpc = "idle" => round = 0 /\ rounds = << >>

(* The session is open while the run goes on, and what is dispatched is the *)
(* draft the mediator has approved.                                         *)
SessionInv ==
    /\ cpc = "idle" => session = "none"
    /\ cpc \in Busy => session = "active"
    /\ session \in {"completed", "failed"} => cpc = "returned" /\ (session = "completed") = completed
    /\ cpc \in {"execute", "mediate"} => draft.plan \in Plans
    /\ cpc = "dispatch" => verdict = "approved" /\ plan = draft.plan
    /\ cpc = "diagnose" /\ verdict = "approved" => xpc = "done"
    /\ xpc # "idle" => plan \in Plans

(* "completed" rests on the report of the round that ended last.            *)
OutcomeInv ==
    /\ completed \in BOOLEAN
    /\ completed => cpc \in {"finish", "returned"} /\ xpc = "done" /\ report.status = "Success"
    /\ cpc \in {"finish", "returned"} =>
          result = [round |-> round, completed |-> completed, traces |-> rounds]

InWindow(n, ts) ==
    /\ Len(ts) = IF n < WindowSize THEN n ELSE WindowSize
    /\ \A i \in 1 .. Len(ts) : ts[i].round = n - Len(ts) + i

WindowInv == cpc # "escaped" => InWindow(RoundsEnded, rounds)

(* A grounding that may be planned on.                                      *)
Settled(g) ==
    /\ ~ g.open
    /\ g.round \in 1 .. round
    /\ g.stage = IF g.round < stages THEN g.round ELSE stages

SettledInv ==
    /\ previous = NoGrounding \/ Settled(previous)
    /\ architecture = "multi_agent" /\ cpc \in {"osa", "execute", "mediate", "dispatch", "diagnose"}
          => Settled(grounding)

ControlInv == RunShape /\ SessionInv /\ OutcomeInv /\ WindowInv /\ SettledInv

-------------------------------------------------------------------------------
(* One round after the other.                                               *)

(* The window after one trace more.                                         *)
LEMMA WindowMoves ==
  ASSUME rounds \in Seq(Trace), NEW n \in Nat, InWindow(n, rounds),
         NEW trace \in Trace, trace.round = n + 1, AppendTrace(trace)
  PROVE  rounds' \in Seq(Trace) /\ InWindow(n + 1, rounds')
<1>1. Len(rounds) \in Nat /\ Len(rounds) <= n /\ WindowSize \in Nat \ {0}
  BY RoundAssumption DEF InWindow
<1>2. CASE Len(rounds) < WindowSize
  <2>1. rounds' = Append(rounds, trace) /\ Len(rounds) = n
    BY <1>1, <1>2 DEF AppendTrace, InWindow
  <2>2. rounds' \in Seq(Trace) /\ Len(rounds') = n + 1
        /\ \A i \in 1 .. n + 1 : rounds'[i] = IF i = n + 1 THEN trace ELSE rounds[i]
    BY <2>1
  <2>3. \A i \in 1 .. n : rounds[i].round = i
    BY <1>1, <2>1 DEF InWindow
  <2>4. \A i \in 1 .. n + 1 : rounds'[i].round = i
    BY <2>2, <2>3
  <2> QED BY <1>1, <1>2, <2>1, <2>2, <2>4 DEF InWindow
<1>3. CASE ~ (Len(rounds) < WindowSize)
  <2>1. rounds' = Append(Tail(rounds), trace) /\ Len(rounds) = WindowSize /\ n >= WindowSize
    BY <1>1, <1>3 DEF AppendTrace, InWindow
  <2>2. Tail(rounds) \in Seq(Trace) /\ Len(Tail(rounds)) = WindowSize - 1
        /\ \A i \in 1 .. WindowSize - 1 : Tail(rounds)[i] = rounds[i + 1]
    BY <1>1, <2>1
  <2>3. rounds' \in Seq(Trace) /\ Len(rounds') = WindowSize
        /\ \A i \in 1 .. WindowSize : rounds'[i] = IF i = WindowSize THEN trace ELSE rounds[i + 1]
    BY <1>1, <2>1, <2>2
  <2>4. \A i \in 1 .. WindowSize - 1 : rounds[i + 1].round = n - WindowSize + (i + 1)
    BY <1>1, <2>1 DEF InWindow
  <2>5. ASSUME NEW i \in 1 .. WindowSize
        PROVE  rounds'[i].round = (n + 1) - WindowSize + i
    <3>1. CASE i = WindowSize
      <4>1. rounds'[i] = trace
        BY <2>3, <3>1
      <4> QED BY <1>1, <3>1, <4>1
    <3>2. CASE i # WindowSize
      <4>1. i \in 1 .. WindowSize - 1 /\ i \in Nat
        BY <1>1, <3>2
      <4>2. rounds'[i] = rounds[i + 1]
        BY <2>3, <3>2
      <4>3. rounds'[i].round = n - WindowSize + (i + 1)
        BY <2>4, <4>1, <4>2
      <4> QED BY <1>1, <4>1, <4>3
    <3> QED BY <3>1, <3>2
  <2>6. ~ (n + 1 < WindowSize)
    BY <1>1, <2>1
  <2> QED BY <2>3, <2>5, <2>6 DEF InWindow
<1> QED BY <1>2, <1>3

LEMMA RoundOverKeepsInv ==
  ASSUME ControlInv, UNCHANGED architecture, cpc \in InRound \cup {"diagnose"},
         NEW done \in BOOLEAN, done => xpc = "done" /\ report.status = "Success",
         NEW trace \in Trace, trace.round = round, RoundOver(done, trace)
  PROVE  ControlInv'
<1>1. RunShape /\ SessionInv /\ OutcomeInv /\ WindowInv /\ SettledInv
  BY DEF ControlInv
<1>2. /\ completed' = done /\ ClearRound
      /\ result' = [round |-> round, completed |-> done, traces |-> rounds']
      /\ \/ cpc' = "finish" /\ round' = round
         \/ ~done /\ cpc' = "main" /\ round' = round + 1
      /\ UNCHANGED <<execVars, stages, previous, session>>
  BY DEF RoundOver, SetResult
<1>3. UNCHANGED <<xpc, plan, report>>
  BY <1>2 DEF execVars, batchVars
<1>4. round \in Nat /\ round >= 1 /\ RoundsEnded = round - 1 /\ RoundsEnded' = round /\ cpc # "escaped"
  BY <1>1, <1>2 DEF RunShape, InRound, Busy, RoundsEnded
<1>5. rounds' \in Seq(Trace) /\ InWindow(round, rounds')
  <2>1. round - 1 \in Nat /\ (round - 1) + 1 = round /\ InWindow(round - 1, rounds)
    BY <1>1, <1>4 DEF WindowInv
  <2> QED BY <1>1, <2>1, WindowMoves DEF RoundOver, RunShape
<1>6. RunShape'
  BY <1>1, <1>2, <1>4, <1>5 DEF RunShape, Busy, ClearRound, NoGrounding, GroundingType
<1>7. SessionInv'
  BY <1>1, <1>2, <1>3 DEF SessionInv, InRound, Busy
<1>8. OutcomeInv'
  BY <1>2, <1>3 DEF OutcomeInv
<1>9. WindowInv'
  BY <1>4, <1>5 DEF WindowInv
<1>10. SettledInv'
  <2>1. previous = NoGrounding \/ (Settled(previous) /\ Settled(previous)')
    BY <1>1, <1>2, <1>4 DEF SettledInv, Settled, RunShape, GroundingType
  <2> QED BY <1>2, <2>1 DEF SettledInv
<1> QED BY <1>6, <1>7, <1>8, <1>9, <1>10 DEF ControlInv

LEMMA TraceIsOne ==
  ASSUME RunShape, NEW kind \in {"planning_failure", "blocked", "executed", "mediated", "negotiation"},
         NEW status \in Statuses \cup {"none"}
  PROVE  TraceOf(kind, status) \in Trace /\ TraceOf(kind, status).round = round
BY DEF RunShape, TraceOf, Trace, GroundingType

(* Every end of a round, in either orchestrator.                            *)
LEMMA RoundEndKeepsInv ==
  ASSUME ControlInv, TypeOK, UNCHANGED architecture,
         \/ PlanningFails \/ PlanBlocked \/ SingleRoundRaises \/ RoundEnds \/ SingleRoundEnds
         \/ GroundingQuestions
  PROVE  ControlInv'
<1>1. RunShape /\ SessionInv /\ OutcomeInv
  BY DEF ControlInv
<1>2. CASE PlanningFails \/ PlanBlocked \/ SingleRoundRaises
  <2>1. PICK kind \in {"planning_failure", "blocked"} :
           cpc \in InRound \cup {"diagnose"} /\ RoundOver(FALSE, TraceOf(kind, "Failed"))
    BY <1>2, RoundBreaksOff
  <2>2. PICK trace \in Trace : trace = TraceOf(kind, "Failed") /\ trace.round = round
    BY <1>1, TraceIsOne DEF Statuses
  <2> QED BY <2>1, <2>2, RoundOverKeepsInv
<1>3. CASE RoundEnds \/ SingleRoundEnds
  <2> DEFINE t == IF Reported THEN TraceOf("executed", report.status) ELSE TraceOf("mediated", "Failed")
  <2>1. cpc = "diagnose" /\ RoundOver(RoundCompleted, t)
    BY <1>3, RoundIsJudged
  <2>2. report.status \in Statuses \cup {"none"}
    BY DEF TypeOK, ReportType
  <2>3. t \in Trace /\ t.round = round
    BY <1>1, <2>2, TraceIsOne DEF Statuses
  <2> HIDE DEF t
  <2>4. PICK trace \in Trace, done \in BOOLEAN :
           trace = t /\ trace.round = round /\ done = RoundCompleted
    BY <2>3 DEF RoundCompleted, Reported
  <2>5. done => xpc = "done" /\ report.status = "Success"
    BY <1>1, <2>1, <2>4 DEF RoundCompleted, Reported, SessionInv
  <2> QED BY <2>1, <2>4, <2>5, RoundOverKeepsInv
<1>4. CASE GroundingQuestions
  <2> DEFINE t == [TraceOf("negotiation", "none") EXCEPT !.stage = ScopedStage]
  <2>1. cpc = "iea" /\ completed = FALSE
    BY <1>1, <1>4 DEF GroundingQuestions, OutcomeInv
  <2>2. t \in Trace /\ t.round = round
    BY <1>1 DEF RunShape, TraceOf, Trace, ScopedStage
  <2>3. RoundOver(FALSE, t)
    BY <1>4, <2>1 DEF GroundingQuestions, NextRound, RoundOver
  <2> HIDE DEF t
  <2> QED BY <2>1, <2>2, <2>3, RoundOverKeepsInv DEF InRound
<1> QED BY <1>2, <1>3, <1>4

(* A step within a round: the run goes on to another place, and what has    *)
(* been told of the rounds before stays.                                    *)
LEMMA WithinRound ==
  ASSUME ControlInv, UNCHANGED <<round, stages, previous, completed, rounds, result, session>>,
         cpc \in InRound, cpc' \in (InRound \ {"main"}) \cup {"diagnose"}
  PROVE  /\ OutcomeInv' /\ WindowInv'
         /\ grounding' \in GroundingType => RunShape'
         /\ previous' = NoGrounding \/ Settled(previous)'
<1>1. RunShape /\ OutcomeInv /\ WindowInv /\ SettledInv
  BY DEF ControlInv
<1>2. OutcomeInv'
  BY <1>1 DEF OutcomeInv, InRound
<1>3. WindowInv'
  BY <1>1 DEF WindowInv, InWindow, RoundsEnded, InRound
<1>4. grounding' \in GroundingType => RunShape'
  BY <1>1 DEF RunShape, InRound, Busy
<1>5. previous' = NoGrounding \/ Settled(previous)'
  BY <1>1 DEF SettledInv, Settled
<1> QED BY <1>2, <1>3, <1>4, <1>5

LEMMA PlanningKeepsInv ==
  ASSUME ControlInv, UNCHANGED architecture, architecture = "multi_agent",
         \/ \E next \in {"intent_encoding", "optimization_strategy"}, sameUe \in BOOLEAN :
               MainAnswers(next, sameUe)
         \/ GroundingReady
         \/ \E status \in PlanStatus, pl \in Plans : StrategyAnswers(status, pl)
  PROVE  ControlInv'
<1>1. RunShape /\ SessionInv /\ SettledInv
  BY DEF ControlInv
<1>2. CASE \E next \in {"intent_encoding", "optimization_strategy"}, sameUe \in BOOLEAN :
              MainAnswers(next, sameUe)
  <2>1. /\ cpc = "main" /\ cpc' \in {"osa", "iea"}
        /\ UNCHANGED <<xpc, plan, round, stages, previous, completed, rounds, result, session>>
        /\ grounding' \in {grounding, previous}
        /\ cpc' = "osa" => previous # NoGrounding /\ grounding' = previous
    BY <1>2 DEF MainAnswers, MayReuse, execVars, batchVars
  <2>2. /\ OutcomeInv' /\ WindowInv' /\ (grounding' \in GroundingType => RunShape')
        /\ previous' = NoGrounding \/ Settled(previous)'
    BY <2>1, WithinRound DEF InRound
  <2>3. RunShape'
    BY <1>1, <2>1, <2>2 DEF RunShape
  <2>4. SessionInv'
    BY <1>1, <2>1 DEF SessionInv, Busy
  <2>5. cpc' = "osa" => Settled(grounding)'
    BY <2>1, <2>2 DEF Settled
  <2> QED BY <2>1, <2>2, <2>3, <2>4, <2>5 DEF ControlInv, SettledInv
<1>3. CASE GroundingReady
  <2>1. /\ cpc = "iea" /\ cpc' = "osa"
        /\ UNCHANGED <<xpc, plan, round, stages, previous, completed, rounds, result, session>>
        /\ grounding' = [round |-> round, stage |-> ScopedStage, open |-> FALSE]
    BY <1>3 DEF GroundingReady, execVars, batchVars
  <2>2. /\ OutcomeInv' /\ WindowInv' /\ (grounding' \in GroundingType => RunShape')
        /\ previous' = NoGrounding \/ Settled(previous)'
    BY <2>1, WithinRound DEF InRound
  <2>3. RunShape'
    BY <1>1, <2>1, <2>2 DEF RunShape, GroundingType, ScopedStage
  <2>4. SessionInv'
    BY <1>1, <2>1 DEF SessionInv, Busy
  <2>5. Settled(grounding)'
    BY <1>1, <2>1 DEF Settled, ScopedStage, RunShape, Busy
  <2> QED BY <2>2, <2>3, <2>4, <2>5 DEF ControlInv, SettledInv
<1>4. CASE \E status \in PlanStatus, pl \in Plans : StrategyAnswers(status, pl)
  <2>1. /\ cpc = "osa" /\ cpc' = "execute" /\ draft'.plan \in Plans /\ previous' = grounding
        /\ UNCHANGED <<xpc, plan, round, stages, grounding, completed, rounds, result, session>>
    BY <1>4 DEF StrategyAnswers, execVars, batchVars
  <2>2. Settled(grounding) /\ Settled(grounding)' /\ Settled(previous)'
    BY <1>1, <2>1 DEF SettledInv, Settled
  <2>3. RunShape'
    BY <1>1, <2>1 DEF RunShape, Busy
  <2>4. SessionInv'
    BY <1>1, <2>1 DEF SessionInv, Busy
  <2>5. OutcomeInv'
    BY <2>1 DEF ControlInv, OutcomeInv
  <2>6. WindowInv'
    BY <2>1 DEF ControlInv, WindowInv, InWindow, RoundsEnded
  <2> QED BY <2>2, <2>3, <2>4, <2>5, <2>6 DEF ControlInv, SettledInv
<1> QED BY <1>2, <1>3, <1>4

(* The dispatcher works on one plan until it is done.                       *)
LEMMA ExecuteKeepsPlan ==
  ASSUME Execute
  PROVE  plan' = plan /\ xpc # "idle"
<1>1. CASE Dispatch \/ Poll
  BY <1>1 DEF Dispatch, Poll, PostFails, PostApplied, PostTerminalFailure, PostPending,
     PostPendingWithoutOperation, PollPending, PollApplied, PollRejected, PollBreaks, PollDeadline,
     Posting, Fetching, batchVars
<1>2. CASE Commit
  BY <1>2 DEF Commit, BeginCommit, CommitAccess, CommitAssociation, CommitMobilityContext,
     CommitBinding, CommitMobilityEvent, CommitRaises, batchVars
<1>3. CASE \/ CompilePlan \/ CompileFails \/ ReportFailures
           \/ \E ev \in Evidence : Assure(ev) \/ WrongSlice(ev)
  BY <1>3 DEF CompilePlan, CompileFails, ReportFailures, Assure, WrongSlice, batchVars
<1> QED BY <1>1, <1>2, <1>3 DEF Execute

LEMMA ExecutionKeepsInv ==
  ASSUME ControlInv, UNCHANGED architecture,
         \/ /\ architecture = "single_agent"
            /\ \E status \in PlanStatus, pl \in Plans : SinglePlans(status, pl)
         \/ ToMediation
         \/ MediatorApproves
         \/ \E v \in {"revise", "reject"} : MediatorBlocks(v)
         \/ DispatcherReports
  PROVE  ControlInv'
<1>1. RunShape /\ SessionInv /\ SettledInv /\ grounding \in GroundingType
  BY DEF ControlInv, RunShape
<1>2. /\ cpc \in {"main", "execute", "mediate", "dispatch"}
      /\ cpc' \in {"execute", "mediate", "dispatch", "diagnose"}
      /\ UNCHANGED <<round, stages, grounding, previous, completed, rounds, result, session>>
      /\ cpc = "main" => architecture = "single_agent"
  <2>1. CASE MediatorApproves
    BY <2>1 DEF MediatorApproves
  <2>2. CASE ~ MediatorApproves
    BY <2>2 DEF SinglePlans, ToMediation, MediatorBlocks, DispatcherReports
  <2> QED BY <2>1, <2>2
<1>3. /\ OutcomeInv' /\ WindowInv' /\ (grounding' \in GroundingType => RunShape')
      /\ previous' = NoGrounding \/ Settled(previous)'
  BY <1>2, WithinRound DEF InRound
<1>4. RunShape'
  BY <1>1, <1>2, <1>3
<1>5. SettledInv'
  BY <1>1, <1>2, <1>3 DEF SettledInv, Settled
<1>6. SessionInv'
  <2>1. CASE \E status \in PlanStatus, pl \in Plans : SinglePlans(status, pl)
    BY <1>1, <2>1 DEF SinglePlans, SessionInv, Busy, execVars, batchVars
  <2>2. CASE ToMediation
    BY <1>1, <2>2 DEF ToMediation, SessionInv, Busy, execVars, batchVars
  <2>3. CASE MediatorApproves
    BY <1>1, <2>3 DEF MediatorApproves, BeginExecution, SessionInv, Busy
  <2>4. CASE \E v \in {"revise", "reject"} : MediatorBlocks(v)
    BY <1>1, <2>4 DEF MediatorBlocks, SessionInv, Busy, execVars, batchVars
  <2>5. CASE DispatcherReports
    BY <1>1, <2>5 DEF DispatcherReports, SessionInv, Busy, execVars, batchVars
  <2> QED BY <2>1, <2>2, <2>3, <2>4, <2>5
<1> QED BY <1>3, <1>4, <1>5, <1>6 DEF ControlInv

(* The dispatcher and the gateway at work, and nothing at all.              *)
LEMMA WorkKeepsInv ==
  ASSUME ControlInv, UNCHANGED architecture, DispatcherSteps \/ GatewayRuns \/ UNCHANGED controlVars
  PROVE  ControlInv'
<1>1. RunShape /\ SessionInv /\ OutcomeInv /\ WindowInv /\ SettledInv
  BY DEF ControlInv
<1>2. UNCHANGED loopVars
  BY DEF DispatcherSteps, GatewayRuns, controlVars
<1>3. RunShape' /\ WindowInv' /\ SettledInv'
  BY <1>1, <1>2 DEF loopVars, RunShape, WindowInv, InWindow, RoundsEnded, SettledInv, Settled
<1>4. CASE DispatcherSteps
  <2>1. cpc = "dispatch" /\ plan' = plan /\ xpc # "idle"
    BY <1>4, ExecuteKeepsPlan DEF DispatcherSteps
  <2>2. SessionInv' /\ OutcomeInv'
    BY <1>1, <1>2, <2>1 DEF loopVars, SessionInv, OutcomeInv
  <2> QED BY <1>3, <2>2 DEF ControlInv
<1>5. CASE GatewayRuns \/ UNCHANGED controlVars
  <2>1. UNCHANGED <<xpc, plan, report>>
    BY <1>5 DEF GatewayRuns, Gateway, GatewayApplies, GatewayRejects, OrphanEnds, batchVars,
                controlVars, execVars
  <2>2. SessionInv' /\ OutcomeInv'
    BY <1>1, <1>2, <2>1 DEF loopVars, SessionInv, OutcomeInv
  <2> QED BY <1>3, <2>2 DEF ControlInv
<1> QED BY <1>4, <1>5

LEMMA SessionKeepsInv ==
  ASSUME ControlInv, UNCHANGED architecture,
         \/ StartSession \/ StartFails \/ Escapes
         \/ \E stored \in BOOLEAN : FinishSession(stored)
  PROVE  ControlInv'
<1>1. RunShape /\ SessionInv /\ OutcomeInv /\ WindowInv /\ SettledInv
  BY DEF ControlInv
<1>2. /\ UNCHANGED <<stages, grounding, previous, draft, verdict, completed, rounds, result>>
      /\ UNCHANGED <<xpc, plan, report>>
  BY DEF StartSession, StartFails, Escapes, FinishSession, execVars, batchVars
<1>3. CASE StartSession
  <2>1. cpc = "idle" /\ cpc' = "main" /\ round' = 1 /\ session' = "active" /\ rounds = << >>
    BY <1>1, <1>3 DEF StartSession, RunShape
  <2>2. RunShape' /\ SessionInv' /\ OutcomeInv'
    BY <1>1, <1>2, <2>1 DEF RunShape, SessionInv, OutcomeInv, Busy
  <2>3. WindowInv'
    BY <1>2, <2>1, RoundAssumption DEF WindowInv, InWindow, RoundsEnded
  <2>4. previous = NoGrounding
    BY <1>1, <2>1 DEF SettledInv, Settled, RunShape
  <2>5. SettledInv'
    BY <1>2, <2>1, <2>4 DEF SettledInv
  <2> QED BY <2>2, <2>3, <2>5 DEF ControlInv
<1>4. CASE StartFails \/ Escapes
  <2>1. cpc' = "escaped" /\ UNCHANGED <<round, session>> /\ cpc \notin {"finish", "returned"}
    BY <1>4 DEF StartFails, Escapes
  <2>2. RunShape' /\ WindowInv' /\ SettledInv'
    BY <1>1, <1>2, <2>1 DEF RunShape, WindowInv, SettledInv, Settled, Busy
  <2>3. SessionInv' /\ OutcomeInv'
    BY <1>1, <1>2, <2>1 DEF SessionInv, OutcomeInv, Busy, RunShape
  <2> QED BY <2>2, <2>3 DEF ControlInv
<1>5. CASE \E stored \in BOOLEAN : FinishSession(stored)
  <2>1. /\ cpc = "finish" /\ cpc' = "returned" /\ round' = round
        /\ session' \in {session, IF completed THEN "completed" ELSE "failed"}
    BY <1>5 DEF FinishSession
  <2>2. RunShape' /\ WindowInv' /\ SettledInv' /\ OutcomeInv'
    BY <1>1, <1>2, <2>1 DEF RunShape, WindowInv, InWindow, RoundsEnded, SettledInv, Settled,
                            OutcomeInv, Busy
  <2>3. SessionInv'
    BY <1>1, <1>2, <2>1 DEF SessionInv, OutcomeInv, Busy
  <2> QED BY <2>2, <2>3 DEF ControlInv
<1> QED BY <1>3, <1>4, <1>5

LEMMA ControlInitInv == OrchestratorInit => ControlInv
<1> SUFFICES ASSUME OrchestratorInit PROVE ControlInv
  OBVIOUS
<1>1. RunShape
  BY RoundAssumption DEF OrchestratorInit, ControlInit, RunShape, Busy, NoGrounding, GroundingType
<1>2. SessionInv /\ OutcomeInv
  BY DEF OrchestratorInit, ControlInit, ExecInit, SessionInv, OutcomeInv, Busy
<1>3. WindowInv
  BY RoundAssumption DEF OrchestratorInit, ControlInit, WindowInv, InWindow, RoundsEnded
<1>4. SettledInv
  BY DEF OrchestratorInit, ControlInit, SettledInv
<1> QED BY <1>1, <1>2, <1>3, <1>4 DEF ControlInv

LEMMA ControlStepKeepsInv ==
  ASSUME ControlInv, TypeOK, [OrchestratorNext]_orchestratorVars
  PROVE  ControlInv'
<1>1. UNCHANGED architecture
  BY DEF OrchestratorNext, MultiAgentRuns, SingleAgentRuns, orchestratorVars
<1>2. CASE MultiAgentRuns
  BY <1>1, <1>2, RoundEndKeepsInv, PlanningKeepsInv, ExecutionKeepsInv, WorkKeepsInv, SessionKeepsInv
     DEF MultiAgentRuns, ControlNext, Loop
<1>3. CASE SingleAgentRuns
  BY <1>1, <1>3, RoundEndKeepsInv, ExecutionKeepsInv, WorkKeepsInv, SessionKeepsInv
     DEF SingleAgentRuns, SingleNext, SingleLoop
<1>4. CASE UNCHANGED orchestratorVars
  BY <1>4, WorkKeepsInv DEF orchestratorVars
<1> QED BY <1>2, <1>3, <1>4 DEF OrchestratorNext

(* The invariant of a run, beside those of the executions it makes.         *)
THEOREM ControlInvariant ==
  OrchestratorSpec => [](ControlInv /\ ExecInv /\ SuccessIsWholePlan /\ SuccessNamesPolicies)
<1>1. OrchestratorInit => ControlInv
  BY ControlInitInv
<1>2. ControlInv /\ ExecInv /\ [OrchestratorNext]_orchestratorVars => ControlInv'
  BY ControlStepKeepsInv DEF ExecInv
<1> QED BY <1>1, <1>2, RunIsAnExecution, SuccessNotEmpty, PTL DEF OrchestratorSpec

-------------------------------------------------------------------------------
(* What follows.                                                            *)

(* A run that says "completed", in its result or in the session row, has a  *)
(* last plan of which every policy is active at the gateway and stored.     *)
THEOREM CompletedIsTrue == OrchestratorSpec => []CompletedIsStored
<1>1. ASSUME ControlInv, ExecInv, SuccessIsWholePlan, SuccessNamesPolicies
      PROVE  CompletedIsStored
  <2> SUFFICES ASSUME session = "completed" \/ (cpc = "returned" /\ result.completed)
               PROVE  PolicySet(plan) # {} /\ PolicySet(plan) \subseteq applied \cap Stored
    BY DEF CompletedIsStored
  <2>1. completed
    BY <1>1 DEF ControlInv, SessionInv, OutcomeInv
  <2>2. xpc = "done" /\ report.status = "Success"
    BY <1>1, <2>1 DEF ControlInv, OutcomeInv
  <2> QED BY <1>1, <2>2, SuccessIsStored
<1> QED BY <1>1, ControlInvariant, PTL

(* However its rounds end, a run's window holds the traces of the last      *)
(* rounds, one each and in order, and the result and the session row say    *)
(* how the last one ended.                                                  *)
THEOREM RoundsAreTold == OrchestratorSpec => []ResultTellsTheRounds
<1>1. ControlInv => ResultTellsTheRounds
  BY DEF ControlInv, WindowInv, InWindow, OutcomeInv, SessionInv, ResultTellsTheRounds
<1> QED BY <1>1, ControlInvariant, PTL

(* The strategy agent plans on a grounding without open questions, made in  *)
(* this or an earlier round of the run for the stage of that round.         *)
THEOREM PlansAreSettled == OrchestratorSpec => []MultiAgentPlansSettled
<1>1. ControlInv => MultiAgentPlansSettled
  BY DEF ControlInv, SettledInv, Settled, MultiAgentPlansSettled, PlansOnSettledGrounding
<1> QED BY <1>1, ControlInvariant, PTL

(* What a step of the dispatcher does for a reader of gateway and store: it *)
(* writes back what is applied already, or has one policy applied.          *)
LEMMA ExecuteEffect ==
  ASSUME ExecInv, ExecInv', Execute
  PROVE  \/ applied' = applied /\ Stored' \subseteq applied
         \/ /\ Stored' = Stored
            /\ applied' = applied \/ \E p \in Policies : applied' = applied \cup {p}
<1>1. CASE Commit
  <2>1. applied' = applied
    BY <1>1 DEF Commit, BeginCommit, CommitAccess, CommitAssociation, CommitMobilityContext,
       CommitBinding, CommitMobilityEvent, CommitRaises, gwVars
  <2>2. Stored' \subseteq applied'
    BY DEF ExecInv, CommittedWasApplied, Stored
  <2> QED BY <2>1, <2>2
<1>2. CASE PostApplied
  <2>1. applied' = applied \cup {Current} /\ UNCHANGED <<ueAccess, ueMobility>>
    BY <1>2 DEF PostApplied, ueVars
  <2>2. Current \in Policies
    BY <1>2, CurrentIsPolicy DEF PostApplied, Posting, ExecInv, CursorInPlan
  <2> QED BY <2>1, <2>2 DEF Stored
<1>3. CASE ~ Commit /\ ~ PostApplied
  <2>1. UNCHANGED <<applied, ueAccess, ueMobility>>
    <3>1. CASE Dispatch \/ Poll
      BY <1>3, <3>1 DEF Dispatch, Poll, PostFails, PostTerminalFailure, PostPending,
         PostPendingWithoutOperation, PollPending, PollApplied, PollRejected, PollBreaks,
         PollDeadline, gwVars, ueVars
    <3>2. CASE \/ CompilePlan \/ CompileFails \/ ReportFailures
               \/ \E ev \in Evidence : Assure(ev) \/ WrongSlice(ev)
      BY <3>2 DEF CompilePlan, CompileFails, ReportFailures, Assure, WrongSlice, gwVars, ueVars
    <3> QED BY <1>3, <3>1, <3>2 DEF Execute
  <2> QED BY <2>1 DEF Stored
<1> QED BY <1>1, <1>2, <1>3

LEMMA GatewayEffect ==
  ASSUME ExecInv, Gateway
  PROVE  /\ Stored' = Stored
         /\ applied' = applied \/ \E p \in Policies : applied' = applied \cup {p}
<1>1. UNCHANGED <<ueAccess, ueMobility>>
  BY DEF Gateway, GatewayApplies, GatewayRejects, OrphanEnds, ueVars
<1>2. CASE GatewayApplies
  <2>1. applied' = applied \cup {Current} /\ Current \in Policies
    BY <1>2, CurrentIsPolicy DEF GatewayApplies, ExecInv, CursorInPlan
  <2> QED BY <1>1, <2>1 DEF Stored
<1>3. CASE ~ GatewayApplies
  <2>1. applied' = applied \/ \E p \in Policies : applied' = applied \cup {p}
    BY <1>3 DEF Gateway, GatewayRejects, OrphanEnds, gwVars
  <2> QED BY <1>1, <2>1 DEF Stored
<1> QED BY <1>2, <1>3

(* What any step does to the session row, the gateway and the store.        *)
LEMMA RunEffect ==
  ASSUME ControlInv, ExecInv, ExecInv', [OrchestratorNext]_orchestratorVars
  PROVE  \/ UNCHANGED <<session, applied, Stored>>
         \/ session = "none" /\ session' = "active" /\ UNCHANGED <<applied, Stored>>
         \/ /\ UNCHANGED <<session, Stored>>
            /\ \E p \in Policies : applied' = applied \cup {p}
         \/ /\ cpc = "dispatch" /\ UNCHANGED <<session, applied>>
            /\ Stored' \subseteq applied
         \/ /\ cpc = "finish" /\ UNCHANGED <<applied, Stored>>
            /\ session' = IF completed THEN "completed" ELSE "failed"
<1>1. CASE DispatcherSteps
  <2>1. cpc = "dispatch" /\ Execute /\ session' = session
    BY <1>1 DEF DispatcherSteps, loopVars
  <2> QED BY <2>1, ExecuteEffect
<1>2. CASE GatewayRuns
  <2>1. Gateway /\ session' = session
    BY <1>2 DEF GatewayRuns, loopVars
  <2> QED BY <2>1, GatewayEffect
<1>3. CASE UNCHANGED <<applied, ueAccess, ueMobility>>
  <2>1. Stored' = Stored
    BY <1>3 DEF Stored
  <2>2. CASE StartSession
    BY <1>3, <2>1, <2>2 DEF StartSession, ControlInv, SessionInv
  <2>3. CASE \E stored \in BOOLEAN : FinishSession(stored)
    BY <1>3, <2>1, <2>3 DEF FinishSession
  <2>4. CASE DispatcherSteps \/ GatewayRuns
    BY <1>1, <1>2, <2>4
  <2>5. session' = session \/ StartSession \/ \E stored \in BOOLEAN : FinishSession(stored)
    <3>1. CASE PlanningFails \/ PlanBlocked \/ SingleRoundRaises
      BY <3>1, RoundBreaksOff DEF RoundOver
    <3>2. CASE RoundEnds \/ SingleRoundEnds
      BY <3>2, RoundIsJudged DEF RoundOver
    <3>3. CASE \/ \E status \in PlanStatus, pl \in Plans :
                     StrategyAnswers(status, pl) \/ SinglePlans(status, pl)
               \/ ToMediation \/ GroundingQuestions \/ GroundingReady \/ MediatorApproves
               \/ \E v \in {"revise", "reject"} : MediatorBlocks(v)
      BY <3>3 DEF StrategyAnswers, SinglePlans, ToMediation, GroundingQuestions, GroundingReady,
                  MediatorApproves, MediatorBlocks
    <3>4. CASE \/ StartFails \/ DispatcherReports \/ Escapes
               \/ \E next \in {"intent_encoding", "optimization_strategy"}, sameUe \in BOOLEAN :
                     MainAnswers(next, sameUe)
      BY <3>4 DEF StartFails, DispatcherReports, Escapes, MainAnswers
    <3>5. CASE UNCHANGED orchestratorVars \/ DispatcherSteps \/ GatewayRuns
      BY <3>5 DEF orchestratorVars, controlVars, loopVars, DispatcherSteps, GatewayRuns
    <3> QED BY <3>1, <3>2, <3>3, <3>4, <3>5
        DEF OrchestratorNext, MultiAgentRuns, SingleAgentRuns, ControlNext, SingleNext, Loop, SingleLoop
  <2> QED BY <1>3, <2>1, <2>2, <2>3, <2>4, <2>5
<1>4. \/ DispatcherSteps \/ GatewayRuns
      \/ UNCHANGED <<applied, ueAccess, ueMobility>>
  <2>1. CASE PlanningFails \/ PlanBlocked \/ SingleRoundRaises
    BY <2>1, RoundBreaksOff DEF RoundOver, execVars, gwVars, ueVars
  <2>2. CASE RoundEnds \/ SingleRoundEnds
    BY <2>2, RoundIsJudged DEF RoundOver, execVars, gwVars, ueVars
  <2>3. CASE MediatorApproves
    BY <2>3 DEF MediatorApproves, BeginExecution, gwVars, ueVars
  <2>4. CASE \/ \E status \in PlanStatus, pl \in Plans :
                   StrategyAnswers(status, pl) \/ SinglePlans(status, pl)
             \/ ToMediation \/ GroundingQuestions \/ GroundingReady
             \/ \E v \in {"revise", "reject"} : MediatorBlocks(v)
    BY <2>4 DEF StrategyAnswers, SinglePlans, ToMediation, GroundingQuestions, GroundingReady,
                MediatorBlocks, execVars, gwVars, ueVars
  <2>5. CASE \/ StartSession \/ StartFails \/ DispatcherReports \/ Escapes
             \/ \E next \in {"intent_encoding", "optimization_strategy"}, sameUe \in BOOLEAN :
                   MainAnswers(next, sameUe)
             \/ \E stored \in BOOLEAN : FinishSession(stored)
    BY <2>5 DEF StartSession, StartFails, DispatcherReports, Escapes, MainAnswers, FinishSession,
                execVars, gwVars, ueVars
  <2>6. CASE UNCHANGED orchestratorVars
    BY <2>6 DEF orchestratorVars, controlVars, execVars, gwVars, ueVars
  <2> QED BY <2>1, <2>2, <2>3, <2>4, <2>5, <2>6
      DEF OrchestratorNext, MultiAgentRuns, SingleAgentRuns, ControlNext, SingleNext, Loop, SingleLoop
<1> QED BY <1>1, <1>2, <1>3, <1>4

(* The store changes only while the dispatcher works on the plan of the     *)
(* round, which the mediator approved, and while the session is open.       *)
THEOREM StoreIsApproved == OrchestratorSpec => StoreFollowsApproval
<1>1. ASSUME ControlInv, ExecInv, ExecInv', [OrchestratorNext]_orchestratorVars, Stored' # Stored
      PROVE  verdict = "approved" /\ plan = draft.plan /\ session = "active"
  <2>1. cpc = "dispatch"
    BY <1>1, RunEffect
  <2> QED BY <1>1, <2>1 DEF ControlInv, SessionInv, Busy
<1>2. UNCHANGED controlVars => Stored' = Stored
  BY DEF controlVars, execVars, ueVars, Stored
<1>3. ControlInv /\ ExecInv /\ ExecInv' /\ [OrchestratorNext]_orchestratorVars
      => [Stored' # Stored =>
             verdict = "approved" /\ plan = draft.plan /\ session = "active"]_controlVars
  BY <1>1
<1> QED BY <1>3, ControlInvariant, PTL DEF OrchestratorSpec, StoreFollowsApproval

(* A run keeps the promise of ControlSession to readers of the session row, *)
(* of the gateway and of the store: every step opens the row, activates one *)
(* policy, writes active policies while the row is open, closes the row     *)
(* ("completed" only over a stored plan), or changes none of the three.     *)
THEOREM RunImplementsSession == OrchestratorSpec => ImplementsSession
<1>1. OrchestratorInit => Session!SessionInit
  BY DEF OrchestratorInit, ControlInit, ExecInit, Stored, Session!SessionInit
<1>2. ASSUME ControlInv, ExecInv, ExecInv', SuccessIsWholePlan, SuccessNamesPolicies,
             [OrchestratorNext]_orchestratorVars
      PROVE  [Session!SessionNext]_(Session!sessionVars)
  <2>1. CASE UNCHANGED <<session, applied, Stored>>
    BY <2>1 DEF Session!sessionVars
  <2>2. CASE session = "none" /\ session' = "active" /\ UNCHANGED <<applied, Stored>>
    BY <2>2 DEF Session!SessionNext, Session!Open
  <2>3. CASE UNCHANGED <<session, Stored>> /\ \E p \in Policies : applied' = applied \cup {p}
    BY <2>3 DEF Session!SessionNext, Session!Activate
  <2>4. CASE cpc = "dispatch" /\ UNCHANGED <<session, applied>> /\ Stored' \subseteq applied
    <3>1. session = "active"
      BY <1>2, <2>4 DEF ControlInv, SessionInv, Busy
    <3> QED BY <2>4, <3>1 DEF Session!SessionNext, Session!Store
  <2>5. CASE /\ cpc = "finish" /\ UNCHANGED <<applied, Stored>>
             /\ session' = IF completed THEN "completed" ELSE "failed"
    <3>1. session = "active"
      BY <1>2, <2>5 DEF ControlInv, SessionInv, Busy
    <3>2. CASE completed
      <4>1. xpc = "done" /\ report.status = "Success"
        BY <1>2, <3>2 DEF ControlInv, OutcomeInv
      <4>2. PolicySet(plan) # {} /\ PolicySet(plan) \subseteq Stored
        BY <1>2, <4>1, SuccessIsStored
      <4>3. PolicySet(plan) \in {PolicySet(pl) : pl \in Plans}
        BY <1>2, <4>1 DEF ControlInv, SessionInv
      <4> QED BY <2>5, <3>1, <3>2, <4>2, <4>3 DEF Session!SessionNext, Session!Complete
    <3>3. CASE ~ completed
      BY <2>5, <3>1, <3>3 DEF Session!SessionNext, Session!Fail
    <3> QED BY <3>2, <3>3
  <2> QED BY <1>2, <2>1, <2>2, <2>3, <2>4, <2>5, RunEffect
<1> QED BY <1>1, <1>2, ControlInvariant, PTL
        DEF OrchestratorSpec, ImplementsSession, Session!SessionSpec
================================================================================
