--------------------------- MODULE SingleAgentLoop ---------------------------
(***************************************************************************)
(* One run of SingleAgentOrchestrator, the baseline with one planning      *)
(* agent.  It shares the session, the round trace, mediation and policy    *)
(* execution with ControlLoop, and differs in what surrounds them: there   *)
(* is no grounding to negotiate or reuse, every exception of a round is    *)
(* caught and ends that round only, and retry_forbidden is not looked at.  *)
(***************************************************************************)
EXTENDS ControlLoop

SinglePlans(status, pl) ==
    /\ cpc = "main"
    /\ draft' = [status |-> status, plan |-> pl]
    /\ cpc' = "execute"
    /\ UNCHANGED <<execVars, round, stages, grounding, previous, verdict, completed,
                   rounds, result, session, rowFaults>>

Raised ==
    \/ cpc \in {"main", "execute", "mediate", "diagnose"}
    \/ cpc = "dispatch" /\ xpc = "raised"

(* Mutant: the exception leaves the loop, as it does in ControlLoop.        *)
SingleRoundRaisesOut ==
    /\ Raised
    /\ cpc' = "escaped"
    /\ UNCHANGED <<execVars, round, stages, grounding, previous, draft, verdict,
                   completed, rounds, result, session, rowFaults>>

(* Planning or execution raises: the round ends as a failed one, even when  *)
(* its policies are active and stored and only the diagnosis was missing.   *)
SingleRoundRaises ==
    /\ Raised
    /\ completed' = FALSE
    /\ AppendTrace(TraceOf("planning_failure", "Failed"))
    /\ SetResult(FALSE)
    /\ NextRound(FALSE)
    /\ ClearRound
    /\ UNCHANGED <<execVars, stages, previous, session, rowFaults>>

(* Mutant: every reported round ends the loop as completed.                 *)
SingleRoundEndsOnReport ==
    /\ cpc = "diagnose"
    /\ completed' = Reported
    /\ AppendTrace(IF Reported THEN TraceOf("executed", report.status)
                   ELSE TraceOf("mediated", "Failed"))
    /\ SetResult(Reported)
    /\ NextRound(Reported)
    /\ ClearRound
    /\ UNCHANGED <<execVars, stages, previous, session, rowFaults>>

(* The round has been diagnosed.  A round that did not complete is followed *)
(* by another one whatever the report says of retrying.                     *)
SingleRoundEnds ==
    /\ cpc = "diagnose"
    /\ completed' = RoundCompleted
    /\ AppendTrace(IF Reported THEN TraceOf("executed", report.status)
                   ELSE TraceOf("mediated", "Failed"))
    /\ SetResult(RoundCompleted)
    /\ NextRound(RoundCompleted)
    /\ ClearRound
    /\ UNCHANGED <<execVars, stages, previous, session, rowFaults>>

SingleLoop ==
    \/ StartSession
    \/ StartFails
    \/ \E status \in PlanStatus, pl \in Plans : SinglePlans(status, pl)
    \/ ToMediation
    \/ PlanBlocked
    \/ MediatorApproves
    \/ \E v \in {"revise", "reject"} : MediatorBlocks(v)
    \/ DispatcherSteps
    \/ DispatcherReports
    \/ SingleRoundRaises
    \/ SingleRoundEnds
    \/ \E stored \in BOOLEAN : FinishSession(stored)

SingleNext == SingleLoop \/ GatewayRuns
=============================================================================
