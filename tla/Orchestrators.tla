----------------------------- MODULE Orchestrators -----------------------------
(***************************************************************************)
(* The two ways a case is run.  The operator's command constructs either   *)
(* MainControlOrchestrator or SingleAgentOrchestrator; the run is the one  *)
(* of the orchestrator chosen, over the same session store, dispatcher,    *)
(* gateway and UE store.                                                   *)
(***************************************************************************)
EXTENDS SingleAgentLoop

VARIABLE architecture   \* orchestrator the command constructed

orchestratorVars == <<controlVars, architecture>>

OrchestratorInit ==
    /\ ControlInit
    /\ architecture \in {"multi_agent", "single_agent"}
    /\ architecture = "single_agent" => stages = 1

MultiAgentRuns  == architecture = "multi_agent"  /\ ControlNext /\ UNCHANGED architecture
SingleAgentRuns == architecture = "single_agent" /\ SingleNext  /\ UNCHANGED architecture

OrchestratorNext == MultiAgentRuns \/ SingleAgentRuns

(* run() is a synchronous call in both, and nothing is assumed of the       *)
(* gateway that runs beside it.                                             *)
RunProceeds ==
    \/ architecture = "multi_agent"  /\ Loop       /\ UNCHANGED architecture
    \/ architecture = "single_agent" /\ SingleLoop /\ UNCHANGED architecture

OrchestratorSpec ==
    /\ OrchestratorInit
    /\ [][OrchestratorNext]_orchestratorVars
    /\ WF_orchestratorVars(RunProceeds)

-------------------------------------------------------------------------------
(* Properties beside those of ControlLoop.                                 *)

(* The strategy agent never plans on an open or foreign grounding; the      *)
(* baseline plans without one.                                              *)
MultiAgentPlansSettled ==
    architecture = "multi_agent" => PlansOnSettledGrounding

(* A run that has begun its first round ends, whatever the gateway does:    *)
(* the main orchestrator's returns or raises; the baseline's returns a      *)
(* result, whatever its agents, the mediator, the dispatcher or the         *)
(* diagnosis raise.                                                         *)
RunReturns ==
    (cpc = "main") ~> \/ cpc = "returned"
                      \/ cpc = "escaped" /\ architecture = "multi_agent"
=============================================================================
