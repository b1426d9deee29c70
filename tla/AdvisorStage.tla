----------------------------- MODULE AdvisorStage -----------------------------
(***************************************************************************)
(* One stage of an advisor agent.  StageRunner.run invokes the agent's     *)
(* tool loop, parses, repairs and validates its answer, and does so again  *)
(* for as long as the retry policy of the stage admits the phase that      *)
(* failed.  The tool loop is synchronous: what an attempt does is the set  *)
(* of tool calls that succeeded in it and how it ended.                    *)
(***************************************************************************)
EXTENDS Naturals, FiniteSets

CONSTANTS MaxAttempts,  \* attempts of a stage, 3 in both agents
          MaxTurns,     \* answers a tool loop asks of its model
          CallLimit     \* successful calls of each tool in one attempt

ASSUME StageAssumption ==
    /\ MaxAttempts \in Nat \ {0}
    /\ MaxTurns \in Nat \ {0}
    /\ \A tool \in DOMAIN CallLimit : CallLimit[tool] \in Nat

VARIABLES phase,    \* step of the round, "ground" and "plan" being stages
          attempt   \* attempt of the stage that runs, 0 outside of one

stageVars == <<phase, attempt>>

Advisors == {"ground", "plan"}

(* Phases of an attempt whose failure the stage's RetryPolicy repeats.  No  *)
(* policy repeats a failed repair.                                          *)
RetryPhases == [ground |-> {"invoke", "parse", "validation"},
                plan   |-> {"invoke", "validation"}]

BeginStage(advisor) ==
    /\ phase' = advisor
    /\ attempt' = 1

(* Mutant: the attempts are not counted.                                    *)
FailAttemptUncounted(failed) ==
    /\ phase' = IF failed \in RetryPhases[phase] THEN phase ELSE "failed"
    /\ attempt' = IF failed \in RetryPhases[phase] THEN attempt ELSE 0

MayRetry(failed) == attempt < MaxAttempts /\ failed \in RetryPhases[phase]

(* The attempt has failed in this phase: the stage goes on with the next    *)
(* one, or raises and the round has no plan.                                *)
FailAttempt(failed) ==
    IF MayRetry(failed) THEN attempt' = attempt + 1 /\ UNCHANGED phase
                        ELSE attempt' = 0 /\ phase' = "failed"

EndStage(next) ==
    /\ phase' = next
    /\ attempt' = 0

(* Sets of calls one invocation of the loop can have made.  A call counts   *)
(* when it has succeeded, and no call is made twice.                        *)
Admits(calls) ==
    \A tool \in DOMAIN CallLimit :
        Cardinality({call \in calls : call.tool = tool}) <= CallLimit[tool]

(* Several calls fit in a turn, so the calls made bound the turns from      *)
(* above only.                                                              *)
MayRunOut(calls) == Cardinality(calls) >= MaxTurns
=============================================================================
