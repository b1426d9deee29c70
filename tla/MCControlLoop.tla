----------------------------- MODULE MCControlLoop -----------------------------
(***************************************************************************)
(* Instance of ControlLoop: one UE, one SM policy and one AM policy, plans *)
(* of one policy each and a plan of both.                                  *)
(***************************************************************************)
EXTENDS ControlLoop, TLC

CONSTANTS sm, am, ue1

MCPolicies == {sm, am}
MCSupiOf   == [p \in MCPolicies |-> ue1]
MCKindOf   == (sm :> "sm") @@ (am :> "am")
MCTargetOf == (sm :> "flow") @@ (am :> "ue")

SmPlan   == [supi |-> ue1, policies |-> <<sm>>]
AmPlan   == [supi |-> NoSupi, policies |-> <<am>>]
BothPlan == [supi |-> ue1, policies |-> <<sm, am>>]

OnePlan  == {SmPlan}
EachPlan == {SmPlan, AmPlan}
MCPlans  == {SmPlan, BothPlan}
=============================================================================
