-------------------------- MODULE MCPolicyExecution --------------------------
(***************************************************************************)
(* Instance of PolicyExecution with one policy of each kind and one that   *)
(* does not compile.  The plans are: all three kinds together, an AM       *)
(* policy alone with no plan supi, an empty plan, a plan with a policy     *)
(* that does not compile, and an SM policy alone.                        *)
(***************************************************************************)
EXTENDS PolicyExecution, TLC

CONSTANTS sm, ursp, am, bad, ue1, ue2

MCPolicies == {sm, ursp, am, bad}
MCSupis    == {ue1, ue2}
MCSupiOf   == [p \in MCPolicies |-> IF p = ursp THEN ue2 ELSE ue1]
MCKindOf   == (sm :> "sm") @@ (ursp :> "ursp") @@ (am :> "am") @@ (bad :> "sm")
MCTargetOf == (sm :> "flow") @@ (ursp :> "app") @@ (am :> "ue") @@ (bad :> "flow")

AllKinds  == [supi |-> ue1, policies |-> <<sm, ursp, am>>]
AlonePlan == [supi |-> NoSupi, policies |-> <<am>>]
EmptyPlan == [supi |-> ue1, policies |-> << >>]
BadPlan   == [supi |-> ue1, policies |-> <<sm, bad>>]
SmPlan    == [supi |-> ue1, policies |-> <<sm>>]

MCPlans   == {AllKinds, AlonePlan, EmptyPlan, BadPlan, SmPlan}
TwoPlans  == {AllKinds, SmPlan}
=============================================================================
