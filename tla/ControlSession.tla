---------------------------- MODULE ControlSession ----------------------------
(***************************************************************************)
(* What a control run promises to whoever reads the session row, the UE    *)
(* contexts and the gateway: the row is opened once and closed at most     *)
(* once; UE contexts are written only while it is open and only with       *)
(* policies the gateway has active; and "completed" is said only when a    *)
(* whole plan is stored.  ControlLoop and SingleAgentLoop implement it.    *)
(***************************************************************************)
CONSTANTS
    Policies,   \* policy objects
    PlanSets    \* the policy sets of the plans a planner may hand over

VARIABLES
    row,        \* status of the session row
    active,     \* policies active at the gateway
    stored      \* policies some UE context names

sessionVars == <<row, active, stored>>

SessionInit == row = "none" /\ active = {} /\ stored = {}

Open == row = "none" /\ row' = "active" /\ UNCHANGED <<active, stored>>

(* The gateway is free to apply an operation late, also after the run.     *)
Activate(p) == active' = active \cup {p} /\ UNCHANGED <<row, stored>>

Store ==
    /\ row = "active"
    /\ stored' \in SUBSET active
    /\ UNCHANGED <<row, active>>

Complete ==
    /\ row = "active"
    /\ \E P \in PlanSets : P # {} /\ P \subseteq stored
    /\ row' = "completed"
    /\ UNCHANGED <<active, stored>>

Fail == row = "active" /\ row' = "failed" /\ UNCHANGED <<active, stored>>

SessionNext ==
    \/ Open
    \/ \E p \in Policies : Activate(p)
    \/ Store
    \/ Complete
    \/ Fail

SessionSpec == SessionInit /\ [][SessionNext]_sessionVars
=============================================================================
