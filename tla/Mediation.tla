------------------------------- MODULE Mediation -------------------------------
(***************************************************************************)
(* The mediator.  It compares a policy plan with the session's snapshot    *)
(* and approves it when no conflict is left unresolved.                    *)
(***************************************************************************)
EXTENDS Planning, FiniteSetsExt

CONSTANTS Allocated,   \* bandwidth of each flow on its slice, in the snapshot
          Remaining    \* bandwidth each slice has left, in the snapshot

ASSUME MediationAssumption ==
    /\ IsFiniteSet(Flows)
    /\ Allocated \in [Flows -> Nat]
    /\ Remaining \in [Slices -> Nat]

(* Policies that reach the gateway.                                         *)
HasPolicies(pl) == pl.sm # {} \/ pl.allowed # {} \/ pl.ursp

Dispatchable(pl) ==
    pl.status \in {"executable_plan", "partial_plan"} /\ HasPolicies(pl)

(* Mutant: a flow that changes slice brings what it had along.              *)
DeltaOfMoverReduced(policy) ==
    IF policy.bandwidth <= Allocated[policy.flow] THEN 0
    ELSE policy.bandwidth - Allocated[policy.flow]

(* What a policy adds to the load of its slice.                             *)
Delta(policy) ==
    IF policy.slice # Serving[policy.flow] THEN policy.bandwidth
    ELSE IF policy.bandwidth <= Allocated[policy.flow] THEN 0
    ELSE policy.bandwidth - Allocated[policy.flow]

SliceDelta(pl, s) == MapThenSumSet(Delta, {policy \in pl.sm : policy.slice = s})

CapacityConflict(pl) == \E s \in Slices : SliceDelta(pl, s) > Remaining[s]

(* In a plan of both domains, slices the QoS policies use and the AM policy *)
(* does not allow.                                                          *)
AlignmentConflict(pl) ==
    /\ pl.allowed # {} /\ (pl.sm # {} \/ pl.ursp)
    /\ \/ ~ pl.target \subseteq pl.allowed
       \/ \E policy \in pl.sm : policy.slice \notin pl.allowed

Conflict(pl) == CapacityConflict(pl) \/ AlignmentConflict(pl)
=============================================================================
