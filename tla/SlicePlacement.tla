----------------------------- MODULE SlicePlacement -----------------------------
(***************************************************************************)
(* What the planning agents owe a UE's slice entitlement, whatever their   *)
(* models answer: first a grant, which names the flows that must leave     *)
(* their slice and is backed by the entitlement of one UE, then a          *)
(* placement that stays inside it.                                         *)
(***************************************************************************)
CONSTANTS Ues, Flows, Slices, Serving

VARIABLES entitled,   \* slices each UE may use
          grant,      \* the grant in force
          placed      \* slices flows are being put on

NoGrant == [kind |-> "none", movers |-> {}, slices |-> {}]
Grants  == [kind : {"open", "denied", "granted"}, movers : SUBSET Flows, slices : SUBSET Slices]

PlacementInit ==
    /\ entitled \in [Ues -> SUBSET Slices]
    /\ grant = NoGrant
    /\ placed = {}

Decide ==
    /\ placed = {}
    /\ grant' \in Grants \cup {NoGrant}
    /\ \E ue \in Ues : grant'.slices \subseteq entitled[ue]
    /\ UNCHANGED <<entitled, placed>>

(* Under a denied grant a flow that wanted to move stays; under another one *)
(* it leaves, for a slice of the grant.                                     *)
Place ==
    /\ placed = {}
    /\ grant # NoGrant
    /\ placed' \in SUBSET [flow : Flows, slice : Slices]
    /\ \A p \in placed' :
           /\ grant.kind = "denied" => p.slice = Serving[p.flow]
           /\ grant.kind # "denied" /\ p.flow \in grant.movers =>
                  p.slice \in grant.slices \ {Serving[p.flow]}
    /\ UNCHANGED <<entitled, grant>>

(* The placement is in force or given up; the AM policies that went with it *)
(* may have changed what the UE may use.                                    *)
Withdraw ==
    /\ placed' = {}
    /\ grant' \in {grant, NoGrant}
    /\ entitled' \in [Ues -> SUBSET Slices]

PlacementNext == Decide \/ Place \/ Withdraw

PlacementSpec == PlacementInit /\ [][PlacementNext]_<<entitled, grant, placed>>
=============================================================================
