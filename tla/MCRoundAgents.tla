----------------------------- MODULE MCRoundAgents -----------------------------
(* Three UEs, three slices and three flows.  f1 and f2 are ue1's, and ue3,  *)
(* whose flow f3 is, no request is about; sA has room for one more unit of  *)
(* bandwidth, so that not every move fits.                                  *)
EXTENDS RoundAgents, TLC

CONSTANTS ue1, ue2, ue3, f1, f2, f3, sA, sB, sC, none

MCUes == {ue1, ue2, ue3}
MCFlows == {f1, f2, f3}
MCSlices == {sA, sB, sC}
MCOwner == f1 :> ue1 @@ f2 :> ue1 @@ f3 :> ue3
MCServing == f1 :> sA @@ f2 :> sB @@ f3 :> sA
MCAccess == ue1 :> {sB} @@ ue2 :> {sC} @@ ue3 :> {}
MCInitialAm == ue1 :> {sA, sB} @@ ue2 :> {sC} @@ ue3 :> {}
MCAllocated == [f \in MCFlows |-> 1]
MCGranted == [f \in MCFlows |-> 2]
MCRemaining == sA :> 1 @@ sB :> 3 @@ sC :> 1
(* No AM policy search is made: a mobility decision then rests on the      *)
(* advisor's claim to know the policy, the other way to be accepted.        *)
MCCallLimit == [catalog |-> 1, search |-> 1, amContext |-> 1, amSearch |-> 0, subscription |-> 1]

Ask(domains, supis, named) ==
    [domains |-> domains, supis |-> supis, change |-> FALSE, provisioning |-> FALSE,
     named |-> named, amNamed |-> FALSE]

(* The user asks for a migration of ue1's flow, with the subscription and   *)
(* the AM policy it takes, or for one of two UEs.                           *)
Worded(r) == [r EXCEPT !.provisioning = TRUE, !.amNamed = TRUE]

MCRequests ==
    {Worded([Ask(Domains, {ue1}, {f1}) EXCEPT !.change = TRUE]),
     Worded(Ask({"qos"}, {ue1}, {f1})),
     Worded(Ask({"mobility"}, {ue1}, {})),
     [Ask(Domains, {ue1, ue2}, {f1}) EXCEPT !.change = TRUE]}

Bind(resolved) ==
    [resolved |-> resolved, unresolved |-> {}, carried |-> {}, movers |-> {}, kind |-> "not_applicable",
     targets |-> {}, provisioning |-> FALSE, claimsAm |-> FALSE, open |-> FALSE]

Move(answer, movers, kind, targets) ==
    [answer EXCEPT !.movers = movers, !.kind = kind, !.targets = targets]

(* Binds some flows, and one target by its name only, though the binding    *)
(* carries an id.                                                           *)
BindLoosely(resolved, target, id) ==
    [Bind(resolved) EXCEPT !.unresolved = {target}, !.carried = {id}]

(* The loose bindings carry the flow of a UE that was not asked about, and  *)
(* one that must move.                                                      *)
MCGroundingAnswers ==
    {[Bind({}) EXCEPT !.claimsAm = TRUE],
     [Bind({f1}) EXCEPT !.open = TRUE],
     Bind({f1}), Bind({f1, f3}),
     Move(Bind({f1, f2}), {f1}, "blocked_by_subscription_entitlement", {sC}),
     Move(Bind({f1, f2}), {f1}, "migration_authorized", {sB}),
     Move(BindLoosely({f1}, f2, f3), {f1}, "migration_authorized", {}),
     Move(BindLoosely({}, f1, f1), {f1}, "migration_authorized", {sB}),
     Move(Bind({f1}), {f1}, "evidence_missing", {}),
     [Move(Bind({f1}), {f1}, "blocked_requires_subscription_provisioning", {})
         EXCEPT !.provisioning = TRUE]}

Propose(sm, allowed, target, latency) ==
    [status |-> "executable_plan", sm |-> sm, bandwidth |-> 2, latency |-> latency,
     allowed |-> allowed, target |-> target, ursp |-> FALSE, partial |-> FALSE]

MCPlanningAnswers ==
    {Propose({f1}, {}, {}, 1), Propose({}, {sA, sB}, {sB}, 1),
     Propose({f1, f2}, MCSlices, {sB}, 1), Propose({f1}, MCSlices, {sB, sC}, 2),
     Propose({f3}, MCSlices, {sB}, 1),
     [Propose({f1, f2}, MCSlices, {sB}, 1) EXCEPT !.status = "partial_plan", !.ursp = TRUE],
     [Propose({}, {}, {}, 1) EXCEPT !.status = "partial_plan", !.partial = TRUE],
     [Propose({}, {}, {}, 1) EXCEPT !.status = "needs_upstream_reground"]}
=============================================================================
