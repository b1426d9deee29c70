------------------------------ MODULE IntentWatch ------------------------------
(***************************************************************************)
(* The autonomous watch loop of control_runtime/monitoring: every iteration *)
(* takes at most one user intent and the SLA alerts of a snapshot, runs the *)
(* intent, moves the intent lifecycles by the alerts and re-enters the      *)
(* orchestrator for a bounded number of them.  What is left of a run of the *)
(* orchestrator (module ControlLoop) is how it ends: completed, not         *)
(* completed, or an exception.                                              *)
(***************************************************************************)
EXTENDS Lists, Functions

CONSTANTS
    Flows,         \* flows with an SLA; a number stands for a binding, in the order of flow ids
    Metrics,       \* how many SLA metrics a flow has
    MaxAlerts,     \* max_alerts of the flow monitor
    MaxReentries,  \* max_monitor_reentries_per_iteration
    MaxIntents,    \* bound: intents users enter
    MaxChanges     \* bound: changes of a flow's telemetry

ASSUME WatchAssumption ==
    /\ Flows \subseteq Nat /\ IsFiniteSet(Flows)
    /\ {Metrics, MaxAlerts, MaxReentries, MaxIntents, MaxChanges} \subseteq Nat

VARIABLES
    level,      \* level[f]: how many of its SLA metrics flow f violates
    changes,    \* how often telemetry has changed
    intents,    \* how many intents users have entered
    wpc,        \* control state of run_once
    alerts,     \* the alerts of this iteration, worst first
    lives,      \* the lifecycles, in the order they were recorded
    replanned,  \* _replanned_bindings
    skip,       \* positions in lives of this iteration's new intents
    actions,    \* what observe answered and is not acted on: <<position, flow>>
    reentered,  \* reentry_count
    replans     \* history: replans of a flow since a snapshot showed it within its SLA

worldVars == <<level, changes, intents>>
watchVars == <<worldVars, wpc, alerts, lives, replanned, skip, actions, reentered, replans>>

Levels   == 0 .. Metrics
Statuses == {"active", "degraded", "replanning", "satisfied", "failed"}

WatchInit ==
    /\ level = [f \in Flows |-> 0]
    /\ changes = 0
    /\ intents = 0
    /\ wpc = "poll"
    /\ alerts = <<>>
    /\ lives = <<>>
    /\ replanned = {}
    /\ skip = {}
    /\ actions = <<>>
    /\ reentered = 0
    /\ replans = [f \in Flows |-> 0]

-------------------------------------------------------------------------------
(* The network: telemetry of a flow moves at any time.                     *)

Drift(f, l) ==
    /\ changes < MaxChanges
    /\ l # level[f]
    /\ level' = [level EXCEPT ![f] = l]
    /\ changes' = changes + 1
    /\ UNCHANGED <<intents, wpc, alerts, lives, replanned, skip, actions, reentered, replans>>

-------------------------------------------------------------------------------
(* run_once: user input and snapshot, read in parallel.                    *)

Worse == {p \in Flows \X Flows : \/ level[p[1]] > level[p[2]]
                                 \/ level[p[1]] = level[p[2]] /\ p[1] < p[2]}
Truncated(s) == SubSeq(s, 1, IF Len(s) < MaxAlerts THEN Len(s) ELSE MaxAlerts)

(* evaluate_snapshot: the flows that violate an SLA metric, the ones with   *)
(* most metrics violated first, cut to max_alerts.                          *)
EvaluateSnapshot == Truncated(Arranged({f \in Flows : level[f] > 0}, Worse))

Poll(typed) ==
    /\ wpc = "poll"
    /\ typed => intents < MaxIntents
    /\ intents' = IF typed THEN intents + 1 ELSE intents
    /\ alerts' = EvaluateSnapshot
    /\ replans' = [f \in Flows |-> IF level[f] = 0 THEN 0 ELSE replans[f]]
    /\ wpc' = IF typed THEN "intent" ELSE "observe"
    /\ skip' = {}
    /\ reentered' = 0
    /\ UNCHANGED <<level, changes, lives, replanned, actions>>

(* record_initial: an intent that was not completed has no bindings.        *)
RunIntent(completed, bindings) ==
    /\ wpc = "intent"
    /\ completed \/ bindings = {}
    /\ lives' = Append(lives, [bindings |-> bindings, origin |-> "user",
                               status |-> IF completed THEN "active" ELSE "failed"])
    /\ skip' = {Len(lives) + 1}
    /\ wpc' = "observe"
    /\ UNCHANGED <<worldVars, alerts, replanned, actions, reentered, replans>>

(* Nothing catches an exception below main: the process ends, and the       *)
(* lifecycles with it.                                                      *)
Raise ==
    /\ wpc \in {"poll", "intent", "replan"}
    /\ wpc' = "stopped"
    /\ UNCHANGED <<worldVars, alerts, lives, replanned, skip, actions, reentered, replans>>

-------------------------------------------------------------------------------
(* observe                                                                 *)

Alerted         == Range(alerts)
SkippedBindings == UNION {lives[i].bindings : i \in skip}

(* _lifecycle_for_binding: the lifecycle recorded last of those that bind f *)
BindersOf(ls, f) == {i \in DOMAIN ls : f \in ls[i].bindings}
Oldest(ls, f)    == CHOOSE i \in BindersOf(ls, f) : \A j \in BindersOf(ls, f) : i <= j
Newest(ls, f)    == CHOOSE i \in BindersOf(ls, f) : \A j \in BindersOf(ls, f) : j <= i

Recovered(i) ==
    /\ i \notin skip
    /\ lives[i].status \in {"active", "degraded"}
    /\ lives[i].bindings \cap Alerted = {}

Handled == Filtered(alerts, Flows \ SkippedBindings)
Unbound == Filtered(Handled, {f \in Flows : BindersOf(lives, f) = {}})

(* A lifecycle of the monitor's own for an alert no lifecycle binds.        *)
Adopted ==
    [k \in DOMAIN Unbound |->
        [bindings |-> {Unbound[k]}, status |-> "degraded", origin |-> "monitor"]]

Degraded(i) ==
    /\ lives[i].status # "failed"
    /\ \E f \in Range(Handled) : BindersOf(lives, f) # {} /\ i = Newest(lives, f)

Observed ==
    [i \in DOMAIN lives |->
        [lives[i] EXCEPT !.status = IF Degraded(i) THEN "degraded"
                                    ELSE IF Recovered(i) THEN "satisfied" ELSE @]]
    \o Adopted

StillAlertedNever  == {}
StillAlertedAnyway == replanned
StillAlerted       == replanned \cap Alerted

Reentries(ls) ==
    LET due == Filtered(Handled, {f \in Range(Handled) \ StillAlerted :
                                 ls[Newest(ls, f)].status # "failed"})
    IN  [k \in DOMAIN due |-> <<Newest(ls, due[k]), due[k]>>]

Observe ==
    /\ wpc = "observe"
    /\ \E observed \in {Observed} :
          /\ lives' = observed
          /\ actions' = Reentries(observed)
    /\ replanned' = StillAlerted
    /\ wpc' = "act"
    /\ UNCHANGED <<worldVars, alerts, skip, reentered, replans>>

-------------------------------------------------------------------------------
(* _handle_monitor_alerts                                                  *)

MayReplanAny(i) == i \in DOMAIN lives
MayReplan(i)    == lives[i].status # "failed"
WithinLimit     == reentered < MaxReentries

Acting == wpc = "act" /\ actions # <<>>

(* The lifecycle has failed since it was observed, or the iteration has used *)
(* up its re-entries and the alert is deferred.                              *)
PassOver ==
    /\ Acting
    /\ ~MayReplan(actions[1][1]) \/ ~WithinLimit
    /\ actions' = Tail(actions)
    /\ UNCHANGED <<worldVars, wpc, alerts, lives, replanned, skip, reentered, replans>>

BeginReplan ==
    /\ Acting
    /\ MayReplan(actions[1][1])
    /\ WithinLimit
    /\ lives' = [lives EXCEPT ![actions[1][1]].status = "replanning"]
    /\ replanned' = replanned \cup {actions[1][2]}
    /\ replans' = [replans EXCEPT ![actions[1][2]] = @ + 1]
    /\ wpc' = "replan"
    /\ UNCHANGED <<worldVars, alerts, skip, actions, reentered>>

FinishReplan(completed) ==
    /\ wpc = "replan"
    /\ lives' = [lives EXCEPT ![actions[1][1]].status = IF completed THEN "active" ELSE "failed"]
    /\ actions' = Tail(actions)
    /\ reentered' = reentered + 1
    /\ wpc' = "act"
    /\ UNCHANGED <<worldVars, alerts, replanned, skip, replans>>

EndIteration ==
    /\ wpc = "act"
    /\ actions = <<>>
    /\ wpc' = "poll"
    /\ UNCHANGED <<worldVars, alerts, lives, replanned, skip, actions, reentered, replans>>

-------------------------------------------------------------------------------
WatchStep ==
    \/ \E typed \in BOOLEAN : Poll(typed)
    \/ \E completed \in BOOLEAN, bindings \in SUBSET Flows : RunIntent(completed, bindings)
    \/ Observe
    \/ PassOver
    \/ BeginReplan
    \/ \E completed \in BOOLEAN : FinishReplan(completed)
    \/ EndIteration

WatchNext == WatchStep \/ Raise \/ \E f \in Flows, l \in Levels : Drift(f, l)

WatchSpec == WatchInit /\ [][WatchNext]_watchVars

(* run_forever has no end of its own: while nothing raises, the next step   *)
(* of the iteration is taken.                                               *)
FairWatchSpec == WatchSpec /\ WF_watchVars(WatchStep)

-------------------------------------------------------------------------------
(* Properties                                                              *)

(* A failed lifecycle stays failed.  The loop decides what to replan before *)
(* it replans, and one lifecycle may be on that list for several flows: the *)
(* failure of the first has to be seen when the next is taken up.           *)
FailedIsFinal ==
    [][\A i \in DOMAIN lives : lives[i].status = "failed" => lives'[i].status = "failed"]_watchVars

(* An incident is suppressed until recovery: a flow is replanned at most    *)
(* once between two snapshots that show it within its SLA, over any number  *)
(* of iterations, deferrals, new intents and lifecycles for it.             *)
SuppressedUntilRecovery == \A f \in Flows : replans[f] <= 1

NewestIs(f, S) == \E i \in BindersOf(lives, f) :
                    /\ \A j \in BindersOf(lives, f) : j <= i
                    /\ lives[i].status \in S

(* What the loop takes for satisfied is: once observed, the newest lifecycle *)
(* of a flow with an alert is not "satisfied", whichever older lifecycles    *)
(* bind the flow too and whatever replans have done meanwhile.               *)
NoAlertUnderSatisfied ==
    wpc \in {"act", "replan"} =>
        \A f \in Range(Handled) : NewestIs(f, Statuses \ {"satisfied"})

(* A flow that keeps violating its SLA is replanned, unless the newest      *)
(* lifecycle that binds it has failed: deferral does not starve it.         *)
ViolationIsReplanned ==
    \A f \in Flows : level[f] > 0 ~> \/ level[f] = 0
                                      \/ replans[f] > 0
                                      \/ NewestIs(f, {"failed"})
                                      \/ wpc = "stopped"

===============================================================================
