# Verification of the Multiagents control runtime

TLA+ models of the control runtime under `src/src`: what happens between a user's
request and the rows of the UE store, in the queue between agent processes, and in
the loop that watches telemetry afterwards. The agents' answers come from language
models, so every answer the code accepts is a possible one; what is verified is the
deterministic machinery around them. Paths below are relative to `src/`.

## 1. The system

| Component | Source | State it keeps | Operations |
|---|---|---|---|
| Main control loop | `src/control_runtime/orchestrators/` | round traces (last three), previous grounding, result | one round: route, ground, plan, mediate, dispatch, diagnose, decide whether to retry |
| Single-agent baseline | `orchestrators/single_agent_orchestrator.py` | the same | the same, planning in one agent, every exception of a round swallowed |
| Policy execution | `src/control_runtime/execution/`, `agents/dispatch/` | batch of receipts and failures | compile, dispatch, check slice, assure, report or commit |
| PCF gateway client | `integrations/pcf/dispatch.py` | an operation being polled | post, poll to a deadline |
| UE store | `integrations/storage/ue_store.py` | UE context, AM association, serving binding, mobility event rows | merge a plan that was applied, transaction by transaction |
| Session store | `integrations/storage/session_store.py` | one row per run | open, close |
| Artifact queue | `src/shared/runtime/` | request and response files, lease files, task rows, dead letters | write, claim, handle, respond, complete, bury |
| Watch loop | `src/control_runtime/monitoring/` | intent lifecycles, replanned flows | poll user and telemetry, run an intent, observe alerts, re-enter the loop |
| Main agent | `src/control_runtime/agents/main/` | | domains, UEs and scope of a round |
| Grounding agent | `src/control_runtime/agents/grounding/` | evidence of the stage | read catalog, policies and entitlement; bind flows; judge a migration |
| Strategy agent | `src/control_runtime/agents/planning/` | cached optimizer preview | propose, bound, check and compile a policy plan |
| Mediator, diagnosis | `src/control_runtime/diagnostics/` | | capacity and alignment conflicts; advice after a round |
| Shared agent runtime | `src/shared/agents/`, `src/shared/runtime/execution/` | attempt, tool calls made | repeat an attempt, limit the calls |
| Optimizer request | `integrations/optimizer/request_factory.py` | | slices the optimizer may choose |
| Environment agent | `src/environment/` | catalog, design, draft, flags, paths owned (in memory); scenario files | submit, compile, revise, validate, write, simulate, answer |
| Experiment launcher | `experiments/scripts/`, `src/training/collect_workflow_trajectories.py` | matrix position, runs recorded, result files; per worker a slot with its lock, a simulator process and restart count | allocate, start, restart and stop a simulator; run cases, reset between them, run again; merge, record |
| Optimizer, scenario loading, knowledge, traces, offline tooling | rest of the tree | | data in, data out |

**How they interact.** The watch loop calls the orchestrator, once for a user's intent
and once for each alert it re-enters. The orchestrator calls its agents in turn and,
when the mediator approves, the dispatch agent, which runs policy execution
synchronously. Policy execution posts to the gateway (ns-3 behind the PCF interface)
and writes the UE store. The gateway acts on its own, also after its caller has given
up. The session row is shared with whoever reads a run's outcome. The artifact queue
connects separate agent processes through a directory and a database; the environment agent, which generates the
scenarios experiments run on, is such a process. The experiment launcher runs the orchestrators over cases of a scenario, in child
processes, each group with a simulator of its own; child and launcher meet in the exit code and the result file, and all of them in the simulator's
reset service.

**What is hard here.** Gateway answers that come late or never; a write-back of
several transactions; rounds that end in half a dozen ways and feed the next one;
flags that one agent sets and another looks for; answers of a model checked against
evidence that outlives attempts and rounds; ignored database errors; workers
that crash, lose acknowledgements or race for a lease; lifecycles driven by alerts
that are stale, deferred or cut off; tools that share state a request does not
own, and files that outlive the process that wrote them; resets that go on after they were given up, and restarts of what
another thread is waiting for. `PROJECT.json` lists these hazards at the lines
where they bite, with the properties that cover each.

## 2. Modules

| Module | Models | Built on |
|---|---|---|
| `Lists` | comprehensions with a condition, and sorts | |
| `ListsProofs` | what they answer, for lists of any length; induction over numbers and finite sets | `Lists` |
| `PolicyExecution` | dispatch agent, compiler, controller, batch executor, PCF client, UE store write-back; gateway external | |
| `PolicyExecutionProofs` | proofs about it | `PolicyExecution` |
| `ControlSession` | abstract: what a run promises to readers of row, gateway and store | |
| `ControlLoop` | a run of the main orchestrator | EXTENDS `PolicyExecution`, implements `ControlSession` |
| `SingleAgentLoop` | the steps of a run of the baseline orchestrator that differ | EXTENDS `ControlLoop` |
| `Orchestrators` | a run of either orchestrator, their properties | EXTENDS `SingleAgentLoop`, implements `ControlSession` |
| `ControlProofs` | proofs about it, the refinement among them | `Orchestrators`, `PolicyExecutionProofs` |
| `AdvisorStage` | attempts of a stage, its retry policy and the limits of the tool loop | |
| `Grounding` | grounding agent | EXTENDS `AdvisorStage` |
| `Planning` | strategy agent, optimizer request | EXTENDS `Grounding`, whose decision it reads |
| `Mediation` | conflicts the mediator finds | EXTENDS `Planning` |
| `SlicePlacement` | abstract: what a plan owes the slice entitlement of a UE | |
| `RoundAgents` | Main, grounding, strategy, mediator and the outcome of the dispatch over the rounds of a run | EXTENDS `Mediation`, implements `SlicePlacement` |
| `RoundAgentsProofs` | proofs about it, the refinement among them | `RoundAgents`, `ListsProofs` |
| `TaskLifecycle` | abstract: what the queue promises of a task | |
| `TaskQueue` | producers, workers, files, rows, leases, crashes, time | implements `TaskLifecycle` |
| `TaskQueueProofs` | proofs about it, the refinement among them | `TaskQueue` |
| `IntentWatch` | watch loop, flow monitor and lifecycle manager; a run is reduced to how it ends | EXTENDS `Lists` |
| `IntentWatchProofs` | proofs about it | `IntentWatch`, `ListsProofs` |
| `ScenarioDesign` | what the environment agent's compiler makes of a design, what its validator accepts | |
| `EnvironmentAgent` | its tools, files, simulation and answers | EXTENDS `ScenarioDesign` |
| `EnvironmentProofs` | proofs about both | `EnvironmentAgent` |
| `Simulator` | slots, simulator processes, their stacks and reset service; the last external | |
| `ExperimentLauncher` | the matrix, the workers of a run, the reset between cases | EXTENDS `Simulator`, `Lists` |
| `LauncherProofs` | proofs about both | `ExperimentLauncher`, `ListsProofs` |
| `MC...` | instances for TLC | |

### Lists

`Filtered` is a comprehension with a condition, a function of how much of the list has been read; `Arranged` is a sort, given by the order
it sorts by. The watch loop picks, orders and cuts its alerts with them, the launcher puts its workers' rows in order. They are
written without RECURSIVE so that they can be reasoned about.

### PolicyExecution

`xpc` is the control state of one call of `execute_and_evaluate_from_request`: compile,
then for each policy dispatch, poll and assure, then either the failure report
(`execution_controller.py:142-202`) or the write-back. Each commit of `ue_store.py` is an
action of its own, because each may fail with the earlier ones in force:
`CommitAccess`, then for every AM policy `CommitAssociation`, `CommitMobilityContext`,
`CommitBinding`, `CommitMobilityEvent`. `existing` is the copy of the UE context that is read
once and merged into; a read that fails answers None and is taken for an empty
context, as in the code. `op` is the gateway operation being waited for; when the
wait ends without an answer the operation becomes an orphan, which `OrphanEnds` may
still apply or reject at any time. The deadline is a budget of polls.

Abstracted: a policy is a model value with a kind, a target, a UE, whether it asks for a slice
and whether it compiles; telemetry is evidence that is fresh or not and satisfying
or not; the slice an SM policy lands on is right or wrong.
`expired` and `reposted` are history variables for one property.

### ControlLoop, SingleAgentLoop, Orchestrators

`cpc` walks through `run()`. A round's answers are choices: where Main routes, with or
without open questions of the grounding, plan and planning status, verdict of the
mediator. Every way a round may end is an action that leaves a trace: planning
failure, negotiation over open questions, a blocked plan, a plan that is not
approved, an executed one. `Escapes` is any exception that leaves `run()`. Between `execute` and the
report the actions of `PolicyExecution` are taken under the name
`DispatcherSteps`; `GatewayRuns` interleaves the gateway with everything else, so that
operations of an earlier round finish in a later one. `NextRound` keeps the code's stop
conditions, with the `retry_forbidden` flag where the code leaves it.

`SingleAgentLoop` replaces planning by one step and the escaping exceptions by
`SingleRoundRaises`, the loop's `except Exception`, which goes on to the next round whatever was committed before. `Orchestrators` lets a run be one of either
kind over the same gateway and store, and holds the properties both are to have; `architecture` says which one.

### AdvisorStage, Grounding, Planning, Mediation, RoundAgents

These look inside a round, where `ControlLoop` takes an outcome. `phase` is the step of the round, `attempt` the attempt of the
stage that runs. One action is one end of an attempt: the invocation raised, ran out of turns, could
not be parsed, could not be built, failed validation, or was accepted. What the model answers is any member of
`GroundingAnswers` or `PlanningAnswers`, which stand for the objects the response schemas admit; which tools it
has called is any set within the call limits (`Invocations`, `StrategyTurns`). The tool loop is synchronous, so
the order of the calls within an attempt matters only in which read was the last (`LastRead`).

`Grounding` keeps the evidence of a stage: catalogs and candidates accumulate over its attempts, AM context and entitlement
are those read last, and an exhausted loop is the one failure that hands nothing over (`GroundingRunsOut`). `Accepts` is the
conjunction of the validators. `Planning` keeps the cached preview; `Placements` are the slices
`build_optimizer_request` leaves to the optimizer, `Bounded` the cut made under a blocked migration, `ProposalOk` the
checks of the proposal, `Compiled` the plan made of it, in which the optimizer's slices are merged into the advisor's AM policy,
and `PlanOk` the checks of the plan.

An answer binds flows (`resolved`), names targets it cannot bind (`unresolved`) and may put flow ids on the unresolved bindings all the same
(`carried`): the schema takes them, nothing checks them, and `DecisionOf` hands them on. What then becomes of such a flow is followed
through: the tools' results say whose it is (`Attributed`), the optimizer places it and is made to move it when the answer
says so (`Leaving`), a policy may be proposed for it, and an AM policy of a request for several UEs may be for its UE (`PlanUes`); only the checks of a
migration's target pass it by, since they know the source slice of resolved flows only (`Movers`).

`Mediation` sums bandwidth deltas per slice as the code does. `RoundAgents` strings them together:
a grounding is reused or made anew, a failed dispatch sets latency floors for the next plan, a commit changes what a later run may read as
entitlement. Main's decision is a choice per round among the `Requests` with the same UEs and wording.

Abstracted: bandwidth has one dimension; the floor a miss sets is the missed latency plus one, the least floor the
code's strict comparison admits; flow ids the snapshot does not know are left out (the optimizer takes them for new flows, which no slice serves), and an id bound
both ways counts as resolved; the
UEs of a request are the user's (for one UE Main's own supi is it, for several Main names none,
`agents/main/compiler.py:235-242`); a grounding no later round can read is forgotten (`ForLater`); no slice of the snapshot is overloaded to begin with.
The gateway, the store's other rows and the session row are not repeated here: `DispatchSucceeds`, `DispatchFails` and `DispatchRaises`
are what `PolicyExecution` and `ControlLoop` look like from the agents.

### TaskQueue

A row is read in a transaction that is not locked: `SelectForLease` and `CommitLease` are two
steps, and the UPDATE writes the columns that differ from those read. Each transaction is
committed, rolled back, or committed with the acknowledgement lost. A worker's path from
claim to completion is one action per file or database operation. Leases in row and
file are countdowns and `Tick` is time. A handler that raises ends the process
(`worker.py:135-137`); `Restart` is the supervisor that starts it again, external.

### IntentWatch

An iteration is `Poll` (user input and alerts, read in parallel), `RunIntent` when there was
input, `Observe` (one action: `observe` is sequential code without an await), then for every
action it answered `PassOver` or `BeginReplan` and `FinishReplan`. Lifecycles are a sequence, in
the order of the code's dict; `Drift` moves a flow's telemetry at any time, also while
a run is in progress. A flow's level is how many SLA metrics it violates: the
alerts are sorted by it and cut to `MaxAlerts`; which of them are handled, and which lifecycles, is filtered out of lists as in the code. Severity, which breaks ties, is
left out in favour of the flow id.
A run's end is a choice; `ControlLoop` is what stands behind it.

### ScenarioDesign, EnvironmentAgent

`ScenarioDesign` is pure: `Complete` and `Compile` are `EnvironmentDesignCompiler`, `Revised` its `apply_revision`, `Valid` the checks of
`EnvironmentAgentCompiler.validate_candidate`, one operator for each of its helpers. A catalog is a sequence of keys per section, a design a
function on keys, a scenario sequences of entities that refer to each other by name and number; `Position` is the counter behind
derived identifiers. `EnvironmentAgent` has one action per tool that changes something: the model calls them in any order, and the guards
are the tools' own. `closureVars` are the variables of the closure `build_environment_tools` makes once for the agent; they outlive a
request and end with the process. `Dump` writes the files of a scenario in the code's order, all or, when a write fails, the first few.
Where they go follows from the id and the directory asked for, which may be any: `Graphs` and `SplitMode` are the constants that say which directories the graph and
the overlay of a directory go to, and either may be one that is asked for in its own right. `disk` is a function on the files that exist. `Free` is the check before a file is
overwritten; the graph has none, so `WriteFiles` replaces whatever is where it goes.
A tool that raises answers the model with an error object (`structured_tool_loop.py:333`), and `generate_environment` takes the last answer of
the write tool for the file to load: that is `lastWrite`, which a write that failed or was refused resets.

Abstracted: bandwidth has one direction; a design that repeats a key is refused as an incomplete one is; the id of a scenario stands for
the other fields a design must share with its catalog, and "runtime" for all of a design that is not an entity; what the simulator
launcher finds is a choice, except that a topology graph is no scenario and passes neither as base nor as overlay; a file is whole or absent; an id
stands for the file name made of it. Names and APNs are words with or without blanks at either end (`Strip`, `StripBack`), since the validator strips some and not others.
`tested`, `fresh` and `mine` are history variables.

### Simulator, ExperimentLauncher

`Simulator` has the lock file, the stack and the process of a slot. A process may exit while what it brought up stays; a stop that raises and a stop
that leaves the stack are the two ways a signal fails. `ResetStack` and `ResetProceeds` are the reset service: a reset may complete, fail, lose a child of
the supervisor, or go on after its client has stopped waiting.

`ExperimentLauncher` has two levels. `lpc` is main: inputs of a scenario, then for each method the allocation and start of one simulator per worker, the
workers, the merge, the aggregation, and the clean-up, which a run that failed reaches as well. `wpc[i]` is the thread of a worker together with the child it
waits for: the check that the simulator runs (with its restarts), a case, a reset, the iterations of
`reset_simulator_state`, and the one repetition of all cases when the reset asks for a full restart. The threads interleave. `FirstOf` and `CountOf` share out the
cases, `MergedCases` puts the files together again.

Abstracted: a case is its record number and leaves the simulator dirty, whatever comes of it; the reset's deadline is a
budget of iterations, and whether its grace period is over is a choice; requests are counted up to the limit they are compared with; the files of a
repeated child are replaced when it starts, which is when it is granted; a process that comes up replaces what ran on its slot.

## 3. Runs

Every cfg gives the bounds. "Passing" runs explore the whole space.

| Run | Question and bounds |
|---|---|
| `execution` | Two executions of any of five plans (all three kinds, AM alone without a supi, empty, one that does not compile, SM alone) with two polls to the deadline. Two executions let one plan meet what another left at the gateway and in the store; a third adds no new kind of meeting. |
| `control` | A run of either orchestrator (`architecture`). Three rounds, two of them executing, two stages, plans of either kind of policy, one failed context read and one failed row update. The trace window is 2 instead of the code's 3, so that it overflows within three rounds. |
| `queue` | One worker, two tasks, two attempts, one crash, one rolled-back transaction. Two tasks because a poll may pass one over; two attempts so that both a retry and a burial occur. |
| `watch` | Three flows, one user intent, three changes of telemetry, two re-entries an iteration: enough for one alert to be deferred and for one lifecycle to be scheduled twice. |
| `environment` | One process at a time, any number of requests. One scenario id and two directories outside the scenario root, one of them the graphs directory of the other, so that a graph can meet a base and two overlays share a place; a foreign file where the inner directory's graph goes; two failed writes. The least scenario with two slices, a UE of two sessions and two traffic classes, with padded names and an APN padded behind, all of which the validator takes; a catalog below the floor; seven revisions (a flow moved, sent to an unknown slice, over capacity; a preferred gNB's name padded, two gNB names equal but for blanks, an APN padded in front; an undeclared key). Two directories and two failures let one scenario be written, lost to a restart, met by a graph and written again elsewhere. |
| `agents` | Two runs' worth of reachable stores, two rounds each, stages of the code's three attempts; three UEs, one of which no request is about, three flows, three slices of which one has room for one move only. Requests for QoS, mobility and both, for one UE and for two; ten answers of the grounding model and eight of the strategy model, chosen so that each rule of the validators accepts one and refuses another. Two of the grounding answers carry ids on unresolved bindings: of the third UE's flow, which a plan then holds a policy for and may even be for, and of a flow that must move, which the optimizer puts on slices nobody is entitled to. Tools answer once per attempt and UE, which three attempts let add up. |

| `experiments` | A matrix of two scenarios, one of a single case (so that one of two workers has none), one of three (so that the shares differ) with a method that is not ready; two workers over three slots, with nothing left behind, dead launchers' slots with and without a simulator, or a living launcher's; the code's limits on restarts and requests, four iterations per reset, one process that exits or ignores a signal. Four iterations let a reset be given up, answered 409 and found complete; one fault can fall at every place, more add the same again. |

The queue's instances allow a deadlock check to be switched off only because producers may
stop submitting; a run, an execution and a stopped watch loop end.

### What the passing runs show

* Execution: no UE context names a policy the gateway has not applied; a report of success
  speaks of the whole plan; every policy is handled once and in order; association rows come
  before contexts and events; write-backs are assured and keep what was there.
* Control and baseline: "completed" is true of gateway and store; the result tells the rounds that ran, the last one's
  outcome and one trace for each in the window; the strategy agent never plans over an open question;
  the store follows the mediator; both implement `ControlSession`.
* Queue: success is never said without a response (checked with one worker, proved for any number). With one worker and no
  lost acknowledgement it implements `TaskLifecycle`, and every task ends.
* Agents: resolved flows, AM association and UE of a plan are those of the request, whatever was read or reused, except that a plan for several UEs
  may be for the UE of an unresolved flow; a flow that must move leaves its slice, and if it was resolved it goes to one that
  is entitled when the plan is made (an unresolved flow with an id goes anywhere: the code does not look); the two halves of a joint plan agree; a blocked migration leaves no trace; an executable
  plan answers what the dispatch before it measured; an approved plan fits the snapshot; the AM policy is for
  the association of its UE; evidence survives retries; the placement refines `SlicePlacement`; every step brings a run nearer its end.
* Watch: an incident is replanned once until it has recovered; a failed lifecycle
  stays failed; no violation is starved by others.
* Environment: what is simulated is the design submitted last; an answer is one valid design, the one simulated unless another
  was compiled since; a file is changed only by the process that wrote it, or by a valid draft's graph, which is written where it goes whatever is there; a scenario
  is refused for a reference the compiler derived just where that was derived from a padded name or APN.
* Experiments: no simulator runs without a slot of its own or outlives its run; no case begins on a simulator another has used; a successful run
  has each of its cases once and in order, and none goes unrecorded; the launcher ends.

### Where code and documents disagree

Each has a run in which TLC finds the violation, and an entry with the quoted line under `findings`.

| Run | What it shows |
|---|---|
| `execution_read_fault` | A failed read of the UE context is taken for an empty context; the next commit erases the stored policies. |
| `execution_multi_ue` | A plan for two UEs is stored in the context of one. |
| `control_redispatch` | `retry_forbidden` is nested by the dispatch agent and looked for at the top level: a policy whose deadline passed is posted again. |
| `control_stages` | The stage follows the round's number: stage 2 is worked on because stage 1 failed. |
| `watch_truncated` | A flow cut off by `max_alerts` passes for recovered and is replanned a second time within one incident. |

### Fairness

Only what the code itself drives is fair. `WF(Execute)` and `WF(RunProceeds)`: a synchronous call in
progress goes on. Nothing is assumed of the gateway: the poll deadline is what ends a wait. The queue assumes
that a worker is started again after it has ended and that time passes; producers are not fair. `WF(WatchStep)`:
`run_forever` takes the next step of an iteration unless an exception has stopped it. `WF(LauncherStep)` and `WF(WorkerStep(i))`:
main and every thread go on, since each of their waits has a timeout; a reset that is under way and a simulator are not fair.
Liveness is relative to bounded faults: with unboundedly many crashes no task need end, and with telemetry that never
settles a deferred alert may be overtaken for ever. `RoundAgents` needs no fairness: `RunAdvances` is a variant, which every step of a
run increases up to a bound.

## 4. Proofs

Every invariant and every action property of the passing runs, and the three refinements, are proved for all constants that satisfy the assumptions of the
modules. Where a property needs more (a store that can be read, a lone worker, alerts that are not cut off) the theorem has it as a hypothesis; TLC finds
a counterexample without it.
The proofs follow one pattern: a conjunction of named parts, of which the property is one or a consequence, is inductive; one lemma for
each group of actions says that they keep it; the theorem joins them.

`PolicyExecutionProofs` (any policies, UEs and plans without repeated policies; any poll budget, number of executions and read faults):

* `TypeCorrect`, `CommittedIsApplied`, `OneReceiptPerPolicy`: `ExecSpec => []P`, from `ExecInv`;
* `SuccessIsWhole`, `AssociationRowFirst`: `ExecSpec => []P`, and `WriteBacksAreAssured`: `ExecSpec => [][...]_execVars`, from `WriteBackInv`;
* `StoredIsKept`: `ExecSpec => CommittedKept` if `MaxReadFaults = 0`. The run `execution_read_fault` shows that one failed read is enough to lose what is stored.

That what is committed was applied needs to know that a commit only runs on a batch that is complete and without failures
(`CommitIsWhole`), that receipts of such a batch are all successes and that these are true of the gateway (`ReceiptsAreTrue`), that the
operation just waited for is what the cursor stands on (`CursorInPlan`), and that the copy merged into holds only applied
policies (`CopyWasApplied`). `ExecInv` is their conjunction. `WriteBackInv` adds that the batch behind a write-back is assured, policy by policy
(`AssuredBatch`), and which rows are there at each place of the walk over the AM policies (`WrittenSoFar`): a transaction may fail
anywhere in it. `NextMobility`, the step of that walk, is a least-element CHOOSE. `StoredIsKept` is about the copy: from its read to its commit it
holds all the row holds (`CopyIsWhole`), since nobody else writes the row meanwhile.

`ControlProofs` (any plans, rounds, stages, size of the trace window, faults, of either orchestrator):

* `RunIsAnExecution`: `OrchestratorSpec => ExecSpec`. A run only begins executions, lets them proceed or leaves them alone, so that
  all of the above holds in every run;
* `CompletedIsTrue`, `RoundsAreTold`, `PlansAreSettled`: `OrchestratorSpec => []P`;
* `StoreIsApproved` and `RunImplementsSession`: the action property, and the refinement of `ControlSession`.

`CompletedIsStored` meets both levels: that "Success" speaks of policies that are active and stored is an invariant of the execution
(`SuccessIsStored`, from `SuccessIsWholePlan` and the order of the write-back); that a completed run rests on such a report of its last plan, and
that no step of the gateway or of the loop spoils it, is one of the run (`OutcomeInv`). `ControlInv` has besides what each control state says of
session, plan and verdict (`RunShape`, `SessionInv`), that the window is the last rounds' traces in order, its oldest being dropped (`WindowInv`),
and that a grounding carried over has no open question (`SettledInv`). All the ways a round may end reduce to two lemmas, `RoundBreaksOff` and
`RoundIsJudged`, over one operator, `RoundOver`.

`TaskQueueProofs` (any number of tasks, crashes, rolled-back transactions):

* `SuccessHasResponse`: `QueueSpec => []SucceededHasResponse`, for any number of workers and of lost acknowledgements too, so also where two workers hold one task;
* `QueueTypes`: `QueueSpec => []QueueTypeOK` for one worker (`OneWorker`);
* `LoneWorkerOwns`: `QueueSpec => []WorkerOwnsItsTask`, and `QueueImplementsLifecycle`: `QueueSpec => ImplementsLifecycle`, for one worker and
  `MaxLostAcks = 0`.

The first is not inductive: a row closes several steps after the response was written, and a lost acknowledgement or a vanished lease file sends the worker
round again in between. `RespondedFirst` carries it: a worker that has reached the closing steps and still means
to say "succeeded" has its response on disk; responses are never removed, and giving up withdraws the claim.
The others are promises the code keeps to a lone worker only. A row is selected and updated without a lock, so two workers may read one task, take it one after
the other and count attempts on what they read; that breaks `WorkerOwnsItsTask` within one try, and the bound on attempts after a lease or two have expired. A
completion whose commit is not acknowledged leaves even a lone worker closing a task that is closed.
`SoloInv` says what is left for one worker: what it has read is what the row says (`ReadIsRow`), and a task on nobody's hands that is
not closed has a try left, or a fault has voided one (`TriesBounded`), from which the bound on attempts follows.

`IntentWatchProofs` (any flows, metrics, levels, intents, re-entries and changes of telemetry):

* `WatchInvariant`: `WatchSpec => [](WatchShape /\ NoAlertUnderSatisfied)`;
* `FailureIsFinal`: `WatchSpec => FailedIsFinal`;
* `OneReplanAnIncident`: `WatchSpec => []SuppressedUntilRecovery` if `MaxAlerts >= Cardinality(Flows)`. The run `watch_truncated` shows the second replan without it.

The first needs what `observe` does to a list of lifecycles of any length: new ones for unbound alerts, statuses by the newest lifecycle that binds a flow
(`HandledIs`, `UnboundIs`, `ObservedIs`, `ObservedNewest`). `FailedIsFinal` rests on it because an action may have been decided
before its lifecycle failed. `IncidentInv` is behind the third: a flow replanned since its last recovery is remembered, is still among the alerts
when the memory is pruned, and the actions of an iteration are for different flows, none of them remembered.

`RoundAgentsProofs` (any slices, flows, UEs, requests, capacities, answers of the models and number of rounds):

* `AgentsTypeCorrect`, `HandoffIsGrounded`, `MigrationIsAuthorized`, `JointPlansAgree`, `BlockedMigrationStays`, `MissIsAnswered`,
  `AssociationIsOfItsUe`, `ApprovedPlansFit`: `AgentsSpec => []P` for the state properties of the run `agents`;
* `EvidenceSurvives` and `RunsAdvance`: what a failed attempt may not lose, and the variant every step increases;
* `AgentsImplementPlacement`: `AgentsSpec => Placement!PlacementSpec` under the mapping the module states (`GrantOf`, `PlacementOf`).

None of the state properties is inductive. `AgentInv` adds what carries a property from the attempt in which something is
read to the round in which it is used: a field that is not yet or no longer meaningful has its default (`Quiet`);
evidence is only of what was read for the request, and a decision rests on the evidence it was accepted over
(`EvidenceOk`, `DecisionOk`, which traces every UE it reaches to the request or to an unresolved flow, together `GroundedInv`); a cached preview is a placement the request admits under the decision in
force (`PreviewOk`); floors are positive (`MissFloors`) and are what the one remembered dispatch left, for which a plan must have one policy a flow (`OnePolicy`); an accepted plan is
sound at the time it is made and stays within its grant (`PlanSound`). `ApprovedPlansFit` compares two sums: the mediator adds up what each policy adds to a slice, the property
all bandwidths the slice carries afterwards. The lemmas of its section (`OneSum`, `TotalGrows`, `SumsOfPlan`) relate sums over finite sets, by induction over the
set; `OnePolicy` makes the sum over policies one over flows.

`EnvironmentProofs` (any catalogs, designs, revisions, directories and files there from the start, any floors and any number of requests, failed writes and restarts):

* `SimulationRunsTheDesignHolds`, `AnswerIsOneDesignHolds`, `RejectionIsRepairableHolds`: `EnvSpec => []P`;
* `ForeignFilesKeptHolds`: `EnvSpec => [][...]_envVars`, from the invariant that an owned file is the process's own.

`RejectionIsRepairable` rests on a lemma about data, `CompiledResolves`: a complete design whose names differ compiles to a scenario
that passes every check of references and consistency if and only if it has no padded reference. It is proved entity by entity; `NamesDiffer` leads from a stripped name back to its
key. `EnvInv` is what the flags vouch for: a design that compiled is complete, valid and what the draft holds (`ToolsInv`); where the draft was written, the overlay is one
written with the draft, and the base it refers to is the draft's (`WrittenWith`); the last write of a request, its simulation and its answer are of one design (`EvidenceInv`).
`FailedWriteKeeps` is the hard step: a write to another directory that fails half-way may take over the shared overlay, but only after its own base, or put the graph over the base. Of
the directories the proofs assume that one is neither its own graphs directory nor its own counterpart, nor these two one another.

`LauncherProofs` (any matrix, any number of workers and slots, any limits and leftovers and any number of faults):

* `SlotsFollowSimulatorsHolds`, `CaseStartsCleanHolds`, `LedgerIsTrueHolds`: `LaunchSpec => []P`;
* `EveryRunRecordedHolds`: `LaunchSpec => []EveryRunRecorded`.

The first two follow from `LaunchInv`: the workers that hold a slot are those main has counted (`CountsAgree`), locks, slots and processes
tell the same (`LocksAgree`), and a stack is clean from its start to the first case and after a reset whose request was accepted, however that came
to be completed (`StacksAgree`). The last is what makes `CaseStartsClean` hold although a status may be of an
older reset: acceptance is withdrawn before every case. `LedgerInv` says that what comes before main's place in the matrix is recorded, and that place itself from the
merge on. `RowsInv` says what the workers' files hold: nothing but the first of the worker's own cases, all of them once its thread is done (`WrittenSoFar`). The rest of `LedgerIsTrue` is arithmetic and
sorting: the shares are blocks that follow each other and cover the cases (`Blocks`, `BlocksInOrder`, `BlocksCover`), the merged rows are those of all
files in the order of record numbers, and a rising map of 1..n onto itself is the identity (`RisingOnto`), so that the sorted rows are the cases (`MergedIs`).

`ListsProofs` is what these rest on for data of any size. The library's induction theorems take an operator as a parameter and cannot be used here;
`LeastNumber`, the least element of a set of numbers, follows from the well-foundedness of `<`, which is stated of a relation, and gives
induction for sets in place of predicates: `EveryNumber` and `EveryFiniteSet`. With them `FilteredIs` says what a comprehension answers
(the items of the list in the set, once each where the list has them once) and `ArrangedIs` what a sort does (there is such a list, it has each member once, and it is in order).

Assumptions used, all evaluated by TLC in the runs, since the MC modules extend the modules that state them: `PolicyAssumption`, `PlanAssumption`,
`BoundAssumption`, `RoundAssumption`, `QueueAssumption`, `WatchAssumption`; for the agents `GroundingAssumption`, `PlanningAssumption`,
`MediationAssumption`, `StageAssumption` and `RoundsAssumption`; `EnvironmentAssumption`; `SimulatorAssumption` and `LauncherAssumption`.

**Only model-checked:** liveness (`ExecutionEnds`, `RunReturns`, `EveryTaskEnds`, `ViolationIsReplanned`, `LauncherEnds`): TLAPS does not reason about
fairness and ENABLED here. `RunAdvances` replaces it for the agents. What the types of `ControlLoop`, `IntentWatch`, `EnvironmentAgent` and
`ExperimentLauncher` are is part of their invariants (`RunShape`, `WatchShape`, `ToolsInv`, `LaunchTypeOK`).

## 5. Not modelled

* What the agents say, the prompts, the knowledge they retrieve and the memory they keep: no decision of the
  modelled code depends on more than the choices above.
* Of the agents' code: normalisation and wording of SLA values, candidate ranking, QoS rules, URSP route selection, the mediator's rule
  precedence and its URSP conflicts. They decide the text of a policy or stop a plan for one more reason, which `MediatorRevises` and
  `StrategyUncompiled` already may.
* The optimizer (floating-point search), whose result is any placement its request admits; scenario loading, traces, corpus construction and metrics.
* Of the launcher: two launchers that race for a slot (a lock file is empty until its pid is written and passes for a dead one's, so that both may own
  it: one launcher is modelled, over what others have left); the summaries and metrics of a run; a request that arrives after its sender
  gave up; the simulator without a slot that a launch by hand uses. A run whose aggregation fails is recorded both as successful and as failed, as in the code.
* Of the environment agent: the prompt, the tools that only read, drafting section by section (off when designs are compiled), the fields of the
  runtime sections, the layout of the topology graph, and the launcher's processes.
* Several orchestrators at once on one UE store: a process runs one, and nothing in the code coordinates two.
* A worker whose clock differs from the database's: leases are compared with one clock per deployment in the model.

## 6. Plan

The order is by what the behaviour can do to a network: execution first, then the
loop that drives it, then what feeds and repeats the loop, then the agents.

1. Done: execution, the two orchestrators, the queue, the watch loop, the agents of a round, the environment agent, the experiment launcher; the proofs
   of every invariant and action property the passing runs check, and of the refinements of `ControlSession`, `TaskLifecycle` and `SlicePlacement`.
2. Next: two launchers over the same lock files; `IntentWatch` composed with `ControlSession`, so that "active" means a stored plan; the launcher's readiness probe; the
   conversation memory, once a decision reads it.
3. Proofs: what the queue still promises where two workers hold one task, beyond `SucceededHasResponse`; with the composition of item 2, that a
   run of `ControlLoop` within `IntentWatch` keeps what both promise.
