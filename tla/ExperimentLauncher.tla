-------------------------- MODULE ExperimentLauncher --------------------------
(***************************************************************************)
(* launch_experiments.py: the experiment matrix, one run (a method in a     *)
(* scenario) after the other.  A run shares its cases out to workers, gives *)
(* each a simulator of its own, lets them work at the same time and merges  *)
(* what they wrote.  A worker runs its cases in a child process, with a     *)
(* reset of its simulator between them; when the reset says that only a     *)
(* full restart helps, the simulator is restarted and the cases run again.  *)
(*                                                                         *)
(* A case is the number of its record.  What it comes to is a matter of the *)
(* orchestrators; here it leaves the simulator in need of a reset.          *)
(***************************************************************************)
EXTENDS Simulator, Lists

CONSTANTS
    Matrix,       \* scenarios: the records selected, the methods planned
    MaxReruns     \* MAX_WRITER_RESET_FULL_RESTARTS_PER_WORKER

Kinds == {"workflow", "single", "notReady"}

ASSUME LauncherAssumption ==
    /\ Matrix \in Seq([cases : Seq(Nat), methods : Seq(Kinds)]) /\ Matrix # <<>>
    /\ \A k \in DOMAIN Matrix : Matrix[k].cases # <<>> /\ Matrix[k].methods # <<>>
    /\ \A k \in DOMAIN Matrix : \A n, m \in DOMAIN Matrix[k].cases :
          n < m => Matrix[k].cases[n] < Matrix[k].cases[m]
    /\ MaxReruns \in Nat

VARIABLES
    lpc,       \* control state of main
    at,        \* the scenario and the method it is at
    specs,     \* how many workers have a simulator: worker_specs
    successful, failed,  \* runs recorded; a scenario without inputs is method 0
    merged,    \* the merged result file of a run
    wpc,       \* control state of a worker's thread and of its child
    attempt,   \* run_attempt
    rows,      \* the result file the child is writing
    accepted,  \* reset_accepted
    posts,     \* attempts: reset requests of this reset, counted as far as they matter
    polls      \* iterations of this reset

mainVars   == <<lpc, at, specs, successful, failed, merged>>
resetVars  == <<accepted, posts, polls>>
workerVars == <<wpc, attempt, rows, resetVars>>
launchVars == <<mainVars, workerVars, simVars>>

Planned == UNION {{k} \X DOMAIN Matrix[k].methods : k \in DOMAIN Matrix}
Cases   == Matrix[at[1]].cases
Method  == Matrix[at[1]].methods[at[2]]

LaunchInit ==
    /\ SimInit
    /\ lpc = "build" /\ at = <<1, 1>> /\ specs = 0
    /\ successful = {} /\ failed = {}
    /\ merged = [r \in Planned |-> <<>>]
    /\ wpc = [i \in Workers |-> "none"]
    /\ attempt = [i \in Workers |-> 0]
    /\ rows = [i \in Workers |-> <<>>]
    /\ accepted = [i \in Workers |-> FALSE]
    /\ posts = [i \in Workers |-> 0]
    /\ polls = [i \in Workers |-> 0]

(* The records of a run shared out in blocks, the first workers taking one  *)
(* more while there is a remainder.                                         *)
CountOf(i, n) == (n \div NWorkers) + (IF i <= n % NWorkers THEN 1 ELSE 0)

(* Mutant: the remainder does not move where the next block begins.         *)
FirstOfEven(i, n) == 1 + (i - 1) * (n \div NWorkers)

FirstOf(i, n) ==
    1 + (i - 1) * (n \div NWorkers) + (IF i - 1 < n % NWorkers THEN i - 1 ELSE n % NWorkers)

ShareOf(i) ==
    SubSeq(Cases, FirstOf(i, Len(Cases)), FirstOf(i, Len(Cases)) + CountOf(i, Len(Cases)) - 1)

-------------------------------------------------------------------------------
(* The matrix.                                                             *)

NextScenario ==
    /\ lpc' = IF at[1] = Len(Matrix) THEN "ended" ELSE "build"
    /\ at' = IF at[1] = Len(Matrix) THEN at ELSE <<at[1] + 1, 1>>

BuildInputs ==
    /\ lpc = "build"
    /\ \/ lpc' = "method" /\ UNCHANGED <<at, failed>>
       \/ NextScenario /\ failed' = failed \cup {<<at[1], 0>>}
    /\ UNCHANGED <<specs, successful, merged, workerVars, simVars>>

(* A run that raises is recorded; what it has started is stopped after it.  *)
RunFails == failed' = failed \cup {at} /\ lpc' = "cleanup"

StartRun ==
    /\ lpc = "method"
    /\ \/ Method = "notReady" /\ RunFails
       \/ Method # "notReady" /\ lpc' = "allocate" /\ UNCHANGED failed
    /\ UNCHANGED <<at, specs, successful, merged, workerVars, simVars>>

AllocateWorker ==
    /\ lpc = "allocate" /\ specs < NWorkers
    /\ \/ AllocateSlot(specs + 1) /\ lpc' = "start" /\ UNCHANGED failed
       \/ NoSlotLeft /\ RunFails
    /\ UNCHANGED <<at, specs, successful, merged, workerVars>>

(* Mutant: a simulator that does not come up keeps its slot.                *)
StartSimulatorKeepsSlot ==
    /\ lpc = "start"
    /\ \/ /\ BootstrapReady(specs + 1)
          /\ specs' = specs + 1
          /\ lpc' = "allocate"
          /\ UNCHANGED failed
       \/ /\ BootstrapFails(specs + 1)
          /\ RunFails
          /\ UNCHANGED specs
    /\ UNCHANGED <<at, successful, merged, workerVars, lock, slotOf, restarts, faults>>

(* A simulator that does not come up gives its slot back.                   *)
StartSimulator ==
    /\ lpc = "start"
    /\ \/ /\ BootstrapReady(specs + 1)
          /\ specs' = specs + 1
          /\ lpc' = "allocate"
          /\ UNCHANGED <<failed, lock, slotOf, restarts>>
       \/ /\ BootstrapFails(specs + 1)
          /\ ReleaseSlot(specs + 1)
          /\ RunFails
          /\ UNCHANGED specs
    /\ UNCHANGED <<at, successful, merged, workerVars, faults>>

(* Every worker gets a thread; one without cases is skipped.                *)
StartWorkers ==
    /\ lpc = "allocate" /\ specs = NWorkers
    /\ lpc' = "workers"
    /\ wpc' = [i \in Workers |-> IF ShareOf(i) = <<>> THEN "done" ELSE "ensure"]
    /\ attempt' = [i \in Workers |-> 0]
    /\ rows' = [i \in Workers |-> <<>>]
    /\ UNCHANGED <<at, specs, successful, failed, merged, resetVars, simVars>>

(* The result files of the workers, one after the other, sorted by record   *)
(* number: rows of one record stay in the order of the files.               *)
MergedRows ==
    LET written == {r \in Workers \X (1 .. Len(Cases)) : r[2] \in DOMAIN rows[r[1]]}
        record(r) == rows[r[1]][r[2]]
    IN  Arranged(written, {p \in written \X written :
            \/ record(p[1]) < record(p[2])
            \/ /\ record(p[1]) = record(p[2])
               /\ p[1][1] < p[2][1] \/ (p[1][1] = p[2][1] /\ p[1][2] < p[2][2])})

MergedCases == [n \in DOMAIN MergedRows |-> rows[MergedRows[n][1]][MergedRows[n][2]]]

CollectWorkers ==
    /\ lpc = "workers"
    /\ \A i \in Workers : wpc[i] \in {"done", "failed"}
    /\ \/ /\ \E i \in Workers : wpc[i] = "failed"
          /\ RunFails
          /\ UNCHANGED <<successful, merged>>
       \/ /\ \A i \in Workers : wpc[i] = "done"
          /\ merged' = [merged EXCEPT ![at] = MergedCases]
          /\ successful' = successful \cup {at}
          /\ lpc' = "aggregate"
          /\ UNCHANGED failed
    /\ UNCHANGED <<at, specs, workerVars, simVars>>

Aggregate ==
    /\ lpc = "aggregate"
    /\ RunFails \/ (lpc' = "cleanup" /\ UNCHANGED failed)
    /\ UNCHANGED <<at, specs, successful, merged, workerVars, simVars>>

(* The simulators are stopped last first, whatever became of the run.  A    *)
(* stop that raises ends the launcher.                                      *)
StopWorker ==
    /\ lpc = "cleanup" /\ specs > 0
    /\ \/ StopProcess(specs) /\ specs' = specs - 1 /\ UNCHANGED lpc
       \/ StopSticks(specs) /\ lpc' = "crashed" /\ UNCHANGED specs
    /\ ReleaseSlot(specs)
    /\ UNCHANGED <<at, successful, failed, merged, workerVars>>

EndRun ==
    /\ lpc = "cleanup" /\ specs = 0
    /\ \/ /\ at[2] < Len(Matrix[at[1]].methods)
          /\ at' = <<at[1], at[2] + 1>>
          /\ lpc' = "method"
       \/ /\ at[2] = Len(Matrix[at[1]].methods)
          /\ NextScenario
    /\ wpc' = [i \in Workers |-> "none"]
    /\ attempt' = [i \in Workers |-> 0]
    /\ rows' = [i \in Workers |-> <<>>]
    /\ UNCHANGED <<specs, successful, failed, merged, resetVars, simVars>>

LauncherStep ==
    \/ BuildInputs \/ StartRun \/ AllocateWorker \/ StartSimulator \/ StartWorkers
    \/ CollectWorkers \/ Aggregate \/ StopWorker \/ EndRun

-------------------------------------------------------------------------------
(* A worker's thread.                                                      *)

GoTo(i, pc) == wpc' = [wpc EXCEPT ![i] = pc]

(* Before the child is started its simulator has to be alive and its        *)
(* gateway healthy; a few restarts are allowed for that.                    *)
EnsureRunning(i) ==
    /\ wpc[i] = "ensure"
    /\ \/ /\ proc[i] = "running" /\ stack[slotOf[i]].up
          /\ GoTo(i, "case")
       \/ /\ restarts[i] < RestartLimit
          /\ GoTo(i, "replace")
       \/ /\ restarts[i] >= RestartLimit
          /\ GoTo(i, "failed")
    /\ UNCHANGED <<mainVars, attempt, rows, resetVars, simVars>>

(* A restart keeps the slot.  It is on behalf of the check above, or after  *)
(* it of a reset that cannot go on.                                         *)
StopForRestart(i) ==
    /\ wpc[i] \in {"replace", "recover"}
    /\ \/ /\ StopProcess(i)
          /\ GoTo(i, IF wpc[i] = "replace" THEN "replacing" ELSE "recovering")
       \/ StopSticks(i) /\ GoTo(i, "failed")
    /\ UNCHANGED <<mainVars, attempt, rows, resetVars, lock, slotOf, restarts>>

StartAgain(i) ==
    /\ wpc[i] \in {"replacing", "recovering"}
    /\ \/ /\ BootstrapReady(i)
          /\ restarts' = [restarts EXCEPT ![i] = @ + 1]
          /\ GoTo(i, IF wpc[i] = "replacing" THEN "case" ELSE "ensure")
       \/ /\ BootstrapFails(i)
          /\ GoTo(i, "failed")
          /\ UNCHANGED restarts
    /\ UNCHANGED <<mainVars, attempt, rows, resetVars, lock, slotOf, faults>>

(* One case, whatever comes of it, is one row.  A workflow is reset before  *)
(* the next case, the baseline after every one.                             *)
RunCase(i) ==
    /\ wpc[i] = "case"
    /\ rows' = [rows EXCEPT ![i] = Append(@, ShareOf(i)[Len(@) + 1])]
    /\ stack' = [stack EXCEPT ![slotOf[i]].dirty = @ \/ stack[slotOf[i]].up]
    /\ GoTo(i, IF Method = "workflow" /\ Len(rows[i]) + 1 = Len(ShareOf(i))
                  THEN "done" ELSE "reset")
    /\ accepted' = [accepted EXCEPT ![i] = FALSE]
    /\ posts' = [posts EXCEPT ![i] = 0]
    /\ polls' = [polls EXCEPT ![i] = 0]
    /\ UNCHANGED <<mainVars, attempt, lock, slotOf, proc, restarts, faults>>

(* The child cannot rebuild the scenario's tables from the graph snapshot.  *)
RebuildFails(i) ==
    /\ wpc[i] = "case"
    /\ GoTo(i, "failed")
    /\ UNCHANGED <<mainVars, attempt, rows, resetVars, simVars>>

-------------------------------------------------------------------------------
(* reset_simulator_state, in the child.  Unless one was accepted, every     *)
(* iteration requests a reset, and then reads the status of the supervisor. *)

RequestReset(i) ==
    /\ wpc[i] = "reset"
    /\ posts' = [posts EXCEPT ![i] = IF @ < MaxRecoveryRequests THEN @ + 1 ELSE @]
    /\ LET s == slotOf[i] IN
       \/ UNCHANGED <<stack, accepted>> /\ GoTo(i, "status")  \* no answer
       \/ /\ stack[s].up /\ stack[s].phase # "active"         \* begun, given up waiting for
          /\ stack' = [stack EXCEPT ![s].phase = "active"]
          /\ UNCHANGED accepted /\ GoTo(i, "status")
       \/ /\ stack[s].up /\ stack[s].phase # "active"         \* done, or failed
          /\ ResetStack(s)
          /\ accepted' = [accepted EXCEPT ![i] = stack'[s].phase = "completed"]
          /\ GoTo(i, "status")
       \/ /\ stack[s].up /\ stack[s].phase = "active"         \* 409: another one is under way
          /\ accepted' = [accepted EXCEPT ![i] = TRUE]
          /\ UNCHANGED stack /\ GoTo(i, "status")
       \/ UNCHANGED <<stack, accepted>> /\ GoTo(i, "failed")  \* an answer it does not expect
    /\ UNCHANGED <<mainVars, attempt, rows, polls, lock, slotOf, proc, restarts, faults>>

(* After a reset comes the next case, if there is one.                      *)
ResetReturns(i) == GoTo(i, IF Len(rows[i]) = Len(ShareOf(i)) THEN "done" ELSE "case")

(* The reset asks for a full restart: the parent grants it once, and lets   *)
(* the child begin with the first case and a new file.                      *)
WriterExhausted(i) ==
    \/ /\ attempt[i] < MaxReruns
       /\ GoTo(i, "recover")
       /\ attempt' = [attempt EXCEPT ![i] = @ + 1]
       /\ rows' = [rows EXCEPT ![i] = <<>>]
    \/ /\ attempt[i] >= MaxReruns
       /\ GoTo(i, "failed")
       /\ UNCHANGED <<attempt, rows>>

(* Mutant: the deadline is set anew in every iteration.                     *)
PollAgain(i) == UNCHANGED polls

(* An iteration brings a reset nearer its deadline.                         *)
Poll(i) == polls' = [polls EXCEPT ![i] = @ + 1]

(* What the status and the gateway's health tell.  Either may be unread;    *)
(* whether the grace period is over and the deadline near is a choice.      *)
ReadStatus(i) ==
    /\ wpc[i] = "status"
    /\ Poll(i)
    /\ LET st == stack[slotOf[i]]
           asked == posts[i] >= MaxRecoveryRequests
       IN \/ /\ ResetHasFailed(st)
             /\ GoTo(i, "failed") /\ UNCHANGED <<attempt, rows, accepted>>
          \/ /\ accepted[i] /\ ResetIsComplete(st)
             /\ ResetReturns(i) /\ UNCHANGED <<attempt, rows, accepted>>
          \/ /\ accepted[i] /\ WriterIsMissing(st) /\ ~ResetHasFailed(st) /\ asked
             /\ WriterExhausted(i) /\ UNCHANGED accepted
          \/ /\ accepted[i] /\ WriterIsMissing(st) /\ ~ResetHasFailed(st) /\ ~asked
             /\ polls[i] + 1 < MaxPolls
             /\ accepted' = [accepted EXCEPT ![i] = FALSE]
             /\ GoTo(i, "reset") /\ UNCHANGED <<attempt, rows>>
          \/ /\ polls[i] + 1 < MaxPolls
             /\ GoTo(i, IF accepted[i] THEN "status" ELSE "reset")
             /\ UNCHANGED <<attempt, rows, accepted>>
          \/ GoTo(i, "failed") /\ UNCHANGED <<attempt, rows, accepted>>  \* the deadline
    /\ UNCHANGED <<mainVars, posts, simVars>>

WorkerStep(i) ==
    \/ EnsureRunning(i) \/ StopForRestart(i) \/ StartAgain(i)
    \/ RunCase(i) \/ RebuildFails(i) \/ RequestReset(i) \/ ReadStatus(i)

-------------------------------------------------------------------------------
(* Simulators live their own life while a run holds them.                  *)
SimulatorStep ==
    /\ lpc # "crashed"
    /\ \/ \E i \in Workers : SimulatorExits(i)
       \/ \E i \in Workers : slotOf[i] # 0 /\ ResetProceeds(slotOf[i])
    /\ UNCHANGED <<mainVars, workerVars>>

LaunchEnded == lpc \in {"ended", "crashed"} /\ UNCHANGED launchVars

LaunchNext == LauncherStep \/ (\E i \in Workers : WorkerStep(i)) \/ SimulatorStep \/ LaunchEnded

LaunchSpec == LaunchInit /\ [][LaunchNext]_launchVars
LaunchFairSpec ==
    /\ LaunchSpec
    /\ WF_launchVars(LauncherStep)
    /\ \A i \in Workers : WF_launchVars(WorkerStep(i))

-------------------------------------------------------------------------------
(* A simulator runs only on a slot its worker holds, no two workers share   *)
(* one, and between runs nothing is held or running any more, whichever of  *)
(* allocation, start, restart and stop has failed (simulator.py 139-178,    *)
(* 462-633; the clean-up of launch_experiments.py).                         *)
SlotsFollowSimulators ==
    /\ lpc # "crashed" =>
          \A i \in Workers : proc[i] = "running" => slotOf[i] # 0 /\ lock[slotOf[i]] = "mine"
    /\ \A i, j \in Workers : i # j /\ slotOf[i] # 0 => slotOf[i] # slotOf[j]
    /\ lpc \in {"build", "method", "ended"} =>
          /\ \A s \in Slots : lock[s] # "mine"
          /\ \A i \in Workers : proc[i] # "running"

(* A case begins on a simulator that no case has touched since it came up   *)
(* or was last reset, and that is not being reset under it: a reset returns *)
(* by what it has read after its request, never by an older status          *)
(* (reset_simulator_state; the restart after an exhausted writer).          *)
CaseStartsClean ==
    \A i \in Workers : wpc[i] = "case" =>
        /\ ~stack[slotOf[i]].dirty
        /\ stack[slotOf[i]].phase # "active"

(* In the end every planned run is recorded, if only as failed.             *)
Recorded(r) == {r, <<r[1], 0>>} \cap (successful \cup failed) # {}
EveryRunRecorded == lpc = "ended" => \A r \in Planned : Recorded(r)

(* A run recorded as successful has one row for each of its cases, in their *)
(* order, with nothing of a child that was run again, and no run goes       *)
(* unrecorded (main, _merge_worker_results).                                *)
LedgerIsTrue ==
    /\ \A r \in successful : merged[r] = Matrix[r[1]].cases
    /\ EveryRunRecorded

(* However simulators, resets and children fail, the launcher comes to the  *)
(* end of its matrix, or to the stop that raised.                           *)
LauncherEnds == <>(lpc \in {"ended", "crashed"})
=============================================================================
