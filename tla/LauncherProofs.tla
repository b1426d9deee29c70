---------------------------- MODULE LauncherProofs ----------------------------
(***************************************************************************)
(* Proofs about ExperimentLauncher, for any matrix, any number of workers   *)
(* and slots, whatever earlier launchers have left and however often        *)
(* simulators and resets fail.                                             *)
(***************************************************************************)
EXTENDS ExperimentLauncher, ListsProofs

LPcs == {"build", "method", "allocate", "start", "workers", "aggregate", "cleanup",
         "ended", "crashed"}
Idle == {"none", "done", "failed"}
WPcs == Idle \cup {"ensure", "replace", "replacing", "recover", "recovering",
                   "case", "reset", "status"}

LaunchTypeOK ==
    /\ lpc \in LPcs
    /\ specs \in 0 .. NWorkers
    /\ wpc \in [Workers -> WPcs]
    /\ accepted \in [Workers -> BOOLEAN]
    /\ lock \in [Slots -> Locks]
    /\ stack \in [Slots -> Stacks]
    /\ slotOf \in [Workers -> 0 .. NSlots]
    /\ proc \in [Workers -> {"none", "running", "exited"}]

(* Where main is says how many workers have a slot.                         *)
Held(i) == \/ lpc \in {"allocate", "workers", "aggregate", "cleanup"} /\ i <= specs
           \/ lpc = "start" /\ i <= specs + 1
           \/ lpc = "crashed" /\ i < specs

CountsAgree ==
    /\ lpc \in {"build", "method", "ended"} => specs = 0
    /\ lpc = "start" => specs < NWorkers
    /\ lpc \in {"workers", "aggregate"} => specs = NWorkers
    /\ \A i \in Workers : wpc[i] \notin Idle => lpc = "workers"
    /\ \A i \in Workers : slotOf[i] # 0 <=> Held(i)

(* Locks and slots tell the same, and no process runs without a slot.       *)
LocksAgree ==
    /\ \A i \in Workers : slotOf[i] # 0 => lock[slotOf[i]] = "mine"
    /\ \A s \in Slots : lock[s] = "mine" => \E i \in Workers : slotOf[i] = s
    /\ \A i, j \in Workers : i # j /\ slotOf[i] # 0 => slotOf[i] # slotOf[j]
    /\ lpc # "crashed" => \A i \in Workers : proc[i] = "running" => slotOf[i] # 0

Clean(s) == ~stack[s].dirty /\ stack[s].phase # "active"

(* A simulator is clean from its start to the first case, and after a reset *)
(* that was requested for it, whoever completed that.                       *)
StacksAgree ==
    \A i \in Workers :
        /\ lpc \in {"allocate", "start"} /\ i <= specs => Clean(slotOf[i])
        /\ wpc[i] \in {"ensure", "case"} => Clean(slotOf[i])
        /\ wpc[i] \in {"reset", "status"} /\ accepted[i] /\ stack[slotOf[i]].phase = "completed"
              => ~stack[slotOf[i]].dirty

LaunchInv == LaunchTypeOK /\ CountsAgree /\ LocksAgree /\ StacksAgree

-------------------------------------------------------------------------------
LEMMA Sizes == NWorkers \in Nat \ {0} /\ NSlots \in Nat \ {0}
BY SimulatorAssumption

LEMMA StackKinds == Down \in Stacks /\ Fresh \in Stacks /\ ~Fresh.dirty /\ Fresh.phase = "idle"
BY DEF Down, Fresh, Stacks, Phases

LEMMA InitLaunchInv == LaunchInit => LaunchInv
<1> SUFFICES ASSUME LaunchInit PROVE LaunchInv
  OBVIOUS
<1>1. PICK left \in Leftovers :
          /\ lock  = [s \in Slots |-> left[s].lock]
          /\ stack = [s \in Slots |-> [Down EXCEPT !.up = left[s].up, !.dirty = left[s].up]]
  BY DEF LaunchInit, SimInit
<1>2. left \in [Slots -> [lock : {"free", "stale", "other"}, up : BOOLEAN]]
  BY SimulatorAssumption
<1>3. lock \in [Slots -> {"free", "stale", "other"}]
  BY <1>1, <1>2
<1>4. stack \in [Slots -> Stacks]
  BY <1>1, <1>2 DEF Down, Stacks, Phases
<1>5. LaunchTypeOK
  <2>1. lpc \in LPcs /\ specs \in 0 .. NWorkers
    BY Sizes DEF LaunchInit, LPcs
  <2>2. wpc \in [Workers -> WPcs] /\ accepted \in [Workers -> BOOLEAN]
    BY DEF LaunchInit, WPcs, Idle
  <2>3. slotOf \in [Workers -> 0 .. NSlots]
    <3>1. slotOf = [i \in Workers |-> 0]
      BY DEF LaunchInit, SimInit
    <3> QED BY <3>1, Sizes
  <2>5. proc \in [Workers -> {"none", "running", "exited"}]
    BY DEF LaunchInit, SimInit
  <2>4. lock \in [Slots -> Locks]
    BY <1>3 DEF Locks
  <2> QED BY <1>4, <2>1, <2>2, <2>3, <2>4, <2>5 DEF LaunchTypeOK
<1>6. CountsAgree
  BY DEF LaunchInit, SimInit, CountsAgree, Held, Idle
<1>7. LocksAgree
  BY <1>3 DEF LaunchInit, SimInit, LocksAgree
<1>8. StacksAgree
  BY DEF LaunchInit, SimInit, StacksAgree
<1> QED BY <1>5, <1>6, <1>7, <1>8 DEF LaunchInv

-------------------------------------------------------------------------------
(* Workers.  They keep their slots, and touch no stack but their own.       *)

LEMMA WorkerHasSlot ==
  ASSUME LaunchInv, lpc = "workers", NEW i \in Workers
  PROVE  slotOf[i] \in Slots /\ slotOf[i] # 0
<1>1. Held(i)
  BY Sizes DEF LaunchInv, LaunchTypeOK, CountsAgree, Held, Workers
<1>2. slotOf[i] # 0
  BY <1>1 DEF LaunchInv, CountsAgree
<1> QED BY <1>2, Sizes DEF LaunchInv, LaunchTypeOK, Slots

LEMMA WorkersKeepSlots ==
  ASSUME LaunchInv, lpc = "workers", UNCHANGED <<lpc, specs, lock, slotOf>>
  PROVE  CountsAgree' /\ LocksAgree'
<1>1. CountsAgree'
  BY DEF LaunchInv, CountsAgree, Held
<1>2. LocksAgree'
  BY WorkerHasSlot DEF LaunchInv, LocksAgree
<1> QED BY <1>1, <1>2

LEMMA WorkerKeepsOthers ==
  ASSUME LaunchInv, lpc = "workers", NEW i \in Workers, UNCHANGED <<lpc, slotOf>>,
         \A j \in Workers \ {i} : wpc'[j] = wpc[j] /\ accepted'[j] = accepted[j],
         \A s \in Slots \ {slotOf[i]} : stack'[s] = stack[s],
         wpc'[i] \in {"ensure", "case"} => Clean(slotOf[i])',
         wpc'[i] \in {"reset", "status"} /\ accepted'[i] /\ stack'[slotOf[i]].phase = "completed"
            => ~stack'[slotOf[i]].dirty
  PROVE  StacksAgree'
<1> SUFFICES ASSUME NEW j \in Workers
             PROVE  /\ wpc'[j] \in {"ensure", "case"} => Clean(slotOf[j])'
                    /\ wpc'[j] \in {"reset", "status"} /\ accepted'[j]
                          /\ stack'[slotOf[j]].phase = "completed" => ~stack'[slotOf[j]].dirty
  BY DEF StacksAgree
<1>1. CASE j = i
  BY <1>1
<1>2. CASE j # i
  <2>1. slotOf[j] \in Slots \ {slotOf[i]}
    BY <1>2, WorkerHasSlot DEF LaunchInv, LocksAgree
  <2>2. stack'[slotOf[j]] = stack[slotOf[j]] /\ wpc'[j] = wpc[j] /\ accepted'[j] = accepted[j]
    BY <1>2, <2>1
  <2> QED BY <2>2 DEF LaunchInv, StacksAgree, Clean
<1> QED BY <1>1, <1>2

(* What a stop and a start leave of processes and stacks.                   *)
LEMMA StoppedShape ==
  ASSUME LaunchTypeOK, NEW i \in Workers, slotOf[i] \in Slots, StopProcess(i) \/ StopSticks(i)
  PROVE  /\ proc' \in [Workers -> {"none", "running", "exited"}]
         /\ stack' \in [Slots -> Stacks]
         /\ \A s \in Slots \ {slotOf[i]} : stack'[s] = stack[s]
         /\ \A j \in Workers \ {i} : proc'[j] = proc[j]
         /\ StopProcess(i) => proc'[i] = "none"
BY StackKinds DEF LaunchTypeOK, StopProcess, StopSticks

LEMMA StartedShape ==
  ASSUME LaunchTypeOK, NEW i \in Workers, slotOf[i] \in Slots,
         BootstrapReady(i) \/ BootstrapFails(i)
  PROVE  /\ proc' \in [Workers -> {"none", "running", "exited"}]
         /\ stack' \in [Slots -> Stacks]
         /\ \A s \in Slots \ {slotOf[i]} : stack'[s] = stack[s]
         /\ \A j \in Workers \ {i} : proc'[j] = proc[j]
         /\ BootstrapReady(i) => stack'[slotOf[i]] = Fresh
         /\ BootstrapFails(i) => proc'[i] = "none"
BY StackKinds DEF LaunchTypeOK, BootstrapReady, BootstrapFails

LEMMA ResetShape ==
  ASSUME LaunchTypeOK, NEW s \in Slots, ResetStack(s)
  PROVE  /\ stack' \in [Slots -> Stacks]
         /\ \A r \in Slots \ {s} : stack'[r] = stack[r]
         /\ stack'[s].phase \in {"completed", "failed"}
         /\ stack'[s].phase = "completed" => ~stack'[s].dirty
<1>1. CASE \E gone \in BOOLEAN :
          stack' = [stack EXCEPT ![s].phase = "completed", ![s].missing = gone, ![s].dirty = FALSE]
  <2>1. PICK gone \in BOOLEAN :
          stack' = [stack EXCEPT ![s].phase = "completed", ![s].missing = gone, ![s].dirty = FALSE]
    BY <1>1
  <2> DEFINE done == [stack EXCEPT ![s].phase = "completed"]
             told == [done EXCEPT ![s].missing = gone]
  <2>2. done \in [Slots -> Stacks] /\ done[s].phase = "completed"
        /\ \A r \in Slots \ {s} : done[r] = stack[r]
    BY DEF LaunchTypeOK, Stacks, Phases
  <2> HIDE DEF done
  <2>3. told \in [Slots -> Stacks] /\ told[s].phase = "completed"
        /\ \A r \in Slots \ {s} : told[r] = stack[r]
    BY <2>2 DEF Stacks, Phases
  <2> HIDE DEF told
  <2>4. stack' = [told EXCEPT ![s].dirty = FALSE]
    BY <2>1 DEF told, done
  <2> QED BY <2>3, <2>4 DEF Stacks, Phases
<1>2. CASE stack' = [stack EXCEPT ![s].phase = "failed"]
  BY <1>2 DEF LaunchTypeOK, Stacks, Phases
<1> QED BY <1>1, <1>2 DEF ResetStack

LEMMA UsedShape ==
  ASSUME LaunchTypeOK, NEW s \in Slots, NEW used \in BOOLEAN,
         stack' = [stack EXCEPT ![s].dirty = used]
  PROVE  stack' \in [Slots -> Stacks] /\ \A r \in Slots \ {s} : stack'[r] = stack[r]
BY DEF LaunchTypeOK, Stacks

LEMMA EnsureKeeps ==
  ASSUME LaunchInv, NEW i \in Workers, EnsureRunning(i)
  PROVE  LaunchInv'
<1> USE DEF EnsureRunning, GoTo, mainVars, simVars, resetVars
<1>1. lpc = "workers" /\ wpc[i] = "ensure"
  BY DEF LaunchInv, CountsAgree, Idle
<1>2. LaunchTypeOK'
  BY DEF LaunchInv, LaunchTypeOK, WPcs, Idle
<1>3. CountsAgree' /\ LocksAgree'
  BY <1>1, WorkersKeepSlots
<1>4. Clean(slotOf[i])'
  BY <1>1 DEF LaunchInv, StacksAgree, Clean
<1>5. \A j \in Workers \ {i} : wpc'[j] = wpc[j] /\ accepted'[j] = accepted[j]
  BY DEF LaunchInv, LaunchTypeOK
<1>6. wpc'[i] \notin {"reset", "status"}
  BY DEF LaunchInv, LaunchTypeOK
<1>7. StacksAgree'
  BY <1>1, <1>4, <1>5, <1>6, WorkerKeepsOthers
<1> QED BY <1>2, <1>3, <1>7 DEF LaunchInv

LEMMA StopKeeps ==
  ASSUME LaunchInv, NEW i \in Workers, StopForRestart(i)
  PROVE  LaunchInv'
<1> USE DEF StopForRestart, GoTo, mainVars, resetVars
<1>1. lpc = "workers"
  BY DEF LaunchInv, CountsAgree, Idle
<1>2. slotOf[i] \in Slots
  BY <1>1, WorkerHasSlot
<1>3. wpc' \in [Workers -> WPcs] /\ wpc'[i] \in {"replacing", "recovering", "failed"}
      /\ \A j \in Workers \ {i} : wpc'[j] = wpc[j] /\ accepted'[j] = accepted[j]
  BY DEF LaunchInv, LaunchTypeOK, WPcs, Idle
<1>4. /\ proc' \in [Workers -> {"none", "running", "exited"}]
      /\ stack' \in [Slots -> Stacks]
      /\ \A s \in Slots \ {slotOf[i]} : stack'[s] = stack[s]
  BY <1>2, StoppedShape DEF LaunchInv
<1>5. LaunchTypeOK'
  BY <1>3, <1>4 DEF LaunchInv, LaunchTypeOK
<1>6. CountsAgree' /\ LocksAgree'
  BY <1>1, WorkersKeepSlots
<1>7. StacksAgree'
  BY <1>1, <1>3, <1>4, WorkerKeepsOthers
<1> QED BY <1>5, <1>6, <1>7 DEF LaunchInv

LEMMA StartAgainKeeps ==
  ASSUME LaunchInv, NEW i \in Workers, StartAgain(i)
  PROVE  LaunchInv'
<1> USE DEF StartAgain, GoTo, mainVars, resetVars
<1>1. lpc = "workers"
  BY DEF LaunchInv, CountsAgree, Idle
<1>2. slotOf[i] \in Slots
  BY <1>1, WorkerHasSlot
<1>3. wpc' \in [Workers -> WPcs] /\ wpc'[i] \in {"case", "ensure", "failed"}
      /\ \A j \in Workers \ {i} : wpc'[j] = wpc[j] /\ accepted'[j] = accepted[j]
  BY DEF LaunchInv, LaunchTypeOK, WPcs, Idle
<1>4. /\ proc' \in [Workers -> {"none", "running", "exited"}]
      /\ stack' \in [Slots -> Stacks]
      /\ \A s \in Slots \ {slotOf[i]} : stack'[s] = stack[s]
      /\ BootstrapReady(i) => stack'[slotOf[i]] = Fresh
  BY <1>2, StartedShape DEF LaunchInv
<1>5. LaunchTypeOK'
  BY <1>3, <1>4 DEF LaunchInv, LaunchTypeOK
<1>6. CountsAgree' /\ LocksAgree'
  BY <1>1, WorkersKeepSlots
<1>7. wpc'[i] # "failed" => BootstrapReady(i)
  BY DEF LaunchInv, LaunchTypeOK
<1>8. wpc'[i] # "failed" => Clean(slotOf[i])'
  BY <1>4, <1>7, StackKinds DEF Clean
<1>9. StacksAgree'
  BY <1>1, <1>3, <1>4, <1>8, WorkerKeepsOthers
<1> QED BY <1>5, <1>6, <1>9 DEF LaunchInv

LEMMA CaseKeeps ==
  ASSUME LaunchInv, NEW i \in Workers, RunCase(i) \/ RebuildFails(i)
  PROVE  LaunchInv'
<1> USE DEF RunCase, RebuildFails, GoTo, mainVars, resetVars, simVars
<1>1. lpc = "workers"
  BY DEF LaunchInv, CountsAgree, Idle
<1>2. slotOf[i] \in Slots
  BY <1>1, WorkerHasSlot
<1>3. wpc' \in [Workers -> WPcs] /\ wpc'[i] \in {"done", "reset", "failed"}
  BY DEF LaunchInv, LaunchTypeOK, WPcs, Idle
<1>4. accepted' \in [Workers -> BOOLEAN] /\ (wpc'[i] = "reset" => ~accepted'[i])
  BY DEF LaunchInv, LaunchTypeOK
<1>5. \A j \in Workers \ {i} : wpc'[j] = wpc[j] /\ accepted'[j] = accepted[j]
  BY DEF LaunchInv, LaunchTypeOK
<1>6. stack' \in [Slots -> Stacks] /\ \A s \in Slots \ {slotOf[i]} : stack'[s] = stack[s]
  <2>1. CASE RebuildFails(i)
    BY <2>1 DEF LaunchInv, LaunchTypeOK
  <2>2. CASE RunCase(i)
    <3> DEFINE used == stack[slotOf[i]].dirty \/ stack[slotOf[i]].up
    <3>1. used \in BOOLEAN
      BY <1>2 DEF LaunchInv, LaunchTypeOK, Stacks
    <3>2. stack' = [stack EXCEPT ![slotOf[i]].dirty = used]
      BY <2>2
    <3> HIDE DEF used
    <3> QED BY <1>2, <3>1, <3>2, UsedShape DEF LaunchInv
  <2> QED BY <2>1, <2>2
<1>7. UNCHANGED <<lpc, specs, lock, slotOf, proc>>
  OBVIOUS
<1>8. LaunchTypeOK'
  BY <1>3, <1>4, <1>6, <1>7 DEF LaunchInv, LaunchTypeOK
<1>9. CountsAgree' /\ LocksAgree'
  BY <1>1, <1>7, WorkersKeepSlots
<1>10. StacksAgree'
  BY <1>1, <1>3, <1>4, <1>5, <1>6, <1>7, WorkerKeepsOthers
<1> QED BY <1>8, <1>9, <1>10 DEF LaunchInv

LEMMA RequestKeeps ==
  ASSUME LaunchInv, NEW i \in Workers, RequestReset(i)
  PROVE  LaunchInv'
<1>1. lpc = "workers" /\ wpc[i] = "reset"
  BY DEF RequestReset, LaunchInv, CountsAgree, Idle
<1>2. slotOf[i] \in Slots
  BY <1>1, WorkerHasSlot
<1>3. UNCHANGED <<lpc, specs, lock, slotOf, proc>>
  BY DEF RequestReset, mainVars
<1>4. wpc' \in [Workers -> WPcs] /\ wpc'[i] \in {"status", "failed"}
      /\ \A j \in Workers \ {i} : wpc'[j] = wpc[j]
  BY DEF RequestReset, GoTo, LaunchInv, LaunchTypeOK, WPcs, Idle
<1>5. \/ stack' = stack
      \/ stack' = [stack EXCEPT ![slotOf[i]].phase = "active"]
      \/ ResetStack(slotOf[i])
  BY DEF RequestReset
<1>6. /\ stack' \in [Slots -> Stacks]
      /\ \A s \in Slots \ {slotOf[i]} : stack'[s] = stack[s]
      /\ ResetStack(slotOf[i]) /\ stack'[slotOf[i]].phase = "completed" => ~stack'[slotOf[i]].dirty
  <2>1. stack' = stack \/ stack' = [stack EXCEPT ![slotOf[i]].phase = "active"]
          => stack' \in [Slots -> Stacks] /\ \A s \in Slots \ {slotOf[i]} : stack'[s] = stack[s]
    BY <1>2 DEF LaunchInv, LaunchTypeOK, Stacks, Phases
  <2> QED BY <1>2, <1>5, <2>1, ResetShape DEF LaunchInv
<1>7. accepted' = accepted \/ \E b \in BOOLEAN : accepted' = [accepted EXCEPT ![i] = b]
  BY DEF RequestReset
<1>8. accepted' \in [Workers -> BOOLEAN] /\ \A j \in Workers \ {i} : accepted'[j] = accepted[j]
  BY <1>7 DEF LaunchInv, LaunchTypeOK
<1>9. \/ ResetStack(slotOf[i])
      \/ UNCHANGED <<stack, accepted>>
      \/ wpc'[i] = "failed"
      \/ stack'[slotOf[i]].phase = "active"
  BY <1>2 DEF RequestReset, LaunchInv, LaunchTypeOK, Stacks
<1>10. wpc'[i] = "status" /\ accepted'[i] /\ stack'[slotOf[i]].phase = "completed"
          => ~stack'[slotOf[i]].dirty
  BY <1>1, <1>6, <1>9 DEF LaunchInv, StacksAgree
<1>11. LaunchTypeOK'
  BY <1>3, <1>4, <1>6, <1>8 DEF LaunchInv, LaunchTypeOK
<1>12. CountsAgree' /\ LocksAgree'
  BY <1>1, <1>3, WorkersKeepSlots
<1>13. StacksAgree'
  BY <1>1, <1>3, <1>4, <1>6, <1>8, <1>10, WorkerKeepsOthers
<1> QED BY <1>11, <1>12, <1>13 DEF LaunchInv

LEMMA StatusKeeps ==
  ASSUME LaunchInv, NEW i \in Workers, ReadStatus(i)
  PROVE  LaunchInv'
<1>1. lpc = "workers" /\ wpc[i] = "status"
  BY DEF ReadStatus, LaunchInv, CountsAgree, Idle
<1>2. UNCHANGED <<lpc, specs, lock, slotOf, proc, stack>>
  BY DEF ReadStatus, mainVars, simVars
<1>3. \/ accepted' = accepted /\ \E pc \in {"failed", "recover", "reset", "status"} : GoTo(i, pc)
      \/ accepted' = [accepted EXCEPT ![i] = FALSE] /\ GoTo(i, "reset")
      \/ /\ accepted[i] /\ ResetIsComplete(stack[slotOf[i]]) /\ accepted' = accepted
         /\ \E pc \in {"done", "case"} : GoTo(i, pc)
  BY DEF ReadStatus, WriterExhausted, ResetReturns
<1>4. /\ wpc' \in [Workers -> WPcs] /\ accepted' \in [Workers -> BOOLEAN]
      /\ wpc'[i] \notin {"ensure"}
      /\ \A j \in Workers \ {i} : wpc'[j] = wpc[j] /\ accepted'[j] = accepted[j]
  BY <1>3 DEF GoTo, LaunchInv, LaunchTypeOK, WPcs, Idle
<1>5. accepted'[i] => accepted[i]
  BY <1>3 DEF LaunchInv, LaunchTypeOK
<1>6. wpc'[i] = "case" => accepted[i] /\ stack[slotOf[i]].phase = "completed"
  BY <1>3 DEF GoTo, ResetIsComplete, LaunchInv, LaunchTypeOK
<1>7. accepted[i] /\ stack[slotOf[i]].phase = "completed" => ~stack[slotOf[i]].dirty
  BY <1>1 DEF LaunchInv, StacksAgree
<1>8. LaunchTypeOK'
  BY <1>2, <1>4 DEF LaunchInv, LaunchTypeOK
<1>9. CountsAgree' /\ LocksAgree'
  BY <1>1, <1>2, WorkersKeepSlots
<1>10. Clean(slotOf[i])' <=> Clean(slotOf[i])
  BY <1>2 DEF Clean
<1>11. wpc'[i] = "case" => Clean(slotOf[i])
  BY <1>6, <1>7 DEF Clean
<1>12. StacksAgree'
  BY <1>1, <1>2, <1>4, <1>5, <1>7, <1>10, <1>11, WorkerKeepsOthers
<1> QED BY <1>8, <1>9, <1>12 DEF LaunchInv

-------------------------------------------------------------------------------
(* Main.  Most of its steps leave the simulators alone.                     *)

LEMMA MainKeeps ==
  ASSUME LaunchInv,
         BuildInputs \/ StartRun \/ StartWorkers \/ CollectWorkers \/ Aggregate \/ EndRun
  PROVE  LaunchInv'
<1>1. UNCHANGED <<specs, lock, stack, slotOf, proc, accepted>>
  BY DEF BuildInputs, StartRun, StartWorkers, CollectWorkers, Aggregate, EndRun, workerVars,
         resetVars, simVars
<1>2. /\ lpc' \in LPcs \ {"start", "crashed"}
      /\ lpc \notin {"start", "crashed"}
      /\ lpc \in {"build", "method", "ended"} => specs = 0
      /\ lpc' \in {"build", "method", "ended"} => specs = 0
      /\ lpc' \in {"workers", "aggregate"} => specs = NWorkers
      /\ lpc' = "allocate" => specs = 0
  BY DEF BuildInputs, StartRun, StartWorkers, CollectWorkers, Aggregate, EndRun, NextScenario,
         RunFails, LaunchInv, CountsAgree, LPcs
<1>3. \/ wpc' = wpc /\ \A i \in Workers : wpc[i] \in Idle
      \/ wpc' = [i \in Workers |-> "none"]
      \/ /\ lpc = "allocate" /\ lpc' = "workers" /\ specs = NWorkers
         /\ wpc' = [i \in Workers |-> IF ShareOf(i) = <<>> THEN "done" ELSE "ensure"]
  <2>1. CASE BuildInputs \/ StartRun \/ Aggregate
    BY <2>1 DEF BuildInputs, StartRun, Aggregate, workerVars, LaunchInv, CountsAgree
  <2>2. CASE CollectWorkers
    BY <2>2 DEF CollectWorkers, workerVars, Idle
  <2>3. CASE StartWorkers \/ EndRun
    BY <2>3 DEF StartWorkers, EndRun
  <2> QED BY <2>1, <2>2, <2>3
<1>4. wpc' \in [Workers -> WPcs]
  BY <1>3 DEF LaunchInv, LaunchTypeOK, WPcs, Idle
<1>5. LaunchTypeOK'
  BY <1>1, <1>2, <1>4 DEF LaunchInv, LaunchTypeOK
<1>6. \A i \in Workers : Held(i)' <=> Held(i)
  BY <1>1, <1>2, Sizes DEF Held, LaunchInv, LaunchTypeOK, LPcs, Workers
<1>7. \A i \in Workers : wpc'[i] \notin Idle => lpc' = "workers"
  BY <1>3 DEF Idle
<1>8. CountsAgree'
  BY <1>1, <1>2, <1>6, <1>7 DEF LaunchInv, CountsAgree
<1>9. LocksAgree'
  BY <1>1, <1>2 DEF LaunchInv, LocksAgree
<1>10. StacksAgree'
  <2> SUFFICES ASSUME NEW i \in Workers
               PROVE  /\ ~(lpc' \in {"allocate", "start"} /\ i <= specs')
                      /\ wpc'[i] \in {"ensure", "case"} => Clean(slotOf[i])'
                      /\ wpc'[i] \notin {"reset", "status"}
    BY DEF StacksAgree
  <2>1. ~(lpc' \in {"allocate", "start"} /\ i <= specs')
    BY <1>1, <1>2, Sizes DEF Workers
  <2>2. wpc'[i] \notin {"case", "reset", "status"}
    BY <1>3 DEF Idle
  <2>3. wpc'[i] = "ensure" => lpc = "allocate" /\ specs = NWorkers
    BY <1>3 DEF Idle
  <2>4. wpc'[i] = "ensure" => Clean(slotOf[i])
    BY <2>3, Sizes DEF LaunchInv, StacksAgree, Workers
  <2> QED BY <1>1, <2>1, <2>2, <2>4 DEF Clean
<1> QED BY <1>5, <1>8, <1>9, <1>10 DEF LaunchInv

LEMMA AllocateKeeps ==
  ASSUME LaunchInv, AllocateWorker
  PROVE  LaunchInv'
<1>1. /\ lpc = "allocate" /\ specs + 1 \in Workers /\ specs < NWorkers /\ specs \in Nat
      /\ UNCHANGED <<specs, wpc, accepted, stack, proc>>
  BY Sizes DEF AllocateWorker, AllocateSlot, NoSlotLeft, workerVars, resetVars, LaunchInv,
               LaunchTypeOK, Workers
<1>2. CASE NoSlotLeft /\ RunFails
  <2>1. lpc' = "cleanup" /\ UNCHANGED slotOf
    BY <1>2 DEF NoSlotLeft, RunFails
  <2>2. lock' \in [Slots -> Locks] /\ \A s \in Slots : lock'[s] = "mine" <=> lock[s] = "mine"
    BY <1>2 DEF NoSlotLeft, Reclaimed, LaunchInv, LaunchTypeOK, Locks
  <2>3. LaunchTypeOK'
    BY <1>1, <2>1, <2>2 DEF LaunchInv, LaunchTypeOK, LPcs
  <2>4. CountsAgree'
    BY <1>1, <2>1 DEF LaunchInv, CountsAgree, Held
  <2>5. \A i \in Workers : slotOf[i] # 0 => slotOf[i] \in Slots
    BY Sizes DEF LaunchInv, LaunchTypeOK, Slots
  <2>6. LocksAgree'
    BY <1>1, <2>1, <2>2, <2>5 DEF LaunchInv, LocksAgree
  <2>7. StacksAgree'
    BY <1>1, <2>1 DEF LaunchInv, StacksAgree, CountsAgree, Idle
  <2> QED BY <2>3, <2>4, <2>6, <2>7 DEF LaunchInv
<1>3. CASE AllocateSlot(specs + 1) /\ lpc' = "start"
  <2>1. PICK s \in Slots :
           /\ Usable(s)
           /\ lock' = [Reclaimed(1 .. s - 1) EXCEPT ![s] = "mine"]
           /\ slotOf' = [slotOf EXCEPT ![specs + 1] = s]
    BY <1>3 DEF AllocateSlot
  <2>2. /\ lock' \in [Slots -> Locks]
        /\ lock[s] # "mine" /\ lock'[s] = "mine"
        /\ \A t \in Slots \ {s} : lock'[t] = "mine" <=> lock[t] = "mine"
    BY <2>1 DEF Usable, Reclaimed, LaunchInv, LaunchTypeOK, Locks
  <2>3. /\ slotOf' \in [Workers -> 0 .. NSlots]
        /\ slotOf'[specs + 1] = s
        /\ \A i \in Workers \ {specs + 1} : slotOf'[i] = slotOf[i]
    BY <1>1, <2>1, Sizes DEF LaunchInv, LaunchTypeOK, Slots
  <2>4. s # 0
    BY Sizes DEF Slots
  <2>5. LaunchTypeOK'
    BY <1>1, <1>3, <2>2, <2>3 DEF LaunchInv, LaunchTypeOK, LPcs
  <2>6. \A i \in Workers : Held(i)' <=> Held(i) \/ i = specs + 1
    BY <1>1, <1>3, Sizes DEF Held, Workers
  <2>7. CountsAgree'
    BY <1>1, <1>3, <2>3, <2>4, <2>6 DEF LaunchInv, CountsAgree
  <2>8. \A i \in Workers : slotOf[i] # 0 => slotOf[i] \in Slots /\ slotOf[i] # s
    BY <2>2, Sizes DEF LaunchInv, LaunchTypeOK, LocksAgree, Slots
  <2>9. slotOf[specs + 1] = 0
    BY <1>1 DEF LaunchInv, CountsAgree, Held
  <2>10. LocksAgree'
    <3>1. \A i \in Workers : slotOf'[i] # 0 => lock'[slotOf'[i]] = "mine"
      BY <2>2, <2>3, <2>8 DEF LaunchInv, LocksAgree
    <3>2. \A t \in Slots : lock'[t] = "mine" => \E i \in Workers : slotOf'[i] = t
      BY <1>1, <2>2, <2>3, <2>4, <2>9, Sizes DEF LaunchInv, LocksAgree, Slots
    <3>3. \A i, j \in Workers : i # j /\ slotOf'[i] # 0 => slotOf'[i] # slotOf'[j]
      BY <2>3, <2>4, <2>8 DEF LaunchInv, LocksAgree
    <3>4. \A i \in Workers : proc'[i] = "running" => slotOf'[i] # 0
      BY <1>1, <2>3, <2>4 DEF LaunchInv, LocksAgree
    <3> QED BY <3>1, <3>2, <3>3, <3>4 DEF LocksAgree
  <2>11. StacksAgree'
    <3> SUFFICES ASSUME NEW i \in Workers
                 PROVE  i <= specs => Clean(slotOf[i])'
      BY <1>1 DEF StacksAgree, LaunchInv, CountsAgree, Idle
    <3>1. i <= specs => slotOf'[i] = slotOf[i] /\ Clean(slotOf[i])
      BY <1>1, <2>3, Sizes DEF LaunchInv, StacksAgree, Workers
    <3> QED BY <1>1, <3>1 DEF Clean
  <2> QED BY <2>5, <2>7, <2>10, <2>11 DEF LaunchInv
<1> QED BY <1>2, <1>3 DEF AllocateWorker

LEMMA ReleasedShape ==
  ASSUME LaunchInv, NEW i \in Workers, slotOf[i] # 0, ReleaseSlot(i)
  PROVE  /\ lock' \in [Slots -> Locks]
         /\ slotOf' \in [Workers -> 0 .. NSlots]
         /\ slotOf'[i] = 0
         /\ \A j \in Workers \ {i} : slotOf'[j] = slotOf[j]
         /\ \A j \in Workers : slotOf'[j] # 0 => lock'[slotOf'[j]] = "mine"
         /\ \A s \in Slots : lock'[s] = "mine" => \E j \in Workers : slotOf'[j] = s
         /\ \A j, k \in Workers : j # k /\ slotOf'[j] # 0 => slotOf'[j] # slotOf'[k]
<1>1. slotOf[i] \in Slots
  BY Sizes DEF LaunchInv, LaunchTypeOK, Slots
<1>2. lock' \in [Slots -> Locks] /\ lock'[slotOf[i]] = "free"
      /\ \A s \in Slots \ {slotOf[i]} : lock'[s] = lock[s]
  BY <1>1 DEF ReleaseSlot, LaunchInv, LaunchTypeOK, Locks
<1>3. slotOf' \in [Workers -> 0 .. NSlots] /\ slotOf'[i] = 0
      /\ \A j \in Workers \ {i} : slotOf'[j] = slotOf[j]
  BY Sizes DEF ReleaseSlot, LaunchInv, LaunchTypeOK
<1>4. \A j \in Workers : slotOf'[j] # 0 =>
          slotOf[j] \in Slots \ {slotOf[i]} /\ slotOf'[j] = slotOf[j]
  BY <1>3, Sizes DEF LaunchInv, LaunchTypeOK, LocksAgree, Slots
<1>5. \A j \in Workers : slotOf'[j] # 0 => lock'[slotOf'[j]] = "mine"
  BY <1>2, <1>3, <1>4 DEF LaunchInv, LocksAgree
<1>6. \A s \in Slots : lock'[s] = "mine" => \E j \in Workers : slotOf'[j] = s
  <2> SUFFICES ASSUME NEW s \in Slots, lock'[s] = "mine"
               PROVE  \E j \in Workers : slotOf'[j] = s
    OBVIOUS
  <2>1. s # slotOf[i] /\ lock[s] = "mine"
    BY <1>2
  <2>2. PICK j \in Workers : slotOf[j] = s
    BY <2>1 DEF LaunchInv, LocksAgree
  <2> QED BY <1>3, <2>1, <2>2
<1>7. \A j, k \in Workers : j # k /\ slotOf'[j] # 0 => slotOf'[j] # slotOf'[k]
  BY <1>3, <1>4 DEF LaunchInv, LocksAgree
<1> QED BY <1>2, <1>3, <1>5, <1>6, <1>7

LEMMA StartKeeps ==
  ASSUME LaunchInv, StartSimulator
  PROVE  LaunchInv'
<1>1. /\ lpc = "start" /\ specs + 1 \in Workers /\ specs \in Nat /\ specs < NWorkers
      /\ UNCHANGED <<wpc, accepted>>
  BY Sizes DEF StartSimulator, workerVars, resetVars, LaunchInv, LaunchTypeOK, CountsAgree, Workers
<1>2. slotOf[specs + 1] # 0 /\ slotOf[specs + 1] \in Slots
  BY <1>1, Sizes DEF LaunchInv, LaunchTypeOK, CountsAgree, Held, Slots
<1>3. \A i \in Workers : wpc[i] \in Idle
  BY <1>1 DEF LaunchInv, CountsAgree
<1>4. CASE BootstrapReady(specs + 1) /\ specs' = specs + 1 /\ lpc' = "allocate"
           /\ UNCHANGED <<lock, slotOf>>
  <2>1. /\ proc' \in [Workers -> {"none", "running", "exited"}]
        /\ stack' \in [Slots -> Stacks]
        /\ \A s \in Slots \ {slotOf[specs + 1]} : stack'[s] = stack[s]
        /\ \A j \in Workers \ {specs + 1} : proc'[j] = proc[j]
        /\ stack'[slotOf[specs + 1]] = Fresh
    BY <1>1, <1>2, <1>4, StartedShape DEF LaunchInv
  <2>2. LaunchTypeOK'
    BY <1>1, <1>4, <2>1, Sizes DEF LaunchInv, LaunchTypeOK, LPcs
  <2>3. CountsAgree'
    BY <1>1, <1>3, <1>4 DEF LaunchInv, CountsAgree, Held
  <2>4. LocksAgree'
    BY <1>1, <1>2, <1>4, <2>1 DEF LaunchInv, LocksAgree
  <2>5. StacksAgree'
    <3> SUFFICES ASSUME NEW i \in Workers, i <= specs + 1
                 PROVE  Clean(slotOf[i])'
      BY <1>1, <1>3, <1>4 DEF StacksAgree, Idle
    <3>1. CASE i = specs + 1
      BY <1>4, <2>1, <3>1, StackKinds DEF Clean
    <3>2. CASE i # specs + 1
      <4>1. i <= specs
        BY <1>1, <3>2, Sizes DEF Workers
      <4>2. slotOf[i] # 0 /\ Clean(slotOf[i])
        BY <1>1, <4>1, Sizes DEF LaunchInv, StacksAgree, CountsAgree, Held, Workers
      <4>3. slotOf[i] \in Slots \ {slotOf[specs + 1]}
        BY <1>1, <3>2, <4>2, Sizes DEF LaunchInv, LocksAgree, LaunchTypeOK, Slots
      <4> QED BY <1>4, <2>1, <4>2, <4>3 DEF Clean
    <3> QED BY <3>1, <3>2
  <2> QED BY <2>2, <2>3, <2>4, <2>5 DEF LaunchInv
<1>5. CASE BootstrapFails(specs + 1) /\ ReleaseSlot(specs + 1) /\ lpc' = "cleanup" /\ specs' = specs
  <2>1. /\ proc' \in [Workers -> {"none", "running", "exited"}]
        /\ stack' \in [Slots -> Stacks]
        /\ \A j \in Workers \ {specs + 1} : proc'[j] = proc[j]
        /\ proc'[specs + 1] = "none"
    BY <1>1, <1>2, <1>5, StartedShape DEF LaunchInv
  <2>2. /\ lock' \in [Slots -> Locks]
        /\ slotOf' \in [Workers -> 0 .. NSlots]
        /\ slotOf'[specs + 1] = 0
        /\ \A j \in Workers \ {specs + 1} : slotOf'[j] = slotOf[j]
    BY <1>1, <1>2, <1>5, ReleasedShape
  <2>3. LaunchTypeOK'
    BY <1>1, <1>5, <2>1, <2>2 DEF LaunchInv, LaunchTypeOK, LPcs
  <2>4. \A i \in Workers : Held(i)' <=> Held(i) /\ i # specs + 1
    BY <1>1, <1>5, Sizes DEF Held, Workers
  <2>5. CountsAgree'
    BY <1>1, <1>3, <1>5, <2>2, <2>4 DEF LaunchInv, CountsAgree
  <2>6. \A i \in Workers : proc'[i] = "running" => slotOf'[i] # 0
    BY <1>1, <2>1, <2>2 DEF LaunchInv, LocksAgree
  <2>7. LocksAgree'
    BY <1>1, <1>2, <1>5, <2>6, ReleasedShape DEF LocksAgree
  <2>8. StacksAgree'
    BY <1>1, <1>3, <1>5 DEF StacksAgree, Idle
  <2> QED BY <2>3, <2>5, <2>7, <2>8 DEF LaunchInv
<1> QED BY <1>4, <1>5 DEF StartSimulator, RunFails

LEMMA StopWorkerKeeps ==
  ASSUME LaunchInv, StopWorker
  PROVE  LaunchInv'
<1>1. /\ lpc = "cleanup" /\ specs \in Workers /\ specs \in Nat
      /\ ReleaseSlot(specs) /\ UNCHANGED <<wpc, accepted>>
      /\ \/ StopProcess(specs) /\ specs' = specs - 1 /\ lpc' = "cleanup"
         \/ StopSticks(specs) /\ lpc' = "crashed" /\ specs' = specs
  BY Sizes DEF StopWorker, workerVars, resetVars, LaunchInv, LaunchTypeOK, Workers
<1>2. slotOf[specs] # 0 /\ slotOf[specs] \in Slots
  BY <1>1, Sizes DEF LaunchInv, LaunchTypeOK, CountsAgree, Held, Slots
<1>3. \A i \in Workers : wpc[i] \in Idle
  BY <1>1 DEF LaunchInv, CountsAgree
<1>4. /\ proc' \in [Workers -> {"none", "running", "exited"}]
      /\ stack' \in [Slots -> Stacks]
      /\ \A j \in Workers \ {specs} : proc'[j] = proc[j]
      /\ StopProcess(specs) => proc'[specs] = "none"
  BY <1>1, <1>2, StoppedShape DEF LaunchInv
<1>5. /\ lock' \in [Slots -> Locks]
      /\ slotOf' \in [Workers -> 0 .. NSlots]
      /\ slotOf'[specs] = 0
      /\ \A j \in Workers \ {specs} : slotOf'[j] = slotOf[j]
  BY <1>1, <1>2, ReleasedShape
<1>6. LaunchTypeOK'
  BY <1>1, <1>4, <1>5, Sizes DEF LaunchInv, LaunchTypeOK, LPcs, Workers
<1>7. \A i \in Workers : Held(i)' <=> Held(i) /\ i # specs
  BY <1>1, Sizes DEF Held, Workers
<1>8. CountsAgree'
  BY <1>1, <1>3, <1>5, <1>7 DEF LaunchInv, CountsAgree
<1>9. lpc' # "crashed" => \A i \in Workers : proc'[i] = "running" => slotOf'[i] # 0
  BY <1>1, <1>4, <1>5 DEF LaunchInv, LocksAgree
<1>10. LocksAgree'
  BY <1>1, <1>2, <1>9, ReleasedShape DEF LocksAgree
<1>11. StacksAgree'
  BY <1>1, <1>3 DEF StacksAgree, Idle
<1> QED BY <1>6, <1>8, <1>10, <1>11 DEF LaunchInv

(* A simulator that exits or finishes a reset makes no stack less clean.    *)
LEMMA SimulatorKeeps ==
  ASSUME LaunchInv, SimulatorStep
  PROVE  LaunchInv'
<1>1. UNCHANGED <<lpc, specs, wpc, accepted, lock, slotOf>> /\ lpc # "crashed"
  BY DEF SimulatorStep, SimulatorExits, ResetProceeds, mainVars, workerVars, resetVars
<1>2. /\ stack' \in [Slots -> Stacks]
      /\ proc' \in [Workers -> {"none", "running", "exited"}]
      /\ \A i \in Workers : proc'[i] = "running" => proc[i] = "running"
      /\ \A s \in Slots : /\ Clean(s) => Clean(s)'
                          /\ stack'[s].phase = "completed" =>
                                ~stack'[s].dirty \/ (stack[s].phase = "completed" /\ stack[s].dirty)
  <2>1. CASE \E i \in Workers : SimulatorExits(i)
    <3>1. PICK i \in Workers : SimulatorExits(i)
      BY <2>1
    <3>2. PICK up \in BOOLEAN : stack' = [stack EXCEPT ![slotOf[i]].up = up /\ @]
      BY <3>1 DEF SimulatorExits
    <3>3. slotOf[i] \in Slots
      BY <1>1, <3>1, Sizes DEF SimulatorExits, LaunchInv, LaunchTypeOK, LocksAgree, Slots
    <3>4. stack \in [Slots -> Stacks]
      BY DEF LaunchInv, LaunchTypeOK
    <3> DEFINE left == up /\ stack[slotOf[i]].up
    <3>5. left \in BOOLEAN
      BY <3>3, <3>4 DEF Stacks
    <3>6. stack' = [stack EXCEPT ![slotOf[i]].up = left]
      BY <3>2
    <3> HIDE DEF left
    <3>7. stack' \in [Slots -> Stacks]
      BY <3>3, <3>4, <3>5, <3>6 DEF Stacks
    <3>8. \A s \in Slots : stack'[s].dirty = stack[s].dirty /\ stack'[s].phase = stack[s].phase
      BY <3>3, <3>4, <3>6 DEF Stacks
    <3>9. proc' = [proc EXCEPT ![i] = "exited"]
      BY <3>1 DEF SimulatorExits
    <3> QED BY <3>7, <3>8, <3>9 DEF Clean, LaunchInv, LaunchTypeOK
  <2>2. CASE \E i \in Workers : slotOf[i] # 0 /\ ResetProceeds(slotOf[i])
    <3>1. PICK i \in Workers : slotOf[i] # 0 /\ ResetProceeds(slotOf[i])
      BY <2>2
    <3>2. slotOf[i] \in Slots
      BY <3>1, Sizes DEF LaunchInv, LaunchTypeOK, Slots
    <3>3. stack[slotOf[i]].phase = "active" /\ ResetStack(slotOf[i]) /\ proc' = proc
      BY <3>1 DEF ResetProceeds
    <3>4. /\ stack' \in [Slots -> Stacks]
          /\ \A r \in Slots \ {slotOf[i]} : stack'[r] = stack[r]
          /\ stack'[slotOf[i]].phase = "completed" => ~stack'[slotOf[i]].dirty
      BY <3>2, <3>3, ResetShape DEF LaunchInv
    <3> QED BY <3>2, <3>3, <3>4 DEF Clean, LaunchInv, LaunchTypeOK
  <2> QED BY <2>1, <2>2 DEF SimulatorStep
<1>3. LaunchTypeOK'
  BY <1>1, <1>2 DEF LaunchInv, LaunchTypeOK
<1>4. CountsAgree'
  BY <1>1 DEF LaunchInv, CountsAgree, Held
<1>5. LocksAgree'
  BY <1>1, <1>2 DEF LaunchInv, LocksAgree
<1>6. StacksAgree'
  <2> SUFFICES ASSUME NEW i \in Workers
               PROVE  /\ lpc' \in {"allocate", "start"} /\ i <= specs' => Clean(slotOf[i])'
                      /\ wpc'[i] \in {"ensure", "case"} => Clean(slotOf[i])'
                      /\ wpc'[i] \in {"reset", "status"} /\ accepted'[i]
                            /\ stack'[slotOf'[i]].phase = "completed" => ~stack'[slotOf'[i]].dirty
    BY DEF StacksAgree
  <2>1. CASE slotOf[i] \in Slots
    <3>1. Clean(slotOf[i]) => Clean(slotOf[i])'
      BY <1>1, <1>2, <2>1 DEF Clean
    <3>2. (lpc \in {"allocate", "start"} /\ i <= specs) \/ wpc[i] \in {"ensure", "case"}
             => Clean(slotOf[i])
      BY DEF LaunchInv, StacksAgree
    <3>3. wpc[i] \in {"reset", "status"} /\ accepted[i] /\ stack[slotOf[i]].phase = "completed"
             => ~stack[slotOf[i]].dirty
      BY DEF LaunchInv, StacksAgree
    <3> QED BY <1>1, <1>2, <2>1, <3>1, <3>2, <3>3
  <2>2. CASE slotOf[i] \notin Slots
    <3>1. slotOf[i] = 0
      BY <2>2, Sizes DEF LaunchInv, LaunchTypeOK, Slots
    <3>2. ~Held(i)
      BY <3>1 DEF LaunchInv, CountsAgree
    <3>3. ~(lpc \in {"allocate", "start"} /\ i <= specs) /\ lpc # "workers"
      BY <3>2, Sizes DEF Held, LaunchInv, LaunchTypeOK, CountsAgree, Workers
    <3>4. wpc[i] \in Idle
      BY <3>3 DEF LaunchInv, CountsAgree
    <3> QED BY <1>1, <3>3, <3>4 DEF Idle
  <2> QED BY <2>1, <2>2
<1> QED BY <1>3, <1>4, <1>5, <1>6 DEF LaunchInv

-------------------------------------------------------------------------------
(* The inductive invariant: counts, locks, processes and the state of the   *)
(* stacks agree through every failure of main, workers and simulators.      *)
THEOREM LauncherInvariant == LaunchSpec => []LaunchInv
<1>1. LaunchInv /\ [LaunchNext]_launchVars => LaunchInv'
  <2> SUFFICES ASSUME LaunchInv, [LaunchNext]_launchVars
               PROVE  LaunchInv'
    OBVIOUS
  <2>1. CASE LauncherStep
    BY <2>1, MainKeeps, AllocateKeeps, StartKeeps, StopWorkerKeeps DEF LauncherStep
  <2>2. CASE \E i \in Workers : WorkerStep(i)
    BY <2>2, EnsureKeeps, StopKeeps, StartAgainKeeps, CaseKeeps, RequestKeeps, StatusKeeps
       DEF WorkerStep
  <2>3. CASE SimulatorStep
    BY <2>3, SimulatorKeeps
  <2>4. CASE LaunchEnded \/ UNCHANGED launchVars
    <3>1. UNCHANGED <<lpc, specs, wpc, accepted, lock, stack, slotOf, proc>>
      BY <2>4 DEF LaunchEnded, launchVars, mainVars, workerVars, resetVars, simVars
    <3> QED BY <3>1 DEF LaunchInv, LaunchTypeOK, CountsAgree, LocksAgree, StacksAgree, Held, Clean
  <2> QED BY <2>1, <2>2, <2>3, <2>4 DEF LaunchNext
<1> QED BY <1>1, InitLaunchInv, PTL DEF LaunchSpec

(* Simulators run on slots their workers hold, workers share none, and      *)
(* between runs nothing is held or running (SlotsFollowSimulators).         *)
THEOREM SlotsFollowSimulatorsHolds == LaunchSpec => []SlotsFollowSimulators
<1>1. LaunchInv => SlotsFollowSimulators
  <2> SUFFICES ASSUME LaunchInv
               PROVE  SlotsFollowSimulators
    OBVIOUS
  <2>1. lpc # "crashed" =>
           \A i \in Workers : proc[i] = "running" => slotOf[i] # 0 /\ lock[slotOf[i]] = "mine"
    BY DEF LaunchInv, LocksAgree
  <2>2. \A i, j \in Workers : i # j /\ slotOf[i] # 0 => slotOf[i] # slotOf[j]
    BY DEF LaunchInv, LocksAgree
  <2>3. ASSUME lpc \in {"build", "method", "ended"}
        PROVE  \A i \in Workers : slotOf[i] = 0
    BY <2>3 DEF LaunchInv, CountsAgree, Held
  <2>4. ASSUME lpc \in {"build", "method", "ended"}
        PROVE  /\ \A s \in Slots : lock[s] # "mine"
               /\ \A i \in Workers : proc[i] # "running"
    BY <2>3, <2>4, Sizes DEF LaunchInv, LocksAgree, Slots
  <2> QED BY <2>1, <2>2, <2>4 DEF SlotsFollowSimulators
<1> QED BY <1>1, LauncherInvariant, PTL

(* A case begins on a simulator that is clean and not being reset           *)
(* (CaseStartsClean).                                                       *)
THEOREM CaseStartsCleanHolds == LaunchSpec => []CaseStartsClean
<1>1. LaunchInv => CaseStartsClean
  BY DEF LaunchInv, StacksAgree, Clean, CaseStartsClean
<1> QED BY <1>1, LauncherInvariant, PTL

-------------------------------------------------------------------------------
(* The ledger.  Everything before the run main is at has been recorded, and *)
(* that run itself once it has ended one way or the other.                  *)
Before(r) == r[1] < at[1] \/ (r[1] = at[1] /\ r[2] < at[2])

LedgerInv ==
    /\ at \in Planned
    /\ lpc \in LPcs
    /\ lpc = "build" => at[2] = 1
    /\ lpc \in {"aggregate", "cleanup"} => Recorded(at)
    /\ \A r \in Planned : Before(r) => Recorded(r)
    /\ EveryRunRecorded

LEMMA PlannedShape ==
  /\ Len(Matrix) \in Nat \ {0} /\ DOMAIN Matrix = 1 .. Len(Matrix)
  /\ \A k \in DOMAIN Matrix : /\ Len(Matrix[k].methods) \in Nat \ {0}
                             /\ DOMAIN Matrix[k].methods = 1 .. Len(Matrix[k].methods)
  /\ \A k, m \in Nat : <<k, m>> \in Planned <=>
        k \in 1 .. Len(Matrix) /\ m \in 1 .. Len(Matrix[k].methods)
  /\ \A r \in Planned : r = <<r[1], r[2]>> /\ r[1] \in 1 .. Len(Matrix)
                        /\ r[2] \in 1 .. Len(Matrix[r[1]].methods)
<1>1. Len(Matrix) \in Nat \ {0} /\ DOMAIN Matrix = 1 .. Len(Matrix)
  BY LauncherAssumption
<1>2. ASSUME NEW k \in DOMAIN Matrix
      PROVE  /\ Len(Matrix[k].methods) \in Nat \ {0}
             /\ DOMAIN Matrix[k].methods = 1 .. Len(Matrix[k].methods)
  <2> DEFINE Scenarios == [cases : Seq(Nat), methods : Seq(Kinds)]
  <2>1. Matrix \in Seq(Scenarios) /\ k \in 1 .. Len(Matrix)
    BY <1>1, LauncherAssumption
  <2> HIDE DEF Scenarios
  <2>2. Matrix[k] \in Scenarios
    BY <2>1
  <2> USE DEF Scenarios
  <2>3. Matrix[k].methods \in Seq(Kinds)
    BY <2>2
  <2>4. Matrix[k].methods # <<>>
    BY LauncherAssumption
  <2> QED BY <2>3, <2>4
<1>3. \A r : r \in Planned <=> \E k \in DOMAIN Matrix : r \in {k} \X DOMAIN Matrix[k].methods
  BY DEF Planned
<1>4. \A k, m \in Nat : <<k, m>> \in Planned <=>
        k \in 1 .. Len(Matrix) /\ m \in 1 .. Len(Matrix[k].methods)
  BY <1>1, <1>2, <1>3
<1>5. \A r \in Planned : r = <<r[1], r[2]>> /\ r[1] \in 1 .. Len(Matrix)
                        /\ r[2] \in 1 .. Len(Matrix[r[1]].methods)
  BY <1>1, <1>2, <1>3
<1> QED BY <1>1, <1>2, <1>4, <1>5

(* The next scenario is begun, or the end reached, when this one is done.   *)
LEMMA ScenarioDone ==
  ASSUME LedgerInv, NextScenario, successful \cup failed \subseteq (successful \cup failed)',
         \A r \in Planned : r[1] = at[1] => Recorded(r)'
  PROVE  LedgerInv'
<1>1. at[1] \in 1 .. Len(Matrix) /\ at[2] \in 1 .. Len(Matrix[at[1]].methods)
  BY PlannedShape DEF LedgerInv
<1>2. \A r \in Planned : Recorded(r) => Recorded(r)'
  BY DEF Recorded
<1>3. \A r \in Planned : r[1] <= at[1] => Recorded(r)'
  <2> SUFFICES ASSUME NEW r \in Planned, r[1] <= at[1]
               PROVE  Recorded(r)'
    OBVIOUS
  <2>1. r = <<r[1], r[2]>> /\ r[1] \in Nat /\ r[2] \in 1 .. Len(Matrix[r[1]].methods)
    BY PlannedShape
  <2>2. CASE r[1] = at[1]
    BY <2>2
  <2>3. CASE r[1] < at[1]
    BY <1>2, <2>3 DEF LedgerInv, Before
  <2> QED BY <1>1, <2>1, <2>2, <2>3
<1>4. CASE at[1] = Len(Matrix) /\ lpc' = "ended" /\ at' = at
  <2>1. \A r \in Planned : Recorded(r)'
    BY <1>3, <1>4, PlannedShape
  <2> QED BY <1>4, <2>1 DEF LedgerInv, EveryRunRecorded, LPcs
<1>5. CASE at[1] # Len(Matrix) /\ lpc' = "build" /\ at' = <<at[1] + 1, 1>>
  <2>1. at[1] + 1 \in 1 .. Len(Matrix)
    BY <1>1, <1>5, PlannedShape
  <2>2. at' \in Planned
    BY <1>5, <2>1, PlannedShape
  <2>3. \A r \in Planned : Before(r)' => r[1] <= at[1]
    BY <1>1, <1>5, PlannedShape DEF Before
  <2> QED BY <1>3, <1>5, <2>2, <2>3 DEF LedgerInv, EveryRunRecorded, LPcs
<1> QED BY <1>4, <1>5 DEF NextScenario

(* A record is never taken back; where main stays at its run and has not    *)
(* reached its end, that is all there is to show.                           *)
LEMMA RunGoesOn ==
  ASSUME LedgerInv, at' = at, successful \cup failed \subseteq (successful \cup failed)',
         lpc' \in LPcs \ {"build", "ended", "aggregate", "cleanup"} \/ lpc' = lpc
             \/ (lpc' \in {"aggregate", "cleanup", "crashed"}
                 /\ (Recorded(at) \/ at \in (successful \cup failed)'))
  PROVE  LedgerInv'
<1>1. \A r \in Planned : Recorded(r) => Recorded(r)'
  BY DEF Recorded
<1>2. \A r \in Planned : Before(r)' => Before(r)
  BY DEF Before
<1>3. Recorded(at) \/ at \in (successful \cup failed)' => Recorded(at)'
  BY DEF Recorded
<1>4. lpc' = lpc /\ EveryRunRecorded => EveryRunRecorded'
  BY <1>1 DEF EveryRunRecorded
<1>5. lpc' # "ended" => EveryRunRecorded'
  BY DEF EveryRunRecorded
<1>6. lpc' = lpc /\ lpc \in {"aggregate", "cleanup"} => Recorded(at)'
  BY <1>1 DEF LedgerInv
<1> QED BY <1>1, <1>2, <1>3, <1>4, <1>5, <1>6 DEF LedgerInv, LPcs

LEMMA BuildInputsLedger == ASSUME LedgerInv, BuildInputs PROVE LedgerInv'
<1>1. CASE lpc' = "method" /\ UNCHANGED <<at, failed>>
  BY <1>1, RunGoesOn DEF BuildInputs, LPcs
<1>2. CASE NextScenario /\ failed' = failed \cup {<<at[1], 0>>}
  <2>1. \A r \in Planned : r[1] = at[1] => Recorded(r)'
    BY <1>2 DEF Recorded
  <2>2. successful \cup failed \subseteq (successful \cup failed)'
    BY <1>2 DEF BuildInputs
  <2> QED BY <1>2, <2>1, <2>2, ScenarioDone
<1> QED BY <1>1, <1>2 DEF BuildInputs

LEMMA EndRunLedger == ASSUME LedgerInv, EndRun PROVE LedgerInv'
<1>1. at[1] \in 1 .. Len(Matrix) /\ at[2] \in 1 .. Len(Matrix[at[1]].methods)
      /\ at = <<at[1], at[2]>>
  BY PlannedShape DEF LedgerInv
<1>2. Recorded(at)
  BY DEF LedgerInv, EndRun
<1>3. \A r \in Planned : Recorded(r) => Recorded(r)'
  BY DEF EndRun, Recorded
<1>4. \A r \in Planned : r[1] = at[1] /\ r[2] <= at[2] => Recorded(r)'
  <2> SUFFICES ASSUME NEW r \in Planned, r[1] = at[1], r[2] <= at[2]
               PROVE  Recorded(r)'
    OBVIOUS
  <2>1. r = <<r[1], r[2]>> /\ r[2] \in Nat
    BY PlannedShape, <1>1
  <2>2. r = at \/ Before(r)
    BY <1>1, <2>1 DEF Before
  <2> QED BY <1>2, <1>3, <2>2 DEF LedgerInv
<1>5. CASE /\ at[2] < Len(Matrix[at[1]].methods)
           /\ at' = <<at[1], at[2] + 1>>
           /\ lpc' = "method"
  <2>1. at' \in Planned
    BY <1>1, <1>5, PlannedShape
  <2>2. \A r \in Planned : Before(r)' => Before(r) \/ (r[1] = at[1] /\ r[2] <= at[2])
    BY <1>1, <1>5, PlannedShape DEF Before
  <2> QED BY <1>3, <1>4, <1>5, <2>1, <2>2 DEF LedgerInv, EveryRunRecorded, LPcs
<1>6. CASE at[2] = Len(Matrix[at[1]].methods) /\ NextScenario
  <2>1. \A r \in Planned : r[1] = at[1] => Recorded(r)'
    BY <1>4, <1>6, PlannedShape
  <2>2. successful \cup failed \subseteq (successful \cup failed)'
    BY DEF EndRun
  <2> QED BY <1>6, <2>1, <2>2, ScenarioDone
<1> QED BY <1>5, <1>6 DEF EndRun

LEMMA LedgerNext == ASSUME LedgerInv, [LaunchNext]_launchVars PROVE LedgerInv'
<1>1. CASE BuildInputs
  BY <1>1, BuildInputsLedger
<1>2. CASE StartRun
  BY <1>2, RunGoesOn DEF StartRun, RunFails, LPcs
<1>3. CASE AllocateWorker
  BY <1>3, RunGoesOn DEF AllocateWorker, RunFails, LPcs
<1>4. CASE StartSimulator
  BY <1>4, RunGoesOn DEF StartSimulator, RunFails, LPcs
<1>5. CASE StartWorkers
  BY <1>5, RunGoesOn DEF StartWorkers, LPcs
<1>6. CASE CollectWorkers
  BY <1>6, RunGoesOn DEF CollectWorkers, RunFails, LPcs
<1>7. CASE Aggregate
  <2>1. Recorded(at)
    BY <1>7 DEF Aggregate, LedgerInv
  <2> QED BY <1>7, <2>1, RunGoesOn DEF Aggregate, RunFails, LPcs
<1>8. CASE StopWorker
  BY <1>8, RunGoesOn DEF StopWorker, LPcs
<1>9. CASE EndRun
  BY <1>9, EndRunLedger
<1>10. CASE UNCHANGED mainVars
  BY <1>10, RunGoesOn DEF mainVars
<1>11. (\E i \in Workers : WorkerStep(i)) => UNCHANGED mainVars
  BY DEF WorkerStep, EnsureRunning, StopForRestart, StartAgain, RunCase, RebuildFails,
         RequestReset, ReadStatus
<1>12. SimulatorStep \/ LaunchEnded \/ UNCHANGED launchVars => UNCHANGED mainVars
  BY DEF SimulatorStep, LaunchEnded, launchVars
<1> QED BY <1>1, <1>2, <1>3, <1>4, <1>5, <1>6, <1>7, <1>8, <1>9, <1>10, <1>11, <1>12
        DEF LaunchNext, LauncherStep

(* Main's place in the matrix tells which runs are recorded, for every      *)
(* matrix and number of workers.                                            *)
THEOREM LedgerInvariant == LaunchSpec => []LedgerInv
<1>1. LaunchInit => LedgerInv
  <2> SUFFICES ASSUME LaunchInit PROVE LedgerInv
    OBVIOUS
  <2> DEFINE methods == Matrix[1].methods
  <2>1. at \in Planned
    <3>1. 1 \in DOMAIN Matrix /\ Len(methods) \in Nat \ {0}
      BY PlannedShape
    <3>2. 1 \in 1 .. Len(Matrix) /\ 1 \in 1 .. Len(methods)
      BY <3>1, PlannedShape
    <3>3. <<1, 1>> \in Planned
      BY <3>2, PlannedShape
    <3> QED BY <3>3 DEF LaunchInit
  <2>2. \A r \in Planned : ~Before(r)
    BY PlannedShape DEF LaunchInit, Before
  <2> QED BY <2>1, <2>2 DEF LaunchInit, LedgerInv, EveryRunRecorded, LPcs
<1>2. LedgerInv /\ [LaunchNext]_launchVars => LedgerInv'
  BY LedgerNext
<1> QED BY <1>1, <1>2, PTL DEF LaunchSpec

(* No run of the matrix goes unrecorded (main, launch_experiments.py).      *)
THEOREM EveryRunRecordedHolds == LaunchSpec => []EveryRunRecorded
<1>1. LedgerInv => EveryRunRecorded
  BY DEF LedgerInv
<1> QED BY <1>1, LedgerInvariant, PTL

-------------------------------------------------------------------------------
(* The arithmetic of the shares: block after block, without gap or overlap. *)
LEMMA Quotient ==
  ASSUME NEW n \in Nat, NEW d \in Nat \ {0}
  PROVE  /\ n \div d \in Nat /\ n % d \in 0 .. d - 1
         /\ n = d * (n \div d) + (n % d)
  OBVIOUS

LEMMA Blocks ==
  ASSUME NEW n \in Nat
  PROVE  /\ \A i \in Workers : CountOf(i, n) \in Nat /\ FirstOf(i, n) \in Nat \ {0}
         /\ FirstOf(1, n) = 1
         /\ \A i \in Workers : i < NWorkers => FirstOf(i + 1, n) = FirstOf(i, n) + CountOf(i, n)
         /\ FirstOf(NWorkers, n) + CountOf(NWorkers, n) = n + 1
<1> DEFINE q == n \div NWorkers
           r == n % NWorkers
<1>1. NWorkers \in Nat \ {0}
  BY SimulatorAssumption
<1>2. q \in Nat /\ r \in Nat /\ r < NWorkers /\ n = NWorkers * q + r
  BY <1>1, Quotient
<1>3. \A i : CountOf(i, n) = q + (IF i <= r THEN 1 ELSE 0)
  BY DEF CountOf
<1>4. \A i : FirstOf(i, n) = 1 + (i - 1) * q + (IF i - 1 < r THEN i - 1 ELSE r)
  BY DEF FirstOf
<1> HIDE DEF q, r
<1>5. \A i \in Nat \ {0} : (i - 1) * q \in Nat /\ i * q = (i - 1) * q + q
  BY <1>2
<1>6. ASSUME NEW i \in Workers
      PROVE  CountOf(i, n) \in Nat /\ FirstOf(i, n) \in Nat \ {0}
  <2>1. i \in Nat \ {0}
    BY <1>1 DEF Workers
  <2>2. PICK p \in Nat : p = (i - 1) * q
    BY <1>5, <2>1
  <2>3. FirstOf(i, n) = 1 + p + (IF i - 1 < r THEN i - 1 ELSE r)
    BY <1>4, <2>2
  <2> QED BY <1>2, <1>3, <2>1, <2>2, <2>3
<1>7. FirstOf(1, n) = 1
  <2>1. (1 - 1) * q = 0
    BY <1>2
  <2> QED BY <1>2, <1>4, <2>1
<1>8. ASSUME NEW i \in Workers, i < NWorkers
      PROVE  FirstOf(i + 1, n) = FirstOf(i, n) + CountOf(i, n)
  <2>1. i \in Nat \ {0} /\ (i + 1) - 1 = i
    BY <1>1 DEF Workers
  <2>2. PICK p \in Nat : p = (i - 1) * q /\ i * q = p + q
    BY <1>5, <2>1
  <2>3. FirstOf(i, n) = 1 + p + (IF i - 1 < r THEN i - 1 ELSE r)
    BY <1>4, <2>2
  <2>4. FirstOf(i + 1, n) = 1 + i * q + (IF i < r THEN i ELSE r)
    BY <1>4, <2>1
  <2> QED BY <1>2, <1>3, <2>1, <2>2, <2>3, <2>4
<1>9. FirstOf(NWorkers, n) + CountOf(NWorkers, n) = n + 1
  <2>1. PICK p \in Nat : p = (NWorkers - 1) * q /\ NWorkers * q = p + q
    BY <1>1, <1>5
  <2>2. FirstOf(NWorkers, n) = 1 + p + (IF NWorkers - 1 < r THEN NWorkers - 1 ELSE r)
    BY <1>4, <2>1
  <2>3. FirstOf(NWorkers, n) = 1 + p + r /\ CountOf(NWorkers, n) = q
    BY <1>1, <1>2, <1>3, <2>1, <2>2
  <2>4. n = p + q + r
    BY <1>2, <2>1
  <2> QED BY <1>2, <2>1, <2>3, <2>4
<1> QED BY <1>6, <1>7, <1>8, <1>9

LEMMA BlocksInOrder ==
  ASSUME NEW n \in Nat, NEW i \in Workers, NEW j \in Workers, i < j
  PROVE  FirstOf(i, n) + CountOf(i, n) <= FirstOf(j, n)
<1>1. NWorkers \in Nat \ {0} /\ i \in Nat \ {0} /\ j \in Nat \ {0}
  BY SimulatorAssumption DEF Workers
<1> DEFINE Good == {d \in Nat : i + 1 + d <= NWorkers
                                  => FirstOf(i, n) + CountOf(i, n) <= FirstOf(i + 1 + d, n)}
<1>2. 0 \in Good
  <2>1. i + 1 <= NWorkers => FirstOf(i + 1, n) = FirstOf(i, n) + CountOf(i, n)
    BY <1>1, Blocks
  <2>2. FirstOf(i, n) \in Nat /\ CountOf(i, n) \in Nat
    BY Blocks
  <2>3. i + 1 + 0 = i + 1
    BY <1>1
  <2> QED BY <2>1, <2>2, <2>3
<1>3. ASSUME NEW d \in Nat, d \in Good
      PROVE  d + 1 \in Good
  <2>1. ASSUME i + 1 + (d + 1) <= NWorkers
        PROVE  FirstOf(i, n) + CountOf(i, n) <= FirstOf(i + 1 + (d + 1), n)
    <3>1. PICK k \in Workers : k = i + 1 + d /\ k < NWorkers /\ k + 1 = i + 1 + (d + 1)
      BY <1>1, <2>1 DEF Workers
    <3>2. FirstOf(i, n) + CountOf(i, n) <= FirstOf(k, n)
      BY <1>1, <1>3, <3>1
    <3>3. FirstOf(k + 1, n) = FirstOf(k, n) + CountOf(k, n)
      BY <3>1, Blocks
    <3>4. /\ FirstOf(i, n) \in Nat /\ CountOf(i, n) \in Nat
          /\ FirstOf(k, n) \in Nat /\ CountOf(k, n) \in Nat
      BY Blocks
    <3>5. FirstOf(i, n) + CountOf(i, n) <= FirstOf(k + 1, n)
      BY <3>2, <3>3, <3>4
    <3> QED BY <3>1, <3>5
  <2> QED BY <2>1
<1>4. Nat \subseteq Good
  <2> HIDE DEF Good
  <2> QED BY <1>2, <1>3, EveryNumber
<1>5. PICK d \in Nat : j = i + 1 + d
  <2>1. j - (i + 1) \in Nat /\ j = i + 1 + (j - (i + 1))
    BY <1>1
  <2> QED BY <2>1
<1>6. j <= NWorkers
  BY DEF Workers
<1> QED BY <1>4, <1>5, <1>6

(* Every number up to n falls into one block.                               *)
LEMMA BlocksCover ==
  ASSUME NEW n \in Nat, NEW k \in 1 .. n
  PROVE  \E i \in Workers : FirstOf(i, n) <= k /\ k < FirstOf(i, n) + CountOf(i, n)
<1>1. NWorkers \in Nat \ {0}
  BY SimulatorAssumption
<1> DEFINE Begun == {i \in Workers : FirstOf(i, n) <= k}
<1>2. Begun \subseteq 0 .. NWorkers /\ Begun # {}
  <2>1. 1 \in Begun
    BY <1>1, Blocks DEF Workers
  <2> QED BY <1>1, <2>1 DEF Workers
<1>3. PICK i \in Begun : \A j \in Begun : j <= i
  <2> HIDE DEF Begun
  <2> QED BY <1>1, <1>2, GreatestBelow
<1>4. i \in Workers /\ i \in Nat /\ i <= NWorkers /\ k \in Nat /\ k <= n
  BY <1>1 DEF Workers
<1>5. CASE i = NWorkers
  <2>1. FirstOf(i, n) + CountOf(i, n) = n + 1
    BY <1>5, Blocks
  <2> QED BY <1>3, <1>4, <2>1
<1>6. CASE i < NWorkers
  <2>1. i + 1 \in Workers /\ ~ (i + 1 <= i)
    BY <1>1, <1>4, <1>6 DEF Workers
  <2>2. ~ (FirstOf(i + 1, n) <= k)
    BY <1>3, <2>1
  <2>3. FirstOf(i + 1, n) = FirstOf(i, n) + CountOf(i, n)
    BY <1>4, <1>6, Blocks
  <2>4. FirstOf(i + 1, n) \in Nat
    BY <2>1, Blocks
  <2> QED BY <1>3, <1>4, <2>2, <2>3, <2>4
<1> QED BY <1>1, <1>4, <1>5, <1>6
(* A list of places that rises and leaves none of the n places out has each *)
(* in its own.                                                              *)
RisesOnto(g, m, n) ==
    /\ g \in [1 .. m -> 1 .. n]
    /\ \A j, k \in 1 .. m : j < k => g[j] < g[k]
    /\ \A p \in 1 .. n : \E k \in 1 .. m : g[k] = p

LEMMA RisingOnto ==
  ASSUME NEW n \in Nat, NEW m \in Nat, NEW g, RisesOnto(g, m, n)
  PROVE  m = n /\ \A k \in 1 .. m : g[k] = k
<1> USE DEF RisesOnto
<1>0. \A k \in 1 .. m : k \in Nat /\ g[k] \in Nat /\ 1 <= g[k] /\ g[k] <= n
  OBVIOUS
<1>1. \A k \in 1 .. m : g[k] = k
  <2> DEFINE Off == {k \in 1 .. m : g[k] # k}
  <2> SUFFICES ASSUME Off # {} PROVE FALSE
    OBVIOUS
  <2>1. PICK k \in Off : \A j \in Off : k <= j
    <3>1. Off \subseteq Nat
      OBVIOUS
    <3> HIDE DEF Off
    <3> QED BY <3>1, LeastNumber
  <2>2. k \in 1 .. m /\ k \in Nat /\ g[k] # k /\ g[k] \in Nat /\ 1 <= g[k] /\ g[k] <= n
    BY <1>0
  <2>3. \A j \in 1 .. m : j < k => g[j] = j
    <3> SUFFICES ASSUME NEW j \in 1 .. m, j < k PROVE g[j] = j
      OBVIOUS
    <3>1. ~ (k <= j)
      BY <2>2
    <3> QED BY <2>1, <3>1
  <2>4. CASE g[k] < k
    <3>1. g[k] \in 1 .. m
      BY <2>2, <2>4
    <3>2. g[g[k]] = g[k]
      BY <2>3, <2>4, <3>1
    <3>3. g[g[k]] < g[k]
      BY <2>2, <2>4, <3>1
    <3> QED BY <2>2, <3>2, <3>3
  <2>5. CASE k < g[k]
    <3>1. PICK j \in 1 .. m : g[j] = k
      <4>1. k \in 1 .. n
        BY <2>2, <2>5
      <4> QED BY <4>1
    <3>2. CASE j < k
      BY <2>2, <2>3, <3>1, <3>2
    <3>3. CASE k < j
      <4>1. g[k] < g[j]
        BY <2>2, <3>3
      <4> QED BY <2>2, <2>5, <3>1, <4>1
    <3> QED BY <2>2, <3>1, <3>2, <3>3
  <2> QED BY <2>2, <2>4, <2>5
<1>2. m <= n
  <2>1. CASE m = 0
    BY <2>1
  <2>2. CASE m # 0
    <3>1. m \in 1 .. m
      BY <2>2
    <3> QED BY <1>0, <1>1, <3>1
  <2> QED BY <2>1, <2>2
<1>3. n <= m
  <2>1. CASE n = 0
    BY <2>1
  <2>2. CASE n # 0
    <3>1. PICK k \in 1 .. m : g[k] = n
      <4>1. n \in 1 .. n
        BY <2>2
      <4> QED BY <4>1
    <3> QED BY <1>0, <1>1, <3>1
  <2> QED BY <2>1, <2>2
<1> QED BY <1>1, <1>2, <1>3

-------------------------------------------------------------------------------
(* The records of the scenario main is at.                                  *)
CasesOk ==
    /\ Cases \in Seq(Nat)
    /\ \A j, k \in 1 .. Len(Cases) : j < k => Cases[j] < Cases[k]

Place(r) == FirstOf(r[1], Len(Cases)) + r[2] - 1

LEMMA ShareIs ==
  ASSUME CasesOk, NEW i \in Workers
  PROVE  /\ ShareOf(i) \in Seq(Nat)
         /\ Len(ShareOf(i)) = CountOf(i, Len(Cases))
         /\ \A k \in 1 .. Len(ShareOf(i)) : /\ Place(<<i, k>>) \in 1 .. Len(Cases)
                                            /\ ShareOf(i)[k] = Cases[Place(<<i, k>>)]
<1>1. PICK n, f, c : n = Len(Cases) /\ f = FirstOf(i, n) /\ c = CountOf(i, n)
  OBVIOUS
<1>2. n \in Nat /\ f \in Nat \ {0} /\ c \in Nat
  BY <1>1, Blocks DEF CasesOk
<1>3. f + c <= n + 1
  <2>1. NWorkers \in Workers /\ i <= NWorkers /\ NWorkers \in Nat /\ i \in Nat
    BY SimulatorAssumption DEF Workers
  <2>2. FirstOf(NWorkers, n) + CountOf(NWorkers, n) = n + 1
    BY <1>2, Blocks
  <2>3. CASE i = NWorkers
    BY <1>1, <1>2, <2>2, <2>3
  <2>4. CASE i < NWorkers
    <3>1. f + c <= FirstOf(NWorkers, n)
      BY <1>1, <1>2, <2>1, <2>4, BlocksInOrder
    <3>2. CountOf(NWorkers, n) \in Nat /\ FirstOf(NWorkers, n) \in Nat
      BY <1>2, <2>1, Blocks
    <3> QED BY <1>2, <2>2, <3>1, <3>2
  <2> QED BY <2>1, <2>3, <2>4
<1>4. Cases \in Seq(Nat) /\ ShareOf(i) = SubSeq(Cases, f, f + c - 1)
  BY <1>1 DEF CasesOk, ShareOf
<1>5. \A k : Place(<<i, k>>) = f + k - 1
  BY <1>1 DEF Place
<1> DEFINE s == ShareOf(i)
           t == Cases
<1>6. t \in Seq(Nat) /\ s = SubSeq(t, f, f + c - 1) /\ n = Len(t)
  BY <1>1, <1>4
<1> HIDE DEF s, t
<1>7. s \in Seq(Nat) /\ Len(s) = c /\ \A k \in 1 .. c : s[k] = t[f + k - 1] /\ f + k - 1 \in 1 .. n
  <2>1. \A k \in f .. f + c - 1 : k \in 1 .. Len(t)
    BY <1>2, <1>3, <1>6
  <2>2. s \in Seq(Nat)
    BY <1>2, <1>3, <1>6, <2>1
  <2>3. Len(s) = c
    BY <1>2, <1>3, <1>6
  <2>4. \A k \in 1 .. c : s[k] = t[f + k - 1]
    BY <1>2, <1>3, <1>6
  <2>5. \A k \in 1 .. c : f + k - 1 \in 1 .. n
    BY <1>2, <1>3
  <2> QED BY <2>2, <2>3, <2>4, <2>5
<1> QED BY <1>1, <1>5, <1>7 DEF s, t

(* What the workers have written, and the order of the merge.               *)
Written == {r \in Workers \X (1 .. Len(Cases)) : r[2] \in DOMAIN rows[r[1]]}
Record(r) == rows[r[1]][r[2]]
Earlier ==
    {p \in Written \X Written :
        \/ Record(p[1]) < Record(p[2])
        \/ /\ Record(p[1]) = Record(p[2])
           /\ p[1][1] < p[2][1] \/ (p[1][1] = p[2][1] /\ p[1][2] < p[2][2])}

LEMMA MergedRowsAre == MergedRows = Arranged(Written, Earlier)
BY DEF MergedRows, Written, Earlier, Record

AllWritten == \A i \in Workers : rows[i] = ShareOf(i)

LEMMA WrittenIs ==
  ASSUME CasesOk, AllWritten
  PROVE  /\ IsFiniteSet(Written)
         /\ \A r \in Written : Place(r) \in 1 .. Len(Cases) /\ Record(r) = Cases[Place(r)]
         /\ \A a, b \in Written : Place(a) = Place(b) => a = b
         /\ \A k \in 1 .. Len(Cases) : \E r \in Written : Place(r) = k
<1>0. PICK n : n = Len(Cases) /\ n \in Nat
  BY DEF CasesOk
<1>1. IsFiniteSet(Written)
  <2>1. NWorkers \in Nat
    BY SimulatorAssumption
  <2>2. IsFiniteSet(Workers) /\ IsFiniteSet(1 .. n)
    BY <1>0, <2>1, FS_Interval DEF Workers
  <2>3. IsFiniteSet(Workers \X (1 .. n))
    BY <2>2, FS_Product
  <2>4. Written \subseteq Workers \X (1 .. n)
    BY <1>0 DEF Written
  <2> QED BY <2>3, <2>4, FS_Subset
<1>2. ASSUME NEW r \in Written
      PROVE  /\ r = <<r[1], r[2]>> /\ r[1] \in Workers
             /\ r[2] \in Nat /\ 1 <= r[2] /\ r[2] <= CountOf(r[1], n)
             /\ r[2] \in 1 .. Len(ShareOf(r[1]))
  <2>1. r = <<r[1], r[2]>> /\ r[1] \in Workers /\ r[2] \in DOMAIN ShareOf(r[1])
    BY DEF Written, AllWritten
  <2>2. PICK i \in Workers, s \in Seq(Nat) : i = r[1] /\ s = ShareOf(i) /\ Len(s) = CountOf(i, n)
    BY <1>0, <2>1, ShareIs
  <2>3. r[2] \in 1 .. Len(s) /\ Len(s) \in Nat
    BY <2>1, <2>2
  <2> QED BY <2>1, <2>2, <2>3
<1>3. \A r \in Written : Place(r) \in 1 .. n /\ Record(r) = Cases[Place(r)]
  <2> SUFFICES ASSUME NEW r \in Written
               PROVE  Place(r) \in 1 .. n /\ Record(r) = Cases[Place(r)]
    OBVIOUS
  <2>1. PICK i \in Workers, k \in Nat : k \in 1 .. Len(ShareOf(i)) /\ r = <<i, k>>
    BY <1>2
  <2>2. Place(<<i, k>>) \in 1 .. n /\ ShareOf(i)[k] = Cases[Place(<<i, k>>)]
    BY <1>0, <2>1, ShareIs
  <2>3. Record(r) = ShareOf(i)[k]
    BY <2>1 DEF Record, AllWritten
  <2> QED BY <2>1, <2>2, <2>3
<1>4. ASSUME NEW a \in Written, NEW b \in Written, a[1] < b[1]
      PROVE  Place(a) < Place(b)
  <2>1. PICK i \in Workers, j \in Workers : i = a[1] /\ j = b[1] /\ i < j
    BY <1>2, <1>4
  <2>2. FirstOf(i, n) + CountOf(i, n) <= FirstOf(j, n)
    BY <1>0, <2>1, BlocksInOrder
  <2>3. FirstOf(i, n) \in Nat /\ CountOf(i, n) \in Nat /\ FirstOf(j, n) \in Nat
    BY <1>0, Blocks
  <2>4. /\ a[2] \in Nat /\ 1 <= a[2] /\ a[2] <= CountOf(i, n)
        /\ b[2] \in Nat /\ 1 <= b[2]
    BY <1>2, <2>1
  <2>5. Place(a) = FirstOf(i, n) + a[2] - 1 /\ Place(b) = FirstOf(j, n) + b[2] - 1
    BY <1>0, <2>1 DEF Place
  <2> QED BY <2>2, <2>3, <2>4, <2>5
<1>5. ASSUME NEW a \in Written, NEW b \in Written, Place(a) = Place(b)
      PROVE  a = b
  <2>0. Place(a) \in Nat /\ Place(b) \in Nat
    BY <1>0, <1>3
  <2>1. a[1] \in Nat /\ b[1] \in Nat
    BY <1>2, SimulatorAssumption DEF Workers
  <2>2. ~ (a[1] < b[1]) /\ ~ (b[1] < a[1])
    BY <1>4, <1>5, <2>0
  <2>3. PICK i \in Workers : i = a[1] /\ i = b[1]
    BY <1>2, <2>1, <2>2
  <2>4. FirstOf(i, n) \in Nat
    BY <1>0, Blocks
  <2>5. Place(a) = FirstOf(i, n) + a[2] - 1 /\ Place(b) = FirstOf(i, n) + b[2] - 1
    BY <1>0, <2>3 DEF Place
  <2>6. a[2] \in Nat /\ b[2] \in Nat
    BY <1>2
  <2>7. a[2] = b[2]
    <3>1. PICK f \in Nat, x \in Nat, y \in Nat : f = FirstOf(i, n) /\ x = a[2] /\ y = b[2]
      BY <2>4, <2>6
    <3>2. f + x - 1 = f + y - 1
      BY <1>5, <2>5, <3>1
    <3> QED BY <3>1, <3>2
  <2> QED BY <1>2, <2>3, <2>7
<1>6. ASSUME NEW k \in 1 .. n
      PROVE  \E r \in Written : Place(r) = k
  <2>1. PICK i \in Workers : FirstOf(i, n) <= k /\ k < FirstOf(i, n) + CountOf(i, n)
    BY <1>0, BlocksCover
  <2>2. PICK f, c : f = FirstOf(i, n) /\ c = CountOf(i, n) /\ f \in Nat \ {0} /\ c \in Nat
    BY <1>0, Blocks
  <2>3. PICK m \in Nat : m = k - f + 1 /\ 1 <= m /\ m <= c /\ f + m - 1 = k /\ m <= n
    <3>1. f <= k /\ k < f + c /\ k \in Nat /\ k <= n
      BY <1>0, <2>1, <2>2
    <3>2. k - f + 1 \in Nat /\ 1 <= k - f + 1 /\ k - f + 1 <= c /\ f + (k - f + 1) - 1 = k
      BY <2>2, <3>1
    <3>3. k - f + 1 <= n
      BY <1>0, <2>2, <3>1
    <3> QED BY <3>2, <3>3
  <2>4. m \in DOMAIN ShareOf(i)
    <3>1. PICK s \in Seq(Nat) : s = ShareOf(i) /\ Len(s) = c
      BY <1>0, <2>2, ShareIs
    <3> QED BY <2>3, <3>1
  <2>5. <<i, m>> \in Written
    BY <1>0, <2>3, <2>4 DEF Written, AllWritten
  <2>6. Place(<<i, m>>) = k
    BY <1>0, <2>2, <2>3 DEF Place
  <2> QED BY <2>5, <2>6
<1> QED BY <1>0, <1>1, <1>3, <1>5, <1>6

(* Rows in the order of the merge are in the order of their cases.          *)
LEMMA EarlierIs ==
  ASSUME CasesOk, AllWritten, NEW a \in Written, NEW b \in Written
  PROVE  <<a, b>> \in Earlier <=> Place(a) < Place(b)
<1>1. PICK p, q \in 1 .. Len(Cases) : /\ p = Place(a) /\ q = Place(b)
                                      /\ Record(a) = Cases[p] /\ Record(b) = Cases[q]
  BY WrittenIs
<1>2. p \in Nat /\ q \in Nat /\ Cases[p] \in Nat /\ Cases[q] \in Nat
  BY DEF CasesOk
<1>3. Cases[p] < Cases[q] <=> p < q
  <2>1. p < q => Cases[p] < Cases[q]
    BY DEF CasesOk
  <2>2. q < p => Cases[q] < Cases[p]
    BY DEF CasesOk
  <2> QED BY <1>2, <2>1, <2>2
<1>4. Cases[p] = Cases[q] => a = b
  <2>1. Cases[p] = Cases[q] => p = q
    <3>1. p < q => Cases[p] < Cases[q]
      BY DEF CasesOk
    <3>2. q < p => Cases[q] < Cases[p]
      BY DEF CasesOk
    <3> QED BY <1>2, <3>1, <3>2
  <2> QED BY <1>1, <2>1, WrittenIs
<1>5. a[1] \in Nat /\ a[2] \in Nat
  BY SimulatorAssumption DEF Written, Workers
<1>6. <<a, b>> \in Earlier <=> Record(a) < Record(b)
  <2>1. Record(a) = Record(b) => ~ (a[1] < b[1]) /\ ~ (a[2] < b[2])
    BY <1>1, <1>4, <1>5
  <2> QED BY <2>1 DEF Earlier
<1> QED BY <1>1, <1>3, <1>6

(* The merge of complete shares is the list of cases.                       *)
LEMMA MergedIs ==
  ASSUME CasesOk, AllWritten
  PROVE  MergedCases = Cases
<1>1. Orders(Earlier, Written)
  <2>1. \A a \in Written : Place(a) \in Nat
    BY WrittenIs
  <2>2. \A a, b \in Written : a # b => Place(a) # Place(b)
    BY WrittenIs
  <2>3. \A a, b \in Written : <<a, b>> \in Earlier <=> Place(a) < Place(b)
    BY EarlierIs
  <2> QED BY <2>1, <2>2, <2>3 DEF Orders
<1> DEFINE s == MergedRows
           m == Len(s)
           n == Len(Cases)
           g == [k \in 1 .. m |-> Place(s[k])]
<1>2. /\ s \in Seq(Written)
      /\ \A r \in Written : \E k \in DOMAIN s : s[k] = r
      /\ \A j, k \in DOMAIN s : j < k => <<s[j], s[k]>> \in Earlier
  <2>1. IsFiniteSet(Written)
    BY WrittenIs
  <2>2. PICK w, e : w = Written /\ e = Earlier
    OBVIOUS
  <2>3. IsFiniteSet(w) /\ Orders(e, w) /\ s = Arranged(w, e)
    BY <1>1, <2>1, <2>2, MergedRowsAre
  <2> HIDE DEF s
  <2>4. /\ s \in Seq(w)
        /\ \A r \in w : \E k \in DOMAIN s : s[k] = r
        /\ \A j, k \in DOMAIN s : j < k => <<s[j], s[k]>> \in e
    BY <2>3, ArrangedIs
  <2> QED BY <2>2, <2>4
<1>3. n \in Nat
  BY DEF CasesOk
<1> HIDE DEF s
<1>4. m \in Nat /\ DOMAIN s = 1 .. m /\ \A k \in 1 .. m : s[k] \in Written
  BY <1>2
<1> HIDE DEF m, n
<1>5. g \in [1 .. m -> 1 .. n]
  BY <1>4, WrittenIs DEF n
<1>6. \A j, k \in 1 .. m : j < k => g[j] < g[k]
  <2>1. \A j, k \in 1 .. m : j < k => Place(s[j]) < Place(s[k])
    BY <1>2, <1>4, EarlierIs
  <2> QED BY <2>1
<1>7. \A p \in 1 .. n : \E k \in 1 .. m : g[k] = p
  <2> SUFFICES ASSUME NEW p \in 1 .. n PROVE \E k \in 1 .. m : g[k] = p
    OBVIOUS
  <2>1. PICK r \in Written : Place(r) = p
    BY WrittenIs DEF n
  <2>2. PICK k \in 1 .. m : s[k] = r
    BY <1>2, <1>4
  <2> QED BY <2>1, <2>2
<1> HIDE DEF g
<1>8. m = n /\ \A k \in 1 .. m : g[k] = k
  <2>1. RisesOnto(g, m, n)
    BY <1>5, <1>6, <1>7 DEF RisesOnto
  <2> QED BY <1>3, <1>4, <2>1, RisingOnto
<1>9. ASSUME NEW k \in 1 .. n
      PROVE  Record(s[k]) = Cases[k]
  <2>1. s[k] \in Written /\ Place(s[k]) = k
    BY <1>4, <1>8 DEF g
  <2> QED BY <2>1, WrittenIs
<1>10. MergedCases = [k \in 1 .. n |-> Cases[k]]
  <2>1. MergedCases = [k \in 1 .. n |-> Record(s[k])]
    BY <1>4, <1>8 DEF MergedCases, Record, s
  <2> QED BY <1>9, <2>1
<1>11. Cases = [k \in 1 .. n |-> Cases[k]]
  <2>1. PICK t \in Seq(Nat) : t = Cases
    BY DEF CasesOk
  <2>2. t = [k \in 1 .. Len(t) |-> t[k]]
    OBVIOUS
  <2> QED BY <2>1, <2>2 DEF n
<1> QED BY <1>10, <1>11

-------------------------------------------------------------------------------
(* What a worker has written is the beginning of its share, all of it when  *)
(* the worker is done, and not all of it where a case is yet to be run.     *)
WrittenSoFar(i) ==
    /\ Len(rows[i]) <= Len(ShareOf(i))
    /\ \A k \in 1 .. Len(rows[i]) : rows[i][k] = ShareOf(i)[k]
    /\ wpc[i] = "done" => Len(rows[i]) = Len(ShareOf(i))
    /\ wpc[i] \in {"ensure", "replace", "replacing", "recover", "recovering", "case"}
          => Len(rows[i]) < Len(ShareOf(i))
    /\ wpc[i] \in {"reset", "status"} => Len(ShareOf(i)) > 0

RowsInv ==
    /\ rows \in [Workers -> Seq(Nat)]
    /\ lpc = "workers" => \A i \in Workers : WrittenSoFar(i)
    /\ DOMAIN merged = Planned /\ merged = [r \in Planned |-> merged[r]]
    /\ successful \subseteq Planned
    /\ \A r \in successful : merged[r] = Matrix[r[1]].cases

LEMMA PlannedCases == ASSUME at \in Planned PROVE CasesOk
<1>1. at[1] \in DOMAIN Matrix
  BY PlannedShape
<1> DEFINE Scenarios == [cases : Seq(Nat), methods : Seq(Kinds)]
<1>2. Matrix \in Seq(Scenarios)
  BY LauncherAssumption
<1>3. Matrix[at[1]] \in Scenarios
  <2> HIDE DEF Scenarios
  <2> QED BY <1>1, <1>2
<1>4. Cases \in Seq(Nat)
  BY <1>3 DEF Cases
<1>5. \A j, k \in DOMAIN Cases : j < k => Cases[j] < Cases[k]
  BY <1>1, LauncherAssumption DEF Cases
<1>6. DOMAIN Cases = 1 .. Len(Cases)
  BY <1>4
<1> QED BY <1>4, <1>5, <1>6 DEF CasesOk

(* A step of a worker keeps what is known of its rows.                      *)
LEMMA WorkerRows ==
  ASSUME CasesOk, rows \in [Workers -> Seq(Nat)], wpc \in [Workers -> WPcs],
         \A i \in Workers : WrittenSoFar(i), NEW w \in Workers, WorkerStep(w)
  PROVE  rows' \in [Workers -> Seq(Nat)] /\ \A i \in Workers : WrittenSoFar(i)'
<1>1. \A i \in Workers : ShareOf(i) \in Seq(Nat) /\ Len(ShareOf(i)) \in Nat /\ Len(rows[i]) \in Nat
  <2> SUFFICES ASSUME NEW i \in Workers
               PROVE  ShareOf(i) \in Seq(Nat) /\ Len(ShareOf(i)) \in Nat /\ Len(rows[i]) \in Nat
    OBVIOUS
  <2>1. ShareOf(i) \in Seq(Nat) /\ rows[i] \in Seq(Nat)
    BY ShareIs
  <2> QED BY <2>1
<1>2. UNCHANGED mainVars
  BY DEF WorkerStep, EnsureRunning, StopForRestart, StartAgain, RunCase, RebuildFails,
         RequestReset, ReadStatus
<1>3. \A i : ShareOf(i)' = ShareOf(i)
  BY <1>2 DEF mainVars, ShareOf, Cases, FirstOf, CountOf
<1>4. Len(<<>>) = 0 /\ <<>> \in Seq(Nat)
  OBVIOUS
<1> DEFINE Open == {"ensure", "replace", "replacing", "recover", "recovering", "case"}
           Kept(pc) == /\ pc = "done" => Len(rows[w]) = Len(ShareOf(w))
                       /\ pc \in Open => Len(rows[w]) < Len(ShareOf(w))
                       /\ pc \in {"reset", "status"} => Len(ShareOf(w)) > 0
(* A step that leaves the rows alone.                                       *)
<1>5. ASSUME NEW pc, GoTo(w, pc), UNCHANGED rows, Kept(pc)
      PROVE  rows' \in [Workers -> Seq(Nat)] /\ \A i \in Workers : WrittenSoFar(i)'
  <2> SUFFICES ASSUME NEW i \in Workers PROVE WrittenSoFar(i)'
    BY <1>5
  <2>1. CASE i = w
    <3>1. wpc'[i] = pc /\ rows'[i] = rows[i]
      BY <1>5, <2>1 DEF GoTo
    <3> QED BY <1>3, <1>5, <2>1, <3>1 DEF WrittenSoFar
  <2>2. CASE i # w
    <3>1. wpc'[i] = wpc[i] /\ rows'[i] = rows[i]
      BY <1>5, <2>2 DEF GoTo
    <3> QED BY <1>3, <3>1 DEF WrittenSoFar
  <2> QED BY <2>1, <2>2
<1>6. WrittenSoFar(w)
  OBVIOUS
<1>7. wpc[w] \in Open => Len(rows[w]) < Len(ShareOf(w)) /\ Len(ShareOf(w)) > 0
  BY <1>1, <1>6 DEF WrittenSoFar
<1>8. wpc[w] \in {"reset", "status"} => Len(ShareOf(w)) > 0
  BY <1>6 DEF WrittenSoFar
<1>9. CASE EnsureRunning(w) \/ StopForRestart(w) \/ StartAgain(w) \/ RebuildFails(w)
  <2>1. wpc[w] \in Open
    BY <1>9 DEF EnsureRunning, StopForRestart, StartAgain, RebuildFails
  <2>2. \A pc \in Open \cup {"failed"} : Kept(pc)
    BY <1>7, <2>1
  <2>3. \E pc \in Open \cup {"failed"} : GoTo(w, pc)
    BY <1>9 DEF EnsureRunning, StopForRestart, StartAgain, RebuildFails
  <2>4. UNCHANGED rows
    BY <1>9 DEF EnsureRunning, StopForRestart, StartAgain, RebuildFails
  <2> HIDE DEF Kept, Open
  <2> QED BY <1>5, <2>2, <2>3, <2>4
<1>10. CASE RequestReset(w)
  <2>1. wpc[w] = "reset" /\ (GoTo(w, "status") \/ GoTo(w, "failed")) /\ UNCHANGED rows
    BY <1>10 DEF RequestReset
  <2>2. Kept("status") /\ Kept("failed")
    BY <1>8, <2>1
  <2> HIDE DEF Kept
  <2> QED BY <1>5, <2>1, <2>2
<1>11. CASE RunCase(w)
  <2>1. /\ wpc[w] = "case"
        /\ rows' = [rows EXCEPT ![w] = Append(@, ShareOf(w)[Len(@) + 1])]
    BY <1>11 DEF RunCase
  <2>2. PICK pc : GoTo(w, pc) /\ (pc = "done" \/ pc = "reset")
                  /\ (pc = "done" => Len(rows[w]) + 1 = Len(ShareOf(w)))
    BY <1>11 DEF RunCase
  <2> DEFINE x == ShareOf(w)[Len(rows[w]) + 1]
  <2>3. Len(rows[w]) < Len(ShareOf(w)) /\ Len(ShareOf(w)) > 0 /\ x \in Nat
    <3>1. Len(rows[w]) < Len(ShareOf(w)) /\ Len(ShareOf(w)) > 0
      BY <1>7, <2>1
    <3>2. Len(rows[w]) + 1 \in 1 .. Len(ShareOf(w))
      BY <1>1, <3>1
    <3> QED BY <1>1, <3>1, <3>2
  <2>4. rows'[w] = Append(rows[w], x)
    BY <2>1
  <2> HIDE DEF x
  <2>5. /\ rows'[w] \in Seq(Nat) /\ Len(rows'[w]) = Len(rows[w]) + 1
        /\ rows'[w][Len(rows[w]) + 1] = x
        /\ \A k \in 1 .. Len(rows[w]) : rows'[w][k] = rows[w][k]
    <3>1. rows[w] \in Seq(Nat)
      OBVIOUS
    <3> QED BY <2>3, <2>4, <3>1
  <2>6. rows' \in [Workers -> Seq(Nat)]
    <3>1. \A i \in Workers : rows'[i] \in Seq(Nat)
      BY <2>1, <2>5
    <3> QED BY <2>1, <3>1
  <2>7. WrittenSoFar(w)'
    <3>1. wpc'[w] = pc
      BY <2>2 DEF GoTo
    <3>2. Len(rows[w]) + 1 <= Len(ShareOf(w))
      BY <1>1, <2>3
    <3>3. \A k \in 1 .. Len(rows[w]) + 1 : rows'[w][k] = ShareOf(w)[k]
      <4> SUFFICES ASSUME NEW k \in 1 .. Len(rows[w]) + 1
                   PROVE  rows'[w][k] = ShareOf(w)[k]
        OBVIOUS
      <4>1. CASE k = Len(rows[w]) + 1
        BY <2>5, <4>1 DEF x
      <4>2. CASE k # Len(rows[w]) + 1
        <5>1. k \in 1 .. Len(rows[w])
          BY <1>1, <4>2
        <5> QED BY <1>6, <2>5, <5>1 DEF WrittenSoFar
      <4> QED BY <4>1, <4>2
    <3> QED BY <1>3, <2>2, <2>3, <2>5, <3>1, <3>2, <3>3 DEF WrittenSoFar
  <2>8. ASSUME NEW i \in Workers, i # w
        PROVE  WrittenSoFar(i)'
    <3>1. wpc'[i] = wpc[i] /\ rows'[i] = rows[i]
      BY <2>1, <2>2, <2>8 DEF GoTo
    <3> QED BY <1>3, <3>1 DEF WrittenSoFar
  <2> QED BY <2>6, <2>7, <2>8
<1>12. CASE ReadStatus(w)
  <2>1. wpc[w] = "status"
    BY <1>12 DEF ReadStatus
  <2>2. CASE UNCHANGED rows /\ \E pc \in {"failed", "status", "reset"} : GoTo(w, pc)
    <3>1. \A pc \in {"failed", "status", "reset"} : Kept(pc)
      BY <1>8, <2>1
    <3> HIDE DEF Kept
    <3> QED BY <1>5, <2>2, <3>1
  <2>3. CASE UNCHANGED rows /\ ResetReturns(w)
    <3> DEFINE pc == IF Len(rows[w]) = Len(ShareOf(w)) THEN "done" ELSE "case"
    <3>1. Kept(pc)
      BY <1>1, <1>6 DEF WrittenSoFar
    <3>2. GoTo(w, pc)
      BY <2>3 DEF ResetReturns
    <3> HIDE DEF Kept, pc
    <3> QED BY <1>5, <2>3, <3>1, <3>2
  <2>4. CASE GoTo(w, "recover") /\ rows' = [rows EXCEPT ![w] = <<>>]
    <3>1. rows' \in [Workers -> Seq(Nat)]
      BY <2>4
    <3> SUFFICES ASSUME NEW i \in Workers PROVE WrittenSoFar(i)'
      BY <3>1
    <3>2. CASE i = w
      <4>1. wpc'[i] = "recover" /\ rows'[i] = <<>> /\ Len(rows'[i]) = 0
        BY <1>4, <2>4, <3>2 DEF GoTo
      <4>2. Len(ShareOf(i)) > 0 /\ Len(ShareOf(i)) \in Nat
        BY <1>1, <1>8, <2>1, <3>2
      <4> QED BY <1>3, <4>1, <4>2 DEF WrittenSoFar
    <3>3. CASE i # w
      <4>1. wpc'[i] = wpc[i] /\ rows'[i] = rows[i]
        BY <2>4, <3>3 DEF GoTo
      <4> QED BY <1>3, <4>1 DEF WrittenSoFar
    <3> QED BY <3>2, <3>3
  <2> QED BY <1>12, <2>2, <2>3, <2>4 DEF ReadStatus, WriterExhausted
<1> QED BY <1>9, <1>10, <1>11, <1>12 DEF WorkerStep

(* A step that leaves the workers' part alone.                              *)
LEMMA RowsStay ==
  ASSUME RowsInv, UNCHANGED <<rows, wpc, successful, merged>>,
         lpc' = "workers" => lpc = "workers" /\ UNCHANGED at
  PROVE  RowsInv'
<1>1. ASSUME lpc' = "workers", NEW i \in Workers
      PROVE  WrittenSoFar(i)'
  <2>1. ShareOf(i)' = ShareOf(i) /\ WrittenSoFar(i)
    BY <1>1 DEF RowsInv, ShareOf, Cases, FirstOf, CountOf
  <2> QED BY <2>1 DEF WrittenSoFar
<1> QED BY <1>1 DEF RowsInv

LEMMA StartRows == ASSUME RowsInv, at \in Planned, StartWorkers PROVE RowsInv'
<1>1. \A i \in Workers : ShareOf(i)' = ShareOf(i)
  BY DEF StartWorkers, ShareOf, Cases, FirstOf, CountOf
<1>2. rows' \in [Workers -> Seq(Nat)] /\ \A i \in Workers : Len(rows'[i]) = 0
  BY DEF StartWorkers
<1>3. ASSUME NEW i \in Workers
      PROVE  WrittenSoFar(i)'
  <2>1. PICK s \in Seq(Nat) : s = ShareOf(i)
    BY PlannedCases, ShareIs
  <2>2. Len(s) \in Nat /\ (s = <<>> <=> Len(s) = 0)
    OBVIOUS
  <2>3. wpc'[i] = IF s = <<>> THEN "done" ELSE "ensure"
    BY <2>1 DEF StartWorkers
  <2> QED BY <1>1, <1>2, <2>1, <2>2, <2>3 DEF WrittenSoFar
<1> QED BY <1>2, <1>3 DEF RowsInv, StartWorkers

LEMMA CollectRows == ASSUME RowsInv, at \in Planned, CollectWorkers PROVE RowsInv'
<1>1. CASE RunFails /\ UNCHANGED <<successful, merged>>
  BY <1>1, RowsStay DEF CollectWorkers, RunFails, workerVars
<1>2. CASE /\ \A i \in Workers : wpc[i] = "done"
           /\ merged' = [merged EXCEPT ![at] = MergedCases]
           /\ successful' = successful \cup {at}
           /\ lpc' = "aggregate"
  <2>1. CasesOk
    BY PlannedCases
  <2>2. AllWritten
    <3> SUFFICES ASSUME NEW i \in Workers PROVE rows[i] = ShareOf(i)
      BY DEF AllWritten
    <3>1. WrittenSoFar(i) /\ wpc[i] = "done"
      BY <1>2 DEF RowsInv, CollectWorkers
    <3>2. PICK s \in Seq(Nat), t \in Seq(Nat) : s = rows[i] /\ t = ShareOf(i)
      BY <2>1, ShareIs DEF RowsInv
    <3>3. Len(s) = Len(t) /\ \A k \in 1 .. Len(s) : s[k] = t[k]
      BY <3>1, <3>2 DEF WrittenSoFar
    <3>4. s = [k \in 1 .. Len(s) |-> s[k]]
      OBVIOUS
    <3>5. t = [k \in 1 .. Len(t) |-> t[k]]
      OBVIOUS
    <3>6. [k \in 1 .. Len(s) |-> s[k]] = [k \in 1 .. Len(t) |-> t[k]]
      BY <3>3
    <3>7. s = t
      BY <3>4, <3>5, <3>6, Zenon
    <3> QED BY <3>2, <3>7
  <2>3. MergedCases = Matrix[at[1]].cases
    BY <2>1, <2>2, MergedIs DEF Cases
  <2>4. /\ DOMAIN merged' = Planned /\ merged' = [r \in Planned |-> merged'[r]]
        /\ merged'[at] = Matrix[at[1]].cases
        /\ \A r \in Planned : r # at => merged'[r] = merged[r]
    BY <1>2, <2>3 DEF RowsInv
  <2>5. \A r \in successful' : merged'[r] = Matrix[r[1]].cases
    BY <1>2, <2>4 DEF RowsInv
  <2>6. successful' \subseteq Planned /\ rows' = rows
    BY <1>2 DEF RowsInv, CollectWorkers, workerVars
  <2> QED BY <1>2, <2>4, <2>5, <2>6 DEF RowsInv
<1> QED BY <1>1, <1>2 DEF CollectWorkers

LEMMA RowsNext ==
  ASSUME LaunchInv, LedgerInv, RowsInv, [LaunchNext]_launchVars
  PROVE  RowsInv'
<1>1. at \in Planned
  BY DEF LedgerInv
<1>2. CASE BuildInputs \/ StartRun \/ AllocateWorker \/ StartSimulator \/ Aggregate \/ StopWorker
  <2>1. UNCHANGED <<rows, wpc, successful, merged>> /\ lpc' # "workers"
    BY <1>2 DEF BuildInputs, StartRun, AllocateWorker, StartSimulator, Aggregate, StopWorker,
                NextScenario, RunFails, workerVars
  <2> QED BY <2>1, RowsStay
<1>3. CASE EndRun
  <2>1. lpc' # "workers" /\ UNCHANGED <<successful, merged>> /\ rows' = [i \in Workers |-> <<>>]
    BY <1>3 DEF EndRun, NextScenario
  <2>2. rows' \in [Workers -> Seq(Nat)]
    BY <2>1
  <2> QED BY <2>1, <2>2 DEF RowsInv
<1>4. CASE StartWorkers
  BY <1>1, <1>4, StartRows
<1>5. CASE CollectWorkers
  BY <1>1, <1>5, CollectRows
<1>6. ASSUME NEW w \in Workers, WorkerStep(w)
      PROVE  RowsInv'
  <2>1. wpc[w] \notin Idle
    BY <1>6 DEF WorkerStep, EnsureRunning, StopForRestart, StartAgain, RunCase, RebuildFails,
                RequestReset, ReadStatus, Idle
  <2>2. lpc = "workers" /\ wpc \in [Workers -> WPcs]
    BY <2>1 DEF LaunchInv, CountsAgree, LaunchTypeOK
  <2>3. UNCHANGED mainVars
    BY <1>6 DEF WorkerStep, EnsureRunning, StopForRestart, StartAgain, RunCase, RebuildFails,
                RequestReset, ReadStatus
  <2>4. rows' \in [Workers -> Seq(Nat)] /\ \A i \in Workers : WrittenSoFar(i)'
    BY <1>1, <1>6, <2>2, PlannedCases, WorkerRows DEF RowsInv
  <2> QED BY <2>3, <2>4 DEF RowsInv, mainVars
<1>7. CASE SimulatorStep \/ LaunchEnded \/ UNCHANGED launchVars
  <2>1. UNCHANGED <<mainVars, rows, wpc>>
    BY <1>7 DEF SimulatorStep, LaunchEnded, launchVars, workerVars
  <2> QED BY <2>1, RowsStay DEF mainVars
<1> QED BY <1>2, <1>3, <1>4, <1>5, <1>6, <1>7 DEF LaunchNext, LauncherStep

(* The ledger is true: what is recorded as successful has one row for each  *)
(* of its cases, in order, however the cases were shared out and however    *)
(* often a child was run again; and no run goes unrecorded                  *)
(* (_partition_task_ids, _merge_worker_results).                            *)
THEOREM LedgerIsTrueHolds == LaunchSpec => []LedgerIsTrue
<1>1. LaunchInit => RowsInv
  <2> SUFFICES ASSUME LaunchInit PROVE RowsInv
    OBVIOUS
  <2>1. rows \in [Workers -> Seq(Nat)]
    BY DEF LaunchInit
  <2>2. DOMAIN merged = Planned /\ merged = [r \in Planned |-> merged[r]]
    BY DEF LaunchInit
  <2> QED BY <2>1, <2>2 DEF LaunchInit, RowsInv
<1>2. LaunchInv /\ LedgerInv /\ RowsInv /\ [LaunchNext]_launchVars => RowsInv'
  BY RowsNext
<1>3. LedgerInv /\ RowsInv => LedgerIsTrue
  BY DEF LedgerInv, RowsInv, LedgerIsTrue
<1> QED BY <1>1, <1>2, <1>3, LauncherInvariant, LedgerInvariant, PTL DEF LaunchSpec
=============================================================================
