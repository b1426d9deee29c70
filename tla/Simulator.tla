------------------------------- MODULE Simulator -------------------------------
(***************************************************************************)
(* The simulator instances of experiments/scripts: a launcher takes a slot  *)
(* (a lock file and two ports) for each of its workers, starts a simulator  *)
(* process there, restarts and stops it, and asks the simulator's own reset *)
(* service for a clean state between cases.                                 *)
(*                                                                         *)
(* The process the launcher starts and the stack it brings up (containers,  *)
(* gateway, reset service) are two things: a process may go and its stack   *)
(* stay.  A process that comes up replaces what ran on its slot before.     *)
(* The lock files of other launchers are there from the start and stay.     *)
(***************************************************************************)
EXTENDS Naturals, Sequences

CONSTANTS
    NWorkers,            \* simulators_per_combination
    NSlots,              \* SIMULATOR_INSTANCE_SLOT_LIMIT
    RestartLimit,        \* SIMULATOR_RESTART_LIMIT
    MaxRecoveryRequests, \* SIMULATOR_RESET_MAX_RECOVERY_REQUESTS
    MaxPolls,            \* bound: iterations a reset has until its deadline
    Leftovers,           \* what earlier launchers may have left: locks and occupied ports
    MaxFaults            \* bound: processes that exit or do not obey a signal

Workers == 1 .. NWorkers
Slots   == 1 .. NSlots
Locks   == {"free", "stale", "other", "mine"}
Phases  == {"idle", "active", "completed", "failed"}
Stacks  == [up : BOOLEAN, phase : Phases, missing : BOOLEAN, dirty : BOOLEAN]

ASSUME SimulatorAssumption ==
    /\ {NWorkers, NSlots} \subseteq Nat \ {0}
    /\ {RestartLimit, MaxRecoveryRequests, MaxPolls, MaxFaults} \subseteq Nat
    /\ Leftovers \subseteq [Slots -> [lock : {"free", "stale", "other"}, up : BOOLEAN]]

VARIABLES
    lock,      \* the lock file of a slot: none, of a dead launcher, of another one, ours
    stack,     \* what runs on a slot
    slotOf,    \* the slot a worker has, 0 for none
    proc,      \* the simulator process of a worker
    restarts,  \* restart_count
    faults

simVars == <<lock, stack, slotOf, proc, restarts, faults>>

Down  == [up |-> FALSE, phase |-> "idle", missing |-> FALSE, dirty |-> FALSE]
Fresh == [Down EXCEPT !.up = TRUE]

SimInit ==
    /\ \E left \in Leftovers :
          /\ lock  = [s \in Slots |-> left[s].lock]
          /\ stack = [s \in Slots |-> [Down EXCEPT !.up = left[s].up, !.dirty = left[s].up]]
    /\ slotOf = [i \in Workers |-> 0]
    /\ proc = [i \in Workers |-> "none"]
    /\ restarts = [i \in Workers |-> 0]
    /\ faults = 0

-------------------------------------------------------------------------------
(* Slots.  The lock of a dead launcher is removed, one of a living launcher *)
(* passed over; a slot whose ports are taken is given back.                 *)

Usable(s) == lock[s] \in {"free", "stale"} /\ ~stack[s].up

Reclaimed(passed) == [s \in Slots |-> IF s \in passed /\ lock[s] = "stale" THEN "free" ELSE lock[s]]

AllocateSlot(i) ==
    \E s \in Slots :
       /\ Usable(s)
       /\ \A t \in 1 .. s - 1 : ~Usable(t)
       /\ lock' = [Reclaimed(1 .. s - 1) EXCEPT ![s] = "mine"]
       /\ slotOf' = [slotOf EXCEPT ![i] = s]
       /\ UNCHANGED <<stack, proc, restarts, faults>>

NoSlotLeft ==
    /\ \A s \in Slots : ~Usable(s)
    /\ lock' = Reclaimed(Slots)
    /\ UNCHANGED <<stack, slotOf, proc, restarts, faults>>

(* release: the worker's state is given up with its slot.                   *)
ReleaseSlot(i) ==
    /\ lock' = [lock EXCEPT ![slotOf[i]] = "free"]
    /\ slotOf' = [slotOf EXCEPT ![i] = 0]
    /\ restarts' = [restarts EXCEPT ![i] = 0]

-------------------------------------------------------------------------------
(* Processes.  A start waits for the graph, the gateway and the reset       *)
(* service until it gives up, and then clears away what it began.           *)

BootstrapReady(i) ==
    /\ proc' = [proc EXCEPT ![i] = "running"]
    /\ stack' = [stack EXCEPT ![slotOf[i]] = Fresh]

BootstrapFails(i) ==
    /\ proc' = [proc EXCEPT ![i] = "none"]
    /\ stack' = [stack EXCEPT ![slotOf[i]] = Down]

(* A process that obeys SIGINT takes its stack along, as the compose file   *)
(* does after SIGKILL.  After SIGTERM nothing does, nor for a process that  *)
(* had exited before.                                                       *)
StopProcess(i) ==
    /\ proc' = [proc EXCEPT ![i] = "none"]
    /\ \/ /\ proc[i] = "running"
          /\ stack' = [stack EXCEPT ![slotOf[i]] = Down]
          /\ UNCHANGED faults
       \/ /\ proc[i] = "running" /\ faults < MaxFaults
          /\ faults' = faults + 1
          /\ UNCHANGED stack
       \/ /\ proc[i] # "running"
          /\ UNCHANGED <<stack, faults>>

(* Not even SIGKILL ends it in time: the stop raises.                       *)
StopSticks(i) ==
    /\ proc[i] = "running"
    /\ faults < MaxFaults
    /\ faults' = faults + 1
    /\ stack' = [stack EXCEPT ![slotOf[i]] = Down]
    /\ UNCHANGED proc

SimulatorExits(i) ==
    /\ proc[i] = "running"
    /\ faults < MaxFaults
    /\ faults' = faults + 1
    /\ proc' = [proc EXCEPT ![i] = "exited"]
    /\ \E up \in BOOLEAN :
          stack' = [stack EXCEPT ![slotOf[i]].up = up /\ @]
    /\ UNCHANGED <<lock, slotOf, restarts>>

-------------------------------------------------------------------------------
(* The reset service of a stack.  A reset clears what cases have left; a    *)
(* child process the supervisor needs may go missing in it.                 *)

ResetStack(s) ==
    \/ \E gone \in BOOLEAN :
          stack' = [stack EXCEPT ![s].phase = "completed", ![s].missing = gone, ![s].dirty = FALSE]
    \/ stack' = [stack EXCEPT ![s].phase = "failed"]

ResetProceeds(s) ==
    /\ stack[s].up /\ stack[s].phase = "active"
    /\ ResetStack(s)
    /\ UNCHANGED <<lock, slotOf, proc, restarts, faults>>

(* Mutant: a healthy supervisor is taken for one whose reset is complete.   *)
ResetIsCompleteWhenHealthy(st) == st.up /\ ~st.missing

(* What a client learns of the service: nothing when it is not there.       *)
ResetIsComplete(st) == st.up /\ st.phase = "completed" /\ ~st.missing

ResetHasFailed(st)  == st.up /\ st.phase = "failed"
WriterIsMissing(st) == st.up /\ st.missing /\ st.phase # "active"
=============================================================================
