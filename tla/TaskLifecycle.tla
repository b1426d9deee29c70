---------------------------- MODULE TaskLifecycle ----------------------------
(***************************************************************************)
(* What the queue promises of a task: it is tried until a try succeeds or  *)
(* the last permitted one fails, success is said only of a task that has a *)
(* response, and both ends are final.  TaskQueue implements it as long as  *)
(* one worker serves the queue and no commit is lost after it took effect. *)
(***************************************************************************)
EXTENDS Naturals

CONSTANTS Tasks, MaxAttempts

VARIABLES
    status,     \* status[t]: the task's status
    tries,      \* tries[t]: how often it was started
    responded   \* tasks with a response

lifecycleVars == <<status, tries, responded>>

LifecycleInit ==
    /\ status = [t \in Tasks |-> "absent"]
    /\ tries = [t \in Tasks |-> 0]
    /\ responded = {}

Become(t, from, to) == status[t] \in from /\ status' = [status EXCEPT ![t] = to]

Submit(t) == Become(t, {"absent"}, "queued") /\ UNCHANGED <<tries, responded>>

(* A try whose worker was lost is still "running" when the next one starts. *)
Start(t) ==
    /\ Become(t, {"queued", "failed", "running"}, "running")
    /\ tries' = [tries EXCEPT ![t] = @ + 1]
    /\ UNCHANGED responded

Respond(t) ==
    /\ status[t] = "running"
    /\ responded' = responded \cup {t}
    /\ UNCHANGED <<status, tries>>

Succeed(t) ==
    /\ t \in responded
    /\ Become(t, {"running"}, "succeeded")
    /\ UNCHANGED <<tries, responded>>

FailTry(t) ==
    /\ tries[t] < MaxAttempts
    /\ Become(t, {"running"}, "failed")
    /\ UNCHANGED <<tries, responded>>

Bury(t) ==
    /\ tries[t] >= MaxAttempts
    /\ Become(t, {"running"}, "dead_letter")
    /\ UNCHANGED <<tries, responded>>

LifecycleNext ==
    \E t \in Tasks : Submit(t) \/ Start(t) \/ Respond(t) \/ Succeed(t) \/ FailTry(t) \/ Bury(t)

LifecycleSpec == LifecycleInit /\ [][LifecycleNext]_lifecycleVars
=============================================================================
