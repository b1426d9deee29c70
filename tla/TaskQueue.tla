------------------------------- MODULE TaskQueue -------------------------------
(***************************************************************************)
(* The artifact queue of shared/runtime: producers write request files and *)
(* task rows, workers poll the files, claim a task with a lease in the row *)
(* and a lease file, handle it, write a response and close the row.  A row *)
(* is read and written in one transaction, but nothing locks it between    *)
(* the SELECT and the COMMIT, and the UPDATE writes the columns that differ *)
(* from those read.  Leases are countdowns; Tick is the passing of time.   *)
(***************************************************************************)
EXTENDS Naturals, FiniteSets

CONSTANTS
    Tasks,        \* request artifacts of one target agent
    Workers,      \* processes that serve that agent's queue
    NoWorker,     \* NULL in lease_owner
    NoTask,
    MaxAttempts,  \* max_attempts of a task row
    LeaseTicks,   \* lease_seconds
    MaxCrashes,   \* bound: workers that crash
    MaxDbFaults,  \* bound: transactions that are rolled back
    MaxLostAcks   \* bound: commits that take effect and are reported as failed

ASSUME QueueAssumption ==
    /\ NoWorker \notin Workers
    /\ NoTask \notin Tasks
    /\ MaxAttempts \in Nat \ {0}
    /\ LeaseTicks \in Nat \ {0}
    /\ {MaxCrashes, MaxDbFaults, MaxLostAcks} \subseteq Nat

VARIABLES
    producer,   \* producer[t]: control state of write_request
    files,      \* tasks whose request file exists
    row,        \* row[t]: the agent_task row
    leaseFile,  \* leaseFile[t]: the local lease file
    responses,  \* tasks with a response file
    letters,    \* <<task, directory>> of the failure records written
    worker,     \* worker[w]: local state of worker process w
    crashes, dbFaults, lostAcks   \* fault counters

diskVars  == <<files, leaseFile, responses, letters>>
faultVars == <<crashes, dbFaults, lostAcks>>
queueVars == <<producer, row, worker, diskVars, faultVars>>

Statuses  == {"absent", "queued", "running", "failed", "succeeded", "dead_letter"}
Terminal  == {"succeeded", "dead_letter"}
MaxTries  == MaxAttempts + MaxCrashes + MaxDbFaults + MaxLostAcks
Row       == [status : Statuses, owner : Workers \cup {NoWorker}, lease : 0 .. LeaseTicks,
              attempts : 0 .. MaxTries]
NoRow     == [status |-> "absent", owner |-> NoWorker, lease |-> 0, attempts |-> 0]
Lease     == [exists : BOOLEAN, left : 0 .. LeaseTicks]
NoLease   == [exists |-> FALSE, left |-> 0]
Claimed   == {"lock", "handle", "respond", "record", "unlink", "remove", "complete", "commit"}
WorkerPc  == {"next", "claim", "select", "lease", "status", "dead"} \cup Claimed
Worker    == [pc : WorkerPc, task : Tasks \cup {NoTask}, todo : SUBSET Tasks, read : Row,
              outcome : {"succeeded", "failed"}, expires : 0 .. LeaseTicks]
Fresh     == [pc |-> "next", task |-> NoTask, todo |-> {}, read |-> NoRow,
              outcome |-> "succeeded", expires |-> 0]

(* The attempts of a row are bounded by the tries the bounds allow.         *)
QueueTypeOK ==
    /\ producer \in [Tasks -> {"new", "record", "enqueue", "done", "raised"}]
    /\ files \subseteq Tasks
    /\ row \in [Tasks -> Row]
    /\ leaseFile \in [Tasks -> Lease]
    /\ responses \subseteq Tasks
    /\ letters \subseteq Tasks \X {"failures", "dead_letter"}
    /\ worker \in [Workers -> Worker]
    /\ crashes \in 0 .. MaxCrashes
    /\ dbFaults \in 0 .. MaxDbFaults
    /\ lostAcks \in 0 .. MaxLostAcks

QueueInit ==
    /\ producer = [t \in Tasks |-> "new"]
    /\ files = {}
    /\ row = [t \in Tasks |-> NoRow]
    /\ leaseFile = [t \in Tasks |-> NoLease]
    /\ responses = {}
    /\ letters = {}
    /\ worker = [w \in Workers |-> Fresh]
    /\ crashes = 0
    /\ dbFaults = 0
    /\ lostAcks = 0

-------------------------------------------------------------------------------
(* Transactions.                                                           *)

Outcomes == {"committed", "rolled back", "ack lost"}
TakesEffect(how) == how # "rolled back"
Reported(how)    == how = "committed"

(* How a transaction ends, and the fault that takes.                        *)
Ends(how) ==
    /\ how = "rolled back" => dbFaults < MaxDbFaults
    /\ how = "ack lost" => lostAcks < MaxLostAcks
    /\ dbFaults' = IF how = "rolled back" THEN dbFaults + 1 ELSE dbFaults
    /\ lostAcks' = IF how = "ack lost" THEN lostAcks + 1 ELSE lostAcks
    /\ UNCHANGED crashes

Local(w, pc) == worker' = [worker EXCEPT ![w].pc = pc]
At(w, pc)    == worker[w].pc = pc
TaskOf(w)    == worker[w].task

-------------------------------------------------------------------------------
(* Producer: ArtifactStore.write_request.                                  *)

WriteRequest(t) ==
    /\ producer[t] = "new"
    /\ files' = files \cup {t}
    /\ producer' = [producer EXCEPT ![t] = "record"]
    /\ UNCHANGED <<row, leaseFile, responses, letters, worker, faultVars>>

RecordRequest(t, how) ==
    /\ producer[t] = "record"
    /\ Ends(how)
    /\ producer' = [producer EXCEPT ![t] = IF Reported(how) THEN "enqueue" ELSE "raised"]
    /\ UNCHANGED <<row, worker, diskVars>>

Enqueue(t, how) ==
    /\ producer[t] = "enqueue"
    /\ Ends(how)
    /\ producer' = [producer EXCEPT ![t] = IF Reported(how) THEN "done" ELSE "raised"]
    /\ row' = IF TakesEffect(how) THEN [row EXCEPT ![t].status = "queued"] ELSE row
    /\ UNCHANGED <<worker, diskVars>>

-------------------------------------------------------------------------------
(* Worker: poll_once, consume_request_artifact, claim_artifact.            *)

(* list_pending_requests: every request file there is, also those of tasks  *)
(* that have ended.                                                         *)
ListRequests(w) ==
    /\ At(w, "next")
    /\ worker[w].todo = {}
    /\ files # {}
    /\ worker' = [worker EXCEPT ![w].todo = files]
    /\ UNCHANGED <<producer, row, diskVars, faultVars>>

TakeRequest(w, t) ==
    /\ At(w, "next")
    /\ t \in worker[w].todo
    /\ worker' = [worker EXCEPT ![w].task = t, ![w].todo = @ \ {t}, ![w].pc = "claim",
                                ![w].outcome = "succeeded"]
    /\ UNCHANGED <<producer, row, diskVars, faultVars>>

(* Mutant: a lease file is respected also after it has expired.             *)
ReadLeaseFileForever(w) ==
    /\ At(w, "claim")
    /\ Local(w, IF leaseFile[TaskOf(w)].exists THEN "next" ELSE "select")
    /\ UNCHANGED <<producer, row, diskVars, faultVars>>

ReadLeaseFile(w) ==
    /\ At(w, "claim")
    /\ Local(w, IF leaseFile[TaskOf(w)].left > 0 THEN "next" ELSE "select")
    /\ UNCHANGED <<producer, row, diskVars, faultVars>>

(* Mutant: a task that has ended is handed out again.                       *)
LeasableAgain(r) == r.status # "absent" /\ ~ (r.lease > 0 /\ r.owner # NoWorker)

Leasable(r) ==
    /\ r.status # "absent"
    /\ r.status \notin Terminal
    /\ ~ (r.lease > 0 /\ r.owner # NoWorker)

(* The SELECT of acquire_task_lease; both expiry times are taken here.      *)
SelectForLease(w, how) ==
    /\ At(w, "select")
    /\ how \in {"committed", "rolled back"}
    /\ Ends(how)
    /\ IF Reported(how) /\ Leasable(row[TaskOf(w)])
       THEN worker' = [worker EXCEPT ![w].pc = "lease", ![w].read = row[TaskOf(w)],
                                     ![w].expires = LeaseTicks]
       ELSE Local(w, "next")
    /\ UNCHANGED <<producer, row, diskVars>>

(* Mutant: a lease that could not be committed is used all the same.        *)
CommitLeaseUnchecked(w, how) ==
    /\ At(w, "lease")
    /\ Ends(how)
    /\ row' = IF TakesEffect(how)
              THEN [row EXCEPT ![TaskOf(w)] =
                      [@ EXCEPT !.status = "running", !.owner = w,
                                !.lease = worker[w].expires, !.attempts = @ + 1]]
              ELSE row
    /\ Local(w, "lock")
    /\ UNCHANGED <<producer, diskVars>>

(* Its COMMIT.  The owner is a new uuid and the attempt a new number, so    *)
(* both are always written; the status only when it was not "running".      *)
CommitLease(w, how) ==
    LET read == worker[w].read
        now  == row[TaskOf(w)]
    IN
    /\ At(w, "lease")
    /\ Ends(how)
    /\ row' = IF TakesEffect(how)
              THEN [row EXCEPT ![TaskOf(w)] =
                      [status   |-> IF read.status = "running" THEN now.status ELSE "running",
                       owner    |-> w,
                       lease    |-> worker[w].expires,
                       attempts |-> read.attempts + 1]]
              ELSE row
    /\ Local(w, IF Reported(how) THEN "lock" ELSE "next")
    /\ UNCHANGED <<producer, diskVars>>

WriteLeaseFile(w) ==
    /\ At(w, "lock")
    /\ leaseFile' = [leaseFile EXCEPT ![TaskOf(w)] =
                        [exists |-> TRUE, left |-> worker[w].expires]]
    /\ Local(w, "handle")
    /\ UNCHANGED <<producer, row, files, responses, letters, faultVars>>

-------------------------------------------------------------------------------
(* Worker: handling and the response.                                      *)

GiveUp(w, pc) == worker' = [worker EXCEPT ![w].pc = pc, ![w].outcome = "failed"]

HandlerReturns(w) ==
    /\ At(w, "handle")
    /\ Local(w, "respond")
    /\ UNCHANGED <<producer, row, diskVars, faultVars>>

HandlerRaises(w) ==
    /\ At(w, "handle")
    /\ GiveUp(w, "unlink")
    /\ UNCHANGED <<producer, row, diskVars, faultVars>>

(* Mutant: the response is only recorded, its file is left to a later step. *)
WriteResponseLate(w) ==
    /\ At(w, "respond")
    /\ Local(w, "record")
    /\ UNCHANGED <<producer, row, diskVars, faultVars>>

WriteResponse(w) ==
    /\ At(w, "respond")
    /\ responses' = responses \cup {TaskOf(w)}
    /\ Local(w, "record")
    /\ UNCHANGED <<producer, row, files, leaseFile, letters, faultVars>>

RecordResponse(w, how) ==
    /\ At(w, "record")
    /\ Ends(how)
    /\ IF Reported(how) THEN Local(w, "unlink") ELSE GiveUp(w, "unlink")
    /\ UNCHANGED <<producer, row, diskVars>>

-------------------------------------------------------------------------------
(* Worker: mark_success and mark_failure.                                  *)

(* An exception in mark_success is answered by mark_failure; one in         *)
(* mark_failure leaves run_forever, and the process ends.                   *)
MarkingRaises(w) ==
    IF worker[w].outcome = "succeeded" THEN GiveUp(w, "unlink") ELSE Local(w, "dead")

CheckLeaseFile(w) ==
    /\ At(w, "unlink")
    /\ Local(w, IF leaseFile[TaskOf(w)].exists THEN "remove" ELSE "complete")
    /\ UNCHANGED <<producer, row, diskVars, faultVars>>

(* unlink() raises when another worker was faster.                          *)
RemoveLeaseFile(w) ==
    /\ At(w, "remove")
    /\ leaseFile' = [leaseFile EXCEPT ![TaskOf(w)] = NoLease]
    /\ IF leaseFile[TaskOf(w)].exists THEN Local(w, "complete") ELSE MarkingRaises(w)
    /\ UNCHANGED <<producer, row, files, responses, letters, faultVars>>

SelectForCompletion(w, how) ==
    /\ At(w, "complete")
    /\ how \in {"committed", "rolled back"}
    /\ Ends(how)
    /\ IF Reported(how)
       THEN worker' = [worker EXCEPT ![w].pc = "commit", ![w].read = row[TaskOf(w)]]
       ELSE MarkingRaises(w)
    /\ UNCHANGED <<producer, row, diskVars>>

(* Mutant: the last permitted try does not bury the task.                   *)
ClosedStatusOneMore(w) ==
    IF worker[w].outcome = "failed" /\ worker[w].read.attempts > MaxAttempts
    THEN "dead_letter" ELSE worker[w].outcome

ClosedStatus(w) ==
    IF worker[w].outcome = "failed" /\ worker[w].read.attempts >= MaxAttempts
    THEN "dead_letter" ELSE worker[w].outcome

(* complete_task neither asks who owns the lease nor what the status was.   *)
CommitCompletion(w, how) ==
    LET read == worker[w].read
        now  == row[TaskOf(w)]
    IN
    /\ At(w, "commit")
    /\ Ends(how)
    /\ row' = IF TakesEffect(how)
              THEN [row EXCEPT ![TaskOf(w)] =
                      [status   |-> IF read.status = ClosedStatus(w) THEN now.status
                                    ELSE ClosedStatus(w),
                       owner    |-> IF read.owner = NoWorker THEN now.owner ELSE NoWorker,
                       lease    |-> IF read.owner = NoWorker THEN now.lease ELSE 0,
                       attempts |-> now.attempts]]
              ELSE row
    /\ IF ~ Reported(how) THEN MarkingRaises(w)
       ELSE IF worker[w].outcome = "failed" THEN Local(w, "status")
       ELSE worker' = [worker EXCEPT ![w] = Fresh]
    /\ UNCHANGED <<producer, diskVars>>

(* get_task_status answers None when the query fails.  The exception that   *)
(* made the try fail is raised again, and the process ends.                 *)
FileFailure(w, how) ==
    /\ At(w, "status")
    /\ how \in {"committed", "rolled back"}
    /\ Ends(how)
    /\ letters' = letters \cup
          {<<TaskOf(w), IF Reported(how) /\ row[TaskOf(w)].status = "dead_letter"
                        THEN "dead_letter" ELSE "failures">>}
    /\ Local(w, "dead")
    /\ UNCHANGED <<producer, row, files, leaseFile, responses>>

-------------------------------------------------------------------------------
(* The environment: crashes, restarts and time.                            *)

Crash(w) ==
    /\ ~ At(w, "dead")
    /\ crashes < MaxCrashes
    /\ crashes' = crashes + 1
    /\ Local(w, "dead")
    /\ UNCHANGED <<producer, row, diskVars, dbFaults, lostAcks>>

Restart(w) ==
    /\ At(w, "dead")
    /\ worker' = [worker EXCEPT ![w] = Fresh]
    /\ UNCHANGED <<producer, row, diskVars, faultVars>>

Elapse(n) == IF n > 0 THEN n - 1 ELSE 0

Tick ==
    /\ row' = [t \in Tasks |-> [row[t] EXCEPT !.lease = Elapse(@)]]
    /\ leaseFile' = [t \in Tasks |-> [leaseFile[t] EXCEPT !.left = Elapse(@)]]
    /\ worker' = [w \in Workers |-> [worker[w] EXCEPT !.expires = Elapse(@)]]
    /\ <<row', leaseFile', worker'>> # <<row, leaseFile, worker>>
    /\ UNCHANGED <<producer, files, responses, letters, faultVars>>

-------------------------------------------------------------------------------
Produce(t) ==
    \/ WriteRequest(t)
    \/ \E how \in Outcomes : RecordRequest(t, how) \/ Enqueue(t, how)

Claim(w) ==
    \/ ListRequests(w)
    \/ \E t \in Tasks : TakeRequest(w, t)
    \/ ReadLeaseFile(w)
    \/ \E how \in Outcomes : SelectForLease(w, how) \/ CommitLease(w, how)
    \/ WriteLeaseFile(w)

Answer(w) ==
    \/ HandlerReturns(w)
    \/ HandlerRaises(w)
    \/ WriteResponse(w)
    \/ \E how \in Outcomes : RecordResponse(w, how)

Close(w) ==
    \/ CheckLeaseFile(w)
    \/ RemoveLeaseFile(w)
    \/ \E how \in Outcomes : SelectForCompletion(w, how) \/ CommitCompletion(w, how)
                             \/ FileFailure(w, how)

Work(w) == Claim(w) \/ Answer(w) \/ Close(w) \/ Restart(w)

QueueNext ==
    \/ \E t \in Tasks : Produce(t)
    \/ \E w \in Workers : Work(w) \/ Crash(w)
    \/ Tick

QueueSpec == QueueInit /\ [][QueueNext]_queueVars

(* A worker process goes on, and is started again when it has ended; time   *)
(* passes.  Producers need not submit anything.                             *)
QueueFairSpec ==
    /\ QueueSpec
    /\ \A w \in Workers : WF_queueVars(Work(w))
    /\ WF_queueVars(Tick)

-------------------------------------------------------------------------------
(* Properties.                                                             *)

(* A row says "succeeded" only when the response is on disk, with any       *)
(* number of workers, crashes, expired leases and lost commits.             *)
SucceededHasResponse == \A t \in Tasks : row[t].status = "succeeded" => t \in responses

(* With one worker: what it works on is its own.  From the lease to the     *)
(* commit of the completion the row is "running" in its name.               *)
WorkerOwnsItsTask ==
    \A w \in Workers : worker[w].pc \in Claimed =>
        row[TaskOf(w)].status = "running" /\ row[TaskOf(w)].owner = w

Lifecycle == INSTANCE TaskLifecycle
    WITH status <- [t \in Tasks |-> row[t].status],
         tries <- [t \in Tasks |-> row[t].attempts],
         responded <- responses

ImplementsLifecycle == Lifecycle!LifecycleSpec

(* Every task that is queued ends: crashes, rolled-back transactions and    *)
(* handlers that raise only delay it, by the time a lease takes to expire.  *)
EveryTaskEnds ==
    \A t \in Tasks : (row[t].status = "queued") ~> (row[t].status \in Terminal)
=============================================================================
