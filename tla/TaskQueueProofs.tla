---------------------------- MODULE TaskQueueProofs ----------------------------
(***************************************************************************)
(* Proofs about TaskQueue, for any number of tasks, workers, crashes,      *)
(* rolled-back transactions and lost acknowledgements.                     *)
(***************************************************************************)
EXTENDS TaskQueue, TLAPS

(* The part of the type invariant the argument rests on.  The bound that    *)
(* QueueTypeOK puts on attempts is a consequence of the bounds on faults    *)
(* and plays no part in it.                                                 *)
RowShape == [status : Statuses, owner : Workers \cup {NoWorker}, lease : 0 .. LeaseTicks,
             attempts : Nat]
WorkerShape == [pc : WorkerPc, task : Tasks \cup {NoTask}, todo : SUBSET Tasks,
                read : RowShape, outcome : {"succeeded", "failed"},
                expires : 0 .. LeaseTicks]

QueueShape ==
    /\ files \subseteq Tasks
    /\ row \in [Tasks -> RowShape]
    /\ worker \in [Workers -> WorkerShape]
    /\ \A w \in Workers : worker[w].pc \notin {"next", "dead"} => TaskOf(w) \in Tasks

(* Once it has a result to close the row with, a worker that still means to *)
(* say "succeeded" has written the response.                                *)
Closing == {"record", "unlink", "remove", "complete", "commit"}

RespondedFirst ==
    \A w \in Workers :
        worker[w].pc \in Closing /\ worker[w].outcome = "succeeded" => TaskOf(w) \in responses

QueueInv == QueueShape /\ RespondedFirst /\ SucceededHasResponse

-------------------------------------------------------------------------------
LEMMA FreshShape == NoRow \in RowShape /\ Fresh \in WorkerShape
BY QueueAssumption DEF NoRow, RowShape, Statuses, Fresh, WorkerShape, WorkerPc

LEMMA InitQueueInv == QueueInit => QueueInv
<1> SUFFICES ASSUME QueueInit
             PROVE  QueueInv
  OBVIOUS
<1>1. QueueShape
  <2>1. \A w \in Workers : worker[w].pc = "next"
    BY DEF QueueInit, Fresh
  <2> QED BY <2>1, FreshShape DEF QueueInit, QueueShape
<1>2. RespondedFirst
  BY DEF QueueInit, RespondedFirst, Closing, Fresh
<1>3. SucceededHasResponse
  BY DEF QueueInit, SucceededHasResponse, NoRow
<1> QED BY <1>1, <1>2, <1>3 DEF QueueInv

(* A worker's step from pc to pc, all else of the worker as it was: what    *)
(* Local does to the shape.                                                 *)
LEMMA LocalShape ==
  ASSUME QueueShape, NEW w \in Workers, NEW pc \in WorkerPc, Local(w, pc),
         pc \notin {"next", "dead"} => TaskOf(w) \in Tasks,
         files' \subseteq Tasks, row' \in [Tasks -> RowShape]
  PROVE  QueueShape' /\ \A v \in Workers : /\ TaskOf(v)' = TaskOf(v)
                                           /\ worker'[v].outcome = worker[v].outcome
                                           /\ worker'[v].pc = IF v = w THEN pc ELSE worker[v].pc
BY DEF QueueShape, Local, TaskOf, WorkerShape

(* Giving up keeps the shape and withdraws the claim of success.            *)
LEMMA GiveUpShape ==
  ASSUME QueueShape, NEW w \in Workers, NEW pc \in WorkerPc, GiveUp(w, pc),
         TaskOf(w) \in Tasks, files' \subseteq Tasks, row' \in [Tasks -> RowShape]
  PROVE  QueueShape' /\ \A v \in Workers : /\ TaskOf(v)' = TaskOf(v)
                                           /\ v # w => worker'[v] = worker[v]
                                           /\ worker'[w].outcome = "failed"
<1>1. worker \in [Workers -> WorkerShape] /\ worker' = [worker EXCEPT ![w].pc = pc, ![w].outcome = "failed"]
  BY DEF QueueShape, GiveUp
<1>2. /\ worker' \in [Workers -> WorkerShape]
      /\ worker'[w].task = worker[w].task /\ worker'[w].outcome = "failed"
      /\ \A v \in Workers \ {w} : worker'[v] = worker[v]
  BY <1>1 DEF WorkerShape
<1> QED BY <1>2 DEF QueueShape, TaskOf

-------------------------------------------------------------------------------
(* The producer touches only rows of tasks that were not yet queued or are  *)
(* queued again, never towards "succeeded".                                 *)
LEMMA ProduceKeepsInv ==
  ASSUME QueueInv, NEW t \in Tasks, Produce(t)
  PROVE  QueueInv'
<1> USE DEF QueueInv
<1>1. /\ UNCHANGED <<worker, responses>>
      /\ files' \subseteq Tasks
      /\ row' = row \/ row' = [row EXCEPT ![t].status = "queued"]
  BY DEF Produce, WriteRequest, RecordRequest, Enqueue, diskVars, QueueShape
<1>2. row' \in [Tasks -> RowShape] /\ \A u \in Tasks : row'[u].status \in {row[u].status, "queued"}
  BY <1>1 DEF QueueShape, RowShape, Statuses
<1>3. QueueShape' /\ RespondedFirst' /\ SucceededHasResponse'
  BY <1>1, <1>2 DEF QueueShape, RespondedFirst, SucceededHasResponse, TaskOf
<1> QED BY <1>3

(* Up to the lease nothing is claimed of a response; the lease itself makes *)
(* a row "running" or leaves its status alone.                              *)
LEMMA ClaimKeepsInv ==
  ASSUME QueueInv, NEW w \in Workers, Claim(w)
  PROVE  QueueInv'
<1> USE DEF QueueInv
<1>1. CASE ListRequests(w)
  <2>1. /\ worker' = [worker EXCEPT ![w].todo = files]
        /\ UNCHANGED <<row, files, responses>>
    BY <1>1 DEF ListRequests, diskVars
  <2> QED BY <2>1 DEF QueueShape, WorkerShape, RespondedFirst, SucceededHasResponse, TaskOf
<1>2. CASE \E t \in Tasks : TakeRequest(w, t)
  <2>1. PICK t \in Tasks : TakeRequest(w, t)
    BY <1>2
  <2>2. /\ worker' = [worker EXCEPT ![w].task = t, ![w].todo = @ \ {t}, ![w].pc = "claim",
                                    ![w].outcome = "succeeded"]
        /\ UNCHANGED <<row, files, responses>>
    BY <2>1 DEF TakeRequest, diskVars
  <2>3. /\ worker' \in [Workers -> WorkerShape]
        /\ worker'[w].pc = "claim" /\ worker'[w].task = t
        /\ \A v \in Workers \ {w} : worker'[v] = worker[v]
    <3>1. worker \in [Workers -> WorkerShape] /\ "claim" \in WorkerPc
      BY DEF QueueShape, WorkerPc
    <3>2. \A v \in Workers \ {w} : worker'[v] = worker[v]
      BY <2>2, <3>1
    <3>3. worker' = [worker EXCEPT ![w] = [worker[w] EXCEPT
                       !.task = t, !.todo = worker[w].todo \ {t}, !.pc = "claim",
                       !.outcome = "succeeded"]]
      BY <2>2, <3>1 DEF WorkerShape
    <3>4. worker' \in [Workers -> WorkerShape] /\ worker'[w].pc = "claim" /\ worker'[w].task = t
      BY <3>1, <3>3 DEF WorkerShape
    <3> QED BY <3>2, <3>4
  <2> QED BY <2>2, <2>3 DEF QueueShape, RespondedFirst, SucceededHasResponse, TaskOf, Closing
<1>3. CASE ReadLeaseFile(w)
  <2>1. PICK pc \in {"next", "select"} : Local(w, pc)
    BY <1>3 DEF ReadLeaseFile
  <2>2. /\ worker[w].pc = "claim" /\ TaskOf(w) \in Tasks
        /\ UNCHANGED <<row, files, responses>>
    BY <1>3 DEF ReadLeaseFile, At, QueueShape, diskVars
  <2>3. pc \in WorkerPc /\ pc \notin Closing
    BY DEF WorkerPc, Claimed, Closing
  <2> QED BY <2>1, <2>2, <2>3, LocalShape DEF QueueShape, RespondedFirst, SucceededHasResponse
<1>4. CASE \E how \in Outcomes : SelectForLease(w, how)
  <2>1. /\ worker[w].pc = "select" /\ TaskOf(w) \in Tasks
        /\ UNCHANGED <<row, files, responses>>
    BY <1>4 DEF SelectForLease, At, QueueShape, diskVars
  <2>2. CASE Local(w, "next")
    BY <2>1, <2>2, LocalShape DEF QueueShape, RespondedFirst, SucceededHasResponse, WorkerPc,
                              Claimed, Closing
  <2>3. CASE worker' = [worker EXCEPT ![w].pc = "lease", ![w].read = row[TaskOf(w)],
                                      ![w].expires = LeaseTicks]
    <3>1. /\ worker' \in [Workers -> WorkerShape]
          /\ worker'[w].pc = "lease" /\ worker'[w].task = worker[w].task
          /\ \A v \in Workers \ {w} : worker'[v] = worker[v]
      <4>1. /\ worker \in [Workers -> WorkerShape] /\ row[TaskOf(w)] \in RowShape
            /\ "lease" \in WorkerPc /\ LeaseTicks \in 0 .. LeaseTicks
        BY <2>1, QueueAssumption DEF QueueShape, WorkerPc
      <4> QED BY <2>3, <4>1 DEF WorkerShape
    <3> QED BY <2>1, <3>1 DEF QueueShape, RespondedFirst, SucceededHasResponse, TaskOf, Closing
  <2> QED BY <1>4, <2>2, <2>3 DEF SelectForLease
<1>5. CASE \E how \in Outcomes : CommitLease(w, how)
  <2>1. PICK how \in Outcomes : CommitLease(w, how)
    BY <1>5
  <2>2. PICK pc \in {"next", "lock"} : Local(w, pc)
    BY <2>1 DEF CommitLease
  <2>3. /\ worker[w].pc = "lease" /\ TaskOf(w) \in Tasks
        /\ UNCHANGED <<files, responses>>
    BY <2>1 DEF CommitLease, At, QueueShape, diskVars
  <2>4. /\ row' \in [Tasks -> RowShape]
        /\ \A t \in Tasks : row'[t].status \in {row[t].status, "running"}
    BY <2>1, <2>3 DEF CommitLease, QueueShape, RowShape, WorkerShape, Statuses
  <2>5. pc \in WorkerPc /\ pc \notin Closing
    BY DEF WorkerPc, Claimed, Closing
  <2> QED BY <2>2, <2>3, <2>4, <2>5, LocalShape DEF QueueShape, RespondedFirst, SucceededHasResponse
<1>6. CASE WriteLeaseFile(w)
  <2>1. /\ worker[w].pc = "lock" /\ TaskOf(w) \in Tasks /\ Local(w, "handle")
        /\ UNCHANGED <<row, files, responses>>
    BY <1>6 DEF WriteLeaseFile, At, QueueShape
  <2> QED BY <2>1, LocalShape DEF QueueShape, RespondedFirst, SucceededHasResponse, WorkerPc,
                              Claimed, Closing
<1> QED BY <1>1, <1>2, <1>3, <1>4, <1>5, <1>6 DEF Claim

-------------------------------------------------------------------------------
(* A worker that moves on among the pcs it may still claim success from, or *)
(* out of them, and one that gives up, claim nothing they did not claim     *)
(* before.                                                                  *)
LEMMA MoveKeepsInv ==
  ASSUME QueueInv, NEW w \in Workers, NEW pc \in WorkerPc,
         Local(w, pc) \/ GiveUp(w, pc), TaskOf(w) \in Tasks,
         Local(w, pc) /\ pc \in Closing => worker[w].pc \in Closing \/ TaskOf(w) \in responses',
         UNCHANGED <<files, row>>, responses \subseteq responses'
  PROVE  QueueInv'
<1> USE DEF QueueInv
<1>0. files' \subseteq Tasks /\ row' \in [Tasks -> RowShape]
  BY DEF QueueShape
<1>1. SucceededHasResponse'
  BY DEF SucceededHasResponse
<1>2. CASE Local(w, pc)
  BY <1>0, <1>1, <1>2, LocalShape DEF RespondedFirst
<1>3. CASE GiveUp(w, pc)
  BY <1>0, <1>1, <1>3, GiveUpShape DEF RespondedFirst
<1> QED BY <1>2, <1>3

(* A response is written before the first pc of Closing is reached; a       *)
(* handler that raises, and a record that fails, take the claim back.       *)
LEMMA AnswerKeepsInv ==
  ASSUME QueueInv, NEW w \in Workers, Answer(w)
  PROVE  QueueInv'
<1> USE DEF QueueInv
<1>0. {"respond", "unlink", "record"} \subseteq WorkerPc
  BY DEF WorkerPc, Claimed
<1>1. CASE HandlerReturns(w)
  <2>1. /\ Local(w, "respond") /\ TaskOf(w) \in Tasks
        /\ UNCHANGED <<files, row, responses>>
    BY <1>1 DEF HandlerReturns, At, QueueShape, diskVars
  <2> QED BY <1>0, <2>1, MoveKeepsInv DEF Closing
<1>2. CASE HandlerRaises(w)
  <2>1. /\ worker[w].pc = "handle" /\ GiveUp(w, "unlink") /\ TaskOf(w) \in Tasks
        /\ UNCHANGED <<files, row, responses>>
    BY <1>2 DEF HandlerRaises, At, QueueShape, diskVars
  <2>2. ~ Local(w, "unlink") \/ worker[w].outcome = "failed"
    BY <2>1 DEF Local, GiveUp, QueueShape, WorkerShape
  <2>3. worker' \in [Workers -> WorkerShape]
    BY <1>0, <2>1, GiveUpShape DEF QueueShape
  <2> QED BY <1>0, <2>1, GiveUpShape DEF QueueShape, RespondedFirst, SucceededHasResponse
<1>3. CASE WriteResponse(w)
  <2>1. /\ Local(w, "record") /\ TaskOf(w) \in Tasks
        /\ responses' = responses \cup {TaskOf(w)}
        /\ UNCHANGED <<files, row>>
    BY <1>3 DEF WriteResponse, At, QueueShape
  <2> QED BY <1>0, <2>1, MoveKeepsInv
<1>4. CASE \E how \in Outcomes : RecordResponse(w, how)
  <2>1. /\ worker[w].pc = "record" /\ TaskOf(w) \in Tasks
        /\ Local(w, "unlink") \/ GiveUp(w, "unlink")
        /\ UNCHANGED <<files, row, responses>>
    BY <1>4 DEF RecordResponse, At, QueueShape, diskVars
  <2> QED BY <1>0, <2>1, MoveKeepsInv DEF Closing
<1> QED BY <1>1, <1>2, <1>3, <1>4 DEF Answer

-------------------------------------------------------------------------------
(* The commit that closes a row writes "succeeded" only for a worker whose  *)
(* outcome says so, and the response of that worker's task is there.        *)
LEMMA ClosingRow ==
  ASSUME QueueInv, NEW w \in Workers, NEW how \in Outcomes, CommitCompletion(w, how)
  PROVE  /\ row' \in [Tasks -> RowShape]
         /\ \A t \in Tasks : row'[t].status = "succeeded" => t \in responses
<1>1. /\ worker[w].pc = "commit" /\ TaskOf(w) \in Tasks
      /\ row \in [Tasks -> RowShape] /\ worker[w] \in WorkerShape
      /\ \A t \in Tasks : row[t].status = "succeeded" => t \in responses
  BY DEF CommitCompletion, At, QueueInv, QueueShape, SucceededHasResponse
<1>2. /\ ClosedStatus(w) \in Statuses
      /\ ClosedStatus(w) = "succeeded" => TaskOf(w) \in responses
  BY <1>1 DEF ClosedStatus, WorkerShape, Statuses, QueueInv, RespondedFirst, Closing
<1>3. CASE TakesEffect(how)
  <2>1. row' = [row EXCEPT ![TaskOf(w)] =
                  [status   |-> row'[TaskOf(w)].status,
                   owner    |-> row'[TaskOf(w)].owner,
                   lease    |-> row'[TaskOf(w)].lease,
                   attempts |-> row[TaskOf(w)].attempts]]
    BY <1>1, <1>3 DEF CommitCompletion
  <2>2. /\ row'[TaskOf(w)].status \in {row[TaskOf(w)].status, ClosedStatus(w)}
        /\ row'[TaskOf(w)].owner \in {row[TaskOf(w)].owner, NoWorker}
        /\ row'[TaskOf(w)].lease \in {row[TaskOf(w)].lease, 0}
    BY <1>1, <1>3 DEF CommitCompletion
  <2>3. \A t \in Tasks : t # TaskOf(w) => row'[t] = row[t]
    BY <1>1, <1>3 DEF CommitCompletion
  <2>4. row' \in [Tasks -> RowShape]
    BY <1>1, <1>2, <2>1, <2>2, QueueAssumption DEF RowShape
  <2> QED BY <1>1, <1>2, <2>2, <2>3, <2>4
<1>4. CASE ~ TakesEffect(how)
  BY <1>1, <1>4 DEF CommitCompletion
<1> QED BY <1>3, <1>4

LEMMA CloseKeepsInv ==
  ASSUME QueueInv, NEW w \in Workers, Close(w)
  PROVE  QueueInv'
<1> USE DEF QueueInv
<1>0. {"remove", "complete", "unlink", "dead", "status"} \subseteq WorkerPc
  BY DEF WorkerPc, Claimed
<1>1. CASE CheckLeaseFile(w)
  <2>1. /\ worker[w].pc \in Closing /\ TaskOf(w) \in Tasks
        /\ Local(w, "remove") \/ Local(w, "complete")
        /\ UNCHANGED <<files, row, responses>>
    BY <1>1 DEF CheckLeaseFile, At, QueueShape, diskVars, Closing
  <2> QED BY <1>0, <2>1, MoveKeepsInv
<1>2. CASE RemoveLeaseFile(w)
  <2>1. /\ worker[w].pc \in Closing /\ TaskOf(w) \in Tasks
        /\ Local(w, "complete") \/ GiveUp(w, "unlink") \/ Local(w, "dead")
        /\ UNCHANGED <<files, row, responses>>
    BY <1>2 DEF RemoveLeaseFile, MarkingRaises, At, QueueShape, Closing
  <2> QED BY <1>0, <2>1, MoveKeepsInv
<1>3. CASE \E how \in Outcomes : SelectForCompletion(w, how)
  <2>1. /\ worker[w].pc = "complete" /\ TaskOf(w) \in Tasks
        /\ UNCHANGED <<files, row, responses>>
    BY <1>3 DEF SelectForCompletion, At, QueueShape, diskVars
  <2>2. CASE worker' = [worker EXCEPT ![w].pc = "commit", ![w].read = row[TaskOf(w)]]
    <3>1. /\ worker' \in [Workers -> WorkerShape]
          /\ worker'[w].task = worker[w].task /\ worker'[w].outcome = worker[w].outcome
          /\ \A v \in Workers \ {w} : worker'[v] = worker[v]
      <4>1. /\ worker \in [Workers -> WorkerShape] /\ row[TaskOf(w)] \in RowShape
            /\ "commit" \in WorkerPc
        BY <2>1 DEF QueueShape, WorkerPc, Claimed
      <4> QED BY <2>2, <4>1 DEF WorkerShape
    <3> QED BY <2>1, <3>1 DEF QueueShape, RespondedFirst, SucceededHasResponse, TaskOf, Closing
  <2>3. CASE GiveUp(w, "unlink") \/ Local(w, "dead")
    BY <1>0, <2>1, <2>3, MoveKeepsInv DEF Closing
  <2> QED BY <1>3, <2>2, <2>3 DEF SelectForCompletion, MarkingRaises
<1>4. CASE \E how \in Outcomes : CommitCompletion(w, how)
  <2>1. PICK how \in Outcomes : CommitCompletion(w, how)
    BY <1>4
  <2>2. /\ worker[w].pc = "commit" /\ TaskOf(w) \in Tasks
        /\ UNCHANGED <<files, responses>> /\ files' \subseteq Tasks
    BY <2>1 DEF CommitCompletion, At, QueueShape, diskVars
  <2>3. row' \in [Tasks -> RowShape] /\ SucceededHasResponse'
    BY <2>1, <2>2, ClosingRow DEF SucceededHasResponse
  <2>4. CASE Local(w, "dead") \/ Local(w, "status")
    BY <1>0, <2>2, <2>3, <2>4, LocalShape DEF RespondedFirst, Closing
  <2>5. CASE GiveUp(w, "unlink")
    BY <1>0, <2>2, <2>3, <2>5, GiveUpShape DEF RespondedFirst
  <2>6. CASE worker' = [worker EXCEPT ![w] = Fresh]
    <3>1. /\ worker' \in [Workers -> WorkerShape] /\ worker'[w].pc = "next"
          /\ \A v \in Workers \ {w} : worker'[v] = worker[v]
      BY <2>6, FreshShape DEF QueueShape, Fresh
    <3> QED BY <2>2, <2>3, <3>1 DEF QueueShape, RespondedFirst, TaskOf, Closing
  <2> QED BY <2>1, <2>4, <2>5, <2>6 DEF CommitCompletion, MarkingRaises
<1>5. CASE \E how \in Outcomes : FileFailure(w, how)
  <2>1. /\ Local(w, "dead") /\ TaskOf(w) \in Tasks /\ UNCHANGED <<files, row, responses>>
    BY <1>5 DEF FileFailure, At, QueueShape
  <2> QED BY <1>0, <2>1, MoveKeepsInv DEF Closing
<1> QED BY <1>1, <1>2, <1>3, <1>4, <1>5 DEF Close

-------------------------------------------------------------------------------
(* A crash or a restart loses the worker's claim, never the response.       *)
LEMMA DownKeepsInv ==
  ASSUME QueueInv, NEW w \in Workers, Crash(w) \/ Restart(w)
  PROVE  QueueInv'
<1> USE DEF QueueInv
<1>1. UNCHANGED <<files, row, responses>>
  BY DEF Crash, Restart, diskVars
<1>2. /\ worker' \in [Workers -> WorkerShape] /\ worker'[w].pc \in {"next", "dead"}
      /\ \A v \in Workers \ {w} : worker'[v] = worker[v]
  <2>1. worker \in [Workers -> WorkerShape] /\ "dead" \in WorkerPc
    BY DEF QueueShape, WorkerPc
  <2>2. CASE worker' = [worker EXCEPT ![w].pc = "dead"]
    BY <2>1, <2>2 DEF WorkerShape
  <2>3. CASE worker' = [worker EXCEPT ![w] = Fresh]
    BY <2>1, <2>3, FreshShape DEF Fresh
  <2> QED BY <2>2, <2>3 DEF Crash, Restart, Local
<1> QED BY <1>1, <1>2 DEF QueueShape, RespondedFirst, SucceededHasResponse, TaskOf, Closing

(* Time touches leases only.                                                *)
LEMMA TickKeepsInv ==
  ASSUME QueueInv, Tick
  PROVE  QueueInv'
<1> USE DEF QueueInv
<1>1. \A n \in 0 .. LeaseTicks : Elapse(n) \in 0 .. LeaseTicks
  BY QueueAssumption DEF Elapse
<1>2. row' \in [Tasks -> RowShape] /\ \A t \in Tasks : row'[t].status = row[t].status
  BY <1>1 DEF Tick, QueueShape, RowShape
<1>3. /\ worker' \in [Workers -> WorkerShape]
      /\ \A w \in Workers : /\ worker'[w].pc = worker[w].pc
                            /\ worker'[w].task = worker[w].task
                            /\ worker'[w].outcome = worker[w].outcome
  BY <1>1 DEF Tick, QueueShape, WorkerShape
<1>4. UNCHANGED <<files, responses>>
  BY DEF Tick
<1> QED BY <1>2, <1>3, <1>4 DEF QueueShape, RespondedFirst, SucceededHasResponse, TaskOf

-------------------------------------------------------------------------------
(* The shape of the queue, and that a claim of success always has its       *)
(* response behind it, hold for any number of workers and any faults.       *)
THEOREM QueueInvariant == QueueSpec => []QueueInv
<1>1. QueueInv /\ [QueueNext]_queueVars => QueueInv'
  <2> SUFFICES ASSUME QueueInv, [QueueNext]_queueVars
               PROVE  QueueInv'
    OBVIOUS
  <2>1. CASE \E t \in Tasks : Produce(t)
    BY <2>1, ProduceKeepsInv
  <2>2. CASE \E w \in Workers : Work(w) \/ Crash(w)
    BY <2>2, ClaimKeepsInv, AnswerKeepsInv, CloseKeepsInv, DownKeepsInv DEF Work
  <2>3. CASE Tick
    BY <2>3, TickKeepsInv
  <2>4. CASE UNCHANGED queueVars
    BY <2>4 DEF queueVars, diskVars, QueueInv, QueueShape, RespondedFirst,
                SucceededHasResponse, TaskOf
  <2> QED BY <2>1, <2>2, <2>3, <2>4 DEF QueueNext
<1> QED BY InitQueueInv, <1>1, PTL DEF QueueSpec

(* Whatever crashes, expires or is rolled back or lost, and however many    *)
(* workers hold the same task at once: a row says "succeeded" only when the *)
(* response is on disk (consume_request_artifact, complete_task).           *)
THEOREM SuccessHasResponse == QueueSpec => []SucceededHasResponse
<1>1. QueueInv => SucceededHasResponse
  BY DEF QueueInv
<1> QED BY QueueInvariant, <1>1, PTL

-------------------------------------------------------------------------------
(* One worker serves the queue.  Then a row it has read is the row it       *)
(* writes, and every try that does not end the task has cost a fault.       *)
OneWorker == \A v, w \in Workers : v = w

Spent == crashes + dbFaults + lostAcks

Busy(t) == \E w \in Workers : worker[w].pc \in Claimed /\ TaskOf(w) = t

SoloTypes ==
    /\ producer \in [Tasks -> {"new", "record", "enqueue", "done", "raised"}]
    /\ leaseFile \in [Tasks -> Lease]
    /\ responses \subseteq Tasks
    /\ letters \subseteq Tasks \X {"failures", "dead_letter"}
    /\ crashes \in 0 .. MaxCrashes /\ dbFaults \in 0 .. MaxDbFaults
    /\ lostAcks \in 0 .. MaxLostAcks

ProducerFirst ==
    \A t \in Tasks : producer[t] \in {"new", "record", "enqueue"}
                        => row[t].status = "absent" /\ row[t].attempts = 0

ReadIsRow ==
    \A w \in Workers :
        /\ worker[w].pc \in Claimed => row[TaskOf(w)].status # "absent"
        /\ worker[w].pc \in {"lease", "commit"} =>
              /\ worker[w].read.status = row[TaskOf(w)].status
              /\ worker[w].read.owner = row[TaskOf(w)].owner
              /\ worker[w].read.attempts = row[TaskOf(w)].attempts
        /\ worker[w].pc = "lease" => row[TaskOf(w)].status \notin Terminal \cup {"absent"}

FileIsThere == \A w \in Workers : worker[w].pc = "remove" => leaseFile[TaskOf(w)].exists

TriesBounded ==
    /\ \A t \in Tasks :
          /\ row[t].attempts <= MaxAttempts + Spent
          /\ row[t].status \notin Terminal /\ ~ Busy(t) => row[t].attempts < MaxAttempts + Spent
    /\ \A w \in Workers : worker[w].read.attempts <= MaxAttempts + Spent

SoloInv == SoloTypes /\ ProducerFirst /\ ReadIsRow /\ FileIsThere /\ TriesBounded

LEMMA InitSoloInv == QueueInit => SoloInv
<1> SUFFICES ASSUME QueueInit PROVE SoloInv
  OBVIOUS
<1>1. SoloTypes /\ Spent = 0
  BY QueueAssumption DEF QueueInit, SoloTypes, Spent, NoLease, Lease
<1>2. \A t \in Tasks : row[t] = NoRow /\ \A w \in Workers : worker[w] = Fresh
  BY DEF QueueInit
<1>3. ProducerFirst /\ ReadIsRow /\ FileIsThere
  BY DEF QueueInit, ProducerFirst, ReadIsRow, FileIsThere, NoRow, Fresh, Claimed
<1>4. TriesBounded
  BY <1>1, QueueAssumption DEF QueueInit, TriesBounded, NoRow, Fresh
<1> QED BY <1>1, <1>3, <1>4 DEF SoloInv

LEMMA BoundsAreNat ==
  MaxCrashes \in Nat /\ MaxDbFaults \in Nat /\ MaxLostAcks \in Nat /\ MaxAttempts \in Nat \ {0}
<1>1. {MaxCrashes, MaxDbFaults, MaxLostAcks} \subseteq Nat
  BY QueueAssumption
<1> QED BY <1>1, QueueAssumption

LEMMA SpentIsNat == SoloTypes => Spent \in Nat /\ Spent <= MaxCrashes + MaxDbFaults + MaxLostAcks
BY BoundsAreNat DEF SoloTypes, Spent

LEMMA SpentStaysNat == SoloTypes' => Spent' \in Nat
<1>1. SoloTypes' => crashes' \in Nat /\ dbFaults' \in Nat /\ lostAcks' \in Nat
  BY BoundsAreNat DEF SoloTypes
<1> QED BY <1>1 DEF Spent

LEMMA LocalIs ==
  ASSUME QueueShape, NEW w \in Workers, NEW pc, Local(w, pc)
  PROVE  /\ worker'[w].pc = pc
         /\ worker'[w].task = worker[w].task /\ worker'[w].read = worker[w].read
         /\ worker'[w].outcome = worker[w].outcome
BY DEF QueueShape, Local, WorkerShape

LEMMA GiveUpIs ==
  ASSUME QueueShape, NEW w \in Workers, NEW pc, GiveUp(w, pc)
  PROVE  /\ worker'[w].pc = pc
         /\ worker'[w].task = worker[w].task /\ worker'[w].read = worker[w].read
         /\ worker'[w].outcome = "failed"
<1>1. worker \in [Workers -> WorkerShape]
      /\ worker' = [worker EXCEPT ![w] = [worker[w] EXCEPT !.pc = pc, !.outcome = "failed"]]
  BY DEF QueueShape, GiveUp
<1> QED BY <1>1 DEF WorkerShape

(* How a transaction ends shows in what has been spent.                     *)
LEMMA EndsSpent ==
  ASSUME SoloTypes, NEW how \in Outcomes, Ends(how)
  PROVE  /\ crashes' \in 0 .. MaxCrashes /\ dbFaults' \in 0 .. MaxDbFaults
         /\ lostAcks' \in 0 .. MaxLostAcks
         /\ Spent' = IF how = "committed" THEN Spent ELSE Spent + 1
<1>1. /\ crashes \in Nat /\ dbFaults \in Nat /\ lostAcks \in Nat
      /\ crashes <= MaxCrashes /\ dbFaults <= MaxDbFaults /\ lostAcks <= MaxLostAcks
  BY BoundsAreNat DEF SoloTypes
<1>2. CASE how = "committed"
  BY <1>1, <1>2, BoundsAreNat DEF Ends, Spent
<1>3. CASE how = "rolled back"
  <2>1. crashes' = crashes /\ dbFaults' = dbFaults + 1 /\ lostAcks' = lostAcks
    BY <1>3 DEF Ends
  <2>2. dbFaults < MaxDbFaults
    BY <1>3 DEF Ends
  <2>3. Spent' = Spent + 1
    BY <1>1, <2>1 DEF Spent
  <2>4. dbFaults' \in 0 .. MaxDbFaults
    BY <1>1, <2>1, <2>2, BoundsAreNat
  <2>5. crashes' \in 0 .. MaxCrashes /\ lostAcks' \in 0 .. MaxLostAcks
    BY <1>1, <2>1, BoundsAreNat
  <2> QED BY <1>3, <2>3, <2>4, <2>5
<1>4. CASE how = "ack lost"
  <2>1. crashes' = crashes /\ dbFaults' = dbFaults /\ lostAcks' = lostAcks + 1
    BY <1>4 DEF Ends
  <2>2. lostAcks < MaxLostAcks
    BY <1>4 DEF Ends
  <2>3. Spent' = Spent + 1
    BY <1>1, <2>1 DEF Spent
  <2>4. lostAcks' \in 0 .. MaxLostAcks
    BY <1>1, <2>1, <2>2, BoundsAreNat
  <2>5. crashes' \in 0 .. MaxCrashes /\ dbFaults' \in 0 .. MaxDbFaults
    BY <1>1, <2>1, BoundsAreNat
  <2> QED BY <1>4, <2>3, <2>4, <2>5
<1> QED BY <1>2, <1>3, <1>4 DEF Outcomes

(* A step of the worker that leaves rows and lease file as they are: it     *)
(* stays on its task, or leaves it by a fault.                              *)
LEMMA MoveSolo ==
  ASSUME OneWorker, QueueInv, QueueInv', SoloInv, SoloTypes', NEW w \in Workers,
         UNCHANGED <<row, producer>>, Spent <= Spent',
         worker'[w].read \in {worker[w].read, NoRow},
         worker'[w].pc \notin {"lease", "commit", "remove"},
         worker'[w].pc \in Claimed =>
             worker[w].pc \in Claimed /\ worker'[w].task = worker[w].task,
         worker[w].pc \in Claimed /\ worker'[w].pc \notin Claimed => Spent < Spent'
  PROVE  SoloInv'
<1>1. \A v \in Workers : v = w
  BY DEF OneWorker
<1>2. Spent \in Nat /\ Spent' \in Nat /\ MaxAttempts \in Nat \ {0}
  BY SpentIsNat, SpentStaysNat, BoundsAreNat DEF SoloInv
<1>3. ProducerFirst' /\ FileIsThere'
  BY <1>1 DEF SoloInv, ProducerFirst, FileIsThere
<1>4. ReadIsRow'
  BY <1>1 DEF SoloInv, ReadIsRow, TaskOf
<1>5. TriesBounded'
  <2>1. ASSUME NEW t \in Tasks, row[t].status \notin Terminal, ~ Busy(t)'
        PROVE  row[t].attempts < MaxAttempts + Spent'
    <3>1. row[t].attempts \in Nat
      BY DEF QueueInv, QueueShape, RowShape
    <3>2. CASE Busy(t)
      <4>1. worker[w].pc \in Claimed /\ worker'[w].pc \notin Claimed
        BY <1>1, <2>1, <3>2 DEF Busy, TaskOf
      <4> QED BY <1>2, <3>1, <4>1 DEF SoloInv, TriesBounded
    <3>3. CASE ~ Busy(t)
      BY <1>2, <2>1, <3>1, <3>3 DEF SoloInv, TriesBounded
    <3> QED BY <3>2, <3>3
  <2>2. \A t \in Tasks : row[t].attempts \in Nat /\ row[t].attempts <= MaxAttempts + Spent'
    BY <1>2 DEF SoloInv, TriesBounded, QueueInv, QueueShape, RowShape
  <2>3. worker'[w].read.attempts <= MaxAttempts + Spent'
    <3>1. worker[w].read.attempts \in Nat
      BY DEF QueueInv, QueueShape, WorkerShape, RowShape
    <3> QED BY <1>2, <3>1 DEF SoloInv, TriesBounded, NoRow
  <2> QED BY <1>1, <2>1, <2>2, <2>3 DEF TriesBounded
<1> QED BY <1>3, <1>4, <1>5 DEF SoloInv
(* A step outside transactions and crashes spends nothing.                  *)
LEMMA NothingSpent ==
  ASSUME SoloTypes, UNCHANGED faultVars
  PROVE  /\ crashes' \in 0 .. MaxCrashes /\ dbFaults' \in 0 .. MaxDbFaults
         /\ lostAcks' \in 0 .. MaxLostAcks /\ Spent' = Spent
BY DEF faultVars, SoloTypes, Spent

LEMMA CrashSpent ==
  ASSUME SoloTypes, NEW w \in Workers, Crash(w)
  PROVE  /\ crashes' \in 0 .. MaxCrashes /\ dbFaults' \in 0 .. MaxDbFaults
         /\ lostAcks' \in 0 .. MaxLostAcks /\ Spent' = Spent + 1
<1>1. /\ crashes \in Nat /\ dbFaults \in Nat /\ lostAcks \in Nat
      /\ crashes <= MaxCrashes /\ dbFaults <= MaxDbFaults /\ lostAcks <= MaxLostAcks
  BY BoundsAreNat DEF SoloTypes
<1>2. crashes < MaxCrashes /\ crashes' = crashes + 1 /\ dbFaults' = dbFaults /\ lostAcks' = lostAcks
  BY DEF Crash
<1>3. Spent' = Spent + 1
  BY <1>1, <1>2 DEF Spent
<1>4. crashes' \in 0 .. MaxCrashes
  BY <1>1, <1>2, BoundsAreNat
<1> QED BY <1>2, <1>3, <1>4 DEF SoloTypes

(* What every step does to the counters.                                    *)
LEMMA SpentGrows ==
  ASSUME SoloTypes, [QueueNext]_queueVars
  PROVE  /\ crashes' \in 0 .. MaxCrashes /\ dbFaults' \in 0 .. MaxDbFaults
         /\ lostAcks' \in 0 .. MaxLostAcks /\ Spent' \in {Spent, Spent + 1}
<1>1. CASE UNCHANGED faultVars
  BY <1>1, NothingSpent
<1>2. CASE \E how \in Outcomes : Ends(how)
  BY <1>2, EndsSpent
<1>3. CASE \E w \in Workers : Crash(w)
  BY <1>3, CrashSpent
<1>4. UNCHANGED faultVars \/ (\E how \in Outcomes : Ends(how)) \/ (\E w \in Workers : Crash(w))
  <2>1. CASE \E t \in Tasks : Produce(t)
    BY <2>1 DEF Produce, WriteRequest, RecordRequest, Enqueue
  <2>2. CASE \E w \in Workers : Claim(w)
    BY <2>2 DEF Claim, ListRequests, TakeRequest, ReadLeaseFile, SelectForLease, CommitLease,
                WriteLeaseFile
  <2>3. CASE \E w \in Workers : Answer(w) \/ Restart(w)
    BY <2>3 DEF Answer, HandlerReturns, HandlerRaises, WriteResponse, RecordResponse, Restart
  <2>4. CASE \E w \in Workers : Close(w)
    BY <2>4 DEF Close, CheckLeaseFile, RemoveLeaseFile, SelectForCompletion, CommitCompletion,
                FileFailure
  <2>5. CASE \E w \in Workers : Crash(w)
    BY <2>5
  <2>6. CASE Tick \/ UNCHANGED queueVars
    BY <2>6 DEF Tick, queueVars
  <2> QED BY <2>1, <2>2, <2>3, <2>4, <2>5, <2>6 DEF QueueNext, Work
<1> QED BY <1>1, <1>2, <1>3, <1>4

LEMMA ResponsesAreTasks ==
  ASSUME QueueInv, responses \subseteq Tasks, [QueueNext]_queueVars
  PROVE  responses' \subseteq Tasks
<1>1. CASE \E w \in Workers : WriteResponse(w)
  BY <1>1 DEF WriteResponse, At, QueueInv, QueueShape
<1>2. CASE UNCHANGED responses
  BY <1>2
<1>3. CASE \E w \in Workers : Claim(w) \/ Restart(w) \/ Crash(w)
  BY <1>2, <1>3 DEF Claim, ListRequests, TakeRequest, ReadLeaseFile, SelectForLease, CommitLease,
                    WriteLeaseFile, Restart, Crash, diskVars
<1>4. CASE \E w \in Workers : Answer(w)
  BY <1>1, <1>2, <1>4 DEF Answer, HandlerReturns, HandlerRaises, RecordResponse, diskVars
<1>5. CASE \E w \in Workers : Close(w)
  BY <1>2, <1>5 DEF Close, CheckLeaseFile, RemoveLeaseFile, SelectForCompletion,
                    CommitCompletion, FileFailure, diskVars
<1>6. CASE \E t \in Tasks : Produce(t)
  BY <1>2, <1>6 DEF Produce, WriteRequest, RecordRequest, Enqueue, diskVars
<1>7. CASE Tick \/ UNCHANGED queueVars
  BY <1>2, <1>7 DEF Tick, queueVars, diskVars
<1> QED BY <1>3, <1>4, <1>5, <1>6, <1>7 DEF QueueNext, Work

(* The types QueueInv leaves out, however many workers there are.           *)
LEMMA NextSoloTypes ==
  ASSUME QueueInv, SoloTypes, [QueueNext]_queueVars
  PROVE  SoloTypes'
<1>1. /\ crashes' \in 0 .. MaxCrashes /\ dbFaults' \in 0 .. MaxDbFaults
      /\ lostAcks' \in 0 .. MaxLostAcks
  BY SpentGrows
<1>2. ASSUME producer' \in [Tasks -> {"new", "record", "enqueue", "done", "raised"}],
             leaseFile' \in [Tasks -> Lease],
             letters' \subseteq Tasks \X {"failures", "dead_letter"}
      PROVE  SoloTypes'
  <2>1. responses' \subseteq Tasks
    BY ResponsesAreTasks DEF SoloTypes
  <2> QED BY <1>1, <1>2, <2>1 DEF SoloTypes
<1>3. CASE UNCHANGED <<producer, leaseFile, letters>>
  BY <1>2, <1>3 DEF SoloTypes
<1>4. CASE \E t \in Tasks : Produce(t)
  <2>1. UNCHANGED <<leaseFile, letters>>
    BY <1>4 DEF Produce, WriteRequest, RecordRequest, Enqueue, diskVars
  <2>2. producer' \in [Tasks -> {"new", "record", "enqueue", "done", "raised"}]
    BY <1>4 DEF Produce, WriteRequest, RecordRequest, Enqueue, SoloTypes
  <2> QED BY <1>2, <2>1, <2>2 DEF SoloTypes
<1>5. CASE \E w \in Workers : Claim(w)
  <2>1. CASE \E w \in Workers : WriteLeaseFile(w)
    <3>1. PICK w \in Workers : WriteLeaseFile(w)
      BY <2>1
    <3>2. /\ leaseFile' = [leaseFile EXCEPT ![TaskOf(w)] =
                              [exists |-> TRUE, left |-> worker[w].expires]]
          /\ UNCHANGED <<producer, letters>>
      BY <3>1 DEF WriteLeaseFile
    <3>3. worker[w].expires \in 0 .. LeaseTicks
      BY DEF QueueInv, QueueShape, WorkerShape
    <3>4. leaseFile' \in [Tasks -> Lease]
      BY <3>2, <3>3 DEF SoloTypes, Lease
    <3> QED BY <1>2, <3>2, <3>4 DEF SoloTypes
  <2>2. CASE \E w \in Workers : ~ WriteLeaseFile(w) /\ Claim(w)
    BY <1>3, <2>2 DEF Claim, ListRequests, TakeRequest, ReadLeaseFile, SelectForLease,
                      CommitLease, diskVars
  <2> QED BY <1>5, <2>1, <2>2
<1>6. CASE \E w \in Workers : Answer(w) \/ Restart(w) \/ Crash(w)
  BY <1>3, <1>6 DEF Answer, HandlerReturns, HandlerRaises, WriteResponse, RecordResponse,
                    Restart, Crash, diskVars
<1>7. CASE \E w \in Workers : Close(w)
  <2>1. CASE \E w \in Workers : RemoveLeaseFile(w)
    <3>1. NoLease \in Lease
      BY QueueAssumption DEF NoLease, Lease
    <3>2. leaseFile' \in [Tasks -> Lease] /\ UNCHANGED <<producer, letters>>
      BY <2>1, <3>1 DEF RemoveLeaseFile, SoloTypes
    <3> QED BY <1>2, <3>2 DEF SoloTypes
  <2>2. CASE \E w \in Workers, how \in Outcomes : FileFailure(w, how)
    <3>1. PICK w \in Workers, how \in Outcomes : FileFailure(w, how)
      BY <2>2
    <3>2. TaskOf(w) \in Tasks /\ UNCHANGED <<producer, leaseFile>>
      BY <3>1 DEF FileFailure, At, QueueInv, QueueShape
    <3>3. PICK place \in {"failures", "dead_letter"} : letters' = letters \cup {<<TaskOf(w), place>>}
      BY <3>1 DEF FileFailure
    <3>4. letters' \subseteq Tasks \X {"failures", "dead_letter"}
      BY <3>2, <3>3 DEF SoloTypes
    <3> QED BY <1>2, <3>2, <3>4 DEF SoloTypes
  <2>3. CASE UNCHANGED <<producer, leaseFile, letters>>
    BY <1>3, <2>3
  <2> QED BY <1>7, <2>1, <2>2, <2>3 DEF Close, CheckLeaseFile, SelectForCompletion,
                                        CommitCompletion, diskVars
<1>8. CASE Tick
  <2>1. \A n \in 0 .. LeaseTicks : Elapse(n) \in 0 .. LeaseTicks
    BY QueueAssumption DEF Elapse
  <2>2. leaseFile' \in [Tasks -> Lease] /\ UNCHANGED <<producer, letters>>
    BY <1>8, <2>1 DEF Tick, SoloTypes, Lease
  <2> QED BY <1>2, <2>2 DEF SoloTypes
<1>9. CASE UNCHANGED queueVars
  BY <1>3, <1>9 DEF queueVars, diskVars
<1> QED BY <1>4, <1>5, <1>6, <1>7, <1>8, <1>9 DEF QueueNext, Work
(* A request is queued once, while its row is absent: no worker is on it.   *)
LEMMA ProduceKeepsSolo ==
  ASSUME QueueInv, SoloInv, SoloTypes', NEW t \in Tasks, Produce(t), Spent' \in {Spent, Spent + 1}
  PROVE  SoloInv'
<1>1. /\ UNCHANGED <<worker, leaseFile>>
      /\ \A u \in Tasks \ {t} : producer'[u] = producer[u] /\ row'[u] = row[u]
      /\ producer[t] \in {"new", "record", "enqueue"}
      /\ row'[t] = row[t] \/ (producer'[t] \in {"done", "raised"}
                              /\ row'[t] = [row[t] EXCEPT !.status = "queued"])
  BY DEF Produce, WriteRequest, RecordRequest, Enqueue, diskVars, SoloInv, SoloTypes, QueueInv,
         QueueShape
<1>2. row[t].status = "absent" /\ row[t].attempts = 0
  BY <1>1 DEF SoloInv, ProducerFirst
<1>3. row'[t].attempts = 0 /\ row'[t].status \in {"absent", "queued"}
  BY <1>1, <1>2 DEF QueueInv, QueueShape, RowShape
<1>4. ProducerFirst' /\ FileIsThere'
  BY <1>1, <1>2 DEF SoloInv, ProducerFirst, FileIsThere, TaskOf
<1>5. ReadIsRow'
  <2>1. \A w \in Workers : worker[w].pc \in Claimed \cup {"lease", "commit"} => TaskOf(w) \in Tasks \ {t}
    BY <1>2 DEF SoloInv, ReadIsRow, QueueInv, QueueShape, Claimed
  <2> QED BY <1>1, <2>1 DEF SoloInv, ReadIsRow, TaskOf
<1>6. TriesBounded'
  <2>1. Spent \in Nat /\ Spent' \in Nat /\ MaxAttempts \in Nat \ {0} /\ Spent <= Spent'
    BY SpentIsNat, BoundsAreNat DEF SoloInv
  <2>2. \A u \in Tasks : row[u].attempts \in Nat
    BY DEF QueueInv, QueueShape, RowShape
  <2>3. \A u \in Tasks : Busy(u)' <=> Busy(u)
    BY <1>1 DEF Busy, TaskOf
  <2>4. ASSUME NEW u \in Tasks
        PROVE  /\ row'[u].attempts <= MaxAttempts + Spent'
               /\ row'[u].status \notin Terminal /\ ~ Busy(u)'
                    => row'[u].attempts < MaxAttempts + Spent'
    <3>1. CASE u = t
      BY <1>3, <2>1, <3>1
    <3>2. CASE u # t
      BY <1>1, <2>1, <2>2, <2>3, <3>2 DEF SoloInv, TriesBounded
    <3> QED BY <3>1, <3>2
  <2>5. \A w \in Workers : worker[w].read.attempts \in Nat
    BY DEF QueueInv, QueueShape, WorkerShape, RowShape
  <2>6. \A w \in Workers : worker'[w].read.attempts <= MaxAttempts + Spent'
    BY <1>1, <2>1, <2>5 DEF SoloInv, TriesBounded
  <2> QED BY <2>4, <2>6 DEF TriesBounded
<1> QED BY <1>4, <1>5, <1>6 DEF SoloInv

(* A row that is read for a transaction is, until the COMMIT, the row.      *)
LEMMA ReadKeepsSolo ==
  ASSUME OneWorker, QueueInv, QueueInv', SoloInv, SoloTypes', NEW w \in Workers,
         UNCHANGED <<row, producer>>, Spent' = Spent, TaskOf(w) \in Tasks,
         worker'[w].task = worker[w].task, worker'[w].read = row[TaskOf(w)],
         \/ worker'[w].pc = "lease" /\ worker[w].pc \notin Claimed /\ Leasable(row[TaskOf(w)])
         \/ worker'[w].pc = "commit" /\ worker[w].pc \in Claimed
  PROVE  SoloInv'
<1>1. \A v \in Workers : v = w
  BY DEF OneWorker
<1>2. "lease" \notin Claimed /\ "commit" \in Claimed
  BY DEF Claimed
<1>3. ProducerFirst' /\ FileIsThere'
  BY <1>1 DEF SoloInv, ProducerFirst, FileIsThere
<1>4. ReadIsRow'
  BY <1>1, <1>2 DEF SoloInv, ReadIsRow, TaskOf, Leasable
<1>5. \A t \in Tasks : Busy(t)' <=> Busy(t)
  BY <1>1, <1>2 DEF Busy, TaskOf
<1>6. TriesBounded'
  <2>1. \A t \in Tasks :
          /\ row[t].attempts <= MaxAttempts + Spent
          /\ row[t].status \notin Terminal /\ ~ Busy(t) => row[t].attempts < MaxAttempts + Spent
    BY DEF SoloInv, TriesBounded
  <2> QED BY <1>1, <1>5, <2>1 DEF TriesBounded
<1> QED BY <1>3, <1>4, <1>6 DEF SoloInv

(* The lease costs an attempt, which a task that nobody is on still has.    *)
LEMMA LeaseKeepsSolo ==
  ASSUME OneWorker, QueueInv, QueueInv', SoloInv, SoloTypes', NEW w \in Workers,
         NEW how \in Outcomes, CommitLease(w, how)
  PROVE  SoloInv'
<1> DEFINE t == TaskOf(w)
<1>1. \A v \in Workers : v = w
  BY DEF OneWorker
<1>2. /\ worker[w].pc = "lease" /\ t \in Tasks /\ UNCHANGED <<producer, leaseFile>>
      /\ worker[w].pc \notin Claimed
      /\ row[t].status \notin Terminal \cup {"absent"}
      /\ worker[w].read.status = row[t].status /\ worker[w].read.attempts = row[t].attempts
  BY DEF CommitLease, At, QueueInv, QueueShape, SoloInv, ReadIsRow, diskVars, Claimed
<1>3. /\ worker'[w].pc = IF Reported(how) THEN "lock" ELSE "next"
      /\ worker'[w].task = worker[w].task /\ worker'[w].read = worker[w].read
  BY LocalIs DEF CommitLease, QueueInv
<1>4. Spent \in Nat /\ MaxAttempts \in Nat \ {0} /\ row[t].attempts \in Nat
  BY <1>2, SpentIsNat, BoundsAreNat DEF SoloInv, QueueInv, QueueShape, RowShape
<1>5. Spent' = IF how = "committed" THEN Spent ELSE Spent + 1
  BY EndsSpent DEF CommitLease, SoloInv
<1>6. ~ Busy(t) /\ row[t].attempts < MaxAttempts + Spent
  BY <1>1, <1>2 DEF Busy, SoloInv, TriesBounded
<1>7. /\ \A u \in Tasks \ {t} : row'[u] = row[u]
      /\ \/ row'[t] = row[t] /\ how = "rolled back"
         \/ row'[t].status = "running" /\ row'[t].attempts = row[t].attempts + 1
  <2>1. CASE TakesEffect(how)
    BY <1>2, <2>1 DEF CommitLease, QueueInv, QueueShape
  <2>2. CASE ~ TakesEffect(how)
    BY <2>2 DEF CommitLease, TakesEffect
  <2> QED BY <2>1, <2>2
<1>8. ProducerFirst' /\ FileIsThere'
  BY <1>1, <1>2, <1>3, <1>7 DEF SoloInv, ProducerFirst, FileIsThere
<1>9. ReadIsRow'
  <2>1. worker'[w].pc \in Claimed => how = "committed"
    BY <1>3 DEF Reported, Claimed
  <2> QED BY <1>1, <1>3, <1>7, <2>1 DEF ReadIsRow, TaskOf, Reported
<1>10. TriesBounded'
  <2>1. ASSUME NEW u \in Tasks
        PROVE  /\ row'[u].attempts <= MaxAttempts + Spent'
               /\ row'[u].status \notin Terminal /\ ~ Busy(u)'
                    => row'[u].attempts < MaxAttempts + Spent'
    <3>1. CASE u = t /\ how = "committed"
      <4>1. Busy(u)'
        BY <1>3, <3>1 DEF Busy, TaskOf, Reported, Claimed
      <4> QED BY <1>4, <1>5, <1>6, <1>7, <3>1, <4>1
    <3>2. CASE u = t /\ how # "committed"
      <4>1. row'[u].attempts = row[t].attempts \/ row'[u].attempts = row[t].attempts + 1
        BY <1>7, <3>2
      <4>2. Spent' = Spent + 1
        BY <1>5, <3>2
      <4> QED BY <1>4, <1>6, <4>1, <4>2
    <3>3. CASE u # t
      <4>1. ~ Busy(u)
        BY <1>1, <1>2 DEF Busy
      <4>2. row'[u] = row[u] /\ row[u].attempts \in Nat
        BY <1>7, <3>3 DEF QueueInv, QueueShape, RowShape
      <4>3. row[u].attempts <= MaxAttempts + Spent
            /\ (row[u].status \notin Terminal => row[u].attempts < MaxAttempts + Spent)
        BY <4>1 DEF SoloInv, TriesBounded
      <4> QED BY <1>4, <1>5, <4>2, <4>3
    <3> QED BY <3>1, <3>2, <3>3
  <2>2. worker'[w].read.attempts <= MaxAttempts + Spent'
    BY <1>2, <1>3, <1>4, <1>5, <1>6
  <2> QED BY <1>1, <2>1, <2>2 DEF TriesBounded
<1> QED BY <1>8, <1>9, <1>10 DEF SoloInv
(* What complete_task makes of the row when nobody has touched it since the *)
(* SELECT: it has the closed status, or it is as it was.                    *)
LEMMA ClosedRow ==
  ASSUME OneWorker, QueueInv, SoloInv, NEW w \in Workers, NEW how \in Outcomes,
         CommitCompletion(w, how)
  PROVE  /\ worker[w].pc = "commit" /\ TaskOf(w) \in Tasks
         /\ UNCHANGED <<producer, leaseFile>>
         /\ \A u \in Tasks \ {TaskOf(w)} : row'[u] = row[u]
         /\ how = "rolled back" => row' = row
         /\ how # "rolled back" =>
              /\ row'[TaskOf(w)].status = ClosedStatus(w)
              /\ row'[TaskOf(w)].attempts = row[TaskOf(w)].attempts
         /\ ClosedStatus(w) \in {"succeeded", "failed", "dead_letter"}
         /\ ClosedStatus(w) = "failed" =>
              worker[w].outcome = "failed" /\ row[TaskOf(w)].attempts < MaxAttempts
         /\ ClosedStatus(w) = "dead_letter" => row[TaskOf(w)].attempts >= MaxAttempts
         /\ ClosedStatus(w) = "succeeded" => TaskOf(w) \in responses
<1>1. /\ worker[w].pc = "commit" /\ TaskOf(w) \in Tasks /\ UNCHANGED <<producer, leaseFile>>
      /\ row \in [Tasks -> RowShape] /\ worker[w] \in WorkerShape
      /\ worker[w].read.status = row[TaskOf(w)].status
      /\ worker[w].read.attempts = row[TaskOf(w)].attempts
  BY DEF CommitCompletion, At, QueueInv, QueueShape, SoloInv, ReadIsRow, diskVars
<1>2. MaxAttempts \in Nat /\ row[TaskOf(w)].attempts \in Nat
  BY <1>1, BoundsAreNat DEF RowShape
<1>3. /\ ClosedStatus(w) \in {"succeeded", "failed", "dead_letter"}
      /\ ClosedStatus(w) = "failed" =>
           worker[w].outcome = "failed" /\ row[TaskOf(w)].attempts < MaxAttempts
      /\ ClosedStatus(w) = "dead_letter" => row[TaskOf(w)].attempts >= MaxAttempts
      /\ ClosedStatus(w) = "succeeded" => worker[w].outcome = "succeeded"
  BY <1>1, <1>2 DEF ClosedStatus, WorkerShape
<1>6. ClosedStatus(w) = "succeeded" => TaskOf(w) \in responses
  BY <1>1, <1>3 DEF QueueInv, RespondedFirst, Closing
<1>4. CASE TakesEffect(how)
  <2>1. /\ row'[TaskOf(w)].status = ClosedStatus(w)
        /\ row'[TaskOf(w)].attempts = row[TaskOf(w)].attempts
        /\ \A u \in Tasks \ {TaskOf(w)} : row'[u] = row[u]
    BY <1>1, <1>4 DEF CommitCompletion
  <2> QED BY <1>1, <1>3, <1>4, <1>6, <2>1 DEF TakesEffect
<1>5. CASE ~ TakesEffect(how)
  <2>1. row' = row
    BY <1>5 DEF CommitCompletion
  <2> QED BY <1>1, <1>3, <1>5, <1>6, <2>1 DEF TakesEffect
<1> QED BY <1>4, <1>5

(* A task that is not closed for good after a failure has tries left.       *)
LEMMA CompletionKeepsSolo ==
  ASSUME OneWorker, QueueInv, QueueInv', SoloInv, SoloTypes', NEW w \in Workers,
         NEW how \in Outcomes, CommitCompletion(w, how)
  PROVE  SoloInv'
<1> DEFINE t == TaskOf(w)
<1>1. \A v \in Workers : v = w
  BY DEF OneWorker
<1>2. /\ worker[w].pc = "commit" /\ t \in Tasks /\ UNCHANGED <<producer, leaseFile>>
      /\ \A u \in Tasks \ {t} : row'[u] = row[u]
      /\ how = "rolled back" => row' = row
      /\ how # "rolled back" => row'[t].status = ClosedStatus(w)
                                /\ row'[t].attempts = row[t].attempts
      /\ ClosedStatus(w) \in {"succeeded", "failed", "dead_letter"}
      /\ ClosedStatus(w) = "failed" =>
           worker[w].outcome = "failed" /\ row[t].attempts < MaxAttempts
  BY ClosedRow
<1>3. worker[w].pc \in Claimed /\ row[t].status # "absent"
  BY <1>2 DEF Claimed, SoloInv, ReadIsRow
<1>4. Spent \in Nat /\ MaxAttempts \in Nat \ {0} /\ \A u \in Tasks : row[u].attempts \in Nat
  BY SpentIsNat, BoundsAreNat DEF SoloInv, QueueInv, QueueShape, RowShape
<1>5. Spent' = IF how = "committed" THEN Spent ELSE Spent + 1
  BY EndsSpent DEF CommitCompletion, SoloInv
<1>6. /\ \/ worker'[w].pc \in {"status", "next"} /\ how = "committed"
         \/ worker'[w].pc \in {"unlink", "dead"} /\ how # "committed"
      /\ worker'[w].read \in {worker[w].read, NoRow}
      /\ worker'[w].pc = "unlink" => worker'[w].task = worker[w].task
  <2>1. CASE how # "committed"
    <3>1. GiveUp(w, "unlink") \/ Local(w, "dead")
      BY <2>1 DEF CommitCompletion, MarkingRaises, Reported
    <3> QED BY <2>1, <3>1, LocalIs, GiveUpIs DEF QueueInv
  <2>2. CASE how = "committed"
    <3>1. Local(w, "status") \/ worker' = [worker EXCEPT ![w] = Fresh]
      BY <2>2 DEF CommitCompletion, Reported
    <3>2. CASE Local(w, "status")
      BY <2>2, <3>2, LocalIs DEF QueueInv
    <3>3. CASE worker' = [worker EXCEPT ![w] = Fresh]
      BY <2>2, <3>3 DEF QueueInv, QueueShape, Fresh
    <3> QED BY <3>1, <3>2, <3>3
  <2> QED BY <2>1, <2>2
<1>7. ProducerFirst' /\ FileIsThere'
  <2>1. row'[t].status # "absent"
    BY <1>2, <1>3
  <2>2. producer[t] \notin {"new", "record", "enqueue"}
    BY <1>2, <1>3 DEF SoloInv, ProducerFirst
  <2> QED BY <1>1, <1>2, <1>6, <2>2 DEF SoloInv, ProducerFirst, FileIsThere
<1>8. ReadIsRow'
  <2>1. row'[t].status # "absent"
    BY <1>2, <1>3
  <2> QED BY <1>1, <1>6, <2>1 DEF ReadIsRow, TaskOf, Claimed
<1>9. TriesBounded'
  <2>1. \A u \in Tasks : row[u].attempts <= MaxAttempts + Spent
    BY DEF SoloInv, TriesBounded
  <2>2. \A u \in Tasks : row'[u].attempts = row[u].attempts
    BY <1>2, <1>4
  <2>3. Spent' \in Nat /\ Spent <= Spent' /\ (how # "committed" => Spent' = Spent + 1)
    BY <1>4, <1>5
  <2>4. ASSUME NEW u \in Tasks, row'[u].status \notin Terminal, ~ Busy(u)'
        PROVE  row'[u].attempts < MaxAttempts + Spent'
    <3>1. CASE u = t /\ how = "committed"
      <4>1. ClosedStatus(w) = "failed"
        BY <1>2, <2>4, <3>1 DEF Terminal
      <4> QED BY <1>2, <1>4, <2>2, <2>3, <3>1, <4>1
    <3>2. CASE u = t /\ how # "committed"
      BY <1>4, <2>1, <2>2, <2>3, <3>2
    <3>3. CASE u # t
      <4>1. ~ Busy(u) /\ row'[u] = row[u]
        BY <1>1, <1>2, <3>3 DEF Busy
      <4> QED BY <1>4, <2>3, <2>4, <4>1 DEF SoloInv, TriesBounded
    <3> QED BY <3>1, <3>2, <3>3
  <2>5. worker'[w].read.attempts <= MaxAttempts + Spent'
    <3>1. worker[w].read.attempts \in Nat /\ worker[w].read.attempts <= MaxAttempts + Spent
      BY DEF QueueInv, QueueShape, WorkerShape, RowShape, SoloInv, TriesBounded
    <3>2. NoRow.attempts = 0
      BY DEF NoRow
    <3> QED BY <1>4, <1>6, <2>3, <3>1, <3>2
  <2>6. \A u \in Tasks : row'[u].attempts <= MaxAttempts + Spent'
    BY <1>4, <2>1, <2>2, <2>3
  <2> QED BY <1>1, <2>4, <2>5, <2>6 DEF TriesBounded
<1> QED BY <1>7, <1>8, <1>9 DEF SoloInv

-------------------------------------------------------------------------------
LEMMA ClaimKeepsSolo ==
  ASSUME OneWorker, QueueInv, QueueInv', SoloInv, SoloTypes', NEW w \in Workers, Claim(w),
         Spent' \in {Spent, Spent + 1}
  PROVE  SoloInv'
<1> DEFINE Quiet == {"next", "claim", "select"}
<1>1. Quiet \cap (Claimed \cup {"lease"}) = {} /\ "lock" \in Claimed /\ "handle" \in Claimed
  BY DEF Claimed
<1>2. Spent \in Nat /\ Spent <= Spent'
  BY SpentIsNat DEF SoloInv
<1>3. ASSUME worker[w].pc \in Quiet, worker'[w].pc \in Quiet, worker'[w].read = worker[w].read,
             UNCHANGED <<row, producer>>
      PROVE  SoloInv'
  BY <1>1, <1>2, <1>3, MoveSolo
<1>4. worker \in [Workers -> WorkerShape]
  BY DEF QueueInv, QueueShape
<1>5. CASE ListRequests(w)
  <2>1. worker'[w].pc = worker[w].pc /\ worker'[w].read = worker[w].read
    BY <1>4, <1>5 DEF ListRequests, WorkerShape
  <2> QED BY <1>3, <1>5, <2>1 DEF ListRequests, At
<1>6. CASE \E t \in Tasks : TakeRequest(w, t)
  <2>1. PICK t \in Tasks : TakeRequest(w, t)
    BY <1>6
  <2>2. worker' = [worker EXCEPT ![w] = [worker[w] EXCEPT
                       !.task = t, !.todo = worker[w].todo \ {t}, !.pc = "claim",
                       !.outcome = "succeeded"]]
    BY <1>4, <2>1 DEF TakeRequest, WorkerShape
  <2>3. worker'[w].pc = "claim" /\ worker'[w].read = worker[w].read
    BY <1>4, <2>2 DEF WorkerShape
  <2> QED BY <1>3, <2>1, <2>3 DEF TakeRequest, At
<1>7. CASE ReadLeaseFile(w)
  <2>1. worker'[w].pc \in {"next", "select"} /\ worker'[w].read = worker[w].read
    BY <1>7, LocalIs DEF ReadLeaseFile, QueueInv
  <2> QED BY <1>3, <1>7, <2>1 DEF ReadLeaseFile, At
<1>8. CASE \E how \in Outcomes : SelectForLease(w, how)
  <2>1. PICK how \in Outcomes : SelectForLease(w, how)
    BY <1>8
  <2>2. CASE Local(w, "next")
    <3>1. worker'[w].pc = "next" /\ worker'[w].read = worker[w].read
      BY <2>2, LocalIs DEF QueueInv
    <3> QED BY <1>3, <2>1, <3>1 DEF SelectForLease, At
  <2>3. CASE Reported(how) /\ Leasable(row[TaskOf(w)])
    <3>1. worker' = [worker EXCEPT ![w] = [worker[w] EXCEPT
                         !.pc = "lease", !.read = row[TaskOf(w)], !.expires = LeaseTicks]]
      BY <1>4, <2>1, <2>3 DEF SelectForLease, WorkerShape
    <3>2. /\ worker'[w].pc = "lease" /\ worker'[w].read = row[TaskOf(w)]
          /\ worker'[w].task = worker[w].task
      BY <1>4, <3>1 DEF WorkerShape
    <3>3. /\ worker[w].pc = "select" /\ TaskOf(w) \in Tasks /\ UNCHANGED <<row, producer>>
          /\ Spent' = Spent
      BY <2>1, <2>3, EndsSpent DEF SelectForLease, At, QueueInv, QueueShape, Reported, SoloInv
    <3> QED BY <1>1, <2>3, <3>2, <3>3, ReadKeepsSolo
  <2> QED BY <2>1, <2>2, <2>3 DEF SelectForLease
<1>9. CASE \E how \in Outcomes : CommitLease(w, how)
  BY <1>9, LeaseKeepsSolo
<1>10. CASE WriteLeaseFile(w)
  <2>1. /\ worker'[w].pc = "handle" /\ worker'[w].read = worker[w].read
        /\ worker'[w].task = worker[w].task
    BY <1>10, LocalIs DEF WriteLeaseFile, QueueInv
  <2>2. worker[w].pc = "lock" /\ UNCHANGED <<row, producer>>
    BY <1>10 DEF WriteLeaseFile, At
  <2> QED BY <1>1, <1>2, <2>1, <2>2, MoveSolo
<1> QED BY <1>5, <1>6, <1>7, <1>8, <1>9, <1>10 DEF Claim
(* Handling stays on the task until the row is closed.                      *)
LEMMA AnswerKeepsSolo ==
  ASSUME OneWorker, QueueInv, QueueInv', SoloInv, SoloTypes', NEW w \in Workers, Answer(w),
         Spent' \in {Spent, Spent + 1}
  PROVE  SoloInv'
<1>1. Spent \in Nat /\ Spent <= Spent'
  BY SpentIsNat DEF SoloInv
<1>2. /\ worker[w].pc \in {"handle", "respond", "record"} /\ UNCHANGED <<row, producer>>
      /\ Local(w, "respond") \/ Local(w, "record") \/ Local(w, "unlink") \/ GiveUp(w, "unlink")
  BY DEF Answer, HandlerReturns, HandlerRaises, WriteResponse, RecordResponse, At
<1>3. /\ worker'[w].pc \in {"respond", "record", "unlink"}
      /\ worker'[w].task = worker[w].task /\ worker'[w].read = worker[w].read
  BY <1>2, LocalIs, GiveUpIs DEF QueueInv
<1>4. worker[w].pc \in Claimed /\ worker'[w].pc \in Claimed
  BY <1>2, <1>3 DEF Claimed
<1> QED BY <1>1, <1>2, <1>3, <1>4, MoveSolo

(* The lease file that a lone worker has seen is still there to be removed. *)
LEMMA CloseKeepsSolo ==
  ASSUME OneWorker, QueueInv, QueueInv', SoloInv, SoloTypes', NEW w \in Workers, Close(w),
         Spent' \in {Spent, Spent + 1}
  PROVE  SoloInv'
<1>1. Spent \in Nat /\ Spent <= Spent' /\ worker \in [Workers -> WorkerShape]
  BY SpentIsNat DEF SoloInv, QueueInv, QueueShape
<1>2. {"unlink", "remove", "complete", "commit"} \subseteq Claimed
      /\ {"dead", "status"} \cap Claimed = {}
  BY DEF Claimed
<1>3. CASE CheckLeaseFile(w)
  <2>1. /\ worker[w].pc = "unlink" /\ UNCHANGED <<row, producer, leaseFile>>
        /\ \/ Local(w, "remove") /\ leaseFile[TaskOf(w)].exists
           \/ Local(w, "complete")
    BY <1>3 DEF CheckLeaseFile, At, diskVars
  <2>2. CASE Local(w, "complete")
    <3>1. worker'[w].pc = "complete" /\ worker'[w].task = worker[w].task
          /\ worker'[w].read = worker[w].read
      BY <2>2, LocalIs DEF QueueInv
    <3> QED BY <1>1, <1>2, <2>1, <3>1, MoveSolo
  <2>3. CASE Local(w, "remove") /\ leaseFile[TaskOf(w)].exists
    <3>1. worker'[w].pc = "remove" /\ worker'[w].task = worker[w].task
          /\ worker'[w].read = worker[w].read
      BY <2>3, LocalIs DEF QueueInv
    <3>2. (\A v \in Workers : v = w) /\ Spent' = Spent
      BY <1>3, NothingSpent DEF CheckLeaseFile, SoloInv, OneWorker
    <3>3. ProducerFirst' /\ FileIsThere'
      BY <2>1, <2>3, <3>1, <3>2 DEF SoloInv, ProducerFirst, FileIsThere, TaskOf
    <3>4. ReadIsRow'
      BY <1>2, <2>1, <3>1, <3>2 DEF SoloInv, ReadIsRow, TaskOf
    <3>5. \A t \in Tasks : Busy(t)' <=> Busy(t)
      BY <1>2, <2>1, <3>1, <3>2 DEF Busy, TaskOf
    <3>6. TriesBounded'
      <4>1. TriesBounded
        BY DEF SoloInv
      <4> QED BY <2>1, <3>1, <3>2, <3>5, <4>1 DEF TriesBounded
    <3> QED BY <3>3, <3>4, <3>6 DEF SoloInv
  <2> QED BY <2>1, <2>2, <2>3
<1>4. CASE RemoveLeaseFile(w)
  <2>1. /\ worker[w].pc = "remove" /\ UNCHANGED <<row, producer>>
        /\ leaseFile[TaskOf(w)].exists
    BY <1>4 DEF RemoveLeaseFile, At, SoloInv, FileIsThere
  <2>2. worker'[w].pc = "complete" /\ worker'[w].task = worker[w].task
        /\ worker'[w].read = worker[w].read
    BY <1>4, <2>1, LocalIs DEF RemoveLeaseFile, QueueInv
  <2> QED BY <1>1, <1>2, <2>1, <2>2, MoveSolo
<1>5. CASE \E how \in Outcomes : SelectForCompletion(w, how)
  <2>1. PICK how \in Outcomes : SelectForCompletion(w, how)
    BY <1>5
  <2>2. /\ worker[w].pc = "complete" /\ TaskOf(w) \in Tasks /\ UNCHANGED <<row, producer>>
        /\ Spent' = IF how = "committed" THEN Spent ELSE Spent + 1
    BY <2>1, EndsSpent DEF SelectForCompletion, At, QueueInv, QueueShape, SoloInv
  <2>3. CASE how = "committed"
    <3>1. worker' = [worker EXCEPT ![w] = [worker[w] EXCEPT
                         !.pc = "commit", !.read = row[TaskOf(w)]]]
      BY <1>1, <2>1, <2>3 DEF SelectForCompletion, Reported, WorkerShape
    <3>2. /\ worker'[w].pc = "commit" /\ worker'[w].read = row[TaskOf(w)]
          /\ worker'[w].task = worker[w].task
      BY <1>1, <3>1 DEF WorkerShape
    <3> QED BY <1>2, <2>2, <2>3, <3>2, ReadKeepsSolo
  <2>4. CASE how # "committed"
    <3>1. GiveUp(w, "unlink") \/ Local(w, "dead")
      BY <2>1, <2>4 DEF SelectForCompletion, Reported, MarkingRaises
    <3>2. /\ worker'[w].pc \in {"unlink", "dead"} /\ worker'[w].task = worker[w].task
          /\ worker'[w].read = worker[w].read
      BY <3>1, LocalIs, GiveUpIs DEF QueueInv
    <3>3. Spent < Spent'
      BY <1>1, <2>2, <2>4
    <3> QED BY <1>1, <1>2, <2>2, <3>2, <3>3, MoveSolo
  <2> QED BY <2>3, <2>4
<1>6. CASE \E how \in Outcomes : CommitCompletion(w, how)
  BY <1>6, CompletionKeepsSolo
<1>7. CASE \E how \in Outcomes : FileFailure(w, how)
  <2>1. /\ worker[w].pc = "status" /\ UNCHANGED <<row, producer>> /\ Local(w, "dead")
    BY <1>7 DEF FileFailure, At
  <2>2. worker'[w].pc = "dead" /\ worker'[w].read = worker[w].read
    BY <2>1, LocalIs DEF QueueInv
  <2> QED BY <1>1, <1>2, <2>1, <2>2, MoveSolo
<1> QED BY <1>3, <1>4, <1>5, <1>6, <1>7 DEF Close

(* A crash costs a fault, a restart finds the worker off its task.          *)
LEMMA DownKeepsSolo ==
  ASSUME OneWorker, QueueInv, QueueInv', SoloInv, SoloTypes', NEW w \in Workers,
         Crash(w) \/ Restart(w)
  PROVE  SoloInv'
<1>1. Spent \in Nat /\ worker \in [Workers -> WorkerShape] /\ UNCHANGED <<row, producer>>
  BY SpentIsNat DEF SoloInv, QueueInv, QueueShape, Crash, Restart
<1>2. {"dead", "next"} \cap Claimed = {}
  BY DEF Claimed
<1>3. CASE Crash(w)
  <2>1. worker'[w].pc = "dead" /\ worker'[w].read = worker[w].read
    BY <1>3, LocalIs DEF Crash, QueueInv
  <2>2. Spent' = Spent + 1
    BY <1>3, CrashSpent DEF SoloInv
  <2>3. Spent <= Spent' /\ Spent < Spent'
    BY <1>1, <2>2
  <2> QED BY <1>1, <1>2, <2>1, <2>3, MoveSolo
<1>4. CASE Restart(w)
  <2>1. worker'[w].pc = "next" /\ worker'[w].read = NoRow /\ worker[w].pc = "dead"
    BY <1>1, <1>4 DEF Restart, Fresh, At
  <2>2. Spent <= Spent'
    BY <1>1, <1>4, NothingSpent DEF Restart, SoloInv
  <2> QED BY <1>1, <1>2, <2>1, <2>2, MoveSolo
<1> QED BY <1>3, <1>4

LEMMA TickKeepsSolo ==
  ASSUME QueueInv, SoloInv, SoloTypes', Tick
  PROVE  SoloInv'
<1>1. /\ \A w \in Workers : /\ worker'[w].pc = worker[w].pc
                            /\ worker'[w].task = worker[w].task
                            /\ worker'[w].read = worker[w].read
      /\ UNCHANGED producer
  BY DEF Tick, QueueInv, QueueShape, WorkerShape
<1>2. \A t \in Tasks : /\ row'[t].status = row[t].status /\ row'[t].owner = row[t].owner
                       /\ row'[t].attempts = row[t].attempts
                       /\ leaseFile'[t].exists = leaseFile[t].exists
  BY DEF Tick, QueueInv, QueueShape, RowShape, SoloInv, SoloTypes, Lease
<1>3. Spent' = Spent
  BY NothingSpent DEF Tick, SoloInv
<1>4. \A t \in Tasks : Busy(t)' <=> Busy(t)
  BY <1>1 DEF Busy, TaskOf
<1>5. \A w \in Workers : worker[w].pc \in Claimed \cup {"lease", "commit", "remove"}
                            => TaskOf(w) \in Tasks
  BY DEF QueueInv, QueueShape, Claimed
<1>6. ProducerFirst'
  BY <1>1, <1>2 DEF SoloInv, ProducerFirst
<1>7. ReadIsRow' /\ FileIsThere'
  BY <1>1, <1>2, <1>5 DEF SoloInv, ReadIsRow, FileIsThere, TaskOf
<1>8. TriesBounded'
  <2>1. TriesBounded
    BY DEF SoloInv
  <2> QED BY <1>1, <1>2, <1>3, <1>4, <2>1 DEF TriesBounded
<1> QED BY <1>6, <1>7, <1>8 DEF SoloInv

LEMMA NextKeepsSolo ==
  ASSUME OneWorker, QueueInv, QueueInv', SoloInv, [QueueNext]_queueVars
  PROVE  SoloInv'
<1>1. SoloTypes'
  BY NextSoloTypes DEF SoloInv
<1>2. Spent' \in {Spent, Spent + 1}
  BY SpentGrows DEF SoloInv
<1>3. CASE \E t \in Tasks : Produce(t)
  BY <1>1, <1>2, <1>3, ProduceKeepsSolo
<1>4. CASE \E w \in Workers : Work(w) \/ Crash(w)
  BY <1>1, <1>2, <1>4, ClaimKeepsSolo, AnswerKeepsSolo, CloseKeepsSolo, DownKeepsSolo DEF Work
<1>5. CASE Tick
  BY <1>1, <1>5, TickKeepsSolo
<1>6. CASE UNCHANGED queueVars
  BY <1>6 DEF queueVars, diskVars, faultVars, SoloInv, SoloTypes, ProducerFirst, ReadIsRow,
              FileIsThere, TriesBounded, Busy, Spent, TaskOf
<1> QED BY <1>3, <1>4, <1>5, <1>6 DEF QueueNext

(* One worker: a row it has read is the row it closes, and a task that is   *)
(* not on a worker's hands has a try left that no fault has used up.        *)
THEOREM SoloInvariant ==
  ASSUME OneWorker
  PROVE  QueueSpec => [](QueueInv /\ SoloInv)
<1>1. QueueInv /\ SoloInv /\ QueueInv' /\ [QueueNext]_queueVars => SoloInv'
  BY NextKeepsSolo
<1> QED BY InitSoloInv, QueueInvariant, <1>1, PTL DEF QueueSpec

(* With one worker, whatever faults: the variables keep their types, and    *)
(* the attempts of a row (AgentTask.attempts) never exceed max_attempts by  *)
(* more than the faults that voided a try.                                  *)
THEOREM QueueTypes ==
  ASSUME OneWorker
  PROVE  QueueSpec => []QueueTypeOK
<1>1. QueueInv /\ SoloInv => QueueTypeOK
  <2> SUFFICES ASSUME QueueInv, SoloInv PROVE QueueTypeOK
    OBVIOUS
  <2>1. Spent \in Nat /\ MaxAttempts + Spent \in Nat /\ MaxTries \in Nat
        /\ MaxAttempts + Spent <= MaxTries
    <3>1. Spent \in Nat /\ Spent <= MaxCrashes + MaxDbFaults + MaxLostAcks
      BY SpentIsNat DEF SoloInv
    <3> QED BY <3>1, BoundsAreNat DEF MaxTries
  <2>2. ASSUME NEW r \in RowShape, r.attempts <= MaxAttempts + Spent
        PROVE  r \in Row
    <3>1. r.attempts \in 0 .. MaxTries
      BY <2>1, <2>2 DEF RowShape
    <3> QED BY <3>1 DEF RowShape, Row
  <2>3. row \in [Tasks -> Row]
    BY <2>2 DEF QueueInv, QueueShape, SoloInv, TriesBounded
  <2>4. \A w \in Workers : worker[w] \in Worker
    <3> SUFFICES ASSUME NEW w \in Workers PROVE worker[w] \in Worker
      OBVIOUS
    <3>1. worker[w] \in WorkerShape
      BY DEF QueueInv, QueueShape
    <3>2. worker[w].read \in Row
      BY <2>2, <3>1 DEF SoloInv, TriesBounded, WorkerShape
    <3> QED BY <3>1, <3>2 DEF WorkerShape, Worker
  <2>5. worker \in [Workers -> Worker]
    BY <2>4 DEF QueueInv, QueueShape
  <2> QED BY <2>3, <2>5 DEF QueueTypeOK, QueueInv, QueueShape, SoloInv, SoloTypes
<1> QED BY SoloInvariant, <1>1, PTL
-------------------------------------------------------------------------------
(* When no acknowledgement is lost, a transaction that is reported as       *)
(* failed has not taken effect.                                             *)
LEMMA NoAckLost ==
  ASSUME MaxLostAcks = 0, SoloTypes, NEW how \in Outcomes, Ends(how)
  PROVE  how \in {"committed", "rolled back"}
<1>1. ~ (lostAcks < MaxLostAcks)
  BY DEF SoloTypes
<1> QED BY <1>1 DEF Ends, Outcomes

LEMMA StaysOwner ==
  ASSUME OneWorker, WorkerOwnsItsTask, NEW w \in Workers, UNCHANGED row,
         worker'[w].pc \in Claimed =>
             worker[w].pc \in Claimed /\ worker'[w].task = worker[w].task
  PROVE  WorkerOwnsItsTask'
BY DEF OneWorker, WorkerOwnsItsTask, TaskOf

(* The one step that makes an owner: the lease is committed in its name.    *)
LEMMA LeaseOwns ==
  ASSUME OneWorker, MaxLostAcks = 0, QueueInv, SoloInv, WorkerOwnsItsTask, NEW w \in Workers,
         NEW how \in Outcomes, CommitLease(w, how)
  PROVE  WorkerOwnsItsTask'
<1>1. /\ worker[w].pc = "lease" /\ TaskOf(w) \in Tasks /\ how \in {"committed", "rolled back"}
      /\ worker[w].read.status = row[TaskOf(w)].status /\ row \in [Tasks -> RowShape]
  BY NoAckLost DEF CommitLease, At, QueueInv, QueueShape, SoloInv, ReadIsRow
<1>2. /\ worker'[w].pc = IF how = "committed" THEN "lock" ELSE "next"
      /\ worker'[w].task = worker[w].task
  BY LocalIs DEF CommitLease, QueueInv, Reported
<1>3. CASE how = "committed"
  <2>1. row'[TaskOf(w)].status = "running" /\ row'[TaskOf(w)].owner = w
    BY <1>1, <1>3 DEF CommitLease, TakesEffect
  <2> QED BY <1>2, <2>1 DEF OneWorker, WorkerOwnsItsTask, TaskOf
<1>4. CASE how = "rolled back"
  BY <1>2, <1>4 DEF OneWorker, WorkerOwnsItsTask, Claimed
<1> QED BY <1>1, <1>3, <1>4

LEMMA ClaimKeepsOwner ==
  ASSUME OneWorker, MaxLostAcks = 0, QueueInv, SoloInv, WorkerOwnsItsTask, NEW w \in Workers,
         Claim(w)
  PROVE  WorkerOwnsItsTask'
<1>1. worker \in [Workers -> WorkerShape]
  BY DEF QueueInv, QueueShape
<1>2. CASE ListRequests(w)
  <2>1. worker'[w].pc = worker[w].pc /\ worker'[w].task = worker[w].task
    BY <1>1, <1>2 DEF ListRequests, WorkerShape
  <2> QED BY <1>2, <2>1, StaysOwner DEF ListRequests
<1>3. CASE \E t \in Tasks : TakeRequest(w, t)
  <2>1. worker'[w].pc = "claim"
    BY <1>1, <1>3 DEF TakeRequest, WorkerShape
  <2> QED BY <1>3, <2>1, StaysOwner DEF TakeRequest, Claimed
<1>4. CASE ReadLeaseFile(w)
  <2>1. worker'[w].pc \in {"next", "select"}
    BY <1>4, LocalIs DEF ReadLeaseFile, QueueInv
  <2> QED BY <1>4, <2>1, StaysOwner DEF ReadLeaseFile, Claimed
<1>5. CASE \E how \in Outcomes : SelectForLease(w, how)
  <2>1. worker'[w].pc \in {"next", "lease"}
    <3>1. \/ Local(w, "next")
          \/ worker' = [worker EXCEPT ![w].pc = "lease", ![w].read = row[TaskOf(w)],
                                      ![w].expires = LeaseTicks]
      BY <1>5 DEF SelectForLease
    <3>2. CASE Local(w, "next")
      BY <3>2, LocalIs DEF QueueInv
    <3>3. CASE worker' = [worker EXCEPT ![w].pc = "lease", ![w].read = row[TaskOf(w)],
                                        ![w].expires = LeaseTicks]
      <4>1. worker' = [worker EXCEPT ![w] = [worker[w] EXCEPT
                           !.pc = "lease", !.read = row[TaskOf(w)], !.expires = LeaseTicks]]
        BY <1>1, <3>3 DEF WorkerShape
      <4> QED BY <1>1, <4>1 DEF WorkerShape
    <3> QED BY <3>1, <3>2, <3>3
  <2> QED BY <1>5, <2>1, StaysOwner DEF SelectForLease, Claimed
<1>6. CASE \E how \in Outcomes : CommitLease(w, how)
  BY <1>6, LeaseOwns
<1>7. CASE WriteLeaseFile(w)
  <2>1. worker'[w].task = worker[w].task
    BY <1>7, LocalIs DEF WriteLeaseFile, QueueInv
  <2> QED BY <1>7, <2>1, StaysOwner DEF WriteLeaseFile, At, Claimed
<1> QED BY <1>2, <1>3, <1>4, <1>5, <1>6, <1>7 DEF Claim

LEMMA AnswerKeepsOwner ==
  ASSUME OneWorker, QueueInv, WorkerOwnsItsTask, NEW w \in Workers, Answer(w)
  PROVE  WorkerOwnsItsTask'
<1>1. /\ worker[w].pc \in {"handle", "respond", "record"} /\ UNCHANGED row
      /\ Local(w, "respond") \/ Local(w, "record") \/ Local(w, "unlink") \/ GiveUp(w, "unlink")
  BY DEF Answer, HandlerReturns, HandlerRaises, WriteResponse, RecordResponse, At
<1>2. worker'[w].task = worker[w].task
  BY <1>1, LocalIs, GiveUpIs DEF QueueInv
<1> QED BY <1>1, <1>2, StaysOwner DEF Claimed

(* Only the commit of the completion takes the row out of the worker's name *)
(* and a commit that is reported as failed has left it there.               *)
LEMMA CloseKeepsOwner ==
  ASSUME OneWorker, MaxLostAcks = 0, QueueInv, SoloInv, WorkerOwnsItsTask, NEW w \in Workers,
         Close(w)
  PROVE  WorkerOwnsItsTask'
<1>1. worker \in [Workers -> WorkerShape]
  BY DEF QueueInv, QueueShape
<1>2. CASE CheckLeaseFile(w)
  <2>1. worker'[w].task = worker[w].task
    BY <1>2, LocalIs DEF CheckLeaseFile, QueueInv
  <2> QED BY <1>2, <2>1, StaysOwner DEF CheckLeaseFile, At, Claimed
<1>3. CASE RemoveLeaseFile(w)
  <2>1. Local(w, "complete") \/ GiveUp(w, "unlink") \/ Local(w, "dead")
    BY <1>3 DEF RemoveLeaseFile, MarkingRaises
  <2>2. worker'[w].task = worker[w].task
    BY <2>1, LocalIs, GiveUpIs DEF QueueInv
  <2> QED BY <1>3, <2>2, StaysOwner DEF RemoveLeaseFile, At, Claimed
<1>4. CASE \E how \in Outcomes : SelectForCompletion(w, how)
  <2>1. worker[w].pc \in Claimed /\ UNCHANGED row
    BY <1>4 DEF SelectForCompletion, At, Claimed
  <2>2. CASE GiveUp(w, "unlink") \/ Local(w, "dead")
    <3>1. worker'[w].task = worker[w].task
      BY <2>2, LocalIs, GiveUpIs DEF QueueInv
    <3> QED BY <2>1, <3>1, StaysOwner
  <2>3. CASE worker' = [worker EXCEPT ![w].pc = "commit", ![w].read = row[TaskOf(w)]]
    <3>1. worker' = [worker EXCEPT ![w] = [worker[w] EXCEPT
                         !.pc = "commit", !.read = row[TaskOf(w)]]]
      BY <1>1, <2>3 DEF WorkerShape
    <3>2. worker'[w].task = worker[w].task
      BY <1>1, <3>1 DEF WorkerShape
    <3> QED BY <2>1, <3>2, StaysOwner
  <2> QED BY <1>4, <2>2, <2>3 DEF SelectForCompletion, MarkingRaises
<1>5. CASE \E how \in Outcomes : CommitCompletion(w, how)
  <2>1. PICK how \in Outcomes : CommitCompletion(w, how)
    BY <1>5
  <2>2. how \in {"committed", "rolled back"} /\ worker[w].pc \in Claimed
    BY <2>1, NoAckLost DEF CommitCompletion, At, SoloInv, Claimed
  <2>3. CASE how = "rolled back"
    <3>1. GiveUp(w, "unlink") \/ Local(w, "dead")
      BY <2>1, <2>3 DEF CommitCompletion, Reported, MarkingRaises
    <3>2. worker'[w].task = worker[w].task
      BY <3>1, LocalIs, GiveUpIs DEF QueueInv
    <3>3. row' = row
      BY <2>1, <2>3, ClosedRow
    <3> QED BY <2>2, <3>2, <3>3, StaysOwner
  <2>4. CASE how = "committed"
    <3>1. Local(w, "status") \/ worker' = [worker EXCEPT ![w] = Fresh]
      BY <2>1, <2>4 DEF CommitCompletion, Reported
    <3>2. worker'[w].pc \in {"status", "next"}
      BY <1>1, <3>1, LocalIs DEF QueueInv, Fresh
    <3> QED BY <3>2 DEF OneWorker, WorkerOwnsItsTask, Claimed
  <2> QED BY <2>2, <2>3, <2>4
<1>6. CASE \E how \in Outcomes : FileFailure(w, how)
  <2>1. worker'[w].pc = "dead" /\ UNCHANGED row
    BY <1>6, LocalIs DEF FileFailure, QueueInv
  <2> QED BY <2>1, StaysOwner DEF Claimed
<1> QED BY <1>2, <1>3, <1>4, <1>5, <1>6 DEF Close

(* One worker and no lost acknowledgement: from the lease to the commit of  *)
(* the completion the task it works on is "running" in its name             *)
(* (acquire_task_lease, complete_task), so that nobody else takes it up and *)
(* the row it closes is the one it was given.                               *)
THEOREM LoneWorkerOwns ==
  ASSUME OneWorker, MaxLostAcks = 0
  PROVE  QueueSpec => []WorkerOwnsItsTask
<1>1. QueueInit => WorkerOwnsItsTask
  BY DEF QueueInit, WorkerOwnsItsTask, Fresh, Claimed
<1>2. ASSUME QueueInv, SoloInv, WorkerOwnsItsTask, [QueueNext]_queueVars
      PROVE  WorkerOwnsItsTask'
  <2>1. CASE \E t \in Tasks : Produce(t)
    <3>1. PICK t \in Tasks : Produce(t)
      BY <2>1
    <3>2. /\ UNCHANGED worker /\ row[t].status = "absent"
          /\ \A u \in Tasks \ {t} : row'[u] = row[u]
      BY <1>2, <3>1 DEF Produce, WriteRequest, RecordRequest, Enqueue, SoloInv, ProducerFirst,
                        QueueInv, QueueShape
    <3>3. \A w \in Workers : worker[w].pc \in Claimed => TaskOf(w) \in Tasks \ {t}
      BY <1>2, <3>2 DEF WorkerOwnsItsTask, QueueInv, QueueShape, Claimed
    <3> QED BY <1>2, <3>2, <3>3 DEF WorkerOwnsItsTask, TaskOf
  <2>2. CASE \E w \in Workers : Claim(w) \/ Answer(w) \/ Close(w)
    BY <1>2, <2>2, ClaimKeepsOwner, AnswerKeepsOwner, CloseKeepsOwner
  <2>3. CASE \E w \in Workers : Restart(w) \/ Crash(w)
    <3>1. PICK w \in Workers : Restart(w) \/ Crash(w)
      BY <2>3
    <3>2. worker'[w].pc \in {"next", "dead"} /\ UNCHANGED row
      BY <1>2, <3>1, LocalIs DEF Restart, Crash, Fresh, QueueInv, QueueShape
    <3> QED BY <1>2, <3>2, StaysOwner DEF Claimed
  <2>4. CASE Tick
    <3>1. \A w \in Workers : worker'[w].pc = worker[w].pc /\ worker'[w].task = worker[w].task
      BY <1>2, <2>4 DEF Tick, QueueInv, QueueShape, WorkerShape
    <3>2. \A t \in Tasks : row'[t].status = row[t].status /\ row'[t].owner = row[t].owner
      BY <1>2, <2>4 DEF Tick, QueueInv, QueueShape, RowShape
    <3>3. \A w \in Workers : worker[w].pc \in Claimed => TaskOf(w) \in Tasks
      BY <1>2 DEF QueueInv, QueueShape, Claimed
    <3> QED BY <1>2, <3>1, <3>2, <3>3 DEF WorkerOwnsItsTask, TaskOf
  <2>5. CASE UNCHANGED queueVars
    BY <1>2, <2>5 DEF queueVars, WorkerOwnsItsTask, TaskOf
  <2> QED BY <1>2, <2>1, <2>2, <2>3, <2>4, <2>5 DEF QueueNext, Work
<1>3. QueueInv /\ SoloInv /\ WorkerOwnsItsTask /\ [QueueNext]_queueVars => WorkerOwnsItsTask'
  BY <1>2
<1> QED BY <1>1, <1>3, SoloInvariant, PTL DEF QueueSpec
-------------------------------------------------------------------------------
(* The refinement: what a step does to the rows, seen as statuses and tries.*)
OwnerInv == QueueInv /\ SoloInv /\ WorkerOwnsItsTask

LEMMA StatusOf ==
  ASSUME NEW t \in Tasks, NEW s, \A u \in Tasks \ {t} : row'[u].status = row[u].status,
         row'[t].status = s
  PROVE  [u \in Tasks |-> row[u].status]' = [[u \in Tasks |-> row[u].status] EXCEPT ![t] = s]
OBVIOUS

LEMMA TriesStay ==
  ASSUME \A u \in Tasks : row'[u].attempts = row[u].attempts
  PROVE  [u \in Tasks |-> row[u].attempts]' = [u \in Tasks |-> row[u].attempts]
OBVIOUS

LEMMA LifecycleStutters ==
  ASSUME \A u \in Tasks : row'[u].status = row[u].status /\ row'[u].attempts = row[u].attempts,
         UNCHANGED responses
  PROVE  UNCHANGED Lifecycle!lifecycleVars
BY DEF Lifecycle!lifecycleVars

(* Enqueue submits the task.                                                *)
LEMMA ProduceImplements ==
  ASSUME OwnerInv, NEW t \in Tasks, Produce(t)
  PROVE  [Lifecycle!LifecycleNext]_(Lifecycle!lifecycleVars)
<1>1. CASE row' = row
  <2>1. UNCHANGED responses
    BY DEF Produce, WriteRequest, RecordRequest, Enqueue, diskVars
  <2> QED BY <1>1, <2>1, LifecycleStutters
<1>2. CASE row' # row
  <2>1. /\ row' = [row EXCEPT ![t].status = "queued"] /\ producer[t] = "enqueue"
        /\ UNCHANGED responses
    BY <1>2 DEF Produce, WriteRequest, RecordRequest, Enqueue, diskVars
  <2>2. row[t].status = "absent" /\ row \in [Tasks -> RowShape]
    BY <2>1 DEF OwnerInv, SoloInv, ProducerFirst, QueueInv, QueueShape
  <2>3. /\ \A u \in Tasks \ {t} : row'[u].status = row[u].status
        /\ row'[t].status = "queued"
        /\ \A u \in Tasks : row'[u].attempts = row[u].attempts
    BY <2>1, <2>2 DEF RowShape
  <2>4. Lifecycle!Submit(t)
    BY <2>1, <2>2, <2>3, StatusOf, TriesStay DEF Lifecycle!Submit, Lifecycle!Become
  <2> QED BY <2>4 DEF Lifecycle!LifecycleNext
<1> QED BY <1>1, <1>2

(* A lease that takes effect starts a try.                                  *)
LEMMA LeaseImplements ==
  ASSUME MaxLostAcks = 0, OwnerInv, NEW w \in Workers, NEW how \in Outcomes, CommitLease(w, how)
  PROVE  [Lifecycle!LifecycleNext]_(Lifecycle!lifecycleVars)
<1>0. PICK t \in Tasks : t = TaskOf(w)
  BY DEF CommitLease, At, OwnerInv, QueueInv, QueueShape
<1>1. /\ worker[w].pc = "lease" /\ how \in {"committed", "rolled back"}
      /\ worker[w].read.status = row[t].status /\ worker[w].read.attempts = row[t].attempts
      /\ row[t].status \notin Terminal \cup {"absent"} /\ row \in [Tasks -> RowShape]
      /\ UNCHANGED responses
  BY <1>0, NoAckLost DEF CommitLease, At, OwnerInv, QueueInv, QueueShape, SoloInv, ReadIsRow, diskVars
<1>2. CASE how = "rolled back"
  <2>1. row' = row
    BY <1>2 DEF CommitLease, TakesEffect
  <2> QED BY <1>1, <2>1, LifecycleStutters
<1>3. CASE how = "committed"
  <2>1. /\ \A u \in Tasks \ {t} : row'[u] = row[u]
        /\ row'[t].status = "running" /\ row'[t].attempts = row[t].attempts + 1
    BY <1>0, <1>1, <1>3 DEF CommitLease, TakesEffect
  <2>2. row[t].status \in {"queued", "failed", "running"}
    BY <1>1 DEF RowShape, Statuses, Terminal
  <2>3. [u \in Tasks |-> row[u].attempts]'
          = [[u \in Tasks |-> row[u].attempts] EXCEPT ![t] = @ + 1]
    BY <1>1, <2>1
  <2>4. Lifecycle!Start(t)
    BY <1>1, <2>1, <2>2, <2>3, StatusOf DEF Lifecycle!Start, Lifecycle!Become
  <2> QED BY <1>1, <2>4 DEF Lifecycle!LifecycleNext
<1> QED BY <1>1, <1>2, <1>3

(* A completion that takes effect ends the try: with success only when the  *)
(* response is there, for good when the tries are used up.                  *)
LEMMA CompletionImplements ==
  ASSUME OneWorker, MaxLostAcks = 0, OwnerInv, NEW w \in Workers, NEW how \in Outcomes,
         CommitCompletion(w, how)
  PROVE  [Lifecycle!LifecycleNext]_(Lifecycle!lifecycleVars)
<1>0. PICK t \in Tasks, s \in {"succeeded", "failed", "dead_letter"} :
            t = TaskOf(w) /\ s = ClosedStatus(w)
  BY ClosedRow DEF OwnerInv
<1>1. /\ worker[w].pc = "commit"
      /\ \A u \in Tasks \ {t} : row'[u] = row[u]
      /\ how = "rolled back" => row' = row
      /\ how # "rolled back" => row'[t].status = s /\ row'[t].attempts = row[t].attempts
      /\ s = "failed" => row[t].attempts < MaxAttempts
      /\ s = "dead_letter" => row[t].attempts >= MaxAttempts
      /\ s = "succeeded" => t \in responses
  BY <1>0, ClosedRow DEF OwnerInv
<1>2. UNCHANGED responses
  BY DEF CommitCompletion, diskVars
<1>3. row[t].status = "running"
  BY <1>0, <1>1 DEF OwnerInv, WorkerOwnsItsTask, Claimed
<1>4. CASE how = "rolled back"
  BY <1>1, <1>2, <1>4, LifecycleStutters
<1>5. CASE how # "rolled back"
  <2>1. /\ [u \in Tasks |-> row[u].attempts]' = [u \in Tasks |-> row[u].attempts]
        /\ [u \in Tasks |-> row[u].status]' = [[u \in Tasks |-> row[u].status] EXCEPT ![t] = s]
    BY <1>1, <1>5, StatusOf, TriesStay
  <2>2. CASE s = "succeeded"
    <3>1. Lifecycle!Succeed(t)
      BY <1>1, <1>2, <1>3, <2>1, <2>2 DEF Lifecycle!Succeed, Lifecycle!Become
    <3> QED BY <1>1, <3>1 DEF Lifecycle!LifecycleNext
  <2>3. CASE s = "failed"
    <3>1. Lifecycle!FailTry(t)
      BY <1>1, <1>2, <1>3, <2>1, <2>3 DEF Lifecycle!FailTry, Lifecycle!Become
    <3> QED BY <1>1, <3>1 DEF Lifecycle!LifecycleNext
  <2>4. CASE s = "dead_letter"
    <3>1. Lifecycle!Bury(t)
      BY <1>1, <1>2, <1>3, <2>1, <2>4 DEF Lifecycle!Bury, Lifecycle!Become
    <3> QED BY <1>1, <3>1 DEF Lifecycle!LifecycleNext
  <2> QED BY <1>1, <2>2, <2>3, <2>4
<1> QED BY <1>4, <1>5

(* A response is written for a task that is "running" in the worker's name. *)
LEMMA ResponseImplements ==
  ASSUME OwnerInv, NEW w \in Workers, WriteResponse(w)
  PROVE  [Lifecycle!LifecycleNext]_(Lifecycle!lifecycleVars)
<1>1. /\ TaskOf(w) \in Tasks /\ row[TaskOf(w)].status = "running" /\ UNCHANGED row
      /\ responses' = responses \cup {TaskOf(w)}
  BY DEF WriteResponse, At, OwnerInv, WorkerOwnsItsTask, QueueInv, QueueShape, Claimed
<1>2. Lifecycle!Respond(TaskOf(w))
  BY <1>1 DEF Lifecycle!Respond
<1> QED BY <1>1, <1>2 DEF Lifecycle!LifecycleNext

(* One worker and no lost acknowledgement: the queue does what              *)
(* TaskLifecycle promises (docstrings of acquire_task_lease and             *)
(* complete_task): a task is tried until a try succeeds or the last         *)
(* permitted one fails, success is said of tasks with a response, and both  *)
(* ends are final.                                                          *)
THEOREM QueueImplementsLifecycle ==
  ASSUME OneWorker, MaxLostAcks = 0
  PROVE  QueueSpec => ImplementsLifecycle
<1>1. QueueInit => Lifecycle!LifecycleInit
  BY DEF QueueInit, Lifecycle!LifecycleInit, NoRow
<1>2. ASSUME OwnerInv, [QueueNext]_queueVars
      PROVE  [Lifecycle!LifecycleNext]_(Lifecycle!lifecycleVars)
  <2>1. CASE \E t \in Tasks : Produce(t)
    BY <1>2, <2>1, ProduceImplements
  <2>2. CASE UNCHANGED <<row, responses>>
    BY <2>2, LifecycleStutters
  <2>3. CASE \E w \in Workers : Claim(w)
    <3>1. CASE \E w \in Workers, how \in Outcomes : CommitLease(w, how)
      BY <1>2, <3>1, LeaseImplements
    <3>2. CASE UNCHANGED <<row, responses>>
      BY <2>2, <3>2
    <3> QED BY <2>3, <3>1, <3>2 DEF Claim, ListRequests, TakeRequest, ReadLeaseFile,
                                    SelectForLease, WriteLeaseFile, diskVars
  <2>4. CASE \E w \in Workers : Answer(w)
    <3>1. CASE \E w \in Workers : WriteResponse(w)
      BY <1>2, <3>1, ResponseImplements
    <3> QED BY <2>2, <2>4, <3>1 DEF Answer, HandlerReturns, HandlerRaises, RecordResponse,
                                    diskVars
  <2>5. CASE \E w \in Workers : Close(w)
    <3>1. CASE \E w \in Workers, how \in Outcomes : CommitCompletion(w, how)
      BY <1>2, <3>1, CompletionImplements
    <3> QED BY <2>2, <2>5, <3>1 DEF Close, CheckLeaseFile, RemoveLeaseFile,
                                    SelectForCompletion, FileFailure, diskVars
  <2>6. CASE \E w \in Workers : Restart(w) \/ Crash(w)
    BY <2>2, <2>6 DEF Restart, Crash, diskVars
  <2>7. CASE Tick
    <3>1. \A u \in Tasks : row'[u].status = row[u].status /\ row'[u].attempts = row[u].attempts
      BY <1>2, <2>7 DEF Tick, OwnerInv, QueueInv, QueueShape, RowShape
    <3> QED BY <2>7, <3>1, LifecycleStutters DEF Tick
  <2>8. CASE UNCHANGED queueVars
    BY <2>2, <2>8 DEF queueVars, diskVars
  <2> QED BY <1>2, <2>1, <2>3, <2>4, <2>5, <2>6, <2>7, <2>8 DEF QueueNext, Work
<1>3. QueueInv /\ SoloInv /\ WorkerOwnsItsTask /\ [QueueNext]_queueVars
        => [Lifecycle!LifecycleNext]_(Lifecycle!lifecycleVars)
  BY <1>2 DEF OwnerInv
<1> QED
  BY <1>1, <1>3, SoloInvariant, LoneWorkerOwns, PTL
  DEF QueueSpec, ImplementsLifecycle, Lifecycle!LifecycleSpec
===============================================================================
