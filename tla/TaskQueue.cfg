SPECIFICATION QueueFairSpec
CONSTANTS
    Tasks = {t1, t2}
    Workers = {w1}
    NoWorker = NoWorker
    NoTask = NoTask
    MaxAttempts = 2
    LeaseTicks = 2
    MaxCrashes = 1
    MaxDbFaults = 1
    MaxLostAcks = 0
INVARIANTS QueueTypeOK WorkerOwnsItsTask SucceededHasResponse
PROPERTIES ImplementsLifecycle EveryTaskEnds
CHECK_DEADLOCK FALSE
