SPECIFICATION FairSpec
CONSTANTS
    Tasks = {t1, t2, t3}
    Workers = {w1, w2, w3}
    NULL = NULL
    task_queue_size = 2
    MaxTaken = 4
INVARIANTS WorkConserving DrainedWhenJoined
PROPERTIES ImplementsFifo AcceptedIsRun DestroyReturns
CHECK_DEADLOCK FALSE
