\* Library calls fail and items are added while the queue is destroyed, or not.
SPECIFICATION FairSpec
CONSTANTS
    Items = {i1, i2, i3}
    Workers = {w1, w2}
    Destroyer = Destroyer
    NULL = NULL
    parallelism = 2
INVARIANTS QueueIsFifo CounterAccurate NoStrandedItem DestroyedMeansQuiet
PROPERTIES AcceptedIsProcessed DestroyReturns
CHECK_DEADLOCK FALSE
