\* More threads than places: cycles overlap with the late leavers of older ones.
SPECIFICATION FairSpec
CONSTANTS
    Threads = {t1, t2, t3}
    threshold = 2
    CycleModulus = 8
    MaxRounds = 3
INVARIANT CounterCountsWaiters
PROPERTIES ImplementsBarrier ReleasedThreadLeaves
CHECK_DEADLOCK FALSE
