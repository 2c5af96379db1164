\* The program with three threads; the cycle number wraps after two cycles.
SPECIFICATION MainSpec
CONSTANTS
    Threads = {t1, t2, t3}
    threshold = 3
    CycleModulus = 2
    MaxRounds = 6
    OUTLOOPS = 2
    Starts = {0, 1, 2}
INVARIANTS Lockstep SameShare
PROPERTIES MainReturns
CHECK_DEADLOCK FALSE
