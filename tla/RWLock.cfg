\* Every operation of the lock.
SPECIFICATION FairSpec
CONSTANTS
    Threads = {t1, t2, t3}
    Ops = {"readlock", "readtrylock", "writelock", "writetrylock"}
    MaxWait = 1
INVARIANTS CountersExact TryExclusion ReadersSleepForWriter
PROPERTY ReaderGetsIn
CHECK_DEADLOCK FALSE
