\* Writers use rwl_writelock.
SPECIFICATION Spec
CONSTANTS
    Threads = {t1, t2, t3}
    Ops = {"readlock", "writelock"}
    MaxWait = 1
INVARIANT Exclusion
CHECK_DEADLOCK FALSE
