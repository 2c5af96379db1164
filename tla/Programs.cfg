\* Two callers, three targets and an array that has to grow twice; two rounds of
\* the two lockers; more posts than waits; three threads to
\* cancel, three workers and three users of the key.
SPECIFICATION Spec
CONSTANTS
    Callers = {c1, c2}
    Targets = {t1, t2, t3}
    NULL = NULL
    Junk = Junk
    InitialBottom = 1
    MaxBottom = 3
    ITERATIONS = 2
    Waiters = {w1, w2}
    Waits = 3
    MaxPosts = 8
    Thread = {p1, p2, p3}
    THREADS = 3
    Users = {u0, u1, u2}
    Initial = u0
INVARIANTS ListedIsStopped StoppedCanResume NoDeadlock PostsAreConserved KeyOutlivesValues
PROPERTIES CallReturns BothProcessesEnd CleanEnd
CHECK_DEADLOCK FALSE
