-------------------------------- MODULE AtFork ---------------------------------
(***************************************************************************)
(* chap6-adjust/atfork.cxx: main holds a mutex while a second thread forks *)
(* a child.  The child has its own copy of the mutex, in the state it had  *)
(* when fork was called; the handlers see to it that the forking thread    *)
(* holds it then.                                                          *)
(***************************************************************************)

VARIABLES
    atfork_flag,    \* the program's argument: whether the handlers are registered
    mutex,          \* who holds the parent's mutex: "main", "thread" or "none"
    childMutex,     \* whether the child's copy is locked
    mainAt,
    threadAt,       \* where fork_thread is in thread_routine
    childAt         \* where the child is in its copy of it

vars == <<atfork_flag, mutex, childMutex, mainAt, threadAt, childAt>>

\* main has registered the handlers, locked the mutex and created the thread.
Init ==
    /\ atfork_flag \in BOOLEAN
    /\ mutex = "main"
    /\ childMutex = FALSE
    /\ mainAt = "sleep"
    /\ threadAt = "start"
    /\ childAt = "none"

MainUnlocks ==
    /\ mainAt = "sleep"
    /\ mutex' = "none"
    /\ mainAt' = "join"
    /\ UNCHANGED <<atfork_flag, childMutex, threadAt, childAt>>

MainJoins ==
    /\ mainAt = "join"
    /\ threadAt = "done"
    /\ mainAt' = "done"
    /\ UNCHANGED <<atfork_flag, mutex, childMutex, threadAt, childAt>>

-------------------------------------------------------------------------------
(* fork in the second thread *)
fork_prepare ==
    /\ threadAt = "start" /\ atfork_flag
    /\ mutex = "none"
    /\ mutex' = "thread"
    /\ threadAt' = "fork"
    /\ UNCHANGED <<atfork_flag, childMutex, mainAt, childAt>>

Fork ==
    /\ threadAt = IF atfork_flag THEN "fork" ELSE "start"
    /\ childMutex' = (mutex # "none")
    /\ childAt' = IF atfork_flag THEN "handler" ELSE "lock"
    /\ threadAt' = IF atfork_flag THEN "handler" ELSE "lock"
    /\ UNCHANGED <<atfork_flag, mutex, mainAt>>

fork_parent ==
    /\ threadAt = "handler"
    /\ mutex' = "none"
    /\ threadAt' = "lock"
    /\ UNCHANGED <<atfork_flag, childMutex, mainAt, childAt>>

UnlockInChild_Forgotten == UNCHANGED childMutex
UnlockInChild == childMutex' = FALSE

fork_child ==
    /\ childAt = "handler"
    /\ UnlockInChild
    /\ childAt' = "lock"
    /\ UNCHANGED <<atfork_flag, mutex, mainAt, threadAt>>

\* Both lock and unlock the mutex after fork; the parent waits for the child.
ThreadLocks ==
    /\ threadAt = "lock"
    /\ mutex = "none"
    /\ threadAt' = "waitpid"
    /\ UNCHANGED <<atfork_flag, mutex, childMutex, mainAt, childAt>>

ChildLocks ==
    /\ childAt = "lock"
    /\ ~childMutex
    /\ childAt' = "done"
    /\ UNCHANGED <<atfork_flag, mutex, childMutex, mainAt, threadAt>>

WaitPid ==
    /\ threadAt = "waitpid"
    /\ childAt = "done"
    /\ threadAt' = "done"
    /\ UNCHANGED <<atfork_flag, mutex, childMutex, mainAt, childAt>>

-------------------------------------------------------------------------------
Main == MainUnlocks \/ MainJoins
ForkThread == fork_prepare \/ Fork \/ fork_parent \/ ThreadLocks \/ WaitPid
Child == fork_child \/ ChildLocks

Next == Main \/ ForkThread \/ Child

\* Everything in both processes goes on when it can.
Fairness == WF_vars(Main) /\ WF_vars(ForkThread) /\ WF_vars(Child)

Spec == Init /\ [][Next]_vars /\ Fairness

(* Both processes end, whenever main gives up the mutex, unless no handler *)
(* was registered and the child has inherited a mutex that only main of    *)
(* the parent could unlock.                                                *)
BothProcessesEnd ==
    <>(\/ mainAt = "done" /\ childAt = "done"
       \/ ~atfork_flag /\ childMutex)
===============================================================================
