----------------------------- MODULE CancelCleanup -----------------------------
(***************************************************************************)
(* chap5-advance/cancel_cleanup.cxx: threads that wait for a condition     *)
(* nobody makes true are cancelled one after the other; the cleanup        *)
(* handler counts them out and unlocks the mutex.                          *)
(*                                                                         *)
(* Cancellation is deferred: a thread that is cancelled early goes on to   *)
(* pthread_cond_wait, and one that is cancelled there has the mutex again  *)
(* before its handler runs.                                                *)
(***************************************************************************)
EXTENDS Naturals, FiniteSets, Pthreads

CONSTANTS Thread, NULL

VARIABLES
    control,    \* control.counter
    owner,      \* who holds control.mutex
    sleepers,   \* the threads asleep on control.cv
    where,      \* where each thread is
    cancelled,  \* the threads main has cancelled
    main        \* the thread main waits for in pthread_join, or NULL

vars == <<control, owner, sleepers, where, cancelled, main>>

Init ==
    /\ control = 0
    /\ owner = NULL
    /\ sleepers = {}
    /\ where = [t \in Thread |-> "start"]
    /\ cancelled = {}
    /\ main = NULL

Goto(t, to) == where' = [where EXCEPT ![t] = to]

\* The thread has pushed the handler, locks, counts itself and waits.
LockAndWait(t) ==
    /\ where[t] = "start"
    /\ owner = NULL
    /\ control' = control + 1
    /\ sleepers' = CondWait(sleepers, t)
    /\ Goto(t, "wait")
    /\ UNCHANGED <<owner, cancelled, main>>

\* After a spurious wake-up busy is still set.
WaitAgain(t) ==
    /\ where[t] = "wait"
    /\ t \notin sleepers \cup cancelled
    /\ owner = NULL
    /\ sleepers' = CondWait(sleepers, t)
    /\ UNCHANGED <<control, owner, where, cancelled, main>>

SpuriousWakeup(t) ==
    /\ t \in sleepers
    /\ sleepers' = CondLeave(sleepers, t)
    /\ UNCHANGED <<control, owner, where, cancelled, main>>

\* The cancellation takes effect in the wait or on the way back into it, with
\* the mutex locked again.
Cancelled(t) ==
    /\ where[t] = "wait"
    /\ t \in cancelled
    /\ owner = NULL
    /\ owner' = t
    /\ sleepers' = CondLeave(sleepers, t)
    /\ Goto(t, "handler")
    /\ UNCHANGED <<control, cancelled, main>>

Unlock_Forgotten == UNCHANGED owner
Unlock == owner' = NULL

cleanup_handler(t) ==
    /\ where[t] = "handler"
    /\ control' = control - 1
    /\ Unlock
    /\ Goto(t, "ended")
    /\ UNCHANGED <<sleepers, cancelled, main>>

\* main cancels a thread and joins it, one after the other.
CancelNext(t) ==
    /\ main = NULL
    /\ t \notin cancelled
    /\ cancelled' = cancelled \cup {t}
    /\ main' = t
    /\ UNCHANGED <<control, owner, sleepers, where>>

Joined ==
    /\ main # NULL
    /\ where[main] = "ended"
    /\ main' = NULL
    /\ UNCHANGED <<control, owner, sleepers, where, cancelled>>

Main == (\E t \in Thread : CancelNext(t)) \/ Joined
Routine(t) == LockAndWait(t) \/ WaitAgain(t) \/ Cancelled(t) \/ cleanup_handler(t)

Next == Main \/ \E t \in Thread : Routine(t) \/ SpuriousWakeup(t)

\* main and the threads go on when they can.
Fairness == WF_vars(Main) /\ \A t \in Thread : WF_vars(Routine(t))

Spec == Init /\ [][Next]_vars /\ Fairness

(* Every thread ends and main with them, with the count back at zero and   *)
(* the mutex free, whenever the cancellation finds the thread.             *)
CleanEnd ==
    <>[](main = NULL /\ cancelled = Thread /\ control = 0 /\ owner = NULL)
===============================================================================
