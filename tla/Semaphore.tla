------------------------------- MODULE Semaphore -------------------------------
(***************************************************************************)
(* chap6-adjust/semaphore_signal.cxx: threads wait five times each for a   *)
(* semaphore that the handler of a timer signal posts.                     *)
(*                                                                         *)
(* The signal is for the process: the system runs the handler in a thread  *)
(* of its choice, and a sem_wait it interrupts returns -1 with EINTR.  A   *)
(* signal that is still pending when the timer expires again is not sent   *)
(* twice.                                                                  *)
(***************************************************************************)
EXTENDS Naturals, FiniteSets

CONSTANTS
    Waiters,
    Waits,          \* the calls of sem_wait each makes: 5 in the code
    MaxPosts        \* bound: the number of signals the handler takes

VARIABLES
    value,      \* of the semaphore
    timer,      \* the signal is pending
    returned,   \* "eintr" if sem_wait has returned -1 to the waiter, else "none"
    woken,      \* how often each waiter went through its loop
    joined,     \* main has joined the waiters
    posted      \* history: the number of posts

vars == <<value, timer, returned, woken, joined, posted>>

Init ==
    /\ value = 0
    /\ timer = FALSE
    /\ returned = [w \in Waiters |-> "none"]
    /\ woken = [w \in Waiters |-> 0]
    /\ joined = FALSE
    /\ posted = 0

TimerExpires ==
    /\ ~joined
    /\ posted < MaxPosts
    /\ timer' = TRUE
    /\ UNCHANGED <<value, returned, woken, joined, posted>>

InSemWait(w) == woken[w] < Waits /\ returned[w] = "none"

\* The handler runs in a thread that is not in sem_wait, or in one that is: then
\* that call returns when the handler does, without the post it has made.
signal_catcher ==
    /\ timer
    /\ timer' = FALSE
    /\ value' = value + 1
    /\ posted' = posted + 1
    /\ \/ UNCHANGED returned
       \/ \E w \in Waiters : InSemWait(w) /\ returned' = [returned EXCEPT ![w] = "eintr"]
    /\ UNCHANGED <<woken, joined>>

\* The waiter finds EINTR in errno and calls sem_wait again; meanwhile others may
\* have taken the post.
AfterEintr_GoesOn(w) == woken' = [woken EXCEPT ![w] = @ + 1]
AfterEintr(w) == UNCHANGED woken

Interrupted(w) ==
    /\ returned[w] = "eintr"
    /\ returned' = [returned EXCEPT ![w] = "none"]
    /\ AfterEintr(w)
    /\ UNCHANGED <<value, timer, joined, posted>>

sem_waiter(w) ==
    /\ InSemWait(w)
    /\ value > 0
    /\ value' = value - 1
    /\ woken' = [woken EXCEPT ![w] = @ + 1]
    /\ UNCHANGED <<timer, returned, joined, posted>>

Join ==
    /\ ~joined
    /\ \A w \in Waiters : woken[w] = Waits
    /\ joined' = TRUE
    /\ UNCHANGED <<value, timer, returned, woken, posted>>

Next ==
    \/ TimerExpires
    \/ signal_catcher
    \/ \E w \in Waiters : sem_waiter(w) \/ Interrupted(w)
    \/ Join

Spec == Init /\ [][Next]_vars

\* The wake-ups there have been: each waiter's first, second, ...
WakeUps == {k \in Waiters \X (1 .. Waits) : k[2] <= woken[k[1]]}

(* Every wake-up of a waiter is paid for by one post, and no post is lost, *)
(* also when the handler that posts interrupts the waiter's own sem_wait   *)
(* and another waiter takes the post before the call is repeated.          *)
PostsAreConserved == value + Cardinality(WakeUps) = posted
===============================================================================
