------------------------------- MODULE Pthreads -------------------------------
(***************************************************************************)
(* Condition variables as the programs of this repository use them.  The   *)
(* library itself is not in the repository; it is modelled from its calls. *)
(*                                                                         *)
(* A condition variable is the set of the threads asleep on it.  A thread  *)
(* whose program counter is at a wait and that is not in the set has been  *)
(* woken and competes for the mutex.  Every module also lets a sleeper     *)
(* wake spuriously, which pthread_cond_wait permits.                       *)
(*                                                                         *)
(* A mutex is not a variable unless a program keeps one locked where it    *)
(* should not: the code between a lock and the next unlock or wait is one  *)
(* action.  What the code reads or writes without the lock is a step of    *)
(* its own.                                                                *)
(***************************************************************************)

\* pthread_cond_wait puts the caller to sleep and gives up the mutex.
CondWait(cv, t) == cv \cup {t}

\* pthread_cond_signal wakes one sleeper, if there is one: the possible results.
CondSignal(cv) == IF cv = {} THEN {cv} ELSE {cv \ {t} : t \in cv}

\* pthread_cond_broadcast wakes all of them.
CondBroadcast(cv) == {}

\* A sleeper leaves: woken spuriously, timed out or cancelled.
CondLeave(cv, t) == cv \ {t}
===============================================================================
