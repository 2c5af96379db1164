-------------------------------- MODULE Backoff --------------------------------
(***************************************************************************)
(* chap3-sync/backoff.cc: two threads lock the same three mutexes, one     *)
(* forwards and one backwards.  A thread that finds a mutex taken unlocks  *)
(* those it has and starts again.                                          *)
(*                                                                         *)
(* The positions 0 .. 2 of a thread are the mutexes in its own order.  The *)
(* two routines are the same but for that order.  The loop that unlocks    *)
(* starts with the mutex that could not be locked, which the other thread  *)
(* holds: such an unlock frees it or fails, depending on the platform.     *)
(***************************************************************************)
EXTENDS Integers

CONSTANT ITERATIONS

VARIABLES
    holder,     \* for each mutex the thread that locked it, or "none"
    place,      \* where each thread is
    index,      \* its loop variable i, as a position in its own order
    rounds,     \* its loop variable iterate
    aborted     \* err_abort has ended the process

vars == <<holder, place, index, rounds, aborted>>

Lockers == {"forward", "backward"}
Mutex(t, k) == IF t = "forward" THEN k ELSE 2 - k

Init ==
    /\ holder = [m \in 0 .. 2 |-> "none"]
    /\ place = [t \in Lockers |-> "lock"]
    /\ index = [t \in Lockers |-> 0]
    /\ rounds = [t \in Lockers |-> 0]
    /\ aborted = FALSE

Mine(t) == Mutex(t, index[t])
Goto(t, to, i) ==
    /\ place' = [place EXCEPT ![t] = to]
    /\ index' = [index EXCEPT ![t] = i]

\* Whether the mutexes after the first are locked with pthread_mutex_trylock.
backoff_Off == FALSE
backoff == TRUE

Lock(t) ==
    /\ place[t] = "lock"
    /\ holder[Mine(t)] = "none"
    /\ holder' = [holder EXCEPT ![Mine(t)] = t]
    /\ IF index[t] = 2 THEN Goto(t, "release", 2) ELSE Goto(t, "lock", index[t] + 1)
    /\ UNCHANGED <<rounds, aborted>>

TryFails(t) ==
    /\ place[t] = "lock"
    /\ holder[Mine(t)] # "none"
    /\ index[t] # 0 /\ backoff
    /\ Goto(t, "back", index[t])
    /\ UNCHANGED <<holder, rounds, aborted>>

\* One turn of the loop that unlocks and, after the last, the first lock again.
BackOff(t) ==
    /\ place[t] = "back"
    /\ holder' = [holder EXCEPT ![Mine(t)] = "none"]
    /\ IF index[t] = 0 THEN Goto(t, "lock", 0) ELSE Goto(t, "back", index[t] - 1)
    /\ UNCHANGED <<rounds, aborted>>

BackOffFails(t) ==
    /\ place[t] = "back"
    /\ holder[Mine(t)] # t
    /\ aborted' = TRUE
    /\ UNCHANGED <<holder, place, index, rounds>>

\* The three unlocks at the end, whose results are not looked at.
Release(t) ==
    /\ place[t] = "release"
    /\ \/ holder' = [holder EXCEPT ![Mine(t)] = "none"]
       \/ holder[Mine(t)] # t /\ UNCHANGED holder
    /\ IF index[t] # 0
         THEN Goto(t, "release", index[t] - 1) /\ UNCHANGED rounds
         ELSE /\ rounds' = [rounds EXCEPT ![t] = @ + 1]
              /\ Goto(t, IF rounds'[t] = ITERATIONS THEN "done" ELSE "lock", 0)
    /\ UNCHANGED aborted

Step(t) ==
    ~aborted /\ (Lock(t) \/ TryFails(t) \/ BackOff(t) \/ BackOffFails(t) \/ Release(t))

Next == \E t \in Lockers : Step(t)

Spec == Init /\ [][Next]_vars

-------------------------------------------------------------------------------
\* The thread waits in pthread_mutex_lock.
Stuck(t) == place[t] = "lock" /\ holder[Mine(t)] # "none" /\ (index[t] = 0 \/ ~backoff)

(* The two threads never wait for each other, although they lock in        *)
(* opposite orders and unlock what they do not hold: when one waits, the   *)
(* other can go on.                                                        *)
NoDeadlock == \A t \in Lockers : Stuck(t) => \E u \in Lockers : ~Stuck(u) /\ place[u] # "done"
===============================================================================
