-------------------------------- MODULE Barrier --------------------------------
(***************************************************************************)
(* chap7-RealCode/barrier: a cyclic barrier made of a mutex, a condition   *)
(* variable, a counter of the places left and a cycle number.              *)
(*                                                                         *)
(* One thread, the owner, calls barrier_init and barrier_destroy; the      *)
(* others call barrier_wait any number of times and may be cancelled.      *)
(* barrier_wait and barrier_destroy read `valid' before they lock, and     *)
(* barrier_destroy frees the mutex and the condition variable after it     *)
(* unlocked: these are steps of their own, and everything between a lock   *)
(* and the next unlock or wait is one.                                     *)
(*                                                                         *)
(* A definition D_Variant stands before D and is D with a plausible slip:  *)
(* nothing uses it, and the properties must fail if it replaces D.         *)
(***************************************************************************)
EXTENDS Integers, FiniteSets, Pthreads

CONSTANTS
    Threads,        \* the threads that call barrier_wait
    threshold,      \* the count given to barrier_init
    CycleModulus,   \* where `unsigned long cycle' wraps around: 2^64 in the build
    MaxRounds       \* bound: calls of barrier_wait that a thread makes

ASSUME BarrierAssumption ==
    /\ IsFiniteSet(Threads)
    /\ threshold \in Nat \ {0}
    /\ CycleModulus \in Nat \ {0, 1}
    /\ MaxRounds \in Nat

VARIABLES
    valid,      \* barrier->valid = BARRIER_VALID
    live,       \* the mutex is initialised and not destroyed
    counter,    \* barrier->counter: the places left in this cycle
    cycle,      \* barrier->cycle
    cv,         \* the threads asleep on barrier->cv
    opc,        \* where the owner is in barrier_destroy
    oret,       \* what the owner's last call returned
    pc,         \* where each thread is in barrier_wait
    my_cycle,   \* the local variable `cycle' of barrier_wait
    nocancel,   \* the threads whose cancellation is disabled
    ret,        \* what each thread's last barrier_wait returned
    gen,        \* history: the cycles completed, without the wrap-around
    ticket,     \* history: the value of gen when the thread arrived
    arrived,    \* history: how often each thread arrived
    passed      \* history: how often each thread passed

fieldVars == <<valid, live, counter, cycle>>
ownerVars == <<opc, oret>>
historyVars == <<gen, ticket, arrived, passed>>
vars == <<fieldVars, cv, ownerVars, pc, my_cycle, nocancel, ret, historyVars>>

Status == {"none", "0", "-1", "EINVAL", "EBUSY", "ENOMEM"}

TypeOK ==
    /\ valid \in BOOLEAN
    /\ live \in BOOLEAN
    /\ counter \in 0 .. threshold
    /\ cycle \in 0 .. CycleModulus - 1
    /\ cv \in SUBSET Threads
    /\ opc \in {"idle", "checked", "free mutex", "free cond"}
    /\ oret \in Status
    /\ pc \in [Threads -> {"idle", "enter", "wait", "cancelled"}]
    /\ my_cycle \in [Threads -> 0 .. CycleModulus - 1]
    /\ nocancel \in SUBSET Threads
    /\ ret \in [Threads -> Status]
    /\ gen \in Nat
    /\ ticket \in [Threads -> Nat]
    /\ arrived \in [Threads -> Nat]
    /\ passed \in [Threads -> Nat]

\* The barrier of the program is a global variable: all its fields are zero.
Init ==
    /\ valid = FALSE
    /\ live = FALSE
    /\ counter = 0
    /\ cycle = 0
    /\ cv = {}
    /\ opc = "idle"
    /\ oret = "none"
    /\ pc = [t \in Threads |-> "idle"]
    /\ my_cycle = [t \in Threads |-> 0]
    /\ nocancel = {}
    /\ ret = [t \in Threads |-> "none"]
    /\ gen = 0
    /\ ticket = [t \in Threads |-> 0]
    /\ arrived = [t \in Threads |-> 0]
    /\ passed = [t \in Threads |-> 0]

-------------------------------------------------------------------------------
(* The threads inside barrier_wait that gave up the mutex to wait.         *)
Waiting == {t \in Threads : pc[t] = "wait"}
CurrentWaiters == {t \in Waiting : ticket[t] = gen}

(* barrier_init: the counter is set first; `cycle' keeps what it holds.  A *)
(* failing pthread_mutex_init or pthread_cond_init leaves `valid' unset.   *)
(* The owner initialises a barrier that is not in use.                     *)
Unused == ~valid /\ ~live /\ opc = "idle" /\ \A t \in Threads : pc[t] \in {"idle", "cancelled"}

BarrierInit ==
    /\ Unused
    /\ counter' = threshold
    /\ live' = TRUE
    /\ valid' = TRUE
    /\ oret' = "0"
    /\ UNCHANGED <<cycle, cv, opc, pc, my_cycle, nocancel, ret, historyVars>>

BarrierInitFails ==
    /\ Unused
    /\ counter' = threshold
    /\ oret' = "ENOMEM"
    /\ UNCHANGED <<valid, live, cycle, cv, opc, pc, my_cycle, nocancel, ret, historyVars>>

(* barrier_destroy *)
DestroyEnter ==
    /\ opc = "idle"
    /\ opc' = IF valid THEN "checked" ELSE "idle"
    /\ oret' = IF valid THEN oret ELSE "EINVAL"
    /\ UNCHANGED <<fieldVars, cv, pc, my_cycle, nocancel, ret, historyVars>>

\* The barrier is taken to be in use while the counter is not full.
InUse == counter # threshold

DestroyLock ==
    /\ opc = "checked"
    /\ IF InUse
         THEN opc' = "idle" /\ oret' = "EBUSY" /\ UNCHANGED valid
         ELSE opc' = "free mutex" /\ valid' = FALSE /\ UNCHANGED oret
    /\ UNCHANGED <<live, counter, cycle, cv, pc, my_cycle, nocancel, ret, historyVars>>

\* A mutex some thread waits with is not destroyed: pthread_mutex_destroy
\* returns EBUSY and leaves it as it is.
DestroyMutex ==
    /\ opc = "free mutex"
    /\ opc' = "free cond"
    /\ live' = (Waiting # {})
    /\ oret' = IF Waiting # {} THEN "EBUSY" ELSE "0"
    /\ UNCHANGED <<valid, counter, cycle, cv, pc, my_cycle, nocancel, ret, historyVars>>

\* pthread_cond_destroy returns when no thread sleeps on the variable.
DestroyCond ==
    /\ opc = "free cond"
    /\ cv = {}
    /\ opc' = "idle"
    /\ UNCHANGED <<fieldVars, cv, oret, pc, my_cycle, nocancel, ret, historyVars>>

-------------------------------------------------------------------------------
(* barrier_wait: `valid' is read without the lock. *)
WaitEnter(t) ==
    /\ pc[t] = "idle"
    /\ arrived[t] < MaxRounds
    /\ pc' = [pc EXCEPT ![t] = IF valid THEN "enter" ELSE "idle"]
    /\ ret' = [ret EXCEPT ![t] = IF valid THEN @ ELSE "EINVAL"]
    /\ UNCHANGED <<fieldVars, cv, ownerVars, my_cycle, nocancel, historyVars>>

\* pthread_mutex_lock fails on a mutex that was destroyed meanwhile.
WaitOnDestroyed(t) ==
    /\ pc[t] = "enter"
    /\ ~live
    /\ pc' = [pc EXCEPT ![t] = "idle"]
    /\ ret' = [ret EXCEPT ![t] = "EINVAL"]
    /\ UNCHANGED <<fieldVars, cv, ownerVars, my_cycle, nocancel, historyVars>>

\* What unlocking leaves in `status', whatever it held before.
UnlockStatus(status) == "0"

Arrived(t) == arrived' = [arrived EXCEPT ![t] = @ + 1]
Returned(t, status) ==
    /\ ret' = [ret EXCEPT ![t] = status]
    /\ passed' = [passed EXCEPT ![t] = @ + 1]

\* The last to arrive opens the next cycle and wakes the others.
WakeAll_SignalsOne == cv' \in CondSignal(cv)
WakeAll == cv' = CondBroadcast(cv)

RestoreCounter == counter' = threshold

NextCycle_Toggled(c) == (c + 1) % 2
NextCycle(c) == (c + 1) % CycleModulus

\* The thread that takes the last place.
WaitLast(t) ==
    /\ pc[t] = "enter"
    /\ live
    /\ counter = 1
    /\ cycle' = NextCycle(cycle)
    /\ gen' = gen + 1
    /\ RestoreCounter
    /\ WakeAll
    /\ Arrived(t)
    /\ Returned(t, UnlockStatus("-1"))
    /\ pc' = [pc EXCEPT ![t] = "idle"]
    /\ UNCHANGED <<valid, live, ownerVars, my_cycle, nocancel, ticket>>

DisableCancel_Forgotten(t) == nocancel' = nocancel
DisableCancel(t) == nocancel' = nocancel \cup {t}

\* Any other disables its cancellation, for good, and waits.
WaitBlock(t) ==
    /\ pc[t] = "enter"
    /\ live
    /\ counter # 1
    /\ counter' = counter - 1
    /\ my_cycle' = [my_cycle EXCEPT ![t] = cycle]
    /\ ticket' = [ticket EXCEPT ![t] = gen]
    /\ DisableCancel(t)
    /\ cv' = CondWait(cv, t)
    /\ Arrived(t)
    /\ pc' = [pc EXCEPT ![t] = "wait"]
    /\ UNCHANGED <<valid, live, cycle, ownerVars, ret, gen, passed>>

\* The test of the waiting loop.
SameCycle_NotTested(t) == FALSE
SameCycle(t) == my_cycle[t] = cycle

\* A woken thread waits again ...
WaitAgain(t) ==
    /\ pc[t] = "wait"
    /\ t \notin cv
    /\ SameCycle(t)
    /\ cv' = CondWait(cv, t)
    /\ UNCHANGED <<fieldVars, ownerVars, pc, my_cycle, nocancel, ret, historyVars>>

\* ... or returns.
WaitReturn(t) ==
    /\ pc[t] = "wait"
    /\ t \notin cv
    /\ ~SameCycle(t)
    /\ Returned(t, UnlockStatus("0"))
    /\ pc' = [pc EXCEPT ![t] = "idle"]
    /\ UNCHANGED <<fieldVars, cv, ownerVars, my_cycle, nocancel, gen, ticket, arrived>>

\* pthread_cond_wait returns without a wake-up.
SpuriousWakeup(t) ==
    /\ t \in cv
    /\ cv' = CondLeave(cv, t)
    /\ UNCHANGED <<fieldVars, ownerVars, pc, my_cycle, nocancel, ret, historyVars>>

\* The thread is cancelled outside barrier_wait or asleep in it, unless it
\* has disabled its cancellation.
Cancel(t) ==
    /\ pc[t] = "idle" \/ t \in cv
    /\ t \notin nocancel
    /\ pc' = [pc EXCEPT ![t] = "cancelled"]
    /\ cv' = CondLeave(cv, t)
    /\ UNCHANGED <<fieldVars, ownerVars, my_cycle, nocancel, ret, historyVars>>

Owner ==
    \/ BarrierInit
    \/ BarrierInitFails
    \/ DestroyEnter
    \/ DestroyLock
    \/ DestroyMutex
    \/ DestroyCond

\* The steps barrier_wait takes by itself.
Wait(t) ==
    \/ WaitOnDestroyed(t)
    \/ WaitLast(t)
    \/ WaitBlock(t)
    \/ WaitAgain(t)
    \/ WaitReturn(t)

Thread(t) ==
    \/ WaitEnter(t)
    \/ Wait(t)
    \/ SpuriousWakeup(t)
    \/ Cancel(t)

Next == Owner \/ \E t \in Threads : Thread(t)

Spec == Init /\ [][Next]_vars

\* A thread inside a call goes on when it can.  Nothing obliges a client to
\* call, a thread to be cancelled or a sleeper to wake by itself.
Fairness == \A t \in Threads : WF_vars(Wait(t))

FairSpec == Spec /\ Fairness

-------------------------------------------------------------------------------
(* Every place taken in the counter belongs to a thread that waits for the *)
(* current cycle: nobody who took one leaves before the cycle is complete, *)
(* by cancellation or by a spurious wake-up, and no cycle starts short.    *)
CounterCountsWaiters ==
    live => counter = threshold - Cardinality(CurrentWaiters)

\* Every place is taken by a thread: a sleeper is one the cycle misses others for.
SleepersAreCurrent == Cardinality(Threads) = threshold => cv \subseteq CurrentWaiters

(* With as many threads as places the threads run in lockstep: none passes *)
(* the barrier for the n-th time before every other arrived n times.  The  *)
(* broadcast leaves no thread of an older cycle asleep, and none goes back *)
(* to sleep because the cycle number wrapped around.                       *)
Lockstep ==
    /\ Cardinality(Threads) = threshold => \A t, u \in Threads : passed[t] <= arrived[u]
    /\ SleepersAreCurrent

(* A thread whose cycle was completed leaves barrier_wait, even if others  *)
(* start the next cycle before it gets the mutex back.                     *)
ReleasedThreadLeaves ==
    \A t \in Threads :
        (t \in Waiting \ CurrentWaiters) ~> (pc[t] # "wait")

(* The barrier the clients see. *)
Abstract == INSTANCE AbstractBarrier WITH
    N <- threshold,
    inside <- CurrentWaiters,
    released <- Waiting \ CurrentWaiters

(* barrier.cxx implements the abstract barrier, whatever the interleaving  *)
(* of waits, late wake-ups, cancellations and a destroy.                   *)
ImplementsBarrier == Abstract!Spec
===============================================================================
