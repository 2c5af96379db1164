------------------------------- MODULE WorkQueue -------------------------------
(***************************************************************************)
(* chap7-RealCode/workqueue: a linked list of work items, served by up to  *)
(* `parallelism' detached threads that are created on demand and exit      *)
(* after two seconds without work.                                         *)
(*                                                                         *)
(* Each item is added by one call of workq_add, each call by its own       *)
(* thread; one thread, the destroyer, calls workq_init and workq_destroy.  *)
(* Any library call may fail, and calls of workq_add may overlap with      *)
(* workq_destroy; `failed' and `late' record it for the properties.        *)
(* The list is modelled by its pointers: first, last and next.             *)
(*                                                                         *)
(* A definition D_Variant stands before D and is D with a plausible slip:  *)
(* nothing uses it, and the properties must fail if it replaces D.         *)
(***************************************************************************)
EXTENDS Integers, FiniteSets, Sequences, Pthreads

CONSTANTS
    Items,              \* the work items
    Workers,            \* the threads that pthread_create can give
    Destroyer,          \* the thread that calls workq_destroy
    NULL,
    parallelism         \* the argument of workq_init

ASSUME WorkQueueAssumption ==
    /\ NULL \notin Items
    /\ Destroyer \notin Workers
    /\ IsFiniteSet(Workers)
    /\ parallelism \in Nat \ {0}
    /\ parallelism <= Cardinality(Workers)

VARIABLES
    valid,      \* wq->valid = WORKQ_VALID
    live,       \* the mutex is initialised and not destroyed
    quit,       \* the fields of workq_t
    counter,
    idle,
    first,
    last,
    next,       \* item->next of every item
    cv,         \* the threads asleep on wq->cv
    apc,        \* where each item's workq_add is, or what it returned
    dpc,        \* where workq_destroy is
    wpc,        \* where each worker is
    item,       \* the item a worker took
    timedout,   \* the worker's local flag
    accepted,   \* history: the items in the order they were linked
    taken,      \* history: the items in the order they were unlinked
    done,       \* history: the items whose engine call returned
    failed,     \* history: which of the calls "create" and "timedwait" failed
    late        \* history: a workq_add overlapped with workq_destroy

listVars == <<first, last, next, accepted>>
fieldVars == <<valid, live, quit, counter, idle>>
workerVars == <<wpc, item, timedout>>
faultVars == <<failed, late>>
vars == <<fieldVars, listVars, cv, apc, dpc, workerVars, taken, done, faultVars>>

TypeOK ==
    /\ valid \in BOOLEAN
    /\ live \in BOOLEAN
    /\ quit \in BOOLEAN
    /\ counter \in 0 .. parallelism
    /\ idle = 0
    /\ first \in Items \cup {NULL}
    /\ last \in Items \cup {NULL}
    /\ next \in [Items -> Items \cup {NULL}]
    /\ cv \in SUBSET (Workers \cup {Destroyer})
    /\ apc \in [Items -> {"idle", "enter", "0", "EINVAL", "ENOMEM", "EAGAIN"}]
    /\ dpc \in {"idle", "checked", "wait", "free mutex", "free cond", "done"}
    /\ wpc \in [Workers -> {"off", "new", "wait", "engine", "relock"}]
    /\ item \in [Workers -> Items \cup {NULL}]
    /\ timedout \in [Workers -> BOOLEAN]
    /\ accepted \in Seq(Items)
    /\ taken \in Seq(Items)
    /\ done \in SUBSET Items
    /\ failed \in SUBSET {"create", "timedwait"}
    /\ late \in BOOLEAN

Init ==
    /\ valid = FALSE
    /\ live = FALSE
    /\ quit = FALSE
    /\ counter = 0
    /\ idle = 0
    /\ first = NULL
    /\ last = NULL
    /\ next = [i \in Items |-> NULL]
    /\ cv = {}
    /\ apc = [i \in Items |-> "idle"]
    /\ dpc = "idle"
    /\ wpc = [w \in Workers |-> "off"]
    /\ item = [w \in Workers |-> NULL]
    /\ timedout = [w \in Workers |-> FALSE]
    /\ accepted = <<>>
    /\ taken = <<>>
    /\ done = {}
    /\ failed = {}
    /\ late = FALSE

Active == {w \in Workers : wpc[w] # "off"}
Adding == {i \in Items : apc[i] = "enter"}

-------------------------------------------------------------------------------
(* workq_init, called once: workq_destroy never clears `valid'. *)
WorkqInit ==
    /\ ~valid
    /\ live' = TRUE
    /\ valid' = TRUE
    /\ quit' = FALSE
    /\ first' = NULL /\ last' = NULL
    /\ counter' = 0 /\ idle' = 0
    /\ UNCHANGED <<next, accepted, cv, apc, dpc, workerVars, taken, done, faultVars>>

(* workq_add: the check of `valid' and the allocation of the element. *)
AddEnter(i) ==
    /\ apc[i] = "idle"
    /\ late' = (late \/ dpc # "idle")
    /\ \/ /\ valid
          /\ apc' = [apc EXCEPT ![i] = "enter"]
       \/ /\ ~valid
          /\ apc' = [apc EXCEPT ![i] = "EINVAL"]
       \/ /\ valid
          /\ apc' = [apc EXCEPT ![i] = "ENOMEM"]
    /\ UNCHANGED <<fieldVars, listVars, cv, dpc, workerVars, taken, done, failed>>

AddMutexGone(i) ==
    /\ apc[i] = "enter"
    /\ ~live
    /\ apc' = [apc EXCEPT ![i] = "EINVAL"]
    /\ UNCHANGED <<fieldVars, listVars, cv, dpc, workerVars, taken, done, faultVars>>

\* The element is linked at the tail.
LinkNext_Forgotten(i) == next' = [next EXCEPT ![i] = NULL]
LinkNext(i) ==
    next' = IF first = NULL THEN [next EXCEPT ![i] = NULL]
                            ELSE [next EXCEPT ![i] = NULL, ![last] = i]

Link(i) ==
    /\ first' = IF first = NULL THEN i ELSE first
    /\ LinkNext(i)
    /\ last' = i
    /\ accepted' = Append(accepted, i)

\* A new worker is started, unless there are enough of them.  `idle' is never
\* incremented, so that no sleeping worker is ever signalled.
NeedsWorker == counter < parallelism

AddLock(i) ==
    /\ apc[i] = "enter"
    /\ live
    /\ Link(i)
    /\ IF idle > 0
         THEN /\ cv' \in CondSignal(cv)
              /\ apc' = [apc EXCEPT ![i] = "0"]
              /\ UNCHANGED <<counter, wpc, failed>>
         ELSE /\ UNCHANGED cv
              /\ \/ /\ NeedsWorker
                    /\ \E w \in Workers \ Active : wpc' = [wpc EXCEPT ![w] = "new"]
                    /\ counter' = counter + 1
                    /\ apc' = [apc EXCEPT ![i] = "0"]
                    /\ UNCHANGED failed
                 \/ /\ NeedsWorker      \* pthread_create fails
                    /\ apc' = [apc EXCEPT ![i] = "EAGAIN"]
                    /\ failed' = failed \cup {"create"}
                    /\ UNCHANGED <<counter, wpc>>
                 \/ /\ ~NeedsWorker
                    /\ apc' = [apc EXCEPT ![i] = "0"]
                    /\ UNCHANGED <<counter, wpc, failed>>
    /\ UNCHANGED <<valid, live, quit, idle, dpc, item, timedout, taken, done, late>>

-------------------------------------------------------------------------------
(* workq_destroy; before workq_init it returns EINVAL and changes nothing. *)
DestroyEnter ==
    /\ dpc = "idle"
    /\ valid
    /\ late' = (late \/ Adding # {})
    /\ dpc' = "checked"
    /\ UNCHANGED <<fieldVars, listVars, cv, apc, workerVars, taken, done, failed>>

\* The workers are told to quit; they are woken only if `idle' counts some.
DestroyLock ==
    /\ dpc = "checked"
    /\ IF counter > 0
         THEN /\ quit' = TRUE
              /\ cv' = CondWait(IF idle > 0 THEN CondBroadcast(cv) ELSE cv, Destroyer)
              /\ dpc' = "wait"
         ELSE dpc' = "free mutex" /\ UNCHANGED <<quit, cv>>
    /\ UNCHANGED <<valid, live, counter, idle, listVars, apc, workerVars, taken, done, faultVars>>

WorkersLeft_NotRetested == FALSE
WorkersLeft == counter > 0

DestroyWake ==
    /\ dpc = "wait"
    /\ Destroyer \notin cv
    /\ IF WorkersLeft
         THEN cv' = CondWait(cv, Destroyer) /\ UNCHANGED dpc
         ELSE dpc' = "free mutex" /\ UNCHANGED cv
    /\ UNCHANGED <<fieldVars, listVars, apc, workerVars, taken, done, faultVars>>

\* A mutex some thread waits with is not destroyed.
DestroyMutex ==
    /\ dpc = "free mutex"
    /\ dpc' = "free cond"
    /\ live' = (\E w \in Workers : wpc[w] = "wait")
    /\ UNCHANGED <<valid, quit, counter, idle, listVars, cv, apc, workerVars, taken, done, faultVars>>

\* pthread_cond_destroy returns when no thread sleeps on the variable.
DestroyCond ==
    /\ dpc = "free cond"
    /\ cv = {}
    /\ dpc' = "done"
    /\ UNCHANGED <<fieldVars, listVars, cv, apc, workerVars, taken, done, faultVars>>

-------------------------------------------------------------------------------
(* workq_server *)
Empty == first = NULL

\* The worker has the mutex after a wait that did not time out.
Woken(w) == wpc[w] = "wait" /\ w \notin cv

\* The two tests that end a worker after its item, if it had one.
QuitTest == Empty /\ quit
IdleTest_Unchecked(flag) == flag
IdleTest(flag) == Empty /\ flag

\* It is at the top of its loop: just started, or its item is done and
\* neither test ended it.
AtTop(w) ==
    \/ wpc[w] = "new" /\ live
    \/ wpc[w] = "relock" /\ live /\ ~QuitTest /\ ~IdleTest(timedout[w])

Sleep(w) ==
    /\ AtTop(w) \/ Woken(w)
    /\ Empty /\ ~quit
    /\ cv' = CondWait(cv, w)
    /\ wpc' = [wpc EXCEPT ![w] = "wait"]
    /\ timedout' = [timedout EXCEPT ![w] = FALSE]
    /\ UNCHANGED <<fieldVars, listVars, apc, dpc, item, taken, done, faultVars>>

\* The first element is unlinked, and the engine called without the mutex.
Unlink(w) ==
    /\ first' = next[first]
    /\ last' = IF last = first THEN NULL ELSE last
    /\ item' = [item EXCEPT ![w] = first]
    /\ taken' = Append(taken, first)
    /\ wpc' = [wpc EXCEPT ![w] = "engine"]

Take(w) ==
    /\ AtTop(w) \/ Woken(w)
    /\ ~Empty
    /\ Unlink(w)
    /\ timedout' = [timedout EXCEPT ![w] = FALSE]
    /\ UNCHANGED <<fieldVars, next, accepted, cv, apc, dpc, done, faultVars>>

\* The wait times out although an item has come: the flag stays set.
TimeoutTake(w) ==
    /\ w \in cv
    /\ ~Empty
    /\ cv' = CondLeave(cv, w)
    /\ Unlink(w)
    /\ timedout' = [timedout EXCEPT ![w] = TRUE]
    /\ UNCHANGED <<fieldVars, next, accepted, apc, dpc, done, faultVars>>

EngineReturns(w) ==
    /\ wpc[w] = "engine"
    /\ done' = done \cup {item[w]}
    /\ item' = [item EXCEPT ![w] = NULL]
    /\ wpc' = [wpc EXCEPT ![w] = "relock"]
    /\ UNCHANGED <<fieldVars, listVars, cv, apc, dpc, timedout, taken, faultVars>>

\* A worker that leaves is counted out.
CountOut_Forgotten == UNCHANGED counter
CountOut == counter' = counter - 1

\* The worker shuts down; the last one wakes workq_destroy.
LastOneWakes_Nobody(sleepers) == sleepers
LastOneWakes(sleepers) == IF counter' = 0 THEN CondBroadcast(sleepers) ELSE sleepers

QuitExit(w) ==
    /\ \/ Woken(w) \/ w \in cv
       \/ wpc[w] \in {"new", "relock"} /\ live
    /\ QuitTest
    /\ CountOut
    /\ cv' = LastOneWakes(CondLeave(cv, w))
    /\ wpc' = [wpc EXCEPT ![w] = "off"]
    /\ UNCHANGED <<valid, live, quit, idle, listVars, apc, dpc, item, timedout, taken, done, faultVars>>

\* The wait timed out, now or before the item just done, and there is no work.
IdleExit(w) ==
    /\ \/ w \in cv /\ IdleTest(TRUE)
       \/ wpc[w] = "relock" /\ live /\ IdleTest(timedout[w])
    /\ ~QuitTest
    /\ CountOut
    /\ cv' = CondLeave(cv, w)
    /\ wpc' = [wpc EXCEPT ![w] = "off"]
    /\ UNCHANGED <<valid, live, quit, idle, listVars, apc, dpc, item, timedout, taken, done, faultVars>>

\* pthread_cond_timedwait fails: the worker leaves and wakes nobody.
TimedwaitFails(w) ==
    /\ w \in cv
    /\ CountOut
    /\ cv' = CondLeave(cv, w)
    /\ wpc' = [wpc EXCEPT ![w] = "off"]
    /\ failed' = failed \cup {"timedwait"}
    /\ UNCHANGED <<valid, live, quit, idle, listVars, apc, dpc, item, timedout, taken, done, late>>

\* The mutex was destroyed: the worker leaves without being counted out.
WorkerMutexGone(w) ==
    /\ wpc[w] \in {"new", "relock"}
    /\ ~live
    /\ wpc' = [wpc EXCEPT ![w] = "off"]
    /\ UNCHANGED <<fieldVars, listVars, cv, apc, dpc, item, timedout, taken, done, faultVars>>

SpuriousWakeup(t) ==
    /\ t \in cv
    /\ cv' = CondLeave(cv, t)
    /\ UNCHANGED <<fieldVars, listVars, apc, dpc, workerVars, taken, done, faultVars>>

-------------------------------------------------------------------------------
Add(i) == AddMutexGone(i) \/ AddLock(i)

Destroy == DestroyLock \/ DestroyWake \/ DestroyMutex \/ DestroyCond

Worker(w) ==
    \/ Sleep(w) \/ Take(w) \/ TimeoutTake(w) \/ EngineReturns(w)
    \/ QuitExit(w) \/ IdleExit(w) \/ WorkerMutexGone(w)

Next ==
    \/ WorkqInit
    \/ \E i \in Items : AddEnter(i) \/ Add(i)
    \/ DestroyEnter \/ Destroy
    \/ \E w \in Workers : Worker(w) \/ TimedwaitFails(w)
    \/ \E t \in Workers \cup {Destroyer} : SpuriousWakeup(t)

Spec == Init /\ [][Next]_vars

\* Every call goes on when it can; a timed wait ends at the latest when its
\* two seconds are over; engine calls return.  No call is obliged to be made,
\* and no library call to fail.
Fairness ==
    /\ \A i \in Items : WF_vars(Add(i))
    /\ WF_vars(Destroy)
    /\ \A w \in Workers : WF_vars(Worker(w))

FairSpec == Spec /\ Fairness

-------------------------------------------------------------------------------
(* There are never more workers than the parallelism allows, whatever      *)
(* fails.  The counter is their number, whichever way they ended, as long  *)
(* as the clients stop adding before the destroy.                          *)
CounterAccurate ==
    /\ Cardinality(Active) <= parallelism
    /\ ~late => counter = Cardinality(Active)

(* An item in the queue has a worker that will look at the queue again:    *)
(* the last worker does not time out and exit past an item added meanwhile. *)
NoStrandedItem ==
    (failed = {} /\ ~late /\ first # NULL) => Active # {}

(* The pointers keep the order: items are taken in the order they were     *)
(* added, none twice, and the list is empty just when all were taken.      *)
QueueIsFifo ==
    /\ Len(taken) <= Len(accepted)
    /\ \A n \in 1 .. Len(taken) : taken[n] = accepted[n]
    /\ (first = NULL) <=> (Len(taken) = Len(accepted))

(* When workq_destroy has returned no worker is left and, if no library    *)
(* call failed, no item is.                                                *)
DestroyedMeansQuiet ==
    (dpc = "done" /\ ~late) => Active = {} /\ (failed = {} => first = NULL)

(* An item workq_add accepted is processed, although nobody signals the    *)
(* workers, whether the queue is destroyed or not and whether threads can  *)
(* be created for other items or not.                                      *)
AcceptedIsProcessed ==
    \A i \in Items :
        (apc[i] = "0") ~> (i \in done \/ "timedwait" \in failed \/ late)

(* workq_destroy returns: the workers do learn that they should quit.  It  *)
(* may sleep on only if the wait of a worker failed, or items were added   *)
(* meanwhile.                                                              *)
DestroyReturns ==
    (dpc = "checked") ~> (dpc = "done" \/ "timedwait" \in failed \/ late)
===============================================================================
