------------------------------ MODULE ThreadPool ------------------------------
(***************************************************************************)
(* chap4-pattern/crew_gpt.cc: a fixed pool of threads that take tasks from *)
(* a ring of task_queue_size slots.                                        *)
(*                                                                         *)
(* Main is the thread that calls thread_pool_init and, later,              *)
(* thread_pool_destroy; each task is submitted by one call of              *)
(* thread_pool_add, whose clients stop once the workers are joined.  A     *)
(* slot of the ring that was never written is NULL; a worker that calls    *)
(* the function it finds there crashes the process.                        *)
(*                                                                         *)
(* A definition D_Variant stands before D and is D with a plausible slip:  *)
(* nothing uses it, and the properties must fail if it replaces D.         *)
(***************************************************************************)
EXTENDS Integers, FiniteSets, Sequences, Pthreads

CONSTANTS
    Tasks,
    Workers,            \* the threads; their number is thread_count
    NULL,
    task_queue_size,
    MaxTaken            \* bound on the tasks taken, stale ones included

ASSUME ThreadPoolAssumption ==
    /\ NULL \notin Tasks
    /\ IsFiniteSet(Workers) /\ Workers # {}
    /\ task_queue_size \in Nat \ {0}
    /\ MaxTaken \in Nat

VARIABLES
    ring,       \* pool->tasks
    head,
    tail,
    count,
    shutdown,
    started,
    notify,     \* the workers asleep on pool->notify
    mpc,        \* where Main is
    apc,        \* what the call of thread_pool_add for each task returned
    wpc,        \* where each worker is
    task,       \* the worker's local copy of its task
    accepted,   \* history: the tasks put into the ring, in order
    taken,      \* history: the tasks grabbed, in order
    ran         \* history: how often each task's function returned

ringVars == <<ring, head, tail, count>>
workerVars == <<wpc, task, taken, ran>>
vars == <<ringVars, shutdown, started, notify, mpc, apc, workerVars, accepted>>

Slots == 0 .. task_queue_size - 1

TypeOK ==
    /\ ring \in [Slots -> Tasks \cup {NULL}]
    /\ head \in Slots
    /\ tail \in Slots
    /\ count \in -MaxTaken .. task_queue_size
    /\ shutdown \in 0 .. 2
    /\ started \in 0 .. Cardinality(Workers)
    /\ notify \in SUBSET Workers
    /\ mpc \in {"create", "ready", "join", "unlock", "-1", "0"}
    /\ apc \in [Tasks -> {"idle", "0", "-1"}]
    /\ wpc \in [Workers -> {"off", "top", "wait", "run", "exited", "crashed"}]
    /\ task \in [Workers -> Tasks \cup {NULL}]
    /\ accepted \in Seq(Tasks)
    /\ taken \in Seq(Tasks \cup {NULL})
    /\ ran \in [Tasks -> Nat]

Init ==
    /\ ring = [s \in Slots |-> NULL]
    /\ head = 0
    /\ tail = 0
    /\ count = 0
    /\ shutdown = 0
    /\ started = 0
    /\ notify = {}
    /\ mpc = "create"
    /\ apc = [t \in Tasks |-> "idle"]
    /\ wpc = [w \in Workers |-> "off"]
    /\ task = [w \in Workers |-> NULL]
    /\ accepted = <<>>
    /\ taken = <<>>
    /\ ran = [t \in Tasks |-> 0]

-------------------------------------------------------------------------------
(* thread_pool_init: a worker runs as soon as it is created. *)
CreateWorker ==
    /\ mpc = "create"
    /\ \E w \in Workers :
          /\ wpc[w] = "off"
          /\ wpc' = [wpc EXCEPT ![w] = "top"]
    /\ started' = started + 1
    /\ mpc' = IF started' = Cardinality(Workers) THEN "ready" ELSE "create"
    /\ UNCHANGED <<ringVars, shutdown, notify, apc, task, taken, ran, accepted>>

\* The workers are told how to shut down, and all of them are woken.
WakeWorkers_SignalsOne == notify' \in CondSignal(notify)
WakeWorkers == notify' = CondBroadcast(notify)

BeginShutdown(mode) ==
    /\ shutdown' = mode
    /\ WakeWorkers
    /\ mpc' = "join"
    /\ UNCHANGED <<ringVars, started, apc, workerVars, accepted>>

\* A failing pthread_create makes thread_pool_init destroy the pool at once.
CreateFailed ==
    /\ mpc = "create"
    /\ BeginShutdown(2)

\* thread_pool_init succeeded.
AllCreated == \A w \in Workers : wpc[w] # "off"

(* thread_pool_add *)
Full_OffByOne == count > task_queue_size
Full == count = task_queue_size

NextSlot(slot) == (slot + 1) % task_queue_size

SignalWorker_Forgotten == UNCHANGED notify
SignalWorker == notify' \in CondSignal(notify)

Add(t) ==
    /\ AllCreated /\ mpc \in {"ready", "join"}
    /\ apc[t] = "idle"
    /\ IF Full \/ shutdown # 0
         THEN /\ apc' = [apc EXCEPT ![t] = "-1"]
              /\ UNCHANGED <<ringVars, notify, accepted>>
         ELSE /\ ring' = [ring EXCEPT ![tail] = t]
              /\ tail' = NextSlot(tail)
              /\ count' = count + 1
              /\ SignalWorker
              /\ accepted' = Append(accepted, t)
              /\ apc' = [apc EXCEPT ![t] = "0"]
              /\ UNCHANGED head
    /\ UNCHANGED <<shutdown, started, mpc, workerVars>>

-------------------------------------------------------------------------------
(* thread_pool_destroy *)
Destroy ==
    /\ mpc = "ready"
    /\ \E graceful \in BOOLEAN : BeginShutdown(IF graceful THEN 1 ELSE 2)

\* The joins are over.  Joining a thread that was never created fails, which
\* only ends the loop early.
JoinWorkers ==
    /\ mpc = "join"
    /\ \A w \in Workers : wpc[w] \in {"off", "exited"}
    /\ mpc' = "unlock"
    /\ UNCHANGED <<ringVars, shutdown, started, notify, apc, workerVars, accepted>>

\* The mutex was unlocked before the joins, so that this unlock may succeed or
\* fail; if it fails nothing is cleaned up.
UnlockAgain ==
    /\ mpc = "unlock"
    /\ \/ /\ mpc' = "0"
          /\ started' = 0 /\ shutdown' = 0
       \/ /\ mpc' = "-1"
          /\ UNCHANGED <<started, shutdown>>
    /\ UNCHANGED <<ringVars, notify, apc, workerVars, accepted>>

\* Calling it again after a failure finds `shutdown' set, and cleans up.
DestroyAgain ==
    /\ AllCreated /\ mpc = "-1"
    /\ mpc' = "0"
    /\ started' = 0 /\ shutdown' = 0
    /\ UNCHANGED <<ringVars, notify, apc, workerVars, accepted>>

-------------------------------------------------------------------------------
(* thread_do_work: the worker has the mutex, at the top of its loop or     *)
(* because it was woken.                                                   *)
HasLock(w) == wpc[w] = "top" \/ (wpc[w] = "wait" /\ w \notin notify)

Idle == count = 0 /\ shutdown = 0

Sleep(w) ==
    /\ HasLock(w)
    /\ Idle
    /\ notify' = CondWait(notify, w)
    /\ wpc' = [wpc EXCEPT ![w] = "wait"]
    /\ UNCHANGED <<ringVars, shutdown, started, mpc, apc, task, taken, ran, accepted>>

\* Only a graceful shutdown ends a worker.
MayExit_LeavesTasks == shutdown = 1
MayExit == shutdown = 1 /\ count = 0

Exit(w) ==
    /\ HasLock(w)
    /\ ~Idle
    /\ MayExit
    /\ started' = started - 1
    /\ wpc' = [wpc EXCEPT ![w] = "exited"]
    /\ UNCHANGED <<ringVars, shutdown, notify, mpc, apc, task, taken, ran, accepted>>

Remaining == count - 1

GrabTask(w) ==
    /\ HasLock(w)
    /\ ~Idle
    /\ ~MayExit
    /\ Len(taken) < MaxTaken
    /\ task' = [task EXCEPT ![w] = ring[head]]
    /\ head' = NextSlot(head)
    /\ count' = Remaining
    /\ taken' = Append(taken, ring[head])
    /\ wpc' = [wpc EXCEPT ![w] = "run"]
    /\ UNCHANGED <<ring, tail, shutdown, started, notify, mpc, apc, ran, accepted>>

\* The task's function is called, without the mutex.
RunTask(w) ==
    /\ wpc[w] = "run"
    /\ IF task[w] = NULL
         THEN wpc' = [wpc EXCEPT ![w] = "crashed"] /\ UNCHANGED ran
         ELSE /\ ran' = [ran EXCEPT ![task[w]] = @ + 1]
              /\ wpc' = [wpc EXCEPT ![w] = "top"]
    /\ UNCHANGED <<ringVars, shutdown, started, notify, mpc, apc, task, taken, accepted>>

SpuriousWakeup(w) ==
    /\ w \in notify
    /\ notify' = CondLeave(notify, w)
    /\ UNCHANGED <<ringVars, shutdown, started, mpc, apc, workerVars, accepted>>

-------------------------------------------------------------------------------
Crashed == \E w \in Workers : wpc[w] = "crashed"

Main == CreateWorker \/ JoinWorkers \/ UnlockAgain

Worker(w) == Sleep(w) \/ Exit(w) \/ GrabTask(w) \/ RunTask(w)

Next ==
    /\ ~Crashed
    /\ \/ Main \/ CreateFailed \/ Destroy \/ DestroyAgain
       \/ \E t \in Tasks : Add(t)
       \/ \E w \in Workers : Worker(w) \/ SpuriousWakeup(w)

Spec == Init /\ [][Next]_vars

\* Main and the workers go on when they can, and the functions return; no
\* client is obliged to add, nor Main to begin the shutdown.
FairSpec ==
    /\ Spec
    /\ WF_vars(Main)
    /\ \A w \in Workers : WF_vars(Worker(w))

-------------------------------------------------------------------------------
\* The slots from head on, `count' of them.
RingContents == [n \in 1 .. count |-> ring[(head + n - 1) % task_queue_size]]

Fifo == INSTANCE BoundedFifo WITH
    Elements <- Tasks, Capacity <- task_queue_size,
    queue <- RingContents, out <- taken

\* Every field is in its range, and the redundant ones agree: tail is count
\* slots after head.
RingConsistent == TypeOK /\ tail = (head + count) % task_queue_size

(* The ring is a bounded FIFO queue through wrap-around, full and empty,   *)
(* until the pool is told to shut down at once: each step puts a task in   *)
(* at one end, takes the oldest out, or leaves the queue as it is.  What   *)
(* represents the queue is consistent even after that.                     *)
ImplementsFifo ==
    /\ Fifo!Init
    /\ [][RingConsistent' /\ (shutdown' # 2 => Fifo!Step)]_vars

(* No lost wakeup: while a worker sleeps, every task in the ring has an    *)
(* awake worker of its own that will look at the ring before it runs       *)
(* anything.  One pthread_cond_signal for each task is enough.             *)
WorkConserving ==
    notify # {} => count <= Cardinality({w \in Workers : HasLock(w)})

(* After a graceful shutdown, from the end of the joins on, every task     *)
(* thread_pool_add accepted has run exactly once, no other has, and every  *)
(* worker was counted out: the ring may be freed.                          *)
DrainedWhenJoined ==
    (AllCreated /\ mpc \in {"unlock", "-1", "0"}) =>
         /\ \A t \in Tasks : ran[t] = IF apc[t] = "0" THEN 1 ELSE 0
         /\ started = 0
         /\ notify = {}

(* An accepted task is run, unless the pool is told to shut down at once.  *)
AcceptedIsRun == \A t \in Tasks : (apc[t] = "0") ~> (ran[t] > 0 \/ shutdown = 2)

(* A graceful thread_pool_destroy returns, whatever the workers were doing *)
(* when it began.                                                          *)
DestroyReturns == (mpc = "join" /\ shutdown = 1) ~> (mpc \in {"0", "-1"})
===============================================================================
