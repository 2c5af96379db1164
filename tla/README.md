# TLA+ models of the POSIX threads programs

The repository is a collection of multi-threaded programs in C and C++ that
follow Butenhof's *Programming with POSIX Threads*, with the author's own
changes. There is no single system: each program, or each small library of
chapter 7, is a component with its own shared state. The models cover the
components that carry real synchronisation logic.

## Inventory

| component | state | operations | hard behaviour | what makes it correct |
|---|---|---|---|---|
| barrier (`chap7-RealCode/barrier`) | mutex, cv, valid, counter, cycle | init, wait, destroy | late wake-ups, overtaking cycles, cancellation, cycle wrap-around, destroy against wait | lockstep; exact counter; every released thread leaves |
| readers-writer lock (`rwlock`) | mutex, two cvs, four counters | read/write lock, trylock, unlock, init, destroy, cleanup handlers | preference, cancellation in a wait, stale counters | exclusion; exact counters; no lost wake-up |
| work queue (`workqueue`) | linked list, counter, idle, quit, cv | add, worker, destroy | time-outs against adds, workers on demand, destroy against add, failing calls | FIFO; nothing stranded; exact worker count; destroy leaves nothing |
| thread pool (`chap4-pattern/crew_gpt.cc`) | ring, head, tail, count, shutdown, started | init, add, worker, destroy | full/empty/wrap-around, graceful and immediate shutdown, failing creation | bounded FIFO; drained on shutdown; work conserving |
| terminal server (`chap4-pattern/server.cxx`) | request list, running flag, request memory, client count | request (synchronous or not), server, client, main | who frees a request, replies, unsynchronised read of the count | no use after free; own reply; output before prompt |
| work crew (`chap4-pattern/crew.cc`) | work list, work_count, two cvs | crew_start, member | work that creates work, partial failure | end is signalled exactly when all is done |
| alarm (`chap3-sync/alarm_cond.cc`) | sorted list, current_alarm, cv, clock | insert, alarm thread, main | time-out against an earlier alarm | none lost, early or out of order; each rings |
| barrier test program (`barrier/main.cxx`) | loop variable and increment per thread | main, thread_routine | uninitialised loop variable | all do the same share; main returns |
| pipeline (`chap4-pattern/pipe.cc`) | stages with data_ready, mutex, two cvs | start, result, stage | inverted wait, mutex kept over a send | what comes out was put in |
| back-off (`chap3-sync/backoff.cc`) | three mutexes | two lockers | unlocking another's mutex | no deadlock |
| suspend/resume (`chap6-adjust/susp.cxx`) | array of suspended threads, sentinel, pending signals | suspend, continue, handlers | signal handlers, spinning under a mutex, growing array, exiting targets | listed means stopped; stopped can resume; calls return |
| fork handlers (`chap6-adjust/atfork.cxx`) | mutex and the child's copy | fork, prepare, parent, child | state of the mutex at the fork | both processes end |
| semaphore and timer (`chap6-adjust/semaphore_signal.cxx`) | semaphore, pending signal | handler, waiters | EINTR from the handler that posts | posts and wake-ups balance |
| cancellation (`chap5-advance/cancel_cleanup.cxx`, `cancel_subcontract.cxx`) | counter, mutex, cv; team of workers | cancel, join, cleanup handlers | the moment the cancellation acts | all threads end, nothing stays locked or running |
| thread-specific data (`chap5-advance/tsd_destructor.cxx`) | key, counter of users | get, destructor | threads end in any order, main too | the last destructor deletes the key |
| `alarm_mutex`, `trylock`, first alarms, `once`, `tsd_once`, `cancel`, `cancel_async`, `cancel_disable`, `sigwait`, `sigev_thread` | small | | | not modelled; see below |
| attributes, scheduling, stdio locking, static initialisers | none worth a model | | | not modelled |

The components do not call each other. Inside a component threads interact
through the shared fields under one mutex, through condition variables, and in
chapters 5 and 6 through cancellation and signals. The barrier's test program
runs on top of the barrier, and its model on top of the barrier's.

`PROJECT.json` lists the hazards, each at its line, with the properties aimed
at it.

## How the code is modelled

`Pthreads` models condition variables (the library is not part of the
repository): a variable is the set of its sleepers. A thread that is at a wait
and not in the set was woken and competes for the mutex. Sleepers may wake
spuriously in every module.

The code from a lock to the next unlock or wait is one action. What happens
outside the lock is a step of its own: the check of `valid` at the head of every
operation of chapter 7, the destruction of the mutex after the unlock, the call
of the engine or of a task, the terminal I/O, the unsynchronised read in
`server.cxx`. A mutex is a variable only where a program keeps one locked
(`client_mutex` in `TtyServer`; `MutexFree` in `Crew` and `AlarmCond`; `held` in
`Pipe`, `holder` in `Backoff`, `mut` in `Suspend`, `mutex` in `AtFork`, `owner` in
`CancelCleanup`).
`pthread_mutex_destroy` on a mutex threads wait with returns EBUSY, locking a
destroyed mutex returns EINVAL, and `pthread_cond_destroy` waits for the
sleepers, as in glibc.

Left out: errors of pthread calls on valid, initialised objects (POSIX defines
none for these uses), apart from the failures the models name; formatting,
printing, and contents of messages and files. What undefined behaviour may do is
a choice: the value of an uninitialised variable (`Starts` in `BarrierMain`,
`Misjudged` in `Crew`, the new slot in `Suspend`), a write behind the end of an
array (harmless or fatal), the unlock of a mutex another thread holds (it is
freed, or the call fails). Three outcomes are narrower than what the code risks:
the copy through the unallocated `path` (`crew.cc:153`) stores the path or aborts and
overwrites nothing else, `pthread_kill` on a thread that has exited
(`susp.cxx:146`) returns an error, and the `calloc` of `susp.cxx:74`, whose result is
not checked, succeeds.

Variables keep the names of the fields. History variables, marked as such, serve
the properties only.

| module | models | state and actions |
|---|---|---|
| `Barrier` | `barrier.cxx` | owner: `BarrierInit`, `Destroy...`; threads: `WaitEnter`, `WaitLast`, `WaitBlock`, `WaitAgain`, `WaitReturn`, `Cancel` |
| `AbstractBarrier` | what a barrier promises | inside, released; arrive, complete, leave |
| `RWLock` | `rwlock.cxx` | one action per operation and outcome; `CancelReader`, `CancelWriter` run the cleanup handlers |
| `WorkQueue` | `workq.cxx` | `Add...`, `Destroy...`, and the worker's `Sleep`, `Take`, `TimeoutTake`, `EngineReturns`, `QuitExit`, `IdleExit`, ...; the list is first, last and next |
| `ThreadPool` | `crew_gpt.cc` | `CreateWorker`, `CreateFailed`, `Add`, `Destroy`, `JoinWorkers`, `UnlockAgain`, `DestroyAgain`, and the worker's four steps |
| `BoundedFifo` | what a bounded queue promises | queue, out; `Put`, `Get` |
| `TtyServer` | `server.cxx` | clients, server and main; requests are addresses that are reused |
| `Crew` | `crew.cc` | `Start`, `StartWakes`, `StartLocksAgain`, and the member's steps on a constant tree |
| `AlarmCond` | `alarm_cond.cc` | `Enter`, `EndOfInput`, the alarm thread's steps, `Tick` |
| `BarrierMain` | `barrier/main.cxx` | EXTENDS `Barrier`; main: `InitBarrier`, `CreateThread`, `JoinThreads`; threads: `FirstWait`, `Work`, `SecondWait`, `EndLoop`, ... around the barrier's own steps |
| `Pipe` | `pipe.cc` | the stage thread's `StageLocks`, `StageWaits`, `StageSends`, ...; main's `Enter`, `StartSends`, `AskResult`, `GetResult`, ... |
| `Suspend` | `susp.cxx` | callers: `SuspendBegin`, `SuspendGrow`, `SuspendKill`, `SuspendEnd`, `ContinueKill`, `ContinueEnd`; targets: the two handlers step by step, `Exit` |
| `Backoff` | `backoff.cc` | `Lock`, `TryFails`, `BackOff`, `Release` of each locker, in its own order of the mutexes |
| `AtFork` | `atfork.cxx` | main, the forking thread with its handlers, the child |
| `Semaphore` | `semaphore_signal.cxx` | `TimerExpires`, `signal_catcher`, `sem_waiter`, `Interrupted` (the retry after EINTR), `Join` |
| `CancelCleanup`, `Subcontract` | `cancel_cleanup.cxx`, `cancel_subcontract.cxx` | the threads, their cleanup handlers, main |
| `TsdDestructor` | `tsd_destructor.cxx` | `CreateKey`, `identity_key_get`, `Leave`, `identity_key_destructor` |
| `Programs` | | the last seven as alternatives, one of which a behaviour picks in its first state |
| `MCCrew`, `MCAlarmCond` | | the tree and the times for TLC |
| `BarrierProofs` (with `BarrierMain`), `RWLockProofs`, `WorkQueueProofs`, `ThreadPoolProofs`, `AlarmCondProofs`, `CrewProofs`, `TtyServerProofs`, `ProgramsProofs` | | inductive invariants and theorems |

## Runs

Passing runs:

| run | bounds | shows |
|---|---|---|
| `barrier_main` | 3 threads, 3 places, 2 loops from any start in 0 to 2, cycle wraps at 2 | lockstep, and no sleeper of an old cycle; the same share for all when main returns; main returns if the loops are equal |
| `barrier_crowded` | 3 threads, 2 places, 3 rounds, cycle wraps at 8 | exact counter, refinement of `AbstractBarrier`, a released thread leaves although later cycles overtake it |
| `rwlock` | 3 threads, any number of calls of all operations, of `rwl_readlock` until `r_wait` has drifted | exact reader and waiting-writer counts, exclusion until `rwl_writelock` is called, readers sleep for a writer only, a waiting reader gets in unless writers overtake it for ever |
| `workqueue` | 3 items, 2 workers, limit 2, all faults, adds against the destroy | FIFO, exact worker count, nothing stranded, destroyed means quiet; without a failed call or a late add every accepted item is processed and destroy returns |
| `threadpool` | 3 tasks, 3 workers, 2 slots, 4 tasks taken, any shutdown, failing creation | work conserving, drained when joined, steps of `BoundedFifo` with head, tail and count in agreement, until an immediate shutdown; accepted tasks run, graceful destroy returns |
| `ttyserver` | 2 clients, 3 addresses, 2 writes a line, 2 lines | no use after free, own reply, output before prompt, every synchronous request returns |
| `crew` | 3 members, 2 directories, 3 files, failing lstat, opendir, readdir | crew_start goes on only when all is quiet and (without failures) searched once, nobody sleeps on work, crew_start's wait ends unless opendir failed |
| `alarm_cond` | 3 alarms, -1 to 2 seconds, clock 2 to 6 | each alarm once, sleeps for the earliest, rings in time and in order, every alarm rings |
| `programs` | suspend: 2 callers, 3 targets, array of 1 growing to 3; back-off: 2 rounds; semaphore: 2 waiters of 3 waits, 8 posts; 3 threads to cancel, 3 workers, 3 users of the key | the properties of the seven programs, by their names in the inventory |

The bounds let the interesting cases happen: a counter or ring that fills,
wraps around and empties; two sleepers when one is woken; an item or alarm that
arrives in each state of a worker; memory that is reused; an array that grows
twice. `MaxRounds`, `MaxWait`, `MaxTaken`, `MaxLines`, `MaxTime`, `MaxActive`,
`MaxBottom` and `MaxPosts` bound what a client may do; they appear in the guards
of the client's step only, and in `ThreadPool` in the worker's, where an immediate
shutdown loops without end. `MaxWait` bounds nothing but how far `r_wait` drifts:
the threads of `rwlock` lock and unlock without end, so that the run contains the
behaviours in which a woken reader is overtaken every time. In `barrier_main` the
program itself bounds the rounds. The barrier's modulus is 8 in the crowded run because a thread that sleeps
through exactly `CycleModulus` cycles would take the new cycle for its own; with
the 2^64 of `unsigned long` nobody does. No run uses symmetry. Deadlock is not
checked: the programs end, or wait for clients that may stop calling.

The type invariants are theorems for `Barrier`, `RWLock`, `WorkQueue` and
`ThreadPool`; in `TtyServer`, `Crew`, `AlarmCond` and `Suspend` they are conjuncts of
a property of the run, and of the theorem that states it.

Three runs refute a comment of the code (findings in `PROJECT.json`):
`rwlock_exclusion` (`rwl_writelock` does not set `w_active`, so readers and other
writers get in beside the writer), `ttyserver_count` (main compares its loop
with a count that leaving clients decrement, creates too few of them and waits
for the rest) and `pipe` (a stage waits when its datum is ready and sends when it
is not, so that an uninitialised field comes out as a result).

The models contain further disagreements between comments and code, which have
no run of their own:

- `barrier.cxx:109` replaces the -1 of the leading thread by the status of the
  unlock (`UnlockStatus`); `barrier.cxx:42` takes a full counter for an unused
  barrier while released threads are still inside (`DestroyLock`).
- `rwlock.cxx:110` leaves `r_wait` too high when a wait ends normally, so that
  `rwl_writeunlock` may broadcast to no reader and leave a writer asleep.
- `rwlock.cxx:104`: a reader that `rwl_writeunlock` has woken is not preferred to a
  thread that calls `rwl_writetrylock` before the reader has the mutex again, and
  writers that keep doing so starve it; the first alternative of `ReaderGetsIn` is
  this case, and without it TLC finds the behaviour.
- `workq.cxx`: `idle` never changes, so that no worker is signalled and
  `workq_destroy` wakes none; they notice when their wait times out. `valid` is
  never cleared, and an add that overlaps with the destroy can leave an item
  behind.
- `crew_gpt.cc:199`: with `shutdown = 2` a worker never leaves but takes slots of
  an empty ring (`GrabTask`).
- `crew.cc:137`: a directory that cannot be opened is never counted as done
  (`OpenFails`); `crew.cc:153`: the path of new work is not allocated
  (`PathIsNull`, `FreeAborts`).
- `barrier/main.cxx:50`: no `barrier_wait` returns -1, so that no increment is
  ever raised (`EndLoop`); with unequal loop variables (`main.cxx:33`) the
  remaining threads wait for ever.
- `backoff.cc:48`: the loop unlocks the other thread's mutex, after which both may
  pass the line that says "got all locks" at the same time (`BackOff`).
- `susp.cxx:142` writes behind the array and leaves the new slot uninitialised
  (`SuspendGrow`); after a failed `realloc` the next call reads through NULL
  (`ReadsNull`); `thd_suspend` spins for ever with `mut` locked if the target exits
  before it takes the signal (the exception in `CallReturns`).
- `pipe.cc:92`: a stage keeps its mutex while it sends, so that the stages behind
  it and main block (`held`).
- `server.cxx:343` and `crew.cc:389` lock a mutex again where the comment says
  unlock (`MainLocksAgain`, `StartLocksAgain`).

Each property of a passing run has a mutant: a definition `D_Variant` beside `D`
with a plausible slip that TLC must refute.

## Fairness

A thread inside a call goes on when it can (weak fairness of its own steps),
which any scheduler that does not starve a runnable thread gives; engines, tasks
and `fgets` are assumed to return. A client is not obliged to call, except that
in `RWLock` a holder gives the lock back. A timed wait ends when its time is over:
in `WorkQueue` the end of the two seconds is part of the worker's steps, in
`AlarmCond` the time-out has strong fairness, because spurious wake-ups may
interrupt it any number of times and a new call with a time that has passed
returns at once. In `Suspend` a signal that is pending and not blocked is
delivered; nobody has to call and no target has to exit. In `AtFork`,
`CancelCleanup`, `Subcontract` and `BarrierMain` every thread goes on when it can,
and a sleep ends. Spurious wake-ups, cancellations and failures have no fairness.

## Proofs

TLAPS checks the theorems for all values of the constants, under the assumptions
named in the modules. Every invariant that a passing run checks is a theorem, and
so are the two refinements and the order in which alarms ring.

What is assumed of the constants: the sets that are counted are finite
(`Threads`, `Workers`, `Clients`, `Addresses`, `Paths`, `Members`, `Waiters`,
`Users`), NULL is none of the objects, sizes and bounds are natural numbers, and
positive where the code divides by them or needs one place. `Crew` assumes that
the paths are a tree (`TreeAssumption`: the entries of two directories are
disjoint, and every set of paths without the root has an entry of a directory
outside of it, which is how being reachable from the root is said without
recursion). `AlarmCond` assumes that no alarm is asked for before time 1, since
the code takes 0 for "no alarm". The bounds on what a client does (`MaxRounds`,
`MaxTaken`, `MaxLines`, `MaxTime`, ...) are any natural number.

- `BarrierProofs`: `BarrierTypeOK`, `BarrierCounter`, `BarrierLockstep`,
  `BarrierRefinement`. The counter alone is not inductive: the
  invariant `IInv` also says of each thread in the wait that its ticket is at most
  the current generation, that its cancellation is disabled, and how its count of
  arrivals and passes relates to the generation; with as many threads as places
  this gives the lockstep, and it excludes that the wrapped cycle number
  confuses two cycles. The refinement maps the waiters of the current
  generation to *inside* and the older ones to *released*.
  `MainSameShare` is about the test program: its steps are steps the barrier's
  clients may take (`MainUsesBarrier`), so that `IInv` holds, and the place of a
  thread in its loop tells how often it passed (`PlaceInv`). Its hypothesis `Full`
  says that there are as many threads as places, as main creates them.
- `RWLockProofs`: `RWLockTypeOK`, `RWLockCounters`, `RWLockReaders`,
  `RWLockTryExclusion`. `IInv` adds that who holds the lock is not in a wait
  (`HoldInv`), where sleepers are (`SleepInv`), and, as long as `rwl_writelock` was
  not called (the history `blocking`), that `w_active` counts the writer and
  excludes readers (`TryInv`).
- `WorkQueueProofs`: `WorkQueueTypeOK`, `WorkQueueFifo`, `WorkQueueCounter`,
  `WorkQueueNotStranded`, `WorkQueueDestroyed`. `IInv` relates the pointers to the
  histories (`ListInv`: from `first` on, `next` runs through the accepted items
  not yet taken, and `last` is the last of them), says that no item is accepted
  twice (`OnceInv`), and what holds before the initialisation and after the wait
  of the destroy (`FreshInv`, `QuietInv`).
- `ThreadPoolProofs`: `TypeCorrect`, `WorkIsConserved`, `GracefulDrains`,
  `RingIsFifo`. `started` counts the live workers (`CountInv`); the ring holds what
  was accepted and not yet taken (`QueueInv`), each task once (`OnceInv`); a task
  that was taken runs in one worker or has run (`RunInv`); a worker leaves only
  when the ring is empty (`PhaseInv`). The last four hold until an immediate
  shutdown, after which the code takes slots of an empty ring. The lemmas on `%`
  say that the slots from head on are distinct and that tail follows them.
- `AlarmCondProofs`: `NoAlarmLost`, `NeverOversleeps`, `OrderOfRinging`. The list is
  sorted (`ListInv`, kept by the insertion: the positions its loop passes are a
  prefix); `current_alarm` is the time waited for, or that of an earlier alarm
  which has just been entered and has woken the thread (`CurrentInv`); a thread
  that timed out holds an alarm that is due, and earlier than all in the list but
  those that were overdue when they were entered (`DueInv`).
- `CrewProofs`: `SearchIsComplete`, `NoIdleMember`. `work_count` is at least the
  paths in the list and at work, and at most the paths seen (`CountInv`), so that
  it does not fall to 0 too early; an entry is seen only after its directory was
  opened (`EntryInv`), and without failures no entry of a visited directory is
  left out (`SearchInv`); with `TreeAssumption` the visited paths are then all.
- `TtyServerProofs`: `RequestsAreLive`, `PromptComesLast`, `RepliesAreOwn`. The
  requests from `first` to `last` are some sequence q without repetition
  (`Linked`), of requests in use that are not done and not the server's current
  one (`Ordered`); a read is awaited by its client, and all requests of that client
  in q come before it. Hence the server, when it reads, has no write of the
  client before it: `unprinted` counts the writes in q and the one being printed
  (`Counted`). `ServerInv` and `ClientInv` say whose request is freed by whom.
- `ProgramsProofs`: `ListIsTrue` and `NobodyStopsForEver` (`Suspend`),
  `BackoffNeverDeadlocks`, `NoPostLost`, `LastDeletesKey`. One invariant for each of
  the four programs, and each program's steps leave the variables of the others
  alone. For `Suspend` the invariant describes the array outside the slot that the
  running call works on (`SettledSlots`): it holds stopped threads, each once,
  unless uninitialised memory was taken for a thread (`StoppedInv`); SIGUSR1 is
  pending only while its `thd_suspend` spins (`HandlerInv`); a stopped thread is in
  a settled slot, or its call or its SIGUSR2 is under way (`ResumeInv`).

Only model-checked: the liveness properties (`MainReturns`,
`ReleasedThreadLeaves`, `ReaderGetsIn`, `AcceptedIsProcessed`, `AcceptedIsRun`, both
`DestroyReturns`, `ReadReturns`, `CrewFinishes`, `AlarmRings`, `CallReturns`,
`BothProcessesEnd`, `CleanEnd`), because liveness under fairness is out of the
prover's reach; with them `AtFork`, `CancelCleanup` and `Subcontract`, which have no
other property. The three refuted comments need no proof.

## Not modelled, and the plan

Next, in this order:

1. The safety part of the liveness properties: invariants that say why no
   wake-up is lost in `TtyServer` (a sleeping server has an empty list, a sleeping
   client an unfinished request) and that nothing stays locked in `CancelCleanup`
   and `Subcontract`.
2. An abstract readers-writer lock that the lock with `rwl_writetrylock`
   implements, and `BoundedFifo` for the work queue's list.

Not modelled, because too little happens in them to check:

- `alarm_mutex.cc`: the alarm thread locks the mutex again at line 45, where it
  should unlock, and blocks itself in its first pass; the sorted list is that of
  `AlarmCond`.
- `trylock.cc` has no main; its monitor tries the mutex again where it should
  unlock and would abort.
- `alarm_fork.c`, `alarm_thread.c`: each alarm sleeps and prints by itself.
- `once.cxx`, `tsd_once.cxx`: one initialiser through `pthread_once`.
- `cancel.cxx`, `cancel_async.cxx`, `cancel_disable.cxx`: one thread is cancelled,
  and main looks at its data after the join only.
- `sigwait.cxx` never creates its signal thread and `sigev_thread.cxx` never arms
  its timer: main waits for ever, alone.
- `thread_attr`, `sched_attr`, `sched_thread` set and print attributes; `flock` and
  `putchar` take one stdio lock around output; the static and dynamic
  initialisers, `lifecycle.c`.
