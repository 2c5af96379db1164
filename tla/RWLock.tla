-------------------------------- MODULE RWLock --------------------------------
(***************************************************************************)
(* chap7-RealCode/rwlock: a readers-writer lock made of a mutex, one       *)
(* condition variable for the readers and one for the writers, and four    *)
(* counters.                                                               *)
(*                                                                         *)
(* As in Barrier, the owner initialises and destroys, `valid' is read      *)
(* before the mutex is locked, and a locked section is one action.  A      *)
(* client unlocks what it locked; Ops says which operations it uses.       *)
(*                                                                         *)
(* A definition D_Variant stands before D and is D with a plausible slip:  *)
(* nothing uses it, and the properties must fail if it replaces D.         *)
(***************************************************************************)
EXTENDS Integers, FiniteSets, Pthreads

CONSTANTS
    Threads,    \* the threads that use the lock
    Ops,        \* the locking operations they call
    MaxWait     \* bound: rwl_readlock is called while r_wait, which drifts, is below it

LockOps == {"readlock", "readtrylock", "writelock", "writetrylock"}
UnlockOps == {"readunlock", "writeunlock"}

ASSUME RWLockAssumption ==
    /\ IsFiniteSet(Threads)
    /\ Ops \subseteq LockOps
    /\ MaxWait \in Nat

VARIABLES
    valid,      \* rwl->valid = RWLOCK_VALID
    live,       \* the mutex is initialised and not destroyed
    r_active,   \* the four counters of rwlock_t
    w_active,
    r_wait,
    w_wait,
    read,       \* the threads asleep on rwl->read
    write,      \* the threads asleep on rwl->write
    opc,        \* where the owner is in rwl_destroy
    oret,       \* what the owner's last call returned
    pc,         \* where each thread is: in an operation, waiting, or outside
    hold,       \* what each thread was given and has not given back
    ret,        \* what each thread's last call returned
    blocking    \* history: rwl_writelock was called

counters == <<r_active, w_active, r_wait, w_wait>>
ownerVars == <<opc, oret>>
vars == <<valid, live, counters, read, write, ownerVars, pc, hold, ret, blocking>>

Status == {"none", "0", "EINVAL", "EBUSY", "ENOMEM"}

TypeOK ==
    /\ valid \in BOOLEAN
    /\ live \in BOOLEAN
    /\ r_active \in Nat
    /\ w_active \in {0, 1}
    /\ r_wait \in Nat
    /\ w_wait \in Nat
    /\ read \in SUBSET Threads
    /\ write \in SUBSET Threads
    /\ opc \in {"idle", "checked", "free mutex", "free conds"}
    /\ oret \in Status
    /\ pc \in [Threads -> {"idle", "rwait", "wwait", "cancelled"} \cup LockOps \cup UnlockOps]
    /\ hold \in [Threads -> {"none", "read", "write"}]
    /\ ret \in [Threads -> Status]
    /\ blocking \in BOOLEAN

Init ==
    /\ valid = FALSE
    /\ live = FALSE
    /\ r_active = 0
    /\ w_active = 0
    /\ r_wait = 0
    /\ w_wait = 0
    /\ read = {}
    /\ write = {}
    /\ opc = "idle"
    /\ oret = "none"
    /\ pc = [t \in Threads |-> "idle"]
    /\ hold = [t \in Threads |-> "none"]
    /\ ret = [t \in Threads |-> "none"]
    /\ blocking = FALSE

-------------------------------------------------------------------------------
ReadWaiters == {t \in Threads : pc[t] = "rwait"}
WriteWaiters == {t \in Threads : pc[t] = "wwait"}
Readers == {t \in Threads : hold[t] = "read"}
Writers == {t \in Threads : hold[t] = "write"}

(* rwl_init: the counters are cleared even when a pthread call fails then. *)
Unused ==
    /\ ~valid /\ ~live /\ opc = "idle"
    /\ \A t \in Threads : pc[t] \in {"idle", "cancelled"} /\ hold[t] = "none"

ClearCounters == r_active' = 0 /\ r_wait' = 0 /\ w_active' = 0 /\ w_wait' = 0

RwlInit ==
    /\ Unused
    /\ ClearCounters
    /\ live' = TRUE
    /\ valid' = TRUE
    /\ oret' = "0"
    /\ UNCHANGED <<read, write, opc, pc, hold, ret, blocking>>

RwlInitFails ==
    /\ Unused
    /\ ClearCounters
    /\ oret' = "ENOMEM"
    /\ UNCHANGED <<valid, live, read, write, opc, pc, hold, ret, blocking>>

(* rwl_destroy *)
DestroyEnter ==
    /\ opc = "idle"
    /\ opc' = IF valid THEN "checked" ELSE "idle"
    /\ oret' = IF valid THEN oret ELSE "EINVAL"
    /\ UNCHANGED <<valid, live, counters, read, write, pc, hold, ret, blocking>>

InUse == r_active > 0 \/ w_active > 0 \/ r_wait > 0 \/ w_wait > 0

DestroyLock ==
    /\ opc = "checked"
    /\ IF InUse
         THEN opc' = "idle" /\ oret' = "EBUSY" /\ UNCHANGED valid
         ELSE opc' = "free mutex" /\ valid' = FALSE /\ UNCHANGED oret
    /\ UNCHANGED <<live, counters, read, write, pc, hold, ret, blocking>>

\* A mutex some thread waits with is not destroyed.
DestroyMutex ==
    /\ opc = "free mutex"
    /\ opc' = "free conds"
    /\ live' = (ReadWaiters \cup WriteWaiters # {})
    /\ oret' = IF ReadWaiters \cup WriteWaiters # {} THEN "EBUSY" ELSE "0"
    /\ UNCHANGED <<valid, counters, read, write, pc, hold, ret, blocking>>

\* pthread_cond_destroy returns when no thread sleeps on the variable.
DestroyConds ==
    /\ opc = "free conds"
    /\ read = {} /\ write = {}
    /\ opc' = "idle"
    /\ UNCHANGED <<valid, live, counters, read, write, oret, pc, hold, ret, blocking>>

-------------------------------------------------------------------------------
(* The check of `valid' every operation starts with. *)
Allowed(t, op) ==
    \/ op \in Ops /\ hold[t] = "none" /\ (op = "readlock" => r_wait < MaxWait)
    \/ op = "readunlock" /\ hold[t] = "read"
    \/ op = "writeunlock" /\ hold[t] = "write"

Enter(t, op) ==
    /\ pc[t] = "idle"
    /\ Allowed(t, op)
    /\ pc' = [pc EXCEPT ![t] = IF valid THEN op ELSE "idle"]
    /\ ret' = [ret EXCEPT ![t] = IF valid THEN @ ELSE "EINVAL"]
    /\ blocking' = (blocking \/ op = "writelock")
    /\ UNCHANGED <<valid, live, counters, read, write, ownerVars, hold>>

\* pthread_mutex_lock fails on a mutex that was destroyed meanwhile.
MutexGone(t) ==
    /\ pc[t] \in LockOps \cup UnlockOps
    /\ ~live
    /\ pc' = [pc EXCEPT ![t] = "idle"]
    /\ ret' = [ret EXCEPT ![t] = "EINVAL"]
    /\ UNCHANGED <<valid, live, counters, read, write, ownerVars, hold, blocking>>

At(t, op) == pc[t] = op /\ live

Return(t, status) ==
    /\ pc' = [pc EXCEPT ![t] = "idle"]
    /\ ret' = [ret EXCEPT ![t] = status]

Hold(t, how) == hold' = [hold EXCEPT ![t] = how]

(* rwl_readlock *)
AdmitReader == r_active' = r_active + 1

ReadLock(t) ==
    /\ At(t, "readlock")
    /\ w_active = 0
    /\ AdmitReader
    /\ Hold(t, "read")
    /\ Return(t, "0")
    /\ UNCHANGED <<valid, live, w_active, r_wait, w_wait, read, write, ownerVars, blocking>>

ReadWait(t) ==
    /\ At(t, "readlock")
    /\ w_active # 0
    /\ r_wait' = r_wait + 1
    /\ read' = CondWait(read, t)
    /\ pc' = [pc EXCEPT ![t] = "rwait"]
    /\ UNCHANGED <<valid, live, r_active, w_active, w_wait, write, ownerVars, hold, ret, blocking>>

ReadWaitAgain(t) ==
    /\ pc[t] = "rwait"
    /\ t \notin read
    /\ w_active # 0
    /\ read' = CondWait(read, t)
    /\ UNCHANGED <<valid, live, counters, write, ownerVars, pc, hold, ret, blocking>>

\* The reader is counted as active and remains counted as waiting.
ReadWaitEnds(t) ==
    /\ pc[t] = "rwait"
    /\ t \notin read
    /\ w_active = 0
    /\ AdmitReader
    /\ Hold(t, "read")
    /\ Return(t, "0")
    /\ UNCHANGED <<valid, live, w_active, r_wait, w_wait, read, write, ownerVars, blocking>>

(* rwl_readtrylock *)
ReadTryLock(t) ==
    /\ At(t, "readtrylock")
    /\ IF w_active # 0
         THEN Return(t, "EBUSY") /\ UNCHANGED <<r_active, hold>>
         ELSE Return(t, "0") /\ AdmitReader /\ Hold(t, "read")
    /\ UNCHANGED <<valid, live, w_active, r_wait, w_wait, read, write, ownerVars, blocking>>

(* rwl_readunlock *)
ReadUnlock(t) ==
    /\ At(t, "readunlock")
    /\ r_active' = r_active - 1
    /\ IF r_active' = 0 /\ w_wait > 0
         THEN write' \in CondSignal(write)
         ELSE UNCHANGED write
    /\ Hold(t, "none")
    /\ Return(t, "0")
    /\ UNCHANGED <<valid, live, w_active, r_wait, w_wait, read, ownerVars, blocking>>

(* rwl_writelock: it waits until nobody is active and then returns, with   *)
(* w_active as it was.                                                     *)
NobodyActive == w_active = 0 /\ r_active = 0

WriteLock(t) ==
    /\ At(t, "writelock")
    /\ NobodyActive
    /\ Hold(t, "write")
    /\ Return(t, "0")
    /\ UNCHANGED <<valid, live, counters, read, write, ownerVars, blocking>>

WriteWait(t) ==
    /\ At(t, "writelock")
    /\ ~NobodyActive
    /\ w_wait' = w_wait + 1
    /\ write' = CondWait(write, t)
    /\ pc' = [pc EXCEPT ![t] = "wwait"]
    /\ UNCHANGED <<valid, live, r_active, w_active, r_wait, read, ownerVars, hold, ret, blocking>>

WriteWaitAgain(t) ==
    /\ pc[t] = "wwait"
    /\ t \notin write
    /\ ~NobodyActive
    /\ write' = CondWait(write, t)
    /\ UNCHANGED <<valid, live, counters, read, ownerVars, pc, hold, ret, blocking>>

WriteWaitEnds(t) ==
    /\ pc[t] = "wwait"
    /\ t \notin write
    /\ NobodyActive
    /\ w_wait' = w_wait - 1
    /\ Hold(t, "write")
    /\ Return(t, "0")
    /\ UNCHANGED <<valid, live, r_active, w_active, r_wait, read, write, ownerVars, blocking>>

(* rwl_writetrylock *)
MayTryWrite_IgnoresReaders == w_active = 0
MayTryWrite == NobodyActive

WriteTryLock(t) ==
    /\ At(t, "writetrylock")
    /\ IF MayTryWrite
         THEN Return(t, "0") /\ w_active' = w_active + 1 /\ Hold(t, "write")
         ELSE Return(t, "EBUSY") /\ UNCHANGED <<w_active, hold>>
    /\ UNCHANGED <<valid, live, r_active, r_wait, w_wait, read, write, ownerVars, blocking>>

(* rwl_writeunlock: the readers that wait are preferred to the writers. *)
WakeAfterWrite_SignalsOneReader ==
    /\ read' \in IF r_wait > 0 THEN CondSignal(read) ELSE {read}
    /\ write' \in IF r_wait = 0 /\ w_wait > 0 THEN CondSignal(write) ELSE {write}
WakeAfterWrite_AsksActiveReaders ==
    /\ read' = IF r_active > 0 THEN CondBroadcast(read) ELSE read
    /\ write' \in IF r_wait = 0 /\ w_wait > 0 THEN CondSignal(write) ELSE {write}
WakeAfterWrite ==
    /\ read' = IF r_wait > 0 THEN CondBroadcast(read) ELSE read
    /\ write' \in IF r_wait = 0 /\ w_wait > 0 THEN CondSignal(write) ELSE {write}

WriteUnlock(t) ==
    /\ At(t, "writeunlock")
    /\ w_active' = 0
    /\ WakeAfterWrite
    /\ Hold(t, "none")
    /\ Return(t, "0")
    /\ UNCHANGED <<valid, live, r_active, r_wait, w_wait, ownerVars, blocking>>

-------------------------------------------------------------------------------
SpuriousWakeup(t) ==
    /\ t \in read \cup write
    /\ read' = CondLeave(read, t)
    /\ write' = CondLeave(write, t)
    /\ UNCHANGED <<valid, live, counters, ownerVars, pc, hold, ret, blocking>>

(* rwl_readcleanup and rwl_writecleanup, run for a thread that is          *)
(* cancelled in its wait.                                                  *)
ReadCleanup == r_wait' = r_wait - 1
WriteCleanup_Nothing == UNCHANGED w_wait
WriteCleanup == w_wait' = w_wait - 1

CancelReader(t) ==
    /\ t \in read
    /\ read' = CondLeave(read, t)
    /\ ReadCleanup
    /\ pc' = [pc EXCEPT ![t] = "cancelled"]
    /\ UNCHANGED <<valid, live, r_active, w_active, w_wait, write, ownerVars, hold, ret, blocking>>

CancelWriter(t) ==
    /\ t \in write
    /\ write' = CondLeave(write, t)
    /\ WriteCleanup
    /\ pc' = [pc EXCEPT ![t] = "cancelled"]
    /\ UNCHANGED <<valid, live, r_active, w_active, r_wait, read, ownerVars, hold, ret, blocking>>

Owner ==
    \/ RwlInit
    \/ RwlInitFails
    \/ DestroyEnter
    \/ DestroyLock
    \/ DestroyMutex
    \/ DestroyConds

\* The steps a call takes once it is entered.
Call(t) ==
    \/ MutexGone(t)
    \/ ReadLock(t) \/ ReadWait(t) \/ ReadWaitAgain(t) \/ ReadWaitEnds(t)
    \/ ReadTryLock(t)
    \/ ReadUnlock(t)
    \/ WriteLock(t) \/ WriteWait(t) \/ WriteWaitAgain(t) \/ WriteWaitEnds(t)
    \/ WriteTryLock(t)
    \/ WriteUnlock(t)

Thread(t) ==
    \/ \E op \in Ops \cup UnlockOps : Enter(t, op)
    \/ Call(t)
    \/ SpuriousWakeup(t)
    \/ CancelReader(t)
    \/ CancelWriter(t)

Next == Owner \/ \E t \in Threads : Thread(t)

Spec == Init /\ [][Next]_vars

\* A call goes on when it can, and a client unlocks what it locked.
Fairness ==
    \A t \in Threads :
        /\ WF_vars(Call(t))
        /\ WF_vars(\E op \in UnlockOps : Enter(t, op))

FairSpec == Spec /\ Fairness

-------------------------------------------------------------------------------
ReadersCounted == r_active = Cardinality(Readers)
WaitingWritersCounted == w_wait = Cardinality(WriteWaiters)

(* r_active is the number of the threads that hold the lock for reading,   *)
(* and w_wait that of the threads in the waiting loop of rwl_writelock,    *)
(* through waits, trylocks, cancellations and a destroy.                   *)
CountersExact == ReadersCounted /\ WaitingWritersCounted

(* No wake-up of a reader is lost: readers sleep only while a writer is    *)
(* marked active.                                                          *)
ReadersSleepForWriter == read # {} => w_active # 0

(* What the lock is for: a writer is alone. *)
Exclusion ==
    \A t, u \in Threads : t # u /\ hold[t] = "write" => hold[u] = "none"

(* The lock excludes as long as its clients write with rwl_writetrylock. *)
TryExclusion == ~blocking => Exclusion

(* A reader that waits gets in, or its call ends otherwise, provided that  *)
(* those who hold the lock give it back and nobody destroys it, unless     *)
(* writers go on for ever to take the lock with rwl_writetrylock: between  *)
(* the broadcast of rwl_writeunlock and the reader's test of w_active such *)
(* a writer may overtake it every time.                                    *)
ReaderGetsIn ==
    \/ []<><<w_active' > w_active>>_vars
    \/ \A t \in Threads : (pc[t] = "rwait") ~> (pc[t] # "rwait" \/ ~valid)
===============================================================================
