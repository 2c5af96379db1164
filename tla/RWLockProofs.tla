----------------------------- MODULE RWLockProofs -----------------------------
(* Proofs about RWLock, for every set of threads and of operations used.   *)
EXTENDS RWLock, TLAPS, FiniteSetTheorems

\* What a thread holds fits where it is.
HoldInv ==
    \A t \in Threads :
        /\ pc[t] \in LockOps \cup {"rwait", "wwait", "cancelled"} => hold[t] = "none"
        /\ pc[t] = "readunlock" => hold[t] = "read"
        /\ pc[t] = "writeunlock" => hold[t] = "write"

\* Nobody is inside rwl_writelock before a client called it.
NoWriteLock == ~blocking => \A t \in Threads : pc[t] \notin {"writelock", "wwait"}

\* Then every writer has w_active set, and is alone.
TryInv ==
    ~blocking =>
        \A t \in Threads : hold[t] = "write" =>
            /\ w_active = 1
            /\ \A u \in Threads : u # t => hold[u] = "none"

\* The sleepers are in the waiting loops, and r_wait counts at least the
\* readers that wait: rwl_readlock increments it and only the cleanup handler
\* decrements it.
SleepInv ==
    /\ read \subseteq ReadWaiters
    /\ write \subseteq WriteWaiters
    /\ Cardinality(ReadWaiters) <= r_wait
    /\ ReadersSleepForWriter

IInv ==
    /\ TypeOK
    /\ ReadersCounted
    /\ WaitingWritersCounted
    /\ HoldInv
    /\ NoWriteLock
    /\ TryInv
    /\ SleepInv

-------------------------------------------------------------------------------
(* The sets whose sizes the counters hold are finite. *)
LEMMA FiniteThreads ==
    /\ IsFiniteSet(Readers) /\ Cardinality(Readers) \in Nat
    /\ IsFiniteSet(ReadWaiters) /\ Cardinality(ReadWaiters) \in Nat
    /\ IsFiniteSet(WriteWaiters) /\ Cardinality(WriteWaiters) \in Nat
<1>1. Readers \in SUBSET Threads /\ ReadWaiters \in SUBSET Threads /\ WriteWaiters \in SUBSET Threads
    BY DEF Readers, ReadWaiters, WriteWaiters
<1>2. IsFiniteSet(Readers) /\ IsFiniteSet(ReadWaiters) /\ IsFiniteSet(WriteWaiters)
    BY <1>1, RWLockAssumption, FS_Subset
<1> QED BY <1>2, FS_CardinalityType

(* A set that gains or loses an element changes its size by one. *)
LEMMA CountUp ==
    ASSUME NEW S, IsFiniteSet(S), NEW t, t \notin S
    PROVE  Cardinality(S \cup {t}) = Cardinality(S) + 1
BY FS_AddElement

LEMMA CountDown ==
    ASSUME NEW S, IsFiniteSet(S), NEW t \in S
    PROVE  /\ Cardinality(S \ {t}) = Cardinality(S) - 1
           /\ Cardinality(S) \in Nat \ {0}
BY FS_RemoveElement, FS_CardinalityType, FS_EmptySet

(* Nobody has the lock and nobody waits in the initial states. *)
LEMMA InitIInv == Init => IInv
<1> SUFFICES ASSUME Init PROVE IInv
    OBVIOUS
<1>1. Readers = {} /\ ReadWaiters = {} /\ WriteWaiters = {}
    BY DEF Init, Readers, ReadWaiters, WriteWaiters
<1>2. TypeOK
    BY DEF Init, TypeOK, Status
<1>3. HoldInv /\ NoWriteLock /\ TryInv
    BY DEF Init, HoldInv, NoWriteLock, TryInv, LockOps
<1> QED BY <1>1, <1>2, <1>3, FS_EmptySet
        DEF Init, IInv, ReadersCounted, WaitingWritersCounted, SleepInv, ReadersSleepForWriter

(* The steps of the owner: rwl_init clears the counters of a lock nobody   *)
(* has, rwl_destroy does not touch them.                                   *)
LEMMA OwnerStep == ASSUME IInv, Owner PROVE IInv'
<1> USE DEF counters, ownerVars
<1>1. UNCHANGED <<read, write, pc, hold, ret, blocking>>
    BY DEF Owner, RwlInit, RwlInitFails, DestroyEnter, DestroyLock, DestroyMutex, DestroyConds
<1>2. Readers' = Readers /\ ReadWaiters' = ReadWaiters /\ WriteWaiters' = WriteWaiters
    BY <1>1 DEF Readers, ReadWaiters, WriteWaiters
<1>3. oret' \in Status /\ opc' \in {"idle", "checked", "free mutex", "free conds"}
    BY DEF Owner, RwlInit, RwlInitFails, DestroyEnter, DestroyLock, DestroyMutex, DestroyConds,
           IInv, TypeOK, Status
<1>4. valid' \in BOOLEAN /\ live' \in BOOLEAN
    BY DEF Owner, RwlInit, RwlInitFails, DestroyEnter, DestroyLock, DestroyMutex, DestroyConds,
           IInv, TypeOK
<1>5. CASE UNCHANGED counters
    <2>1. TypeOK'
        BY <1>1, <1>3, <1>4, <1>5 DEF IInv, TypeOK
    <2> QED BY <2>1, <1>1, <1>2, <1>5 DEF IInv, ReadersCounted, WaitingWritersCounted, HoldInv,
            NoWriteLock, TryInv, SleepInv, ReadersSleepForWriter
<1>6. CASE Unused /\ ClearCounters
    <2>1. Readers = {} /\ ReadWaiters = {} /\ WriteWaiters = {}
        BY <1>6 DEF Unused, Readers, ReadWaiters, WriteWaiters
    <2>2. TypeOK'
        BY <1>1, <1>3, <1>4, <1>6 DEF IInv, TypeOK, ClearCounters
    <2>3. HoldInv' /\ NoWriteLock' /\ TryInv'
        BY <1>1, <1>6 DEF IInv, HoldInv, NoWriteLock, TryInv, Unused
    <2> QED BY <2>1, <2>2, <2>3, <1>1, <1>2, <1>6, FS_EmptySet
            DEF IInv, ReadersCounted, WaitingWritersCounted, SleepInv, ReadersSleepForWriter,
                ClearCounters
<1> QED BY <1>5, <1>6 DEF Owner, RwlInit, RwlInitFails, DestroyEnter, DestroyLock, DestroyMutex,
        DestroyConds

(* A step of a thread that is not in a waiting loop and does not get to    *)
(* one, that keeps what it holds and touches no counter.                   *)
LEMMA IdleStep ==
    ASSUME IInv, NEW t \in Threads, pc[t] \notin {"rwait", "wwait"},
           NEW next \in {"idle"} \cup Ops \cup UnlockOps,
           next \in Ops => hold[t] = "none",
           next = "readunlock" => hold[t] = "read",
           next = "writeunlock" => hold[t] = "write",
           pc' = [pc EXCEPT ![t] = next],
           ret' \in [Threads -> Status], blocking' \in BOOLEAN,
           blocking \/ next = "writelock" => blocking',
           UNCHANGED <<valid, live, counters, read, write, ownerVars, hold>>
    PROVE  IInv'
<1> USE RWLockAssumption DEF counters, ownerVars
<1>0. next \in {"idle"} \cup LockOps \cup UnlockOps /\ next \notin {"rwait", "wwait", "cancelled"}
    BY DEF LockOps, UnlockOps
<1>1. Readers' = Readers /\ ReadWaiters' = ReadWaiters /\ WriteWaiters' = WriteWaiters
    BY <1>0 DEF Readers, ReadWaiters, WriteWaiters, IInv, TypeOK
<1>2. TypeOK'
    BY <1>0 DEF IInv, TypeOK
<1>3. HoldInv'
    BY <1>0 DEF IInv, TypeOK, HoldInv, LockOps, UnlockOps
<1>4. NoWriteLock' /\ TryInv'
    BY <1>0 DEF IInv, TypeOK, NoWriteLock, TryInv, UnlockOps
<1> QED BY <1>1, <1>2, <1>3, <1>4 DEF IInv, ReadersCounted, WaitingWritersCounted, SleepInv,
        ReadersSleepForWriter

(* Entering a call, and failing to lock the mutex. *)
LEMMA EnterStep ==
    ASSUME IInv, NEW t \in Threads,
           (\E op \in Ops \cup UnlockOps : Enter(t, op)) \/ MutexGone(t)
    PROVE  IInv'
<1>1. ASSUME NEW op \in Ops \cup UnlockOps, Enter(t, op) PROVE IInv'
    <2>1. pc[t] = "idle" /\ Allowed(t, op)
        BY <1>1 DEF Enter
    <2>2. /\ ret' \in [Threads -> Status] /\ blocking' \in BOOLEAN
          /\ blocking \/ op = "writelock" => blocking'
        <3>1. ret \in [Threads -> Status] /\ blocking \in BOOLEAN /\ "EINVAL" \in Status
            BY DEF IInv, TypeOK, Status
        <3>2. ret' = [ret EXCEPT ![t] = ret[t]] \/ ret' = [ret EXCEPT ![t] = "EINVAL"]
            BY <1>1 DEF Enter
        <3>3. blocking' = (blocking \/ op = "writelock")
            BY <1>1 DEF Enter
        <3>4. ret' \in [Threads -> Status]
            BY <3>1, <3>2, <3>3
        <3>5. blocking' \in BOOLEAN /\ (blocking \/ op = "writelock" => blocking')
            BY ONLY <3>3
        <3> QED BY <3>4, <3>5
    <2>3. UNCHANGED <<valid, live, counters, read, write, ownerVars, hold>>
        BY <1>1 DEF Enter
    <2>4. CASE pc' = [pc EXCEPT ![t] = "idle"]
        BY <2>1, <2>2, <2>3, <2>4, IdleStep, RWLockAssumption DEF LockOps
    <2>5. CASE pc' = [pc EXCEPT ![t] = op]
        BY <2>1, <2>2, <2>3, <2>5, IdleStep, RWLockAssumption DEF Allowed, LockOps
    <2> QED BY <1>1, <2>4, <2>5 DEF Enter
<1>2. CASE MutexGone(t)
    <2>1. pc[t] \notin {"rwait", "wwait"} /\ pc' = [pc EXCEPT ![t] = "idle"]
        BY <1>2 DEF MutexGone, LockOps, UnlockOps
    <2>2. /\ ret' \in [Threads -> Status] /\ blocking' \in BOOLEAN
          /\ blocking' = blocking
        BY <1>2 DEF MutexGone, IInv, TypeOK, Status
    <2>3. UNCHANGED <<valid, live, counters, read, write, ownerVars, hold>>
        BY <1>2 DEF MutexGone
    <2> QED BY <2>1, <2>2, <2>3, IdleStep, RWLockAssumption DEF LockOps
<1> QED BY <1>1, <1>2

-------------------------------------------------------------------------------
(* A reader gets in: no writer is marked active, so none holds the lock    *)
(* unless it came through rwl_writelock.                                   *)
LEMMA ReaderIn ==
    ASSUME IInv, NEW t \in Threads, pc[t] \in {"readlock", "readtrylock", "rwait"},
           t \notin read, w_active = 0, AdmitReader, Hold(t, "read"), Return(t, "0"),
           UNCHANGED <<valid, live, w_active, r_wait, w_wait, read, write, ownerVars, blocking>>
    PROVE  IInv'
<1>0. TypeOK /\ hold[t] = "none"
    BY DEF IInv, HoldInv, LockOps
<1>a. /\ r_active' = r_active + 1
      /\ hold' = [hold EXCEPT ![t] = "read"]
      /\ pc' = [pc EXCEPT ![t] = "idle"]
      /\ ret' = [ret EXCEPT ![t] = "0"]
    BY DEF AdmitReader, Hold, Return
<1>b. r_active \in Nat /\ r_wait \in Nat
      /\ pc' \in [Threads -> {"idle", "rwait", "wwait", "cancelled"} \cup LockOps \cup UnlockOps]
      /\ hold' \in [Threads -> {"none", "read", "write"}]
      /\ ret' \in [Threads -> Status]
    BY <1>0, <1>a DEF TypeOK, Status
<1>1. Readers' = Readers \cup {t} /\ t \notin Readers
    BY <1>0, <1>a DEF Readers, TypeOK
<1>2. WriteWaiters' = WriteWaiters /\ ReadWaiters' = ReadWaiters \ {t}
    BY <1>0, <1>a DEF ReadWaiters, WriteWaiters, TypeOK
<1>3. TypeOK'
    <2>1. r_active' \in Nat
        BY <1>a, <1>b
    <2> QED BY <1>0, <1>b, <2>1 DEF TypeOK, ownerVars
<1>4. ReadersCounted' /\ WaitingWritersCounted'
    BY <1>a, <1>1, <1>2, CountUp, FiniteThreads DEF IInv, ReadersCounted, WaitingWritersCounted
<1>5. HoldInv' /\ NoWriteLock'
    BY <1>0, <1>a DEF IInv, TypeOK, HoldInv, NoWriteLock, LockOps
<1>6. TryInv'
    <2>1. ~blocking => \A u \in Threads : hold[u] # "write"
        BY DEF IInv, TryInv
    <2>2. \A u \in Threads : hold'[u] = "write" => hold[u] = "write"
        BY <1>0, <1>a DEF TypeOK
    <2> QED BY <2>1, <2>2 DEF TryInv
<1>7. Cardinality(ReadWaiters \ {t}) \in Nat /\ Cardinality(ReadWaiters \ {t}) <= Cardinality(ReadWaiters)
    <2>1. ReadWaiters \ {t} \in SUBSET ReadWaiters
        OBVIOUS
    <2> QED BY <2>1, FiniteThreads, FS_Subset, FS_CardinalityType
<1>8. SleepInv'
    <2>1. Cardinality(ReadWaiters) <= r_wait /\ read \subseteq ReadWaiters /\ write \subseteq WriteWaiters
          /\ ReadersSleepForWriter
        BY DEF IInv, SleepInv
    <2>2. Cardinality(ReadWaiters') <= r_wait'
        BY <1>b, <1>2, <1>7, <2>1, FiniteThreads
    <2> QED BY <1>2, <2>1, <2>2 DEF SleepInv, ReadersSleepForWriter
<1> QED BY <1>3, <1>4, <1>5, <1>6, <1>8 DEF IInv

(* The steps of rwl_readlock and rwl_readtrylock. *)
LEMMA ReadStep ==
    ASSUME IInv, NEW t \in Threads,
           \/ ReadLock(t)
           \/ ReadWait(t)
           \/ ReadWaitAgain(t)
           \/ ReadWaitEnds(t)
           \/ ReadTryLock(t)
    PROVE  IInv'
<1> USE DEF ownerVars, counters
<1>0. TypeOK /\ read \subseteq ReadWaiters
    BY DEF IInv, SleepInv
<1>1. CASE ReadLock(t)
    BY <1>0, <1>1, ReaderIn DEF ReadLock, At, ReadWaiters
<1>2. CASE ReadWaitEnds(t)
    BY <1>2, ReaderIn DEF ReadWaitEnds
<1>3. CASE ReadTryLock(t)
    <2>1. CASE w_active = 0
        BY <1>0, <1>3, <2>1, ReaderIn DEF ReadTryLock, At, ReadWaiters
    <2>2. CASE w_active # 0
        <3>1. pc[t] = "readtrylock" /\ pc' = [pc EXCEPT ![t] = "idle"] /\ ret' \in [Threads -> Status]
            BY <1>0, <1>3, <2>2 DEF ReadTryLock, At, Return, TypeOK, Status
        <3>2. UNCHANGED <<valid, live, counters, read, write, ownerVars, hold, blocking>>
            BY <1>3, <2>2 DEF ReadTryLock
        <3> QED BY <1>0, <3>1, <3>2, IdleStep, RWLockAssumption DEF TypeOK, LockOps
    <2> QED BY <2>1, <2>2
<1>4. CASE ReadWait(t)
    <2>1. /\ pc[t] = "readlock" /\ w_active # 0
          /\ pc' = [pc EXCEPT ![t] = "rwait"]
          /\ r_wait' = r_wait + 1
          /\ read' = read \cup {t}
          /\ UNCHANGED <<valid, live, r_active, w_active, w_wait, write, opc, oret, hold, ret, blocking>>
        BY <1>4 DEF ReadWait, At, CondWait
    <2>2. Readers' = Readers /\ WriteWaiters' = WriteWaiters
        BY <1>0, <2>1 DEF Readers, WriteWaiters, TypeOK
    <2>3. ReadWaiters' = ReadWaiters \cup {t} /\ t \notin ReadWaiters
        BY <1>0, <2>1 DEF ReadWaiters, TypeOK
    <2>4. TypeOK'
        <3>1. pc' \in [Threads -> {"idle", "rwait", "wwait", "cancelled"} \cup LockOps \cup UnlockOps]
            BY <1>0, <2>1 DEF TypeOK
        <3>2. r_wait \in Nat /\ read \in SUBSET Threads
            BY <1>0 DEF TypeOK
        <3>3. r_wait' \in Nat /\ read' \in SUBSET Threads
            BY <2>1, <3>2
        <3> QED BY <1>0, <2>1, <3>1, <3>3 DEF TypeOK
    <2>5. HoldInv' /\ NoWriteLock' /\ TryInv'
        BY <1>0, <2>1 DEF IInv, TypeOK, HoldInv, NoWriteLock, TryInv, LockOps
    <2>6. Cardinality(ReadWaiters') <= r_wait'
        <3>1. Cardinality(ReadWaiters') = Cardinality(ReadWaiters) + 1
            BY <2>3, CountUp, FiniteThreads
        <3>2. Cardinality(ReadWaiters) <= r_wait /\ r_wait \in Nat
            BY <1>0 DEF IInv, SleepInv, TypeOK
        <3> QED BY <2>1, <3>1, <3>2, FiniteThreads
    <2> QED BY <2>1, <2>2, <2>3, <2>4, <2>5, <2>6
            DEF IInv, ReadersCounted, WaitingWritersCounted, SleepInv, ReadersSleepForWriter
<1>5. CASE ReadWaitAgain(t)
    <2>1. /\ t \in ReadWaiters /\ w_active # 0 /\ read' = read \cup {t}
          /\ UNCHANGED <<valid, live, counters, write, ownerVars, pc, hold, ret, blocking>>
        BY <1>5 DEF ReadWaitAgain, CondWait, ReadWaiters
    <2>2. Readers' = Readers /\ WriteWaiters' = WriteWaiters /\ ReadWaiters' = ReadWaiters
        BY <2>1 DEF Readers, WriteWaiters, ReadWaiters
    <2>3. TypeOK'
        BY <1>0, <2>1 DEF TypeOK
    <2>4. HoldInv' /\ NoWriteLock' /\ TryInv'
        BY <2>1 DEF IInv, HoldInv, NoWriteLock, TryInv
    <2> QED BY <2>1, <2>2, <2>3, <2>4
            DEF IInv, ReadersCounted, WaitingWritersCounted, SleepInv, ReadersSleepForWriter
<1> QED BY <1>1, <1>2, <1>3, <1>4, <1>5

(* rwl_readunlock gives back one of the active readers. *)
LEMMA ReadUnlockStep == ASSUME IInv, NEW t \in Threads, ReadUnlock(t) PROVE IInv'
<1>0. TypeOK /\ pc[t] = "readunlock" /\ hold[t] = "read"
    BY DEF IInv, HoldInv, ReadUnlock, At
<1>1. /\ r_active' = r_active - 1
      /\ pc' = [pc EXCEPT ![t] = "idle"]
      /\ hold' = [hold EXCEPT ![t] = "none"]
      /\ ret' = [ret EXCEPT ![t] = "0"]
      /\ UNCHANGED <<valid, live, w_active, r_wait, w_wait, read, opc, oret, blocking>>
    BY DEF ReadUnlock, Return, Hold, ownerVars
<1>2. write' \subseteq write
    BY DEF ReadUnlock, CondSignal
<1>3. Readers' = Readers \ {t} /\ t \in Readers
    BY <1>0, <1>1 DEF Readers, TypeOK
<1>4. ReadWaiters' = ReadWaiters /\ WriteWaiters' = WriteWaiters
    BY <1>0, <1>1 DEF ReadWaiters, WriteWaiters, TypeOK
<1>5. r_active' = Cardinality(Readers') /\ r_active' \in Nat
    BY <1>1, <1>3, CountDown, FiniteThreads DEF IInv, ReadersCounted
<1>6. TypeOK'
    BY <1>0, <1>1, <1>2, <1>5 DEF TypeOK, Status
<1>7. HoldInv' /\ NoWriteLock' /\ TryInv'
    BY <1>0, <1>1 DEF IInv, TypeOK, HoldInv, NoWriteLock, TryInv, LockOps
<1> QED BY <1>1, <1>2, <1>4, <1>5, <1>6, <1>7
        DEF IInv, ReadersCounted, WaitingWritersCounted, SleepInv, ReadersSleepForWriter

-------------------------------------------------------------------------------
(* A writer gets in through rwl_writelock: nothing to show about exclusion *)
(* here, since a client calls it.                                          *)
LEMMA WriteLockStep ==
    ASSUME IInv, NEW t \in Threads, WriteLock(t) \/ WriteWaitEnds(t)
    PROVE  IInv'
<1>0. /\ TypeOK /\ hold[t] = "none" /\ blocking /\ pc[t] \in {"writelock", "wwait"}
      /\ t \notin write /\ write \subseteq WriteWaiters
    <2>1. pc[t] \in {"writelock", "wwait"} /\ (pc[t] = "wwait" => t \notin write)
        BY DEF WriteLock, WriteWaitEnds, At
    <2>2. write \subseteq WriteWaiters
        BY DEF IInv, SleepInv
    <2> QED BY <2>1, <2>2 DEF IInv, HoldInv, NoWriteLock, LockOps, WriteWaiters
<1>1. /\ pc' = [pc EXCEPT ![t] = "idle"]
      /\ hold' = [hold EXCEPT ![t] = "write"]
      /\ ret' = [ret EXCEPT ![t] = "0"]
      /\ w_wait' = IF pc[t] = "wwait" THEN w_wait - 1 ELSE w_wait
      /\ UNCHANGED <<valid, live, r_active, w_active, r_wait, read, write, opc, oret, blocking>>
    BY DEF WriteLock, WriteWaitEnds, At, Return, Hold, ownerVars, counters
<1>2. Readers' = Readers /\ ReadWaiters' = ReadWaiters
    BY <1>0, <1>1 DEF Readers, ReadWaiters, TypeOK
<1>3. WriteWaiters' = WriteWaiters \ {t} /\ (pc[t] = "wwait" <=> t \in WriteWaiters)
    BY <1>0, <1>1 DEF WriteWaiters, TypeOK
<1>4. w_wait' = Cardinality(WriteWaiters') /\ w_wait' \in Nat
    <2>0. w_wait = Cardinality(WriteWaiters)
        BY DEF IInv, WaitingWritersCounted
    <2>1. CASE t \in WriteWaiters
        BY <2>0, <2>1, <1>1, <1>3, CountDown, FiniteThreads
    <2>2. CASE t \notin WriteWaiters
        BY <2>0, <2>2, <1>1, <1>3, FiniteThreads, FS_RemoveElement
    <2> QED BY <2>1, <2>2
<1>5. TypeOK'
    <2>1. pc' \in [Threads -> {"idle", "rwait", "wwait", "cancelled"} \cup LockOps \cup UnlockOps]
        BY <1>0, <1>1 DEF TypeOK
    <2>2. hold' \in [Threads -> {"none", "read", "write"}] /\ ret' \in [Threads -> Status]
        BY <1>0, <1>1 DEF TypeOK, Status
    <2> QED BY <1>0, <1>1, <1>4, <2>1, <2>2 DEF TypeOK
<1>6. HoldInv' /\ NoWriteLock' /\ TryInv'
    BY <1>0, <1>1 DEF IInv, TypeOK, HoldInv, NoWriteLock, TryInv, LockOps
<1>7. SleepInv'
    BY <1>0, <1>1, <1>2, <1>3 DEF IInv, SleepInv, ReadersSleepForWriter
<1> QED BY <1>1, <1>2, <1>4, <1>5, <1>6, <1>7 DEF IInv, ReadersCounted, WaitingWritersCounted

(* The waits of rwl_writelock. *)
LEMMA WriteWaitStep ==
    ASSUME IInv, NEW t \in Threads, WriteWait(t) \/ WriteWaitAgain(t)
    PROVE  IInv'
<1>0. TypeOK
    BY DEF IInv
<1>1. CASE WriteWait(t)
    <2>1. /\ pc[t] = "writelock"
          /\ pc' = [pc EXCEPT ![t] = "wwait"]
          /\ w_wait' = w_wait + 1
          /\ write' = write \cup {t}
          /\ UNCHANGED <<valid, live, r_active, w_active, r_wait, read, opc, oret, hold, ret, blocking>>
        BY <1>1 DEF WriteWait, At, CondWait, ownerVars
    <2>2. Readers' = Readers /\ ReadWaiters' = ReadWaiters
        BY <1>0, <2>1 DEF Readers, ReadWaiters, TypeOK
    <2>3. WriteWaiters' = WriteWaiters \cup {t} /\ t \notin WriteWaiters
        BY <1>0, <2>1 DEF WriteWaiters, TypeOK
    <2>4. w_wait' = Cardinality(WriteWaiters') /\ w_wait' \in Nat
        BY <2>1, <2>3, CountUp, FiniteThreads DEF IInv, WaitingWritersCounted
    <2>5. TypeOK'
        <3>1. pc' \in [Threads -> {"idle", "rwait", "wwait", "cancelled"} \cup LockOps \cup UnlockOps]
            BY <1>0, <2>1 DEF TypeOK
        <3>2. write' \in SUBSET Threads
            BY <1>0, <2>1 DEF TypeOK
        <3> QED BY <1>0, <2>1, <2>4, <3>1, <3>2 DEF TypeOK
    <2>6. HoldInv' /\ NoWriteLock' /\ TryInv'
        BY <1>0, <2>1 DEF IInv, TypeOK, HoldInv, NoWriteLock, TryInv, LockOps
    <2> QED BY <2>1, <2>2, <2>3, <2>4, <2>5, <2>6
            DEF IInv, ReadersCounted, WaitingWritersCounted, SleepInv, ReadersSleepForWriter
<1>2. CASE WriteWaitAgain(t)
    <2>1. /\ t \in WriteWaiters /\ write' = write \cup {t}
          /\ UNCHANGED <<valid, live, counters, read, ownerVars, pc, hold, ret, blocking>>
        BY <1>2 DEF WriteWaitAgain, CondWait, WriteWaiters
    <2>2. Readers' = Readers /\ WriteWaiters' = WriteWaiters /\ ReadWaiters' = ReadWaiters
        BY <2>1 DEF Readers, WriteWaiters, ReadWaiters
    <2>3. TypeOK'
        BY <1>0, <2>1 DEF TypeOK, counters, ownerVars
    <2>4. HoldInv' /\ NoWriteLock' /\ TryInv'
        BY <2>1 DEF IInv, HoldInv, NoWriteLock, TryInv, counters
    <2> QED BY <2>1, <2>2, <2>3, <2>4
            DEF IInv, ReadersCounted, WaitingWritersCounted, SleepInv, ReadersSleepForWriter, counters
<1> QED BY <1>1, <1>2

(* rwl_writetrylock: when nobody is active nobody holds the lock, unless   *)
(* through rwl_writelock.                                                  *)
LEMMA WriteTryLockStep == ASSUME IInv, NEW t \in Threads, WriteTryLock(t) PROVE IInv'
<1>0. TypeOK /\ pc[t] = "writetrylock" /\ hold[t] = "none"
    BY DEF IInv, HoldInv, WriteTryLock, At, LockOps
<1>1. CASE ~MayTryWrite
    <2>1. pc' = [pc EXCEPT ![t] = "idle"] /\ ret' \in [Threads -> Status]
        BY <1>0, <1>1 DEF WriteTryLock, Return, TypeOK, Status
    <2>2. UNCHANGED <<valid, live, counters, read, write, ownerVars, hold, blocking>>
        BY <1>1 DEF WriteTryLock, counters
    <2> QED BY <1>0, <2>1, <2>2, IdleStep, RWLockAssumption DEF TypeOK, LockOps
<1>2. CASE MayTryWrite
    <2>1. /\ w_active = 0 /\ r_active = 0 /\ w_active' = 1
          /\ pc' = [pc EXCEPT ![t] = "idle"]
          /\ hold' = [hold EXCEPT ![t] = "write"]
          /\ ret' = [ret EXCEPT ![t] = "0"]
          /\ UNCHANGED <<valid, live, r_active, r_wait, w_wait, read, write, opc, oret, blocking>>
        BY <1>2 DEF WriteTryLock, MayTryWrite, NobodyActive, Return, Hold, ownerVars
    <2>2. Readers' = Readers /\ ReadWaiters' = ReadWaiters /\ WriteWaiters' = WriteWaiters
        BY <1>0, <2>1 DEF Readers, ReadWaiters, WriteWaiters, TypeOK
    <2>3. TypeOK'
        <3>1. pc' \in [Threads -> {"idle", "rwait", "wwait", "cancelled"} \cup LockOps \cup UnlockOps]
            BY <1>0, <2>1 DEF TypeOK
        <3>2. hold' \in [Threads -> {"none", "read", "write"}] /\ ret' \in [Threads -> Status]
            BY <1>0, <2>1 DEF TypeOK, Status
        <3> QED BY <1>0, <2>1, <3>1, <3>2 DEF TypeOK
    <2>4. HoldInv' /\ NoWriteLock'
        BY <1>0, <2>1 DEF IInv, TypeOK, HoldInv, NoWriteLock, LockOps
    <2>5. TryInv'
        <3>1. Readers = {}
            BY <2>1, FiniteThreads, FS_EmptySet DEF IInv, ReadersCounted
        <3>2. ~blocking => \A u \in Threads : hold[u] # "write"
            BY <2>1 DEF IInv, TryInv
        <3>3. ~blocking => \A u \in Threads : hold[u] = "none"
            BY <1>0, <3>1, <3>2 DEF Readers, TypeOK
        <3> QED BY <1>0, <2>1, <3>3 DEF TryInv, TypeOK
    <2> QED BY <2>1, <2>2, <2>3, <2>4, <2>5
            DEF IInv, ReadersCounted, WaitingWritersCounted, SleepInv, ReadersSleepForWriter
<1> QED BY <1>1, <1>2

(* rwl_writeunlock: every sleeping reader is counted in r_wait, so that    *)
(* none remains asleep when w_active is cleared.                           *)
LEMMA WriteUnlockStep == ASSUME IInv, NEW t \in Threads, WriteUnlock(t) PROVE IInv'
<1>0. TypeOK /\ pc[t] = "writeunlock" /\ hold[t] = "write"
    BY DEF IInv, HoldInv, WriteUnlock, At
<1>1. /\ w_active' = 0
      /\ pc' = [pc EXCEPT ![t] = "idle"]
      /\ hold' = [hold EXCEPT ![t] = "none"]
      /\ ret' = [ret EXCEPT ![t] = "0"]
      /\ UNCHANGED <<valid, live, r_active, r_wait, w_wait, opc, oret, blocking>>
    BY DEF WriteUnlock, Return, Hold, ownerVars
<1>2. write' \subseteq write
    BY DEF WriteUnlock, WakeAfterWrite, CondSignal
<1>3. read' = {}
    <2>1. CASE r_wait > 0
        BY <2>1 DEF WriteUnlock, WakeAfterWrite, CondBroadcast
    <2>2. CASE ~(r_wait > 0)
        <3>0. Cardinality(ReadWaiters) <= r_wait /\ r_wait \in Nat
            BY <1>0 DEF IInv, SleepInv, TypeOK
        <3>1. Cardinality(ReadWaiters) = 0
            BY <2>2, <3>0, FiniteThreads
        <3>2. read = {}
            BY <3>1, FiniteThreads, FS_EmptySet DEF IInv, SleepInv
        <3> QED BY <2>2, <3>2 DEF WriteUnlock, WakeAfterWrite
    <2> QED BY <2>1, <2>2
<1>4. Readers' = Readers /\ ReadWaiters' = ReadWaiters /\ WriteWaiters' = WriteWaiters
    BY <1>0, <1>1 DEF Readers, ReadWaiters, WriteWaiters, TypeOK
<1>5. TypeOK'
    <2>1. pc' \in [Threads -> {"idle", "rwait", "wwait", "cancelled"} \cup LockOps \cup UnlockOps]
        BY <1>0, <1>1 DEF TypeOK
    <2>2. hold' \in [Threads -> {"none", "read", "write"}] /\ ret' \in [Threads -> Status]
        BY <1>0, <1>1 DEF TypeOK, Status
    <2> QED BY <1>0, <1>1, <1>2, <1>3, <2>1, <2>2 DEF TypeOK
<1>6. HoldInv' /\ NoWriteLock'
    BY <1>0, <1>1 DEF IInv, TypeOK, HoldInv, NoWriteLock, LockOps
<1>7. TryInv'
    <2>1. ~blocking => \A u \in Threads : u # t => hold[u] = "none"
        BY <1>0 DEF IInv, TryInv
    <2>2. ~blocking => \A u \in Threads : hold'[u] = "none"
        BY <1>0, <1>1, <2>1 DEF TypeOK
    <2> QED BY <1>1, <2>2 DEF TryInv
<1> QED BY <1>1, <1>2, <1>3, <1>4, <1>5, <1>6, <1>7
        DEF IInv, ReadersCounted, WaitingWritersCounted, SleepInv, ReadersSleepForWriter

(* A sleeper wakes without a reason, or is cancelled and runs its cleanup  *)
(* handler.                                                                *)
LEMMA SleeperStep ==
    ASSUME IInv, NEW t \in Threads, SpuriousWakeup(t) \/ CancelReader(t) \/ CancelWriter(t)
    PROVE  IInv'
<1> USE DEF CondLeave
<1>0. TypeOK /\ read \subseteq ReadWaiters /\ write \subseteq WriteWaiters
      /\ read \subseteq Threads /\ write \subseteq Threads
    BY DEF IInv, SleepInv, TypeOK
<1>1. CASE SpuriousWakeup(t)
    <2>1. /\ read' \subseteq read /\ write' \subseteq write
          /\ UNCHANGED <<valid, live, r_active, w_active, r_wait, w_wait, opc, oret, pc, hold, ret, blocking>>
        BY <1>1 DEF SpuriousWakeup, counters, ownerVars
    <2>2. Readers' = Readers /\ ReadWaiters' = ReadWaiters /\ WriteWaiters' = WriteWaiters
        BY <2>1 DEF Readers, ReadWaiters, WriteWaiters
    <2>3. TypeOK'
        BY <1>0, <2>1 DEF TypeOK
    <2> QED BY <2>1, <2>2, <2>3 DEF IInv, ReadersCounted, WaitingWritersCounted, HoldInv,
            NoWriteLock, TryInv, SleepInv, ReadersSleepForWriter
<1>2. CASE CancelReader(t)
    <2>1. /\ t \in read /\ pc[t] = "rwait"
          /\ read' = read \ {t}
          /\ r_wait' = r_wait - 1
          /\ pc' = [pc EXCEPT ![t] = "cancelled"]
          /\ UNCHANGED <<valid, live, r_active, w_active, w_wait, write, opc, oret, hold, ret, blocking>>
        BY <1>0, <1>2 DEF CancelReader, ReadCleanup, ownerVars, ReadWaiters
    <2>2. Readers' = Readers /\ WriteWaiters' = WriteWaiters
        BY <1>0, <2>1 DEF Readers, WriteWaiters, TypeOK
    <2>3. ReadWaiters' = ReadWaiters \ {t} /\ t \in ReadWaiters
        BY <1>0, <2>1 DEF ReadWaiters, TypeOK
    <2>4. r_wait' \in Nat /\ Cardinality(ReadWaiters') <= r_wait'
        <3>1. Cardinality(ReadWaiters') = Cardinality(ReadWaiters) - 1 /\ Cardinality(ReadWaiters) \in Nat \ {0}
            BY <2>3, CountDown, FiniteThreads
        <3>2. Cardinality(ReadWaiters) <= r_wait /\ r_wait \in Nat
            BY <1>0 DEF IInv, SleepInv, TypeOK
        <3> QED BY <2>1, <3>1, <3>2
    <2>5. TypeOK'
        <3>1. pc' \in [Threads -> {"idle", "rwait", "wwait", "cancelled"} \cup LockOps \cup UnlockOps]
            BY <1>0, <2>1 DEF TypeOK
        <3> QED BY <1>0, <2>1, <2>4, <3>1 DEF TypeOK
    <2>6. HoldInv' /\ NoWriteLock' /\ TryInv'
        BY <1>0, <2>1 DEF IInv, TypeOK, HoldInv, NoWriteLock, TryInv, LockOps
    <2> QED BY <1>0, <2>1, <2>2, <2>3, <2>4, <2>5, <2>6
            DEF IInv, ReadersCounted, WaitingWritersCounted, SleepInv, ReadersSleepForWriter
<1>3. CASE CancelWriter(t)
    <2>1. /\ t \in write /\ pc[t] = "wwait"
          /\ write' = write \ {t}
          /\ w_wait' = w_wait - 1
          /\ pc' = [pc EXCEPT ![t] = "cancelled"]
          /\ UNCHANGED <<valid, live, r_active, w_active, r_wait, read, opc, oret, hold, ret, blocking>>
        BY <1>0, <1>3 DEF CancelWriter, WriteCleanup, ownerVars, WriteWaiters
    <2>2. Readers' = Readers /\ ReadWaiters' = ReadWaiters
        BY <1>0, <2>1 DEF Readers, ReadWaiters, TypeOK
    <2>3. WriteWaiters' = WriteWaiters \ {t} /\ t \in WriteWaiters
        BY <1>0, <2>1 DEF WriteWaiters, TypeOK
    <2>4. w_wait' = Cardinality(WriteWaiters') /\ w_wait' \in Nat
        <3>1. /\ Cardinality(WriteWaiters') = Cardinality(WriteWaiters) - 1
              /\ Cardinality(WriteWaiters) \in Nat \ {0}
            BY <2>3, CountDown, FiniteThreads
        <3>2. w_wait = Cardinality(WriteWaiters)
            BY DEF IInv, WaitingWritersCounted
        <3> QED BY <2>1, <3>1, <3>2
    <2>5. TypeOK'
        <3>1. pc' \in [Threads -> {"idle", "rwait", "wwait", "cancelled"} \cup LockOps \cup UnlockOps]
            BY <1>0, <2>1 DEF TypeOK
        <3> QED BY <1>0, <2>1, <2>4, <3>1 DEF TypeOK
    <2>6. HoldInv' /\ NoWriteLock' /\ TryInv'
        BY <1>0, <2>1 DEF IInv, TypeOK, HoldInv, NoWriteLock, TryInv, LockOps
    <2> QED BY <1>0, <2>1, <2>2, <2>3, <2>4, <2>5, <2>6
            DEF IInv, ReadersCounted, WaitingWritersCounted, SleepInv, ReadersSleepForWriter
<1> QED BY <1>1, <1>2, <1>3

(* Every step preserves the invariant. *)
LEMMA NextIInv == IInv /\ [Next]_vars => IInv'
<1> SUFFICES ASSUME IInv, [Next]_vars PROVE IInv'
    OBVIOUS
<1>1. CASE Owner
    BY <1>1, OwnerStep
<1>2. ASSUME NEW t \in Threads, Thread(t) PROVE IInv'
    BY <1>2, EnterStep, ReadStep, ReadUnlockStep, WriteLockStep, WriteWaitStep, WriteTryLockStep,
       WriteUnlockStep, SleeperStep DEF Thread, Call
<1>3. CASE UNCHANGED vars
    BY <1>3 DEF vars, counters, ownerVars, IInv, TypeOK, ReadersCounted, WaitingWritersCounted,
       HoldInv, NoWriteLock, TryInv, SleepInv, ReadersSleepForWriter, Readers, ReadWaiters,
       WriteWaiters
<1> QED BY <1>1, <1>2, <1>3 DEF Next

-------------------------------------------------------------------------------
(* The invariant holds in every reachable state. *)
THEOREM RWLockInductive == Spec => []IInv
BY InitIInv, NextIInv, PTL DEF Spec

(* The counters stay natural numbers and w_active is a flag. *)
THEOREM RWLockTypeOK == Spec => []TypeOK
<1>1. IInv => TypeOK
    BY DEF IInv
<1> QED BY <1>1, RWLockInductive, PTL

(* r_active and w_wait count what they are named for. *)
THEOREM RWLockCounters == Spec => []CountersExact
<1>1. IInv => CountersExact
    BY DEF IInv, CountersExact
<1> QED BY <1>1, RWLockInductive, PTL

(* Readers sleep only while a writer is marked active. *)
THEOREM RWLockReaders == Spec => []ReadersSleepForWriter
<1>1. IInv => ReadersSleepForWriter
    BY DEF IInv, SleepInv
<1> QED BY <1>1, RWLockInductive, PTL

(* Clients that write with rwl_writetrylock only exclude each other. *)
THEOREM RWLockTryExclusion == Spec => []TryExclusion
<1>1. IInv => TryExclusion
    BY DEF IInv, TryInv, TryExclusion, Exclusion
<1> QED BY <1>1, RWLockInductive, PTL
===============================================================================
