---------------------------- MODULE ThreadPoolProofs ----------------------------
(* Proofs about ThreadPool, for every set of tasks, every number of        *)
(* workers and every size of the ring.                                     *)
EXTENDS ThreadPool, TLAPS, FiniteSetTheorems, SequenceTheorems

\* The workers that are started, as the pool counts them.
Live == {w \in Workers : wpc[w] \notin {"off", "exited"}}

\* The workers that have the mutex next, before they run anything.
Awake == {w \in Workers : HasLock(w)}

\* The pool was not told to shut down at once.
Orderly == shutdown # 2 /\ (mpc = "0" => AllCreated)

\* What is counted agrees with what it counts.
CountInv ==
    /\ Len(taken) <= MaxTaken
    /\ -Len(taken) <= count
    /\ started = Cardinality(Live)
    /\ \A w \in notify : wpc[w] = "wait"

\* How far the pool and its workers are.
PhaseInv ==
    /\ mpc \in {"create", "ready", "0"} => shutdown = 0
    /\ mpc \in {"unlock", "-1", "0"} => \A w \in Workers : wpc[w] \in {"off", "exited"}
    /\ \A w \in Workers : wpc[w] = "exited" => count = 0 /\ (shutdown = 1 \/ mpc = "0")

\* The ring holds what was accepted and not yet taken.
QueueInv ==
    /\ Len(taken) <= Len(accepted)
    /\ count = Len(accepted) - Len(taken)
    /\ \A k \in 1 .. Len(taken) : taken[k] = accepted[k]
    /\ \A n \in 1 .. count : RingContents[n] = accepted[Len(taken) + n]

\* A task is accepted once, by its own call.
OnceInv ==
    /\ \A t \in Tasks : apc[t] = "0" <=> \E k \in 1 .. Len(accepted) : accepted[k] = t
    /\ \A j, k \in 1 .. Len(accepted) : j # k => accepted[j] # accepted[k]

\* A task that was taken either runs, in one worker, or has run.
RunInv ==
    /\ \A w \in Workers : wpc[w] = "run" =>
            /\ \E k \in 1 .. Len(taken) : accepted[k] = task[w]
            /\ ran[task[w]] = 0
    /\ \A v, w \in Workers :
            (wpc[v] = "run" /\ wpc[w] = "run" /\ v # w) => task[v] # task[w]
    /\ \A t \in Tasks : ran[t] # 0 =>
            ran[t] = 1 /\ \E k \in 1 .. Len(taken) : accepted[k] = t
    /\ \A k \in 1 .. Len(taken) :
            \/ ran[accepted[k]] = 1
            \/ \E w \in Workers : wpc[w] = "run" /\ task[w] = accepted[k]

IInv ==
    /\ RingConsistent
    /\ CountInv
    /\ PhaseInv
    /\ WorkConserving
    /\ Orderly => QueueInv /\ OnceInv /\ RunInv

-------------------------------------------------------------------------------
(* A number is its own remainder when it is small enough. *)
LEMMA ModSmall ==
    ASSUME NEW N \in Nat \ {0}, NEW x \in 0 .. N - 1
    PROVE  x % N = x
OBVIOUS

(* The remainder is determined by the division. *)
LEMMA ModUnique ==
    ASSUME NEW N \in Nat \ {0}, NEW x \in Int, NEW q \in Int,
           NEW r \in 0 .. N - 1, x = N * q + r
    PROVE  x % N = r
OBVIOUS

(* Once round the ring leads back to the same slot. *)
LEMMA ModPlusN ==
    ASSUME NEW N \in Nat \ {0}, NEW x \in Int
    PROVE  (x + N) % N = x % N
<1> DEFINE q == x \div N
           r == x % N
<1>1. q \in Int /\ r \in 0 .. N - 1 /\ x = N * q + r
    OBVIOUS
<1> HIDE DEF q, r
<1>2. x + N = N * (q + 1) + r /\ q + 1 \in Int /\ x + N \in Int
    BY <1>1
<1>3. (x + N) % N = r
    BY <1>1, <1>2, ModUnique
<1>4. x % N = r
    BY <1>1, ModUnique
<1> QED BY <1>3, <1>4

(* The next slot after a remainder is the remainder of the next number. *)
LEMMA ModNext ==
    ASSUME NEW N \in Nat \ {0}, NEW x \in Int
    PROVE  ((x % N) + 1) % N = (x + 1) % N
<1> DEFINE q == x \div N
           r == x % N
<1>1. q \in Int /\ r \in 0 .. N - 1 /\ x = N * q + r
    OBVIOUS
<1> HIDE DEF q, r
<1>2. CASE r + 1 < N
    <2>1. (r + 1) % N = r + 1
        BY <1>1, <1>2, ModSmall
    <2>2. x + 1 = N * q + (r + 1) /\ r + 1 \in 0 .. N - 1 /\ x + 1 \in Int
        BY <1>1, <1>2
    <2>3. (x + 1) % N = r + 1
        BY <1>1, <2>2, ModUnique
    <2> QED BY <2>1, <2>3 DEF r
<1>3. CASE r + 1 = N
    <2>1. (r + 1) % N = 0
        <3>1. N = N * 1 + 0 /\ 0 \in 0 .. N - 1 /\ N \in Int
            OBVIOUS
        <3>2. N % N = 0
            BY <3>1, ModUnique
        <3> QED BY <3>2, <1>3
    <2>2. x + 1 = N * (q + 1) + 0 /\ q + 1 \in Int /\ 0 \in 0 .. N - 1 /\ x + 1 \in Int
        BY <1>1, <1>3
    <2>3. (x + 1) % N = 0
        BY <2>2, ModUnique
    <2> QED BY <2>1, <2>3 DEF r
<1> QED BY <1>1, <1>2, <1>3

(* Which slot a number less than twice the size of the ring denotes. *)
LEMMA ModTwice ==
    ASSUME NEW N \in Nat \ {0}, NEW x \in 0 .. N + N - 1
    PROVE  x % N = IF x < N THEN x ELSE x - N
<1>1. CASE x < N
    BY <1>1, ModSmall
<1>2. CASE N <= x
    <2>1. x - N \in 0 .. N - 1 /\ x - N \in Int
        BY <1>2
    <2>2. ((x - N) + N) % N = (x - N) % N
        BY <2>1, ModPlusN
    <2>3. (x - N) % N = x - N
        BY <2>1, ModSmall
    <2>4. (x - N) + N = x
        OBVIOUS
    <2> QED BY <1>2, <2>2, <2>3, <2>4
<1> QED BY <1>1, <1>2

(* How a sequence is recognised as another with one element more or less. *)
LEMMA AppendIs ==
    ASSUME NEW S, NEW s \in Seq(S), NEW e \in S, NEW r \in Seq(S), Len(r) = Len(s) + 1,
           \A n \in 1 .. Len(s) : r[n] = s[n], r[Len(s) + 1] = e
    PROVE  r = Append(s, e)
BY SeqEqual, AppendProperties

(* The same for its tail. *)
LEMMA TailIs ==
    ASSUME NEW S, NEW s \in Seq(S), s # <<>>, NEW r \in Seq(S), Len(r) = Len(s) - 1,
           \A n \in 1 .. Len(s) - 1 : r[n] = s[n + 1]
    PROVE  r = Tail(s)
BY SeqEqual, HeadTailProperties

-------------------------------------------------------------------------------
(* Sets of workers are finite, and a larger one has no fewer members. *)
LEMMA WorkerSets ==
    ASSUME NEW T \in SUBSET Workers, NEW S \in SUBSET T
    PROVE  /\ IsFiniteSet(S) /\ IsFiniteSet(T)
           /\ Cardinality(S) \in Nat /\ Cardinality(T) \in Nat
           /\ Cardinality(S) <= Cardinality(T)
<1>1. IsFiniteSet(T)
    BY ThreadPoolAssumption, FS_Subset
<1> QED BY <1>1, FS_Subset, FS_CardinalityType

(* One more worker is counted once. *)
LEMMA OneMore ==
    ASSUME NEW S \in SUBSET Workers, NEW w \in Workers, w \notin S
    PROVE  Cardinality(S \cup {w}) = Cardinality(S) + 1
<1>1. IsFiniteSet(S)
    BY WorkerSets
<1> QED BY <1>1, FS_AddElement

(* What an inductive state says of the types and the counters. *)
LEMMA Types ==
    ASSUME IInv
    PROVE  /\ task_queue_size \in Nat /\ 0 < task_queue_size
           /\ TypeOK
           /\ count \in Int /\ count <= task_queue_size
           /\ Len(taken) \in Nat /\ Len(accepted) \in Nat
           /\ head \in 0 .. task_queue_size - 1
           /\ tail \in 0 .. task_queue_size - 1
           /\ tail = (head + count) % task_queue_size
           /\ Orderly => count >= 0 /\ count = Len(accepted) - Len(taken)
           /\ WorkConserving <=> (notify # {} => count <= Cardinality(Awake))
<1>1. TypeOK /\ tail = (head + count) % task_queue_size
    BY DEF IInv, RingConsistent
<1>2. task_queue_size \in Nat /\ 0 < task_queue_size /\ MaxTaken \in Nat
    BY ThreadPoolAssumption
<1>3. count \in -MaxTaken .. task_queue_size
    BY <1>1 DEF TypeOK
<1>4. count \in Int /\ count <= task_queue_size
    BY <1>2, <1>3
<1>5. Len(taken) \in Nat /\ Len(accepted) \in Nat
    BY <1>1 DEF TypeOK
<1>6. head \in 0 .. task_queue_size - 1 /\ tail \in 0 .. task_queue_size - 1
    BY <1>1 DEF TypeOK, Slots
<1>7. Orderly => count >= 0 /\ count = Len(accepted) - Len(taken)
    BY <1>4, <1>5 DEF IInv, QueueInv
<1> QED BY <1>1, <1>2, <1>4, <1>5, <1>6, <1>7 DEF WorkConserving, Awake

(* The initial state satisfies the invariant. *)
LEMMA InitIInv == Init => IInv
<1> SUFFICES ASSUME Init PROVE IInv
    OBVIOUS
<1> USE DEF Init
<1>0. task_queue_size \in Nat /\ 0 < task_queue_size /\ MaxTaken \in Nat
    BY ThreadPoolAssumption
<1>1. Cardinality({}) = 0
    BY FS_EmptySet
<1>2. Live = {}
    BY DEF Live
<1>3. Cardinality(Workers) \in Nat
    BY ThreadPoolAssumption, FS_CardinalityType
<1>4. TypeOK
    BY <1>0, <1>3 DEF TypeOK, Slots
<1>5. (head + count) % task_queue_size = 0
    BY <1>0, ModSmall
<1>6. RingConsistent
    BY <1>4, <1>5 DEF RingConsistent
<1>7. CountInv
    BY <1>0, <1>1, <1>2 DEF CountInv
<1>8. PhaseInv
    BY DEF PhaseInv
<1>9. WorkConserving
    BY DEF WorkConserving
<1>10. QueueInv /\ OnceInv /\ RunInv
    BY DEF QueueInv, OnceInv, RunInv
<1> QED BY <1>6, <1>7, <1>8, <1>9, <1>10 DEF IInv

(* A step that leaves the ring and the histories alone leaves the queue    *)
(* alone, and the record of what was accepted.                             *)
LEMMA SameQueue ==
    ASSUME QueueInv, OnceInv, UNCHANGED <<ringVars, taken, accepted, apc>>
    PROVE  QueueInv' /\ OnceInv'
<1>1. RingContents' = RingContents
    BY DEF RingContents, ringVars
<1>2. QueueInv'
    BY <1>1 DEF QueueInv, ringVars
<1>3. OnceInv'
    BY DEF OnceInv
<1> QED BY <1>2, <1>3

(* So does one that, besides, starts and ends no task. *)
LEMMA SameRuns ==
    ASSUME RunInv, UNCHANGED <<taken, accepted, ran>>,
           \A w \in Workers : wpc'[w] = "run" <=> wpc[w] = "run",
           \A w \in Workers : wpc[w] = "run" => task'[w] = task[w]
    PROVE  RunInv'
BY DEF RunInv

(* A worker is created. *)
LEMMA CreateWorkerIInv == IInv /\ CreateWorker => IInv'
<1> SUFFICES ASSUME IInv, CreateWorker PROVE IInv'
    OBVIOUS
<1> USE DEF CreateWorker, ringVars
<1>0. TypeOK
    BY Types
<1>1. PICK w \in Workers : wpc[w] = "off" /\ wpc' = [wpc EXCEPT ![w] = "top"]
    OBVIOUS
<1>2. Live' = Live \cup {w} /\ w \notin Live /\ Live \in SUBSET Workers
    BY <1>0, <1>1 DEF Live, TypeOK
<1>3. Cardinality(Live') = Cardinality(Live) + 1
    BY <1>2, OneMore
<1>4. Cardinality(Live') \in Nat /\ Cardinality(Live') <= Cardinality(Workers)
    BY WorkerSets DEF Live
<1>5. started' = Cardinality(Live')
    BY <1>3 DEF IInv, CountInv
<1>6. Cardinality(Workers) \in Nat
    BY WorkerSets
<1>7. started' \in 0 .. Cardinality(Workers)
    BY <1>4, <1>5, <1>6
<1>8. TypeOK'
    BY <1>0, <1>1, <1>7 DEF TypeOK
<1>9. RingConsistent'
    BY <1>8 DEF IInv, RingConsistent
<1>10. CountInv'
    BY <1>0, <1>1, <1>5 DEF IInv, CountInv, TypeOK
<1>11. PhaseInv'
    BY <1>0, <1>1 DEF IInv, PhaseInv, TypeOK
<1>12. Awake \in SUBSET Awake' /\ Awake' \in SUBSET Workers
    BY <1>0, <1>1 DEF Awake, HasLock, TypeOK
<1>13. Cardinality(Awake) \in Nat /\ Cardinality(Awake') \in Nat /\ Cardinality(Awake) <= Cardinality(Awake')
    BY <1>12, WorkerSets
<1>14. WorkConserving'
    BY <1>13, Types DEF IInv, WorkConserving, Awake
<1>15. Orderly => QueueInv' /\ OnceInv'
    BY SameQueue DEF IInv
<1>16. Orderly => RunInv'
    BY <1>0, <1>1, SameRuns DEF IInv, TypeOK
<1>17. Orderly' => Orderly
    BY DEF Orderly
<1> QED BY <1>9, <1>10, <1>11, <1>14, <1>15, <1>16, <1>17 DEF IInv

(* The pool is told to shut down. *)
LEMMA BeginShutdownIInv ==
    ASSUME NEW mode \in {1, 2}
    PROVE  IInv /\ mpc \in {"create", "ready"} /\ BeginShutdown(mode) => IInv'
<1> SUFFICES ASSUME IInv, mpc \in {"create", "ready"}, BeginShutdown(mode) PROVE IInv'
    OBVIOUS
<1> USE DEF BeginShutdown, ringVars, workerVars, WakeWorkers, CondBroadcast
<1>0. TypeOK
    BY Types
<1>1. TypeOK'
    BY <1>0 DEF TypeOK
<1>2. RingConsistent'
    BY <1>1 DEF IInv, RingConsistent
<1>3. CountInv'
    BY DEF IInv, CountInv, Live
<1>4. PhaseInv'
    BY DEF IInv, PhaseInv
<1>5. WorkConserving'
    BY DEF WorkConserving
<1>6. Orderly
    BY DEF IInv, PhaseInv, Orderly
<1>7. QueueInv' /\ OnceInv'
    BY <1>6, SameQueue DEF IInv
<1>8. RunInv'
    BY <1>6, SameRuns DEF IInv
<1> QED BY <1>2, <1>3, <1>4, <1>5, <1>7, <1>8 DEF IInv

(* The workers are joined. *)
LEMMA JoinWorkersIInv == IInv /\ JoinWorkers => IInv'
<1> SUFFICES ASSUME IInv, JoinWorkers PROVE IInv'
    OBVIOUS
<1> USE DEF JoinWorkers, ringVars, workerVars
<1>0. TypeOK
    BY Types
<1>1. TypeOK'
    BY <1>0 DEF TypeOK
<1>2. RingConsistent'
    BY <1>1 DEF IInv, RingConsistent
<1>3. CountInv'
    BY DEF IInv, CountInv, Live
<1>4. PhaseInv'
    BY DEF IInv, PhaseInv
<1>5. WorkConserving'
    BY DEF IInv, WorkConserving, HasLock
<1>6. Orderly' => Orderly
    BY DEF Orderly
<1>7. Orderly => QueueInv' /\ OnceInv'
    BY SameQueue DEF IInv
<1>8. Orderly => RunInv'
    BY SameRuns DEF IInv
<1> QED BY <1>2, <1>3, <1>4, <1>5, <1>6, <1>7, <1>8 DEF IInv

(* The pool is cleaned up. *)
LEMMA CleanUpIInv ==
    ASSUME IInv, mpc \in {"unlock", "-1"}, mpc' = "0", started' = 0, shutdown' = 0,
           UNCHANGED <<ringVars, notify, apc, workerVars, accepted>>
    PROVE  IInv'
<1> USE DEF ringVars, workerVars
<1>0. TypeOK
    BY Types
<1>1. Cardinality(Workers) \in Nat
    BY WorkerSets
<1>2. TypeOK'
    BY <1>0, <1>1 DEF TypeOK
<1>3. RingConsistent'
    BY <1>2 DEF IInv, RingConsistent
<1>4. \A w \in Workers : wpc[w] \in {"off", "exited"}
    BY DEF IInv, PhaseInv
<1>5. Live' = {}
    BY <1>4 DEF Live
<1>6. Cardinality(Live') = 0
    BY <1>5, FS_EmptySet
<1>7. CountInv'
    BY <1>6 DEF IInv, CountInv
<1>8. PhaseInv'
    BY <1>4 DEF IInv, PhaseInv
<1>9. WorkConserving'
    BY DEF IInv, WorkConserving, HasLock
<1>10. ASSUME Orderly' PROVE Orderly
    <2>1. PICK w \in Workers : TRUE
        BY ThreadPoolAssumption
    <2>2. AllCreated
        BY <1>10 DEF Orderly, AllCreated
    <2>3. wpc[w] = "exited"
        BY <1>4, <2>1, <2>2 DEF AllCreated
    <2>4. shutdown = 1
        BY <2>1, <2>3 DEF IInv, PhaseInv
    <2> QED BY <2>4 DEF Orderly
<1>11. Orderly => QueueInv' /\ OnceInv'
    BY SameQueue DEF IInv
<1>12. Orderly => RunInv'
    BY SameRuns DEF IInv
<1> QED BY <1>3, <1>7, <1>8, <1>9, <1>10, <1>11, <1>12 DEF IInv

(* The second unlock succeeds or fails. *)
LEMMA UnlockAgainIInv == IInv /\ UnlockAgain => IInv'
<1> SUFFICES ASSUME IInv, UnlockAgain PROVE IInv'
    OBVIOUS
<1>1. CASE mpc' = "0"
    BY <1>1, CleanUpIInv DEF UnlockAgain
<1>2. CASE mpc' = "-1" /\ UNCHANGED <<started, shutdown>>
    <2> USE DEF UnlockAgain, ringVars, workerVars
    <2>0. TypeOK
        BY Types
    <2>1. TypeOK'
        BY <1>2, <2>0 DEF TypeOK
    <2>2. RingConsistent'
        BY <1>2, <2>1 DEF IInv, RingConsistent
    <2>3. CountInv'
        BY <1>2 DEF IInv, CountInv, Live
    <2>4. PhaseInv'
        BY <1>2 DEF IInv, PhaseInv
    <2>5. WorkConserving'
        BY <1>2 DEF IInv, WorkConserving, HasLock
    <2>6. Orderly' => Orderly
        BY <1>2 DEF Orderly
    <2>7. Orderly => QueueInv' /\ OnceInv'
        BY SameQueue DEF IInv
    <2>8. Orderly => RunInv'
        BY SameRuns DEF IInv
    <2> QED BY <2>2, <2>3, <2>4, <2>5, <2>6, <2>7, <2>8 DEF IInv
<1> QED BY <1>1, <1>2 DEF UnlockAgain

(* thread_pool_destroy is called again. *)
LEMMA DestroyAgainIInv == IInv /\ DestroyAgain => IInv'
BY CleanUpIInv DEF DestroyAgain

(* A worker goes to sleep. *)
LEMMA SleepIInv == ASSUME NEW w \in Workers PROVE IInv /\ Sleep(w) => IInv'
<1> SUFFICES ASSUME IInv, Sleep(w) PROVE IInv'
    OBVIOUS
<1> USE DEF Sleep, ringVars, CondWait
<1>0. TypeOK /\ wpc[w] \in {"top", "wait"}
    BY Types DEF HasLock
<1>1. TypeOK'
    BY <1>0 DEF TypeOK
<1>2. RingConsistent'
    BY <1>1 DEF IInv, RingConsistent
<1>3. Live' = Live
    BY <1>0 DEF Live, TypeOK
<1>4. CountInv'
    BY <1>0, <1>3 DEF IInv, CountInv, TypeOK
<1>5. PhaseInv'
    BY <1>0 DEF IInv, PhaseInv, TypeOK
<1>6. WorkConserving'
    <2>1. count' = 0
        BY DEF Idle
    <2>2. Awake' \in SUBSET Workers
        BY DEF Awake
    <2>3. Cardinality(Awake') \in Nat
        BY <2>2, WorkerSets
    <2> QED BY <2>1, <2>3 DEF WorkConserving, Awake
<1>7. Orderly' => Orderly
    BY <1>0 DEF Orderly, AllCreated, TypeOK
<1>8. Orderly => QueueInv' /\ OnceInv'
    BY SameQueue DEF IInv
<1>9. Orderly => RunInv'
    BY <1>0, SameRuns DEF IInv, TypeOK
<1> QED BY <1>2, <1>4, <1>5, <1>6, <1>7, <1>8, <1>9 DEF IInv

(* A worker ends. *)
LEMMA ExitIInv == ASSUME NEW w \in Workers PROVE IInv /\ Exit(w) => IInv'
<1> SUFFICES ASSUME IInv, Exit(w) PROVE IInv'
    OBVIOUS
<1> USE DEF Exit, ringVars
<1>0. TypeOK /\ wpc[w] \in {"top", "wait"} /\ w \notin notify
    BY Types DEF HasLock, IInv, CountInv
<1>1. count = 0 /\ shutdown = 1
    BY DEF MayExit
<1>2. Live = Live' \cup {w} /\ w \notin Live' /\ Live' \in SUBSET Workers
    BY <1>0 DEF Live, TypeOK
<1>3. Cardinality(Live) = Cardinality(Live') + 1
    BY <1>2, OneMore
<1>4. Cardinality(Live') \in Nat /\ Cardinality(Live') <= Cardinality(Workers) /\ Cardinality(Workers) \in Nat
    BY <1>2, WorkerSets
<1>5. started' = Cardinality(Live')
    BY <1>3, <1>4 DEF IInv, CountInv
<1>6. TypeOK'
    BY <1>0, <1>4, <1>5 DEF TypeOK
<1>7. RingConsistent'
    BY <1>6 DEF IInv, RingConsistent
<1>8. CountInv'
    BY <1>0, <1>5 DEF IInv, CountInv, TypeOK
<1>9. PhaseInv'
    BY <1>0, <1>1 DEF IInv, PhaseInv, TypeOK
<1>10. WorkConserving'
    <2>1. Awake' \in SUBSET Workers
        BY DEF Awake
    <2>2. Cardinality(Awake') \in Nat
        BY <2>1, WorkerSets
    <2> QED BY <1>1, <2>2 DEF WorkConserving, Awake
<1>11. Orderly' => Orderly
    BY <1>0 DEF Orderly, AllCreated, TypeOK
<1>12. Orderly => QueueInv' /\ OnceInv'
    BY SameQueue DEF IInv
<1>13. Orderly => RunInv'
    BY <1>0, SameRuns DEF IInv, TypeOK
<1> QED BY <1>7, <1>8, <1>9, <1>10, <1>11, <1>12, <1>13 DEF IInv

(* A sleeper wakes for no reason. *)
LEMMA SpuriousWakeupIInv == ASSUME NEW w \in Workers PROVE IInv /\ SpuriousWakeup(w) => IInv'
<1> SUFFICES ASSUME IInv, SpuriousWakeup(w) PROVE IInv'
    OBVIOUS
<1> USE DEF SpuriousWakeup, ringVars, workerVars, CondLeave
<1>0. TypeOK
    BY Types
<1>1. TypeOK'
    BY <1>0 DEF TypeOK
<1>2. RingConsistent'
    BY <1>1 DEF IInv, RingConsistent
<1>3. CountInv'
    BY DEF IInv, CountInv, Live
<1>4. PhaseInv'
    BY DEF IInv, PhaseInv
<1>5. Awake \in SUBSET Awake' /\ Awake' \in SUBSET Workers
    BY DEF Awake, HasLock
<1>6. Cardinality(Awake) \in Nat /\ Cardinality(Awake') \in Nat /\ Cardinality(Awake) <= Cardinality(Awake')
    BY <1>5, WorkerSets
<1>7. WorkConserving'
    BY <1>6, Types DEF IInv, WorkConserving, Awake
<1>8. Orderly' => Orderly
    BY DEF Orderly, AllCreated
<1>9. Orderly => QueueInv' /\ OnceInv'
    BY SameQueue DEF IInv
<1>10. Orderly => RunInv'
    BY SameRuns DEF IInv
<1> QED BY <1>2, <1>3, <1>4, <1>7, <1>8, <1>9, <1>10 DEF IInv

(* A worker returns from the function of its task. *)
LEMMA RunTaskIInv == ASSUME NEW w \in Workers PROVE IInv /\ RunTask(w) => IInv'
<1> SUFFICES ASSUME IInv, RunTask(w) PROVE IInv'
    OBVIOUS
<1> USE DEF RunTask, ringVars
<1>0. TypeOK
    BY Types
<1>1. wpc' \in [Workers -> {"off", "top", "wait", "run", "exited", "crashed"}]
      /\ ran' \in [Tasks -> Nat]
      /\ wpc'[w] \in {"top", "crashed"}
      /\ \A v \in Workers \ {w} : wpc'[v] = wpc[v]
    <2>1. CASE task[w] = NULL
        BY <1>0, <2>1 DEF TypeOK
    <2>2. CASE task[w] # NULL
        <3>1. task[w] \in Tasks
            BY <1>0, <2>2 DEF TypeOK
        <3>2. ran \in [Tasks -> Nat] /\ ran' = [ran EXCEPT ![task[w]] = ran[task[w]] + 1]
            BY <1>0, <2>2 DEF TypeOK
        <3>3. ran' \in [Tasks -> Nat]
            BY <3>1, <3>2
        <3>4. wpc' = [wpc EXCEPT ![w] = "top"]
            BY <2>2
        <3> QED BY <1>0, <3>3, <3>4 DEF TypeOK
    <2> QED BY <2>1, <2>2
<1>2. TypeOK'
    BY <1>0, <1>1 DEF TypeOK
<1>3. RingConsistent'
    BY <1>2 DEF IInv, RingConsistent
<1>4. Live' = Live
    BY <1>0, <1>1 DEF Live
<1>5. CountInv'
    BY <1>0, <1>1, <1>4 DEF IInv, CountInv, TypeOK
<1>6. PhaseInv'
    BY <1>0, <1>1 DEF IInv, PhaseInv, TypeOK
<1>7. Awake \in SUBSET Awake' /\ Awake' \in SUBSET Workers
    BY <1>0, <1>1 DEF Awake, HasLock
<1>8. Cardinality(Awake) \in Nat /\ Cardinality(Awake') \in Nat /\ Cardinality(Awake) <= Cardinality(Awake')
    BY <1>7, WorkerSets
<1>9. WorkConserving'
    BY <1>8, Types DEF IInv, WorkConserving, Awake
<1>10. Orderly' => Orderly
    BY <1>1 DEF Orderly, AllCreated
<1>11. Orderly => QueueInv' /\ OnceInv'
    BY SameQueue DEF IInv
<1>12. ASSUME Orderly PROVE RunInv'
    <2>1. RunInv /\ QueueInv
        BY <1>12 DEF IInv
    <2>2. PICK i \in 1 .. Len(taken) : accepted[i] = task[w]
        BY <2>1 DEF RunInv
    <2>3. Len(taken) \in Nat /\ Len(accepted) \in Nat /\ Len(taken) <= Len(accepted)
        BY <2>1, Types DEF QueueInv
    <2>4. accepted \in Seq(Tasks)
        BY <1>0 DEF TypeOK
    <2>5. \A k \in 1 .. Len(taken) : accepted[k] \in Tasks
        BY <2>3, <2>4
    <2>6. task[w] \in Tasks /\ task[w] # NULL
        BY <2>2, <2>5, ThreadPoolAssumption
    <2>7. ran' = [ran EXCEPT ![task[w]] = @ + 1] /\ ran[task[w]] = 0
        BY <2>1, <2>6 DEF RunInv
    <2>8. ran'[task[w]] = 1 /\ \A t \in Tasks \ {task[w]} : ran'[t] = ran[t]
        BY <1>0, <2>6, <2>7 DEF TypeOK
    <2>9. \A v \in Workers : wpc'[v] = "run" =>
              /\ v # w /\ wpc[v] = "run"
              /\ \E k \in 1 .. Len(taken) : accepted[k] = task[v]
              /\ task[v] # task[w]
              /\ ran[task[v]] = 0
        BY <1>1, <2>1 DEF RunInv
    <2>10. \A v \in Workers : wpc'[v] = "run" =>
              /\ \E k \in 1 .. Len(taken) : accepted[k] = task[v]
              /\ ran'[task[v]] = 0
        BY <2>5, <2>8, <2>9
    <2>11. \A u, v \in Workers :
              (wpc'[u] = "run" /\ wpc'[v] = "run" /\ u # v) => task[u] # task[v]
        BY <2>1, <2>9 DEF RunInv
    <2>12. \A t \in Tasks : ran'[t] # 0 =>
              ran'[t] = 1 /\ \E k \in 1 .. Len(taken) : accepted[k] = t
        BY <2>1, <2>2, <2>8 DEF RunInv
    <2>13. ASSUME NEW k \in 1 .. Len(taken)
           PROVE  \/ ran'[accepted[k]] = 1
                  \/ \E v \in Workers : wpc'[v] = "run" /\ task[v] = accepted[k]
        <3>1. CASE accepted[k] = task[w]
            BY <2>8, <3>1
        <3>2. CASE accepted[k] # task[w]
            BY <1>1, <2>1, <2>5, <2>8, <3>2 DEF RunInv
        <3> QED BY <3>1, <3>2
    <2> QED BY <2>10, <2>11, <2>12, <2>13 DEF RunInv
<1> QED BY <1>3, <1>5, <1>6, <1>9, <1>10, <1>11, <1>12 DEF IInv

-------------------------------------------------------------------------------
(* What the ring represents is a sequence as long as count says. *)
LEMMA Contents ==
    ASSUME IInv, count >= 0
    PROVE  /\ RingContents \in Seq(Tasks \cup {NULL})
           /\ Len(RingContents) = count
           /\ \A n \in 1 .. count : RingContents[n] = ring[(head + n - 1) % task_queue_size]
<1>1. count \in Nat /\ task_queue_size \in Nat \ {0} /\ head \in Int
    BY Types
<1>2. ring \in [0 .. task_queue_size - 1 -> Tasks \cup {NULL}]
    BY Types DEF TypeOK, Slots
<1>3. ASSUME NEW n \in 1 .. count PROVE ring[(head + n - 1) % task_queue_size] \in Tasks \cup {NULL}
    <2>1. head + n - 1 \in Int
        BY <1>1
    <2>2. (head + n - 1) % task_queue_size \in 0 .. task_queue_size - 1
        BY <1>1, <2>1
    <2> QED BY <1>2, <2>2
<1>4. RingContents \in [1 .. count -> Tasks \cup {NULL}]
    BY <1>3 DEF RingContents
<1>5. RingContents \in Seq(Tasks \cup {NULL}) /\ Len(RingContents) = count
    BY <1>1, <1>4
<1>6. \A n \in 1 .. count : RingContents[n] = ring[(head + n - 1) % task_queue_size]
    BY DEF RingContents
<1> QED BY <1>5, <1>6

(* The slot at tail is the next free one: a task stored there is appended  *)
(* to what the ring represents, and no other slot in use is overwritten.   *)
LEMMA PutContents ==
    ASSUME IInv, NEW t \in Tasks, 0 <= count, count < task_queue_size,
           ring' = [ring EXCEPT ![tail] = t], head' = head, count' = count + 1
    PROVE  RingContents' = Append(RingContents, t)
<1> DEFINE N == task_queue_size
<1>1. count \in Nat /\ N \in Nat \ {0} /\ head \in 0 .. N - 1 /\ tail \in 0 .. N - 1
      /\ tail = (head + count) % N /\ ring \in [0 .. N - 1 -> Tasks \cup {NULL}]
    BY Types DEF TypeOK, Slots
<1>2. tail = IF head + count < N THEN head + count ELSE head + count - N
    <2> DEFINE x == head + count
    <2>1. x \in 0 .. N + N - 1
        BY <1>1
    <2> HIDE DEF x
    <2>2. x % N = IF x < N THEN x ELSE x - N
        BY <1>1, <2>1, ModTwice
    <2> QED BY <1>1, <2>2 DEF x
<1>3. ASSUME NEW n \in 1 .. count
      PROVE  ring'[(head + n - 1) % N] = RingContents[n]
    <2>1. head + n - 1 \in 0 .. N + N - 1
        BY <1>1
    <2> DEFINE x == head + n - 1
    <2> HIDE DEF x
    <2>2. x % N = IF x < N THEN x ELSE x - N
        BY <1>1, <2>1, ModTwice DEF x
    <2>3. x % N \in 0 .. N - 1 /\ x % N # tail
        BY <1>1, <1>2, <2>1, <2>2 DEF x
    <2>4. ring'[x % N] = ring[x % N]
        BY <1>1, <2>3
    <2>5. RingContents[n] = ring[x % N]
        BY Contents DEF x
    <2> QED BY <2>4, <2>5 DEF x
<1>4. ring'[(head + (count + 1) - 1) % N] = t
    <2>1. head + (count + 1) - 1 = head + count
        BY <1>1
    <2> QED BY <1>1, <2>1
<1>5. RingContents' = [n \in 1 .. count + 1 |-> ring'[(head + n - 1) % N]]
    BY DEF RingContents
<1>6. RingContents \in Seq(Tasks \cup {NULL}) /\ Len(RingContents) = count
    BY Contents
<1>7. \A n \in 1 .. count + 1 : ring'[(head + n - 1) % N] \in Tasks \cup {NULL}
    <2>1. \A n \in 1 .. count : RingContents[n] \in Tasks \cup {NULL}
        BY <1>6
    <2>2. \A n \in 1 .. count + 1 : n \in 1 .. count \/ n = count + 1
        BY <1>1
    <2> QED BY <1>3, <1>4, <2>1, <2>2
<1>8. RingContents' \in [1 .. count + 1 -> Tasks \cup {NULL}]
    BY <1>5, <1>7
<1>9. RingContents' \in Seq(Tasks \cup {NULL}) /\ Len(RingContents') = Len(RingContents) + 1
    BY <1>1, <1>6, <1>8
<1>10. \A n \in 1 .. Len(RingContents) : RingContents'[n] = RingContents[n]
    BY <1>1, <1>3, <1>5, <1>6
<1>11. RingContents'[Len(RingContents) + 1] = t
    BY <1>1, <1>4, <1>5, <1>6
<1> QED BY <1>6, <1>9, <1>10, <1>11, AppendIs

(* The slot at head is the oldest one in use: stepping over it removes the *)
(* first task of what the ring represents.                                 *)
LEMMA GetContents ==
    ASSUME IInv, 0 < count,
           ring' = ring, head' = NextSlot(head), count' = count - 1
    PROVE  /\ RingContents # <<>>
           /\ RingContents[1] = ring[head]
           /\ RingContents' = Tail(RingContents)
<1> DEFINE N == task_queue_size
<1>1. count \in Nat /\ N \in Nat \ {0} /\ head \in 0 .. N - 1 /\ count <= N
    BY Types
<1>2. head' = IF head + 1 < N THEN head + 1 ELSE 0
    <2> DEFINE x == head + 1
    <2>1. x \in 0 .. N + N - 1
        BY <1>1
    <2> HIDE DEF x
    <2>2. x % N = IF x < N THEN x ELSE x - N
        BY <1>1, <2>1, ModTwice
    <2> QED BY <1>1, <2>2 DEF NextSlot, x
<1>3. RingContents \in Seq(Tasks \cup {NULL}) /\ Len(RingContents) = count
    BY <1>1, Contents
<1>4. RingContents # <<>>
    BY <1>1, <1>3
<1>5. RingContents[1] = ring[head]
    <2>1. RingContents[1] = ring[(head + 1 - 1) % N]
        BY <1>1, Contents
    <2>2. head + 1 - 1 = head /\ head % N = head
        BY <1>1, ModSmall
    <2> QED BY <2>1, <2>2
<1>6. ASSUME NEW n \in 1 .. count - 1
      PROVE  ring[(head' + n - 1) % N] = RingContents[n + 1]
    <2>1. n + 1 \in 1 .. count
        BY <1>1
    <2>2. RingContents[n + 1] = ring[(head + (n + 1) - 1) % N]
        BY <1>1, <2>1, Contents
    <2>3. head + (n + 1) - 1 = head + n /\ head + n \in 0 .. N + N - 1
        BY <1>1
    <2> DEFINE x == head + n
    <2> HIDE DEF x
    <2>4. x % N = IF x < N THEN x ELSE x - N
        BY <1>1, <2>3, ModTwice DEF x
    <2>5. head' + n - 1 \in 0 .. N + N - 1
        BY <1>1, <1>2
    <2> DEFINE y == head' + n - 1
    <2> HIDE DEF y
    <2>6. y % N = IF y < N THEN y ELSE y - N
        BY <1>1, <2>5, ModTwice DEF y
    <2>7. y % N = x % N
        BY <1>1, <1>2, <2>4, <2>6 DEF x, y
    <2> QED BY <2>2, <2>3, <2>7 DEF x, y
<1>7. RingContents' = [n \in 1 .. count - 1 |-> ring[(head' + n - 1) % N]]
    BY DEF RingContents
<1>8. RingContents' \in [1 .. count - 1 -> Tasks \cup {NULL}]
    <2>1. \A n \in 1 .. count - 1 : n + 1 \in 1 .. count
        BY <1>1
    <2>2. \A n \in 1 .. count - 1 : RingContents[n + 1] \in Tasks \cup {NULL}
        BY <1>3, <2>1, ElementOfSeq
    <2> QED BY <1>6, <1>7, <2>2
<1>9. RingContents' \in Seq(Tasks \cup {NULL}) /\ Len(RingContents') = Len(RingContents) - 1
    BY <1>1, <1>3, <1>8
<1>10. \A n \in 1 .. Len(RingContents) - 1 : RingContents'[n] = RingContents[n + 1]
    BY <1>3, <1>6, <1>7
<1> QED BY <1>3, <1>4, <1>5, <1>9, <1>10, TailIs

(* thread_pool_add refuses a task. *)
LEMMA RefuseIInv == ASSUME NEW t \in Tasks PROVE IInv /\ Add(t) /\ (Full \/ shutdown # 0) => IInv'
<1> SUFFICES ASSUME IInv, Add(t), Full \/ shutdown # 0 PROVE IInv'
    OBVIOUS
<1> USE DEF Add, ringVars, workerVars
<1>0. TypeOK
    BY Types
<1>1. TypeOK'
    BY <1>0 DEF TypeOK
<1>2. RingConsistent'
    BY <1>1 DEF IInv, RingConsistent
<1>3. CountInv'
    BY DEF IInv, CountInv, Live
<1>4. PhaseInv'
    BY DEF IInv, PhaseInv
<1>5. WorkConserving'
    BY DEF IInv, WorkConserving, HasLock
<1>6. Orderly' => Orderly
    BY DEF Orderly, AllCreated
<1>7. RingContents' = RingContents
    BY DEF RingContents
<1>8. Orderly => QueueInv'
    BY <1>7 DEF IInv, QueueInv
<1>9. Orderly => OnceInv'
    <2>1. apc[t] # "0" /\ apc'[t] # "0" /\ \A s \in Tasks \ {t} : apc'[s] = apc[s]
        BY <1>0 DEF TypeOK
    <2> QED BY <2>1 DEF IInv, OnceInv
<1>10. Orderly => RunInv'
    BY SameRuns DEF IInv
<1> QED BY <1>2, <1>3, <1>4, <1>5, <1>6, <1>8, <1>9, <1>10 DEF IInv

(* When thread_pool_add accepts a task the pool is in order, there is room *)
(* and no worker has ended.                                                *)
LEMMA AcceptFacts ==
    ASSUME NEW t \in Tasks, IInv, Add(t), ~Full, shutdown = 0
    PROVE  /\ Orderly /\ 0 <= count /\ count < task_queue_size
           /\ \A w \in Workers : wpc[w] # "exited"
           /\ apc[t] = "idle"
           /\ ring' = [ring EXCEPT ![tail] = t] /\ head' = head
           /\ tail' = NextSlot(tail) /\ count' = count + 1
           /\ accepted' = Append(accepted, t) /\ apc' = [apc EXCEPT ![t] = "0"]
           /\ UNCHANGED <<shutdown, started, mpc, wpc, task, taken, ran>>
           /\ RingContents' = Append(RingContents, t)
<1>1. Orderly /\ mpc # "0"
    BY DEF Add, Orderly
<1>2. 0 <= count /\ count < task_queue_size
    BY <1>1, Types DEF Full
<1>3. \A w \in Workers : wpc[w] # "exited"
    BY <1>1 DEF IInv, PhaseInv
<1>4. /\ apc[t] = "idle"
      /\ ring' = [ring EXCEPT ![tail] = t] /\ head' = head
      /\ tail' = NextSlot(tail) /\ count' = count + 1
      /\ accepted' = Append(accepted, t) /\ apc' = [apc EXCEPT ![t] = "0"]
      /\ UNCHANGED <<shutdown, started, mpc, wpc, task, taken, ran>>
    BY DEF Add, workerVars
<1>5. RingContents' = Append(RingContents, t)
    BY <1>2, <1>4, PutContents
<1> QED BY <1>1, <1>2, <1>3, <1>4, <1>5

(* thread_pool_add accepts a task. *)
LEMMA AcceptIInv == ASSUME NEW t \in Tasks PROVE IInv /\ Add(t) /\ ~(Full \/ shutdown # 0) => IInv'
<1> SUFFICES ASSUME IInv, Add(t), ~Full, shutdown = 0 PROVE IInv'
    OBVIOUS
<1> DEFINE N == task_queue_size
<1>0. TypeOK /\ Orderly /\ 0 <= count /\ count < N /\ count \in Nat /\ N \in Nat \ {0}
    BY Types, AcceptFacts
<1>1. /\ apc[t] = "idle"
      /\ ring' = [ring EXCEPT ![tail] = t] /\ head' = head
      /\ tail' = NextSlot(tail) /\ count' = count + 1
      /\ accepted' = Append(accepted, t) /\ apc' = [apc EXCEPT ![t] = "0"]
      /\ UNCHANGED <<shutdown, started, mpc, wpc, task, taken, ran>>
      /\ RingContents' = Append(RingContents, t)
    BY AcceptFacts
<1>2. notify' \in CondSignal(notify)
    BY DEF Add, SignalWorker
<1>3. \/ notify = {} /\ notify' = {}
      \/ \E v \in notify : notify' = notify \ {v}
    BY <1>2 DEF CondSignal
<1>4. tail' \in Slots /\ tail' = (head' + count') % N
    <2> DEFINE x == head + count
    <2>1. x \in Int /\ tail = x % N /\ head \in Int
        BY <1>0, Types
    <2>2. tail' = (x + 1) % N
        <3> HIDE DEF x
        <3> QED BY <1>0, <1>1, <2>1, ModNext DEF NextSlot
    <2>3. head' + count' = x + 1 /\ x + 1 \in Int
        BY <1>0, <1>1, <2>1
    <2>4. (x + 1) % N \in 0 .. N - 1
        BY <1>0, <2>3
    <2> QED BY <2>2, <2>3, <2>4 DEF Slots
<1>5. count' \in -MaxTaken .. N
    BY <1>0, <1>1, ThreadPoolAssumption
<1>6. TypeOK'
    BY <1>0, <1>1, <1>3, <1>4, <1>5 DEF TypeOK
<1>7. RingConsistent'
    BY <1>4, <1>6 DEF RingConsistent
<1>8. CountInv'
    <2>1. Live' = Live
        BY <1>1 DEF Live
    <2>2. Len(taken) \in Nat /\ count \in Int
        BY Types
    <2> QED BY <1>1, <1>3, <2>1, <2>2 DEF IInv, CountInv
<1>9. PhaseInv'
    BY <1>1, AcceptFacts DEF IInv, PhaseInv
<1>10. WorkConserving'
    <2>1. CASE notify' = {}
        BY <2>1 DEF WorkConserving
    <2>2. ASSUME NEW v \in notify, notify' = notify \ {v} PROVE WorkConserving'
        <3>1. v \in Workers /\ wpc[v] = "wait"
            BY <1>0 DEF IInv, CountInv, TypeOK
        <3>2. Awake \cup {v} \in SUBSET Awake' /\ v \notin Awake /\ Awake \in SUBSET Workers /\ Awake' \in SUBSET Workers
            BY <1>1, <2>2, <3>1 DEF Awake, HasLock
        <3>3. Cardinality(Awake \cup {v}) = Cardinality(Awake) + 1
            BY <3>1, <3>2, OneMore
        <3>4. Cardinality(Awake \cup {v}) <= Cardinality(Awake') /\ Cardinality(Awake') \in Nat
            BY <3>2, WorkerSets
        <3>5. Cardinality(Awake) \in Nat
            BY <3>2, WorkerSets
        <3>6. count <= Cardinality(Awake)
            BY Types DEF IInv
        <3>7. count' <= Cardinality(Awake')
            BY <1>0, <1>1, <3>3, <3>4, <3>5, <3>6
        <3> QED BY <3>7 DEF WorkConserving, Awake
    <2> QED BY <1>3, <2>1, <2>2
<1>11. QueueInv /\ OnceInv /\ RunInv
    BY <1>0 DEF IInv
<1>12. /\ accepted \in Seq(Tasks) /\ Len(accepted) \in Nat /\ Len(taken) \in Nat
       /\ Len(taken) <= Len(accepted) /\ count = Len(accepted) - Len(taken)
       /\ RingContents \in Seq(Tasks \cup {NULL}) /\ Len(RingContents) = count
    BY <1>0, <1>11, Types, Contents DEF TypeOK, QueueInv
<1>13. /\ Len(accepted') = Len(accepted) + 1
       /\ \A k \in 1 .. Len(accepted) : accepted'[k] = accepted[k]
       /\ accepted'[Len(accepted) + 1] = t
    BY <1>1, <1>12
<1>13a. /\ RingContents'[count + 1] = t
        /\ \A n \in 1 .. count : RingContents'[n] = RingContents[n]
    <2>1. RingContents' = Append(RingContents, t) /\ t \in Tasks \cup {NULL}
        BY <1>1
    <2>2. RingContents \in Seq(Tasks \cup {NULL}) /\ Len(RingContents) = count
        BY <1>12
    <2> QED BY <2>1, <2>2, AppendProperties
<1>14. QueueInv'
    <2>1. Len(taken') <= Len(accepted') /\ count' = Len(accepted') - Len(taken')
        BY <1>1, <1>12, <1>13
    <2>2. \A k \in 1 .. Len(taken') : taken'[k] = accepted'[k]
        <3>1. taken' = taken
            BY <1>1
        <3>2. \A k \in 1 .. Len(taken) : taken[k] = accepted[k]
            BY <1>11 DEF QueueInv
        <3>3. \A k \in 1 .. Len(taken) : k \in 1 .. Len(accepted)
            BY <1>12
        <3> QED BY <1>13, <3>1, <3>2, <3>3
    <2>3. ASSUME NEW n \in 1 .. count' PROVE RingContents'[n] = accepted'[Len(taken') + n]
        <3>1. CASE n = count + 1
            <4>1. RingContents'[n] = t
                BY <1>13a, <3>1
            <4>2. Len(taken') + n = Len(accepted) + 1
                BY <1>1, <1>12, <3>1
            <4> QED BY <1>13, <4>1, <4>2
        <3>2. CASE n \in 1 .. count
            <4>1. RingContents'[n] = RingContents[n]
                BY <1>13a, <3>2
            <4>2. Len(taken') + n \in 1 .. Len(accepted)
                BY <1>1, <1>12, <3>2
            <4>3. RingContents[n] = accepted[Len(taken') + n]
                BY <1>1, <1>11, <3>2 DEF QueueInv
            <4> QED BY <1>13, <4>1, <4>2, <4>3
        <3>3. n \in 1 .. count \/ n = count + 1
            BY <1>0, <1>1
        <3> QED BY <3>1, <3>2, <3>3
    <2> QED BY <2>1, <2>2, <2>3 DEF QueueInv
<1>15. \A k \in 1 .. Len(accepted) : accepted[k] \in Tasks /\ accepted[k] # t
    <2>1. \A k \in 1 .. Len(accepted) : accepted[k] \in Tasks
        BY <1>12, ElementOfSeq
    <2>2. apc[t] # "0"
        BY <1>1
    <2> QED BY <1>11, <2>1, <2>2 DEF OnceInv
<1>16. OnceInv'
    <2>1. \A s \in Tasks : apc'[s] = "0" <=> s = t \/ apc[s] = "0"
        BY <1>0, <1>1 DEF TypeOK
    <2>2. \A s \in Tasks : (\E k \in 1 .. Len(accepted') : accepted'[k] = s)
                               <=> s = t \/ \E k \in 1 .. Len(accepted) : accepted[k] = s
        <3>1. Len(accepted) + 1 \in 1 .. Len(accepted')
            BY <1>12, <1>13
        <3>2. \A k \in 1 .. Len(accepted') : k \in 1 .. Len(accepted) \/ k = Len(accepted) + 1
            BY <1>12, <1>13
        <3>3. \A k \in 1 .. Len(accepted) : k \in 1 .. Len(accepted')
            BY <1>12, <1>13
        <3> QED BY <1>13, <3>1, <3>2, <3>3
    <2>3. \A j, k \in 1 .. Len(accepted') : j # k => accepted'[j] # accepted'[k]
        <3>1. \A k \in 1 .. Len(accepted') : k \in 1 .. Len(accepted) \/ k = Len(accepted) + 1
            BY <1>12, <1>13
        <3> QED BY <1>11, <1>13, <1>15, <3>1 DEF OnceInv
    <2> QED BY <1>11, <2>1, <2>2, <2>3 DEF OnceInv
<1>17. RunInv'
    <2>1. \A k \in 1 .. Len(taken) : accepted'[k] = accepted[k]
        BY <1>12, <1>13
    <2>0. UNCHANGED <<wpc, task, taken, ran>>
        BY <1>1
    <2>2. \A w \in Workers : wpc'[w] = "run" =>
              /\ \E k \in 1 .. Len(taken') : accepted'[k] = task'[w]
              /\ ran'[task'[w]] = 0
        BY <2>0, <1>11, <2>1 DEF RunInv
    <2>3. \A v, w \in Workers :
              (wpc'[v] = "run" /\ wpc'[w] = "run" /\ v # w) => task'[v] # task'[w]
        BY <2>0, <1>11 DEF RunInv
    <2>4. \A s \in Tasks : ran'[s] # 0 =>
              ran'[s] = 1 /\ \E k \in 1 .. Len(taken') : accepted'[k] = s
        BY <2>0, <1>11, <2>1 DEF RunInv
    <2>5. \A k \in 1 .. Len(taken') :
              \/ ran'[accepted'[k]] = 1
              \/ \E w \in Workers : wpc'[w] = "run" /\ task'[w] = accepted'[k]
        BY <2>0, <1>11, <2>1 DEF RunInv
    <2> QED BY <2>2, <2>3, <2>4, <2>5 DEF RunInv
<1> QED BY <1>7, <1>8, <1>9, <1>10, <1>14, <1>16, <1>17 DEF IInv

(* A worker takes a task from the ring. *)
LEMMA GrabTaskIInv == ASSUME NEW w \in Workers PROVE IInv /\ GrabTask(w) => IInv'
<1> SUFFICES ASSUME IInv, GrabTask(w) PROVE IInv'
    OBVIOUS
<1> USE DEF GrabTask, Remaining
<1> DEFINE N == task_queue_size
<1>0. /\ TypeOK /\ N \in Nat \ {0} /\ count \in Int /\ head \in 0 .. N - 1 /\ Len(taken) \in Nat
      /\ MaxTaken \in Nat /\ wpc[w] \in {"top", "wait"} /\ w \notin notify
    BY Types, ThreadPoolAssumption DEF HasLock, IInv, CountInv
<1>1. head' \in Slots /\ tail' = (head' + count') % N
    <2>1. (head + 1) % N \in 0 .. N - 1
        <3>1. head + 1 \in Int
            BY <1>0
        <3> QED BY <1>0, <3>1
    <2>2. CASE head + 1 < N
        <3>1. head + 1 \in 0 .. N - 1
            BY <1>0, <2>2
        <3>2. head' = head + 1
            BY <3>1, <1>0, ModSmall DEF NextSlot
        <3>3. head' + count' = head + count
            BY <1>0, <3>2
        <3> QED BY <2>1, <3>3, Types DEF NextSlot, Slots
    <2>3. CASE head + 1 = N
        <3>1. head' = 0
            <4>1. N = N * 1 + 0 /\ 0 \in 0 .. N - 1 /\ N \in Int
                BY <1>0
            <4>2. N % N = 0
                BY <1>0, <4>1, ModUnique
            <4> QED BY <2>3, <4>2 DEF NextSlot
        <3> DEFINE x == count - 1
        <3>2. head' + count' = x /\ x \in Int /\ head + count = x + N
            BY <1>0, <2>3, <3>1
        <3> HIDE DEF x
        <3>3. (x + N) % N = x % N
            BY <1>0, <3>2, ModPlusN
        <3> QED BY <2>1, <3>2, <3>3, Types DEF NextSlot, Slots
    <2> QED BY <1>0, <2>2, <2>3
<1>2. head \in Slots /\ ring[head] \in Tasks \cup {NULL}
    BY <1>0 DEF TypeOK, Slots
<1>3. taken' \in Seq(Tasks \cup {NULL}) /\ Len(taken') = Len(taken) + 1
      /\ (\A k \in 1 .. Len(taken) : taken'[k] = taken[k]) /\ taken'[Len(taken) + 1] = ring[head]
    <2>1. taken \in Seq(Tasks \cup {NULL})
        BY <1>0 DEF TypeOK
    <2> QED BY <1>2, <2>1, AppendProperties
<1>4. -Len(taken') <= count' /\ Len(taken') <= MaxTaken
    BY <1>0, <1>3 DEF IInv, CountInv
<1>5. count' \in -MaxTaken .. N
    BY <1>0, <1>3, <1>4, Types
<1>6. TypeOK'
    BY <1>0, <1>1, <1>2, <1>3, <1>5 DEF TypeOK
<1>7. RingConsistent'
    BY <1>1, <1>6 DEF RingConsistent
<1>8. CountInv'
    <2>1. Live' = Live
        BY <1>0 DEF Live, TypeOK
    <2> QED BY <1>0, <1>4, <2>1 DEF IInv, CountInv, TypeOK
<1>9. \A v \in Workers : wpc[v] # "exited"
    BY <1>0 DEF IInv, PhaseInv, MayExit
<1>10. PhaseInv'
    BY <1>0, <1>9 DEF IInv, PhaseInv, TypeOK
<1>11. WorkConserving'
    <2>1. Awake = Awake' \cup {w} /\ w \notin Awake' /\ Awake' \in SUBSET Workers
        BY <1>0 DEF Awake, HasLock, TypeOK
    <2>2. Cardinality(Awake) = Cardinality(Awake') + 1 /\ Cardinality(Awake') \in Nat
        BY <2>1, OneMore, WorkerSets
    <2>3. notify # {} => count <= Cardinality(Awake)
        BY Types DEF IInv
    <2>4. notify # {} => count' <= Cardinality(Awake')
        BY <1>0, <2>2, <2>3
    <2> QED BY <2>4 DEF WorkConserving, Awake
<1>12. Orderly' => Orderly
    BY <1>0 DEF Orderly, AllCreated, TypeOK
<1>13. ASSUME Orderly PROVE QueueInv' /\ OnceInv' /\ RunInv'
    <2>1. QueueInv /\ OnceInv /\ RunInv
        BY <1>13 DEF IInv
    <2>2. count > 0
        <3>1. count >= 0 /\ shutdown \in {0, 1}
            BY <1>0, <1>13, Types DEF Orderly, TypeOK
        <3> QED BY <1>0, <3>1 DEF Idle, MayExit
    <2>3. RingContents[1] = ring[head] /\ RingContents' = Tail(RingContents) /\ RingContents # <<>>
        BY <2>2, GetContents
    <2>4. /\ accepted \in Seq(Tasks) /\ Len(accepted) \in Nat
          /\ Len(taken) < Len(accepted) /\ count = Len(accepted) - Len(taken)
          /\ RingContents \in Seq(Tasks \cup {NULL}) /\ Len(RingContents) = count
        <3>1. accepted \in Seq(Tasks) /\ Len(accepted) \in Nat /\ count >= 0
            BY <1>0, <2>2 DEF TypeOK
        <3>2. count = Len(accepted) - Len(taken)
            BY <2>1 DEF QueueInv
        <3>3. Len(taken) < Len(accepted)
            BY <1>0, <2>2, <3>1, <3>2
        <3>4. RingContents \in Seq(Tasks \cup {NULL}) /\ Len(RingContents) = count
            BY <3>1, Contents
        <3> QED BY <3>1, <3>2, <3>3, <3>4
    <2> DEFINE m == Len(taken) + 1
               t == accepted[m]
    <2>5. m \in 1 .. Len(accepted) /\ t \in Tasks /\ t = ring[head]
        <3>1. m \in 1 .. Len(accepted) /\ 1 \in 1 .. count
            BY <1>0, <2>2, <2>4
        <3>2. t \in Tasks
            BY <2>4, <3>1, ElementOfSeq
        <3>3. RingContents[1] = t
            BY <2>1, <3>1 DEF QueueInv
        <3> QED BY <2>3, <3>1, <3>2, <3>3
    <2>6. taken'[m] = t /\ Len(taken') = m /\ m \in Nat
        BY <1>0, <1>3, <2>5
    <2> HIDE DEF t
    <2>7. QueueInv'
        <3>1. Len(taken') <= Len(accepted') /\ count' = Len(accepted') - Len(taken')
            BY <1>0, <2>4, <2>6
        <3>2. \A k \in 1 .. Len(taken') : taken'[k] = accepted'[k]
            BY <1>0, <1>3, <2>1, <2>6 DEF QueueInv, t
        <3>3. ASSUME NEW n \in 1 .. count' PROVE RingContents'[n] = accepted'[Len(taken') + n]
            <4>1. n + 1 \in 1 .. count /\ Len(taken') + n = Len(taken) + (n + 1)
                BY <1>0, <2>6
            <4>2. RingContents'[n] = RingContents[n + 1]
                BY <2>3, <2>4, <4>1
            <4>3. RingContents[n + 1] = accepted[Len(taken) + (n + 1)]
                BY <2>1, <4>1 DEF QueueInv
            <4> QED BY <4>1, <4>2, <4>3
        <3> QED BY <3>1, <3>2, <3>3 DEF QueueInv
    <2>8. OnceInv'
        BY <2>1 DEF OnceInv
    <2>9. \A k \in 1 .. Len(taken) : k \in 1 .. m /\ k \in 1 .. Len(accepted) /\ accepted[k] # t
        BY <1>0, <2>1, <2>4, <2>5 DEF OnceInv, t
    <2>10. ran[t] = 0
        BY <2>1, <2>5, <2>9 DEF RunInv
    <2>11. \A v \in Workers : wpc[v] = "run" => v # w /\ task[v] # t
        BY <1>0, <2>1, <2>9 DEF RunInv
    <2>12. /\ task'[w] = t /\ wpc'[w] = "run"
           /\ \A v \in Workers \ {w} : task'[v] = task[v] /\ wpc'[v] = wpc[v]
        BY <1>0, <2>5 DEF TypeOK
    <2>13. accepted[m] = t /\ m \in 1 .. m
        BY <2>6 DEF t
    <2>14. \A v \in Workers : wpc'[v] = "run" =>
               /\ \E k \in 1 .. m : accepted[k] = task'[v]
               /\ ran[task'[v]] = 0
        BY <2>1, <2>9, <2>10, <2>12, <2>13 DEF RunInv
    <2>15. \A u, v \in Workers :
               (wpc'[u] = "run" /\ wpc'[v] = "run" /\ u # v) => task'[u] # task'[v]
        BY <2>1, <2>11, <2>12 DEF RunInv
    <2>16. \A s \in Tasks : ran[s] # 0 =>
               ran[s] = 1 /\ \E k \in 1 .. m : accepted[k] = s
        BY <2>1, <2>9 DEF RunInv
    <2>17. ASSUME NEW k \in 1 .. m
           PROVE  ran[accepted[k]] = 1 \/ \E v \in Workers : wpc'[v] = "run" /\ task'[v] = accepted[k]
        <3>1. CASE k = m
            BY <2>12, <2>13, <3>1
        <3>2. CASE k \in 1 .. Len(taken)
            BY <2>1, <2>11, <2>12, <3>2 DEF RunInv
        <3> QED BY <1>0, <3>1, <3>2
    <2>18. RunInv'
        BY <2>6, <2>14, <2>15, <2>16, <2>17 DEF RunInv
    <2> QED BY <2>7, <2>8, <2>18
<1> QED BY <1>7, <1>8, <1>10, <1>11, <1>12, <1>13 DEF IInv

-------------------------------------------------------------------------------
(* The invariant is inductive. *)
LEMMA NextIInv == IInv /\ [Next]_vars => IInv'
<1> SUFFICES ASSUME IInv, [Next]_vars PROVE IInv'
    OBVIOUS
<1>1. CASE CreateWorker
    BY <1>1, CreateWorkerIInv
<1>2. CASE JoinWorkers
    BY <1>2, JoinWorkersIInv
<1>3. CASE UnlockAgain
    BY <1>3, UnlockAgainIInv
<1>4. CASE CreateFailed \/ Destroy
    <2>1. mpc \in {"create", "ready"} /\ \E mode \in {1, 2} : BeginShutdown(mode)
        BY <1>4 DEF CreateFailed, Destroy
    <2> QED BY <2>1, BeginShutdownIInv
<1>5. CASE DestroyAgain
    BY <1>5, DestroyAgainIInv
<1>6. ASSUME NEW t \in Tasks, Add(t) PROVE IInv'
    BY <1>6, RefuseIInv, AcceptIInv
<1>7. ASSUME NEW w \in Workers, Worker(w) \/ SpuriousWakeup(w) PROVE IInv'
    BY <1>7, SleepIInv, ExitIInv, GrabTaskIInv, RunTaskIInv, SpuriousWakeupIInv DEF Worker
<1>8. CASE UNCHANGED vars
    <2> USE <1>8 DEF vars, ringVars, workerVars
    <2>1. RingConsistent' /\ CountInv' /\ PhaseInv'
        BY DEF IInv, RingConsistent, TypeOK, CountInv, Live, PhaseInv
    <2>2. WorkConserving'
        BY DEF IInv, WorkConserving, HasLock
    <2>3. Orderly' => Orderly
        BY DEF Orderly, AllCreated
    <2>4. Orderly => QueueInv' /\ OnceInv'
        BY SameQueue DEF IInv
    <2>5. Orderly => RunInv'
        BY SameRuns DEF IInv
    <2> QED BY <2>1, <2>2, <2>3, <2>4, <2>5 DEF IInv
<1> QED BY <1>1, <1>2, <1>3, <1>4, <1>5, <1>6, <1>7, <1>8 DEF Next, Main

(* A step that leaves the ring and what was taken alone leaves the queue   *)
(* it represents alone.                                                    *)
LEMMA FifoStutter == UNCHANGED <<ringVars, taken>> => Fifo!Step
<1> SUFFICES ASSUME UNCHANGED <<ringVars, taken>> PROVE Fifo!Step
    OBVIOUS
<1>1. RingContents' = RingContents /\ taken' = taken
    BY DEF ringVars, RingContents
<1> QED BY <1>1 DEF Fifo!Step

(* Unless the pool is told to shut down at once, every step of the pool is *)
(* a step of the bounded FIFO queue.                                       *)
LEMMA StepIsFifoStep == IInv /\ [Next]_vars => (shutdown' # 2 => Fifo!Step)
<1> SUFFICES ASSUME IInv, [Next]_vars, shutdown' # 2 PROVE Fifo!Step
    OBVIOUS
<1>1. CASE UNCHANGED <<ringVars, taken>>
    BY <1>1, FifoStutter
<1>2. ASSUME NEW t \in Tasks, Add(t) PROVE Fifo!Step
    <2>1. CASE Full \/ shutdown # 0
        BY <1>2, <2>1, FifoStutter DEF Add, workerVars, ringVars
    <2>2. CASE ~(Full \/ shutdown # 0)
        <3>1. RingContents' = Append(RingContents, t) /\ taken' = taken /\ 0 <= count /\ count < task_queue_size
            BY <1>2, <2>2, AcceptFacts
        <3>2. Len(RingContents) = count
            BY <3>1, Contents
        <3>3. Fifo!Put(t)
            BY <3>1, <3>2 DEF Fifo!Put
        <3> QED BY <3>3 DEF Fifo!Step, Fifo!Next
    <2> QED BY <2>1, <2>2
<1>3. ASSUME NEW w \in Workers, GrabTask(w) PROVE Fifo!Step
    <2>1. shutdown # 2 /\ wpc[w] \in {"top", "wait"}
        BY <1>3 DEF GrabTask, HasLock
    <2>2. mpc # "0"
        BY <2>1 DEF IInv, PhaseInv
    <2>3. Orderly
        BY <2>1, <2>2 DEF Orderly
    <2>4. count \in Int /\ count >= 0 /\ shutdown \in {0, 1}
        BY <2>1, <2>3, Types DEF TypeOK
    <2>5. 0 < count
        BY <1>3, <2>4 DEF GrabTask, Idle, MayExit
    <2>6. RingContents # <<>> /\ RingContents[1] = ring[head] /\ RingContents' = Tail(RingContents)
        BY <1>3, <2>5, GetContents DEF GrabTask, Remaining
    <2>7. RingContents \in Seq(Tasks \cup {NULL})
        BY <2>4, Contents
    <2>8. Head(RingContents) = ring[head]
        BY <2>6, <2>7
    <2>9. Fifo!Get
        BY <1>3, <2>6, <2>8 DEF Fifo!Get, GrabTask
    <2> QED BY <2>9 DEF Fifo!Step, Fifo!Next
<1>4. CASE Main \/ CreateFailed \/ Destroy \/ DestroyAgain
    BY <1>4, <1>1 DEF Main, CreateWorker, JoinWorkers, UnlockAgain, CreateFailed, Destroy,
        DestroyAgain, BeginShutdown, workerVars
<1>5. ASSUME NEW w \in Workers, Sleep(w) \/ Exit(w) \/ RunTask(w) \/ SpuriousWakeup(w) PROVE Fifo!Step
    BY <1>5, <1>1 DEF Sleep, Exit, RunTask, SpuriousWakeup, workerVars
<1>6. CASE UNCHANGED vars
    BY <1>6, <1>1 DEF vars, workerVars
<1> QED BY <1>2, <1>3, <1>4, <1>5, <1>6 DEF Next, Worker

(* After a graceful shutdown the joined pool is drained. *)
LEMMA DrainedFromIInv == IInv => DrainedWhenJoined
<1> SUFFICES ASSUME IInv, AllCreated, mpc \in {"unlock", "-1", "0"}
             PROVE  /\ \A t \in Tasks : ran[t] = IF apc[t] = "0" THEN 1 ELSE 0
                    /\ started = 0
                    /\ notify = {}
    BY DEF DrainedWhenJoined
<1>1. \A w \in Workers : wpc[w] = "exited"
    BY DEF IInv, PhaseInv, AllCreated
<1>2. PICK w \in Workers : TRUE
    BY ThreadPoolAssumption
<1>3. count = 0 /\ Orderly
    BY <1>1, <1>2 DEF IInv, PhaseInv, Orderly
<1>4. Live = {}
    BY <1>1 DEF Live
<1>5. started = 0
    BY <1>4, FS_EmptySet DEF IInv, CountInv
<1>6. notify = {}
    BY <1>1, Types DEF IInv, CountInv, TypeOK
<1>7. QueueInv /\ OnceInv /\ RunInv
    BY <1>3 DEF IInv
<1>8. Len(taken) = Len(accepted)
    BY <1>3, Types
<1>9. ASSUME NEW t \in Tasks PROVE ran[t] = IF apc[t] = "0" THEN 1 ELSE 0
    <2>1. CASE apc[t] = "0"
        <3>1. PICK k \in 1 .. Len(taken) : accepted[k] = t
            BY <1>7, <1>8, <2>1 DEF OnceInv
        <3>2. ran[t] = 1
            BY <1>1, <1>7, <3>1 DEF RunInv
        <3> QED BY <2>1, <3>2
    <2>2. CASE apc[t] # "0"
        BY <1>7, <1>8, <2>2 DEF OnceInv, RunInv
    <2> QED BY <2>1, <2>2
<1> QED BY <1>5, <1>6, <1>9

(* The invariant holds in every reachable state. *)
THEOREM InvariantHolds == Spec => []IInv
BY InitIInv, NextIInv, PTL DEF Spec

(* Every field of the pool stays in its range; count may become negative   *)
(* after an immediate shutdown, by no more than the tasks taken.           *)
THEOREM TypeCorrect == Spec => []TypeOK
<1>1. IInv => TypeOK
    BY Types
<1> QED BY <1>1, InvariantHolds, PTL

(* No lost wakeup: one pthread_cond_signal for each task is enough. *)
THEOREM WorkIsConserved == Spec => []WorkConserving
<1>1. IInv => WorkConserving
    BY DEF IInv
<1> QED BY <1>1, InvariantHolds, PTL

(* A gracefully destroyed pool has run every accepted task exactly once. *)
THEOREM GracefulDrains == Spec => []DrainedWhenJoined
BY DrainedFromIInv, InvariantHolds, PTL

(* The ring of tasks implements the bounded FIFO queue until an immediate  *)
(* shutdown, and head, tail and count agree even after it.                 *)
THEOREM RingIsFifo == Spec => ImplementsFifo
<1>1. Init => Fifo!Init
    <2> SUFFICES ASSUME Init PROVE Fifo!Init
        OBVIOUS
    <2>1. RingContents = <<>>
        BY DEF Init, RingContents
    <2> QED BY <2>1 DEF Init, Fifo!Init
<1>2. IInv /\ IInv' /\ [Next]_vars => [RingConsistent' /\ (shutdown' # 2 => Fifo!Step)]_vars
    BY StepIsFifoStep DEF IInv
<1> QED BY <1>1, <1>2, InvariantHolds, PTL DEF Spec, ImplementsFifo
===============================================================================
