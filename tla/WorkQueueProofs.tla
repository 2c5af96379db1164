---------------------------- MODULE WorkQueueProofs ----------------------------
(* Proofs about WorkQueue, for every set of items and of workers, every    *)
(* parallelism and every choice of failing library calls.                  *)
EXTENDS WorkQueue, TLAPS, FiniteSetTheorems

\* The pointers represent what was linked and not yet unlinked.
ListInv ==
    /\ Len(taken) <= Len(accepted)
    /\ \A k \in 1 .. Len(taken) : taken[k] = accepted[k]
    /\ Len(taken) = Len(accepted) => first = NULL
    /\ Len(taken) < Len(accepted) =>
            /\ first = accepted[Len(taken) + 1]
            /\ last = accepted[Len(accepted)]
            /\ next[accepted[Len(accepted)]] = NULL
    /\ \A k \in Len(taken) + 1 .. Len(accepted) - 1 : next[accepted[k]] = accepted[k + 1]

\* An item is linked once, by its own call.
OnceInv ==
    /\ \A j, k \in 1 .. Len(accepted) : j # k => accepted[j] # accepted[k]
    /\ \A k \in 1 .. Len(accepted) : apc[accepted[k]] \notin {"idle", "enter"}

\* Nothing happens before workq_init.
FreshInv == ~valid => ~live /\ accepted = <<>> /\ taken = <<>> /\ Active = {}

\* The worker threads are counted; a sleeping worker is in its wait.
CountInv ==
    /\ Cardinality(Active) <= counter
    /\ \A w \in Workers : w \in cv => wpc[w] = "wait"

\* With clients that stop adding first, the queue is destroyed without workers.
QuietInv ==
    ~late =>
        /\ counter = Cardinality(Active)
        /\ dpc # "idle" => Adding = {}
        /\ dpc \in {"free mutex", "free cond", "done"} => Active = {}
        /\ ~live => Active = {}

\* A worker that runs the engine has an item.
EngineInv == \A w \in Workers : wpc[w] = "engine" => item[w] \in Items

IInv ==
    /\ TypeOK
    /\ EngineInv
    /\ ListInv
    /\ OnceInv
    /\ FreshInv
    /\ CountInv
    /\ QuietInv
    /\ NoStrandedItem

-------------------------------------------------------------------------------
(* The workers that exist are finitely many. *)
LEMMA FiniteActive == IsFiniteSet(Active) /\ Cardinality(Active) \in Nat
<1>1. Active \in SUBSET Workers
    BY DEF Active
<1>2. IsFiniteSet(Active)
    BY <1>1, WorkQueueAssumption, FS_Subset
<1> QED BY <1>2, FS_CardinalityType

(* The history of the queue is made of items. *)
LEMMA AcceptedItems ==
    ASSUME IInv
    PROVE  /\ accepted \in Seq(Items) /\ taken \in Seq(Items)
           /\ Len(accepted) \in Nat /\ Len(taken) \in Nat
           /\ \A k \in 1 .. Len(accepted) : accepted[k] \in Items
<1>1. accepted \in Seq(Items) /\ taken \in Seq(Items)
    BY DEF IInv, TypeOK
<1> QED BY <1>1

(* The range of the counter of the workers. *)
LEMMA CounterRange ==
    ASSUME IInv
    PROVE  /\ counter \in Nat /\ counter <= parallelism /\ parallelism \in Nat /\ 0 < parallelism
           /\ Cardinality(Active) <= counter
           /\ wpc \in [Workers -> {"off", "new", "wait", "engine", "relock"}]
<1>1. counter \in 0 .. parallelism /\ wpc \in [Workers -> {"off", "new", "wait", "engine", "relock"}]
    BY DEF IInv, TypeOK
<1>2. parallelism \in Nat \ {0}
    BY WorkQueueAssumption
<1>3. Cardinality(Active) <= counter
    BY DEF IInv, CountInv
<1> QED BY <1>1, <1>2, <1>3

(* The initial states satisfy the invariant. *)
LEMMA InitIInv == Init => IInv
<1> SUFFICES ASSUME Init PROVE IInv
    OBVIOUS
<1>0. 0 \in 0 .. parallelism
    BY WorkQueueAssumption
<1>a. <<>> \in Seq(Items)
    OBVIOUS
<1>b. valid \in BOOLEAN /\ live \in BOOLEAN /\ quit \in BOOLEAN /\ timedout \in [Workers -> BOOLEAN]
    BY DEF Init
<1>c. /\ next \in [Items -> Items \cup {NULL}] /\ item \in [Workers -> Items \cup {NULL}]
      /\ apc \in [Items -> {"idle", "enter", "0", "EINVAL", "ENOMEM", "EAGAIN"}]
      /\ wpc \in [Workers -> {"off", "new", "wait", "engine", "relock"}]
    BY DEF Init
<1>1. TypeOK
    BY <1>0, <1>a, <1>b, <1>c DEF Init, TypeOK
<1>2. Active = {} /\ Cardinality(Active) = 0
    <2>1. Active = {}
        BY DEF Init, Active
    <2> QED BY <2>1, FS_EmptySet
<1>3. ListInv /\ OnceInv
    BY DEF Init, ListInv, OnceInv
<1>4. FreshInv /\ CountInv /\ QuietInv
    BY <1>2 DEF Init, FreshInv, CountInv, QuietInv
<1>5. NoStrandedItem /\ EngineInv
    BY DEF Init, NoStrandedItem, EngineInv
<1> QED BY <1>1, <1>3, <1>4, <1>5 DEF IInv

(* workq_init *)
LEMMA InitStep == ASSUME IInv, WorkqInit PROVE IInv'
<1>1. /\ ~valid /\ live' = TRUE /\ valid' = TRUE /\ quit' = FALSE
      /\ first' = NULL /\ last' = NULL /\ counter' = 0 /\ idle' = 0
      /\ UNCHANGED <<next, accepted, cv, apc, dpc, wpc, item, timedout, taken, done, failed, late>>
    BY DEF WorkqInit, workerVars, faultVars
<1>2. Active' = Active /\ Active = {} /\ accepted = <<>> /\ taken = <<>> /\ Adding' = Adding
    BY <1>1 DEF IInv, FreshInv, Active, Adding
<1>3. Cardinality(Active') = 0
    BY <1>2, FS_EmptySet
<1>4. TypeOK'
    <2>1. 0 \in 0 .. parallelism
        BY WorkQueueAssumption
    <2> QED BY <1>1, <2>1 DEF IInv, TypeOK
<1>5. ListInv' /\ OnceInv'
    BY <1>1, <1>2 DEF ListInv, OnceInv
<1>6. FreshInv' /\ CountInv' /\ QuietInv' /\ NoStrandedItem' /\ EngineInv'
    BY <1>1, <1>2, <1>3 DEF IInv, EngineInv, FreshInv, CountInv, QuietInv, NoStrandedItem
<1> QED BY <1>4, <1>5, <1>6 DEF IInv

(* workq_add before it has the mutex, or without getting it. *)
LEMMA AddOutsideStep ==
    ASSUME IInv, NEW i \in Items, AddEnter(i) \/ AddMutexGone(i)
    PROVE  IInv'
<1>1. /\ apc[i] \in {"idle", "enter"}
      /\ UNCHANGED <<valid, live, quit, counter, idle, first, last, next, accepted, cv, dpc, wpc,
                     item, timedout, taken, done, failed>>
      /\ late' \in BOOLEAN /\ (late => late')
    BY DEF AddEnter, AddMutexGone, fieldVars, listVars, workerVars, faultVars, IInv, TypeOK
<1>2. \E s \in {"enter", "EINVAL", "ENOMEM"} : apc' = [apc EXCEPT ![i] = s]
    BY DEF AddEnter, AddMutexGone
<1>3. apc' = [apc EXCEPT ![i] = "enter"] => late' \/ dpc = "idle"
    <2>1. CASE AddEnter(i)
        BY <2>1 DEF AddEnter
    <2>2. CASE AddMutexGone(i)
        BY <2>2 DEF AddMutexGone, IInv, TypeOK
    <2> QED BY <2>1, <2>2
<1>4. apc \in [Items -> {"idle", "enter", "0", "EINVAL", "ENOMEM", "EAGAIN"}]
    BY DEF IInv, TypeOK
<1>5. TypeOK'
    <2>1. apc' \in [Items -> {"idle", "enter", "0", "EINVAL", "ENOMEM", "EAGAIN"}]
        BY <1>2, <1>4
    <2> QED BY <1>1, <2>1 DEF IInv, TypeOK
<1>6. ListInv' /\ FreshInv' /\ CountInv' /\ NoStrandedItem' /\ EngineInv'
    BY <1>1 DEF IInv, EngineInv, ListInv, FreshInv, CountInv, NoStrandedItem, Active
<1>7. OnceInv'
    <2>1. \A k \in 1 .. Len(accepted) : accepted[k] \in Items
        BY AcceptedItems
    <2>2. \A k \in 1 .. Len(accepted) : accepted[k] # i
        BY <1>1 DEF IInv, OnceInv
    <2>3. \A k \in 1 .. Len(accepted) : apc'[accepted[k]] = apc[accepted[k]]
        BY <1>2, <1>4, <2>1, <2>2
    <2> QED BY <1>1, <2>3 DEF IInv, OnceInv
<1>8. QuietInv'
    <2>1. Active' = Active
        BY <1>1 DEF Active
    <2>2. ~late' /\ dpc # "idle" => Adding' = {}
        <3> SUFFICES ASSUME ~late', dpc # "idle" PROVE Adding' = {}
            OBVIOUS
        <3>1. Adding = {}
            BY <1>1 DEF IInv, QuietInv
        <3> QED BY <1>2, <1>3, <1>4, <3>1 DEF Adding
    <2> QED BY <1>1, <2>1, <2>2 DEF IInv, QuietInv
<1> QED BY <1>5, <1>6, <1>7, <1>8 DEF IInv

(* Linking an item extends the list at its tail. *)
LEMMA LinkStep ==
    ASSUME IInv, NEW i \in Items, apc[i] = "enter", Link(i), UNCHANGED taken
    PROVE  ListInv' /\ first' # NULL
<1> DEFINE m == Len(accepted)
           n == Len(taken)
<1>1. accepted \in Seq(Items) /\ taken \in Seq(Items) /\ m \in Nat /\ n \in Nat /\ n <= m
      /\ \A k \in 1 .. m : accepted[k] \in Items
    BY AcceptedItems DEF IInv, ListInv
<1>2. \A k \in 1 .. m : accepted[k] # i
    BY DEF IInv, OnceInv
<1>3. next \in [Items -> Items \cup {NULL}] /\ NULL \notin Items
    BY WorkQueueAssumption DEF IInv, TypeOK
<1>4. /\ accepted' = Append(accepted, i) /\ last' = i
      /\ first' = IF first = NULL THEN i ELSE first
      /\ next' = IF first = NULL THEN [next EXCEPT ![i] = NULL]
                                 ELSE [next EXCEPT ![i] = NULL, ![last] = i]
    BY DEF Link, LinkNext
<1>5. /\ Len(accepted') = m + 1 /\ accepted'[m + 1] = i
      /\ \A k \in 1 .. m : accepted'[k] = accepted[k]
    BY <1>1, <1>4
<1>6. taken' = taken /\ \A k \in 1 .. n : taken'[k] = accepted'[k]
    BY <1>1, <1>5 DEF IInv, ListInv
<1>7. CASE n = m
    <2>1. first = NULL
        BY <1>7 DEF IInv, ListInv
    <2>2. first' = i /\ next'[i] = NULL
        BY <1>3, <1>4, <2>1
    <2>3. \A k \in Len(taken') + 1 .. Len(accepted') - 1 : next'[accepted'[k]] = accepted'[k + 1]
        BY <1>1, <1>5, <1>6, <1>7
    <2> QED BY <1>1, <1>3, <1>4, <1>5, <1>6, <1>7, <2>2, <2>3 DEF ListInv
<1>8. CASE n < m
    <2>1. /\ first = accepted[n + 1] /\ last = accepted[m]
          /\ \A k \in n + 1 .. m - 1 : next[accepted[k]] = accepted[k + 1]
        BY <1>8 DEF IInv, ListInv
    <2>2. m \in 1 .. m /\ n + 1 \in 1 .. m
        BY <1>1, <1>8
    <2>3. first \in Items /\ last \in Items /\ last # i
        BY <1>1, <1>2, <2>1, <2>2
    <2>4. /\ first' = first /\ next'[i] = NULL /\ next'[last] = i
          /\ \A j \in Items : j # i /\ j # last => next'[j] = next[j]
        BY <1>3, <1>4, <2>3
    <2>5. ASSUME NEW k \in n + 1 .. m PROVE next'[accepted'[k]] = accepted'[k + 1]
        <3>1. CASE k = m
            BY <1>1, <1>5, <2>1, <2>2, <2>4, <3>1
        <3>2. CASE k # m
            <4>1. k \in 1 .. m /\ k + 1 \in 1 .. m /\ k \in n + 1 .. m - 1
                BY <1>1, <3>2
            <4>2. accepted[k] # last
                BY <2>1, <2>2, <4>1, <3>2 DEF IInv, OnceInv
            <4>3. next'[accepted[k]] = next[accepted[k]]
                BY <1>1, <1>2, <2>4, <4>1, <4>2
            <4> QED BY <1>5, <2>1, <4>1, <4>3
        <3> QED BY <3>1, <3>2
    <2>6. Len(taken') = n /\ n # m + 1 /\ n < m + 1 /\ m + 1 - 1 = m
        BY <1>1, <1>6, <1>8
    <2>7. first' = accepted'[n + 1]
        BY <1>5, <2>1, <2>2, <2>4
    <2>8. \A k \in Len(taken') + 1 .. Len(accepted') - 1 : next'[accepted'[k]] = accepted'[k + 1]
        BY <1>5, <2>5, <2>6
    <2>9. last' = accepted'[Len(accepted')] /\ next'[accepted'[Len(accepted')]] = NULL
        BY <1>4, <1>5, <2>4
    <2>10. Len(taken') <= Len(accepted') /\ Len(taken') # Len(accepted') /\ first' # NULL
        BY <1>1, <1>3, <1>5, <2>3, <2>4, <2>6
    <2> QED BY <1>6, <2>6, <2>7, <2>8, <2>9, <2>10 DEF ListInv
<1> QED BY <1>1, <1>7, <1>8

(* workq_add with the mutex. *)
LEMMA AddLockStep == ASSUME IInv, NEW i \in Items, AddLock(i) PROVE IInv'
<1>0. TypeOK /\ apc[i] = "enter" /\ live /\ Link(i) /\ idle = 0 /\ valid
    BY DEF IInv, TypeOK, AddLock, FreshInv
<1>1. /\ UNCHANGED <<valid, live, quit, idle, dpc, item, timedout, taken, done, cv, late>>
      /\ failed \subseteq failed' /\ failed' \in SUBSET {"create", "timedwait"}
    <2>1. failed \in SUBSET {"create", "timedwait"}
        BY <1>0 DEF TypeOK
    <2>2. failed' \in {failed, failed \cup {"create"}}
        BY <1>0 DEF AddLock
    <2>3. UNCHANGED <<valid, live, quit, idle, dpc, item, timedout, taken, done, cv, late>>
        BY <1>0 DEF AddLock
    <2> QED BY <2>1, <2>2, <2>3
<1>2. \E s \in {"0", "EAGAIN"} : apc' = [apc EXCEPT ![i] = s]
    BY <1>0 DEF AddLock
<1>3. ListInv' /\ first' # NULL
    BY <1>0, <1>1, LinkStep
<1>4. \/ /\ counter < parallelism /\ counter' = counter + 1
         /\ \E w \in Workers \ Active : wpc' = [wpc EXCEPT ![w] = "new"]
      \/ /\ UNCHANGED <<counter, wpc>>
         /\ ~(counter < parallelism) \/ failed' # {}
    BY <1>0 DEF AddLock, NeedsWorker
<1>5. /\ accepted' = Append(accepted, i) /\ last' = i /\ first' \in Items \cup {NULL}
      /\ next' \in [Items -> Items \cup {NULL}]
    BY <1>0 DEF Link, LinkNext, TypeOK
<1>6. accepted \in Seq(Items) /\ Len(accepted) \in Nat
      /\ \A k \in 1 .. Len(accepted) : accepted[k] \in Items
    BY AcceptedItems
<1>7. OnceInv'
    <2>1. /\ Len(accepted') = Len(accepted) + 1 /\ accepted'[Len(accepted) + 1] = i
          /\ \A k \in 1 .. Len(accepted) : accepted'[k] = accepted[k]
        BY <1>5, <1>6
    <2>2. \A k \in 1 .. Len(accepted) : accepted[k] # i
        BY <1>0 DEF IInv, OnceInv
    <2>3. apc'[i] \notin {"idle", "enter"} /\ \A j \in Items : j # i => apc'[j] = apc[j]
        BY <1>0, <1>2 DEF TypeOK
    <2>4. \A k \in 1 .. Len(accepted') : k \in 1 .. Len(accepted) \/ k = Len(accepted) + 1
        BY <1>6, <2>1
    <2>5. \A k \in 1 .. Len(accepted') : apc'[accepted'[k]] \notin {"idle", "enter"}
        BY <1>6, <2>1, <2>2, <2>3, <2>4 DEF IInv, OnceInv
    <2>6. \A j, k \in 1 .. Len(accepted') : j # k => accepted'[j] # accepted'[k]
        BY <1>6, <2>1, <2>2, <2>4 DEF IInv, OnceInv
    <2> QED BY <2>5, <2>6 DEF OnceInv
<1>8. /\ counter' \in 0 .. parallelism
      /\ wpc' \in [Workers -> {"off", "new", "wait", "engine", "relock"}]
    BY <1>4, CounterRange
<1>9. TypeOK'
    <2>1. apc' \in [Items -> {"idle", "enter", "0", "EINVAL", "ENOMEM", "EAGAIN"}]
        BY <1>0, <1>2 DEF TypeOK
    <2>2. accepted' \in Seq(Items) /\ last' \in Items \cup {NULL}
        BY <1>5, <1>6
    <2> QED BY <1>0, <1>1, <1>5, <1>8, <2>1, <2>2 DEF TypeOK
<1>10. \/ Active' = Active /\ counter' = counter /\ wpc' = wpc
       \/ /\ counter' = counter + 1 /\ Cardinality(Active') = Cardinality(Active) + 1 /\ Active' # {}
          /\ \A w \in Workers : wpc[w] = "wait" => wpc'[w] = "wait"
    <2>1. CASE UNCHANGED <<counter, wpc>>
        BY <2>1 DEF Active
    <2>2. ASSUME NEW w \in Workers \ Active, wpc' = [wpc EXCEPT ![w] = "new"], counter' = counter + 1
          PROVE  <1>10!2
        <3>1. Active' = Active \cup {w}
            BY <1>0, <2>2 DEF Active, TypeOK
        <3>2. Cardinality(Active') = Cardinality(Active) + 1
            BY <3>1, FiniteActive, FS_AddElement
        <3>3. \A u \in Workers : wpc[u] = "wait" => wpc'[u] = "wait"
            BY <1>0, <2>2 DEF Active, TypeOK
        <3> QED BY <2>2, <3>1, <3>2, <3>3
    <2> QED BY <1>4, <2>1, <2>2
<1>11. CountInv'
    <2>1. Cardinality(Active') <= counter'
        BY <1>10, CounterRange, FiniteActive
    <2>2. \A w \in Workers : w \in cv' => wpc'[w] = "wait"
        BY <1>1, <1>10 DEF IInv, CountInv
    <2> QED BY <2>1, <2>2 DEF CountInv
<1>12. QuietInv'
    <2> SUFFICES ASSUME ~late'
                 PROVE  /\ counter' = Cardinality(Active')
                        /\ dpc' # "idle" => Adding' = {}
                        /\ dpc' \in {"free mutex", "free cond", "done"} => Active' = {}
                        /\ ~live' => Active' = {}
        BY DEF QuietInv
    <2>1. dpc = "idle"
        BY <1>0, <1>1 DEF IInv, QuietInv, Adding
    <2> QED BY <1>0, <1>1, <1>10, <2>1 DEF IInv, QuietInv
<1>13. NoStrandedItem'
    <2> SUFFICES ASSUME failed' = {}, ~late' PROVE Active' # {}
        BY DEF NoStrandedItem
    <2>1. CASE Active' = Active /\ counter' = counter
        <3>1. ~(counter < parallelism)
            BY <1>4, <2>1, CounterRange
        <3>2. Cardinality(Active) # 0
            <4>1. counter = Cardinality(Active)
                BY <1>1 DEF IInv, QuietInv
            <4> QED BY <3>1, <4>1, CounterRange
        <3> QED BY <2>1, <3>2, FS_EmptySet
    <2> QED BY <1>10, <2>1
<1>14. FreshInv'
    BY <1>0, <1>1 DEF FreshInv
<1>15. EngineInv'
    <2>1. \A w \in Workers : wpc'[w] = "engine" => wpc[w] = "engine"
        BY <1>4, CounterRange
    <2> QED BY <1>1, <2>1 DEF IInv, EngineInv
<1> QED BY <1>15, <1>3, <1>7, <1>9, <1>11, <1>12, <1>13, <1>14 DEF IInv

-------------------------------------------------------------------------------
(* workq_destroy, and wake-ups without a reason: no worker starts or ends, *)
(* the list is left alone and no worker falls asleep.                      *)
LEMMA DestroyStep ==
    ASSUME IInv,
           DestroyEnter \/ Destroy \/ \E t \in Workers \cup {Destroyer} : SpuriousWakeup(t)
    PROVE  IInv'
<1>1. UNCHANGED <<valid, counter, idle, first, last, next, accepted, apc, wpc, item, timedout, taken,
                   done, failed>>
    BY DEF DestroyEnter, Destroy, DestroyLock, DestroyWake, DestroyMutex, DestroyCond, SpuriousWakeup,
           fieldVars, listVars, workerVars, faultVars
<1>0. late' \in BOOLEAN /\ (late => late') /\ (dpc = "idle" /\ dpc' # "idle" => late' \/ Adding = {})
    BY DEF DestroyEnter, Destroy, DestroyLock, DestroyWake, DestroyMutex, DestroyCond, SpuriousWakeup,
           faultVars, IInv, TypeOK
<1>2. cv' \subseteq cv \cup {Destroyer}
    BY DEF DestroyEnter, Destroy, DestroyLock, DestroyWake, DestroyMutex, DestroyCond, SpuriousWakeup,
           CondWait, CondLeave, CondBroadcast
<1>3. Active' = Active /\ Adding' = Adding
    BY <1>1 DEF Active, Adding
<1>4. live' = live \/ dpc = "free mutex"
    BY DEF DestroyEnter, Destroy, DestroyLock, DestroyWake, DestroyMutex, DestroyCond, SpuriousWakeup,
           fieldVars
<1>5. TypeOK'
    <2>1. quit' \in BOOLEAN /\ live' \in BOOLEAN
        BY DEF DestroyEnter, Destroy, DestroyLock, DestroyWake, DestroyMutex, DestroyCond,
               SpuriousWakeup, fieldVars, IInv, TypeOK
    <2>2. dpc' \in {"idle", "checked", "wait", "free mutex", "free cond", "done"}
        BY DEF DestroyEnter, Destroy, DestroyLock, DestroyWake, DestroyMutex, DestroyCond,
               SpuriousWakeup, IInv, TypeOK
    <2>3. cv' \in SUBSET (Workers \cup {Destroyer})
        BY <1>2 DEF IInv, TypeOK
    <2> QED BY <1>0, <1>1, <2>1, <2>2, <2>3 DEF IInv, TypeOK
<1>6. ListInv' /\ OnceInv' /\ NoStrandedItem' /\ EngineInv'
    BY <1>0, <1>1, <1>3 DEF IInv, ListInv, OnceInv, NoStrandedItem, EngineInv
<1>7. CountInv'
    BY <1>1, <1>2, <1>3, WorkQueueAssumption DEF IInv, CountInv
<1>8. FreshInv'
    <2>1. CASE ~valid
        <3>1. Active = {} /\ ~live /\ accepted = <<>> /\ taken = <<>>
            BY <2>1 DEF IInv, FreshInv
        <3>2. live' => live
            BY <3>1 DEF DestroyEnter, Destroy, DestroyLock, DestroyWake, DestroyMutex, DestroyCond,
                   SpuriousWakeup, fieldVars, Active
        <3> QED BY <1>1, <1>3, <3>1, <3>2 DEF FreshInv
    <2>2. CASE valid
        BY <1>1, <2>2 DEF FreshInv
    <2> QED BY <2>1, <2>2
<1>9. QuietInv'
    <2> SUFFICES ASSUME ~late' PROVE QuietInv'
        BY DEF QuietInv
    <2>1. /\ counter = Cardinality(Active)
          /\ dpc # "idle" => Adding = {}
          /\ dpc \in {"free mutex", "free cond", "done"} => Active = {}
          /\ ~live => Active = {}
        BY <1>0 DEF IInv, QuietInv
    <2>2. dpc' # "idle" => Adding = {}
        BY <1>0, <2>1
    <2>3. dpc' \in {"free mutex", "free cond", "done"} => Active = {}
        <3>1. \/ dpc' \notin {"free mutex", "free cond", "done"}
              \/ dpc \in {"free mutex", "free cond", "done"}
              \/ ~(counter > 0)
            BY DEF DestroyEnter, Destroy, DestroyLock, DestroyWake, DestroyMutex, DestroyCond,
                   SpuriousWakeup, WorkersLeft
        <3>2. ~(counter > 0) => Cardinality(Active) = 0
            <4>1. counter = Cardinality(Active)
                BY <2>1
            <4> QED BY <4>1, CounterRange
        <3> QED BY <2>1, <3>1, <3>2, FiniteActive, FS_EmptySet
    <2>4. ~live' => Active = {}
        BY <1>4, <2>1
    <2> QED BY <1>1, <1>3, <2>1, <2>2, <2>3, <2>4 DEF QuietInv
<1> QED BY <1>5, <1>6, <1>7, <1>8, <1>9 DEF IInv

(* A worker falls asleep, or its engine call returns: it stays a worker    *)
(* and leaves the list alone.                                              *)
LEMMA StayStep ==
    ASSUME IInv, NEW w \in Workers, Sleep(w) \/ EngineReturns(w)
    PROVE  IInv'
<1>1. UNCHANGED <<valid, live, quit, counter, idle, first, last, next, accepted, apc, dpc, taken,
                failed, late>>
    BY DEF Sleep, EngineReturns, fieldVars, listVars, faultVars
<1>2. /\ wpc[w] # "off"
      /\ \/ wpc' = [wpc EXCEPT ![w] = "wait"] /\ cv' = cv \cup {w}
         \/ wpc[w] = "engine" /\ wpc' = [wpc EXCEPT ![w] = "relock"] /\ cv' = cv
    BY DEF Sleep, AtTop, Woken, EngineReturns, CondWait
<1>3. wpc' \in [Workers -> {"off", "new", "wait", "engine", "relock"}]
    BY <1>2, CounterRange
<1>4. Active' = Active
    BY <1>2, CounterRange DEF Active
<1>5. TypeOK'
    <2>1. timedout' \in [Workers -> BOOLEAN] /\ item' \in [Workers -> Items \cup {NULL}]
        BY DEF Sleep, EngineReturns, IInv, TypeOK
    <2>2. done' \in SUBSET Items
        <3>1. CASE Sleep(w)
            BY <3>1 DEF Sleep, IInv, TypeOK
        <3>2. CASE EngineReturns(w)
            BY <3>2 DEF EngineReturns, EngineInv, IInv, TypeOK
        <3> QED BY <3>1, <3>2
    <2>3. cv' \in SUBSET (Workers \cup {Destroyer})
        BY <1>2 DEF IInv, TypeOK
    <2> QED BY <1>1, <1>3, <2>1, <2>2, <2>3 DEF IInv, TypeOK
<1>6. ListInv' /\ OnceInv' /\ NoStrandedItem' /\ FreshInv'
    BY <1>1, <1>4 DEF IInv, ListInv, OnceInv, NoStrandedItem, FreshInv
<1>7. CountInv'
    <2>1. \A u \in Workers : u \in cv' => wpc'[u] = "wait"
        BY <1>2, CounterRange DEF IInv, CountInv
    <2> QED BY <1>1, <1>4, <2>1 DEF IInv, CountInv
<1>8. QuietInv'
    BY <1>1, <1>4 DEF IInv, QuietInv, Adding
<1>9. EngineInv'
    <2>1. \A u \in Workers : wpc'[u] = "engine" => u # w /\ wpc[u] = "engine"
        BY <1>2, CounterRange
    <2>2. \A u \in Workers : u # w => item'[u] = item[u]
        BY DEF Sleep, EngineReturns, IInv, TypeOK
    <2> QED BY <2>1, <2>2 DEF IInv, EngineInv
<1> QED BY <1>5, <1>6, <1>7, <1>8, <1>9 DEF IInv

(* Unlinking the first item keeps the rest of the list. *)
LEMMA UnlinkStep ==
    ASSUME IInv, NEW w \in Workers, ~Empty, Unlink(w), UNCHANGED <<next, accepted>>
    PROVE  /\ ListInv'
           /\ first \in Items
           /\ first' \in Items \cup {NULL} /\ last' \in Items \cup {NULL} /\ taken' \in Seq(Items)
<1> DEFINE m == Len(accepted)
           n == Len(taken)
<1>1. accepted \in Seq(Items) /\ taken \in Seq(Items) /\ m \in Nat /\ n \in Nat /\ n <= m
      /\ \A k \in 1 .. m : accepted[k] \in Items
    BY AcceptedItems DEF IInv, ListInv
<1>2. next \in [Items -> Items \cup {NULL}] /\ NULL \notin Items
    BY WorkQueueAssumption DEF IInv, TypeOK
<1>3. n < m
    BY <1>1 DEF IInv, ListInv, Empty
<1>4. /\ first = accepted[n + 1] /\ last = accepted[m] /\ next[accepted[m]] = NULL
      /\ \A k \in n + 1 .. m - 1 : next[accepted[k]] = accepted[k + 1]
    BY <1>3 DEF IInv, ListInv
<1>5. n + 1 \in 1 .. m /\ m \in 1 .. m
    BY <1>1, <1>3
<1>6. first \in Items /\ last \in Items
    BY <1>1, <1>4, <1>5
<1>7. /\ first' = next[first] /\ taken' = Append(taken, first)
      /\ last' = IF last = first THEN NULL ELSE last
      /\ next' = next /\ accepted' = accepted
    BY DEF Unlink
<1>8. /\ Len(taken') = n + 1 /\ taken'[n + 1] = first /\ taken' \in Seq(Items)
      /\ \A k \in 1 .. n : taken'[k] = taken[k]
    BY <1>1, <1>6, <1>7
<1>9. \A k \in 1 .. Len(taken') : taken'[k] = accepted'[k]
    <2>1. \A k \in 1 .. n : taken[k] = accepted[k]
        BY DEF IInv, ListInv
    <2>2. \A k \in 1 .. n + 1 : k \in 1 .. n \/ k = n + 1
        BY <1>1
    <2> QED BY <1>4, <1>7, <1>8, <2>1, <2>2
<1>10. CASE n + 1 = m
    <2>1. first' = NULL
        BY <1>4, <1>7, <1>10
    <2>2. \A k \in Len(taken') + 1 .. Len(accepted') - 1 : next'[accepted'[k]] = accepted'[k + 1]
        BY <1>1, <1>7, <1>8, <1>10
    <2>3. Len(taken') = Len(accepted') /\ Len(taken') <= Len(accepted') /\ ~(Len(taken') < Len(accepted'))
        BY <1>1, <1>7, <1>8, <1>10
    <2> QED BY <1>2, <1>6, <1>7, <1>8, <1>9, <2>1, <2>2, <2>3 DEF ListInv
<1>11. CASE n + 1 < m
    <2>1. n + 1 \in n + 1 .. m - 1 /\ n + 1 # m /\ n + 2 \in 1 .. m
        BY <1>1, <1>11
    <2>2. first' = accepted[n + 2]
        BY <1>1, <1>4, <1>7, <2>1
    <2>3. last # first
        BY <1>4, <1>5, <2>1 DEF IInv, OnceInv
    <2>4. \A k \in Len(taken') + 1 .. Len(accepted') - 1 : next'[accepted'[k]] = accepted'[k + 1]
        <3>1. \A k \in n + 2 .. m - 1 : k \in n + 1 .. m - 1
            BY <1>1
        <3> QED BY <1>1, <1>4, <1>7, <1>8, <3>1
    <2>5. Len(taken') # Len(accepted') /\ Len(taken') <= Len(accepted')
        BY <1>1, <1>7, <1>8, <1>11
    <2>6. first' = accepted'[Len(taken') + 1]
        BY <1>1, <1>7, <1>8, <2>2
    <2>7. last' = accepted'[Len(accepted')] /\ next'[accepted'[Len(accepted')]] = NULL
        BY <1>4, <1>7, <2>3
    <2>8. first' \in Items
        BY <1>1, <2>1, <2>2
    <2> QED BY <1>6, <1>7, <1>8, <1>9, <2>3, <2>4, <2>5, <2>6, <2>7, <2>8 DEF ListInv
<1> QED BY <1>1, <1>3, <1>10, <1>11

(* A worker takes the first item, after its wait timed out or not. *)
LEMMA TakeStep ==
    ASSUME IInv, NEW w \in Workers, Take(w) \/ TimeoutTake(w)
    PROVE  IInv'
<1>1. /\ UNCHANGED <<valid, live, quit, counter, idle, next, accepted, apc, dpc, done,
                   failed, late>>
      /\ ~Empty /\ Unlink(w) /\ cv' \subseteq cv /\ w \notin cv'
    <2>1. wpc[w] # "wait" => w \notin cv
        BY DEF IInv, CountInv
    <2> QED BY <2>1 DEF Take, TimeoutTake, fieldVars, faultVars, CondLeave, Woken, AtTop
<1>2. wpc' = [wpc EXCEPT ![w] = "engine"] /\ item' = [item EXCEPT ![w] = first]
    BY <1>1 DEF Unlink
<1>3. wpc[w] # "off"
    BY DEF Take, TimeoutTake, Woken, AtTop, IInv, CountInv
<1>4. Active' = Active
    BY <1>2, <1>3, CounterRange DEF Active
<1>5. /\ ListInv' /\ first \in Items
      /\ first' \in Items \cup {NULL} /\ last' \in Items \cup {NULL} /\ taken' \in Seq(Items)
    BY <1>1, UnlinkStep
<1>6. item \in [Workers -> Items \cup {NULL}]
    BY DEF IInv, TypeOK
<1>7. TypeOK'
    <2>1. wpc' \in [Workers -> {"off", "new", "wait", "engine", "relock"}]
        BY <1>2, CounterRange
    <2>2. item' \in [Workers -> Items \cup {NULL}]
        BY <1>2, <1>5, <1>6
    <2>3. timedout' \in [Workers -> BOOLEAN]
        BY DEF Take, TimeoutTake, IInv, TypeOK
    <2> QED BY <1>1, <1>5, <2>1, <2>2, <2>3 DEF IInv, TypeOK
<1>8. OnceInv'
    BY <1>1 DEF IInv, OnceInv
<1>9. FreshInv'
    BY <1>1, <1>3, <1>4 DEF IInv, FreshInv, Active
<1>10. CountInv'
    <2>1. \A u \in Workers : u \in cv' => wpc'[u] = "wait"
        BY <1>1, <1>2, CounterRange DEF IInv, CountInv
    <2> QED BY <1>1, <1>4, <2>1 DEF IInv, CountInv
<1>11. QuietInv'
    BY <1>1, <1>4 DEF IInv, QuietInv, Adding
<1>12. NoStrandedItem'
    BY <1>3, <1>4 DEF NoStrandedItem, Active
<1>13. EngineInv'
    BY <1>2, <1>5, <1>6, CounterRange DEF IInv, EngineInv
<1> QED BY <1>5, <1>7, <1>8, <1>9, <1>10, <1>11, <1>12, <1>13 DEF IInv

(* A worker leaves.  It is counted out, unless the mutex is gone, and it   *)
(* leaves an empty queue, unless its wait failed or the mutex is gone.     *)
LEMMA LeaveStep ==
    ASSUME IInv, NEW w \in Workers,
           QuitExit(w) \/ IdleExit(w) \/ TimedwaitFails(w) \/ WorkerMutexGone(w)
    PROVE  IInv'
<1>1. /\ UNCHANGED <<valid, live, quit, idle, first, last, next, accepted, apc, dpc, item, timedout,
                      taken, done, late>>
      /\ failed \subseteq failed' /\ failed' \in SUBSET {"create", "timedwait"}
      /\ wpc' = [wpc EXCEPT ![w] = "off"]
      /\ cv' \subseteq cv
    BY DEF QuitExit, IdleExit, TimedwaitFails, WorkerMutexGone, fieldVars, listVars, faultVars,
           CondLeave, LastOneWakes, CondBroadcast, IInv, TypeOK
<1>2. wpc[w] # "off"
    BY DEF QuitExit, IdleExit, TimedwaitFails, WorkerMutexGone, Woken, IInv, CountInv
<1>3. w \notin cv'
    <2>1. wpc[w] # "wait" => w \notin cv
        BY DEF IInv, CountInv
    <2> QED BY <2>1 DEF QuitExit, IdleExit, TimedwaitFails, WorkerMutexGone, CondLeave, LastOneWakes,
               CondBroadcast
<1>4. Active' = Active \ {w} /\ w \in Active
    BY <1>1, <1>2, CounterRange DEF Active
<1>5. Cardinality(Active') = Cardinality(Active) - 1 /\ Cardinality(Active) \in Nat \ {0}
    BY <1>4, FiniteActive, FS_RemoveElement, FS_EmptySet
<1>6. counter' = counter - 1 \/ (counter' = counter /\ ~live)
    BY DEF QuitExit, IdleExit, TimedwaitFails, WorkerMutexGone, CountOut, fieldVars
<1>7. counter' \in 0 .. parallelism /\ Cardinality(Active') <= counter'
    BY <1>5, <1>6, CounterRange
<1>8. TypeOK'
    <2>1. wpc' \in [Workers -> {"off", "new", "wait", "engine", "relock"}]
        BY <1>1, CounterRange
    <2> QED BY <1>1, <1>7, <2>1 DEF IInv, TypeOK
<1>9. ListInv' /\ OnceInv'
    BY <1>1 DEF IInv, ListInv, OnceInv
<1>10. FreshInv'
    BY <1>1, <1>4 DEF IInv, FreshInv
<1>11. CountInv'
    <2>1. \A u \in Workers : u \in cv' => wpc'[u] = "wait"
        BY <1>1, <1>3, CounterRange DEF IInv, CountInv
    <2> QED BY <1>7, <2>1 DEF CountInv
<1>12. QuietInv'
    <2> SUFFICES ASSUME ~late' PROVE QuietInv'
        BY DEF QuietInv
    <2>1. counter = Cardinality(Active) /\ live
        BY <1>1, <1>4 DEF IInv, QuietInv
    <2>2. counter' = Cardinality(Active')
        BY <1>5, <1>6, <2>1
    <2> QED BY <1>1, <1>4, <2>2 DEF IInv, QuietInv, Adding
<1>13. NoStrandedItem'
    <2> SUFFICES ASSUME failed' = {}, ~late' PROVE first' = NULL
        BY DEF NoStrandedItem
    <2>1. live
        BY <1>1, <1>4 DEF IInv, QuietInv
    <2> QED BY <1>1, <2>1 DEF QuitExit, IdleExit, TimedwaitFails, WorkerMutexGone, QuitTest, IdleTest, Empty
<1>14. EngineInv'
    BY <1>1, CounterRange DEF IInv, EngineInv
<1> QED BY <1>8, <1>9, <1>10, <1>11, <1>12, <1>13, <1>14 DEF IInv

(* Every step preserves the invariant. *)
LEMMA NextIInv == IInv /\ [Next]_vars => IInv'
<1> SUFFICES ASSUME IInv, [Next]_vars PROVE IInv'
    OBVIOUS
<1>1. CASE WorkqInit
    BY <1>1, InitStep
<1>2. ASSUME NEW i \in Items, AddEnter(i) \/ Add(i) PROVE IInv'
    BY <1>2, AddOutsideStep, AddLockStep DEF Add
<1>3. ASSUME NEW w \in Workers, Worker(w) \/ TimedwaitFails(w) PROVE IInv'
    BY <1>3, StayStep, TakeStep, LeaveStep DEF Worker
<1>4. CASE DestroyEnter \/ Destroy \/ \E t \in Workers \cup {Destroyer} : SpuriousWakeup(t)
    BY <1>4, DestroyStep
<1>5. CASE UNCHANGED vars
    <2> USE <1>5 DEF vars, fieldVars, listVars, workerVars, faultVars
    <2>1. TypeOK' /\ EngineInv'
        BY DEF IInv, TypeOK, EngineInv
    <2>2. Active' = Active /\ Adding' = Adding
        BY DEF Active, Adding
    <2>3. ListInv' /\ OnceInv'
        BY DEF IInv, ListInv, OnceInv
    <2>4. FreshInv' /\ CountInv' /\ NoStrandedItem'
        BY <2>2 DEF IInv, FreshInv, CountInv, NoStrandedItem
    <2>5. QuietInv'
        BY <2>2 DEF IInv, QuietInv
    <2> QED BY <2>1, <2>3, <2>4, <2>5 DEF IInv
<1> QED BY <1>1, <1>2, <1>3, <1>4, <1>5 DEF Next

-------------------------------------------------------------------------------
(* The invariant holds in every reachable state. *)
THEOREM WorkQueueInductive == Spec => []IInv
BY InitIInv, NextIInv, PTL DEF Spec

(* The fields stay in their ranges: there are never more workers counted   *)
(* than the parallelism allows, nor fewer than none.                       *)
THEOREM WorkQueueTypeOK == Spec => []TypeOK
<1>1. IInv => TypeOK
    BY DEF IInv
<1> QED BY <1>1, WorkQueueInductive, PTL

(* The linked list is a first-in first-out queue. *)
THEOREM WorkQueueFifo == Spec => []QueueIsFifo
<1>1. IInv => QueueIsFifo
    <2> SUFFICES ASSUME IInv PROVE QueueIsFifo
        OBVIOUS
    <2>1. Len(taken) <= Len(accepted) /\ \A n \in 1 .. Len(taken) : taken[n] = accepted[n]
        BY DEF IInv, ListInv
    <2>2. CASE Len(taken) = Len(accepted)
        BY <2>1, <2>2 DEF IInv, ListInv, QueueIsFifo
    <2>3. CASE Len(taken) < Len(accepted)
        <3>1. Len(taken) + 1 \in 1 .. Len(accepted)
            BY <2>3, AcceptedItems
        <3>2. first \in Items
            BY <2>3, <3>1, AcceptedItems DEF IInv, ListInv
        <3> QED BY <2>1, <2>3, <3>2, WorkQueueAssumption, AcceptedItems DEF QueueIsFifo
    <2> QED BY <2>1, <2>2, <2>3, AcceptedItems
<1> QED BY <1>1, WorkQueueInductive, PTL

(* The workers are never more than allowed, and they are counted. *)
THEOREM WorkQueueCounter == Spec => []CounterAccurate
<1>1. IInv => CounterAccurate
    <2> SUFFICES ASSUME IInv PROVE CounterAccurate
        OBVIOUS
    <2>1. Cardinality(Active) <= parallelism
        BY CounterRange, FiniteActive
    <2>2. ~late => counter = Cardinality(Active)
        BY DEF IInv, QuietInv
    <2> QED BY <2>1, <2>2 DEF CounterAccurate
<1> QED BY <1>1, WorkQueueInductive, PTL

(* No item is left without a worker. *)
THEOREM WorkQueueNotStranded == Spec => []NoStrandedItem
<1>1. IInv => NoStrandedItem
    BY DEF IInv
<1> QED BY <1>1, WorkQueueInductive, PTL

(* When the clients stop adding first, a destroyed queue has no workers    *)
(* and, if no library call failed, no items.                               *)
THEOREM WorkQueueDestroyed == Spec => []DestroyedMeansQuiet
<1>1. IInv => DestroyedMeansQuiet
    BY DEF IInv, QuietInv, NoStrandedItem, DestroyedMeansQuiet
<1> QED BY <1>1, WorkQueueInductive, PTL
===============================================================================
