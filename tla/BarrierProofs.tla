----------------------------- MODULE BarrierProofs -----------------------------
(* Proofs about Barrier, for every set of threads, threshold and modulus,  *)
(* and about BarrierMain, the program that uses it.                        *)
EXTENDS BarrierMain, TLAPS, FiniteSetTheorems

Full == Cardinality(Threads) = threshold

\* What is known of a thread inside the waiting loop.
WaiterInv(t) ==
    /\ t \in nocancel
    /\ ticket[t] <= gen
    /\ passed[t] <= ticket[t]
    /\ Full => passed[t] = ticket[t]
    /\ arrived[t] = passed[t] + 1
    /\ ticket[t] = gen => my_cycle[t] = cycle
    /\ ticket[t] + 1 = gen => cycle = (my_cycle[t] + 1) % CycleModulus

\* The inductive invariant.  Lockstep follows from passed[t] <= gen <= arrived[u].
IInv ==
    /\ TypeOK
    /\ live => counter >= 1
    /\ ~live => Waiting = {}
    /\ cv \subseteq Waiting
    /\ CounterCountsWaiters
    /\ SleepersAreCurrent
    /\ \A t \in Waiting : WaiterInv(t)
    /\ \A t \in Threads : pc[t] # "wait" => passed[t] = arrived[t]
    /\ \A t \in Threads : passed[t] <= gen
    /\ Full => \A t \in Threads : gen <= arrived[t]

-------------------------------------------------------------------------------
(* The cycle number stays in its range, and a step always changes it. *)
LEMMA CycleStep ==
    ASSUME NEW M \in Nat \ {0, 1}, NEW c \in 0 .. M - 1
    PROVE  (c + 1) % M \in 0 .. M - 1 /\ (c + 1) % M # c
<1>1. CASE c + 1 < M
    <2>1. (c + 1) % M = c + 1
        BY <1>1
    <2> QED BY <2>1, <1>1
<1>2. CASE c + 1 = M
    <2>1. M % M = 0
        BY SMT
    <2> QED BY <2>1, <1>2
<1> QED BY <1>1, <1>2

(* The waiters of the current cycle are finitely many. *)
LEMMA FiniteWaiters ==
    /\ IsFiniteSet(CurrentWaiters)
    /\ Cardinality(CurrentWaiters) \in Nat
<1>1. CurrentWaiters \in SUBSET Threads
    BY DEF CurrentWaiters, Waiting
<1>2. IsFiniteSet(CurrentWaiters)
    BY <1>1, BarrierAssumption, FS_Subset
<1> QED BY <1>2, FS_CardinalityType

(* The initial states satisfy the invariant: nobody waits. *)
LEMMA InitIInv == Init => IInv
<1> SUFFICES ASSUME Init PROVE IInv
    OBVIOUS
<1> USE BarrierAssumption
<1>1. Waiting = {}
    BY DEF Init, Waiting
<1>2. 0 \in 0 .. threshold /\ 0 \in 0 .. CycleModulus - 1
    OBVIOUS
<1>3. TypeOK
    BY <1>2 DEF Init, TypeOK, Status
<1> QED BY <1>1, <1>3 DEF Init, IInv, CounterCountsWaiters, SleepersAreCurrent, CurrentWaiters, Full

(* A step that leaves the waiters, their places and their history alone    *)
(* only has to keep the counter of a barrier that has waiters.             *)
LEMMA QuietStep ==
    ASSUME IInv, TypeOK',
           Waiting' = Waiting,
           UNCHANGED <<cycle, my_cycle, nocancel, gen, ticket, arrived, passed>>,
           cv' \subseteq cv,
           (counter' >= 1 /\ counter' = threshold - Cardinality(CurrentWaiters)) \/ ~live',
           ~live' => Waiting = {},
           \A t \in Threads : pc'[t] = "wait" <=> pc[t] = "wait"
    PROVE  IInv' /\ CurrentWaiters' = CurrentWaiters
<1>1. CurrentWaiters' = CurrentWaiters
    BY DEF CurrentWaiters
<1>2. CounterCountsWaiters' /\ SleepersAreCurrent'
    BY <1>1 DEF CounterCountsWaiters, SleepersAreCurrent, IInv
<1>3. \A t \in Waiting' : WaiterInv(t)'
    BY DEF IInv, WaiterInv
<1> QED BY <1>1, <1>2, <1>3 DEF IInv, Full

(* The steps of the owner. *)
LEMMA OwnerStep ==
    ASSUME IInv, Owner
    PROVE  IInv' /\ CurrentWaiters' = CurrentWaiters /\ Waiting' = Waiting
<1> USE BarrierAssumption
<1>1. Waiting' = Waiting /\ \A t \in Threads : pc'[t] = "wait" <=> pc[t] = "wait"
    BY DEF Owner, BarrierInit, BarrierInitFails, DestroyEnter, DestroyLock, DestroyMutex,
           DestroyCond, Waiting
<1>0. threshold \in 0 .. threshold
    OBVIOUS
<1>2. TypeOK'
    <2> USE <1>0 DEF IInv, TypeOK, Status, fieldVars, historyVars
    <2>1. CASE BarrierInit
        BY <2>1 DEF BarrierInit
    <2>5. CASE BarrierInitFails
        BY <2>5 DEF BarrierInitFails
    <2>2. CASE DestroyEnter \/ DestroyCond
        BY <2>2 DEF DestroyEnter, DestroyCond
    <2>3. CASE DestroyLock
        BY <2>3 DEF DestroyLock
    <2>4. CASE DestroyMutex
        BY <2>4 DEF DestroyMutex
    <2> QED BY <2>1, <2>2, <2>3, <2>4, <2>5 DEF Owner
<1>3. UNCHANGED <<cycle, my_cycle, nocancel, gen, ticket, arrived, passed, cv>>
    BY DEF Owner, BarrierInit, BarrierInitFails, DestroyEnter, DestroyLock, DestroyMutex,
           DestroyCond, fieldVars, historyVars
<1>4. Unused => Cardinality(CurrentWaiters) = 0
    BY FS_EmptySet DEF Unused, CurrentWaiters, Waiting
<1>5. /\ (counter' >= 1 /\ counter' = threshold - Cardinality(CurrentWaiters)) \/ ~live'
      /\ ~live' => Waiting = {}
    <2>1. CASE BarrierInit
        BY <2>1, <1>4 DEF BarrierInit
    <2>2. CASE BarrierInitFails
        BY <2>2 DEF BarrierInitFails, Unused, IInv
    <2>3. CASE DestroyEnter \/ DestroyLock \/ DestroyCond
        <3>1. live' = live /\ counter' = counter
            BY <2>3 DEF DestroyEnter, DestroyLock, DestroyCond, fieldVars
        <3> QED BY <3>1, Zenon DEF IInv, CounterCountsWaiters
    <2>4. CASE DestroyMutex
        BY <2>4 DEF DestroyMutex, IInv, CounterCountsWaiters
    <2> QED BY <2>1, <2>2, <2>3, <2>4 DEF Owner
<1> QED BY <1>1, <1>2, <1>3, <1>5, QuietStep

(* Entering, failing to enter, waking spuriously and being cancelled       *)
(* change no thread's place at the barrier.                                *)
LEMMA OutsideStep ==
    ASSUME IInv, NEW t \in Threads,
           WaitEnter(t) \/ WaitOnDestroyed(t) \/ SpuriousWakeup(t) \/ Cancel(t)
    PROVE  IInv' /\ CurrentWaiters' = CurrentWaiters /\ Waiting' = Waiting
<1> USE DEF fieldVars, ownerVars, historyVars
<1>0. t \in cv => t \in nocancel
    BY DEF IInv, WaiterInv
<1>1. \A u \in Threads : pc'[u] = "wait" <=> pc[u] = "wait"
    BY <1>0 DEF WaitEnter, WaitOnDestroyed, SpuriousWakeup, Cancel, IInv, TypeOK
<1>2. Waiting' = Waiting
    BY <1>1 DEF Waiting
<1>3. TypeOK'
    BY DEF WaitEnter, WaitOnDestroyed, SpuriousWakeup, Cancel, CondLeave, IInv, TypeOK, Status
<1>4. UNCHANGED <<cycle, my_cycle, nocancel, gen, ticket, arrived, passed, counter, live>>
    BY DEF WaitEnter, WaitOnDestroyed, SpuriousWakeup, Cancel
<1>5. cv' \subseteq cv
    BY DEF WaitEnter, WaitOnDestroyed, SpuriousWakeup, Cancel, CondLeave
<1> QED BY <1>1, <1>2, <1>3, <1>4, <1>5, QuietStep DEF IInv, CounterCountsWaiters

(* The last arrival of a full barrier finds every other thread waiting.    *)
LEMMA EverybodyIsHere ==
    ASSUME IInv, Full, live, counter = 1, NEW t \in Threads, pc[t] = "enter"
    PROVE  CurrentWaiters = Threads \ {t}
<1> USE BarrierAssumption
<1>1. CurrentWaiters \in SUBSET (Threads \ {t})
    BY DEF CurrentWaiters, Waiting
<1>2. IsFiniteSet(Threads \ {t}) /\ Cardinality(Threads \ {t}) = threshold - 1
    BY FS_RemoveElement DEF Full
<1>3. Cardinality(CurrentWaiters) = threshold - 1
    BY FiniteWaiters DEF IInv, CounterCountsWaiters
<1> QED BY <1>1, <1>2, <1>3, FS_Subset

(* The arrival that completes a cycle. *)
LEMMA WaitLastStep ==
    ASSUME IInv, NEW t \in Threads, WaitLast(t)
    PROVE  IInv' /\ CurrentWaiters' = {} /\ Waiting' = Waiting
<1> USE BarrierAssumption
<1>0. TypeOK /\ pc[t] = "enter" /\ live /\ counter = 1
    BY DEF IInv, WaitLast
<1>1. /\ pc' = [pc EXCEPT ![t] = "idle"]
      /\ counter' = threshold
      /\ cv' = {}
      /\ UNCHANGED <<valid, live, opc, oret, my_cycle, nocancel, ticket>>
    BY DEF WaitLast, RestoreCounter, WakeAll, CondBroadcast, ownerVars
<1>2. /\ gen' = gen + 1
      /\ arrived' = [arrived EXCEPT ![t] = @ + 1]
      /\ passed' = [passed EXCEPT ![t] = @ + 1]
    BY DEF WaitLast, Arrived, Returned
<1>3. cycle' = (cycle + 1) % CycleModulus /\ cycle' \in 0 .. CycleModulus - 1
    BY <1>0, CycleStep DEF WaitLast, NextCycle, TypeOK
<1>4. gen \in Nat /\ ticket \in [Threads -> Nat] /\ arrived \in [Threads -> Nat]
      /\ passed \in [Threads -> Nat]
    BY <1>0 DEF TypeOK
<1>5. /\ Waiting' = Waiting
      /\ \A u \in Threads : pc'[u] = "wait" <=> pc[u] = "wait"
    BY <1>0, <1>1 DEF Waiting, TypeOK
<1>6. \A u \in Waiting : u \in Threads /\ u # t /\ WaiterInv(u)
    BY <1>0 DEF Waiting, IInv
<1>7. CurrentWaiters' = {}
    <2> SUFFICES ASSUME NEW u \in Waiting PROVE ticket[u] # gen + 1
        BY <1>1, <1>2, <1>5 DEF CurrentWaiters
    <2>1. ticket[u] <= gen /\ ticket[u] \in Nat
        BY <1>4, <1>6 DEF WaiterInv
    <2> QED BY <2>1, <1>4
<1>8. TypeOK'
    <2>1. ret' \in [Threads -> Status]
        BY <1>0 DEF WaitLast, Returned, UnlockStatus, TypeOK, Status
    <2>2. gen' \in Nat /\ arrived' \in [Threads -> Nat] /\ passed' \in [Threads -> Nat]
        BY <1>2, <1>4
    <2>3. counter' \in 0 .. threshold
        BY <1>1
    <2> QED BY <1>0, <1>1, <1>3, <2>1, <2>2, <2>3 DEF TypeOK
<1>9. CounterCountsWaiters' /\ SleepersAreCurrent'
    BY <1>1, <1>7, FS_EmptySet DEF CounterCountsWaiters, SleepersAreCurrent
<1>10. ASSUME NEW u \in Waiting' PROVE WaiterInv(u)'
    <2>1. u \in Threads /\ u # t /\ WaiterInv(u)
        BY <1>5, <1>6
    <2>2. passed'[u] = passed[u] /\ arrived'[u] = arrived[u]
        BY <2>1, <1>2, <1>4
    <2>3. ticket[u] \in Nat /\ ticket[u] <= gen
        BY <2>1, <1>4 DEF WaiterInv
    <2>4. ticket[u] <= gen + 1 /\ ticket[u] # gen + 1 /\ (ticket[u] + 1 = gen + 1 => ticket[u] = gen)
        BY <2>3, <1>4
    <2> QED BY <2>1, <2>2, <2>4, <1>1, <1>2, <1>3 DEF WaiterInv, Full
<1>11. \A u \in Threads : pc'[u] # "wait" => passed'[u] = arrived'[u]
    BY <1>0, <1>1, <1>2, <1>4 DEF IInv, TypeOK
<1>12. ASSUME NEW u \in Threads PROVE passed'[u] <= gen'
    <2>1. passed[u] <= gen
        BY DEF IInv
    <2> QED BY <2>1, <1>2, <1>4
<1>13. ASSUME Full, NEW u \in Threads PROVE gen' <= arrived'[u]
    <2>1. CASE u = t
        <3>1. gen <= arrived[t]
            BY <1>13 DEF IInv
        <3> QED BY <2>1, <3>1, <1>2, <1>4
    <2>2. CASE u # t
        <3>1. u \in CurrentWaiters
            BY <2>2, <1>0, <1>13, EverybodyIsHere
        <3>2. ticket[u] = gen /\ passed[u] = ticket[u] /\ arrived[u] = passed[u] + 1
            BY <3>1, <1>6, <1>13 DEF WaiterInv, CurrentWaiters
        <3> QED BY <2>2, <3>2, <1>2, <1>4
    <2> QED BY <2>1, <2>2
<1>14. counter' >= 1 /\ live' /\ cv' \subseteq Waiting'
    BY <1>0, <1>1
<1> QED BY <1>5, <1>7, <1>8, <1>9, <1>10, <1>11, <1>12, <1>13, <1>14 DEF IInv, Full

(* An arrival that waits. *)
LEMMA WaitBlockStep ==
    ASSUME IInv, NEW t \in Threads, WaitBlock(t)
    PROVE  /\ IInv'
           /\ CurrentWaiters' = CurrentWaiters \cup {t}
           /\ Waiting' = Waiting \cup {t}
<1> USE BarrierAssumption
<1>0. TypeOK /\ pc[t] = "enter" /\ live /\ counter # 1 /\ counter >= 1
    BY DEF IInv, WaitBlock
<1>1. /\ pc' = [pc EXCEPT ![t] = "wait"]
      /\ ticket' = [ticket EXCEPT ![t] = gen]
      /\ my_cycle' = [my_cycle EXCEPT ![t] = cycle]
      /\ arrived' = [arrived EXCEPT ![t] = @ + 1]
    BY DEF WaitBlock, Arrived
<1>2. /\ counter' = counter - 1
      /\ cv' = cv \cup {t}
      /\ nocancel' = nocancel \cup {t}
      /\ UNCHANGED <<valid, live, cycle, opc, oret, ret, gen, passed>>
    BY DEF WaitBlock, CondWait, DisableCancel, ownerVars
<1>3. gen \in Nat /\ ticket \in [Threads -> Nat] /\ arrived \in [Threads -> Nat]
      /\ passed \in [Threads -> Nat] /\ counter \in 0 .. threshold
    BY <1>0 DEF TypeOK
<1>4. Waiting' = Waiting \cup {t} /\ t \notin Waiting
    BY <1>0, <1>1 DEF Waiting, TypeOK
<1>5. CurrentWaiters' = CurrentWaiters \cup {t} /\ t \notin CurrentWaiters
    <2>1. \A u \in Waiting : u \in Threads /\ ticket'[u] = ticket[u]
        BY <1>1, <1>3, <1>4 DEF Waiting
    <2>2. ticket'[t] = gen
        BY <1>1, <1>3
    <2> QED BY <2>1, <2>2, <1>2, <1>4 DEF CurrentWaiters
<1>6. TypeOK'
    <2>1. counter' \in 0 .. threshold
        BY <1>0, <1>2, <1>3
    <2>2. arrived' \in [Threads -> Nat]
        BY <1>1, <1>3
    <2> QED BY <1>0, <1>1, <1>2, <2>1, <2>2 DEF TypeOK
<1>7. CounterCountsWaiters'
    <2>1. Cardinality(CurrentWaiters') = Cardinality(CurrentWaiters) + 1
        BY <1>5, FiniteWaiters, FS_AddElement
    <2>2. counter = threshold - Cardinality(CurrentWaiters)
        BY <1>0 DEF IInv, CounterCountsWaiters
    <2> QED BY <2>1, <2>2, <1>2, FiniteWaiters DEF CounterCountsWaiters
<1>8. SleepersAreCurrent' /\ cv' \subseteq Waiting'
    BY <1>2, <1>4, <1>5 DEF IInv, SleepersAreCurrent
<1>9. ASSUME NEW u \in Waiting' PROVE WaiterInv(u)'
    <2>1. CASE u = t
        <3>1. passed[t] = arrived[t] /\ passed[t] <= gen /\ (Full => gen <= arrived[t])
            BY <1>0 DEF IInv
        <3>2. ticket'[t] = gen /\ arrived'[t] = arrived[t] + 1 /\ my_cycle'[t] = cycle
            BY <1>0, <1>1, <1>3 DEF TypeOK
        <3>3. gen <= gen /\ gen + 1 # gen /\ (Full => passed[t] = gen)
            BY <3>1, <1>3
        <3> QED BY <2>1, <3>1, <3>2, <3>3, <1>2 DEF WaiterInv, Full
    <2>2. CASE u # t
        <3>1. u \in Threads /\ WaiterInv(u)
            BY <2>2, <1>4 DEF IInv, Waiting
        <3>2. ticket'[u] = ticket[u] /\ arrived'[u] = arrived[u] /\ my_cycle'[u] = my_cycle[u]
            BY <2>2, <3>1, <1>0, <1>1, <1>3 DEF TypeOK
        <3> QED BY <3>1, <3>2, <1>2 DEF WaiterInv, Full
    <2> QED BY <2>1, <2>2
<1>10. ASSUME NEW u \in Threads PROVE pc'[u] # "wait" => passed'[u] = arrived'[u]
    BY <1>0, <1>1, <1>2, <1>3 DEF IInv, TypeOK
<1>11. \A u \in Threads : passed'[u] <= gen'
    BY <1>2 DEF IInv
<1>12. ASSUME Full, NEW u \in Threads PROVE gen' <= arrived'[u]
    <2>1. gen <= arrived[u]
        BY <1>12 DEF IInv
    <2> QED BY <2>1, <1>1, <1>2, <1>3
<1>13. counter' >= 1 /\ live'
    BY <1>0, <1>2, <1>3
<1> QED BY <1>4, <1>5, <1>6, <1>7, <1>8, <1>9, <1>10, <1>11, <1>12, <1>13 DEF IInv, Full

(* A thread that finds its cycle still open goes back to sleep.  On a full *)
(* barrier it cannot belong to an older cycle.                             *)
LEMMA WaitAgainStep ==
    ASSUME IInv, NEW t \in Threads, WaitAgain(t)
    PROVE  IInv' /\ CurrentWaiters' = CurrentWaiters /\ Waiting' = Waiting
<1> USE BarrierAssumption
<1>0. TypeOK /\ t \in Waiting /\ my_cycle[t] = cycle
    BY DEF IInv, WaitAgain, SameCycle, Waiting
<1>1. cv' = cv \cup {t}
    BY DEF WaitAgain, CondWait
<1>2. UNCHANGED <<fieldVars, ownerVars, pc, my_cycle, nocancel, ret, historyVars>>
    BY DEF WaitAgain
<1>3. Waiting' = Waiting /\ CurrentWaiters' = CurrentWaiters
    BY <1>2 DEF Waiting, CurrentWaiters, historyVars
<1>4. TypeOK'
    BY <1>0, <1>1, <1>2 DEF TypeOK, fieldVars, ownerVars, historyVars
<1>5. Full => t \in CurrentWaiters
    <2> SUFFICES ASSUME Full, ticket[t] # gen PROVE FALSE
        BY <1>0 DEF CurrentWaiters
    <2>1. WaiterInv(t) /\ gen <= arrived[t]
        BY <1>0 DEF IInv
    <2>2. gen \in Nat /\ ticket[t] \in Nat /\ cycle \in 0 .. CycleModulus - 1
        BY <1>0 DEF TypeOK
    <2>3. ticket[t] <= gen /\ gen <= ticket[t] + 1
        BY <2>1 DEF WaiterInv
    <2>4. ticket[t] + 1 = gen
        BY <2>2, <2>3
    <2> QED BY <1>0, <2>1, <2>2, <2>4, CycleStep DEF WaiterInv
<1>6. SleepersAreCurrent'
    BY <1>1, <1>3, <1>5 DEF IInv, SleepersAreCurrent, Full
<1>7. CounterCountsWaiters'
    BY <1>2, <1>3 DEF IInv, CounterCountsWaiters, fieldVars
<1>8. \A u \in Waiting' : WaiterInv(u)'
    BY <1>2, <1>3 DEF IInv, WaiterInv, Full, fieldVars, historyVars
<1>9. /\ live' => counter' >= 1
      /\ ~live' => Waiting' = {}
      /\ cv' \subseteq Waiting'
    BY <1>0, <1>1, <1>2, <1>3 DEF IInv, fieldVars
<1> QED BY <1>2, <1>3, <1>4, <1>6, <1>7, <1>8, <1>9 DEF IInv, Full, historyVars

(* A thread that finds its cycle closed returns; its place was given back  *)
(* when the cycle was completed.                                           *)
LEMMA WaitReturnStep ==
    ASSUME IInv, NEW t \in Threads, WaitReturn(t)
    PROVE  /\ IInv'
           /\ CurrentWaiters' = CurrentWaiters
           /\ t \in Waiting \ CurrentWaiters
           /\ Waiting' = Waiting \ {t}
<1> USE BarrierAssumption
<1>0. TypeOK /\ t \in Waiting /\ t \notin cv /\ my_cycle[t] # cycle /\ WaiterInv(t)
    BY DEF IInv, WaitReturn, SameCycle, Waiting
<1>1. /\ pc' = [pc EXCEPT ![t] = "idle"]
      /\ passed' = [passed EXCEPT ![t] = @ + 1]
      /\ UNCHANGED <<fieldVars, cv, opc, oret, my_cycle, nocancel, gen, ticket, arrived>>
    BY DEF WaitReturn, Returned, ownerVars
<1>2. gen \in Nat /\ ticket \in [Threads -> Nat] /\ arrived \in [Threads -> Nat]
      /\ passed \in [Threads -> Nat]
    BY <1>0 DEF TypeOK
<1>3. t \notin CurrentWaiters
    BY <1>0 DEF CurrentWaiters, WaiterInv
<1>4. Waiting' = Waiting \ {t}
    BY <1>0, <1>1 DEF Waiting, TypeOK
<1>5. CurrentWaiters' = CurrentWaiters
    BY <1>1, <1>3, <1>4 DEF CurrentWaiters
<1>6. TypeOK'
    <2>1. ret' \in [Threads -> Status]
        BY <1>0 DEF WaitReturn, Returned, UnlockStatus, TypeOK, Status
    <2>2. passed' \in [Threads -> Nat]
        BY <1>1, <1>2
    <2> QED BY <1>0, <1>1, <2>1, <2>2 DEF TypeOK, fieldVars
<1>7. CounterCountsWaiters' /\ SleepersAreCurrent'
    BY <1>1, <1>5 DEF IInv, CounterCountsWaiters, SleepersAreCurrent, fieldVars
<1>8. ASSUME NEW u \in Waiting' PROVE WaiterInv(u)'
    <2>1. u \in Threads /\ u # t /\ WaiterInv(u)
        BY <1>4 DEF IInv, Waiting
    <2>2. passed'[u] = passed[u]
        BY <2>1, <1>1, <1>2
    <2> QED BY <2>1, <2>2, <1>1 DEF WaiterInv, Full, fieldVars
<1>9. t \in Threads /\ passed'[t] = passed[t] + 1 /\ arrived'[t] = passed'[t] /\ passed'[t] <= gen
    <2>1. passed'[t] = passed[t] + 1
        BY <1>1, <1>2
    <2>2. ticket[t] <= gen /\ passed[t] <= ticket[t] /\ arrived[t] = passed[t] + 1
        BY <1>0 DEF WaiterInv
    <2>3. ticket[t] # gen
        BY <1>0, <1>3 DEF CurrentWaiters
    <2> QED BY <2>1, <2>2, <2>3, <1>1, <1>2
<1>10. ASSUME NEW u \in Threads PROVE pc'[u] # "wait" => passed'[u] = arrived'[u]
    BY <1>0, <1>1, <1>2, <1>9 DEF IInv, TypeOK
<1>11. ASSUME NEW u \in Threads PROVE passed'[u] <= gen'
    <2>1. passed[u] <= gen
        BY DEF IInv
    <2> QED BY <2>1, <1>1, <1>2, <1>9
<1>12. /\ live' => counter' >= 1
       /\ ~live' => Waiting' = {}
       /\ cv' \subseteq Waiting'
    BY <1>0, <1>1, <1>4 DEF IInv, fieldVars
<1>13. Full' => \A u \in Threads : gen' <= arrived'[u]
    BY <1>1 DEF IInv, Full
<1> QED BY <1>3, <1>0, <1>4, <1>5, <1>6, <1>7, <1>8, <1>10, <1>11, <1>12, <1>13 DEF IInv

(* Every step preserves the invariant. *)
LEMMA NextIInv == IInv /\ [Next]_vars => IInv'
<1> SUFFICES ASSUME IInv, [Next]_vars PROVE IInv'
    OBVIOUS
<1>1. CASE Owner
    BY <1>1, OwnerStep
<1>2. ASSUME NEW t \in Threads, Thread(t) PROVE IInv'
    BY <1>2, OutsideStep, WaitLastStep, WaitBlockStep, WaitAgainStep, WaitReturnStep DEF Thread, Wait
<1>3. CASE UNCHANGED vars
    BY <1>3 DEF vars, fieldVars, ownerVars, historyVars, IInv, TypeOK, CounterCountsWaiters,
                SleepersAreCurrent, WaiterInv, Waiting, CurrentWaiters, Full
<1> QED BY <1>1, <1>2, <1>3 DEF Next

-------------------------------------------------------------------------------
(* The invariant holds in every reachable state. *)
THEOREM BarrierInductive == Spec => []IInv
BY InitIInv, NextIInv, PTL DEF Spec

(* The fields of the barrier and the threads' locals stay in their ranges; *)
(* in particular the counter is never decremented below zero.              *)
THEOREM BarrierTypeOK == Spec => []TypeOK
<1>1. IInv => TypeOK
    BY DEF IInv
<1> QED BY <1>1, BarrierInductive, PTL

(* The places taken in the counter belong to the threads that wait for the *)
(* current cycle.                                                          *)
THEOREM BarrierCounter == Spec => []CounterCountsWaiters
<1>1. IInv => CounterCountsWaiters
    BY DEF IInv
<1> QED BY <1>1, BarrierInductive, PTL

(* The threads of a full barrier run in lockstep, and only those of the    *)
(* current cycle sleep.                                                    *)
THEOREM BarrierLockstep == Spec => []Lockstep
<1>1. IInv => Lockstep
    <2> SUFFICES ASSUME IInv, Full, NEW t \in Threads, NEW u \in Threads
                 PROVE  passed[t] <= arrived[u]
        BY DEF Lockstep, Full, IInv
    <2>1. passed[t] <= gen /\ gen <= arrived[u]
        BY DEF IInv
    <2>2. gen \in Nat /\ passed[t] \in Nat /\ arrived[u] \in Nat
        BY DEF IInv, TypeOK
    <2> QED BY <2>1, <2>2
<1> QED BY <1>1, BarrierInductive, PTL

(* Every step of barrier.cxx is a step of the abstract barrier or leaves   *)
(* what its clients see as it was.                                         *)
LEMMA StepImplements ==
    IInv /\ [Next]_vars => [Abstract!Next]_(Abstract!abstractVars)
<1> SUFFICES ASSUME IInv, [Next]_vars
             PROVE  [Abstract!Next]_(Abstract!abstractVars)
    OBVIOUS
<1> USE BarrierAssumption
<1>0. Abstract!Cardinality(CurrentWaiters) = Cardinality(CurrentWaiters)
    BY DEF Abstract!Cardinality, Cardinality
<1>1. ASSUME CurrentWaiters' = CurrentWaiters, Waiting' = Waiting
      PROVE  UNCHANGED Abstract!abstractVars
    BY <1>1 DEF Abstract!abstractVars
<1>2. CASE Owner
    BY <1>1, <1>2, OwnerStep
<1>3. ASSUME NEW t \in Threads, Thread(t)
      PROVE  [Abstract!Next]_(Abstract!abstractVars)
    <2>1. CASE WaitEnter(t) \/ WaitOnDestroyed(t) \/ SpuriousWakeup(t) \/ Cancel(t)
        BY <2>1, <1>1, OutsideStep
    <2>2. CASE WaitLast(t)
        <3>1. t \notin Waiting /\ live /\ counter = 1
            BY <2>2 DEF WaitLast, Waiting
        <3>2. Cardinality(CurrentWaiters) + 1 = threshold
            BY <3>1, FiniteWaiters DEF IInv, CounterCountsWaiters
        <3>3. CurrentWaiters \subseteq Waiting
            BY DEF CurrentWaiters
        <3>4. Abstract!Complete(t)
            BY <1>0, <3>1, <3>2, <3>3, <2>2, WaitLastStep DEF Abstract!Complete
        <3> QED BY <3>4 DEF Abstract!Next
    <2>3. CASE WaitBlock(t)
        <3>1. t \notin Waiting /\ live /\ counter # 1 /\ counter >= 1
            BY <2>3 DEF WaitBlock, Waiting, IInv
        <3>2. Cardinality(CurrentWaiters) + 1 < threshold
            BY <3>1, FiniteWaiters DEF IInv, CounterCountsWaiters
        <3>3. CurrentWaiters \subseteq Waiting
            BY DEF CurrentWaiters
        <3>4. Abstract!Arrive(t)
            BY <1>0, <3>1, <3>2, <3>3, <2>3, WaitBlockStep DEF Abstract!Arrive
        <3> QED BY <3>4 DEF Abstract!Next
    <2>4. CASE WaitAgain(t)
        BY <2>4, <1>1, WaitAgainStep
    <2>5. CASE WaitReturn(t)
        <3>1. Abstract!Leave(t)
            BY <2>5, WaitReturnStep DEF Abstract!Leave
        <3> QED BY <3>1 DEF Abstract!Next
    <2> QED BY <1>3, <2>1, <2>2, <2>3, <2>4, <2>5 DEF Thread, Wait
<1>4. CASE UNCHANGED vars
    BY <1>4 DEF vars, historyVars, Abstract!abstractVars, CurrentWaiters, Waiting
<1> QED BY <1>2, <1>3, <1>4 DEF Next

(* barrier.cxx implements the abstract barrier. *)
THEOREM BarrierRefinement == Spec => ImplementsBarrier
<1>1. Init => Abstract!Init
    BY DEF Init, Abstract!Init, CurrentWaiters, Waiting
<1>2. IInv /\ [Next]_vars => [Abstract!Next]_(Abstract!abstractVars)
    BY StepImplements
<1> QED BY <1>1, <1>2, BarrierInductive, PTL DEF Spec, ImplementsBarrier, Abstract!Spec
-------------------------------------------------------------------------------
(* The program in barrier/main.cxx.  Each loop passes the barrier twice:   *)
(* where a thread is tells how often it passed, from the shares it did.    *)
ReturnedFromWait(t) == pc[t] = "idle" /\ ret[t] \in {"0", "-1"}

PlaceInv(t) ==
    /\ at[t] \in {"none", "top", "ended"} => pc[t] = "idle" /\ passed[t] = 2 * worked[t]
    /\ at[t] = "first" =>
          passed[t] = IF ReturnedFromWait(t) THEN 2 * worked[t] + 1 ELSE 2 * worked[t]
    /\ at[t] = "worked" => pc[t] = "idle" /\ passed[t] = 2 * worked[t] - 1
    /\ at[t] = "second" =>
          passed[t] = IF ReturnedFromWait(t) THEN 2 * worked[t] ELSE 2 * worked[t] - 1

MainIInv ==
    /\ at \in [Threads -> {"none", "top", "first", "worked", "second", "ended"}]
    /\ worked \in [Threads -> Nat]
    /\ \A t \in Threads : PlaceInv(t)
    /\ mpc = "done" => \A t \in Threads : at[t] = "ended"

(* The program takes no step that the barrier's clients may not take.      *)
LEMMA MainUsesBarrier == [MainNext]_allVars => [Next]_vars
BY DEF MainNext, allVars, Main, Routine, InitBarrier, CreateThread, JoinThreads, FirstWait, Work,
       SecondWait, EndLoop, Abort, EndThread, InBarrier, Next, Owner, Thread

(* Before main starts, no thread has worked or passed. *)
LEMMA MainInitIInv == MainInit => MainIInv
BY DEF MainInit, Init, MainIInv, PlaceInv

(* A step of the program by itself moves one thread at most. *)
LEMMA RoutineStep ==
    ASSUME TypeOK, MainIInv, NEW t \in Threads,
           Work(t) \/ EndLoop(t) \/ EndThread(t) \/ CreateThread(t)
    PROVE  MainIInv'
<1> USE DEF MainIInv
<1>1. /\ UNCHANGED <<pc, ret, passed>>
      /\ at' \in [Threads -> {"none", "top", "first", "worked", "second", "ended"}]
      /\ worked' \in [Threads -> Nat]
      /\ \A u \in Threads : u # t => at'[u] = at[u] /\ worked'[u] = worked[u]
    BY DEF Work, EndLoop, EndThread, CreateThread, Goto, vars, historyVars
<1>2. worked[t] \in Nat /\ passed[t] \in Nat
    BY DEF TypeOK
<1>3. PlaceInv(t)'
    <2>1. CASE Work(t)
        <3>1. ReturnedFromWait(t) /\ at[t] = "first" /\ worked'[t] = worked[t] + 1 /\ at'[t] = "worked"
            BY <2>1 DEF Work, Goto, ReturnedFromWait
        <3>2. passed[t] = 2 * worked[t] + 1
            BY <3>1 DEF PlaceInv
        <3> QED
            BY <1>1, <1>2, <3>1, <3>2 DEF PlaceInv, ReturnedFromWait
    <2>2. CASE EndLoop(t)
        <3>1. ReturnedFromWait(t) /\ at[t] = "second" /\ worked'[t] = worked[t] /\ at'[t] = "top"
            BY <2>2 DEF EndLoop, Goto, ReturnedFromWait
        <3>2. passed[t] = 2 * worked[t]
            BY <3>1 DEF PlaceInv
        <3> QED
            BY <1>1, <1>2, <3>1, <3>2 DEF PlaceInv, ReturnedFromWait
    <2>3. CASE EndThread(t) \/ CreateThread(t)
        <3>1. at[t] \in {"none", "top"} /\ worked'[t] = worked[t] /\ at'[t] \in {"top", "ended"}
            BY <2>3 DEF EndThread, CreateThread, Goto
        <3> QED
            BY <1>1, <3>1 DEF PlaceInv
    <2> QED
        BY <2>1, <2>2, <2>3
<1>4. \A u \in Threads : u # t => PlaceInv(u)'
    BY <1>1 DEF PlaceInv, ReturnedFromWait
<1>5. mpc' # "done"
    <2>1. at[t] # "ended"
        BY DEF Work, EndLoop, EndThread, CreateThread
    <2> QED
        BY <2>1 DEF Work, EndLoop, EndThread, CreateThread
<1> QED
    BY <1>1, <1>3, <1>4, <1>5

(* A call of barrier_wait, and a step inside it. *)
LEMMA CallStep ==
    ASSUME TypeOK, MainIInv, NEW t \in Threads,
           FirstWait(t) \/ SecondWait(t) \/ InBarrier(t)
              \/ (SpuriousWakeup(t) /\ UNCHANGED mainVars)
    PROVE  MainIInv'
<1> USE DEF MainIInv
<1>1. /\ UNCHANGED <<mpc, worked>>
      /\ at' \in [Threads -> {"none", "top", "first", "worked", "second", "ended"}]
      /\ \A u \in Threads : u # t => at'[u] = at[u]
    BY DEF FirstWait, SecondWait, InBarrier, Goto, mainVars
<1>2. worked[t] \in Nat /\ passed[t] \in Nat
    BY DEF TypeOK
<1>3. \A u \in Threads : u # t => pc'[u] = pc[u] /\ ret'[u] = ret[u] /\ passed'[u] = passed[u]
    BY DEF FirstWait, SecondWait, InBarrier, WaitEnter, Wait, WaitOnDestroyed, WaitLast, WaitBlock,
           WaitAgain, WaitReturn, SpuriousWakeup, Returned, historyVars, TypeOK
<1>4. \A u \in Threads : u # t => PlaceInv(u)'
    BY <1>1, <1>3 DEF PlaceInv, ReturnedFromWait
<1>5. PlaceInv(t)' /\ (mpc = "done" => at'[t] = "ended")
    <2>1. CASE FirstWait(t) \/ SecondWait(t)
        <3>1. /\ passed' = passed /\ ~ReturnedFromWait(t)'
            BY <2>1 DEF FirstWait, SecondWait, WaitEnter, ReturnedFromWait, historyVars, TypeOK
        <3>2. \/ at[t] = "top" /\ at'[t] = "first"
              \/ at[t] = "worked" /\ at'[t] = "second"
            BY <2>1 DEF FirstWait, SecondWait, Goto
        <3> QED
            BY <1>1, <1>2, <3>1, <3>2 DEF PlaceInv
    <2>2. CASE WaitOnDestroyed(t) /\ UNCHANGED mainVars
        <3>1. /\ passed' = passed /\ ~ReturnedFromWait(t)' /\ pc[t] = "enter"
              /\ at' = at
            BY <2>2 DEF WaitOnDestroyed, ReturnedFromWait, historyVars, TypeOK, mainVars
        <3> QED
            BY <1>1, <1>2, <3>1 DEF PlaceInv, ReturnedFromWait
    <2>3. CASE (WaitLast(t) \/ WaitReturn(t)) /\ UNCHANGED mainVars
        <3>1. /\ passed'[t] = passed[t] + 1 /\ ReturnedFromWait(t)' /\ pc[t] \in {"enter", "wait"}
              /\ at' = at
            BY <2>3 DEF WaitLast, WaitReturn, Returned, UnlockStatus, ReturnedFromWait, TypeOK,
                        mainVars
        <3> QED
            BY <1>1, <1>2, <3>1 DEF PlaceInv, ReturnedFromWait
    <2>4. CASE (WaitBlock(t) \/ WaitAgain(t) \/ SpuriousWakeup(t)) /\ UNCHANGED mainVars
        <3>1. /\ passed' = passed /\ at' = at
              /\ pc'[t] = pc[t] \/ (pc[t] = "enter" /\ pc'[t] = "wait")
              /\ ret' = ret
            BY <2>4 DEF WaitBlock, WaitAgain, SpuriousWakeup, historyVars, TypeOK, mainVars
        <3> QED
            BY <1>1, <1>2, <3>1 DEF PlaceInv, ReturnedFromWait
    <2> QED
        BY <2>1, <2>2, <2>3, <2>4 DEF InBarrier, Wait
<1> QED
    BY <1>1, <1>4, <1>5

(* Every step of the program keeps its threads' places. *)
LEMMA MainNextIInv == TypeOK /\ MainIInv /\ [MainNext]_allVars => MainIInv'
<1> SUFFICES ASSUME TypeOK, MainIInv, [MainNext]_allVars PROVE MainIInv'
    OBVIOUS
<1>1. ASSUME UNCHANGED <<at, worked, pc, ret, passed>>,
             mpc' = "done" => mpc = "done" \/ \A t \in Threads : at[t] = "ended"
      PROVE  MainIInv'
    BY <1>1 DEF MainIInv, PlaceInv, ReturnedFromWait
<1>2. CASE InitBarrier \/ JoinThreads \/ UNCHANGED allVars
    <2>1. /\ UNCHANGED <<at, worked, pc, ret, passed>>
          /\ mpc' = "done" => mpc = "done" \/ \A t \in Threads : at[t] = "ended"
        BY <1>2 DEF InitBarrier, JoinThreads, BarrierInit, BarrierInitFails, historyVars, vars,
                    allVars, mainVars
    <2> QED
        BY <1>1, <2>1
<1>3. ASSUME NEW t \in Threads, Abort(t) PROVE MainIInv'
    <2>1. UNCHANGED <<at, worked, pc, ret, passed>> /\ mpc' = "aborted"
        BY <1>3 DEF Abort, vars, historyVars
    <2> QED
        BY <1>1, <2>1
<1>4. ASSUME NEW t \in Threads,
             CreateThread(t) \/ Routine(t) \/ (SpuriousWakeup(t) /\ UNCHANGED mainVars)
      PROVE  MainIInv'
    BY <1>3, <1>4, RoutineStep, CallStep DEF Routine
<1> QED
    BY <1>2, <1>4 DEF MainNext, Main

(* With as many threads as places, as barrier/main.cxx creates them, main  *)
(* returns only when all threads did the same number of shares of work,    *)
(* whatever their uninitialised loop variables held.                       *)
THEOREM MainSameShare ==
    ASSUME Full
    PROVE  MainSpec => []SameShare
<1>1. MainInit => Init
    BY DEF MainInit
<1>2. MainSpec => [](IInv /\ MainIInv)
    <2>1. MainInit => IInv /\ MainIInv
        BY <1>1, InitIInv, MainInitIInv
    <2>2. IInv /\ MainIInv /\ [MainNext]_allVars => (IInv /\ MainIInv)'
        <3>1. IInv => TypeOK
            BY DEF IInv
        <3> QED
            BY <3>1, MainUsesBarrier, NextIInv, MainNextIInv
    <2> QED
        BY <2>1, <2>2, PTL DEF MainSpec
<1>3. IInv /\ MainIInv => SameShare
    <2> SUFFICES ASSUME IInv, MainIInv, mpc = "done", NEW t \in Threads, NEW u \in Threads
                 PROVE  worked[t] = worked[u]
        BY DEF SameShare
    <2>1. \A v \in Threads : /\ passed[v] = 2 * worked[v] /\ passed[v] = arrived[v]
                             /\ passed[v] \in Nat /\ worked[v] \in Nat
        BY DEF MainIInv, PlaceInv, IInv, TypeOK
    <2>2. passed[t] <= gen /\ gen <= arrived[u] /\ passed[u] <= gen /\ gen <= arrived[t]
        BY DEF IInv
    <2>3. gen \in Nat
        BY DEF IInv, TypeOK
    <2> QED
        BY <2>1, <2>2, <2>3
<1> QED
    BY <1>2, <1>3, PTL

===============================================================================
