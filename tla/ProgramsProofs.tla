---------------------------- MODULE ProgramsProofs -----------------------------
(* Proofs about the programs of Programs that have safety properties, for  *)
(* every number of threads and every size of the array of susp.cxx.        *)
EXTENDS Programs, TLAPS, FiniteSetTheorems, SequenceTheorems

-------------------------------------------------------------------------------
(* tsd_destructor.cxx: the counter is the number of users that are left.   *)
StillThere == {t \in Users : stage[t] # "ended"}

TsdInv ==
    /\ stage \in [Users -> {"begin", "none", "get", "run", "destructor", "ended"}]
    /\ private = {t \in Users : stage[t] = "run"}
    /\ \A t \in Users : stage[t] = "begin" => t = Initial
    /\ stage[Initial] # "none"
    /\ stage[Initial] = "begin" =>
          identity_key = "none" /\ \A t \in Users : stage[t] \in {"begin", "none"}
    /\ stage[Initial] # "begin" =>
          /\ identity_key_counter = Cardinality(StillThere)
          /\ identity_key = IF identity_key_counter = 0 THEN "deleted" ELSE "created"

(* semaphore_signal.cxx *)
SemaInv ==
    /\ value \in Nat /\ posted \in Nat
    /\ woken \in [Waiters -> 0 .. Waits]
    /\ PostsAreConserved

(* backoff.cc: a thread holds none but the mutexes it has passed.          *)
BackInv ==
    /\ holder \in [0 .. 2 -> Back!Lockers \cup {"none"}]
    /\ place \in [Back!Lockers -> {"lock", "back", "release", "done"}]
    /\ index \in [Back!Lockers -> 0 .. 2]
    /\ \A t \in Back!Lockers : \A k \in 0 .. 2 :
          holder[Back!Mutex(t, k)] = t =>
              \/ place[t] = "lock" /\ k < index[t]
              \/ place[t] \in {"back", "release"} /\ k <= index[t]

(* susp.cxx.  What the callers keep: the array is as long as the code      *)
(* thinks while a call is under way.                                       *)
CallInv ==
    /\ Susp!TypeOK
    /\ ~inited => mut = NULL /\ bottom = 0 /\ arr = <<>>
    /\ Len(arr) = bottom => bottom <= MaxBottom
    /\ mut # NULL => /\ Len(arr) = bottom
                     /\ slot[mut] \in 1 .. Len(arr)
                     /\ target[mut] \in Targets

InSuspend == mut # NULL /\ pc[mut] \in {"kill", "spin"}
Spinning == mut # NULL /\ pc[mut] = "spin"

\* The slots no call is working on.
SettledSlots == {i \in 1 .. Len(arr) : mut # NULL => i # slot[mut]}

Stopped(t) == tpc[t] \in {"set", "suspended"} /\ pending[t] = {}

\* SIGUSR1 is sent and taken only while its thd_suspend waits for the handler.
HandlerInv ==
    /\ \A t \in Targets : ("SIGUSR1" \in pending[t] \/ tpc[t] = "handler") =>
          Spinning /\ target[mut] = t /\ sentinel = 0
    /\ \A t \in Targets : tpc[t] = "handler" => "SIGUSR1" \notin pending[t]
    /\ (InSuspend /\ ~Spinning) => sentinel = 0

\* A stopped thread is in a settled slot, being suspended, or being resumed.
ResumeInv ==
    Len(arr) = bottom =>
        \A t \in Targets : tpc[t] \in {"handler", "set", "suspended"} =>
            \/ \E i \in SettledSlots : arr[i] = t
            \/ "SIGUSR2" \in pending[t]
            \/ Spinning /\ target[mut] = t

\* Unless uninitialised memory is taken for a thread: the settled slots hold
\* stopped threads, each once, and SIGUSR2 is sent to stopped threads only.
StoppedInv ==
    ~leaked =>
        /\ \A i \in SettledSlots : arr[i] \in Targets => Stopped(arr[i])
        /\ \A i, j \in SettledSlots : arr[i] = arr[j] /\ arr[i] \in Targets => i = j
        /\ mut # NULL => \A i \in SettledSlots : arr[i] # target[mut]
        /\ \A t \in Targets : "SIGUSR2" \in pending[t] => tpc[t] \in {"set", "suspended"}
        /\ (Spinning /\ sentinel # 0) => Stopped(target[mut])

SuspInv == CallInv /\ HandlerInv /\ ResumeInv /\ StoppedInv

IInv == TsdInv /\ SemaInv /\ BackInv /\ SuspInv

-------------------------------------------------------------------------------
\* The instances have a Cardinality of their own.
LEMMA SameCardinality ==
    ASSUME NEW S
    PROVE  Sema!Cardinality(S) = Cardinality(S) /\ Tsd!Cardinality(S) = Cardinality(S)
<1>1. Sema!Cardinality(S) = Cardinality(S)
    BY DEF Sema!Cardinality, Cardinality
<1>2. Tsd!Cardinality(S) = Cardinality(S)
    BY DEF Tsd!Cardinality, Cardinality
<1> QED
    BY <1>1, <1>2

(* The key is not created yet. *)
LEMMA TsdInit == Tsd!Init => TsdInv
<1> SUFFICES ASSUME Tsd!Init PROVE TsdInv
    OBVIOUS
<1> QED
    BY ProgramsAssumption DEF Tsd!Init, TsdInv

(* The users that are left can be counted. *)
LEMMA TsdFinite ==
    IsFiniteSet(StillThere) /\ Cardinality(StillThere) \in Nat
<1>1. StillThere \in SUBSET Users
    BY DEF StillThere
<1> QED
    BY <1>1, ProgramsAssumption, FS_Subset, FS_CardinalityType

(* Every step of a user keeps the count. *)
LEMMA TsdNext == TsdInv /\ Tsd!Next => TsdInv'
<1> SUFFICES ASSUME TsdInv, Tsd!Next PROVE TsdInv'
    OBVIOUS
<1> USE DEF TsdInv
<1>1. CASE Tsd!CreateKey
    <2>1. /\ stage[Initial] = "begin" /\ stage' = [stage EXCEPT ![Initial] = "get"]
          /\ identity_key' = "created" /\ identity_key_counter' = Cardinality(Users)
          /\ private' = private
        BY <1>1, SameCardinality DEF Tsd!CreateKey, Tsd!UserCount
    <2>2. /\ stage' \in [Users -> {"begin", "none", "get", "run", "destructor", "ended"}]
          /\ stage'[Initial] = "get"
          /\ \A t \in Users : t # Initial => stage'[t] = stage[t]
        BY <2>1, ProgramsAssumption
    <2>3. StillThere' = Users
        BY <2>1, <2>2 DEF StillThere
    <2>4. Cardinality(Users) # 0
        BY ProgramsAssumption, FS_EmptySet
    <2>5. private' = {t \in Users : stage'[t] = "run"}
        BY <2>1, <2>2
    <2> QED
        BY <2>1, <2>2, <2>3, <2>4, <2>5
<1>2. ASSUME NEW t \in Users, Tsd!identity_key_get(t) \/ Tsd!CreateThread(t) \/ Tsd!Leave(t)
      PROVE  TsdInv'
    <2>1. UNCHANGED <<identity_key, identity_key_counter>>
        BY <1>2 DEF Tsd!identity_key_get, Tsd!CreateThread, Tsd!Leave
    <2>2. /\ stage' \in [Users -> {"begin", "none", "get", "run", "destructor", "ended"}]
          /\ \A u \in Users : u # t => stage'[u] = stage[u]
          /\ stage[t] \in {"get", "none", "run"} /\ stage'[t] \in {"run", "get", "destructor"}
        BY <1>2 DEF Tsd!identity_key_get, Tsd!CreateThread, Tsd!Leave
    <2>3. private' = {u \in Users : stage'[u] = "run"}
        <3>1. CASE Tsd!identity_key_get(t)
            BY <3>1 DEF Tsd!identity_key_get
        <3>2. CASE Tsd!CreateThread(t)
            BY <3>2 DEF Tsd!CreateThread
        <3>3. CASE Tsd!Leave(t)
            BY <3>3 DEF Tsd!Leave
        <3> QED
            BY <1>2, <3>1, <3>2, <3>3
    <2>4. StillThere' = StillThere
        BY <2>2 DEF StillThere
    <2>5. stage[Initial] # "begin" /\ stage'[Initial] \notin {"begin", "none"}
        <3>1. stage[t] # "none" \/ stage[Initial] = "run"
            BY <1>2 DEF Tsd!identity_key_get, Tsd!CreateThread, Tsd!Leave
        <3> QED
            BY <2>2, <3>1, ProgramsAssumption
    <2> QED
        BY <2>1, <2>2, <2>3, <2>4, <2>5, ProgramsAssumption
<1>3. ASSUME NEW t \in Users, Tsd!identity_key_destructor(t) PROVE TsdInv'
    <2>1. /\ stage[t] = "destructor" /\ stage' = [stage EXCEPT ![t] = "ended"]
          /\ identity_key_counter' = identity_key_counter - 1
          /\ identity_key' = IF identity_key_counter' <= 0 THEN "deleted" ELSE identity_key
          /\ private' = private
        BY <1>3 DEF Tsd!identity_key_destructor
    <2>2. /\ stage' \in [Users -> {"begin", "none", "get", "run", "destructor", "ended"}]
          /\ \A u \in Users : u # t => stage'[u] = stage[u]
          /\ stage'[t] = "ended"
        BY <2>1
    <2>3. StillThere' = StillThere \ {t} /\ t \in StillThere
        BY <2>1, <2>2 DEF StillThere
    <2>4. Cardinality(StillThere') = Cardinality(StillThere) - 1
        BY <2>3, TsdFinite, FS_RemoveElement
    <2>5. stage[Initial] # "begin" /\ stage'[Initial] # "begin"
        BY <2>1, <2>2, ProgramsAssumption
    <2>6. /\ identity_key_counter' = Cardinality(StillThere')
          /\ identity_key' = IF identity_key_counter' = 0 THEN "deleted" ELSE "created"
        <3>1. Cardinality(StillThere) \in Nat /\ Cardinality(StillThere) # 0
            BY <2>3, TsdFinite, FS_EmptySet
        <3> QED
            BY <2>1, <2>4, <2>5, <3>1
    <2>7. private' = {u \in Users : stage'[u] = "run"}
        BY <2>1, <2>2
    <2>8. stage'[Initial] # "none" /\ \A u \in Users : stage'[u] = "begin" => u = Initial
        BY <2>2, ProgramsAssumption
    <2> QED
        BY <2>2, <2>5, <2>6, <2>7, <2>8
<1> QED
    BY <1>1, <1>2, <1>3 DEF Tsd!Next

-------------------------------------------------------------------------------
(* What the property says, with the Cardinality used here. *)
LEMMA SemaCount ==
    /\ PostsAreConserved <=> value + Cardinality(Sema!WakeUps) = posted
    /\ PostsAreConserved' <=> value' + Cardinality(Sema!WakeUps') = posted'
    BY SameCardinality DEF PostsAreConserved, Sema!PostsAreConserved

(* No post and no wake-up yet. *)
LEMMA SemaInit == Sema!Init => SemaInv
<1> SUFFICES ASSUME Sema!Init PROVE SemaInv
    OBVIOUS
<1>1. value = 0 /\ posted = 0 /\ woken = [w \in Waiters |-> 0]
    BY DEF Sema!Init
<1>2. Sema!WakeUps = {}
    BY <1>1, ProgramsAssumption DEF Sema!WakeUps
<1>3. Cardinality(Sema!WakeUps) = 0
    BY <1>2, FS_EmptySet
<1> QED
    BY <1>1, <1>3, ProgramsAssumption, SemaCount DEF SemaInv

(* The wake-ups can be counted. *)
LEMMA SemaFinite ==
    IsFiniteSet(Sema!WakeUps) /\ Cardinality(Sema!WakeUps) \in Nat
<1>1. IsFiniteSet(1 .. Waits)
    BY ProgramsAssumption, FS_Interval
<1>2. IsFiniteSet(Waiters \X (1 .. Waits))
    BY <1>1, ProgramsAssumption, FS_Product
<1>3. Sema!WakeUps \in SUBSET (Waiters \X (1 .. Waits))
    BY DEF Sema!WakeUps
<1> QED
    BY <1>2, <1>3, FS_Subset, FS_CardinalityType

(* A post is counted once, and each wake-up takes one. *)
LEMMA SemaNext == SemaInv /\ Sema!Next => SemaInv'
<1> SUFFICES ASSUME SemaInv, Sema!Next PROVE SemaInv'
    OBVIOUS
<1> USE SemaCount DEF SemaInv
<1>1. CASE Sema!TimerExpires \/ Sema!Join \/ \E w \in Waiters : Sema!Interrupted(w)
    <2>1. UNCHANGED <<value, woken, posted>>
        BY <1>1 DEF Sema!TimerExpires, Sema!Join, Sema!Interrupted, Sema!AfterEintr
    <2>2. Sema!WakeUps' = Sema!WakeUps
        BY <2>1 DEF Sema!WakeUps
    <2> QED
        BY <2>1, <2>2
<1>2. CASE Sema!signal_catcher
    <2>1. woken' = woken /\ value' = value + 1 /\ posted' = posted + 1
        BY <1>2 DEF Sema!signal_catcher
    <2>2. Sema!WakeUps' = Sema!WakeUps
        BY <2>1 DEF Sema!WakeUps
    <2> QED
        BY <2>1, <2>2, SemaFinite
<1>3. ASSUME NEW w \in Waiters, Sema!sem_waiter(w) PROVE SemaInv'
    <2>1. /\ woken[w] < Waits /\ value > 0
          /\ value' = value - 1 /\ posted' = posted
          /\ woken' = [woken EXCEPT ![w] = @ + 1]
        BY <1>3 DEF Sema!sem_waiter, Sema!InSemWait
    <2> DEFINE n == woken[w] + 1
    <2>2. n \in 1 .. Waits
        BY <2>1, ProgramsAssumption
    <2>3. /\ woken' \in [Waiters -> 0 .. Waits]
          /\ woken'[w] = n
          /\ \A x \in Waiters : x # w => woken'[x] = woken[x]
        BY <2>1, <2>2, ProgramsAssumption
    <2>4. <<w, n>> \notin Sema!WakeUps
        BY <2>2 DEF Sema!WakeUps
    <2>5. Sema!WakeUps' = Sema!WakeUps \cup {<<w, n>>}
        <3>1. ASSUME NEW x \in Waiters, NEW k \in 1 .. Waits
              PROVE  k <= woken'[x] <=> k <= woken[x] \/ (x = w /\ k = n)
            BY <2>1, <2>2, <2>3
        <3>2. ASSUME NEW p \in Waiters \X (1 .. Waits)
              PROVE  p[2] <= woken'[p[1]] <=> p[2] <= woken[p[1]] \/ p = <<w, n>>
            BY <3>1
        <3>3. <<w, n>> \in Waiters \X (1 .. Waits)
            BY <2>2
        <3> HIDE DEF n
        <3> QED
            BY <3>2, <3>3 DEF Sema!WakeUps
    <2>6. Cardinality(Sema!WakeUps') = Cardinality(Sema!WakeUps) + 1
        BY <2>4, <2>5, SemaFinite, FS_AddElement
    <2>7. value' \in Nat /\ value' + Cardinality(Sema!WakeUps') = posted'
        BY <2>1, <2>6, SemaFinite
    <2> QED
        BY <2>1, <2>3, <2>7
<1> QED
    BY <1>1, <1>2, <1>3 DEF Sema!Next

-------------------------------------------------------------------------------
(* A locker's order goes through the three mutexes, each once. *)
LEMMA Mutexes ==
    /\ \A t \in Back!Lockers : \A k \in 0 .. 2 : Back!Mutex(t, k) \in 0 .. 2
    /\ \A t \in Back!Lockers : \A j, k \in 0 .. 2 :
          Back!Mutex(t, j) = Back!Mutex(t, k) => j = k
    /\ \A t \in Back!Lockers : \A m \in 0 .. 2 : \E k \in 0 .. 2 : m = Back!Mutex(t, k)
<1>1. \A k \in 0 .. 2 : 2 - k \in 0 .. 2 /\ k = 2 - (2 - k)
    OBVIOUS
<1> QED
    BY <1>1 DEF Back!Mutex, Back!Lockers

(* No mutex is held yet. *)
LEMMA BackInit == Back!Init => BackInv
<1> SUFFICES ASSUME Back!Init PROVE BackInv
    OBVIOUS
<1>1. \A t \in Back!Lockers : t # "none"
    BY DEF Back!Lockers
<1> QED
    BY <1>1, Mutexes DEF Back!Init, BackInv

(* Locking passes a mutex, and both loops that unlock go back from it. *)
LEMMA BackNext == BackInv /\ Back!Next => BackInv'
<1> SUFFICES ASSUME BackInv, NEW t \in Back!Lockers, Back!Step(t) PROVE BackInv'
    BY DEF Back!Next
<1> USE DEF BackInv
<1> DEFINE m == Back!Mine(t)
<1>1. /\ index[t] \in 0 .. 2 /\ m \in 0 .. 2 /\ m = Back!Mutex(t, index[t])
      /\ t # "none" /\ \A u \in Back!Lockers : u # "none"
    BY Mutexes DEF Back!Mine, Back!Lockers
<1> HIDE DEF m
<1>2. /\ place' \in [Back!Lockers -> {"lock", "back", "release", "done"}]
      /\ index' \in [Back!Lockers -> 0 .. 2]
      /\ \A u \in Back!Lockers : u # t => place'[u] = place[u] /\ index'[u] = index[u]
    BY <1>1 DEF Back!Step, Back!Lock, Back!TryFails, Back!BackOff, Back!BackOffFails,
                Back!Release, Back!Goto
<1>3. ASSUME NEW v \in {t, "none"},
             \/ holder' = [holder EXCEPT ![m] = v]
             \/ v = "none" /\ holder[m] # t /\ UNCHANGED holder,
             \/ v = t /\ place[t] = "lock" /\ place'[t] = "lock" /\ index'[t] = index[t] + 1
             \/ v = t /\ place[t] = "lock" /\ place'[t] = "release" /\ index'[t] = index[t]
                      /\ index[t] = 2
             \/ v = "none" /\ place'[t] \in {"back", "release"} /\ index'[t] = index[t] - 1
                           /\ place[t] \in {"back", "release"}
             \/ v = "none" /\ place[t] \in {"back", "release"} /\ index[t] = 0
      PROVE  BackInv'
    <2>1. /\ holder' \in [0 .. 2 -> Back!Lockers \cup {"none"}]
          /\ \A x \in 0 .. 2 : x # m => holder'[x] = holder[x]
          /\ \A u \in Back!Lockers : u # t /\ holder'[m] = u => holder[m] = u
          /\ holder'[m] = t => v = t
        BY <1>1, <1>3
    <2>2. ASSUME NEW u \in Back!Lockers, NEW k \in 0 .. 2, holder'[Back!Mutex(u, k)] = u
          PROVE  \/ place'[u] = "lock" /\ k < index'[u]
                 \/ place'[u] \in {"back", "release"} /\ k <= index'[u]
        <3>1. CASE u # t
            <4>1. holder[Back!Mutex(u, k)] = u
                BY <2>1, <2>2, <3>1, Mutexes
            <4> QED
                BY <1>2, <3>1, <4>1
        <3>2. CASE u = t /\ k # index[t]
            <4>1. Back!Mutex(t, k) # m /\ Back!Mutex(t, k) \in 0 .. 2
                BY <1>1, <3>2, Mutexes
            <4>2. holder[Back!Mutex(t, k)] = t
                BY <2>1, <2>2, <3>2, <4>1
            <4>3. \/ place[t] = "lock" /\ k < index[t]
                  \/ place[t] \in {"back", "release"} /\ k < index[t]
                BY <1>1, <3>2, <4>2
            <4> QED
                BY <1>1, <1>3, <3>2, <4>3
        <3>3. CASE u = t /\ k = index[t]
            <4>1. v = t
                BY <1>1, <2>1, <2>2, <3>3
            <4> QED
                BY <1>1, <1>3, <3>3, <4>1
        <3> QED
            BY <3>1, <3>2, <3>3
    <2> QED
        BY <1>2, <2>1, <2>2
<1>4. CASE Back!Lock(t)
    <2>1. holder' = [holder EXCEPT ![m] = t] /\ place[t] = "lock"
        BY <1>4 DEF Back!Lock, m
    <2>2. \/ place'[t] = "lock" /\ index'[t] = index[t] + 1
          \/ place'[t] = "release" /\ index'[t] = index[t] /\ index[t] = 2
        BY <1>4 DEF Back!Lock, Back!Goto
    <2> QED
        BY <1>3, <2>1, <2>2
<1>5. CASE Back!BackOff(t) \/ Back!Release(t)
    <2>1. /\ place[t] \in {"back", "release"}
          /\ \/ holder' = [holder EXCEPT ![m] = "none"]
             \/ holder[m] # t /\ UNCHANGED holder
        BY <1>5 DEF Back!BackOff, Back!Release, m
    <2>2. \/ place'[t] \in {"back", "release"} /\ index'[t] = index[t] - 1
          \/ index[t] = 0
        BY <1>5 DEF Back!BackOff, Back!Release, Back!Goto
    <2> QED
        BY <1>3, <2>1, <2>2
<1>6. CASE Back!TryFails(t) \/ Back!BackOffFails(t)
    <2>1. /\ UNCHANGED holder
          /\ index'[t] = index[t]
          /\ place'[t] = place[t] \/ place'[t] = "back"
        BY <1>6 DEF Back!TryFails, Back!BackOffFails, Back!Goto
    <2>2. place'[t] = "back" => place[t] \in {"lock", "back"}
        BY <1>6 DEF Back!TryFails, Back!BackOffFails
    <2>3. ASSUME NEW u \in Back!Lockers, NEW k \in 0 .. 2, holder'[Back!Mutex(u, k)] = u
          PROVE  \/ place'[u] = "lock" /\ k < index'[u]
                 \/ place'[u] \in {"back", "release"} /\ k <= index'[u]
        <3>1. \/ place[u] = "lock" /\ k < index[u]
              \/ place[u] \in {"back", "release"} /\ k <= index[u]
            BY <2>1, <2>3
        <3> QED
            BY <1>2, <2>1, <3>1
    <2> QED
        BY <1>2, <2>1, <2>3
<1> QED
    BY <1>4, <1>5, <1>6 DEF Back!Step

(* A thread that waits for its first mutex holds none, so that the owner   *)
(* of that mutex is the other one, which then waits for nothing.           *)
LEMMA BackSafe == BackInv => NoDeadlock
<1> SUFFICES ASSUME BackInv, NEW t \in Back!Lockers, Back!Stuck(t)
             PROVE  \E u \in Back!Lockers : ~Back!Stuck(u) /\ place[u] # "done"
    BY DEF NoDeadlock, Back!NoDeadlock
<1> DEFINE m == Back!Mine(t)
           u == holder[m]
<1>1. place[t] = "lock" /\ u # "none" /\ index[t] = 0
    BY DEF Back!Stuck, Back!backoff
<1>2. m \in 0 .. 2 /\ m = Back!Mutex(t, 0)
    BY <1>1, Mutexes DEF Back!Mine
<1>3. u \in Back!Lockers
    BY <1>1, <1>2 DEF BackInv
<1>4. PICK k \in 0 .. 2 : m = Back!Mutex(u, k)
    BY <1>2, <1>3, Mutexes
<1>5. \/ place[u] = "lock" /\ k < index[u]
      \/ place[u] \in {"back", "release"} /\ k <= index[u]
    BY <1>3, <1>4 DEF BackInv
<1>6. ~Back!Stuck(u) /\ place[u] # "done"
    BY <1>3, <1>5 DEF Back!Stuck, Back!backoff, BackInv
<1> QED
    BY <1>3, <1>6

-------------------------------------------------------------------------------
\* What the call that holds mut is at.
LEMMA HolderIs ==
    ASSUME CallInv
    PROVE  /\ NULL \notin Targets /\ NULL \notin Callers
           /\ Len(arr) \in Nat /\ bottom \in Nat /\ MaxBottom \in Nat
           /\ arr \in Seq(Targets \cup {NULL, Junk})
           /\ pc \in [Callers -> {"idle", "kill", "spin", "clear"}]
           /\ target \in [Callers -> Targets \cup {NULL}]
           /\ slot \in [Callers -> 0 .. MaxBottom]
           /\ tpc \in [Targets -> {"run", "handler", "set", "suspended", "exited"}]
           /\ pending \in [Targets -> SUBSET {"SIGUSR1", "SIGUSR2"}]
           /\ \A c \in Callers : pc[c] # "idle" <=> mut = c
    BY ProgramsAssumption DEF CallInv, Susp!TypeOK

(* No thread is stopped yet. *)
LEMMA SuspInit == Susp!Init => SuspInv
<1> SUFFICES ASSUME Susp!Init PROVE SuspInv
    OBVIOUS
<1>1. /\ mut = NULL /\ arr = <<>> /\ bottom = 0 /\ ~leaked /\ Len(arr) = 0
      /\ tpc = [t \in Targets |-> "run"] /\ pending = [t \in Targets |-> {}]
    BY DEF Susp!Init
<1>2. Susp!TypeOK
    <2>1. arr \in Seq(Targets \cup {NULL, Junk})
        BY <1>1
    <2>2. slot \in [Callers -> 0 .. MaxBottom]
        BY ProgramsAssumption DEF Susp!Init
    <2>3. pc \in [Callers -> {"idle", "kill", "spin", "clear"}]
        BY DEF Susp!Init
    <2>4. \A c \in Callers : pc[c] # "idle" <=> mut = c
        BY ProgramsAssumption DEF Susp!Init
    <2>5. bottom \in 0 .. MaxBottom + 1
        BY <1>1, ProgramsAssumption
    <2>6. target \in [Callers -> Targets \cup {NULL}]
        BY DEF Susp!Init
    <2>7. /\ tpc \in [Targets -> {"run", "handler", "set", "suspended", "exited"}]
          /\ pending \in [Targets -> SUBSET {"SIGUSR1", "SIGUSR2"}]
        BY <1>1
    <2> QED
        BY <2>1, <2>2, <2>3, <2>4, <2>5, <2>6, <2>7 DEF Susp!Init, Susp!TypeOK
<1>3. CallInv
    BY <1>1, <1>2, ProgramsAssumption DEF CallInv
<1>4. HandlerInv
    BY <1>1 DEF HandlerInv, InSuspend
<1>5. ResumeInv
    BY <1>1 DEF ResumeInv
<1>6. StoppedInv
    BY <1>1 DEF StoppedInv, SettledSlots, Spinning
<1> QED
    BY <1>3, <1>4, <1>5, <1>6 DEF SuspInv

(* The steps of a target and of the handlers in it. *)
LEMMA TargetSuspInv ==
    ASSUME NEW t \in Targets PROVE SuspInv /\ (Susp!Signalled(t) \/ Susp!Exit(t)) => SuspInv'
<1> SUFFICES ASSUME SuspInv, Susp!Signalled(t) \/ Susp!Exit(t) PROVE SuspInv'
    OBVIOUS
<1> USE DEF SuspInv
<1>1. UNCHANGED <<inited, mut, pc, target, slot, arr, bottom, leaked, crashed>>
    BY DEF Susp!Signalled, Susp!EnterHandler, Susp!ReportStop, Susp!SigSuspend, Susp!Resume,
           Susp!IdleResume, Susp!Exit, Susp!targetUnchanged, Susp!callVars
<1>2. /\ tpc \in [Targets -> {"run", "handler", "set", "suspended", "exited"}]
      /\ pending \in [Targets -> SUBSET {"SIGUSR1", "SIGUSR2"}]
    BY HolderIs
<1>3. /\ tpc' \in [Targets -> {"run", "handler", "set", "suspended", "exited"}]
      /\ pending' \in [Targets -> SUBSET {"SIGUSR1", "SIGUSR2"}]
      /\ sentinel' = sentinel \/ sentinel' = 1
      /\ \A u \in Targets : u # t => tpc'[u] = tpc[u] /\ pending'[u] = pending[u]
    BY <1>2 DEF Susp!Signalled, Susp!EnterHandler, Susp!ReportStop, Susp!SigSuspend,
                Susp!Resume, Susp!IdleResume, Susp!Exit
<1>4. \/ /\ tpc[t] = "run" /\ tpc'[t] = "handler" /\ "SIGUSR1" \in pending[t]
         /\ pending'[t] = pending[t] \ {"SIGUSR1"} /\ sentinel' = sentinel
      \/ tpc[t] = "handler" /\ tpc'[t] = "set" /\ pending'[t] = pending[t] /\ sentinel' = 1
      \/ /\ tpc[t] = "set" /\ tpc'[t] = "suspended"
         /\ pending'[t] = pending[t] /\ sentinel' = sentinel
      \/ /\ tpc[t] = "suspended" /\ tpc'[t] = "run" /\ "SIGUSR2" \in pending[t]
         /\ pending'[t] = pending[t] \ {"SIGUSR2"} /\ sentinel' = sentinel
      \/ /\ tpc[t] = "run" /\ tpc'[t] = "run" /\ "SIGUSR2" \in pending[t]
         /\ pending'[t] = pending[t] \ {"SIGUSR2"} /\ sentinel' = sentinel
      \/ tpc[t] = "run" /\ tpc'[t] = "exited" /\ pending'[t] = {} /\ sentinel' = sentinel
    BY <1>2 DEF Susp!Signalled, Susp!EnterHandler, Susp!ReportStop, Susp!SigSuspend,
                Susp!Resume, Susp!IdleResume, Susp!Exit, Susp!Blocked, Susp!SaMask
<1>5. CallInv'
    <2>1. sentinel' \in {0, 1}
        BY <1>3 DEF CallInv, Susp!TypeOK
    <2> QED
        BY <1>1, <1>3, <2>1 DEF CallInv, Susp!TypeOK
<1>6. /\ InSuspend' = InSuspend /\ Spinning' = Spinning /\ SettledSlots' = SettledSlots
    BY <1>1 DEF InSuspend, Spinning, SettledSlots
<1>7. HandlerInv'
    <2>1. ASSUME NEW u \in Targets, "SIGUSR1" \in pending'[u] \/ tpc'[u] = "handler"
          PROVE  Spinning /\ target[mut] = u /\ sentinel' = 0
        <3>1. Spinning /\ target[mut] = u /\ sentinel = 0
            BY <1>3, <1>4, <2>1 DEF HandlerInv
        <3>2. sentinel' = sentinel
            <4>1. CASE tpc[t] = "handler" /\ tpc'[t] = "set" /\ pending'[t] = pending[t]
                <5>1. t = u
                    BY <3>1, <4>1 DEF HandlerInv
                <5> QED
                    BY <2>1, <4>1, <5>1 DEF HandlerInv
            <4> QED
                BY <1>4, <4>1
        <3> QED
            BY <3>1, <3>2
    <2>2. ASSUME NEW u \in Targets, tpc'[u] = "handler" PROVE "SIGUSR1" \notin pending'[u]
        BY <1>3, <1>4, <2>2 DEF HandlerInv
    <2>3. ASSUME InSuspend, ~Spinning PROVE sentinel' = 0
        <3>1. tpc[t] # "handler"
            BY <2>3 DEF HandlerInv
        <3> QED
            BY <1>4, <2>3, <3>1 DEF HandlerInv
    <2> QED
        BY <1>1, <1>6, <2>1, <2>2, <2>3 DEF HandlerInv
<1>8. ResumeInv'
    <2> SUFFICES ASSUME Len(arr) = bottom, NEW u \in Targets,
                        tpc'[u] \in {"handler", "set", "suspended"}
                 PROVE  \/ \E i \in SettledSlots : arr[i] = u
                        \/ "SIGUSR2" \in pending'[u]
                        \/ Spinning /\ target[mut] = u
        BY <1>1, <1>6 DEF ResumeInv
    <2>1. CASE tpc[u] \in {"handler", "set", "suspended"}
        <3>1. "SIGUSR2" \in pending[u] => "SIGUSR2" \in pending'[u]
            BY <1>3, <1>4, <2>1
        <3> QED
            BY <2>1, <3>1 DEF ResumeInv
    <2>2. CASE tpc[u] \notin {"handler", "set", "suspended"}
        BY <1>3, <1>4, <2>2 DEF HandlerInv
    <2> QED
        BY <2>1, <2>2
<1>9. StoppedInv'
    <2> SUFFICES ASSUME ~leaked PROVE StoppedInv'
        BY <1>1 DEF StoppedInv
    <2>1. "SIGUSR2" \in pending[t] => tpc[t] \in {"set", "suspended"}
        BY DEF StoppedInv
    <2>2. ASSUME NEW u \in Targets, Stopped(u) PROVE Stopped(u)'
        BY <1>3, <1>4, <2>2 DEF Stopped
    <2>3. \A u \in Targets : "SIGUSR2" \in pending'[u] => tpc'[u] \in {"set", "suspended"}
        BY <1>2, <1>3, <1>4, <2>1 DEF StoppedInv
    <2>4. ASSUME Spinning, sentinel' # 0 PROVE Stopped(target[mut])'
        <3>1. target[mut] \in Targets
            BY <2>4 DEF CallInv, Spinning
        <3>2. CASE sentinel # 0
            BY <1>1, <2>2, <2>4, <3>1, <3>2 DEF StoppedInv
        <3>3. CASE sentinel = 0
            <4>1. tpc[t] = "handler" /\ tpc'[t] = "set" /\ pending'[t] = pending[t]
                BY <1>4, <2>4, <3>3
            <4>2. target[mut] = t /\ "SIGUSR1" \notin pending[t] /\ "SIGUSR2" \notin pending[t]
                BY <2>1, <4>1 DEF HandlerInv
            <4>3. pending[t] = {}
                BY <1>2, <4>2
            <4> QED
                BY <1>1, <4>1, <4>2, <4>3 DEF Stopped
        <3> QED
            BY <3>2, <3>3
    <2> QED
        BY <1>1, <1>6, <2>2, <2>3, <2>4 DEF StoppedInv
<1> QED
    BY <1>5, <1>7, <1>8, <1>9

\* A call takes mut and works on slot i.
LEMMA LockedIs ==
    ASSUME CallInv, mut = NULL, NEW c \in Callers, NEW t \in Targets, NEW i \in 1 .. MaxBottom,
           NEW at \in {"kill", "clear"}, Susp!Locked(c, t, i, at)
    PROVE  /\ mut' = c /\ mut' # NULL
           /\ target'[mut'] = t /\ slot'[mut'] = i /\ pc'[mut'] = at
           /\ target' \in [Callers -> Targets \cup {NULL}]
           /\ slot' \in [Callers -> 0 .. MaxBottom]
           /\ pc' \in [Callers -> {"idle", "kill", "spin", "clear"}]
           /\ \A d \in Callers : pc'[d] # "idle" <=> mut' = d
<1>1. mut' = c /\ target' = [target EXCEPT ![c] = t] /\ slot' = [slot EXCEPT ![c] = i]
      /\ pc' = [pc EXCEPT ![c] = at]
    BY DEF Susp!Locked
<1>2. /\ c # NULL /\ MaxBottom \in Nat /\ i \in 0 .. MaxBottom
      /\ \A d \in Callers : pc[d] = "idle"
    BY HolderIs
<1>3. target' \in [Callers -> Targets \cup {NULL}] /\ target'[c] = t
    BY <1>1, HolderIs
<1>4. slot' \in [Callers -> 0 .. MaxBottom] /\ slot'[c] = i
    BY <1>1, <1>2, HolderIs
<1>5. /\ pc' \in [Callers -> {"idle", "kill", "spin", "clear"}] /\ pc'[c] = at
      /\ \A d \in Callers : d # c => pc'[d] = pc[d]
    BY <1>1, HolderIs
<1> QED
    BY <1>1, <1>2, <1>3, <1>4, <1>5

(* What leaving a call does. *)
LEMMA UnlockedIs ==
    ASSUME CallInv, NEW c \in Callers, mut = c, Susp!Unlocked(c)
    PROVE  /\ mut' = NULL
           /\ target' \in [Callers -> Targets \cup {NULL}]
           /\ slot' \in [Callers -> 0 .. MaxBottom]
           /\ pc' \in [Callers -> {"idle", "kill", "spin", "clear"}]
           /\ \A d \in Callers : pc'[d] # "idle" <=> mut' = d
<1>1. mut' = NULL /\ target' = [target EXCEPT ![c] = NULL] /\ slot' = [slot EXCEPT ![c] = 0]
      /\ pc' = [pc EXCEPT ![c] = "idle"]
    BY DEF Susp!Unlocked
<1>2. target' \in [Callers -> Targets \cup {NULL}]
    BY <1>1, HolderIs
<1>3. slot' \in [Callers -> 0 .. MaxBottom]
    BY <1>1, HolderIs
<1>4. pc' \in [Callers -> {"idle", "kill", "spin", "clear"}]
    BY <1>1, HolderIs
<1>5. \A d \in Callers : pc'[d] # "idle" <=> mut' = d
    BY <1>1, HolderIs
<1> QED
    BY <1>1, <1>2, <1>3, <1>4, <1>5

\* Nobody is on the way into the handler when no thd_suspend spins.
LEMMA QuietOutside ==
    ASSUME SuspInv, ~Spinning \/ sentinel # 0, NEW t \in Targets
    PROVE  "SIGUSR1" \notin pending[t] /\ tpc[t] # "handler"
    BY DEF SuspInv, HandlerInv

(* thd_suspend finds a free slot, or realloc gives it one. *)
LEMMA SuspendBeginSuspInv ==
    ASSUME NEW c \in Callers, NEW t \in Targets
    PROVE  SuspInv /\ (Susp!SuspendBegin(c, t) \/ Susp!SuspendGrow(c, t)) => SuspInv'
<1> SUFFICES ASSUME SuspInv, Susp!SuspendBegin(c, t) \/ Susp!SuspendGrow(c, t) PROVE SuspInv'
    OBVIOUS
<1> USE DEF SuspInv
<1>1. /\ UNCHANGED <<inited, tpc, pending, leaked>> /\ sentinel' = 0
      /\ inited /\ mut = NULL /\ Len(arr) = bottom
      /\ \A j \in 1 .. Len(arr) : arr[j] # t
      /\ crashed' \in BOOLEAN
    BY DEF Susp!SuspendBegin, Susp!SuspendGrow, Susp!CanCall, Susp!Listed, Susp!Slots, CallInv,
           Susp!TypeOK
<1>2. PICK i \in 1 .. MaxBottom :
        /\ Susp!Locked(c, t, i, "kill")
        /\ arr' \in Seq(Targets \cup {NULL, Junk}) /\ bottom' = Len(arr')
        /\ bottom' <= MaxBottom /\ i <= Len(arr')
        /\ \A j \in 1 .. Len(arr') : j # i => j \in 1 .. Len(arr) /\ arr'[j] = arr[j]
        /\ \A j \in 1 .. Len(arr) : arr[j] \in Targets => /\ j # i /\ j \in 1 .. Len(arr')
                                                        /\ arr'[j] = arr[j]
    <2>1. CASE Susp!SuspendBegin(c, t)
        <3>1. PICK i \in 1 .. Len(arr) : Susp!FirstFree(i) /\ Susp!Locked(c, t, i, "kill")
            BY <2>1 DEF Susp!SuspendBegin, Susp!Slots
        <3>2. arr' = arr /\ bottom' = bottom /\ arr[i] = NULL
            BY <2>1, <3>1 DEF Susp!SuspendBegin, Susp!FirstFree
        <3>3. bottom <= MaxBottom /\ i \in 1 .. MaxBottom
            BY <1>1, HolderIs DEF CallInv
        <3> QED
            BY <1>1, <3>1, <3>2, <3>3, HolderIs
    <2>2. CASE Susp!SuspendGrow(c, t)
        <3>1. bottom < MaxBottom /\ bottom' = bottom + 1 /\ Susp!Locked(c, t, bottom + 1, "kill")
            BY <2>2 DEF Susp!SuspendGrow
        <3>2. PICK v \in Targets \cup {NULL, Junk} : arr' = Append(arr, v)
            BY <2>2 DEF Susp!SuspendGrow
        <3>3. /\ arr' \in Seq(Targets \cup {NULL, Junk}) /\ Len(arr') = Len(arr) + 1
              /\ \A j \in 1 .. Len(arr) : arr'[j] = arr[j]
            BY <3>2, HolderIs, AppendProperties
        <3>4. bottom + 1 \in 1 .. MaxBottom
            BY <3>1, HolderIs
        <3>5. \A j \in 1 .. Len(arr') : j # bottom + 1 => j \in 1 .. Len(arr)
            BY <1>1, <3>3, HolderIs
        <3>6. \A j \in 1 .. Len(arr) : j # bottom + 1 /\ j \in 1 .. Len(arr')
            BY <1>1, <3>3, HolderIs
        <3>7. bottom' = Len(arr') /\ bottom' <= MaxBottom /\ bottom + 1 <= Len(arr')
            BY <1>1, <3>1, <3>3, HolderIs
        <3> QED
            BY <3>1, <3>3, <3>4, <3>5, <3>6, <3>7
    <2> QED
        BY <2>1, <2>2
<1>3. /\ mut' = c /\ mut' # NULL
      /\ target'[mut'] = t /\ slot'[mut'] = i /\ pc'[mut'] = "kill"
      /\ target' \in [Callers -> Targets \cup {NULL}]
      /\ slot' \in [Callers -> 0 .. MaxBottom]
      /\ pc' \in [Callers -> {"idle", "kill", "spin", "clear"}]
      /\ \A d \in Callers : pc'[d] # "idle" <=> mut' = d
    BY <1>1, <1>2, LockedIs
<1>4. Len(arr') \in Nat /\ bottom' \in 0 .. MaxBottom + 1 /\ i \in 1 .. Len(arr')
    BY <1>2, HolderIs
<1>5. CallInv'
    <2>1. Susp!TypeOK'
        BY <1>1, <1>2, <1>3, <1>4 DEF CallInv, Susp!TypeOK
    <2> QED
        BY <1>1, <1>2, <1>3, <1>4, <2>1 DEF CallInv
<1>6. ~Spinning /\ ~Spinning' /\ SettledSlots = 1 .. Len(arr)
    BY <1>1, <1>3 DEF Spinning, SettledSlots
<1>7. /\ \A j \in SettledSlots' : j \in SettledSlots /\ arr'[j] = arr[j]
      /\ \A j \in SettledSlots : arr[j] \in Targets => j \in SettledSlots' /\ arr'[j] = arr[j]
    BY <1>2, <1>3, <1>6 DEF SettledSlots
<1>8. HandlerInv'
    BY <1>1, <1>6, QuietOutside DEF HandlerInv
<1>9. ResumeInv'
    BY <1>1, <1>6, <1>7 DEF ResumeInv
<1>10. StoppedInv'
    <2> SUFFICES ASSUME ~leaked PROVE StoppedInv'
        BY <1>1 DEF StoppedInv
    <2>1. \A j \in SettledSlots' : arr'[j] \in Targets => Stopped(arr[j])'
        BY <1>1, <1>7 DEF StoppedInv, Stopped
    <2>2. \A j, k \in SettledSlots' : arr'[j] = arr'[k] /\ arr'[j] \in Targets => j = k
        BY <1>7 DEF StoppedInv
    <2>3. \A j \in SettledSlots' : arr'[j] # target'[mut']
        BY <1>1, <1>3, <1>6, <1>7
    <2> QED
        BY <1>1, <1>6, <2>1, <2>2, <2>3 DEF StoppedInv
<1> QED
    BY <1>5, <1>8, <1>9, <1>10

(* thd_continue sends SIGUSR2 to a thread that is listed. *)
LEMMA ContinueKillSuspInv ==
    ASSUME NEW c \in Callers, NEW t \in Targets
    PROVE  SuspInv /\ Susp!ContinueKill(c, t) => SuspInv'
<1> SUFFICES ASSUME SuspInv, Susp!ContinueKill(c, t) PROVE SuspInv'
    OBVIOUS
<1> USE DEF SuspInv
<1>1. /\ UNCHANGED <<inited, arr, bottom, sentinel, tpc, leaked, crashed>>
      /\ inited /\ mut = NULL /\ Len(arr) = bottom
      /\ pending' = [pending EXCEPT ![t] = @ \cup {"SIGUSR2"}]
    BY DEF Susp!ContinueKill, Susp!CanCall, Susp!SendResume
<1>2. PICK i \in 1 .. Len(arr) : arr[i] = t /\ Susp!Locked(c, t, i, "clear")
    BY DEF Susp!ContinueKill, Susp!Slots, Susp!FirstWith
<1>3. bottom <= MaxBottom /\ i \in 1 .. MaxBottom
    BY <1>1, HolderIs DEF CallInv
<1>4. /\ mut' = c /\ mut' # NULL
      /\ target'[mut'] = t /\ slot'[mut'] = i /\ pc'[mut'] = "clear"
      /\ target' \in [Callers -> Targets \cup {NULL}]
      /\ slot' \in [Callers -> 0 .. MaxBottom]
      /\ pc' \in [Callers -> {"idle", "kill", "spin", "clear"}]
      /\ \A d \in Callers : pc'[d] # "idle" <=> mut' = d
    BY <1>1, <1>2, <1>3, LockedIs
<1>5. /\ pending' \in [Targets -> SUBSET {"SIGUSR1", "SIGUSR2"}]
      /\ pending'[t] = pending[t] \cup {"SIGUSR2"}
      /\ \A u \in Targets : u # t => pending'[u] = pending[u]
    BY <1>1, HolderIs
<1>6. CallInv'
    <2>1. Susp!TypeOK'
        BY <1>1, <1>4, <1>5 DEF CallInv, Susp!TypeOK
    <2> QED
        BY <1>1, <1>2, <1>3, <1>4, <2>1 DEF CallInv
<1>7. /\ ~Spinning /\ ~Spinning' /\ ~InSuspend'
      /\ SettledSlots = 1 .. Len(arr) /\ SettledSlots' = (1 .. Len(arr)) \ {i}
    BY <1>1, <1>4 DEF Spinning, InSuspend, SettledSlots
<1>8. HandlerInv'
    <2>1. \A u \in Targets : "SIGUSR1" \notin pending'[u] /\ tpc'[u] # "handler"
        BY <1>1, <1>5, <1>7, QuietOutside
    <2> QED
        BY <1>7, <2>1 DEF HandlerInv
<1>9. ResumeInv'
    <2> SUFFICES ASSUME NEW u \in Targets, tpc[u] \in {"handler", "set", "suspended"}
                 PROVE  (\E j \in SettledSlots' : arr[j] = u) \/ "SIGUSR2" \in pending'[u]
        BY <1>1 DEF ResumeInv
    <2>1. CASE u = t
        BY <1>5, <2>1
    <2>2. CASE u # t
        <3>1. (\E j \in SettledSlots : arr[j] = u) \/ "SIGUSR2" \in pending[u]
            BY <1>1, <1>7 DEF ResumeInv
        <3> QED
            BY <1>2, <1>5, <1>7, <2>2, <3>1
    <2> QED
        BY <2>1, <2>2
<1>10. StoppedInv'
    <2> SUFFICES ASSUME ~leaked PROVE StoppedInv'
        BY <1>1 DEF StoppedInv
    <2>1. \A j \in SettledSlots' : j \in SettledSlots /\ arr[j] # t
        BY <1>2, <1>7 DEF StoppedInv
    <2>2. ASSUME NEW j \in SettledSlots', arr[j] \in Targets PROVE Stopped(arr[j])'
        BY <1>1, <1>5, <2>1, <2>2 DEF StoppedInv, Stopped
    <2>3. tpc[t] \in {"set", "suspended"}
        BY <1>2, <1>7 DEF StoppedInv, Stopped
    <2>4. \A u \in Targets : "SIGUSR2" \in pending'[u] => tpc[u] \in {"set", "suspended"}
        BY <1>5, <2>3 DEF StoppedInv
    <2>5. \A j, k \in SettledSlots' : arr[j] = arr[k] /\ arr[j] \in Targets => j = k
        BY <2>1 DEF StoppedInv
    <2> QED
        BY <1>1, <1>4, <1>7, <2>1, <2>2, <2>4, <2>5 DEF StoppedInv
<1> QED
    BY <1>6, <1>8, <1>9, <1>10

(* The array is set up, realloc loses it, or the next call finds it lost. *)
LEMMA ArraySuspInv ==
    SuspInv /\ (\/ Susp!SuspendInit \/ Susp!ReadsNull
                \/ \E t \in Targets : Susp!ReallocFails(t)) => SuspInv'
<1> SUFFICES ASSUME SuspInv,
                    \/ Susp!SuspendInit \/ Susp!ReadsNull
                    \/ \E t \in Targets : Susp!ReallocFails(t)
             PROVE  SuspInv'
    OBVIOUS
<1> USE DEF SuspInv
<1>1. /\ UNCHANGED <<mut, pc, target, slot, sentinel, tpc, pending, leaked>>
      /\ mut = NULL
    BY DEF Susp!SuspendInit, Susp!ReadsNull, Susp!ReallocFails, Susp!CanCall, Susp!callVars,
           CallInv
<1>2. /\ inited' \in BOOLEAN /\ crashed' \in BOOLEAN
      /\ inited' \/ (UNCHANGED <<arr, bottom, inited>>)
    BY DEF Susp!SuspendInit, Susp!ReadsNull, Susp!ReallocFails, Susp!CanCall, CallInv,
           Susp!TypeOK
<1>3. /\ arr' \in Seq(Targets \cup {NULL, Junk}) /\ bottom' \in 0 .. MaxBottom + 1
      /\ Len(arr') = bottom' => bottom' <= MaxBottom
      /\ \/ UNCHANGED <<arr, bottom>>
         \/ /\ \A j \in 1 .. Len(arr') : arr'[j] \notin Targets
            /\ Len(arr') = bottom' => Len(arr) = bottom /\ Len(arr) = 0
    <2>1. CASE Susp!SuspendInit
        <3>1. /\ arr' = [j \in 1 .. InitialBottom |-> NULL] /\ bottom' = InitialBottom
              /\ arr = <<>> /\ bottom = 0
            BY <2>1 DEF Susp!SuspendInit, CallInv
        <3>2. arr' \in Seq(Targets \cup {NULL, Junk}) /\ Len(arr') = InitialBottom
            BY <3>1, ProgramsAssumption
        <3>3. \A j \in 1 .. Len(arr') : arr'[j] \notin Targets
            BY <3>1, <3>2, ProgramsAssumption
        <3>4. Len(arr) = 0
            BY <3>1
        <3>5. bottom' \in 0 .. MaxBottom + 1 /\ bottom' <= MaxBottom
            BY <3>1, ProgramsAssumption
        <3> QED
            BY <3>1, <3>2, <3>3, <3>4, <3>5
    <2>2. CASE Susp!ReadsNull
        BY <2>2, HolderIs DEF Susp!ReadsNull, CallInv, Susp!TypeOK
    <2>3. CASE \E t \in Targets : Susp!ReallocFails(t)
        <3>1. arr' = <<>> /\ bottom' = bottom + 1 /\ bottom <= MaxBottom
            BY <2>3 DEF Susp!ReallocFails, Susp!CanCall, CallInv
        <3>2. Len(arr') = 0 /\ arr' \in Seq(Targets \cup {NULL, Junk})
            BY <3>1
        <3>3. bottom' \in 0 .. MaxBottom + 1 /\ bottom' # 0
            BY <3>1, HolderIs
        <3> QED
            BY <3>2, <3>3
    <2> QED
        BY <2>1, <2>2, <2>3
<1>4. CallInv'
    <2>1. Susp!TypeOK'
        BY <1>1, <1>2, <1>3 DEF CallInv, Susp!TypeOK
    <2> QED
        BY <1>1, <1>2, <1>3, <2>1 DEF CallInv
<1>5. /\ InSuspend' = InSuspend /\ Spinning' = Spinning
      /\ SettledSlots = 1 .. Len(arr) /\ SettledSlots' = 1 .. Len(arr')
    BY <1>1 DEF InSuspend, Spinning, SettledSlots
<1>6. HandlerInv'
    BY <1>1, <1>5 DEF HandlerInv
<1>7. ResumeInv'
    <2>1. CASE UNCHANGED <<arr, bottom>>
        BY <1>1, <1>5, <2>1 DEF ResumeInv
    <2>2. CASE Len(arr') = bottom' => Len(arr) = bottom /\ Len(arr) = 0
        <3>1. Len(arr') = bottom' => SettledSlots = {}
            BY <1>5, <2>2
        <3> QED
            BY <1>1, <1>5, <2>2, <3>1 DEF ResumeInv
    <2> QED
        BY <1>3, <2>1, <2>2
<1>8. StoppedInv'
    <2>1. CASE UNCHANGED <<arr, bottom>>
        BY <1>1, <1>5, <2>1 DEF StoppedInv, Stopped
    <2>2. CASE \A j \in 1 .. Len(arr') : arr'[j] \notin Targets
        BY <1>1, <1>5, <2>2 DEF StoppedInv, Stopped
    <2> QED
        BY <1>3, <2>1, <2>2
<1> QED
    BY <1>4, <1>6, <1>7, <1>8

(* thd_suspend sends SIGUSR1, or gives up because the thread is gone. *)
LEMMA SuspendKillSuspInv ==
    ASSUME NEW c \in Callers PROVE SuspInv /\ Susp!SuspendKill(c) => SuspInv'
<1> SUFFICES ASSUME SuspInv, Susp!SuspendKill(c) PROVE SuspInv'
    OBVIOUS
<1> USE DEF SuspInv
<1> DEFINE t == target[c]
<1>1. UNCHANGED <<inited, arr, bottom, sentinel, tpc, crashed>>
    BY DEF Susp!SuspendKill
<1>2. /\ pc[c] = "kill" /\ mut = c /\ mut # NULL /\ t \in Targets
      /\ Len(arr) = bottom /\ slot[c] \in 1 .. Len(arr) /\ inited
    BY HolderIs DEF Susp!SuspendKill, CallInv
<1>3. InSuspend /\ ~Spinning /\ sentinel = 0
    BY <1>2 DEF InSuspend, Spinning, HandlerInv
<1>4. CASE /\ pending' = [pending EXCEPT ![t] = @ \cup {"SIGUSR1"}]
           /\ pc' = [pc EXCEPT ![c] = "spin"]
           /\ UNCHANGED <<mut, target, slot, leaked>>
    <2>1. /\ pending' \in [Targets -> SUBSET {"SIGUSR1", "SIGUSR2"}]
          /\ pending'[t] = pending[t] \cup {"SIGUSR1"}
          /\ \A u \in Targets : u # t => pending'[u] = pending[u]
        BY <1>2, <1>4, HolderIs
    <2>2. /\ pc' \in [Callers -> {"idle", "kill", "spin", "clear"}] /\ pc'[c] = "spin"
          /\ \A d \in Callers : pc'[d] # "idle" <=> mut' = d
        BY <1>2, <1>4, HolderIs
    <2>3. CallInv'
        BY <1>1, <1>4, <2>1, <2>2 DEF CallInv, Susp!TypeOK
    <2>4. Spinning' /\ InSuspend' /\ SettledSlots' = SettledSlots /\ target'[mut'] = t
        BY <1>1, <1>2, <1>4, <2>2 DEF Spinning, InSuspend, SettledSlots
    <2>5. HandlerInv'
        BY <1>1, <1>3, <2>1, <2>4, QuietOutside DEF HandlerInv
    <2>6. ResumeInv'
        BY <1>1, <1>3, <2>1, <2>4 DEF ResumeInv
    <2>7. StoppedInv'
        <3> SUFFICES ASSUME ~leaked PROVE StoppedInv'
            BY <1>4 DEF StoppedInv
        <3>1. \A i \in SettledSlots : arr[i] # t
            BY <1>2 DEF StoppedInv
        <3>2. ASSUME NEW i \in SettledSlots, arr[i] \in Targets PROVE Stopped(arr[i])'
            BY <1>1, <2>1, <3>1, <3>2 DEF StoppedInv, Stopped
        <3>3. \A u \in Targets : "SIGUSR2" \in pending'[u] => tpc[u] \in {"set", "suspended"}
            BY <2>1 DEF StoppedInv
        <3>4. \A i, j \in SettledSlots : arr[i] = arr[j] /\ arr[i] \in Targets => i = j
            BY DEF StoppedInv
        <3> QED
            BY <1>1, <1>3, <2>4, <3>1, <3>2, <3>3, <3>4 DEF StoppedInv
    <2> QED
        BY <2>3, <2>5, <2>6, <2>7
<1>5. CASE /\ Susp!Unlocked(c)
           /\ leaked' = (leaked \/ arr[slot[c]] # NULL)
           /\ UNCHANGED pending
    <2>1. /\ mut' = NULL
          /\ target' \in [Callers -> Targets \cup {NULL}]
          /\ slot' \in [Callers -> 0 .. MaxBottom]
          /\ pc' \in [Callers -> {"idle", "kill", "spin", "clear"}]
          /\ \A d \in Callers : pc'[d] # "idle" <=> mut' = d
        BY <1>2, <1>5, UnlockedIs
    <2>2. leaked' \in BOOLEAN
        BY <1>5
    <2>3. CallInv'
        BY <1>1, <1>2, <1>5, <2>1, <2>2 DEF CallInv, Susp!TypeOK
    <2>4. /\ ~Spinning' /\ ~InSuspend' /\ SettledSlots' = 1 .. Len(arr)
          /\ SettledSlots = (1 .. Len(arr)) \ {slot[c]}
        BY <1>1, <1>2, <2>1 DEF Spinning, InSuspend, SettledSlots
    <2>5. HandlerInv'
        BY <1>1, <1>3, <1>5, <2>4, QuietOutside DEF HandlerInv
    <2>6. ResumeInv'
        BY <1>1, <1>3, <1>5, <2>4 DEF ResumeInv
    <2>7. StoppedInv'
        <3> SUFFICES ASSUME ~leaked' PROVE StoppedInv'
            BY DEF StoppedInv
        <3>1. ~leaked /\ arr[slot[c]] \notin Targets
            BY <1>5, HolderIs
        <3>2. \A i \in SettledSlots' : arr[i] \in Targets => i \in SettledSlots
            BY <2>4, <3>1
        <3> QED
            BY <1>1, <1>5, <2>1, <2>4, <3>1, <3>2 DEF StoppedInv, Stopped
    <2> QED
        BY <2>3, <2>5, <2>6, <2>7
<1> QED
    BY <1>4, <1>5 DEF Susp!SuspendKill

(* A call writes its slot and unlocks mut. *)
LEMMA EndSuspInv ==
    ASSUME NEW c \in Callers
    PROVE  SuspInv /\ (Susp!SuspendEnd(c) \/ Susp!ContinueEnd(c)) => SuspInv'
<1> SUFFICES ASSUME SuspInv, Susp!SuspendEnd(c) \/ Susp!ContinueEnd(c) PROVE SuspInv'
    OBVIOUS
<1> USE DEF SuspInv
<1>1. /\ UNCHANGED <<inited, bottom, sentinel, tpc, pending, leaked, crashed>>
      /\ Susp!Unlocked(c)
    BY DEF Susp!SuspendEnd, Susp!ContinueEnd
<1>2. /\ mut = c /\ mut # NULL /\ target[c] \in Targets
      /\ Len(arr) = bottom /\ slot[c] \in 1 .. Len(arr) /\ inited
    BY HolderIs DEF Susp!SuspendEnd, Susp!ContinueEnd, CallInv
<1> DEFINE i == slot[c]
<1>3. PICK v \in {target[c], NULL} :
        /\ arr' = [arr EXCEPT ![i] = v]
        /\ v = target[c] => Spinning /\ sentinel # 0
        /\ v = NULL => ~Spinning
    <2>1. CASE Susp!SuspendEnd(c)
        BY <1>2, <2>1, HolderIs DEF Susp!SuspendEnd, Susp!HandlerRuns, Spinning
    <2>2. CASE Susp!ContinueEnd(c)
        BY <1>2, <2>2, HolderIs DEF Susp!ContinueEnd, Spinning
    <2> QED
        BY <2>1, <2>2
<1>4. /\ mut' = NULL
      /\ target' \in [Callers -> Targets \cup {NULL}]
      /\ slot' \in [Callers -> 0 .. MaxBottom]
      /\ pc' \in [Callers -> {"idle", "kill", "spin", "clear"}]
      /\ \A d \in Callers : pc'[d] # "idle" <=> mut' = d
    BY <1>1, <1>2, UnlockedIs
<1>5. /\ arr' \in Seq(Targets \cup {NULL, Junk}) /\ Len(arr') = Len(arr) /\ arr'[i] = v
      /\ \A j \in 1 .. Len(arr) : j # i => arr'[j] = arr[j]
    <2>1. v \in Targets \cup {NULL, Junk} /\ i \in 1 .. Len(arr)
        BY <1>2
    <2> HIDE DEF i
    <2> QED
        BY <1>3, <2>1, HolderIs, ExceptSeq
<1>6. CallInv'
    BY <1>1, <1>2, <1>4, <1>5 DEF CallInv, Susp!TypeOK
<1>7. /\ ~Spinning' /\ ~InSuspend' /\ SettledSlots' = 1 .. Len(arr)
      /\ SettledSlots = (1 .. Len(arr)) \ {i}
    BY <1>2, <1>4, <1>5 DEF Spinning, InSuspend, SettledSlots
<1> HIDE DEF i
<1>8. \A j \in SettledSlots : j \in SettledSlots' /\ arr'[j] = arr[j]
    BY <1>5, <1>7
<1>9. HandlerInv'
    BY <1>1, <1>3, <1>7, QuietOutside DEF HandlerInv
<1>10. ResumeInv'
    <2> SUFFICES ASSUME NEW t \in Targets, tpc[t] \in {"handler", "set", "suspended"}
                 PROVE  (\E j \in SettledSlots' : arr'[j] = t) \/ "SIGUSR2" \in pending[t]
        BY <1>1 DEF ResumeInv
    <2>1. \/ \E j \in SettledSlots : arr[j] = t
          \/ "SIGUSR2" \in pending[t]
          \/ Spinning /\ target[mut] = t
        BY <1>2 DEF ResumeInv
    <2>2. CASE Spinning /\ target[mut] = t
        <3>1. v = t
            BY <1>2, <1>3, <2>2
        <3> QED
            BY <1>2, <1>5, <1>7, <3>1 DEF i
    <2> QED
        BY <1>8, <2>1, <2>2
<1>11. StoppedInv'
    <2> SUFFICES ASSUME ~leaked PROVE StoppedInv'
        BY <1>1 DEF StoppedInv
    <2>1. \A j \in SettledSlots' : j = i \/ j \in SettledSlots
        BY <1>7
    <2>2. v \in Targets => v = target[mut] /\ Stopped(v) /\ \A j \in SettledSlots : arr[j] # v
        BY <1>2, <1>3, HolderIs DEF StoppedInv
    <2>3. ASSUME NEW j \in SettledSlots', arr'[j] \in Targets PROVE Stopped(arr[j])'
        BY <1>1, <1>5, <1>8, <2>1, <2>2, <2>3 DEF StoppedInv, Stopped
    <2>4. \A j, k \in SettledSlots' : arr'[j] = arr'[k] /\ arr'[j] \in Targets => j = k
        BY <1>5, <1>8, <2>1, <2>2 DEF StoppedInv
    <2> QED
        BY <1>1, <1>4, <1>7, <2>3, <2>4 DEF StoppedInv
<1> QED
    BY <1>6, <1>9, <1>10, <1>11

(* Every step of susp.cxx keeps the invariant. *)
LEMMA SuspNext == SuspInv /\ Susp!Next => SuspInv'
    BY ArraySuspInv, SuspendBeginSuspInv, ContinueKillSuspInv, SuspendKillSuspInv, EndSuspInv,
       TargetSuspInv DEF Susp!Next, Susp!Begin, Susp!Proceed

(* The invariant gives the two properties of the array. *)
LEMMA SuspSafe == SuspInv => ListedIsStopped /\ StoppedCanResume
<1> SUFFICES ASSUME SuspInv PROVE ListedIsStopped /\ StoppedCanResume
    OBVIOUS
<1>1. mut = NULL => SettledSlots = 1 .. Len(arr) /\ ~Spinning
    BY DEF SettledSlots, Spinning
<1>2. ListedIsStopped
    BY <1>1 DEF ListedIsStopped, Susp!ListedIsStopped, Susp!Listed, Susp!Slots, SuspInv, CallInv,
                StoppedInv, Stopped
<1>3. StoppedCanResume
    BY <1>1 DEF StoppedCanResume, Susp!StoppedCanResume, Susp!Listed, Susp!Slots, SuspInv,
                ResumeInv
<1> QED
    BY <1>2, <1>3

-------------------------------------------------------------------------------
(* The program that runs keeps its invariant; the others stand still. *)
LEMMA TsdStays == TsdInv /\ UNCHANGED tsdVars => TsdInv'
    BY DEF TsdInv, tsdVars, StillThere

(* The other programs leave the semaphore alone. *)
LEMMA SemaStays == SemaInv /\ UNCHANGED semaVars => SemaInv'
<1> SUFFICES ASSUME SemaInv, UNCHANGED semaVars PROVE SemaInv'
    OBVIOUS
<1>1. UNCHANGED <<value, woken, posted>>
    BY DEF semaVars
<1>2. Sema!WakeUps' = Sema!WakeUps
    BY <1>1 DEF Sema!WakeUps
<1> QED
    BY <1>1, <1>2, SemaCount DEF SemaInv

(* They leave the lockers alone. *)
LEMMA BackStays == BackInv /\ UNCHANGED backVars => BackInv'
    BY DEF BackInv, backVars

(* They leave the array alone. *)
LEMMA SuspStays == SuspInv /\ UNCHANGED suspVars => SuspInv'
<1> SUFFICES ASSUME SuspInv, UNCHANGED suspVars PROVE SuspInv'
    OBVIOUS
<1>1. UNCHANGED <<inited, mut, arr, bottom, sentinel, pc, target, slot, tpc, pending, leaked,
                  crashed>>
    BY DEF suspVars
<1>2. CallInv'
    BY <1>1 DEF SuspInv, CallInv, Susp!TypeOK
<1>3. UNCHANGED <<InSuspend, Spinning, SettledSlots>>
    BY <1>1 DEF InSuspend, Spinning, SettledSlots
<1>4. HandlerInv' /\ ResumeInv'
    BY <1>1, <1>3 DEF SuspInv, HandlerInv, ResumeInv
<1>5. StoppedInv'
    BY <1>1, <1>3 DEF SuspInv, StoppedInv, Stopped
<1> QED
    BY <1>2, <1>4, <1>5 DEF SuspInv

(* One program moves, the others stay. *)
LEMMA NextIInv == IInv /\ [Next]_vars => IInv'
<1> SUFFICES ASSUME IInv, [Next]_vars PROVE IInv'
    OBVIOUS
<1>1. Tsd!Next \/ UNCHANGED tsdVars
    BY DEF Next, vars
<1>2. Sema!Next \/ UNCHANGED semaVars
    BY DEF Next, vars
<1>3. Back!Next \/ UNCHANGED backVars
    BY DEF Next, vars
<1>4. Susp!Next \/ UNCHANGED suspVars
    BY DEF Next, vars
<1> QED
    BY <1>1, <1>2, <1>3, <1>4, TsdNext, TsdStays, SemaNext, SemaStays, BackNext, BackStays,
       SuspNext, SuspStays DEF IInv

(* The invariants of the four programs hold in every state. *)
THEOREM InvariantHolds == Spec => []IInv
<1>1. Init => IInv
    BY TsdInit, SemaInit, BackInit, SuspInit DEF Init, IInv
<1> QED
    BY <1>1, NextIInv, PTL DEF Spec

(* susp.cxx: while no call is under way, a listed thread has stopped and   *)
(* has no signal pending, for any number of callers, threads and slots.    *)
THEOREM ListIsTrue == Spec => []ListedIsStopped
<1>1. IInv => ListedIsStopped
    BY SuspSafe DEF IInv
<1> QED
    BY <1>1, InvariantHolds, PTL

(* susp.cxx: a stopped thread is listed or SIGUSR2 is on its way to it:    *)
(* the signal that comes before sigsuspend is not lost.                    *)
THEOREM NobodyStopsForEver == Spec => []StoppedCanResume
<1>1. IInv => StoppedCanResume
    BY SuspSafe DEF IInv
<1> QED
    BY <1>1, InvariantHolds, PTL

(* backoff.cc: when one locker waits, the other can go on. *)
THEOREM BackoffNeverDeadlocks == Spec => []NoDeadlock
<1>1. IInv => NoDeadlock
    BY BackSafe DEF IInv
<1> QED
    BY <1>1, InvariantHolds, PTL

(* semaphore_signal.cxx: for any number of waiters, the wake-ups and the   *)
(* value of the semaphore add up to the posts.                             *)
THEOREM NoPostLost == Spec => []PostsAreConserved
<1>1. IInv => PostsAreConserved
    BY DEF IInv, SemaInv
<1> QED
    BY <1>1, InvariantHolds, PTL

(* tsd_destructor.cxx: for any number of threads, the last destructor and  *)
(* no other deletes the key.                                               *)
THEOREM LastDeletesKey == Spec => []KeyOutlivesValues
<1>1. ASSUME TsdInv PROVE KeyOutlivesValues
    <2> USE <1>1 DEF TsdInv
    <2>1. ASSUME identity_key = "deleted"
          PROVE  private = {} /\ \A t \in Users : stage[t] = "ended"
        <3>1. Cardinality(StillThere) = 0
            BY <2>1
        <3>2. StillThere = {}
            BY <3>1, TsdFinite, FS_EmptySet
        <3>3. \A t \in Users : stage[t] = "ended"
            BY <3>2 DEF StillThere
        <3> QED
            BY <3>3
    <2>2. ASSUME \A t \in Users : stage[t] = "ended" PROVE identity_key = "deleted"
        <3>1. StillThere = {} /\ stage[Initial] # "begin"
            BY <2>2, ProgramsAssumption DEF StillThere
        <3>2. Cardinality(StillThere) = 0
            BY <3>1, FS_EmptySet
        <3> QED
            BY <3>1, <3>2
    <2> QED
        BY <2>1, <2>2 DEF KeyOutlivesValues, Tsd!KeyOutlivesValues
<1>2. IInv => KeyOutlivesValues
    BY <1>1 DEF IInv
<1> QED
    BY <1>2, InvariantHolds, PTL
===============================================================================
