------------------------------ MODULE CrewProofs ------------------------------
(* Proofs about Crew, for every tree of paths and every size of the crew. *)
EXTENDS Crew, TLAPS, FiniteSetTheorems, SequenceTheorems

Listed == {list[i] : i \in 1 .. Len(list)}
Visited == {p \in Paths : visits[p] = 1}
Seen == Listed \cup Visited

\* The members that are about to look into the list.
Looking == {m \in Members : Awake(m) \/ AtTop(m)}

\* The list holds paths that nobody has taken, each once.
ListInv ==
    /\ \A i, j \in 1 .. Len(list) : list[i] = list[j] => i = j
    /\ \A i \in 1 .. Len(list) : visits[list[i]] = 0

\* A member at work has a path of its own that it has taken, and reads the
\* entries of that path.
WorkInv ==
    /\ \A m \in Busy : work[m] \in Paths /\ visits[work[m]] = 1
    /\ \A m, n \in Busy : work[m] = work[n] => m = n
    /\ \A m \in Members : pc[m] = "dir" =>
            work[m] \in Directories /\ entries[m] \subseteq Entries[work[m]]

\* An entry is seen only after its directory is opened, and is read once.
EntryInv ==
    \A d \in Directories : \A e \in Entries[d] : e \in Seen =>
        /\ visits[d] = 1
        /\ \A m \in Busy : work[m] = d =>
              pc[m] # "stat" /\ (pc[m] = "dir" => e \notin entries[m])

\* Member m will still read entry e of directory d.
WillRead(m, d, e) ==
    work[m] = d /\ (pc[m] = "stat" \/ (pc[m] = "dir" /\ e \in entries[m]))

\* If nothing failed, no entry of a directory that was taken is left out.
SearchInv ==
    failed = {} =>
        \A d \in Directories : visits[d] = 1 =>
            \A e \in Entries[d] : e \in Seen \/ \E m \in Members : WillRead(m, d, e)

\* Before crew_start nothing is seen, after it the root is.
StartInv ==
    /\ spc = "start" => work_count = 0 /\ Seen = {}
    /\ spc # "start" => Root \in Seen
    /\ ~MutexFree => work_count = 0

\* work_count counts at least the paths in the list and those being worked
\* on, and no path twice.
CountInv ==
    /\ Len(list) + Cardinality(Busy) <= work_count
    /\ work_count <= Cardinality(Seen)

\* The sleepers are at one of the two waits.
SleepInv == \A m \in go : pc[m] \in {"wait_go", "wait_work"}

IInv ==
    /\ TypeOK
    /\ ListInv
    /\ WorkInv
    /\ EntryInv
    /\ SearchInv
    /\ StartInv
    /\ CountInv
    /\ SleepInv
    /\ CrewIsBusy

-------------------------------------------------------------------------------
(* What the crew is made of is finite. *)
LEMMA Finite ==
    ASSUME TypeOK
    PROVE  /\ IsFiniteSet(Busy) /\ Cardinality(Busy) \in Nat
           /\ IsFiniteSet(Looking) /\ Cardinality(Looking) \in Nat
           /\ Seen \in SUBSET Paths
           /\ IsFiniteSet(Seen) /\ Cardinality(Seen) \in Nat
           /\ Cardinality(Seen) <= Cardinality(Paths)
           /\ Len(list) \in Nat /\ work_count \in Nat
<1>1. IsFiniteSet(Paths) /\ IsFiniteSet(Members)
    BY CrewAssumption
<1>2. Cardinality(Paths) \in Nat
    BY <1>1, FS_CardinalityType
<1>3. Busy \in SUBSET Members /\ Looking \in SUBSET Members
    BY DEF Busy, Looking
<1>4. Seen \in SUBSET Paths
    BY DEF Seen, Listed, Visited, TypeOK
<1>5. IsFiniteSet(Busy) /\ IsFiniteSet(Looking)
    BY <1>1, <1>3, FS_Subset
<1>6. IsFiniteSet(Seen) /\ Cardinality(Seen) <= Cardinality(Paths)
    BY <1>1, <1>4, FS_Subset
<1>7. Len(list) \in Nat /\ work_count \in Nat
    BY <1>2 DEF TypeOK
<1> QED
    BY <1>4, <1>5, <1>6, <1>7, FS_CardinalityType

(* Work put into the list is seen, and what is new there is there once. *)
LEMMA PutSees ==
    ASSUME TypeOK, ListInv, NEW e \in Paths, e \notin Seen,
           list' = Append(list, e), UNCHANGED visits
    PROVE  /\ Len(list') = Len(list) + 1
           /\ list' \in Seq(Paths)
           /\ Seen' = Seen \cup {e}
           /\ ListInv'
           /\ Cardinality(Seen') = Cardinality(Seen) + 1
<1>1. list \in Seq(Paths) /\ visits \in [Paths -> 0 .. 1]
    BY DEF TypeOK
<1>2. /\ Len(list) \in Nat /\ Len(list') = Len(list) + 1
      /\ list' \in Seq(Paths)
      /\ list'[Len(list) + 1] = e
      /\ \A i \in 1 .. Len(list) : list'[i] = list[i]
    BY <1>1, AppendProperties
<1>3. e \notin Listed /\ visits[e] = 0
    BY <1>1 DEF Seen, Visited
<1>4. 1 .. Len(list') = (1 .. Len(list)) \cup {Len(list) + 1}
    BY <1>2
<1>5. Listed' = Listed \cup {e}
    BY <1>2, <1>4 DEF Listed
<1>6. Seen' = Seen \cup {e}
    BY <1>5 DEF Seen, Visited
<1>7. \A i \in 1 .. Len(list) : list[i] # e
    BY <1>3 DEF Listed
<1>8. ListInv'
    <2>1. ASSUME NEW i \in 1 .. Len(list'), NEW j \in 1 .. Len(list'), list'[i] = list'[j]
          PROVE  i = j
        BY <1>2, <1>4, <1>7, <2>1 DEF ListInv
    <2>2. ASSUME NEW i \in 1 .. Len(list') PROVE visits'[list'[i]] = 0
        BY <1>2, <1>3, <1>4 DEF ListInv
    <2> QED
        BY <2>1, <2>2 DEF ListInv
<1>9. Cardinality(Seen') = Cardinality(Seen) + 1
    BY <1>6, Finite, FS_AddElement
<1> QED
    BY <1>2, <1>6, <1>8, <1>9

(* Work taken from the list stays seen. *)
LEMMA TakeSees ==
    ASSUME TypeOK, ListInv, list # <<>>, list' = Tail(list),
           visits' = [visits EXCEPT ![Head(list)] = @ + 1]
    PROVE  /\ Head(list) \in Paths /\ visits[Head(list)] = 0
           /\ list' \in Seq(Paths) /\ Len(list') = Len(list) - 1
           /\ visits' \in [Paths -> 0 .. 1]
           /\ \A p \in Paths : visits'[p] = IF p = Head(list) THEN 1 ELSE visits[p]
           /\ Seen' = Seen
           /\ ListInv'
<1> DEFINE h == Head(list)
<1>1. list \in Seq(Paths) /\ visits \in [Paths -> 0 .. 1]
    BY DEF TypeOK
<1>2. /\ Len(list) \in Nat \ {0} /\ Len(list') = Len(list) - 1
      /\ list' \in Seq(Paths)
      /\ h = list[1] /\ h \in Paths
      /\ \A i \in 1 .. Len(list') : list'[i] = list[i + 1]
    BY <1>1, HeadTailProperties
<1>3. visits[h] = 0
    BY <1>2 DEF ListInv
<1>4. /\ visits' \in [Paths -> 0 .. 1]
      /\ \A p \in Paths : visits'[p] = IF p = h THEN 1 ELSE visits[p]
    BY <1>1, <1>2, <1>3
<1> HIDE DEF h
<1>5. Visited' = Visited \cup {h}
    BY <1>2, <1>4 DEF Visited
<1>6. Listed = Listed' \cup {h}
    <2>1. \A i \in 1 .. Len(list') : i + 1 \in 1 .. Len(list)
        BY <1>2
    <2>2. \A i \in 1 .. Len(list) : i = 1 \/ (i - 1 \in 1 .. Len(list') /\ (i - 1) + 1 = i)
        BY <1>2
    <2>3. ASSUME NEW p \in Listed PROVE p \in Listed' \cup {h}
        BY <1>2, <2>2 DEF Listed
    <2>4. ASSUME NEW p \in Listed' \cup {h} PROVE p \in Listed
        BY <1>2, <2>1 DEF Listed
    <2> QED
        BY <2>3, <2>4
<1>7. Seen' = Seen
    BY <1>5, <1>6 DEF Seen
<1>8. ListInv'
    <2>1. ASSUME NEW i \in 1 .. Len(list'), NEW j \in 1 .. Len(list'), list'[i] = list'[j]
          PROVE  i = j
        BY <1>2, <2>1 DEF ListInv
    <2>2. ASSUME NEW i \in 1 .. Len(list') PROVE visits'[list'[i]] = 0
        <3>1. i + 1 \in 1 .. Len(list) /\ 1 \in 1 .. Len(list) /\ i + 1 # 1
            BY <1>2
        <3>2. list[i + 1] # h /\ visits[list[i + 1]] = 0 /\ list[i + 1] \in Paths
            BY <1>1, <1>2, <3>1 DEF ListInv
        <3> QED
            BY <1>2, <1>4, <3>2
    <2> QED
        BY <2>1, <2>2 DEF ListInv
<1> QED
    BY <1>2, <1>3, <1>4, <1>7, <1>8 DEF h

(* If more members look into the list than before, the crew stays busy. *)
LEMMA MoreLook ==
    ASSUME TypeOK, TypeOK', Looking \subseteq Looking', CrewIsBusy,
           Len(list') <= Len(list), go # {}
    PROVE  CrewIsBusy'
<1>1. Cardinality(Looking) <= Cardinality(Looking')
    <2>1. IsFiniteSet(Looking')
        BY CrewAssumption, FS_Subset DEF Looking
    <2> QED
        BY <2>1, FS_Subset
<1>2. Cardinality(Looking') \in Nat
    BY CrewAssumption, FS_Subset, FS_CardinalityType DEF Looking
<1>3. CrewIsBusy' <=> (go' # {} => Len(list') <= Cardinality(Looking'))
    BY DEF CrewIsBusy, Looking
<1>4. Len(list) <= Cardinality(Looking)
    BY DEF CrewIsBusy, Looking
<1>5. Len(list') \in Nat
    BY DEF TypeOK
<1> QED
    BY <1>1, <1>2, <1>3, <1>4, <1>5, Finite

(* Before crew_start nothing is listed or taken. *)
LEMMA InitIInv == Init => IInv
<1> SUFFICES ASSUME Init PROVE IInv
    OBVIOUS
<1>1. Cardinality(Paths) \in Nat
    BY CrewAssumption, FS_CardinalityType
<1>2. TypeOK
    <2>1. work_count \in 0 .. Cardinality(Paths)
        BY <1>1 DEF Init
    <2>2. list \in Seq(Paths)
        BY DEF Init
    <2>3. work \in [Members -> Paths \cup {NULL}] /\ entries \in [Members -> SUBSET Paths]
        BY DEF Init
    <2>4. visits \in [Paths -> 0 .. 1]
        BY DEF Init
    <2> QED
        BY <2>1, <2>2, <2>3, <2>4 DEF Init, TypeOK
<1>3. list = <<>> /\ Len(list) = 0 /\ 1 .. Len(list) = {}
    BY DEF Init
<1>4. Seen = {}
    BY <1>3 DEF Init, Seen, Listed, Visited
<1>5. Busy = {} /\ Cardinality(Busy) = 0 /\ Cardinality(Seen) = 0
    BY <1>4, FS_EmptySet DEF Init, Busy
<1>6. ListInv /\ WorkInv
    BY <1>3, <1>5 DEF ListInv, WorkInv, Init
<1>7. EntryInv /\ SearchInv
    BY CrewAssumption, <1>4 DEF EntryInv, SearchInv, Init
<1>8. StartInv /\ CountInv
    BY <1>3, <1>4, <1>5 DEF StartInv, CountInv, Init, MutexFree
<1>9. SleepInv /\ CrewIsBusy
    BY DEF SleepInv, CrewIsBusy, Init
<1> QED
    BY <1>2, <1>6, <1>7, <1>8, <1>9 DEF IInv

-------------------------------------------------------------------------------
(* A member works on its path without the mutex: the list, the counter and *)
(* what is seen stay as they are.                                          *)
LEMMA WorkIInv ==
    ASSUME NEW m \in Members
    PROVE  IInv /\ (OtherFile(m) \/ OpenDirectory(m) \/ OpenFails(m) \/ CloseDirectory(m))
              => IInv'
<1> SUFFICES ASSUME IInv,
                    OtherFile(m) \/ OpenDirectory(m) \/ OpenFails(m) \/ CloseDirectory(m)
             PROVE  IInv'
    OBVIOUS
<1> USE DEF IInv
<1>1. UNCHANGED <<work_count, list, go, done, spc, aborted, visits>>
    BY DEF OtherFile, OpenDirectory, OpenFails, CloseDirectory
<1>2. /\ pc \in [Members -> {"start", "wait_go", "top", "wait_work", "stat", "dir",
                               "finish", "left"}]
      /\ work \in [Members -> Paths \cup {NULL}]
      /\ entries \in [Members -> SUBSET Paths]
      /\ failed \in SUBSET {"lstat", "opendir", "readdir"}
      /\ Entries \in [Paths -> SUBSET Paths]
      /\ Directories \in SUBSET Paths
    BY CrewAssumption DEF TypeOK
<1>3. pc[m] \in {"stat", "dir"} /\ pc'[m] \in {"dir", "finish", "top"}
    BY <1>2 DEF OtherFile, OpenDirectory, OpenFails, CloseDirectory
<1>4. /\ pc' \in [Members -> {"start", "wait_go", "top", "wait_work", "stat", "dir",
                               "finish", "left"}]
      /\ \A n \in Members : n # m =>
            pc'[n] = pc[n] /\ work'[n] = work[n] /\ entries'[n] = entries[n]
    BY <1>2 DEF OtherFile, OpenDirectory, OpenFails, CloseDirectory
<1>5. /\ work' \in [Members -> Paths \cup {NULL}]
      /\ pc'[m] \in {"dir", "finish"} => work'[m] = work[m]
    BY <1>2 DEF OtherFile, OpenDirectory, OpenFails, CloseDirectory
<1>6. m \in Busy
    BY <1>3 DEF Busy
<1>7. /\ entries' \in [Members -> SUBSET Paths]
      /\ pc'[m] = "dir" => /\ pc[m] = "stat" /\ work[m] \in Directories
                           /\ entries'[m] = Entries[work[m]]
    BY <1>2, <1>3 DEF OtherFile, OpenDirectory, OpenFails, CloseDirectory
<1>8. failed' \in SUBSET {"lstat", "opendir", "readdir"}
    BY <1>2 DEF OtherFile, OpenDirectory, OpenFails, CloseDirectory, Misjudged
<1>9. Seen' = Seen
    BY <1>1 DEF Seen, Listed, Visited
<1>10. Busy' \in SUBSET Busy
    BY <1>4, <1>6 DEF Busy
<1>11. TypeOK'
    BY <1>1, <1>4, <1>5, <1>7, <1>8 DEF TypeOK
<1>12. ListInv'
    BY <1>1 DEF ListInv
<1>13. \A n \in Busy' : work'[n] = work[n]
    BY <1>3, <1>4, <1>5, <1>10 DEF Busy
<1>14. WorkInv'
    <2>1. \A n \in Busy' : work'[n] \in Paths /\ visits'[work'[n]] = 1
        BY <1>1, <1>10, <1>13 DEF WorkInv
    <2>2. \A n, o \in Busy' : work'[n] = work'[o] => n = o
        BY <1>10, <1>13 DEF WorkInv
    <2>3. ASSUME NEW n \in Members, pc'[n] = "dir"
          PROVE  work'[n] \in Directories /\ entries'[n] \subseteq Entries[work'[n]]
        BY <1>4, <1>5, <1>7, <2>3 DEF WorkInv
    <2> QED
        BY <2>1, <2>2, <2>3 DEF WorkInv
<1>15. EntryInv'
    <2> SUFFICES ASSUME NEW d \in Directories, NEW e \in Entries[d], e \in Seen
                 PROVE  /\ visits[d] = 1
                        /\ \A n \in Busy' : work'[n] = d =>
                              pc'[n] # "stat" /\ (pc'[n] = "dir" => e \notin entries'[n])
        BY <1>1, <1>9 DEF EntryInv
    <2>1. /\ visits[d] = 1
          /\ \A n \in Busy : work[n] = d =>
                 pc[n] # "stat" /\ (pc[n] = "dir" => e \notin entries[n])
        BY DEF EntryInv
    <2>2. ASSUME NEW n \in Busy', work'[n] = d
          PROVE  pc'[n] # "stat" /\ (pc'[n] = "dir" => e \notin entries'[n])
        <3>1. n \in Busy /\ work[n] = d /\ n \in Members
            BY <1>10, <1>13, <2>2 DEF Busy
        <3>2. CASE n = m
            BY <1>3, <1>7, <2>1, <3>1, <3>2
        <3>3. CASE n # m
            BY <1>4, <2>1, <3>1, <3>3
        <3> QED
            BY <3>2, <3>3
    <2> QED
        BY <2>1, <2>2
<1>16. SearchInv'
    <2> SUFFICES ASSUME failed' = {}, NEW d \in Directories, visits[d] = 1,
                        NEW e \in Entries[d], e \notin Seen
                 PROVE  \E n \in Members : WillRead(n, d, e)'
        BY <1>1, <1>9 DEF SearchInv
    <2>1. failed = {}
        BY DEF OtherFile, OpenDirectory, OpenFails, CloseDirectory
    <2>2. PICK n \in Members : WillRead(n, d, e)
        BY <2>1 DEF SearchInv
    <2>3. CASE n # m
        BY <1>4, <2>2, <2>3 DEF WillRead
    <2>4. CASE n = m /\ pc[m] = "stat"
        <3>1. work[m] \in Directories
            BY <2>2, <2>4 DEF WillRead
        <3>2. OpenDirectory(m)
            BY <3>1, <2>4 DEF OtherFile, OpenFails, CloseDirectory, Misjudged
        <3>3. pc'[m] = "dir" /\ entries'[m] = Entries[work[m]] /\ work'[m] = work[m]
            BY <1>2, <3>2 DEF OpenDirectory
        <3> QED
            BY <2>2, <2>4, <3>3 DEF WillRead
    <2>5. CASE n = m /\ pc[m] = "dir"
        <3>1. e \in entries[m]
            BY <2>2, <2>5 DEF WillRead
        <3>2. CloseDirectory(m)
            BY <2>5 DEF OtherFile, OpenDirectory, OpenFails
        <3> QED
            BY <3>1, <3>2 DEF CloseDirectory
    <2> QED
        BY <1>3, <2>3, <2>4, <2>5
<1>17. StartInv'
    BY <1>1, <1>9 DEF StartInv, MutexFree
<1>18. CountInv'
    <2>1. Cardinality(Busy') <= Cardinality(Busy) /\ Cardinality(Busy') \in Nat
        BY <1>10, Finite, FS_Subset, FS_CardinalityType
    <2> QED
        BY <1>1, <1>9, <2>1, Finite DEF CountInv
<1>19. SleepInv'
    BY <1>1, <1>3, <1>4 DEF SleepInv, TypeOK
<1>20. CrewIsBusy'
    <2>1. CASE go = {}
        BY <1>1, <2>1 DEF CrewIsBusy
    <2>2. Looking \subseteq Looking'
        <3>1. \A n \in Looking : n # m /\ n \in Members
            BY <1>3 DEF Looking, Awake, AtTop
        <3> QED
            BY <1>1, <1>4, <3>1 DEF Looking, Awake, AtTop
    <2>3. Len(list') <= Len(list)
        BY <1>1, Finite
    <2> QED
        BY <1>11, <2>1, <2>2, <2>3, MoreLook
<1> QED
    BY <1>11, <1>12, <1>14, <1>15, <1>16, <1>17, <1>18, <1>19, <1>20

(* Steps that leave the list, the counter and the work of the members as   *)
(* they are: the members that go to sleep, and crew_start after its start. *)
LEMMA SameWork ==
    ASSUME IInv, UNCHANGED <<work_count, list, work, entries, visits, failed>>,
           NEW p \in [Members -> {"start", "wait_go", "top", "wait_work", "stat", "dir",
                                   "finish", "left"}],
           pc' = p,
           \A n \in Members :
              \/ p[n] = pc[n]
              \/ pc[n] \notin {"stat", "dir", "finish"} /\ p[n] \notin {"stat", "dir", "finish"}
    PROVE  ListInv' /\ WorkInv' /\ EntryInv' /\ SearchInv' /\ CountInv' /\ Seen' = Seen
<1> USE DEF IInv
<1>1. Busy' = Busy
    BY DEF Busy
<1>2. \A n \in Members :
          (pc'[n] = "dir" <=> pc[n] = "dir") /\ (pc'[n] = "stat" <=> pc[n] = "stat")
    OBVIOUS
<1>3. Seen' = Seen
    BY DEF Seen, Listed, Visited
<1>4. ListInv' /\ CountInv'
    BY <1>1, <1>3 DEF ListInv, CountInv
<1>5. WorkInv'
    BY <1>1, <1>2 DEF WorkInv
<1>6. EntryInv'
    BY <1>1, <1>2, <1>3 DEF EntryInv, Busy
<1>7. SearchInv'
    BY <1>2, <1>3 DEF SearchInv, WillRead
<1> QED
    BY <1>3, <1>4, <1>5, <1>6, <1>7

(* A member goes to sleep, or finds that there is work. *)
LEMMA AwaitIInv ==
    ASSUME NEW m \in Members PROVE IInv /\ (AwaitGo(m) \/ AwaitWork(m)) => IInv'
<1> SUFFICES ASSUME IInv, AwaitGo(m) \/ AwaitWork(m) PROVE IInv'
    OBVIOUS
<1> USE DEF IInv
<1>1. UNCHANGED <<work_count, list, done, work, entries, spc, aborted, visits, failed>>
    BY DEF AwaitGo, AwaitWork
<1>2. pc \in [Members -> {"start", "wait_go", "top", "wait_work", "stat", "dir",
                           "finish", "left"}]
    BY DEF TypeOK
<1>3. /\ pc[m] \in {"start", "wait_go", "top", "wait_work"} /\ m \notin go
      /\ \/ pc'[m] \in {"wait_go", "wait_work"} /\ go' = go \cup {m} /\ list = <<>>
         \/ pc'[m] = "top" /\ UNCHANGED go
    <2>1. m \notin go \/ pc[m] \in {"wait_go", "wait_work"}
        BY DEF SleepInv
    <2>2. work_count = 0 => list = <<>>
        <3>1. work_count = 0 => Len(list) = 0
            BY Finite DEF CountInv
        <3> QED
            BY <3>1 DEF TypeOK
    <2> QED
        BY <1>2, <2>1, <2>2 DEF AwaitGo, AwaitWork, Awake, AtTop, CondWait
<1>4. /\ pc' \in [Members -> {"start", "wait_go", "top", "wait_work", "stat", "dir",
                               "finish", "left"}]
      /\ \A n \in Members : n # m => pc'[n] = pc[n]
    BY <1>2 DEF AwaitGo, AwaitWork
<1>5. go' \in SUBSET Members
    BY <1>3 DEF TypeOK
<1>6. TypeOK'
    BY <1>1, <1>4, <1>5 DEF TypeOK
<1>7. \A n \in Members :
        \/ pc'[n] = pc[n]
        \/ pc[n] \notin {"stat", "dir", "finish"} /\ pc'[n] \notin {"stat", "dir", "finish"}
    BY <1>3, <1>4
<1>8. ListInv' /\ WorkInv' /\ EntryInv' /\ SearchInv' /\ CountInv' /\ Seen' = Seen
    <2> DEFINE p == pc'
    <2>1. p \in [Members -> {"start", "wait_go", "top", "wait_work", "stat", "dir",
                              "finish", "left"}]
        BY <1>4
    <2> QED
        BY <1>1, <1>7, <2>1, SameWork
<1>9. StartInv'
    BY <1>1, <1>8 DEF StartInv, MutexFree
<1>10. SleepInv'
    BY <1>3, <1>4 DEF SleepInv, TypeOK
<1>11. CrewIsBusy'
    <2>1. CASE list = <<>>
        <3>1. Cardinality(Looking') \in Nat
            BY CrewAssumption, FS_Subset, FS_CardinalityType DEF Looking
        <3>2. Len(list') = 0
            BY <1>1, <2>1
        <3> QED
            BY <3>1, <3>2 DEF CrewIsBusy, Looking
    <2>2. CASE list # <<>>
        <3>1. pc'[m] = "top" /\ UNCHANGED go
            BY <1>3, <2>2
        <3>2. Looking \subseteq Looking'
            BY <1>4, <3>1 DEF Looking, Awake, AtTop
        <3>3. Len(list') <= Len(list)
            BY <1>1, Finite
        <3>4. CASE go = {}
            BY <3>1, <3>4 DEF CrewIsBusy
        <3> QED
            BY <1>6, <3>2, <3>3, <3>4, MoreLook
    <2> QED
        BY <2>1, <2>2
<1> QED
    BY <1>6, <1>8, <1>9, <1>10, <1>11

(* crew_start waits on, is done, or a thread wakes up or aborts. *)
LEMMA OutsideIInv ==
    IInv /\ (\/ StartWakes \/ StartLocksAgain \/ SpuriousWakeup
             \/ \E m \in Members : PathIsNull(m) \/ FreeAborts(m)) => IInv'
<1> SUFFICES ASSUME IInv,
                    \/ StartWakes \/ StartLocksAgain \/ SpuriousWakeup
                    \/ \E m \in Members : PathIsNull(m) \/ FreeAborts(m)
             PROVE  IInv'
    OBVIOUS
<1> USE DEF IInv
<1>1. UNCHANGED <<work_count, list, pc, work, entries, visits, failed>>
    BY DEF StartWakes, StartLocksAgain, SpuriousWakeup, PathIsNull, FreeAborts, memberVars
<1>2. go' \in SUBSET go
    BY DEF StartWakes, StartLocksAgain, SpuriousWakeup, PathIsNull, FreeAborts, CondLeave
<1>3. /\ done' \in SUBSET {Starter} /\ aborted' \in BOOLEAN
      /\ spc' \in {"start", "wait", "unlock", "blocked"}
    BY DEF StartWakes, StartLocksAgain, SpuriousWakeup, PathIsNull, FreeAborts, CondLeave,
           CondWait, TypeOK
<1>4. /\ spc' = "start" <=> spc = "start"
      /\ spc' \in {"unlock", "blocked"} => work_count = 0
    BY Finite DEF StartWakes, StartLocksAgain, SpuriousWakeup, PathIsNull, FreeAborts,
                  StartInv, MutexFree, WorkLeft
<1>5. TypeOK'
    BY <1>1, <1>2, <1>3 DEF TypeOK
<1>6. ListInv' /\ WorkInv' /\ EntryInv' /\ SearchInv' /\ CountInv' /\ Seen' = Seen
    <2>1. pc \in [Members -> {"start", "wait_go", "top", "wait_work", "stat", "dir",
                               "finish", "left"}]
        BY DEF TypeOK
    <2> QED
        BY <1>1, <2>1, SameWork
<1>7. StartInv'
    BY <1>1, <1>4, <1>6 DEF StartInv, MutexFree
<1>8. SleepInv'
    BY <1>1, <1>2 DEF SleepInv
<1>9. CrewIsBusy'
    <2>1. Looking \subseteq Looking'
        BY <1>1, <1>2 DEF Looking, Awake, AtTop
    <2>2. Len(list') <= Len(list)
        BY <1>1, Finite
    <2>3. CASE go = {}
        BY <1>2, <2>3 DEF CrewIsBusy
    <2> QED
        BY <1>5, <2>1, <2>2, <2>3, MoreLook
<1> QED
    BY <1>5, <1>6, <1>7, <1>8, <1>9

(* A member takes the first path of the list. *)
LEMMA TakeWorkIInv == ASSUME NEW m \in Members PROVE IInv /\ TakeWork(m) => IInv'
<1> SUFFICES ASSUME IInv, TakeWork(m) PROVE IInv'
    OBVIOUS
<1> USE DEF IInv
<1> DEFINE h == Head(list)
<1>1. UNCHANGED <<work_count, go, done, entries, spc, aborted, failed>>
    BY DEF TakeWork
<1>2. /\ pc \in [Members -> {"start", "wait_go", "top", "wait_work", "stat", "dir",
                              "finish", "left"}]
      /\ work \in [Members -> Paths \cup {NULL}]
    BY DEF TypeOK
<1>3. /\ h \in Paths /\ visits[h] = 0
      /\ list' \in Seq(Paths) /\ Len(list') = Len(list) - 1
      /\ visits' \in [Paths -> 0 .. 1]
      /\ \A p \in Paths : visits'[p] = IF p = h THEN 1 ELSE visits[p]
      /\ Seen' = Seen
      /\ ListInv'
    BY TakeSees DEF TakeWork, Rest
<1>4. /\ pc[m] \in {"top", "wait_work"} /\ m \notin go
      /\ m \in Looking
    BY DEF TakeWork, AtTop, SleepInv, Looking
<1>5. /\ pc' \in [Members -> {"start", "wait_go", "top", "wait_work", "stat", "dir",
                               "finish", "left"}]
      /\ work' \in [Members -> Paths \cup {NULL}]
      /\ pc'[m] = "stat" /\ work'[m] = h
      /\ \A n \in Members : n # m => pc'[n] = pc[n] /\ work'[n] = work[n]
    BY <1>2, <1>3 DEF TakeWork
<1> HIDE DEF h
<1>6. TypeOK'
    BY <1>1, <1>3, <1>5 DEF TypeOK
<1>7. m \notin Busy /\ Busy' = Busy \cup {m} /\ Busy \in SUBSET Members
    BY <1>4, <1>5 DEF Busy
<1>8. \A n \in Busy : work'[n] = work[n] /\ work[n] # h /\ pc'[n] = pc[n]
    BY <1>3, <1>5, <1>7 DEF WorkInv
<1>9. WorkInv'
    <2>1. ASSUME NEW n \in Busy' PROVE work'[n] \in Paths /\ visits'[work'[n]] = 1
        BY <1>3, <1>5, <1>7, <1>8 DEF WorkInv
    <2>2. ASSUME NEW n \in Busy', NEW o \in Busy', work'[n] = work'[o] PROVE n = o
        BY <1>5, <1>7, <1>8, <2>2 DEF WorkInv
    <2>3. ASSUME NEW n \in Members, pc'[n] = "dir"
          PROVE  work'[n] \in Directories /\ entries'[n] \subseteq Entries[work'[n]]
        BY <1>1, <1>5, <2>3 DEF WorkInv
    <2> QED
        BY <2>1, <2>2, <2>3 DEF WorkInv
<1>10. EntryInv'
    <2> SUFFICES ASSUME NEW d \in Directories, NEW e \in Entries[d], e \in Seen
                 PROVE  /\ visits'[d] = 1
                        /\ \A n \in Busy' : work'[n] = d =>
                              pc'[n] # "stat" /\ (pc'[n] = "dir" => e \notin entries'[n])
        BY <1>3 DEF EntryInv
    <2>1. /\ visits[d] = 1
          /\ \A n \in Busy : work[n] = d =>
                 pc[n] # "stat" /\ (pc[n] = "dir" => e \notin entries[n])
        BY DEF EntryInv
    <2>2. d # h /\ visits'[d] = 1
        BY <1>3, <2>1, CrewAssumption
    <2> QED
        BY <1>1, <1>5, <1>7, <1>8, <2>1, <2>2
<1>11. SearchInv'
    <2> SUFFICES ASSUME failed' = {}, NEW d \in Directories, visits'[d] = 1,
                        NEW e \in Entries[d], e \notin Seen
                 PROVE  \E n \in Members : WillRead(n, d, e)'
        BY <1>3 DEF SearchInv
    <2>1. CASE d = h
        BY <1>5, <2>1 DEF WillRead
    <2>2. CASE d # h
        <3>1. visits[d] = 1
            BY <1>3, <2>2, CrewAssumption
        <3>2. PICK n \in Members : WillRead(n, d, e)
            BY <1>1, <3>1 DEF SearchInv
        <3>3. n # m
            BY <1>4, <3>2 DEF WillRead
        <3> QED
            BY <1>1, <1>5, <3>2, <3>3 DEF WillRead
    <2> QED
        BY <2>1, <2>2
<1>12. StartInv'
    BY <1>1, <1>3 DEF StartInv, MutexFree
<1>13. CountInv'
    <2>1. Cardinality(Busy') = Cardinality(Busy) + 1
        BY <1>7, Finite, FS_AddElement
    <2> QED
        BY <1>1, <1>3, <2>1, Finite DEF CountInv
<1>14. SleepInv'
    BY <1>1, <1>4, <1>5 DEF SleepInv, TypeOK
<1>15. CrewIsBusy'
    <2>1. Looking' = Looking \ {m}
        BY <1>1, <1>4, <1>5 DEF Looking, Awake, AtTop
    <2>2. Cardinality(Looking') = Cardinality(Looking) - 1
        BY <1>4, <2>1, Finite, FS_RemoveElement
    <2>3. go # {} => Len(list) <= Cardinality(Looking)
        BY DEF CrewIsBusy, Looking
    <2>4. go' # {} => Len(list') <= Cardinality(Looking')
        BY <1>1, <1>3, <2>2, <2>3, Finite
    <2> QED
        BY <2>4 DEF CrewIsBusy, Looking
<1> QED
    BY <1>3, <1>6, <1>9, <1>10, <1>11, <1>12, <1>13, <1>14, <1>15

(* A member has done its work and counts it. *)
LEMMA FinishWorkIInv == ASSUME NEW m \in Members PROVE IInv /\ FinishWork(m) => IInv'
<1> SUFFICES ASSUME IInv, FinishWork(m) PROVE IInv'
    OBVIOUS
<1> USE DEF IInv
<1>1. UNCHANGED <<list, go, entries, spc, aborted, visits, failed>>
    BY DEF FinishWork
<1>2. /\ pc \in [Members -> {"start", "wait_go", "top", "wait_work", "stat", "dir",
                              "finish", "left"}]
      /\ work \in [Members -> Paths \cup {NULL}]
    BY DEF TypeOK
<1>3. pc[m] = "finish" /\ m \in Busy
    BY DEF FinishWork, Busy
<1>4. /\ pc' \in [Members -> {"start", "wait_go", "top", "wait_work", "stat", "dir",
                               "finish", "left"}]
      /\ work' \in [Members -> Paths \cup {NULL}]
      /\ pc'[m] \in {"left", "top"}
      /\ \A n \in Members : n # m => pc'[n] = pc[n] /\ work'[n] = work[n]
    BY <1>2 DEF FinishWork
<1>5. Busy' = Busy \ {m} /\ Busy \in SUBSET Members
    BY <1>3, <1>4 DEF Busy
<1>6. Cardinality(Busy') = Cardinality(Busy) - 1 /\ Cardinality(Busy') \in Nat
    BY <1>3, <1>5, Finite, FS_RemoveElement, FS_CardinalityType
<1>7. Seen' = Seen
    BY <1>1 DEF Seen, Listed, Visited
<1>8. /\ Len(list') + Cardinality(Busy') <= work_count'
      /\ work_count' = work_count - 1 /\ work_count' \in Nat
    BY <1>1, <1>6, Finite DEF CountInv, FinishWork
<1>9. TypeOK'
    <2>1. work_count' \in 0 .. Cardinality(Paths)
        BY <1>8, CrewAssumption, FS_CardinalityType DEF TypeOK
    <2>2. done' \in SUBSET {Starter}
        BY DEF FinishWork, TellStarter, CondBroadcast, TypeOK
    <2> QED
        BY <1>1, <1>4, <2>1, <2>2 DEF TypeOK
<1>10. ListInv'
    BY <1>1 DEF ListInv
<1>11. WorkInv'
    BY <1>1, <1>4, <1>5 DEF WorkInv
<1>12. EntryInv'
    <2> SUFFICES ASSUME NEW d \in Directories, NEW e \in Entries[d], e \in Seen
                 PROVE  /\ visits[d] = 1
                        /\ \A n \in Busy' : work'[n] = d =>
                              pc'[n] # "stat" /\ (pc'[n] = "dir" => e \notin entries'[n])
        BY <1>1, <1>7 DEF EntryInv
    <2> QED
        BY <1>1, <1>4, <1>5 DEF EntryInv
<1>13. SearchInv'
    <2> SUFFICES ASSUME failed' = {}, NEW d \in Directories, visits[d] = 1,
                        NEW e \in Entries[d], e \notin Seen
                 PROVE  \E n \in Members : WillRead(n, d, e)'
        BY <1>1, <1>7 DEF SearchInv
    <2>1. PICK n \in Members : WillRead(n, d, e)
        BY <1>1 DEF SearchInv
    <2>2. n # m
        BY <1>3, <2>1 DEF WillRead
    <2> QED
        BY <1>1, <1>4, <2>1, <2>2 DEF WillRead
<1>14. StartInv'
    <2>1. MutexFree /\ MutexFree'
        BY <1>1 DEF FinishWork, MutexFree
    <2>2. spc # "start"
        <3>1. work_count # 0
            BY <1>8, Finite
        <3> QED
            BY <3>1 DEF StartInv
    <2> QED
        BY <1>1, <1>7, <2>1, <2>2 DEF StartInv
<1>15. CountInv'
    BY <1>7, <1>8, Finite DEF CountInv
<1>16. SleepInv'
    BY <1>1, <1>3, <1>4 DEF SleepInv, TypeOK
<1>17. CrewIsBusy'
    <2>1. CASE go = {}
        BY <1>1, <2>1 DEF CrewIsBusy
    <2>2. Looking \subseteq Looking'
        <3>1. \A n \in Looking : n # m /\ n \in Members
            BY <1>3 DEF Looking, Awake, AtTop
        <3> QED
            BY <1>1, <1>4, <3>1 DEF Looking, Awake, AtTop
    <2>3. Len(list') <= Len(list)
        BY <1>1, Finite
    <2> QED
        BY <1>9, <2>1, <2>2, <2>3, MoreLook
<1> QED
    BY <1>9, <1>10, <1>11, <1>12, <1>13, <1>14, <1>15, <1>16, <1>17

(* New work is put into the list, and a member that sleeps is told. *)
LEMMA PutWorkKeeps ==
    ASSUME IInv, NEW e \in Paths, e \notin Seen, PutWork(e), UNCHANGED <<pc, visits>>
    PROVE  /\ work_count' = work_count + 1 /\ work_count' \in 0 .. Cardinality(Paths)
           /\ list' \in Seq(Paths)
           /\ go' \in SUBSET Members
           /\ Seen' = Seen \cup {e}
           /\ ListInv' /\ CountInv' /\ SleepInv' /\ CrewIsBusy'
<1> USE DEF IInv
<1>1. /\ Len(list') = Len(list) + 1
      /\ list' \in Seq(Paths)
      /\ Seen' = Seen \cup {e}
      /\ ListInv'
      /\ Cardinality(Seen') = Cardinality(Seen) + 1
    BY PutSees DEF PutWork
<1>2. Seen' \in SUBSET Paths
    BY <1>1, Finite
<1>3. Cardinality(Seen') <= Cardinality(Paths) /\ Cardinality(Paths) \in Nat
    BY <1>2, CrewAssumption, FS_Subset, FS_CardinalityType
<1>4. Busy' = Busy
    BY DEF Busy
<1>5. work_count' = work_count + 1
    BY DEF PutWork
<1>6. CountInv'
    BY <1>1, <1>4, <1>5, Finite DEF CountInv
<1>7. work_count' \in 0 .. Cardinality(Paths)
    BY <1>1, <1>3, <1>5, Finite DEF CountInv
<1>8. (go = {} /\ go' = {}) \/ \E n \in go : go' = go \ {n}
    BY DEF PutWork, TellOne, CondSignal
<1>9. go' \in SUBSET go /\ go' \in SUBSET Members
    BY <1>8 DEF TypeOK
<1>10. SleepInv'
    BY <1>9 DEF SleepInv
<1>11. CrewIsBusy'
    <2>1. CASE go = {}
        BY <1>9, <2>1 DEF CrewIsBusy
    <2>2. CASE go # {}
        <3>1. PICK n \in go : go' = go \ {n}
            BY <1>8, <2>2
        <3>2. n \in Members /\ pc[n] \in {"wait_go", "wait_work"}
            BY DEF SleepInv, TypeOK
        <3>3. n \notin Looking
            BY <3>1, <3>2 DEF Looking, Awake, AtTop
        <3>4. Looking' = Looking \cup {n}
            BY <3>1, <3>2 DEF Looking, Awake, AtTop
        <3>5. Cardinality(Looking') = Cardinality(Looking) + 1
            BY <3>3, <3>4, Finite, FS_AddElement
        <3>6. Len(list) <= Cardinality(Looking)
            BY <2>2 DEF CrewIsBusy, Looking
        <3>7. Len(list') <= Cardinality(Looking')
            BY <1>1, <3>5, <3>6, Finite
        <3> QED
            BY <3>7 DEF CrewIsBusy, Looking
    <2> QED
        BY <2>1, <2>2
<1> QED
    BY <1>1, <1>5, <1>6, <1>7, <1>9, <1>10, <1>11

(* crew_start puts the root into the list. *)
LEMMA StartIInv == IInv /\ Start => IInv'
<1> SUFFICES ASSUME IInv, Start PROVE IInv'
    OBVIOUS
<1> USE DEF IInv
<1>1. UNCHANGED <<pc, work, entries, aborted, visits, failed>>
    BY DEF Start, memberVars
<1>2. spc = "start" /\ spc' = "wait" /\ done' \in SUBSET {Starter}
    BY DEF Start, CondWait, TypeOK
<1>3. Seen = {} /\ Root \in Paths
    BY <1>2, CrewAssumption DEF StartInv
<1>4. /\ work_count' = work_count + 1 /\ work_count' \in 0 .. Cardinality(Paths)
      /\ list' \in Seq(Paths)
      /\ go' \in SUBSET Members
      /\ Seen' = Seen \cup {Root}
      /\ ListInv' /\ CountInv' /\ SleepInv' /\ CrewIsBusy'
    BY <1>1, <1>3, PutWorkKeeps DEF Start
<1>5. TypeOK'
    BY <1>1, <1>2, <1>4 DEF TypeOK
<1>6. WorkInv'
    BY <1>1 DEF WorkInv, Busy
<1>7. EntryInv'
    BY <1>3, <1>4, CrewAssumption DEF EntryInv
<1>8. SearchInv'
    BY <1>1, <1>4 DEF SearchInv, WillRead
<1>9. StartInv'
    BY <1>2, <1>4 DEF StartInv, MutexFree
<1> QED
    BY <1>4, <1>5, <1>6, <1>7, <1>8, <1>9

(* A member reads an entry of its directory, which nobody has seen. *)
LEMMA ReadEntryIInv == ASSUME NEW m \in Members PROVE IInv /\ ReadEntry(m) => IInv'
<1> SUFFICES ASSUME IInv, ReadEntry(m) PROVE IInv'
    OBVIOUS
<1> USE DEF IInv
<1>1. UNCHANGED <<done, pc, work, spc, aborted, visits, failed>>
    BY DEF ReadEntry
<1>2. PICK e \in entries[m] :
          PutWork(e) /\ entries' = [entries EXCEPT ![m] = @ \ {e}]
    BY DEF ReadEntry
<1>3. pc[m] = "dir" /\ MutexFree /\ m \in Busy /\ Busy' = Busy /\ Busy \in SUBSET Members
    BY <1>1 DEF ReadEntry, Busy
<1> DEFINE d == work[m]
<1>4. d \in Directories /\ d \in Paths /\ e \in Entries[d] /\ e \in Paths
    BY <1>3, CrewAssumption DEF WorkInv
<1>5. e \notin Seen /\ visits[d] = 1
    BY <1>3, <1>4 DEF EntryInv, WorkInv
<1> HIDE DEF d
<1>6. /\ work_count' = work_count + 1 /\ work_count' \in 0 .. Cardinality(Paths)
      /\ list' \in Seq(Paths)
      /\ go' \in SUBSET Members
      /\ Seen' = Seen \cup {e}
      /\ ListInv' /\ CountInv' /\ SleepInv' /\ CrewIsBusy'
    BY <1>1, <1>2, <1>4, <1>5, PutWorkKeeps
<1>7. /\ entries' \in [Members -> SUBSET Paths]
      /\ entries'[m] = entries[m] \ {e}
      /\ \A n \in Members : n # m => entries'[n] = entries[n]
    BY <1>2 DEF TypeOK
<1>8. TypeOK'
    BY <1>1, <1>6, <1>7 DEF TypeOK
<1>9. WorkInv'
    <2>1. \A n \in Busy' : work'[n] \in Paths /\ visits'[work'[n]] = 1
        BY <1>1, <1>3 DEF WorkInv
    <2>2. \A n, o \in Busy' : work'[n] = work'[o] => n = o
        BY <1>1, <1>3 DEF WorkInv
    <2>3. ASSUME NEW n \in Members, pc'[n] = "dir"
          PROVE  work'[n] \in Directories /\ entries'[n] \subseteq Entries[work'[n]]
        BY <1>1, <1>7, <2>3 DEF WorkInv
    <2> QED
        BY <2>1, <2>2, <2>3 DEF WorkInv
<1>10. EntryInv'
    <2> SUFFICES ASSUME NEW c \in Directories, NEW f \in Entries[c], f \in Seen \cup {e}
                 PROVE  /\ visits[c] = 1
                        /\ \A n \in Busy : work[n] = c =>
                              pc[n] # "stat" /\ (pc[n] = "dir" => f \notin entries'[n])
        BY <1>1, <1>3, <1>6 DEF EntryInv
    <2>1. CASE f = e
        <3>1. c = d
            BY <1>4, <2>1, TreeAssumption
        <3>2. \A n \in Busy : work[n] = c => n = m
            BY <1>3, <3>1 DEF WorkInv, d
        <3> QED
            BY <1>3, <1>5, <1>7, <2>1, <3>1, <3>2
    <2>2. CASE f # e
        <3>1. f \in Seen
            BY <2>2
        <3>2. \A n \in Members : entries'[n] \in SUBSET entries[n]
            BY <1>7
        <3> QED
            BY <1>3, <3>1, <3>2 DEF EntryInv
    <2> QED
        BY <2>1, <2>2
<1>11. SearchInv'
    <2> SUFFICES ASSUME failed' = {}, NEW c \in Directories, visits[c] = 1,
                        NEW f \in Entries[c], f \notin Seen \cup {e}
                 PROVE  \E n \in Members : WillRead(n, c, f)'
        BY <1>1, <1>6 DEF SearchInv
    <2>1. PICK n \in Members : WillRead(n, c, f)
        BY <1>1 DEF SearchInv
    <2>2. f \in entries[n] => f \in entries'[n]
        BY <1>7
    <2> QED
        BY <1>1, <2>1, <2>2 DEF WillRead
<1>12. StartInv'
    <2>1. MutexFree'
        BY <1>1, <1>3 DEF MutexFree
    <2>2. spc # "start"
        BY <1>4, <1>5, CrewAssumption DEF StartInv, Seen, Visited
    <2> QED
        BY <1>1, <1>6, <2>1, <2>2 DEF StartInv
<1> QED
    BY <1>6, <1>8, <1>9, <1>10, <1>11, <1>12

-------------------------------------------------------------------------------
(* Every step of crew_start and of the members keeps the invariant. *)
LEMMA NextIInv == IInv /\ [Next]_vars => IInv'
<1> SUFFICES ASSUME IInv, [Next]_vars PROVE IInv'
    OBVIOUS
<1>1. CASE Start
    BY <1>1, StartIInv
<1>2. CASE \/ StartWakes \/ StartLocksAgain \/ SpuriousWakeup
           \/ \E m \in Members : PathIsNull(m) \/ FreeAborts(m)
    BY <1>2, OutsideIInv
<1>3. ASSUME NEW m \in Members, Member(m) PROVE IInv'
    BY <1>3, AwaitIInv, TakeWorkIInv, WorkIInv, ReadEntryIInv, FinishWorkIInv DEF Member
<1>4. CASE UNCHANGED vars
    <2>1. /\ UNCHANGED <<work_count, list, go, done, pc, work, entries, spc, aborted, visits,
                         failed>>
        BY <1>4 DEF vars, memberVars
    <2>2. Seen' = Seen /\ Busy' = Busy
        BY <2>1 DEF Seen, Listed, Visited, Busy
    <2>3. TypeOK' /\ ListInv' /\ WorkInv' /\ EntryInv'
        BY <2>1, <2>2 DEF IInv, TypeOK, ListInv, WorkInv, EntryInv
    <2>4. SearchInv' /\ StartInv' /\ CountInv' /\ SleepInv'
        BY <2>1, <2>2 DEF IInv, SearchInv, WillRead, StartInv, MutexFree, CountInv, SleepInv
    <2>5. CrewIsBusy'
        BY <2>1 DEF IInv, CrewIsBusy, Awake, AtTop
    <2> QED
        BY <2>3, <2>4, <2>5 DEF IInv
<1> QED
    BY <1>1, <1>2, <1>3, <1>4 DEF Next, CrewStart

(* The invariant holds in every state of the crew. *)
THEOREM InvariantHolds == Spec => []IInv
    BY InitIInv, NextIInv, PTL DEF Spec

(* crew_start leaves its wait only when the list is empty and no member is *)
(* at work, and then every path was taken once unless a call has failed:   *)
(* the paths that were not taken would have a directory that was.          *)
THEOREM SearchIsComplete == Spec => []DoneMeansSearched
<1>1. ASSUME IInv PROVE DoneMeansSearched
    <2> USE <1>1 DEF IInv
    <2> SUFFICES ASSUME spc \in {"unlock", "blocked"}
                 PROVE  /\ list = <<>> /\ Busy = {}
                        /\ failed = {} => \A p \in Paths : visits[p] = 1
        BY DEF DoneMeansSearched
    <2>1. work_count = 0
        BY DEF StartInv, MutexFree
    <2>2. Len(list) = 0 /\ Cardinality(Busy) = 0
        BY <2>1, Finite DEF CountInv
    <2>3. list = <<>> /\ Busy = {}
        BY <2>2, Finite, FS_EmptySet DEF TypeOK
    <2>4. Seen = Visited
        BY <2>2 DEF Seen, Listed
    <2>5. ASSUME failed = {} PROVE \A p \in Paths : visits[p] = 1
        <3> DEFINE S == Paths \ Visited
        <3>1. Root \in Visited
            BY <2>4 DEF StartInv
        <3>2. SUFFICES ASSUME S # {} PROVE FALSE
            BY DEF Visited
        <3>3. S \in SUBSET (Paths \ {Root})
            BY <3>1
        <3> HIDE DEF S
        <3>4. PICK d \in Directories \ S : Entries[d] \cap S # {}
            BY <3>2, <3>3, TreeAssumption
        <3>5. PICK e \in Entries[d] : e \in S
            BY <3>4
        <3>6. d \in Visited /\ e \notin Seen
            BY <2>4, <3>4, <3>5, CrewAssumption DEF S
        <3>7. PICK m \in Members : WillRead(m, d, e)
            BY <2>5, <3>5, <3>6 DEF SearchInv, Visited
        <3>8. m \in Busy
            BY <3>7 DEF WillRead, Busy
        <3> QED
            BY <2>3, <3>8
    <2> QED
        BY <2>3, <2>5
<1> QED
    BY <1>1, InvariantHolds, PTL

(* No signal on crew->go is lost: while a member sleeps, each path in the  *)
(* list has an awake member that will look for it.                         *)
THEOREM NoIdleMember == Spec => []CrewIsBusy
<1>1. IInv => CrewIsBusy
    BY DEF IInv
<1> QED
    BY <1>1, InvariantHolds, PTL
===============================================================================
