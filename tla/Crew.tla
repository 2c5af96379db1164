--------------------------------- MODULE Crew ---------------------------------
(***************************************************************************)
(* chap4-pattern/crew.cc: crew_start puts one path into the list of work,  *)
(* the members of the crew take paths out, search the files, and put the   *)
(* entries of the directories back in; work_count tells crew_start and the *)
(* crew when everything is done.                                           *)
(*                                                                         *)
(* The file tree is a constant.  What a member finds in a file is left     *)
(* out.  The list of work is a sequence.  The mutex is not a variable,     *)
(* except that crew_start keeps it at its end.                             *)
(*                                                                         *)
(* A definition D_Variant stands before D and is D with a plausible slip:  *)
(* nothing uses it, and the properties must fail if it replaces D.         *)
(***************************************************************************)
EXTENDS Integers, FiniteSets, Sequences, Pthreads

CONSTANTS
    Paths,          \* the files and directories
    Root,           \* the argument of crew_start
    Directories,    \* which of the paths are directories
    Entries,        \* the paths in each directory
    Members,        \* the crew
    NULL

ASSUME CrewAssumption ==
    /\ Root \in Paths
    /\ NULL \notin Paths
    /\ IsFiniteSet(Paths)
    /\ Directories \subseteq Paths
    /\ Entries \in [Paths -> SUBSET Paths]
    /\ \A p \in Paths : Root \notin Entries[p]
    /\ IsFiniteSet(Members)

\* The paths are a tree: a path is an entry of one directory, and all paths
\* are below the root.
ASSUME TreeAssumption ==
    /\ \A c, d \in Directories : c # d => Entries[c] \cap Entries[d] = {}
    /\ \A S \in SUBSET (Paths \ {Root}) :
          S # {} => \E d \in Directories \ S : Entries[d] \cap S # {}

Starter == "crew_start"

VARIABLES
    work_count,     \* the fields of crew_t
    list,           \* the work from `first' to `last'
    go,             \* the members asleep on crew->go
    done,           \* the threads asleep on crew->done
    pc,             \* where each member is
    work,           \* the path it works on
    entries,        \* the entries of its directory it has not read yet
    spc,            \* where crew_start is
    aborted,        \* the process called abort
    visits,         \* history: how often each path was taken
    failed          \* history: the calls that have failed

memberVars == <<pc, work, entries>>
vars == <<work_count, list, go, done, memberVars, spc, aborted, visits, failed>>

TypeOK ==
    /\ work_count \in 0 .. Cardinality(Paths)
    /\ list \in Seq(Paths)
    /\ go \in SUBSET Members
    /\ done \in SUBSET {Starter}
    /\ pc \in [Members -> {"start", "wait_go", "top", "wait_work", "stat", "dir",
                           "finish", "left"}]
    /\ work \in [Members -> Paths \cup {NULL}]
    /\ entries \in [Members -> SUBSET Paths]
    /\ spc \in {"start", "wait", "unlock", "blocked"}
    /\ aborted \in BOOLEAN
    /\ visits \in [Paths -> 0 .. 1]
    /\ failed \in SUBSET {"lstat", "opendir", "readdir"}

\* crew_create has initialised the crew and created its members.
Init ==
    /\ work_count = 0
    /\ list = <<>>
    /\ go = {}
    /\ done = {}
    /\ pc = [m \in Members |-> "start"]
    /\ work = [m \in Members |-> NULL]
    /\ entries = [m \in Members |-> {}]
    /\ spc = "start"
    /\ aborted = FALSE
    /\ visits = [p \in Paths |-> 0]
    /\ failed = {}

-------------------------------------------------------------------------------
\* Work is linked at the end, counted, and one member is told.
TellOne_Nobody == UNCHANGED go
TellOne == go' \in CondSignal(go)

PutWork(p) ==
    /\ list' = Append(list, p)
    /\ work_count' = work_count + 1
    /\ TellOne

\* crew_start keeps the mutex from the end of its wait on.
MutexFree == spc \notin {"unlock", "blocked"}

(* crew_start; the crew has no work before its only call. *)
Start ==
    /\ spc = "start"
    /\ PutWork(Root)
    /\ done' = CondWait(done, Starter)
    /\ spc' = "wait"
    /\ UNCHANGED <<memberVars, aborted, visits, failed>>

WorkLeft_OnlyListed == list # <<>>
WorkLeft == work_count > 0

StartWakes ==
    /\ spc = "wait"
    /\ Starter \notin done
    /\ IF WorkLeft
         THEN done' = CondWait(done, Starter) /\ UNCHANGED spc
         ELSE spc' = "unlock" /\ UNCHANGED done
    /\ UNCHANGED <<work_count, list, go, memberVars, aborted, visits, failed>>

\* Where the comment says unlock the mutex is locked a second time.
StartLocksAgain ==
    /\ spc = "unlock"
    /\ spc' = "blocked"
    /\ UNCHANGED <<work_count, list, go, done, memberVars, aborted, visits, failed>>

-------------------------------------------------------------------------------
(* worker_routine: each member first waits until there is any work.        *)
Awake(m) == pc[m] = "start" \/ (pc[m] = "wait_go" /\ m \notin go)

AwaitGo(m) ==
    /\ MutexFree
    /\ Awake(m)
    /\ IF work_count = 0
         THEN go' = CondWait(go, m) /\ pc' = [pc EXCEPT ![m] = "wait_go"]
         ELSE pc' = [pc EXCEPT ![m] = "top"] /\ UNCHANGED go
    /\ UNCHANGED <<work_count, list, done, work, entries, spc, aborted, visits, failed>>

AtTop(m) == pc[m] = "top" \/ (pc[m] = "wait_work" /\ m \notin go)

AwaitWork(m) ==
    /\ MutexFree
    /\ AtTop(m)
    /\ list = <<>>
    /\ go' = CondWait(go, m)
    /\ pc' = [pc EXCEPT ![m] = "wait_work"]
    /\ UNCHANGED <<work_count, list, done, work, entries, spc, aborted, visits, failed>>

Rest(l) == Tail(l)

TakeWork(m) ==
    /\ MutexFree
    /\ AtTop(m)
    /\ list # <<>>
    /\ work' = [work EXCEPT ![m] = Head(list)]
    /\ visits' = [visits EXCEPT ![Head(list)] = @ + 1]
    /\ list' = Rest(list)
    /\ pc' = [pc EXCEPT ![m] = "stat"]
    /\ UNCHANGED <<work_count, go, done, entries, spc, aborted, failed>>

\* The result of lstat is not checked: if it failed, the mode is arbitrary.
Misjudged(p, directory) ==
    IF directory = (p \in Directories) THEN {} ELSE {"lstat"}

\* A file is searched, anything else skipped; both end here.
OtherFile(m) ==
    /\ pc[m] = "stat"
    /\ failed' = failed \cup Misjudged(work[m], FALSE)
    /\ pc' = [pc EXCEPT ![m] = "finish"]
    /\ UNCHANGED <<work_count, list, go, done, work, entries, spc, aborted, visits>>

OpenDirectory(m) ==
    /\ pc[m] = "stat"
    /\ work[m] \in Directories
    /\ entries' = [entries EXCEPT ![m] = Entries[work[m]]]
    /\ pc' = [pc EXCEPT ![m] = "dir"]
    /\ UNCHANGED <<work_count, list, go, done, work, spc, aborted, visits, failed>>

\* opendir fails, always so on a file taken for a directory.  The path is left
\* by `continue', past the code that counts the work as done.
OpenFails(m) ==
    /\ pc[m] = "stat"
    /\ failed' = failed \cup Misjudged(work[m], TRUE) \cup {"opendir"}
    /\ work' = [work EXCEPT ![m] = NULL]
    /\ pc' = [pc EXCEPT ![m] = "top"]
    /\ UNCHANGED <<work_count, list, go, done, entries, spc, aborted, visits>>

\* An entry becomes new work.  The new element's path is never allocated:
\* if it happens to be NULL the process aborts, if not the name is written
\* to wherever it points.
ReadEntry(m) ==
    /\ pc[m] = "dir"
    /\ MutexFree
    /\ \E e \in entries[m] :
          /\ PutWork(e)
          /\ entries' = [entries EXCEPT ![m] = @ \ {e}]
    /\ UNCHANGED <<done, pc, work, spc, aborted, visits, failed>>

PathIsNull(m) ==
    /\ pc[m] = "dir"
    /\ entries[m] # {}
    /\ aborted' = TRUE
    /\ UNCHANGED <<work_count, list, go, done, memberVars, spc, visits, failed>>

CloseDirectory(m) ==
    /\ pc[m] = "dir"
    /\ failed' = failed \cup (IF entries[m] = {} THEN {} ELSE {"readdir"})
    /\ entries' = [entries EXCEPT ![m] = {}]
    /\ pc' = [pc EXCEPT ![m] = "finish"]
    /\ UNCHANGED <<work_count, list, go, done, work, spc, aborted, visits>>

\* free is called with the path that was never allocated.
FreeAborts(m) ==
    /\ pc[m] = "finish"
    /\ work[m] # Root
    /\ aborted' = TRUE
    /\ UNCHANGED <<work_count, list, go, done, memberVars, spc, visits, failed>>

\* The work is done; the member that did the last of it tells crew_start and
\* leaves the crew.
TellStarter_Nobody == UNCHANGED done
TellStarter == done' = CondBroadcast(done)

FinishWork(m) ==
    /\ MutexFree
    /\ pc[m] = "finish"
    /\ work' = [work EXCEPT ![m] = NULL]
    /\ work_count' = work_count - 1
    /\ IF work_count' <= 0
         THEN TellStarter /\ pc' = [pc EXCEPT ![m] = "left"]
         ELSE pc' = [pc EXCEPT ![m] = "top"] /\ UNCHANGED done
    /\ UNCHANGED <<list, go, entries, spc, aborted, visits, failed>>

SpuriousWakeup ==
    /\ \/ /\ \E m \in go : go' = CondLeave(go, m)
          /\ UNCHANGED done
       \/ /\ \E t \in done : done' = CondLeave(done, t)
          /\ UNCHANGED go
    /\ UNCHANGED <<work_count, list, memberVars, spc, aborted, visits, failed>>

-------------------------------------------------------------------------------
Member(m) ==
    \/ AwaitGo(m) \/ AwaitWork(m) \/ TakeWork(m)
    \/ OtherFile(m) \/ OpenDirectory(m) \/ OpenFails(m)
    \/ ReadEntry(m) \/ CloseDirectory(m) \/ FinishWork(m)

CrewStart == Start \/ StartWakes \/ StartLocksAgain

Next ==
    /\ ~aborted
    /\ \/ CrewStart
       \/ \E m \in Members : Member(m) \/ PathIsNull(m) \/ FreeAborts(m)
       \/ SpuriousWakeup

Spec == Init /\ [][Next]_vars

\* Every thread goes on when it can; no call is obliged to fail.
FairSpec ==
    /\ Spec
    /\ WF_vars(CrewStart)
    /\ \A m \in Members : WF_vars(Member(m))

-------------------------------------------------------------------------------
Busy == {m \in Members : pc[m] \in {"stat", "dir", "finish"}}

(* crew_start leaves its wait only when nothing is left, whatever failed:  *)
(* no work is in the list and no member is at work; and if nothing failed, *)
(* every path below the root was taken exactly once.                       *)
DoneMeansSearched ==
    /\ TypeOK
    /\ spc \in {"unlock", "blocked"} =>
          /\ list = <<>> /\ Busy = {}
          /\ failed = {} => \A p \in Paths : visits[p] = 1

(* No member sleeps while there is work nobody is about to take: while one *)
(* sleeps, each element of the list has an awake member of its own.        *)
CrewIsBusy ==
    go # {} => Len(list) <= Cardinality({m \in Members : Awake(m) \/ AtTop(m)})

(* crew_start leaves its wait even if lstat or readdir fails: as long as   *)
(* every directory can be opened, all the work is counted as done.         *)
CrewFinishes == (spc = "wait") ~> (spc # "wait" \/ aborted \/ "opendir" \in failed)
===============================================================================
