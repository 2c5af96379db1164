------------------------------- MODULE Programs --------------------------------
(***************************************************************************)
(* The self-contained programs of chapters 3, 5 and 6 that are too small   *)
(* for a run of their own.  They share nothing: a behaviour picks one of   *)
(* them in its first state and is a behaviour of that one.                 *)
(***************************************************************************)
EXTENDS Naturals, FiniteSets

CONSTANTS
    Callers, Targets, NULL, Junk, InitialBottom, MaxBottom,     \* Suspend
    ITERATIONS,                                                 \* Backoff
    Waiters, Waits, MaxPosts,                                   \* Semaphore
    Thread,                                                     \* CancelCleanup
    THREADS,                                                    \* Subcontract
    Users, Initial                                              \* TsdDestructor

ASSUME ProgramsAssumption ==
    /\ NULL \notin Callers \cup Targets
    /\ InitialBottom \in Nat /\ MaxBottom \in Nat /\ InitialBottom <= MaxBottom
    /\ Waits \in Nat /\ IsFiniteSet(Waiters)
    /\ Initial \in Users /\ IsFiniteSet(Users)

VARIABLES
    program,
    inited, mut, arr, bottom, sentinel, pc, target, slot, tpc, pending, leaked, crashed,
    holder, place, index, rounds, aborted,
    atfork_flag, mutex, childMutex, mainAt, threadAt, childAt,
    value, timer, returned, woken, joined, posted,
    control, owner, sleepers, where, cancelled, main,
    created, join_i, master, nextToGo, dismissed, gone, boss,
    identity_key, identity_key_counter, stage, private

Susp == INSTANCE Suspend
Back == INSTANCE Backoff
Atfk == INSTANCE AtFork
Sema == INSTANCE Semaphore
Clean == INSTANCE CancelCleanup
Team == INSTANCE Subcontract
Tsd == INSTANCE TsdDestructor

suspVars == <<inited, mut, arr, bottom, sentinel, pc, target, slot, tpc, pending, leaked, crashed>>
backVars == <<holder, place, index, rounds, aborted>>
atfkVars == <<atfork_flag, mutex, childMutex, mainAt, threadAt, childAt>>
semaVars == <<value, timer, returned, woken, joined, posted>>
cleanVars == <<control, owner, sleepers, where, cancelled, main>>
teamVars == <<created, join_i, master, nextToGo, dismissed, gone, boss>>
tsdVars == <<identity_key, identity_key_counter, stage, private>>
vars == <<program, suspVars, backVars, atfkVars, semaVars, cleanVars, teamVars, tsdVars>>

Init ==
    /\ program \in {"susp", "backoff", "atfork", "semaphore_signal", "cancel_cleanup",
                    "cancel_subcontract", "tsd_destructor"}
    /\ Susp!Init /\ Back!Init /\ Atfk!Init /\ Sema!Init /\ Clean!Init /\ Team!Init /\ Tsd!Init
    /\ program # "atfork" => atfork_flag
    /\ program # "cancel_subcontract" => join_i = 0

Next ==
    \/ /\ program = "susp" /\ Susp!Next
       /\ UNCHANGED <<program, backVars, atfkVars, semaVars, cleanVars, teamVars, tsdVars>>
    \/ /\ program = "backoff" /\ Back!Next
       /\ UNCHANGED <<program, suspVars, atfkVars, semaVars, cleanVars, teamVars, tsdVars>>
    \/ /\ program = "atfork" /\ Atfk!Next
       /\ UNCHANGED <<program, suspVars, backVars, semaVars, cleanVars, teamVars, tsdVars>>
    \/ /\ program = "semaphore_signal" /\ Sema!Next
       /\ UNCHANGED <<program, suspVars, backVars, atfkVars, cleanVars, teamVars, tsdVars>>
    \/ /\ program = "cancel_cleanup" /\ Clean!Next
       /\ UNCHANGED <<program, suspVars, backVars, atfkVars, semaVars, teamVars, tsdVars>>
    \/ /\ program = "cancel_subcontract" /\ Team!Next
       /\ UNCHANGED <<program, suspVars, backVars, atfkVars, semaVars, cleanVars, tsdVars>>
    \/ /\ program = "tsd_destructor" /\ Tsd!Next
       /\ UNCHANGED <<program, suspVars, backVars, atfkVars, semaVars, cleanVars, teamVars>>

\* The fairness each program has by itself, if it is the one that runs.
Fairness ==
    /\ \A c \in Callers : WF_suspVars(program = "susp" /\ Susp!Proceed(c))
    /\ \A t \in Targets : WF_suspVars(program = "susp" /\ Susp!Signalled(t))
    /\ WF_atfkVars(program = "atfork" /\ Atfk!Main)
    /\ WF_atfkVars(program = "atfork" /\ Atfk!ForkThread)
    /\ WF_atfkVars(program = "atfork" /\ Atfk!Child)
    /\ WF_cleanVars(program = "cancel_cleanup" /\ Clean!Main)
    /\ \A t \in Thread : WF_cleanVars(program = "cancel_cleanup" /\ Clean!Routine(t))
    /\ WF_teamVars(program = "cancel_subcontract" /\ Team!Master)
    /\ WF_teamVars(program = "cancel_subcontract" /\ Team!Boss)

Spec == Init /\ [][Next]_vars /\ Fairness

-------------------------------------------------------------------------------
(* susp.cxx: a thread that is listed as suspended has stopped, and the     *)
(* array never lists one that runs.                                        *)
ListedIsStopped == Susp!ListedIsStopped

(* susp.cxx: no thread is stopped for ever; SIGUSR2 is not lost when it    *)
(* comes before sigsuspend.                                                *)
StoppedCanResume == Susp!StoppedCanResume

(* susp.cxx: thd_suspend and thd_continue return, unless the target exits  *)
(* with SIGUSR1 pending.                                                   *)
CallReturns == program = "susp" => Susp!CallReturns

(* backoff.cc: lockers in opposite orders do not deadlock.                 *)
NoDeadlock == Back!NoDeadlock

(* atfork.cxx: with the handlers parent and child both end.                *)
BothProcessesEnd == program = "atfork" => Atfk!BothProcessesEnd

(* semaphore_signal.cxx: every wake-up has its post, in spite of EINTR.    *)
PostsAreConserved == Sema!PostsAreConserved

(* The programs that clean up after cancelled threads, whenever the        *)
(* cancellation finds them.  cancel_cleanup.cxx: all threads are           *)
(* cancelled, counted out and joined.  cancel_subcontract.cxx: the master  *)
(* is joined when it has dismissed all of its workers.                     *)
CleanEnd ==
    /\ program = "cancel_cleanup" => Clean!CleanEnd
    /\ program = "cancel_subcontract" => Team!TeamEnds

(* tsd_destructor.cxx: the last destructor deletes the key, no other.      *)
KeyOutlivesValues == Tsd!KeyOutlivesValues
===============================================================================
