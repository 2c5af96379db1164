-------------------------------- MODULE Suspend --------------------------------
(***************************************************************************)
(* chap6-adjust/susp.cxx: threads that are stopped and resumed with        *)
(* SIGUSR1 and SIGUSR2.                                                    *)
(*                                                                         *)
(* The callers call thd_suspend and thd_continue in any order (main does   *)
(* so in three fixed loops); the targets run thread_routine, take signals  *)
(* and exit.  A call that finds nothing to do (the target is listed        *)
(* already, or is not listed) changes nothing and is not shown.  The       *)
(* targets do not take mut, so that the steps of a call are separate.      *)
(***************************************************************************)
EXTENDS Naturals, Sequences

CONSTANTS
    Callers,
    Targets,
    NULL,
    Junk,           \* what uninitialised memory may hold besides thread ids
    InitialBottom,  \* 10 in suspend_init_routine
    MaxBottom       \* bound: the array grows no further, at least InitialBottom

VARIABLES
    inited,     \* pthread_once has run suspend_init_routine
    mut,        \* the caller that holds mut, or NULL
    arr,        \* the array; the empty sequence is the null pointer
    bottom,     \* its length as the code counts it
    sentinel,
    pc,         \* where each caller is
    target,     \* its argument
    slot,       \* its index i
    tpc,        \* where each target is
    pending,    \* the signals pending for each target
    leaked,     \* history: a slot of realloc was given up before it was written
    crashed     \* the process is gone

callVars == <<mut, pc, target, slot>>
vars == <<inited, callVars, arr, bottom, sentinel, tpc, pending, leaked, crashed>>

TypeOK ==
    /\ inited \in BOOLEAN
    /\ mut \in Callers \cup {NULL}
    /\ arr \in Seq(Targets \cup {NULL, Junk})
    /\ bottom \in 0 .. MaxBottom + 1
    /\ sentinel \in {0, 1}
    /\ pc \in [Callers -> {"idle", "kill", "spin", "clear"}]
    /\ \A c \in Callers : pc[c] # "idle" <=> mut = c
    /\ target \in [Callers -> Targets \cup {NULL}]
    /\ slot \in [Callers -> 0 .. MaxBottom]
    /\ tpc \in [Targets -> {"run", "handler", "set", "suspended", "exited"}]
    /\ pending \in [Targets -> SUBSET {"SIGUSR1", "SIGUSR2"}]
    /\ leaked \in BOOLEAN
    /\ crashed \in BOOLEAN

Init ==
    /\ inited = FALSE
    /\ mut = NULL
    /\ arr = <<>>
    /\ bottom = 0
    /\ sentinel = 0
    /\ pc = [c \in Callers |-> "idle"]
    /\ target = [c \in Callers |-> NULL]
    /\ slot = [c \in Callers |-> 0]
    /\ tpc = [t \in Targets |-> "run"]
    /\ pending = [t \in Targets |-> {}]
    /\ leaked = FALSE
    /\ crashed = FALSE

Slots == 1 .. Len(arr)
Listed(t) == \E i \in Slots : arr[i] = t

-------------------------------------------------------------------------------
(* suspend_init_routine, run by the first call of either function.  *)
SuspendInit ==
    /\ ~inited
    /\ inited' = TRUE
    /\ bottom' = InitialBottom
    /\ arr' = [i \in 1 .. InitialBottom |-> NULL]
    /\ UNCHANGED <<callVars, sentinel, tpc, pending, leaked, crashed>>

\* A call has locked mut and goes on at step `at' with slot i.
Locked(c, t, i, at) ==
    /\ mut' = c
    /\ target' = [target EXCEPT ![c] = t]
    /\ slot' = [slot EXCEPT ![c] = i]
    /\ pc' = [pc EXCEPT ![c] = at]

Unlocked(c) ==
    /\ mut' = NULL
    /\ target' = [target EXCEPT ![c] = NULL]
    /\ slot' = [slot EXCEPT ![c] = 0]
    /\ pc' = [pc EXCEPT ![c] = "idle"]

\* A call of either function can begin, and may read arr[0 .. bottom - 1].
CanCall == inited /\ mut = NULL /\ Len(arr) = bottom

\* After a failed realloc arr is NULL, and the next call reads through it.
ReadsNull ==
    /\ inited /\ mut = NULL /\ Len(arr) # bottom
    /\ crashed' = TRUE
    /\ UNCHANGED <<inited, callVars, arr, bottom, sentinel, tpc, pending, leaked>>

(* thd_suspend of a thread that is not listed *)
FirstFree(i) == arr[i] = NULL /\ \A j \in 1 .. i - 1 : arr[j] # NULL

SuspendBegin(c, t) ==
    /\ CanCall /\ ~Listed(t)
    /\ \E i \in Slots : FirstFree(i) /\ Locked(c, t, i, "kill")
    /\ sentinel' = 0
    /\ UNCHANGED <<inited, arr, bottom, tpc, pending, leaked, crashed>>

\* No slot is free: realloc adds one and leaves it uninitialised, and the
\* assignment meant to clear it writes behind the end of the array.  That is
\* either harmless or ends the process.
SuspendGrow(c, t) ==
    /\ CanCall /\ ~Listed(t)
    /\ \A i \in Slots : arr[i] # NULL
    /\ bottom < MaxBottom
    /\ bottom' = bottom + 1
    /\ \E v \in Targets \cup {NULL, Junk} : arr' = Append(arr, v)
    /\ Locked(c, t, bottom', "kill")
    /\ sentinel' = 0
    /\ crashed' \in BOOLEAN
    /\ UNCHANGED <<inited, tpc, pending, leaked>>

ReallocFails(t) ==
    /\ CanCall /\ ~Listed(t)
    /\ \A i \in Slots : arr[i] # NULL
    /\ bottom' = bottom + 1
    /\ arr' = <<>>
    /\ UNCHANGED <<inited, callVars, sentinel, tpc, pending, leaked, crashed>>

\* pthread_kill; the target may have exited.
SuspendKill(c) ==
    /\ pc[c] = "kill"
    /\ LET t == target[c] IN
       \/ /\ tpc[t] # "exited"
          /\ pending' = [pending EXCEPT ![t] = @ \cup {"SIGUSR1"}]
          /\ pc' = [pc EXCEPT ![c] = "spin"]
          /\ UNCHANGED <<mut, target, slot, leaked>>
       \/ /\ tpc[t] = "exited"
          /\ Unlocked(c)
          /\ leaked' = (leaked \/ arr[slot[c]] # NULL)
          /\ UNCHANGED pending
    /\ UNCHANGED <<inited, arr, bottom, sentinel, tpc, crashed>>

\* The loop on sched_yield ends, and the target is listed.
HandlerRuns_NotAwaited == TRUE
HandlerRuns == sentinel # 0

SuspendEnd(c) ==
    /\ pc[c] = "spin"
    /\ HandlerRuns
    /\ arr' = [arr EXCEPT ![slot[c]] = target[c]]
    /\ Unlocked(c)
    /\ UNCHANGED <<inited, bottom, sentinel, tpc, pending, leaked, crashed>>

(* thd_continue of a thread that is listed.  If it has exited, which only  *)
(* happens to one that uninitialised memory lists, nothing changes.        *)
FirstWith(t, i) == arr[i] = t /\ \A j \in 1 .. i - 1 : arr[j] # t

SendResume(t) == pending' = [pending EXCEPT ![t] = @ \cup {"SIGUSR2"}]

ContinueKill(c, t) ==
    /\ CanCall
    /\ tpc[t] # "exited"
    /\ \E i \in Slots : FirstWith(t, i) /\ Locked(c, t, i, "clear")
    /\ SendResume(t)
    /\ UNCHANGED <<inited, arr, bottom, sentinel, tpc, leaked, crashed>>

ContinueEnd(c) ==
    /\ pc[c] = "clear"
    /\ arr' = [arr EXCEPT ![slot[c]] = NULL]
    /\ Unlocked(c)
    /\ UNCHANGED <<inited, bottom, sentinel, tpc, pending, leaked, crashed>>

-------------------------------------------------------------------------------
(* A target, and the two handlers in it *)
targetUnchanged == <<inited, callVars, arr, bottom, leaked, crashed>>

\* What a target blocks inside suspend_signal_handler, outside sigsuspend.
SaMask_Empty == {}
SaMask == {"SIGUSR2"}
Blocked(t) == IF tpc[t] \in {"handler", "set"} THEN SaMask \cup {"SIGUSR1"}
                                               ELSE {}

EnterHandler(t) ==
    /\ tpc[t] = "run"
    /\ "SIGUSR1" \in pending[t]
    /\ pending' = [pending EXCEPT ![t] = @ \ {"SIGUSR1"}]
    /\ tpc' = [tpc EXCEPT ![t] = "handler"]
    /\ UNCHANGED <<targetUnchanged, sentinel>>

\* sentinel = 1, then sigsuspend.
ReportStop_AfterSleep(t) ==
    /\ tpc[t] = "handler"
    /\ tpc' = [tpc EXCEPT ![t] = "suspended"]
    /\ UNCHANGED <<targetUnchanged, sentinel, pending>>
ReportStop(t) ==
    /\ tpc[t] = "handler"
    /\ sentinel' = 1
    /\ tpc' = [tpc EXCEPT ![t] = "set"]
    /\ UNCHANGED <<targetUnchanged, pending>>

SigSuspend(t) ==
    /\ tpc[t] = "set"
    /\ tpc' = [tpc EXCEPT ![t] = "suspended"]
    /\ UNCHANGED <<targetUnchanged, sentinel, pending>>

\* resume_signal_handler runs inside sigsuspend, and both handlers return.
Resume(t) ==
    /\ tpc[t] = "suspended"
    /\ "SIGUSR2" \in pending[t]
    /\ pending' = [pending EXCEPT ![t] = @ \ {"SIGUSR2"}]
    /\ tpc' = [tpc EXCEPT ![t] = "run"]
    /\ UNCHANGED <<targetUnchanged, sentinel>>

\* resume_signal_handler runs elsewhere and has no effect.
IdleResume(t) ==
    /\ tpc[t] \in {"run", "handler", "set"}
    /\ "SIGUSR2" \in pending[t] \ Blocked(t)
    /\ pending' = [pending EXCEPT ![t] = @ \ {"SIGUSR2"}]
    /\ UNCHANGED <<targetUnchanged, sentinel, tpc>>

\* thread_routine returns; signals that are still pending are gone with it.
Exit(t) ==
    /\ tpc[t] = "run"
    /\ tpc' = [tpc EXCEPT ![t] = "exited"]
    /\ pending' = [pending EXCEPT ![t] = {}]
    /\ UNCHANGED <<targetUnchanged, sentinel>>

-------------------------------------------------------------------------------
Proceed(c) == ~crashed /\ (SuspendKill(c) \/ SuspendEnd(c) \/ ContinueEnd(c))

Begin(c) ==
    /\ ~crashed
    /\ \E t \in Targets :
         SuspendBegin(c, t) \/ SuspendGrow(c, t) \/ ReallocFails(t) \/ ContinueKill(c, t)

Signalled(t) ==
    ~crashed /\ (EnterHandler(t) \/ ReportStop(t) \/ SigSuspend(t) \/ Resume(t) \/ IdleResume(t))

Next ==
    \/ ~crashed /\ (SuspendInit \/ ReadsNull)
    \/ \E c \in Callers : Begin(c) \/ Proceed(c)
    \/ \E t \in Targets : Signalled(t) \/ (~crashed /\ Exit(t))

Spec == Init /\ [][Next]_vars

\* A call that has begun goes on, and a pending signal that is not blocked is
\* delivered.  Nobody has to call, and no target has to exit.
Fairness ==
    /\ \A c \in Callers : WF_vars(Proceed(c))
    /\ \A t \in Targets : WF_vars(Signalled(t))

FairSpec == Spec /\ Fairness

-------------------------------------------------------------------------------
(* When no call is under way, a thread arr lists has stopped and will not  *)
(* go on by itself: thd_suspend has waited for the handler, and the order  *)
(* of the two signals is kept.  (A slot that realloc left uninitialised    *)
(* may list a thread that nobody suspended.)  The fields keep their types.  *)
ListedIsStopped ==
    /\ TypeOK
    /\ (mut = NULL /\ ~leaked) =>
         \A t \in Targets : Listed(t) =>
            tpc[t] \in {"set", "suspended"} /\ pending[t] = {}

(* Conversely a thread in the handler is either listed, so that            *)
(* thd_continue will find it, or SIGUSR2 is on its way, also when it was   *)
(* sent between sentinel = 1 and sigsuspend: no thread is stopped for      *)
(* ever.  (A failed realloc forgets them all.)                             *)
StoppedCanResume ==
    (mut = NULL /\ Len(arr) = bottom) =>
        \A t \in Targets : tpc[t] \in {"handler", "set", "suspended"} =>
            Listed(t) \/ "SIGUSR2" \in pending[t]

(* A call that holds mut returns, unless thd_suspend has signalled a       *)
(* thread that exited before it took the signal: then it spins for ever.   *)
CallReturns ==
    \A c \in Callers :
        (pc[c] # "idle") ~>
            \/ pc[c] = "idle"
            \/ crashed
            \/ pc[c] = "spin" /\ tpc[target[c]] = "exited"
===============================================================================
