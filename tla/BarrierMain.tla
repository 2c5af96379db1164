------------------------------ MODULE BarrierMain ------------------------------
(***************************************************************************)
(* chap7-RealCode/barrier/main.cxx on top of Barrier: main initialises the *)
(* barrier, creates as many threads as it has places and joins them; each  *)
(* thread loops over two barrier_waits with its share of the work between. *)
(*                                                                         *)
(* The loop variable out_loop is not initialised: a thread starts with any *)
(* value of Starts.  The array of a thread is its own and is left out; its *)
(* increment is counted from the value main gave it.                       *)
(*                                                                         *)
(* main gives barrier_init the number of its threads: SameShare and        *)
(* MainReturns are about Threads with as many members as threshold.        *)
(***************************************************************************)
EXTENDS Barrier

CONSTANTS
    OUTLOOPS,
    Starts          \* the values an uninitialised out_loop may have

ASSUME BarrierMainAssumption ==
    /\ OUTLOOPS \in Int
    /\ Starts \subseteq Int

VARIABLES
    mpc,        \* where main is
    at,         \* where each thread is in thread_routine
    out_loop,
    increment,
    quota,      \* history: the number of loops the thread started with
    worked      \* history: how often each thread did its share of the work

mainVars == <<mpc, at, out_loop, increment, quota, worked>>
allVars == <<vars, mainVars>>

MainInit ==
    /\ Init
    /\ mpc = "init"
    /\ at = [t \in Threads |-> "none"]
    /\ out_loop = [t \in Threads |-> 0]
    /\ increment = [t \in Threads |-> 0]
    /\ quota = [t \in Threads |-> 0]
    /\ worked = [t \in Threads |-> 0]

Goto(t, place) == at' = [at EXCEPT ![t] = place]

-------------------------------------------------------------------------------
(* main; it ignores what barrier_init returns. *)
InitBarrier ==
    /\ mpc = "init"
    /\ BarrierInit \/ BarrierInitFails
    /\ mpc' = "create"
    /\ UNCHANGED <<at, out_loop, increment, quota, worked>>

CreateThread(t) ==
    /\ mpc = "create"
    /\ at[t] = "none"
    /\ Goto(t, "top")
    /\ \E n \in Starts :
         /\ out_loop' = [out_loop EXCEPT ![t] = n]
         /\ quota' = [quota EXCEPT ![t] = IF n < OUTLOOPS THEN OUTLOOPS - n ELSE 0]
    /\ mpc' = IF \A u \in Threads \ {t} : at[u] # "none" THEN "join" ELSE mpc
    /\ UNCHANGED <<vars, increment, worked>>

JoinThreads ==
    /\ mpc = "join"
    /\ \A t \in Threads : at[t] = "ended"
    /\ mpc' = "done"
    /\ UNCHANGED <<vars, at, out_loop, increment, quota, worked>>

-------------------------------------------------------------------------------
(* thread_routine *)
MoreLoops(t) == out_loop[t] < OUTLOOPS

FirstWait(t) ==
    /\ at[t] = "top"
    /\ MoreLoops(t)
    /\ WaitEnter(t)
    /\ Goto(t, "first")
    /\ UNCHANGED <<mpc, out_loop, increment, quota, worked>>

\* The first barrier_wait has returned.
Work(t) ==
    /\ at[t] = "first" /\ pc[t] = "idle"
    /\ ret[t] \in {"0", "-1"}
    /\ worked' = [worked EXCEPT ![t] = @ + 1]
    /\ Goto(t, "worked")
    /\ UNCHANGED <<vars, mpc, out_loop, increment, quota>>

SecondWait(t) ==
    /\ at[t] = "worked"
    /\ WaitEnter(t)
    /\ Goto(t, "second")
    /\ UNCHANGED <<mpc, out_loop, increment, quota, worked>>

\* The second one has; the thread that got -1 raises all increments.
EndLoop(t) ==
    /\ at[t] = "second" /\ pc[t] = "idle"
    /\ ret[t] \in {"0", "-1"}
    /\ increment' = [u \in Threads |-> increment[u] + IF ret[t] = "-1" THEN 1 ELSE 0]
    /\ out_loop' = [out_loop EXCEPT ![t] = @ + 1]
    /\ Goto(t, "top")
    /\ UNCHANGED <<vars, mpc, quota, worked>>

\* A positive status ends the process.
Abort(t) ==
    /\ at[t] \in {"first", "second"} /\ pc[t] = "idle"
    /\ ret[t] \notin {"0", "-1"}
    /\ mpc' = "aborted"
    /\ UNCHANGED <<vars, at, out_loop, increment, quota, worked>>

EndThread(t) ==
    /\ at[t] = "top"
    /\ ~MoreLoops(t)
    /\ Goto(t, "ended")
    /\ UNCHANGED <<vars, mpc, out_loop, increment, quota, worked>>

InBarrier(t) == Wait(t) /\ UNCHANGED mainVars

-------------------------------------------------------------------------------
Main == InitBarrier \/ (\E t \in Threads : CreateThread(t)) \/ JoinThreads

Routine(t) ==
    /\ mpc # "aborted"
    /\ \/ FirstWait(t) \/ Work(t) \/ SecondWait(t) \/ EndLoop(t)
       \/ Abort(t) \/ EndThread(t) \/ InBarrier(t)

MainNext ==
    \/ mpc # "aborted" /\ Main
    \/ \E t \in Threads : Routine(t) \/ (SpuriousWakeup(t) /\ UNCHANGED mainVars)

\* main and the threads go on when they can.
MainFairness ==
    /\ WF_allVars(mpc # "aborted" /\ Main)
    /\ \A t \in Threads : WF_allVars(Routine(t))

MainSpec == MainInit /\ [][MainNext]_allVars /\ MainFairness

-------------------------------------------------------------------------------
(* main returns if the threads happen to start with loop variables that    *)
(* give them equally many loops: the barrier holds nobody back for good.   *)
MainReturns ==
    (mpc = "join" /\ \A t, u \in Threads : quota[t] = quota[u])
        ~> (mpc \in {"done", "aborted"})

(* And only then: a thread that starts further on, or leaves at once,      *)
(* strands the others, for the barrier lets nobody out short.  When main   *)
(* returns every thread did the same number of shares.                     *)
SameShare == mpc = "done" => \A t, u \in Threads : worked[t] = worked[u]
===============================================================================
