---------------------------------- MODULE Pipe ---------------------------------
(***************************************************************************)
(* chap4-pattern/pipe.cc: main feeds integers into a chain of stages; each *)
(* stage has a thread that should wait for its datum, add one and send it  *)
(* on, and the last one keeps the results for main.                        *)
(*                                                                         *)
(* A stage thread waits while its datum IS ready, sends otherwise, and     *)
(* keeps its mutex while it sends: `held' says which stage mutexes their   *)
(* own threads hold.  Of a datum only its origin counts: an integer that   *)
(* was entered, or the uninitialised field of a stage.                     *)
(***************************************************************************)
EXTENDS Integers, Pthreads

CONSTANTS
    stages,         \* the argument of pipe_create
    MaxActive       \* bound: the integers entered and not yet asked for

VARIABLES
    held,       \* stage->mutex is held by the thread of the stage
    data_ready,
    data,
    avail,      \* the threads asleep on the condition variables of a stage
    ready,
    at,         \* where the thread of each stage is
    mainAt,
    active,
    result      \* what the last pipe_result returned

vars == <<held, data_ready, data, avail, ready, at, mainAt, active, result>>

Main == -1
tail == stages
Threads == 0 .. stages - 1      \* the stages that have a thread, by number

\* pipe_create has allocated the stages and created the threads.
Init ==
    /\ held = [s \in 0 .. tail |-> FALSE]
    /\ data_ready = [s \in 0 .. tail |-> FALSE]
    /\ data = [s \in 0 .. tail |-> "uninitialised"]
    /\ avail = [s \in 0 .. tail |-> {}]
    /\ ready = [s \in 0 .. tail |-> {}]
    /\ at = [s \in Threads |-> "start"]
    /\ mainAt = "input"
    /\ active = 0
    /\ result = "none"

-------------------------------------------------------------------------------
(* pipe_send by thread t to stage s: it waits while a datum is there, or   *)
(* leaves one.                                                             *)
SendWaits(t, s) ==
    /\ ~held[s]
    /\ data_ready[s]
    /\ ready' = [ready EXCEPT ![s] = CondWait(@, t)]

SendLeaves(s, datum) ==
    /\ ~held[s]
    /\ ~data_ready[s]
    /\ data' = [data EXCEPT ![s] = datum]
    /\ \E woken \in CondSignal(avail[s]) : avail' = [avail EXCEPT ![s] = woken]

(* pipe_stage: the thread locks its mutex at the start, and again after a  *)
(* wait.                                                                   *)
StageLocks(s) ==
    /\ at[s] \in {"start", "avail"}
    /\ s \notin avail[s]
    /\ held' = [held EXCEPT ![s] = TRUE]
    /\ at' = [at EXCEPT ![s] = "test"]
    /\ UNCHANGED <<data_ready, data, avail, ready, mainAt, active, result>>

StageWaits(s) ==
    /\ at[s] = "test"
    /\ data_ready[s]
    /\ held' = [held EXCEPT ![s] = FALSE]
    /\ avail' = [avail EXCEPT ![s] = CondWait(@, s)]
    /\ at' = [at EXCEPT ![s] = "avail"]
    /\ UNCHANGED <<data_ready, data, ready, mainAt, active, result>>

\* It is in pipe_send to the next stage and not asleep there.
Sending(s) ==
    \/ at[s] = "test" /\ ~data_ready[s]
    \/ at[s] = "send" /\ s \notin ready[s + 1]

StageSendWaits(s) ==
    /\ Sending(s)
    /\ SendWaits(s, s + 1)
    /\ at' = [at EXCEPT ![s] = "send"]
    /\ UNCHANGED <<held, data_ready, data, avail, mainAt, active, result>>

StageSends(s) ==
    /\ Sending(s)
    /\ SendLeaves(s + 1, data[s])
    /\ data_ready' = [data_ready EXCEPT ![s + 1] = TRUE, ![s] = FALSE]
    /\ \E woken \in CondSignal(ready[s]) : ready' = [ready EXCEPT ![s] = woken]
    /\ at' = [at EXCEPT ![s] = "test"]
    /\ UNCHANGED <<held, mainAt, active, result>>

-------------------------------------------------------------------------------
(* pipe_start and pipe_result, called by main *)
Enter ==
    /\ mainAt = "input"
    /\ active < MaxActive
    /\ active' = active + 1
    /\ mainAt' = "start"
    /\ UNCHANGED <<held, data_ready, data, avail, ready, at, result>>

StartWaits ==
    /\ mainAt = "start" /\ Main \notin ready[0]
    /\ SendWaits(Main, 0)
    /\ UNCHANGED <<held, data_ready, data, avail, at, mainAt, active, result>>

StartSends ==
    /\ mainAt = "start" /\ Main \notin ready[0]
    /\ SendLeaves(0, "entered")
    /\ data_ready' = [data_ready EXCEPT ![0] = TRUE]
    /\ mainAt' = "input"
    /\ UNCHANGED <<held, ready, at, active, result>>

\* If the pipe is empty nothing changes.
AskResult ==
    /\ mainAt = "input"
    /\ active > 0
    /\ active' = active - 1
    /\ mainAt' = "result"
    /\ UNCHANGED <<held, data_ready, data, avail, ready, at, result>>

ResultWaits ==
    /\ mainAt = "result" /\ Main \notin avail[tail]
    /\ ~data_ready[tail]
    /\ avail' = [avail EXCEPT ![tail] = CondWait(@, Main)]
    /\ UNCHANGED <<held, data_ready, data, ready, at, mainAt, active, result>>

GetResult ==
    /\ mainAt = "result" /\ Main \notin avail[tail]
    /\ data_ready[tail]
    /\ result' = data[tail]
    /\ data_ready' = [data_ready EXCEPT ![tail] = FALSE]
    /\ \E woken \in CondSignal(ready[tail]) : ready' = [ready EXCEPT ![tail] = woken]
    /\ mainAt' = "input"
    /\ UNCHANGED <<held, data, avail, at, active>>

SpuriousWakeup(t, s) ==
    /\ t \in avail[s] \cup ready[s]
    /\ avail' = [avail EXCEPT ![s] = CondLeave(@, t)]
    /\ ready' = [ready EXCEPT ![s] = CondLeave(@, t)]
    /\ UNCHANGED <<held, data_ready, data, at, mainAt, active, result>>

-------------------------------------------------------------------------------
Stage(s) == StageLocks(s) \/ StageWaits(s) \/ StageSendWaits(s) \/ StageSends(s)

Next ==
    \/ \E s \in Threads : Stage(s)
    \/ Enter \/ StartWaits \/ StartSends \/ AskResult \/ ResultWaits \/ GetResult
    \/ \E t \in Threads \cup {Main}, s \in 0 .. tail : SpuriousWakeup(t, s)

Spec == Init /\ [][Next]_vars

(* What comes out at the end was put in at the front: a stage sends a      *)
(* datum on when it has got one.                                           *)
ResultIsEntered == result # "uninitialised"
===============================================================================
