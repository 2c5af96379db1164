------------------------------ MODULE Subcontract ------------------------------
(***************************************************************************)
(* chap5-advance/cancel_subcontract.cxx: a master thread creates workers   *)
(* and joins them; when main cancels the master, its cleanup handler       *)
(* cancels and detaches the workers it has not joined.                     *)
(*                                                                         *)
(* A worker loops until it is cancelled.  No call of pthread_join in the   *)
(* master returns: its workers are cancelled only by its own handler.      *)
(* team.join_i is not initialised before the loop that joins.              *)
(***************************************************************************)
EXTENDS Naturals

CONSTANT THREADS

VARIABLES
    created,    \* the workers the master has created
    join_i,     \* team.join_i
    master,     \* where the master is
    nextToGo,   \* `count' in the handler
    dismissed,  \* the workers that were cancelled and detached
    gone,       \* those that have ended
    boss        \* where main is

vars == <<created, join_i, master, nextToGo, dismissed, gone, boss>>

TheWorkers == 0 .. THREADS - 1

Init ==
    /\ created = 0
    /\ join_i \in 0 .. THREADS
    /\ master = "create"
    /\ nextToGo = 0
    /\ dismissed = {}
    /\ gone = {}
    /\ boss = "sleep"

\* pthread_create is no cancellation point.
CreateWorker ==
    /\ master = "create"
    /\ created < THREADS
    /\ created' = created + 1
    /\ UNCHANGED <<join_i, master, nextToGo, dismissed, gone, boss>>

\* The handler is pushed, and the master blocks in the first pthread_join.
JoinWorkers ==
    /\ master = "create"
    /\ created = THREADS
    /\ join_i' = 0
    /\ master' = "join"
    /\ UNCHANGED <<created, nextToGo, dismissed, gone, boss>>

\* pthread_join is the first point where a cancellation, old or new, acts.
EnterCleanup ==
    /\ master = "join"
    /\ boss = "join"
    /\ nextToGo' = join_i
    /\ master' = "cleanup"
    /\ UNCHANGED <<created, join_i, dismissed, gone, boss>>

Dismiss ==
    /\ master = "cleanup"
    /\ nextToGo < THREADS
    /\ dismissed' = dismissed \cup {nextToGo}
    /\ nextToGo' = nextToGo + 1
    /\ UNCHANGED <<created, join_i, master, gone, boss>>

EndCleanup ==
    /\ master = "cleanup"
    /\ nextToGo >= THREADS
    /\ master' = "ended"
    /\ UNCHANGED <<created, join_i, nextToGo, dismissed, gone, boss>>

\* worker_routine meets pthread_testcancel.
WorkerEnds(w) ==
    /\ boss # "done"
    /\ w \in dismissed \ gone
    /\ gone' = gone \cup {w}
    /\ UNCHANGED <<created, join_i, master, nextToGo, dismissed, boss>>

\* main: its sleep may be over before the master has come far.
CancelMaster ==
    /\ boss = "sleep"
    /\ boss' = "join"
    /\ UNCHANGED <<created, join_i, master, nextToGo, dismissed, gone>>

JoinMaster ==
    /\ boss = "join"
    /\ master = "ended"
    /\ boss' = "done"
    /\ UNCHANGED <<created, join_i, master, nextToGo, dismissed, gone>>

Master == CreateWorker \/ JoinWorkers \/ EnterCleanup \/ Dismiss \/ EndCleanup
Boss == CancelMaster \/ JoinMaster

Next == Master \/ Boss \/ \E w \in TheWorkers : WorkerEnds(w)

\* main and the master go on when they can.
Spec == Init /\ [][Next]_vars /\ WF_vars(Master) /\ WF_vars(Boss)

(* Whenever the cancellation finds the master, main joins it, and by then  *)
(* every worker was cancelled and detached: none runs on without an owner. *)
TeamEnds == <>[](boss = "done" /\ dismissed = TheWorkers)
===============================================================================
