---------------------------- MODULE AbstractBarrier ----------------------------
(***************************************************************************)
(* What a cyclic barrier of N places promises to the threads that wait on  *)
(* it: an arriving thread stays until N threads have arrived, the N-th     *)
(* releases all of them in one step and passes, and a released thread      *)
(* leaves whatever happens at the barrier afterwards.                      *)
(***************************************************************************)
EXTENDS Naturals, FiniteSets

CONSTANTS Threads, N

VARIABLES
    inside,     \* the threads of the current cycle that have arrived
    released    \* the threads of completed cycles that have not left yet

abstractVars == <<inside, released>>

Init == inside = {} /\ released = {}

Arrive(t) ==
    /\ t \notin inside \cup released
    /\ Cardinality(inside) + 1 < N
    /\ inside' = inside \cup {t}
    /\ UNCHANGED released

Complete(t) ==
    /\ t \notin inside \cup released
    /\ Cardinality(inside) + 1 = N
    /\ inside' = {}
    /\ released' = released \cup inside

Leave(t) ==
    /\ t \in released
    /\ released' = released \ {t}
    /\ UNCHANGED inside

Next == \E t \in Threads : Arrive(t) \/ Complete(t) \/ Leave(t)

Spec == Init /\ [][Next]_abstractVars
===============================================================================
