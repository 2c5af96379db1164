----------------------------- MODULE TsdDestructor -----------------------------
(***************************************************************************)
(* chap5-advance/tsd_destructor.cxx: three threads, main among them, keep  *)
(* a private value under one key.  The destructor of the value counts the  *)
(* threads that are left, and the last one deletes the key.                *)
(*                                                                         *)
(* The process lives on when main leaves by pthread_exit.  A thread that   *)
(* sets or gets its value does so under a key that must still exist.       *)
(***************************************************************************)
EXTENDS Naturals, FiniteSets

CONSTANTS Users, Initial        \* the threads, and main

VARIABLES
    identity_key,           \* "none", "created" or "deleted"
    identity_key_counter,
    stage,                  \* where each thread is
    private                 \* the threads whose value is not NULL

vars == <<identity_key, identity_key_counter, stage, private>>

Init ==
    /\ identity_key = "none"
    /\ identity_key_counter = 0
    /\ stage = [t \in Users |-> IF t = Initial THEN "begin" ELSE "none"]
    /\ private = {}

\* main creates the key for all the threads there will be.
UserCount_OnlyCreated == Cardinality(Users) - 1
UserCount == Cardinality(Users)

CreateKey ==
    /\ stage[Initial] = "begin"
    /\ identity_key' = "created"
    /\ identity_key_counter' = UserCount
    /\ stage' = [stage EXCEPT ![Initial] = "get"]
    /\ UNCHANGED private

\* The value is allocated and set.
identity_key_get(t) ==
    /\ stage[t] = "get"
    /\ private' = private \cup {t}
    /\ stage' = [stage EXCEPT ![t] = "run"]
    /\ UNCHANGED <<identity_key, identity_key_counter>>

CreateThread(t) ==
    /\ stage[Initial] = "run"
    /\ stage[t] = "none"
    /\ stage' = [stage EXCEPT ![t] = "get"]
    /\ UNCHANGED <<identity_key, identity_key_counter, private>>

\* The thread returns, or main has created all and calls pthread_exit; the
\* value is set to NULL and handed to the destructor.
Leave(t) ==
    /\ stage[t] = "run"
    /\ t = Initial => \A u \in Users : stage[u] # "none"
    /\ private' = private \ {t}
    /\ stage' = [stage EXCEPT ![t] = "destructor"]
    /\ UNCHANGED <<identity_key, identity_key_counter>>

identity_key_destructor(t) ==
    /\ stage[t] = "destructor"
    /\ identity_key_counter' = identity_key_counter - 1
    /\ identity_key' = IF identity_key_counter' <= 0 THEN "deleted" ELSE identity_key
    /\ stage' = [stage EXCEPT ![t] = "ended"]
    /\ UNCHANGED private

Next ==
    \/ CreateKey
    \/ \E t \in Users :
         \/ identity_key_get(t) \/ CreateThread(t)
         \/ Leave(t) \/ identity_key_destructor(t)

(* The key is deleted by the last destructor, however the threads overlap: *)
(* no thread sets or keeps a value under a deleted key, and when all have  *)
(* ended the key does not stay behind.                                     *)
KeyOutlivesValues ==
    /\ identity_key = "deleted" => private = {} /\ \A t \in Users : stage[t] = "ended"
    /\ (\A t \in Users : stage[t] = "ended") => identity_key = "deleted"
===============================================================================
