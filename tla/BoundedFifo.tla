------------------------------ MODULE BoundedFifo ------------------------------
(***************************************************************************)
(* What a bounded queue of work promises: everything that is put in comes  *)
(* out once, in the order it was put in, and at most Capacity items are    *)
(* inside.                                                                 *)
(***************************************************************************)
EXTENDS Naturals, Sequences

CONSTANTS Elements, Capacity

VARIABLES
    queue,      \* the items inside
    out         \* the items that came out, in order

Init == queue = <<>> /\ out = <<>>

Put(e) ==
    /\ Len(queue) < Capacity
    /\ queue' = Append(queue, e)
    /\ UNCHANGED out

Get ==
    /\ queue # <<>>
    /\ out' = Append(out, Head(queue))
    /\ queue' = Tail(queue)

Next == Get \/ \E e \in Elements : Put(e)

Step == Next \/ UNCHANGED <<queue, out>>

Spec == Init /\ [][Next]_<<queue, out>>
===============================================================================
