-------------------------------- MODULE Fifo --------------------------------
(***************************************************************************)
(* What every bounded queue of the kernel promises: values leave in the    *)
(* order they were put in, none is lost or duplicated, and never more than *)
(* Capacity are held.  A refused put or take changes nothing.              *)
(***************************************************************************)
EXTENDS Naturals, Sequences

CONSTANTS Values, Capacity

VARIABLES
    q,          \* the values held, oldest first
    out         \* the value taken last

Init == q = <<>> /\ out \in Values

Put(v) == Len(q) < Capacity /\ q' = Append(q, v) /\ UNCHANGED out
Take == q # <<>> /\ out' = Head(q) /\ q' = Tail(q)

Next == Take \/ \E v \in Values : Put(v)

Spec == Init /\ [][Next]_<<q, out>>
============================================================================
