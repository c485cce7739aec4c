------------------------------- MODULE Stream -------------------------------
(***************************************************************************)
(* What a pipe promises its readers and writers: a write takes as much of  *)
(* its bytes as there is room for, a read returns the oldest bytes, in the *)
(* order they were written, and removes exactly those.                     *)
(***************************************************************************)
EXTENDS Naturals, Sequences

CONSTANTS
    Chunks,     \* what can be written in one call: nonempty sequences of bytes
    Lengths,    \* the lengths a read can ask for
    Capacity

VARIABLES q, io     \* the bytes in the pipe, and what the last call transferred

Smaller(a, b) == IF a < b THEN a ELSE b

Init == q = <<>> /\ io = <<>>

Write(data) ==
    LET n == Smaller(Len(data), Capacity - Len(q))
    IN  /\ n > 0
        /\ q' = q \o SubSeq(data, 1, n)
        /\ io' = SubSeq(data, 1, n)

Read(len) ==
    LET n == Smaller(len, Len(q))
    IN  /\ n > 0
        /\ q' = SubSeq(q, n + 1, Len(q))
        /\ io' = SubSeq(q, 1, n)

Next == (\E data \in Chunks : Write(data)) \/ (\E len \in Lengths : Read(len))

Spec == Init /\ [][Next]_<<q, io>>
============================================================================
