-------------------------------- MODULE Ring --------------------------------
(***************************************************************************)
(* The window of live entries of a circular buffer, as the ring buffers of *)
(* the kernel lay it out: indices 0 .. size-1, advanced modulo size.       *)
(***************************************************************************)
EXTENDS Integers, Sequences

\* (index + 1) % size
Advance(i, size) == (i + 1) % size

\* The entries from head on, oldest first.
Window(buf, head, count, size) ==
    [i \in 1 .. count |-> buf[(head + i - 1) % size]]
============================================================================
