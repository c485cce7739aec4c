------------------------------ MODULE MCRings ------------------------------
(* Buffers of four slots or bytes, for TLC. *)
EXTENDS Rings

MCChunks == UNION {[1 .. n -> Bytes] : n \in 1 .. Size}
MCLengths == 1 .. Size
============================================================================
