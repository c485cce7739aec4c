------------------------------ MODULE PipeRing ------------------------------
(***************************************************************************)
(* The circular buffer of one pipe: pipe_read_circular and                 *)
(* pipe_write_circular of kernel/ipc/pipe_v2.fj, while the pipe has        *)
(* readers and writers.  There is no count: equal positions mean empty, so *)
(* one byte of the buffer is never used.                                   *)
(***************************************************************************)
EXTENDS Ring

CONSTANTS
    Size,       \* PIPE_BUF_SIZE, 4064 in the code
    Bytes,      \* the values of a byte
    Stale,      \* the byte pipe_create happens to find in the buffer
    Chunks,     \* what can be written in one call
    Lengths     \* the lengths a read can ask for

ASSUME SizeAssumption == Size \in Nat /\ Size >= 2
ASSUME StaleAssumption == Stale \in Bytes
ASSUME ChunksAssumption == Chunks \subseteq Seq(Bytes) /\ Lengths \subseteq Nat

VARIABLES
    rp,         \* +8: the read position
    wp,         \* +16: the write position
    buf,        \* the bytes from PIPE_BUF_OFFSET on
    io          \* the bytes the last call transferred

pipeVars == <<rp, wp, buf, io>>

Indices == 0 .. Size - 1

\* How far index i lies ahead of index j: (i - j + PIPE_BUF_SIZE) % PIPE_BUF_SIZE
Ahead(i, j) == (i - j + Size) % Size
Used == Ahead(wp, rp)
Smaller(a, b) == IF a < b THEN a ELSE b

\* pipe_create resets the positions and not the bytes.
PipeInit ==
    /\ rp = 0
    /\ wp = 0
    /\ buf = [i \in Indices |-> Stale]
    /\ io = <<>>

\* Mutant: the byte that tells full from empty is used.
WriteFull(data) ==
    LET n == Smaller(Len(data), Size - Used)
    IN  /\ n > 0
        /\ buf' = [i \in Indices |->
                      IF Ahead(i, wp) < n THEN data[Ahead(i, wp) + 1] ELSE buf[i]]
        /\ wp' = (wp + n) % Size
        /\ io' = SubSeq(data, 1, n)
        /\ UNCHANGED rp

\* pipe_write_circular: the first n bytes of data go behind the last one.
Write(data) ==
    LET n == Smaller(Len(data), Size - 1 - Used)
    IN  /\ n > 0
        /\ buf' = [i \in Indices |->
                      IF Ahead(i, wp) < n THEN data[Ahead(i, wp) + 1] ELSE buf[i]]
        /\ wp' = (wp + n) % Size
        /\ io' = SubSeq(data, 1, n)
        /\ UNCHANGED rp

\* pipe_read_circular
Read(len) ==
    LET n == Smaller(len, Used)
    IN  /\ n > 0
        /\ io' = [i \in 1 .. n |-> buf[(rp + i - 1) % Size]]
        /\ rp' = (rp + n) % Size
        /\ UNCHANGED <<wp, buf>>

PipeNext == (\E data \in Chunks : Write(data)) \/ (\E len \in Lengths : Read(len))

PipeSpec == PipeInit /\ [][PipeNext]_pipeVars

----------------------------------------------------------------------------
\* The positions stay inside the buffer and every byte is one that was there
\* at first or was written.
PipeTypeOK ==
    /\ rp \in Indices
    /\ wp \in Indices
    /\ buf \in [Indices -> Bytes]
    /\ io \in Seq(Bytes)

\* The buffer is a stream of Size - 1 bytes: transfers that wrap round its end
\* lose, repeat and reorder nothing, and full is never taken for empty.
Contents == INSTANCE Stream WITH
                Capacity <- Size - 1, q <- Window(buf, rp, Used, Size)
IsStream == Contents!Spec
============================================================================
