------------------------------- MODULE Rings -------------------------------
(***************************************************************************)
(* The three circular buffers of the kernel side by side: the ring of an   *)
(* endpoint, the buffer of a pipe and the lock-free queue.  They share no  *)
(* state, so a behaviour exercises one of them.                            *)
(***************************************************************************)
EXTENDS IpcRing, PipeRing, SpscQueue

VARIABLE used       \* the buffer that is used

RingsInit ==
    /\ Init /\ PipeInit /\ SpscInit
    /\ used \in {"endpoint", "pipe", "lock-free"}

RingsNext ==
    \/ used = "endpoint" /\ Next /\ UNCHANGED <<pipeVars, spscVars, used>>
    \/ used = "pipe" /\ PipeNext /\ UNCHANGED <<vars, spscVars, used>>
    \/ used = "lock-free" /\ SpscNext /\ UNCHANGED <<vars, pipeVars, used>>

RingsSpec == RingsInit /\ [][RingsNext]_<<vars, pipeVars, spscVars, used>>
============================================================================
