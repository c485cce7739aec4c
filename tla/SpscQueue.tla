----------------------------- MODULE SpscQueue -----------------------------
(***************************************************************************)
(* The lock-free queue between one producer and one consumer:              *)
(* lockfree_enqueue and lockfree_dequeue of kernel/core/fast_ipc.fj.       *)
(*                                                                         *)
(* Producer and consumer run on two CPUs, or preempt each other anywhere.  *)
(* A step is one access to a word the other side uses; a side knows its    *)
(* own index, as nobody else writes it.  The stores of a CPU become        *)
(* visible in the order they are made, as x86 has it.                      *)
(***************************************************************************)
EXTENDS Ring

CONSTANTS
    LfSlots,    \* LFQ_SLOTS, 16 in the code
    Words,      \* the values that can be queued
    ZeroWord    \* what lockfree_init fills the slots with

ASSUME LfAssumption == LfSlots \in Nat /\ LfSlots >= 2 /\ ZeroWord \in Words

VARIABLES
    lfHead,     \* LFQ_HEAD, written by the consumer
    lfTail,     \* LFQ_TAIL, written by the producer
    lfData,     \* LFQ_DATA
    prod,       \* where the producer is: idle, has found room, has stored
    value,      \* the word it enqueues
    cons,       \* where the consumer is: idle, has found some, has loaded
    word,       \* the word it has loaded
    lfOut       \* what the last dequeue returned

prodVars == <<lfTail, lfData, prod, value>>
consVars == <<lfHead, cons, word, lfOut>>
spscVars == <<prodVars, consVars>>

SpscInit ==
    /\ lfHead = 0 /\ lfTail = 0
    /\ lfData = [i \in 0 .. LfSlots - 1 |-> ZeroWord]
    /\ prod = "idle" /\ value = ZeroWord
    /\ cons = "idle" /\ word = ZeroWord /\ lfOut = ZeroWord

\* Mutant of lockfree_enqueue: the full test is missing.
CheckFullNever(v) ==
    /\ prod = "idle"
    /\ prod' = "room" /\ value' = v
    /\ UNCHANGED <<lfTail, lfData, consVars>>

\* lockfree_enqueue; one that finds the queue full returns -1 and changes
\* nothing.
CheckFull(v) ==
    /\ prod = "idle"
    /\ Advance(lfTail, LfSlots) # lfHead
    /\ prod' = "room" /\ value' = v
    /\ UNCHANGED <<lfTail, lfData, consVars>>

Store ==
    /\ prod = "room"
    /\ lfData' = [lfData EXCEPT ![lfTail] = value]
    /\ prod' = "stored"
    /\ UNCHANGED <<lfTail, value, consVars>>

Publish ==
    /\ prod = "stored"
    /\ lfTail' = Advance(lfTail, LfSlots)
    /\ prod' = "idle"
    /\ UNCHANGED <<lfData, value, consVars>>

\* lockfree_dequeue; one that finds the queue empty returns -1.
CheckEmpty ==
    /\ cons = "idle"
    /\ lfHead # lfTail
    /\ cons' = "some"
    /\ UNCHANGED <<lfHead, word, lfOut, prodVars>>

Load ==
    /\ cons = "some"
    /\ word' = lfData[lfHead]
    /\ cons' = "loaded"
    /\ UNCHANGED <<lfHead, lfOut, prodVars>>

GiveUp ==
    /\ cons = "loaded"
    /\ lfHead' = Advance(lfHead, LfSlots)
    /\ lfOut' = word
    /\ cons' = "idle"
    /\ UNCHANGED <<word, prodVars>>

SpscNext ==
    \/ \E v \in Words : CheckFull(v)
    \/ Store \/ Publish
    \/ CheckEmpty \/ Load \/ GiveUp

SpscSpec == SpscInit /\ [][SpscNext]_spscVars

----------------------------------------------------------------------------
\* lockfree_count
LfCount == IF lfTail >= lfHead THEN lfTail - lfHead ELSE LfSlots - lfHead + lfTail

\* Every word keeps its type.
SpscTypeOK ==
    /\ lfHead \in 0 .. LfSlots - 1
    /\ lfTail \in 0 .. LfSlots - 1
    /\ lfData \in [0 .. LfSlots - 1 -> Words]
    /\ prod \in {"idle", "room", "stored"} /\ value \in Words
    /\ cons \in {"idle", "some", "loaded"} /\ word \in Words /\ lfOut \in Words

\* Without a lock, and however the two sides interleave, the queue is a
\* bounded queue of one slot less than it has: a value becomes visible only
\* when it is stored, and its slot is reused only when it has been loaded.
LfQueue == INSTANCE Fifo WITH
              Values <- Words, Capacity <- LfSlots - 1,
              q <- Window(lfData, lfHead, LfCount, LfSlots), out <- lfOut
IsLockFreeQueue == LfQueue!Spec
============================================================================
