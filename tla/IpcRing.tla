------------------------------ MODULE IpcRing ------------------------------
(***************************************************************************)
(* The ring that holds the messages queued at one endpoint: ipc_queue_push *)
(* and ipc_queue_pop of kernel/ipc/ipc.fj.  An entry is the sender's PID   *)
(* with its 64-byte message, here one value.                               *)
(***************************************************************************)
EXTENDS Ring

CONSTANTS
    Slots,      \* IPC_QUEUE_SLOTS, 4 in the code
    Values,     \* the entries that can be queued
    Zero        \* the entry ipc2_init leaves in every slot

ASSUME SlotsAssumption == Slots \in Nat \ {0}
ASSUME ZeroAssumption == Zero \in Values

VARIABLES
    head,       \* EP_QUEUE_HEAD
    tail,       \* EP_QUEUE_TAIL
    count,      \* EP_QUEUE_COUNT
    slots,      \* the entries at EP_QUEUE_BASE
    popped      \* what the last ipc_queue_pop copied to its caller

vars == <<head, tail, count, slots, popped>>

Init ==
    /\ head = 0
    /\ tail = 0
    /\ count = 0
    /\ slots = [i \in 0 .. Slots - 1 |-> Zero]
    /\ popped = Zero

\* Mutants of the two operations: the bound of the full test is one too
\* large, and the head is not advanced.
PushOneTooMany(v) ==
    /\ count <= Slots
    /\ slots' = [slots EXCEPT ![tail] = v]
    /\ tail' = Advance(tail, Slots)
    /\ count' = count + 1
    /\ UNCHANGED <<head, popped>>
PopInPlace ==
    /\ count # 0
    /\ count' = count - 1
    /\ popped' = slots[head]
    /\ UNCHANGED <<head, tail, slots>>

Push(v) ==
    /\ count < Slots
    /\ slots' = [slots EXCEPT ![tail] = v]
    /\ tail' = Advance(tail, Slots)
    /\ count' = count + 1
    /\ UNCHANGED <<head, popped>>

\* The entry taken stays where it is.
Pop ==
    /\ count # 0
    /\ popped' = slots[head]
    /\ head' = Advance(head, Slots)
    /\ count' = count - 1
    /\ UNCHANGED <<tail, slots>>

Next == Pop \/ \E v \in Values : Push(v)

Spec == Init /\ [][Next]_vars

----------------------------------------------------------------------------
TypeOK ==
    /\ head \in 0 .. Slots - 1
    /\ tail \in 0 .. Slots - 1
    /\ count \in 0 .. Slots
    /\ slots \in [0 .. Slots - 1 -> Values]
    /\ popped \in Values

\* The three words agree: a push writes right behind the last live entry,
\* never over one, through any number of turns round the ring.
RingCoherent == tail = (head + count) % Slots

\* The ring is a bounded queue.
Queue == INSTANCE Fifo WITH
            Capacity <- Slots, q <- Window(slots, head, count, Slots), out <- popped
IsQueue == Queue!Spec
============================================================================
