-------------------------------- MODULE Ipc --------------------------------
(***************************************************************************)
(* Rendezvous message passing and notifications between processes          *)
(* (kernel/ipc/ipc.fj, kernel/ipc/notify.fj).                              *)
(*                                                                         *)
(* Every call acts for the process named by the current word, marks slots  *)
(* BLOCKED or READY in the process table, and returns to its caller: a     *)
(* process that has been marked BLOCKED keeps executing, and may call      *)
(* again, until the next timer tick.  The endpoint table is indexed by     *)
(* slot and no step of the process table ever resets an endpoint, so the   *)
(* model has the slots being killed, reaped and reused under it.           *)
(*                                                                         *)
(* A queued message is its sender; the ring it is stored in is modelled in *)
(* module IpcRing.  EP_CALLER_PID is written and never acted on.           *)
(***************************************************************************)
EXTENDS Sched, Sequences

CONSTANTS
    QueueSlots,     \* IPC_QUEUE_SLOTS, 4 in the code
    Bits            \* the notification bits in use

ASSUME IpcAssumption == QueueSlots \in Nat \ {0}

AnyPid == -1        \* from_pid of a receive from any sender

EpStates == {"IDLE", "SEND_BLOCKED", "RECV_BLOCKED", "CALL_BLOCKED"}

VARIABLES
    procState,      \* PROC_OFF_STATE
    current,        \* the word at 0x6FE00
    epState,        \* EP_STATE
    epPartner,      \* EP_PARTNER
    queue,          \* the message queue of every endpoint, oldest first
    msgBuf,         \* whether EP_MSG_BUF holds a message
    notifyPending,  \* EP_NOTIFY_PENDING, as a set of bits
    notifyMask      \* EP_NOTIFY_MASK, as a set of bits

procVars == <<procState, current>>
notifyVars == <<notifyPending, notifyMask>>
epVars == <<epState, epPartner, queue, msgBuf, notifyPending, notifyMask>>
vars == <<procVars, epVars>>

\* proc_v2_init and ipc2_init: every endpoint field is zeroed.
Init ==
    /\ procState = [p \in Pids |-> IF p = 0 THEN "RUNNING" ELSE "FREE"]
    /\ current = 0
    /\ epState = [p \in Pids |-> "IDLE"]
    /\ epPartner = [p \in Pids |-> 0]
    /\ queue = [p \in Pids |-> <<>>]
    /\ msgBuf = [p \in Pids |-> FALSE]
    /\ notifyPending = [p \in Pids |-> {}]
    /\ notifyMask = [p \in Pids |-> {}]

----------------------------------------------------------------------------
\* Helpers

me == current

Alive(p) == procState[p] # "FREE"       \* the liveness test of every call

\* Mutant: only a receive from any sender takes a message directly.
WaitsForAnyOnly(dst, src) ==
    epState[dst] = "RECV_BLOCKED" /\ epPartner[dst] = AnyPid

WaitsFor(dst, src) ==
    epState[dst] = "RECV_BLOCKED" /\ epPartner[dst] \in {src, AnyPid}

SleepsOn(src, dst) ==
    epState[src] = "SEND_BLOCKED" /\ epPartner[src] = dst

InQueue(src, dst) == \E i \in 1 .. Len(queue[dst]) : queue[dst][i] = src

\* The caller p of a blocking call waits for partner q in endpoint state s.
Block(p, s, q) ==
    /\ epState' = [epState EXCEPT ![p] = s]
    /\ epPartner' = [epPartner EXCEPT ![p] = q]
    /\ procState' = [procState EXCEPT ![p] = "BLOCKED"]

\* p becomes idle and READY, whatever its process state is.
Release(p) ==
    /\ epState' = [epState EXCEPT ![p] = "IDLE"]
    /\ epPartner' = [epPartner EXCEPT ![p] = AnyPid]
    /\ procState' = [procState EXCEPT ![p] = "READY"]

\* Mutants of ipc_queue_push: a full queue makes room by dropping its oldest,
\* and the full test is missing.
PushOverwrite(dst) ==
    queue' = [queue EXCEPT ![dst] =
                 Append(IF Len(@) < QueueSlots THEN @ ELSE Tail(@), me)]
PushUnbounded(dst) == queue' = [queue EXCEPT ![dst] = Append(@, me)]

\* ipc_queue_push: refused when the queue is full.
Push(dst) ==
    /\ Len(queue[dst]) < QueueSlots
    /\ queue' = [queue EXCEPT ![dst] = Append(@, me)]

----------------------------------------------------------------------------
\* ipc2_send and ipc2_call

\* The receiver is waiting: the message goes to its EP_MSG_BUF.
SendDirect(dst) ==
    /\ Alive(dst)
    /\ WaitsFor(dst, me)
    /\ msgBuf' = [msgBuf EXCEPT ![dst] = TRUE]
    /\ Release(dst)
    /\ UNCHANGED <<current, queue, notifyVars>>

SendQueued(dst) ==
    /\ Alive(dst)
    /\ ~ WaitsFor(dst, me)
    /\ Push(dst)
    /\ Block(me, "SEND_BLOCKED", dst)
    /\ UNCHANGED <<current, msgBuf, notifyVars>>

\* A call to a waiting receiver releases it and blocks the caller (in that
\* order when a process calls itself).
CallDirect(dst) ==
    /\ Alive(dst)
    /\ WaitsFor(dst, me)
    /\ msgBuf' = [msgBuf EXCEPT ![dst] = TRUE]
    /\ epState' = [epState EXCEPT ![dst] = "IDLE", ![me] = "CALL_BLOCKED"]
    /\ epPartner' = [epPartner EXCEPT ![dst] = AnyPid, ![me] = dst]
    /\ procState' = [procState EXCEPT ![dst] = "READY", ![me] = "BLOCKED"]
    /\ UNCHANGED <<current, queue, notifyVars>>

CallQueued(dst) ==
    /\ Alive(dst)
    /\ ~ WaitsFor(dst, me)
    /\ Push(dst)
    /\ Block(me, "CALL_BLOCKED", dst)
    /\ UNCHANGED <<current, msgBuf, notifyVars>>

----------------------------------------------------------------------------
\* ipc2_recv and ipc2_reply

\* Mutant of the pickup: the sender's endpoint state is not looked at.
ReleaseByPartner(src) ==
    IF epPartner[src] = me THEN Release(src)
    ELSE UNCHANGED <<epState, epPartner, procState>>

\* The sender of a message just taken is released if it sleeps on it.
ReleaseSender(src) ==
    IF SleepsOn(src, me) THEN Release(src)
    ELSE UNCHANGED <<epState, epPartner, procState>>

\* A queued message is delivered; from is not compared with its sender.
RecvQueued(from) ==
    /\ queue[me] # <<>>
    /\ queue' = [queue EXCEPT ![me] = Tail(@)]
    /\ ReleaseSender(Head(queue[me]))
    /\ UNCHANGED <<current, msgBuf, notifyVars>>

\* The queue is empty: a sender asleep on the caller would be served from its
\* EP_MSG_BUF, and otherwise the caller blocks.
RecvEmpty(from) ==
    /\ queue[me] = <<>>
    /\ IF from # AnyPid /\ SleepsOn(from, me)
       THEN Release(from)
       ELSE Block(me, "RECV_BLOCKED", from)
    /\ UNCHANGED <<current, queue, msgBuf, notifyVars>>

\* Whose call it answers is not checked.
Reply(caller) ==
    /\ epState[caller] = "CALL_BLOCKED"
    /\ Release(caller)
    /\ UNCHANGED <<current, queue, msgBuf, notifyVars>>

----------------------------------------------------------------------------
\* Notifications

\* ipc2_notify, also called for the registered driver by irq_notify_fire.
Notify(dst, bits) ==
    LET pending == notifyPending[dst] \cup bits
        wakes == epState[dst] = "RECV_BLOCKED" /\ pending \cap notifyMask[dst] # {}
    IN  /\ Alive(dst)
        /\ notifyPending' = [notifyPending EXCEPT ![dst] = pending]
        /\ IF wakes
           THEN Release(dst) /\ notifyMask' = [notifyMask EXCEPT ![dst] = {}]
           ELSE UNCHANGED <<epState, epPartner, procState, notifyMask>>
        /\ UNCHANGED <<current, queue, msgBuf>>

\* ipc2_poll_notify, and ipc2_wait_notify when a bit of the mask is pending.
PollNotify(mask) ==
    /\ notifyPending[me] \cap mask # {}
    /\ notifyPending' = [notifyPending EXCEPT ![me] = @ \ mask]
    /\ UNCHANGED <<procVars, epState, epPartner, queue, msgBuf, notifyMask>>

WaitNotify(mask) ==
    /\ notifyPending[me] \cap mask = {}
    /\ notifyMask' = [notifyMask EXCEPT ![me] = mask]
    /\ Block(me, "RECV_BLOCKED", AnyPid)
    /\ UNCHANGED <<current, queue, msgBuf, notifyPending>>

----------------------------------------------------------------------------
\* The process table under the endpoints (module Process has all of it)

\* timer_tick_handler
Tick ==
    LET st == IF procState[me] = "RUNNING"
              THEN [procState EXCEPT ![me] = "READY"] ELSE procState
        next == SchedPick(st, me)
    IN  /\ procState' = [st EXCEPT ![next] = "RUNNING"]
        /\ current' = next
        /\ UNCHANGED epVars

\* A slot is filled: sys_fork, sc_spawn, cmd_spawn.
Spawn(p) ==
    /\ procState[p] = "FREE"
    /\ procState' = [procState EXCEPT ![p] = "READY"]
    /\ UNCHANGED <<current, epVars>>

\* SYS_EXIT (__sched_exit)
Exit ==
    /\ current # 0
    /\ procState' = [procState EXCEPT ![me] = "FREE"]
    /\ current' = 0
    /\ UNCHANGED epVars

\* proc_v2_exit on behalf of a signal, and the reaping of the zombie.
Kill(p) ==
    /\ procState[p] # "FREE"
    /\ procState' = [procState EXCEPT ![p] = "ZOMBIE"]
    /\ UNCHANGED <<current, epVars>>

ReapZombie(p) ==
    /\ procState[p] = "ZOMBIE"
    /\ procState' = [procState EXCEPT ![p] = "FREE"]
    /\ UNCHANGED <<current, epVars>>

----------------------------------------------------------------------------
Messages ==
    \/ \E dst \in Pids : \/ SendDirect(dst) \/ SendQueued(dst)
                         \/ CallDirect(dst) \/ CallQueued(dst) \/ Reply(dst)
    \/ \E from \in Pids \cup {AnyPid} : RecvQueued(from) \/ RecvEmpty(from)

Notifications ==
    \E bits \in SUBSET Bits :
        \/ \E dst \in Pids : Notify(dst, bits)
        \/ PollNotify(bits) \/ WaitNotify(bits)

Processes ==
    \/ Tick \/ Exit
    \/ \E p \in Pids \ {0} : Spawn(p) \/ Kill(p) \/ ReapZombie(p)

Next == Messages \/ Notifications \/ Processes

Spec == Init /\ [][Next]_vars

----------------------------------------------------------------------------
\* Properties

TypeOK ==
    /\ procState \in [Pids -> {"FREE", "READY", "RUNNING", "BLOCKED", "ZOMBIE"}]
    /\ current \in Pids
    /\ epState \in [Pids -> EpStates]
    /\ epPartner \in [Pids -> Pids \cup {AnyPid}]
    /\ queue \in [Pids -> Seq(Pids)]
    /\ \A p \in Pids : Len(queue[p]) <= QueueSlots
    /\ msgBuf \in [Pids -> BOOLEAN]
    /\ notifyPending \in [Pids -> SUBSET Bits]
    /\ notifyMask \in [Pids -> SUBSET Bits]

\* A sender asleep on a receiver has a message waiting there: no message is
\* taken or dropped without its sender being woken, though a blocked process
\* goes on calling, to others too, until the next tick and its slot may be
\* killed and reused.  So the direct-transfer branch of ipc2_recv is dead.
SenderHasMessage ==
    \A s, p \in Pids : SleepsOn(s, p) => InQueue(s, p)

\* A receiver asleep on one sender has no message of that sender waiting.
ReceiverOwedNothing ==
    \A p, s \in Pids :
        epState[p] = "RECV_BLOCKED" /\ epPartner[p] = s => ~ InQueue(s, p)

\* A sleeping sender is made idle only by its receiver taking a message of
\* its, and a caller only by a reply: a notification, another receiver or the
\* pickup of an older message of a caller wakes neither.
WokenByPartner ==
    [][\A p \in Pids :
        epState'[p] = "IDLE" =>
          /\ epState[p] = "SEND_BLOCKED" =>
                /\ epPartner[p] = current
                /\ queue[current] = <<p>> \o queue'[current]
          /\ epState[p] = "CALL_BLOCKED" => Reply(p)]_vars
============================================================================
