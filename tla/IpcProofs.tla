----------------------------- MODULE IpcProofs -----------------------------
(***************************************************************************)
(* Proofs about module Ipc, for any number of processes and queue slots    *)
(* and any set of notification bits.                                       *)
(***************************************************************************)
EXTENDS Ipc, SequenceTheorems, WellFoundedInduction, TLAPS

\* sched_pick_next returns a READY slot, or the current one.
LEMMA SchedPickIsReady ==
    ASSUME NEW st, NEW cur \in Pids
    PROVE  /\ SchedPick(st, cur) \in Pids
           /\ SchedPick(st, cur) # cur => st[SchedPick(st, cur)] = "READY"
<1> DEFINE ready == {p \in Pids \ {cur} : st[p] = "READY"}
           dist == {Distance(cur, p) : p \in ready}
<1>1. CASE ready = {}
  BY <1>1 DEF SchedPick
<1>2. CASE ready # {}
  <2>1. dist \in SUBSET Nat /\ dist # {}
    BY <1>2, NProcAssumption DEF Distance, Pids
  <2>2. PICK d \in dist : \A e \in dist : d <= e
    <3> HIDE DEF dist
    <3>1. PICK d \in dist : \A e \in dist : ~ (<<e, d>> \in OpToRel(<, Nat))
      BY <2>1, NatLessThanWellFounded, WFMin
    <3>2. \A e \in dist : ~ (e < d)
      BY <2>1, <3>1 DEF OpToRel
    <3> QED
      BY <2>1, <3>2
  <2>3. \E p \in ready : \A q \in ready : Distance(cur, p) <= Distance(cur, q)
    BY <2>2
  <2>4. SchedPick(st, cur) \in ready
    BY <1>2, <2>3 DEF SchedPick
  <2>5. QED
    BY <2>4
<1>3. QED
  BY <1>1, <1>2

\* Every endpoint field keeps its type and no queue outgrows its ring.
THEOREM IpcTyping == Spec => []TypeOK
<1>1. Init => TypeOK
  BY NProcAssumption, IpcAssumption DEF Init, TypeOK, Pids, EpStates
<1>2. TypeOK /\ [Next]_vars => TypeOK'
  <2> SUFFICES ASSUME TypeOK, [Next]_vars PROVE TypeOK'
    OBVIOUS
  <2> USE DEF TypeOK, EpStates, procVars, notifyVars, epVars, me
  <2>1. ASSUME NEW dst \in Pids, SendDirect(dst) \/ CallDirect(dst) \/ Reply(dst)
        PROVE  TypeOK'
    <3>1. CASE SendDirect(dst)
      BY <3>1 DEF SendDirect, Release
    <3>2. CASE CallDirect(dst)
      BY <3>2 DEF CallDirect
    <3>3. CASE Reply(dst)
      BY <3>3 DEF Reply, Release
    <3>4. QED
      BY <2>1, <3>1, <3>2, <3>3
  <2>2. ASSUME NEW dst \in Pids, SendQueued(dst) \/ CallQueued(dst)
        PROVE  TypeOK'
    <3>1. ASSUME Push(dst)
          PROVE  /\ queue' \in [Pids -> Seq(Pids)]
                 /\ \A p \in Pids : Len(queue'[p]) <= QueueSlots
      BY <3>1, IpcAssumption DEF Push
    <3>2. CASE SendQueued(dst)
      BY <3>1, <3>2 DEF SendQueued, Block
    <3>3. CASE CallQueued(dst)
      BY <3>1, <3>3 DEF CallQueued, Block
    <3>4. QED
      BY <2>2, <3>2, <3>3
  <2>3. ASSUME NEW from, RecvQueued(from)
        PROVE  TypeOK'
    <3>1. Head(queue[me]) \in Pids /\ Tail(queue[me]) \in Seq(Pids)
          /\ Len(Tail(queue[me])) <= QueueSlots
      BY <2>3, IpcAssumption DEF RecvQueued
    <3>2. QED
      BY <2>3, <3>1 DEF RecvQueued, ReleaseSender, Release
  <2>4. ASSUME NEW from \in Pids \cup {AnyPid}, RecvEmpty(from)
        PROVE  TypeOK'
    BY <2>4 DEF RecvEmpty, Release, Block, SleepsOn
  <2>5. ASSUME NEW dst \in Pids, NEW bits \in SUBSET Bits, Notify(dst, bits)
        PROVE  TypeOK'
    BY <2>5 DEF Notify, Release
  <2>6. ASSUME NEW mask \in SUBSET Bits, PollNotify(mask) \/ WaitNotify(mask)
        PROVE  TypeOK'
    BY <2>6 DEF PollNotify, WaitNotify, Block
  <2>7. CASE Processes
    <3>1. CASE Tick
      <4> DEFINE st == IF procState[me] = "RUNNING"
                       THEN [procState EXCEPT ![me] = "READY"] ELSE procState
      <4>1. st \in [Pids -> {"FREE", "READY", "RUNNING", "BLOCKED", "ZOMBIE"}]
        OBVIOUS
      <4>2. SchedPick(st, me) \in Pids
        BY SchedPickIsReady
      <4>3. QED
        BY <3>1, <4>1, <4>2 DEF Tick
    <3>2. CASE Exit
      BY <3>2, NProcAssumption DEF Exit, Pids
    <3>3. CASE \E p \in Pids \ {0} : Spawn(p) \/ Kill(p) \/ ReapZombie(p)
      BY <3>3 DEF Spawn, Kill, ReapZombie
    <3>4. QED
      BY <2>7, <3>1, <3>2, <3>3 DEF Processes
  <2>8. CASE UNCHANGED vars
    BY <2>8 DEF vars
  <2>9. QED
    BY <2>1, <2>2, <2>3, <2>4, <2>5, <2>6, <2>7, <2>8
    DEF Next, Messages, Notifications
<1>3. QED
  BY <1>1, <1>2, PTL DEF Spec

----------------------------------------------------------------------------
\* Who is in a queue after a step on it

\* A push adds the caller at the end of one queue.
LEMMA PushInQueue ==
    ASSUME TypeOK, NEW dst \in Pids, Push(dst), NEW s \in Pids, NEW p \in Pids
    PROVE  InQueue(s, p)' <=> (InQueue(s, p) \/ (p = dst /\ s = me))
<1>1. CASE p # dst
  BY <1>1 DEF TypeOK, Push, InQueue
<1>2. CASE p = dst
  <2> DEFINE q == queue[dst]
  <2>1. q \in Seq(Pids) /\ me \in Pids /\ queue'[p] = Append(q, me)
    BY <1>2 DEF TypeOK, Push, me
  <2>2. /\ Len(queue'[p]) = Len(q) + 1
        /\ queue'[p][Len(q) + 1] = me
        /\ \A i \in 1 .. Len(q) : queue'[p][i] = q[i]
    BY <2>1
  <2>3. Len(q) \in Nat
    BY <2>1
  <2>4. \A i \in 1 .. Len(q) + 1 : i \in 1 .. Len(q) \/ i = Len(q) + 1
    BY <2>3
  <2>5. InQueue(s, p)' => InQueue(s, p) \/ s = me
    BY <1>2, <2>2, <2>4 DEF InQueue
  <2>6. InQueue(s, p) => InQueue(s, p)'
    BY <1>2, <2>2, <2>3 DEF InQueue
  <2>7. s = me => InQueue(s, p)'
    BY <2>2, <2>3 DEF InQueue
  <2>8. QED
    BY <1>2, <2>5, <2>6, <2>7
<1>3. QED
  BY <1>1, <1>2

\* Taking the oldest message of a queue keeps every other sender in it.
LEMMA TakeInQueue ==
    ASSUME TypeOK, queue[me] # <<>>, queue' = [queue EXCEPT ![me] = Tail(@)],
           NEW s \in Pids, NEW p \in Pids
    PROVE  /\ InQueue(s, p)' => InQueue(s, p)
           /\ InQueue(s, p) => InQueue(s, p)' \/ (p = me /\ s = Head(queue[me]))
<1>1. CASE p # me
  BY <1>1 DEF TypeOK, InQueue
<1>2. CASE p = me
  <2> DEFINE q == queue[me]
  <2>1. q \in Seq(Pids) /\ queue'[p] = Tail(q)
    BY <1>2 DEF TypeOK, me
  <2>2. /\ Len(q) \in Nat \ {0}
        /\ Len(Tail(q)) = Len(q) - 1
        /\ \A i \in 1 .. Len(q) - 1 : Tail(q)[i] = q[i + 1]
        /\ Head(q) = q[1]
    BY <2>1
  <2>3. InQueue(s, p)' => InQueue(s, p)
    BY <1>2, <2>1, <2>2 DEF InQueue
  <2>4. ASSUME InQueue(s, p), s # Head(q)
        PROVE  InQueue(s, p)'
    <3>1. PICK i \in 1 .. Len(q) : q[i] = s
      BY <1>2, <2>4 DEF InQueue
    <3>2. i - 1 \in 1 .. Len(q) - 1 /\ Tail(q)[i - 1] = s
      BY <2>2, <2>4, <3>1
    <3>3. QED
      BY <2>1, <2>2, <3>2 DEF InQueue
  <2>5. QED
    BY <1>2, <2>3, <2>4
<1>3. QED
  BY <1>1, <1>2

----------------------------------------------------------------------------
\* No sender sleeps over a message that is no longer queued.
THEOREM SendersHaveMessages == Spec => []SenderHasMessage
<1>1. Init => SenderHasMessage
  BY DEF Init, SenderHasMessage, SleepsOn
<1>2. TypeOK /\ SenderHasMessage /\ [Next]_vars => SenderHasMessage'
  <2> SUFFICES ASSUME TypeOK, SenderHasMessage, [Next]_vars,
                      NEW s \in Pids, NEW p \in Pids, SleepsOn(s, p)'
               PROVE  InQueue(s, p)'
    BY DEF SenderHasMessage
  <2> USE DEF procVars, notifyVars, epVars, me
  <2>0. SleepsOn(s, p) => InQueue(s, p)
    BY DEF SenderHasMessage
  <2>1. ASSUME queue' = queue, SleepsOn(s, p)
        PROVE  InQueue(s, p)'
    BY <2>0, <2>1 DEF InQueue
  <2>2. ASSUME NEW dst \in Pids, SendDirect(dst) \/ CallDirect(dst) \/ Reply(dst)
        PROVE  InQueue(s, p)'
    <3>1. queue' = queue /\ SleepsOn(s, p)
      BY <2>2 DEF TypeOK, SendDirect, CallDirect, Reply, Release, SleepsOn
    <3>2. QED
      BY <2>1, <3>1
  <2>3. ASSUME NEW dst \in Pids, SendQueued(dst) \/ CallQueued(dst)
        PROVE  InQueue(s, p)'
    <3>1. Push(dst)
      BY <2>3 DEF SendQueued, CallQueued
    <3>2. SleepsOn(s, p) \/ (s = me /\ p = dst)
      BY <2>3 DEF TypeOK, SendQueued, CallQueued, Block, SleepsOn
    <3>3. QED
      BY <2>0, <3>1, <3>2, PushInQueue
  <2>4. ASSUME NEW from, RecvQueued(from)
        PROVE  InQueue(s, p)'
    <3>1. queue[me] # <<>> /\ queue' = [queue EXCEPT ![me] = Tail(@)]
      BY <2>4 DEF RecvQueued
    <3>2. SleepsOn(s, p) /\ ~ (p = me /\ s = Head(queue[me]))
      BY <2>4 DEF TypeOK, RecvQueued, ReleaseSender, Release, SleepsOn
    <3>3. QED
      BY <2>0, <3>1, <3>2, TakeInQueue
  <2>5. ASSUME NEW from \in Pids \cup {AnyPid}, RecvEmpty(from)
        PROVE  InQueue(s, p)'
    <3>1. queue' = queue /\ SleepsOn(s, p)
      BY <2>5 DEF TypeOK, RecvEmpty, Release, Block, SleepsOn
    <3>2. QED
      BY <2>1, <3>1
  <2>6. ASSUME NEW dst \in Pids, NEW bits, Notify(dst, bits)
        PROVE  InQueue(s, p)'
    <3>1. queue' = queue /\ SleepsOn(s, p)
      BY <2>6 DEF TypeOK, Notify, Release, SleepsOn
    <3>2. QED
      BY <2>1, <3>1
  <2>7. ASSUME NEW mask, PollNotify(mask) \/ WaitNotify(mask)
        PROVE  InQueue(s, p)'
    <3>1. queue' = queue /\ SleepsOn(s, p)
      BY <2>7 DEF TypeOK, PollNotify, WaitNotify, Block, SleepsOn
    <3>2. QED
      BY <2>1, <3>1
  <2>8. CASE Processes \/ UNCHANGED vars
    <3>1. UNCHANGED epVars
      BY <2>8 DEF vars, Processes, Tick, Exit, Spawn, Kill, ReapZombie
    <3>2. QED
      BY <2>1, <3>1 DEF SleepsOn
  <2>9. QED
    BY <2>2, <2>3, <2>4, <2>5, <2>6, <2>7, <2>8 DEF Next, Messages, Notifications
<1>3. QED
  BY <1>1, <1>2, IpcTyping, PTL DEF Spec

\* No receiver sleeps on a sender whose message waits in its queue.
THEOREM ReceiversOwedNothing == Spec => []ReceiverOwedNothing
<1>1. Init => ReceiverOwedNothing
  BY DEF Init, ReceiverOwedNothing
<1>2. TypeOK /\ ReceiverOwedNothing /\ [Next]_vars => ReceiverOwedNothing'
  <2> SUFFICES ASSUME TypeOK, ReceiverOwedNothing, [Next]_vars,
                      NEW s \in Pids, NEW p \in Pids,
                      epState'[p] = "RECV_BLOCKED", epPartner'[p] = s,
                      InQueue(s, p)'
               PROVE  FALSE
    BY DEF ReceiverOwedNothing
  <2> DEFINE sleeps == epState[p] = "RECV_BLOCKED" /\ epPartner[p] = s
  <2> USE DEF procVars, notifyVars, epVars, me
  <2>0. ~ (sleeps /\ InQueue(s, p)) /\ s # AnyPid
    BY NProcAssumption DEF ReceiverOwedNothing, Pids, AnyPid
  <2>1. ASSUME queue' = queue, sleeps
        PROVE  FALSE
    BY <2>0, <2>1 DEF InQueue
  <2>2. ASSUME NEW dst \in Pids, SendDirect(dst) \/ CallDirect(dst) \/ Reply(dst)
        PROVE  FALSE
    <3>1. queue' = queue /\ sleeps
      BY <2>2 DEF TypeOK, SendDirect, CallDirect, Reply, Release
    <3>2. QED
      BY <2>1, <3>1
  <2>3. ASSUME NEW dst \in Pids, SendQueued(dst) \/ CallQueued(dst)
        PROVE  FALSE
    <3>1. Push(dst) /\ ~ WaitsFor(dst, me)
      BY <2>3 DEF SendQueued, CallQueued
    <3>2. sleeps
      BY <2>3 DEF TypeOK, SendQueued, CallQueued, Block
    <3>3. ~ (p = dst /\ s = me)
      BY <3>1, <3>2 DEF WaitsFor
    <3>4. QED
      BY <2>0, <3>1, <3>2, <3>3, PushInQueue
  <2>4. ASSUME NEW from, RecvQueued(from)
        PROVE  FALSE
    <3>1. queue[me] # <<>> /\ queue' = [queue EXCEPT ![me] = Tail(@)]
      BY <2>4 DEF RecvQueued
    <3>2. sleeps
      BY <2>4 DEF TypeOK, RecvQueued, ReleaseSender, Release
    <3>3. QED
      BY <2>0, <3>1, <3>2, TakeInQueue
  <2>5. ASSUME NEW from \in Pids \cup {AnyPid}, RecvEmpty(from)
        PROVE  FALSE
    <3>1. queue' = queue /\ queue[me] = <<>>
      BY <2>5 DEF RecvEmpty
    <3>2. p # me
      BY <3>1 DEF InQueue
    <3>3. sleeps
      BY <2>5, <3>2 DEF TypeOK, RecvEmpty, Release, Block
    <3>4. QED
      BY <2>1, <3>1, <3>3
  <2>6. ASSUME NEW dst \in Pids, NEW bits, Notify(dst, bits)
        PROVE  FALSE
    <3>1. queue' = queue /\ sleeps
      BY <2>6 DEF TypeOK, Notify, Release
    <3>2. QED
      BY <2>1, <3>1
  <2>7. ASSUME NEW mask, PollNotify(mask) \/ WaitNotify(mask)
        PROVE  FALSE
    <3>1. queue' = queue /\ sleeps
      BY <2>0, <2>7 DEF TypeOK, PollNotify, WaitNotify, Block
    <3>2. QED
      BY <2>1, <3>1
  <2>8. CASE Processes \/ UNCHANGED vars
    <3>1. UNCHANGED epVars
      BY <2>8 DEF vars, Processes, Tick, Exit, Spawn, Kill, ReapZombie
    <3>2. QED
      BY <2>1, <3>1
  <2>9. QED
    BY <2>2, <2>3, <2>4, <2>5, <2>6, <2>7, <2>8 DEF Next, Messages, Notifications
<1>3. QED
  BY <1>1, <1>2, IpcTyping, PTL DEF Spec

----------------------------------------------------------------------------
\* A sleeping sender is made idle only by its receiver taking its message, and
\* a caller only by a reply.
THEOREM OnlyPartnersWake == Spec => WokenByPartner
<1> DEFINE Woken(p) ==
             epState'[p] = "IDLE" =>
               /\ epState[p] = "SEND_BLOCKED" =>
                     /\ epPartner[p] = current
                     /\ queue[current] = <<p>> \o queue'[current]
               /\ epState[p] = "CALL_BLOCKED" => Reply(p)
<1>1. TypeOK /\ SenderHasMessage /\ [Next]_vars => [\A p \in Pids : Woken(p)]_vars
  <2> SUFFICES ASSUME TypeOK, SenderHasMessage, Next, NEW p \in Pids PROVE Woken(p)
    OBVIOUS
  <2> USE DEF procVars, notifyVars, epVars, me
  <2>1. ASSUME epState'[p] = epState[p] PROVE Woken(p)
    BY <2>1
  <2>2. ASSUME NEW dst \in Pids, SendDirect(dst) \/ CallDirect(dst)
        PROVE  Woken(p)
    BY <2>2 DEF TypeOK, SendDirect, CallDirect, WaitsFor, Release
  <2>3. ASSUME NEW dst \in Pids, Reply(dst)
        PROVE  Woken(p)
    <3>1. CASE p = dst
      BY <2>3, <3>1 DEF Reply
    <3>2. CASE p # dst
      BY <2>1, <2>3, <3>2 DEF TypeOK, Reply, Release
    <3>3. QED
      BY <3>1, <3>2
  <2>4. ASSUME NEW dst \in Pids, SendQueued(dst) \/ CallQueued(dst)
        PROVE  Woken(p)
    BY <2>4 DEF TypeOK, SendQueued, CallQueued, Block
  <2>5. ASSUME NEW from, RecvQueued(from)
        PROVE  Woken(p)
    <3> DEFINE src == Head(queue[me])
    <3>1. CASE p = src /\ SleepsOn(src, me)
      <4>1. queue[me] \in Seq(Pids) /\ queue[me] # <<>> /\ queue'[me] = Tail(queue[me])
        BY <2>5 DEF TypeOK, RecvQueued
      <4>2. queue[me] = <<Head(queue[me])>> \o Tail(queue[me])
        BY <4>1
      <4>3. epState[p] = "SEND_BLOCKED" /\ epPartner[p] = current
        BY <3>1 DEF SleepsOn
      <4>4. QED
        BY <3>1, <4>1, <4>2, <4>3
    <3>2. CASE ~ (p = src /\ SleepsOn(src, me))
      <4>1. epState'[p] = epState[p]
        BY <2>5, <3>2 DEF TypeOK, RecvQueued, ReleaseSender, Release
      <4>2. QED
        BY <2>1, <4>1
    <3>3. QED
      BY <3>1, <3>2
  <2>6. ASSUME NEW from \in Pids \cup {AnyPid}, RecvEmpty(from)
        PROVE  Woken(p)
    <3>1. CASE from \in Pids
      <4>1. queue[me] = <<>> /\ me \in Pids
        BY <2>6 DEF TypeOK, RecvEmpty
      <4>2. ~ InQueue(from, me)
        BY <4>1 DEF InQueue
      <4>3. ~ SleepsOn(from, me)
        BY <3>1, <4>1, <4>2 DEF SenderHasMessage
      <4>4. QED
        BY <2>6, <4>3 DEF TypeOK, RecvEmpty, Block
    <3>2. CASE from = AnyPid
      <4>1. Block(me, "RECV_BLOCKED", from) /\ me \in Pids
        BY <2>6, <3>2 DEF TypeOK, RecvEmpty
      <4>2. QED
        BY <4>1 DEF TypeOK, Block
    <3>3. QED
      BY <3>1, <3>2
  <2>7. ASSUME NEW dst \in Pids, NEW bits, Notify(dst, bits)
        PROVE  Woken(p)
    BY <2>7 DEF TypeOK, Notify, Release
  <2>8. ASSUME NEW mask, PollNotify(mask) \/ WaitNotify(mask)
        PROVE  Woken(p)
    BY <2>8 DEF TypeOK, PollNotify, WaitNotify, Block
  <2>9. CASE Processes
    <3>1. UNCHANGED epVars
      BY <2>9 DEF Processes, Tick, Exit, Spawn, Kill, ReapZombie
    <3>2. QED
      BY <2>1, <3>1
  <2>10. QED
    BY <2>2, <2>3, <2>4, <2>5, <2>6, <2>7, <2>8, <2>9
    DEF Next, Messages, Notifications
<1>2. QED
  BY <1>1, IpcTyping, SendersHaveMessages, PTL DEF Spec, WokenByPartner
============================================================================
