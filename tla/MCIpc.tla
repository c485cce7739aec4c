------------------------------- MODULE MCIpc -------------------------------
(* Small instances of Ipc for TLC. *)
EXTENDS Ipc

\* EP_MSG_BUF is written and never read by a step, nor by the properties
\* checked under this view.
WithoutMsgBuf == <<procVars, epState, epPartner, queue, notifyVars>>

\* Bound: a third process joins in with one message on its way at a time, no
\* zombies and no notifications; two processes use everything there is, but no
\* notifications once the third has been in an exchange (its EP_PARTNER is set).
NoNotifications == \A p \in Pids : notifyPending[p] = {} /\ notifyMask[p] = {}
ThirdOrMore ==
    /\ epPartner[2] = 0 \/ NoNotifications
    /\ \/ procState[2] = "FREE" /\ epState[2] = "IDLE" /\ queue[2] = <<>>
       \/ /\ NoNotifications
          /\ \A p \in Pids : Len(queue[p]) <= 1 /\ procState[p] # "ZOMBIE"
          /\ \A p, q \in Pids : queue[p] # <<>> /\ queue[q] # <<>> => p = q
============================================================================
