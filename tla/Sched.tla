------------------------------- MODULE Sched -------------------------------
(***************************************************************************)
(* The process slots and the round-robin choice every timer tick makes     *)
(* (kernel/sched/process.fj, kernel/sched/preempt.fj).                     *)
(***************************************************************************)
EXTENDS Integers, FiniteSets

CONSTANT NProc          \* PROC_MAX: slots of the process table, 16 in the code

ASSUME NProcAssumption == NProc \in Nat /\ NProc >= 2

Pids == 0 .. NProc - 1

Least(S) == CHOOSE x \in S : \A y \in S : x <= y

\* Mutants of sched_pick_next: a scan that always starts at slot 0, and one
\* that runs one entry past the table.
SchedPickFromZero(st, cur) ==
    LET ready == {p \in Pids \ {cur} : st[p] = "READY"}
    IN  IF ready = {} THEN cur ELSE Least(ready)
SchedPickPastEnd(st, cur) ==
    LET ready == {p \in cur + 1 .. NProc : p = NProc \/ st[p] = "READY"}
    IN  Least(ready)

\* sched_pick_next: the first READY slot after cur in cyclic order, else cur.
Distance(cur, p) == (p - cur + NProc) % NProc
SchedPick(st, cur) ==
    LET ready == {p \in Pids \ {cur} : st[p] = "READY"}
    IN  IF ready = {} THEN cur
        ELSE CHOOSE p \in ready :
                \A q \in ready : Distance(cur, p) <= Distance(cur, q)
============================================================================
