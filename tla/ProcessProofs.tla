--------------------------- MODULE ProcessProofs ---------------------------
(***************************************************************************)
(* Proofs about module Process, for any number of process slots: its       *)
(* variables keep their types, and a slot marked RUNNING is the one the    *)
(* CPU is charged to.                                                      *)
(***************************************************************************)
EXTENDS Process, WellFoundedInduction, TLAPS

----------------------------------------------------------------------------
\* The searches of the scheduler and for a free slot

\* A search for the first of some naturals finds one of them.
LEMMA LeastIsMember ==
    ASSUME NEW S \in SUBSET Nat, S # {}
    PROVE  Least(S) \in S
<1>1. PICK x \in S : \A y \in S : ~ (<<y, x>> \in OpToRel(<, Nat))
  BY NatLessThanWellFounded, WFMin
<1>2. \A y \in S : ~ (y < x)
  BY <1>1 DEF OpToRel
<1>3. \A y \in S : x <= y
  BY <1>2
<1>4. QED
  BY <1>3 DEF Least

\* sched_pick_next returns a READY slot, or the current one.
LEMMA SchedPickIsReady ==
    ASSUME NEW st, NEW cur \in Pids
    PROVE  /\ SchedPick(st, cur) \in Pids
           /\ SchedPick(st, cur) # cur => st[SchedPick(st, cur)] = "READY"
<1> DEFINE ready == {p \in Pids \ {cur} : st[p] = "READY"}
           dist == {Distance(cur, p) : p \in ready}
<1>1. CASE ready = {}
  BY <1>1 DEF SchedPick
<1>2. CASE ready # {}
  <2>1. dist \in SUBSET Nat /\ dist # {}
    BY <1>2, NProcAssumption DEF Distance, Pids
  <2>2. PICK d \in dist : \A e \in dist : d <= e
    <3> HIDE DEF dist
    <3>1. PICK d \in dist : \A e \in dist : ~ (<<e, d>> \in OpToRel(<, Nat))
      BY <2>1, NatLessThanWellFounded, WFMin
    <3>2. \A e \in dist : ~ (e < d)
      BY <2>1, <3>1 DEF OpToRel
    <3> QED
      BY <2>1, <3>2
  <2>3. \E p \in ready : \A q \in ready : Distance(cur, p) <= Distance(cur, q)
    BY <2>2
  <2>4. SchedPick(st, cur) \in ready
    BY <1>2, <2>3 DEF SchedPick
  <2>5. QED
    BY <2>4
<1>3. QED
  BY <1>1, <1>2

\* proc_v2_alloc returns a slot that is free.
LEMMA FirstFreeIsFree ==
    ASSUME FreeSlots # {}
    PROVE  FirstFree \in UserPids /\ procState[FirstFree] = "FREE"
<1>1. FreeSlots \in SUBSET Nat
  BY NProcAssumption DEF FreeSlots, UserPids
<1>2. FirstFree \in FreeSlots
  BY <1>1, LeastIsMember DEF FirstFree
<1>3. QED
  BY <1>2 DEF FreeSlots

----------------------------------------------------------------------------
\* Type correctness

LEMMA WakeParentType ==
    ASSUME NEW st \in [Pids -> States], NEW pp, NEW c
    PROVE  WakeParent(st, pp, c) \in [Pids -> States]
  BY DEF WakeParent, States

LEMMA ReparentType ==
    ASSUME NEW st \in [Pids -> States], NEW pp \in [Pids -> Pids], NEW t
    PROVE  /\ Reparented(st, pp, t) \in [Pids -> Pids]
           /\ FreeOrphans(st, pp, t) \in [Pids -> States]
  BY NProcAssumption DEF Reparented, FreeOrphans, Pids, States

\* Everything the table holds stays in its type, through every interleaving.
THEOREM Typing == Spec => []TypeOK
<1>1. Init => TypeOK
  BY NProcAssumption DEF Init, TypeOK, Pids, States
<1>2. TypeOK /\ [Next]_vars => TypeOK'
  <2> SUFFICES ASSUME TypeOK, [Next]_vars PROVE TypeOK'
    OBVIOUS
  <2> USE DEF TypeOK, shellVars
  <2>0. 0 \in Pids /\ 1 \in Pids /\ UserPids \subseteq Pids
    BY NProcAssumption DEF Pids, UserPids
  <2>1. CASE TimerTick
    <3> DEFINE st == IF procState[current] = "RUNNING"
                     THEN [procState EXCEPT ![current] = "READY"] ELSE procState
    <3>1. st \in [Pids -> States]
      BY DEF States
    <3>2. SchedPick(st, current) \in Pids
      BY <3>1, SchedPickIsReady
    <3>3. QED
      BY <2>1, <3>1, <3>2 DEF TimerTick, States
  <2>2. CASE UserFault
    BY <2>0, <2>2 DEF UserFault, States
  <2>3. CASE SysFork
    BY <2>0, <2>3, FirstFreeIsFree DEF SysFork, States
  <2>4. CASE SysExit
    BY <2>0, <2>4 DEF SysExit, States
  <2>5. CASE SysYield \/ SysSleep
    BY <2>5 DEF SysYield, SysSleep, States
  <2>6. ASSUME NEW c \in Pids, Reap(c)
        PROVE  TypeOK'
    BY <2>6 DEF Reap, States
  <2>7. CASE SysWaitAny
    <3> DEFINE zombies == {c \in UserPids : ppid[c] = current /\ procState[c] = "ZOMBIE"}
    <3>1. zombies \in SUBSET Nat
      BY NProcAssumption DEF UserPids
    <3>2. Least(zombies) \in Pids
      BY <2>0, <2>7, <3>1, LeastIsMember DEF SysWaitAny
    <3>3. QED
      BY <2>6, <2>7, <3>2 DEF SysWaitAny
  <2>8. CASE \E c \in UserPids : SysWaitPid(c) \/ SysWaitPidBlock(c)
    BY <2>0, <2>6, <2>8 DEF SysWaitPid, SysWaitPidBlock, States
  <2>9. ASSUME NEW t \in Pids, SysKill(t) \/ SysKillCont(t)
        PROVE  TypeOK'
    <3>1. CASE SysKill(t)
      <4> DEFINE st1 == [procState EXCEPT ![t] = "ZOMBIE"]
      <4>1. st1 \in [Pids -> States]
        BY DEF States
      <4>2. /\ Reparented(st1, ppid, t) \in [Pids -> Pids]
            /\ FreeOrphans(st1, ppid, t) \in [Pids -> States]
        BY <4>1, ReparentType
      <4>3. QED
        BY <3>1, <4>2, WakeParentType DEF SysKill
    <3>2. CASE SysKillCont(t)
      BY <3>2 DEF SysKillCont, States
    <3>3. QED
      BY <2>9, <3>1, <3>2
  <2>10. CASE ShellAlloc
    BY <2>0, <2>10, FirstFreeIsFree DEF ShellAlloc
  <2>11. CASE ShellFork \/ ShellExec \/ ShellWaitDone
    BY <2>0, <2>11 DEF ShellFork, ShellExec, ShellWaitDone, States
  <2>12. ASSUME NEW loaded \in BOOLEAN, ShellSpawn(loaded)
         PROVE  TypeOK'
    BY <2>12 DEF ShellSpawn, States
  <2>13. ASSUME NEW t \in UserPids, ShellKill(t) \/ ShellStop(t) \/ ShellCont(t)
         PROVE  TypeOK'
    <3>1. CASE ShellKill(t)
      <4>1. [procState EXCEPT ![t] = "ZOMBIE"] \in [Pids -> States]
        BY DEF States
      <4>2. QED
        BY <3>1, <4>1, WakeParentType DEF ShellKill, ProcExit
    <3>2. CASE ShellStop(t) \/ ShellCont(t)
      BY <3>2 DEF ShellStop, ShellCont, States
    <3>3. QED
      BY <2>13, <3>1, <3>2
  <2>14. ASSUME NEW c \in UserPids, ShellReap(c) \/ ShellWait(c)
         PROVE  TypeOK'
    BY <2>0, <2>6, <2>14 DEF ShellReap, ShellWait, States
  <2>15. CASE UNCHANGED vars
    BY <2>15 DEF vars
  <2>16. QED
    BY <2>1, <2>2, <2>3, <2>4, <2>5, <2>7, <2>8, <2>9, <2>10, <2>11, <2>12,
       <2>13, <2>14, <2>15 DEF Next, SysCall, ShellCommand
<1>3. QED
  BY <1>1, <1>2, PTL DEF Spec

----------------------------------------------------------------------------
\* One slot runs

\* Waking a parent marks it READY and leaves the others alone.
LEMMA WokenAreReady ==
    ASSUME NEW st \in [Pids -> States], NEW pp, NEW c, NEW p \in Pids
    PROVE  WakeParent(st, pp, c)[p] \in {st[p], "READY"}
  BY DEF WakeParent

\* Whatever mix of ticks, exits, faults and kills has happened, no slot that
\* lost the CPU is left marked RUNNING.
THEOREM OneRunning == Spec => []OnlyCurrentRuns
<1>1. Init => OnlyCurrentRuns
  BY DEF Init, OnlyCurrentRuns
<1>2. TypeOK /\ OnlyCurrentRuns /\ [Next]_vars => OnlyCurrentRuns'
  <2> SUFFICES ASSUME TypeOK, OnlyCurrentRuns, [Next]_vars,
                      NEW p \in Pids, procState'[p] = "RUNNING"
               PROVE  p = current'
    BY DEF OnlyCurrentRuns
  <2> USE DEF TypeOK, OnlyCurrentRuns
  <2>0. UserPids \subseteq Pids
    BY NProcAssumption DEF Pids, UserPids
  <2>1. CASE TimerTick
    <3> DEFINE st == IF procState[current] = "RUNNING"
                     THEN [procState EXCEPT ![current] = "READY"] ELSE procState
    <3>1. st \in [Pids -> States] /\ st[p] # "RUNNING"
      BY DEF States
    <3>2. SchedPick(st, current) \in Pids
      BY <3>1, SchedPickIsReady
    <3>3. QED
      BY <2>1, <3>1, <3>2 DEF TimerTick
  <2>2. CASE UserFault \/ SysExit
    BY <2>2 DEF UserFault, SysExit
  <2>3. CASE SysFork
    BY <2>3, FirstFreeIsFree DEF SysFork
  <2>4. CASE SysYield \/ SysSleep
    BY <2>4 DEF SysYield, SysSleep
  <2>5. ASSUME NEW c, Reap(c)
        PROVE  p = current'
    BY <2>5 DEF Reap
  <2>6. CASE SysWaitAny
    BY <2>5, <2>6 DEF SysWaitAny
  <2>7. CASE \E c \in UserPids : SysWaitPid(c) \/ SysWaitPidBlock(c)
    BY <2>5, <2>7 DEF SysWaitPid, SysWaitPidBlock
  <2>8. ASSUME NEW t \in Pids, SysKill(t)
        PROVE  p = current'
    <3> DEFINE st1 == [procState EXCEPT ![t] = "ZOMBIE"]
               st2 == FreeOrphans(st1, ppid, t)
               pp2 == Reparented(st1, ppid, t)
    <3>1. st1 \in [Pids -> States]
      BY DEF States
    <3>2. st2 \in [Pids -> States] /\ pp2 \in [Pids -> Pids]
      BY <3>1, ReparentType
    <3>3. procState' = WakeParent(st2, pp2, t) /\ current' = current
      BY <2>8 DEF SysKill
    <3>4. st2[p] = "RUNNING"
      BY <3>2, <3>3, WokenAreReady
    <3>5. st1[p] = "RUNNING"
      BY <3>1, <3>4 DEF FreeOrphans
    <3>6. QED
      BY <3>3, <3>5
  <2>9. CASE \E t \in Pids : SysKillCont(t)
    BY <2>9 DEF SysKillCont
  <2>10. CASE ShellAlloc \/ ShellFork \/ ShellExec \/ ShellWaitDone
    BY <2>10 DEF ShellAlloc, ShellFork, ShellExec, ShellWaitDone, Filling
  <2>11. CASE \E loaded \in BOOLEAN : ShellSpawn(loaded)
    BY <2>11 DEF ShellSpawn
  <2>12. ASSUME NEW t \in UserPids, ShellKill(t)
         PROVE  p = current'
    <3>1. [procState EXCEPT ![t] = "ZOMBIE"] \in [Pids -> States]
      BY DEF States
    <3>2. [procState EXCEPT ![t] = "ZOMBIE"][p] = "RUNNING"
      BY <2>0, <2>12, <3>1, WokenAreReady DEF ShellKill, ProcExit
    <3>3. QED
      BY <2>12, <3>2 DEF ShellKill
  <2>13. CASE \E t \in UserPids : ShellStop(t) \/ ShellCont(t)
    BY <2>13 DEF ShellStop, ShellCont
  <2>14. CASE \E c \in UserPids : ShellReap(c) \/ ShellWait(c)
    BY <2>5, <2>14 DEF ShellReap, ShellWait
  <2>15. CASE UNCHANGED vars
    BY <2>15 DEF vars
  <2>16. QED
    BY <2>1, <2>2, <2>3, <2>4, <2>6, <2>7, <2>8, <2>9, <2>10, <2>11, <2>12,
       <2>13, <2>14, <2>15 DEF Next, SysCall, ShellCommand
<1>3. QED
  BY <1>1, <1>2, Typing, PTL DEF Spec

----------------------------------------------------------------------------
\* Deaths wake, and only the parent reaps

\* The parent of a dead child does not stay blocked on it.
LEMMA WokenParent ==
    ASSUME NEW st \in [Pids -> States], NEW pp \in [Pids -> Pids], NEW c \in Pids
    PROVE  ~ (WakeParent(st, pp, c)[pp[c]] = "BLOCKED" /\ waitPid[pp[c]] = c)
  BY DEF WakeParent

\* A process that becomes a zombie never leaves its parent blocked on it.
THEOREM DeathWakes == Spec => ZombieWakesWaiter
<1>1. TypeOK /\ [Next]_vars =>
        \A c \in Pids :
          procState[c] # "ZOMBIE" /\ procState'[c] = "ZOMBIE" =>
            ~ (procState'[ppid'[c]] = "BLOCKED" /\ waitPid'[ppid'[c]] = c)
  <2> SUFFICES ASSUME TypeOK, [Next]_vars, NEW c \in Pids,
                      procState[c] # "ZOMBIE", procState'[c] = "ZOMBIE"
               PROVE  ~ (procState'[ppid'[c]] = "BLOCKED" /\ waitPid'[ppid'[c]] = c)
    OBVIOUS
  <2> USE DEF TypeOK
  <2>0. UserPids \subseteq Pids
    BY NProcAssumption DEF Pids, UserPids
  <2>1. ASSUME NEW t \in Pids, SysKill(t)
        PROVE  ~ (procState'[ppid'[c]] = "BLOCKED" /\ waitPid'[ppid'[c]] = c)
    <3> DEFINE st1 == [procState EXCEPT ![t] = "ZOMBIE"]
               st2 == FreeOrphans(st1, ppid, t)
               pp2 == Reparented(st1, ppid, t)
    <3>1. st1 \in [Pids -> States]
      BY DEF States
    <3>2. st2 \in [Pids -> States] /\ pp2 \in [Pids -> Pids]
      BY <3>1, ReparentType
    <3>3. /\ procState' = WakeParent(st2, pp2, t)
          /\ ppid' = pp2 /\ waitPid' = waitPid
      BY <2>1 DEF SysKill
    <3>4. st2[c] = "ZOMBIE"
      BY <3>2, <3>3, WokenAreReady
    <3>5. c = t
      BY <3>4 DEF FreeOrphans
    <3>6. QED
      BY <3>2, <3>3, <3>5, WokenParent
  <2>2. ASSUME NEW t \in UserPids, ShellKill(t)
        PROVE  ~ (procState'[ppid'[c]] = "BLOCKED" /\ waitPid'[ppid'[c]] = c)
    <3> DEFINE st1 == [procState EXCEPT ![t] = "ZOMBIE"]
    <3>1. st1 \in [Pids -> States]
      BY DEF States
    <3>2. /\ procState' = WakeParent(st1, ppid, t)
          /\ ppid' = ppid /\ waitPid' = waitPid
      BY <2>2 DEF ShellKill, ProcExit
    <3>3. st1[c] = "ZOMBIE"
      BY <3>1, <3>2, WokenAreReady
    <3>4. c = t
      BY <3>3
    <3>5. QED
      BY <3>1, <3>2, <3>4, WokenParent
  <2>3. ASSUME TimerTick \/ UserFault \/ SysFork \/ SysExit \/ SysYield \/ SysSleep
        PROVE  FALSE
    <3>1. CASE TimerTick
      BY <3>1 DEF TimerTick
    <3>2. CASE SysFork
      BY <3>2, FirstFreeIsFree DEF SysFork
    <3>3. QED
      BY <2>3, <3>1, <3>2 DEF UserFault, SysExit, SysYield, SysSleep
  <2>4. ASSUME NEW d, Reap(d)
        PROVE  FALSE
    BY <2>4 DEF Reap
  <2>5. ASSUME \/ SysWaitAny
               \/ \E d \in UserPids : \/ SysWaitPid(d) \/ SysWaitPidBlock(d)
                                     \/ ShellReap(d) \/ ShellWait(d)
        PROVE  FALSE
    BY <2>4, <2>5 DEF SysWaitAny, SysWaitPid, SysWaitPidBlock, ShellReap, ShellWait
  <2>6. ASSUME \/ \E t \in Pids : SysKillCont(t)
               \/ \E t \in UserPids : ShellStop(t) \/ ShellCont(t)
        PROVE  FALSE
    BY <2>6 DEF SysKillCont, ShellStop, ShellCont
  <2>7. ASSUME \/ ShellAlloc \/ ShellFork \/ ShellExec \/ ShellWaitDone
               \/ \E loaded \in BOOLEAN : ShellSpawn(loaded)
        PROVE  FALSE
    BY <2>7 DEF ShellAlloc, ShellFork, ShellExec, ShellWaitDone, ShellSpawn
  <2>8. CASE UNCHANGED vars
    BY <2>8 DEF vars
  <2>9. QED
    BY <2>1, <2>2, <2>3, <2>5, <2>6, <2>7, <2>8 DEF Next, SysCall, ShellCommand
<1>2. QED
  BY <1>1, Typing, PTL DEF Spec, ZombieWakesWaiter

\* A zombie's slot becomes free only by its parent's wait, at its parent's
\* death, by its own exit, or by the command the shell was in the middle of.
THEOREM StatusNeverStolen == Spec => StatusNotStolen
<1> DEFINE Excused(c) == \/ current \in {ppid[c], c}
                         \/ procState'[ppid[c]] \in {"ZOMBIE", "FREE"}
                         \/ shellPc # "prompt" /\ shellArg = c
<1>1. TypeOK /\ [Next]_vars =>
        \A c \in Pids : procState[c] = "ZOMBIE" /\ procState'[c] = "FREE" => Excused(c)
  <2> SUFFICES ASSUME TypeOK, [Next]_vars, NEW c \in Pids,
                      procState[c] = "ZOMBIE", procState'[c] = "FREE"
               PROVE  Excused(c)
    OBVIOUS
  <2> USE DEF TypeOK
  <2>0. UserPids \subseteq Pids
    BY NProcAssumption DEF Pids, UserPids
  <2>1. ASSUME NEW t \in Pids, SysKill(t)
        PROVE  Excused(c)
    <3> DEFINE st1 == [procState EXCEPT ![t] = "ZOMBIE"]
               st2 == FreeOrphans(st1, ppid, t)
               pp2 == Reparented(st1, ppid, t)
    <3>1. /\ st1 \in [Pids -> States] /\ st1[t] = "ZOMBIE" /\ st1[c] = "ZOMBIE"
      BY DEF States
    <3>2. /\ st2 = [d \in Pids |-> IF d # 0 /\ ppid[d] = t /\ st1[d] = "ZOMBIE"
                                   THEN "FREE" ELSE st1[d]]
      BY DEF FreeOrphans
    <3>3. procState' = WakeParent(st2, pp2, t)
      BY <2>1 DEF SysKill
    <3>4. /\ st2[c] = "FREE"
          /\ procState'[t] = st2[t] \/ st2[t] = "BLOCKED"
      <4> HIDE DEF st1, pp2
      <4>1. st2 \in [Pids -> States]
        BY <3>1, <3>2 DEF States
      <4> HIDE DEF st2
      <4> QED
        BY <3>3, <4>1 DEF WakeParent
    <3>5. ppid[c] = t
      BY <3>1, <3>2, <3>4
    <3>6. st2[t] \in {"ZOMBIE", "FREE"}
      BY <3>1, <3>2
    <3>7. QED
      BY <3>4, <3>5, <3>6
  <2>2. ASSUME NEW t \in UserPids, ShellKill(t)
        PROVE  FALSE
    BY <2>0, <2>2 DEF ShellKill, ProcExit, WakeParent
  <2>3. ASSUME TimerTick \/ UserFault \/ SysFork \/ SysYield \/ SysSleep
        PROVE  FALSE
    BY <2>3 DEF TimerTick, UserFault, SysFork, SysYield, SysSleep
  <2>4. CASE SysExit
    BY <2>4 DEF SysExit
  <2>5. ASSUME NEW d, Reap(d)
        PROVE  Excused(c)
    BY <2>5 DEF Reap
  <2>6. CASE \/ SysWaitAny
             \/ \E d \in UserPids : \/ SysWaitPid(d) \/ SysWaitPidBlock(d)
                                   \/ ShellReap(d) \/ ShellWait(d)
    <3>1. \A d : ~ SysWaitPidBlock(d) /\ ~ ShellWait(d)
      BY DEF SysWaitPidBlock, ShellWait
    <3>2. QED
      BY <2>5, <2>6, <3>1 DEF SysWaitAny, SysWaitPid, ShellReap
  <2>7. ASSUME \/ \E t \in Pids : SysKillCont(t)
               \/ \E t \in UserPids : ShellStop(t) \/ ShellCont(t)
        PROVE  FALSE
    BY <2>7 DEF SysKillCont, ShellStop, ShellCont
  <2>8. ASSUME ShellAlloc \/ ShellFork \/ ShellExec
        PROVE  FALSE
    BY <2>8 DEF ShellAlloc, ShellFork, ShellExec
  <2>9. CASE ShellWaitDone \/ \E loaded \in BOOLEAN : ShellSpawn(loaded)
    BY <2>9 DEF ShellWaitDone, ShellSpawn, Filling
  <2>10. CASE UNCHANGED vars
    BY <2>10 DEF vars
  <2>11. QED
    BY <2>1, <2>2, <2>3, <2>4, <2>6, <2>7, <2>8, <2>9, <2>10
    DEF Next, SysCall, ShellCommand
<1>2. QED
  BY <1>1, Typing, PTL DEF Spec, StatusNotStolen
============================================================================
