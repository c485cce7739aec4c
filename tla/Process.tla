------------------------------ MODULE Process ------------------------------
(***************************************************************************)
(* The process table of FajarOS Nova, the timer-driven scheduler and the   *)
(* calls that create, stop, wake, kill and reap processes                  *)
(* (kernel/sched/process.fj, preempt.fj, signals.fj, kernel/process/*.fj,  *)
(* kernel/signal/signal.fj, kernel/interrupts/exceptions.fj and the        *)
(* __sched_exit trampoline of kernel/runtime/bare_stubs.fj).               *)
(*                                                                         *)
(* System calls run with interrupts masked, so each is one step.  Shell    *)
(* commands run as PID 0 with interrupts enabled: a command that picks a   *)
(* slot and fills it later, or that spins until a child dies, is split     *)
(* where the timer can preempt it.                                         *)
(***************************************************************************)
EXTENDS Sched

UserPids == 1 .. NProc - 1      \* slot 0 is the kernel; PID 1 is init

\* "CORRUPT" is the word a user fault leaves in the state field: the exit
\* code is stored at byte offset 7 and overwrites the high byte of the state.
States == {"FREE", "READY", "RUNNING", "BLOCKED", "ZOMBIE", "CORRUPT"}

VARIABLES
    procState,  \* PROC_OFF_STATE of every slot
    ppid,       \* PROC_OFF_PPID of every slot
    waitPid,    \* PROC_WAIT_TABLE: the child a blocked waiter waits for
    current,    \* the word at 0x6FE00: who system calls are charged to
    ctx0,       \* whose registers PID 0 runs on: the shell, a program
                \* exec'ed by the shell, or a program that faulted
    shellPc,    \* where the shell's command is: at the prompt, between
                \* picking a slot and filling it, or spinning in waitpid
    shellArg    \* the slot picked, or the child spun on

vars == <<procState, ppid, waitPid, current, ctx0, shellPc, shellArg>>
shellVars == <<ctx0, shellPc, shellArg>>

Init ==
    /\ procState = [p \in Pids |-> IF p = 0 THEN "RUNNING" ELSE "FREE"]
    /\ ppid = [p \in Pids |-> 0]
    /\ waitPid = [p \in Pids |-> 0]
    /\ current = 0
    /\ ctx0 = "shell"
    /\ shellPc = "prompt"
    /\ shellArg = 0

----------------------------------------------------------------------------
\* Helpers

FreeSlots == {p \in UserPids : procState[p] = "FREE"}
FirstFree == Least(FreeSlots)           \* proc_v2_alloc

\* The code that makes system calls: a user program, in its own slot or
\* exec'ed into slot 0; a program that faulted only faults again.
InUserMode == current # 0 \/ ctx0 = "user"
AtPrompt == current = 0 /\ ctx0 = "shell" /\ shellPc = "prompt"

\* Mutant: the wait table is indexed by the child.
WakeParentByChild(st, pp, child) ==
    IF st[pp[child]] = "BLOCKED" /\ waitPid[child] = pp[child]
    THEN [st EXCEPT ![pp[child]] = "READY"] ELSE st

\* wake_waiting_parent: the parent of child, if it waits for child.
WakeParent(st, pp, child) ==
    LET par == pp[child]
    IN  IF st[par] = "BLOCKED" /\ waitPid[par] = child
        THEN [st EXCEPT ![par] = "READY"]
        ELSE st

\* reparent_children: to PID 1; a zombie that is handed over is freed.
Reparented(st, pp, parent) ==
    [c \in Pids |-> IF c # 0 /\ pp[c] = parent /\ st[c] # "FREE"
                    THEN 1 ELSE pp[c]]
FreeOrphans(st, pp, parent) ==
    [c \in Pids |-> IF c # 0 /\ pp[c] = parent /\ st[c] = "ZOMBIE"
                    THEN "FREE" ELSE st[c]]

\* proc_v2_exit: the slot becomes a zombie and a waiting parent is woken.
ProcExit(p) ==
    procState' = WakeParent([procState EXCEPT ![p] = "ZOMBIE"], ppid, p)

----------------------------------------------------------------------------
\* The timer interrupt

\* Mutant: the switch leaves the old process marked RUNNING.
TimerTickNoDemote ==
    LET next == SchedPick(procState, current)
    IN  /\ procState' = [procState EXCEPT ![next] = "RUNNING"]
        /\ current' = next
        /\ UNCHANGED <<ppid, waitPid, shellVars>>

\* timer_tick_handler.  When nobody else is READY the current slot is marked
\* RUNNING whatever its state was.
TimerTick ==
    LET st == IF procState[current] = "RUNNING"
              THEN [procState EXCEPT ![current] = "READY"] ELSE procState
        next == SchedPick(st, current)
    IN  /\ procState' = [st EXCEPT ![next] = "RUNNING"]
        /\ current' = next
        /\ UNCHANGED <<ppid, waitPid, shellVars>>

----------------------------------------------------------------------------
\* System calls of a user program

\* sys_fork: the first free slot becomes a READY child.  Cloning the page
\* tables can fail, and then nothing has changed.
SysFork ==
    /\ InUserMode
    /\ FreeSlots # {}
    /\ procState' = [procState EXCEPT ![FirstFree] = "READY"]
    /\ ppid' = [ppid EXCEPT ![FirstFree] = current]
    /\ UNCHANGED <<waitPid, current, shellVars>>

\* SYS_EXIT jumps to __sched_exit: the slot is FREE at once, and the CPU goes
\* to a fresh shell loop as PID 0, whose interrupted command is abandoned.
SysExit ==
    /\ InUserMode
    /\ procState' = [procState EXCEPT ![current] = "FREE"]
    /\ current' = 0
    /\ ctx0' = "shell"
    /\ shellPc' = "prompt"
    /\ UNCHANGED <<ppid, waitPid, shellArg>>

SysYield ==
    /\ current # 0
    /\ procState' = [procState EXCEPT ![current] = "READY"]
    /\ UNCHANGED <<ppid, waitPid, current, shellVars>>

\* sys_sleep: nothing turns the state back when the time is over.
SysSleep ==
    /\ current # 0
    /\ procState' = [procState EXCEPT ![current] = "BLOCKED"]
    /\ UNCHANGED <<ppid, waitPid, current, shellVars>>

\* Mutant: the caller need not be the parent.
ReapAnyZombie(c) ==
    /\ procState[c] = "ZOMBIE"
    /\ procState' = [procState EXCEPT ![c] = "FREE"]
    /\ UNCHANGED <<ppid, waitPid, current, shellVars>>

\* Reaping: the zombie branch of sys_waitpid, waitpid_any and sc_wait.
Reap(c) ==
    /\ ppid[c] = current
    /\ procState[c] = "ZOMBIE"
    /\ procState' = [procState EXCEPT ![c] = "FREE"]
    /\ UNCHANGED <<ppid, waitPid, current, shellVars>>

SysWaitPid(c) == InUserMode /\ Reap(c)

SysWaitAny ==
    LET zombies == {c \in UserPids : ppid[c] = current /\ procState[c] = "ZOMBIE"}
    IN  InUserMode /\ zombies # {} /\ Reap(Least(zombies))

\* sys_waitpid on a living child: the caller is marked BLOCKED and returns to
\* user mode; the next tick takes the CPU from it.
SysWaitPidBlock(c) ==
    /\ current # 0
    /\ ppid[c] = current
    /\ procState[c] # "ZOMBIE"
    /\ waitPid' = [waitPid EXCEPT ![current] = c]
    /\ procState' = [procState EXCEPT ![current] = "BLOCKED"]
    /\ UNCHANGED <<ppid, current, shellVars>>

\* sys_kill with SIGKILL: signal_deliver_default kills, hands the children
\* to PID 1 and wakes a waiting parent.  PID 0 is a legal target.
SysKill(t) ==
    LET st1 == [procState EXCEPT ![t] = "ZOMBIE"]
        st2 == FreeOrphans(st1, ppid, t)
        pp2 == Reparented(st1, ppid, t)
    IN  /\ InUserMode
        /\ procState[t] # "FREE"
        /\ ppid' = pp2
        /\ procState' = WakeParent(st2, pp2, t)
        /\ UNCHANGED <<waitPid, current, shellVars>>

\* sys_kill with SIGCONT wakes any BLOCKED process, whatever it waits for.
SysKillCont(t) ==
    /\ InUserMode
    /\ procState[t] = "BLOCKED"
    /\ procState' = [procState EXCEPT ![t] = "READY"]
    /\ UNCHANGED <<ppid, waitPid, current, shellVars>>

\* A fault in user mode (exception_dispatch): the slot is spoilt, PID 0
\* becomes current, and iretq returns to the faulting program, which keeps
\* faulting in PID 0's name; the next tick saves it over the shell's context.
UserFault ==
    /\ InUserMode
    /\ procState' = IF current = 0 THEN procState
                    ELSE [procState EXCEPT ![current] = "CORRUPT"]
    /\ current' = 0
    /\ ctx0' = "crashed"
    /\ shellPc' = "prompt"
    /\ UNCHANGED <<ppid, waitPid, shellArg>>

----------------------------------------------------------------------------
\* Commands of the shell, which runs as PID 0 with interrupts enabled

\* proc_v2_alloc on behalf of cmd_spawn or proc_v2_fork: the slot is chosen
\* here and marked in a later step, with the timer free to fire in between.
ShellAlloc ==
    /\ AtPrompt
    /\ FreeSlots # {}
    /\ shellPc' = "filling"
    /\ shellArg' = FirstFree
    /\ UNCHANGED <<procState, ppid, waitPid, current, ctx0>>

Filling == current = 0 /\ ctx0 = "shell" /\ shellPc = "filling"

\* proc_v2_fork(0)
ShellFork ==
    /\ Filling
    /\ procState' = [procState EXCEPT ![shellArg] = "READY"]
    /\ ppid' = [ppid EXCEPT ![shellArg] = 0]
    /\ shellPc' = "prompt"
    /\ UNCHANGED <<waitPid, current, ctx0, shellArg>>

\* cmd_spawn: sys_exec marks the slot READY and leaves the old PPID there;
\* when the program cannot be loaded the slot is set FREE.
ShellSpawn(loaded) ==
    /\ Filling
    /\ procState' = [procState EXCEPT ![shellArg] = IF loaded THEN "READY" ELSE "FREE"]
    /\ shellPc' = "prompt"
    /\ UNCHANGED <<ppid, waitPid, current, ctx0, shellArg>>

\* cmd_exec: the program replaces the shell in slot 0.
ShellExec ==
    /\ AtPrompt
    /\ procState' = [procState EXCEPT ![0] = "READY"]
    /\ ctx0' = "user"
    /\ UNCHANGED <<ppid, waitPid, current, shellPc, shellArg>>

\* cmd_kill: sig_send on any slot but 0, through sc_kill's guards.
ShellKill(t) ==
    /\ AtPrompt
    /\ procState[t] # "FREE"
    /\ ProcExit(t)
    /\ UNCHANGED <<ppid, waitPid, current, shellVars>>

ShellStop(t) ==
    /\ AtPrompt
    /\ procState[t] \in {"READY", "RUNNING"}
    /\ procState' = [procState EXCEPT ![t] = "BLOCKED"]
    /\ UNCHANGED <<ppid, waitPid, current, shellVars>>

ShellCont(t) ==
    /\ AtPrompt
    /\ procState[t] = "BLOCKED"
    /\ procState' = [procState EXCEPT ![t] = "READY"]
    /\ UNCHANGED <<ppid, waitPid, current, shellVars>>

\* sc_wait, or the zombie branch of sys_waitpid called by fg.
ShellReap(c) == AtPrompt /\ Reap(c)

\* fg: sys_waitpid blocks PID 0 and spins until the child is a zombie.
ShellWait(c) ==
    /\ AtPrompt
    /\ ppid[c] = 0
    /\ procState[c] # "ZOMBIE"
    /\ waitPid' = [waitPid EXCEPT ![0] = c]
    /\ procState' = [procState EXCEPT ![0] = "BLOCKED"]
    /\ shellPc' = "spinning"
    /\ shellArg' = c
    /\ UNCHANGED <<ppid, current, ctx0>>

\* waitpid_spin leaves its loop: waitpid_reap_child.
ShellWaitDone ==
    /\ current = 0 /\ ctx0 = "shell" /\ shellPc = "spinning"
    /\ procState[shellArg] = "ZOMBIE"
    /\ procState' = [procState EXCEPT ![shellArg] = "FREE", ![0] = "RUNNING"]
    /\ shellPc' = "prompt"
    /\ UNCHANGED <<ppid, waitPid, current, ctx0, shellArg>>

----------------------------------------------------------------------------
SysCall ==
    \/ SysFork \/ SysExit \/ SysYield \/ SysSleep \/ SysWaitAny
    \/ \E c \in UserPids : SysWaitPid(c) \/ SysWaitPidBlock(c)
    \/ \E t \in Pids : SysKill(t) \/ SysKillCont(t)

ShellCommand ==
    \/ ShellAlloc \/ ShellFork \/ ShellExec \/ ShellWaitDone
    \/ \E loaded \in BOOLEAN : ShellSpawn(loaded)
    \/ \E t \in UserPids : ShellKill(t) \/ ShellStop(t) \/ ShellCont(t)
    \/ \E c \in UserPids : ShellReap(c) \/ ShellWait(c)

Next == TimerTick \/ UserFault \/ SysCall \/ ShellCommand

Spec == Init /\ [][Next]_vars

\* The timer keeps firing: nothing in the modelled code masks it for good.
FairSpec == Spec /\ WF_vars(TimerTick)

----------------------------------------------------------------------------
\* Properties

\* Every field holds a value the code can store in it.
TypeOK ==
    /\ procState \in [Pids -> States]
    /\ ppid \in [Pids -> Pids]
    /\ waitPid \in [Pids -> Pids]
    /\ current \in Pids
    /\ ctx0 \in {"shell", "user", "crashed"}
    /\ shellPc \in {"prompt", "filling", "spinning"}
    /\ shellArg \in Pids

\* One CPU: a slot marked RUNNING is the one system calls are charged to, so
\* after any mix of ticks, faults, kills and exits a process that lost the CPU
\* is never left marked RUNNING, a state sched_pick_next would never pick.
OnlyCurrentRuns == \A p \in Pids : procState[p] = "RUNNING" => p = current

\* Whatever kills a process, a parent blocked in waitpid on it does not stay
\* blocked over the zombie (proc_v2_exit and signal_deliver_default both go
\* through wake_waiting_parent, after the children have been handed over).
ZombieWakesWaiter ==
    [][\A c \in Pids :
        procState[c] # "ZOMBIE" /\ procState'[c] = "ZOMBIE" =>
            ~ (procState'[ppid'[c]] = "BLOCKED" /\ waitPid'[ppid'[c]] = c)]_vars

\* An exit status is not stolen: a zombie's slot is freed only by its parent,
\* at its parent's death, by its own SYS_EXIT when it was killed while on the
\* CPU, or by a shell command that had named the slot before it was preempted
\* (the failure path of a spawn, the end of a spin).
StatusNotStolen ==
    [][\A c \in Pids :
        procState[c] = "ZOMBIE" /\ procState'[c] = "FREE" =>
            \/ current \in {ppid[c], c}
            \/ procState'[ppid[c]] \in {"ZOMBIE", "FREE"}
            \/ shellPc # "prompt" /\ shellArg = c]_vars

\* sched_pick_next starves nobody as long as it is the only thing that moves
\* the CPU: once no program exits or faults any more, a READY process gets the
\* CPU or is stopped, killed or overwritten.
NobodyStarves ==
    <>[][~ (SysExit \/ UserFault)]_vars =>
        \A p \in Pids : procState[p] = "READY" ~> procState[p] # "READY"

\* CHANGELOG.md: a parent blocked in waitpid is woken when the child exits.
ExitWakesWaiter ==
    [][\A c \in UserPids :
        /\ SysExit /\ current = c
        /\ procState[ppid[c]] = "BLOCKED" /\ waitPid[ppid[c]] = c
        => procState'[ppid[c]] = "READY"]_vars
============================================================================
