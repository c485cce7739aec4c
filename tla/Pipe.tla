-------------------------------- MODULE Pipe --------------------------------
(***************************************************************************)
(* Pipes and the descriptor tables that hold their ends                    *)
(* (kernel/ipc/pipe_v2.fj, the descriptor calls of                         *)
(* kernel/syscall/dispatch.fj, and what fork, exec, spawn, exit and kill   *)
(* do to a descriptor table).                                              *)
(*                                                                         *)
(* A pipe is a slot of a pool with a reader and a writer count.  The bytes *)
(* in it are abstracted to how many there are; their order is the subject  *)
(* of module PipeRing.  Descriptors of other types are left out.           *)
(*                                                                         *)
(* Careful programs only open, fork, read, write and close, and close what *)
(* they opened before they exit.  The variable habits is what else the     *)
(* programs of a behaviour do.                                             *)
(***************************************************************************)
EXTENDS Sched

CONSTANTS
    NFds,       \* FD_MAX, 16 in the code
    KeptFds,    \* the descriptors exec leaves alone, 3 in the code
    NPipes,     \* PIPE_MAX, 8 in the code
    PipeBytes,  \* what a pipe can hold: PIPE_BUF_SIZE - 1
    MaxRefs,    \* bound on the counts, which nothing in the code bounds
    Profiles    \* the sets of habits looked at

ASSUME PipeAssumption ==
    /\ NFds \in Nat \ {0} /\ KeptFds \in 0 .. NFds
    /\ NPipes \in Nat \ {0}
    /\ PipeBytes \in Nat \ {0}
    /\ MaxRefs \in Nat \ {0}
    /\ Profiles \subseteq SUBSET {"dup", "exec", "exit", "kill"}

Fds == 0 .. NFds - 1
Slots == 0 .. NPipes - 1

EndTypes == {"READ", "WRITE"}           \* FD_PIPE_READ, FD_PIPE_WRITE
End(t, s) == [type |-> t, slot |-> s]
Ends == {End(t, s) : t \in EndTypes, s \in Slots}
Closed == End("CLOSED", 0)

VARIABLES
    live,       \* the processes that exist
    fd,         \* FD_TABLE_V2, one row of descriptors per slot of the table
    inUse,      \* +0 of every pipe
    fill,       \* the bytes between the read and the write position
    refs,       \* PIPE_REFCOUNT: readers and writers of every pipe
    habits      \* what else than the careful calls the programs make

vars == <<live, fd, inUse, fill, refs, habits>>

\* No step of start-up opens a descriptor in FD_TABLE_V2.
Init ==
    /\ live = {0}
    /\ fd = [p \in Pids |-> [i \in Fds |-> Closed]]
    /\ inUse = [s \in Slots |-> FALSE]
    /\ fill = [s \in Slots |-> 0]
    /\ refs = [e \in Ends |-> 0]
    /\ habits \in Profiles

----------------------------------------------------------------------------
\* Helpers

FreePipes == {s \in Slots : ~ inUse[s]}
FreeFds(p) == {i \in Fds : fd[p][i] = Closed}
Copies(row, e) == Cardinality({i \in Fds : row[i] = e})
HoldsNoEnd(p) == FreeFds(p) = Fds

\* How many descriptors, in the rows of all processes, are the end e.
Holders(e) == Cardinality({x \in Pids \X Fds : fd[x[1]][x[2]] = e})
HeldByLive(e) == \E p \in live, i \in Fds : fd[p][i] = e

\* Mutants of pipe_decref: the test for zero, and the offset of the writer
\* count, are dropped.
DecreasedBelow(e) == [refs EXCEPT ![e] = @ - 1]
DecreasedReader(e) ==
    [refs EXCEPT ![End("READ", e.slot)] = IF @ > 0 THEN @ - 1 ELSE 0]

Decreased(e) == [refs EXCEPT ![e] = IF @ > 0 THEN @ - 1 ELSE 0]     \* pipe_decref
BothZero(r, s) == \A t \in EndTypes : r[End(t, s)] = 0

----------------------------------------------------------------------------
\* Calls of a live process p

\* sys_pipe: with fewer than two closed descriptors it fails after the slot
\* has been taken, and the slot stays taken.
SysPipe(p) ==
    LET s == Least(FreePipes)
        r == Least(FreeFds(p))
        w == Least(FreeFds(p) \ {r})
    IN  /\ FreePipes # {}
        /\ inUse' = [inUse EXCEPT ![s] = TRUE]
        /\ fill' = [fill EXCEPT ![s] = 0]
        /\ IF Cardinality(FreeFds(p)) >= 2
           THEN /\ fd' = [fd EXCEPT ![p][r] = End("READ", s), ![p][w] = End("WRITE", s)]
                /\ refs' = [refs EXCEPT ![End("READ", s)] = 1, ![End("WRITE", s)] = 1]
           ELSE UNCHANGED <<fd, refs>>
        /\ UNCHANGED live

\* pipe_read_circular, when it returns bytes; neither end looks at in_use.
Read(p, i, len) ==
    LET s == fd[p][i].slot IN
    /\ fd[p][i].type = "READ"
    /\ fill[s] > 0
    /\ fill' = [fill EXCEPT ![s] = @ - (IF len < @ THEN len ELSE @)]
    /\ UNCHANGED <<live, fd, inUse, refs>>

\* pipe_write_circular, when it takes bytes: there are readers and room.
Write(p, i, len) ==
    LET s == fd[p][i].slot
        room == PipeBytes - fill[s]
    IN  /\ fd[p][i].type = "WRITE"
        /\ refs[End("READ", s)] > 0
        /\ room > 0
        /\ fill' = [fill EXCEPT ![s] = @ + (IF len < room THEN len ELSE room)]
        /\ UNCHANGED <<live, fd, inUse, refs>>

\* sys_close on an end: the pipe is freed when both counts are zero.
Release(e) ==
    LET r == Decreased(e)
        freed == BothZero(r, e.slot)
    IN  /\ refs' = r
        /\ inUse' = IF freed THEN [inUse EXCEPT ![e.slot] = FALSE] ELSE inUse
        /\ fill' = IF freed THEN [fill EXCEPT ![e.slot] = 0] ELSE fill

SysClose(p, i) ==
    /\ fd[p][i] # Closed
    /\ Release(fd[p][i])
    /\ fd' = [fd EXCEPT ![p][i] = Closed]
    /\ UNCHANGED live

\* sys_dup and sys_dup2 count no reference for the copy; dup2 closes what
\* was at the target.
SysDup(p, i) ==
    /\ "dup" \in habits
    /\ fd[p][i] # Closed
    /\ FreeFds(p) # {}
    /\ fd' = [fd EXCEPT ![p][Least(FreeFds(p))] = fd[p][i]]
    /\ UNCHANGED <<live, inUse, fill, refs>>
SysDup2(p, i, j) ==
    /\ "dup" \in habits
    /\ fd[p][i] # Closed
    /\ i # j
    /\ IF fd[p][j] # Closed THEN Release(fd[p][j]) ELSE UNCHANGED <<inUse, fill, refs>>
    /\ fd' = [fd EXCEPT ![p][j] = fd[p][i]]
    /\ UNCHANGED live

\* Mutant of fork_copy_fd_table: the copies are not counted.
ForkCountsNone(p, c) ==
    /\ c \notin live
    /\ live' = live \cup {c}
    /\ fd' = [fd EXCEPT ![c] = fd[p]]
    /\ UNCHANGED <<inUse, fill, refs>>

\* sys_fork into slot c: fork_copy_fd_table overwrites the row that was there
\* and counts a reference for every end copied.
Fork(p, c) ==
    /\ c \notin live
    /\ \A e \in Ends : refs[e] + Copies(fd[p], e) <= MaxRefs
    /\ live' = live \cup {c}
    /\ fd' = [fd EXCEPT ![c] = fd[p]]
    /\ refs' = [e \in Ends |-> refs[e] + Copies(fd[p], e)]
    /\ UNCHANGED <<inUse, fill>>

\* exec_reset_fds: descriptors above the kept ones are closed, no reference
\* is given back.
ResetFds(row) == [i \in Fds |-> IF i < KeptFds THEN row[i] ELSE Closed]

SysExec(p) ==
    /\ "exec" \in habits
    /\ fd' = [fd EXCEPT ![p] = ResetFds(@)]
    /\ UNCHANGED <<live, inUse, fill, refs>>

\* cmd_spawn into slot c: an ELF program goes through sys_exec, a registered
\* one starts on the row the slot has.
Spawn(c, elf) ==
    /\ c \notin live
    /\ live' = live \cup {c}
    /\ fd' = IF elf THEN [fd EXCEPT ![c] = ResetFds(@)] ELSE fd
    /\ UNCHANGED <<inUse, fill, refs>>

\* __sched_exit frees the slot and leaves its row of descriptors.
SysExit(p) ==
    /\ p # 0
    /\ HoldsNoEnd(p) \/ "exit" \in habits
    /\ live' = live \ {p}
    /\ UNCHANGED <<fd, inUse, fill, refs>>

\* proc_v2_exit and signal_deliver_default close the victim's descriptors and
\* give no reference back; the victim is reaped later.
Kill(p) ==
    /\ "kill" \in habits
    /\ p # 0
    /\ live' = live \ {p}
    /\ fd' = [fd EXCEPT ![p] = [i \in Fds |-> Closed]]
    /\ UNCHANGED <<inUse, fill, refs>>

----------------------------------------------------------------------------
Call(p) ==
    \/ SysPipe(p) \/ SysExec(p) \/ SysExit(p)
    \/ \E i \in Fds :
        \/ SysClose(p, i) \/ SysDup(p, i)
        \/ \E j \in Fds : SysDup2(p, i, j)
        \/ \E len \in 1 .. PipeBytes : Read(p, i, len) \/ Write(p, i, len)
    \/ \E c \in Pids : Fork(p, c)

Step ==
    \/ \E p \in live : Call(p) \/ Kill(p)
    \/ \E c \in Pids, elf \in BOOLEAN : Spawn(c, elf)

Next == Step /\ UNCHANGED habits

Spec == Init /\ [][Next]_vars

----------------------------------------------------------------------------
\* Properties

\* Every field holds a value the code can store in it, and a pipe never holds
\* more bytes than its buffer has room for.
TypeOK ==
    /\ live \in SUBSET Pids
    /\ fd \in [Pids -> [Fds -> Ends \cup {Closed}]]
    /\ inUse \in [Slots -> BOOLEAN]
    /\ fill \in [Slots -> 0 .. PipeBytes]
    /\ refs \in [Ends -> 0 .. MaxRefs]

\* The counts are the descriptors: with careful programs a pipe has as many
\* references as there are open ends, whoever forked and closed in between,
\* so EOF and broken pipe are reported exactly when they are true.
RefsExact == habits = {} => \A e \in Ends : refs[e] = Holders(e)

\* Unless a descriptor is duplicated, bytes that were written are not thrown
\* away while a process can still read them, even if other holders of the pipe
\* are killed, exec or just exit.
NoBytesDropped ==
    [][\A s \in Slots :
        "dup" \notin habits /\ fill'[s] < fill[s] =>
            \/ \E p \in live, i \in Fds, len \in 1 .. PipeBytes : Read(p, i, len)
            \/ ~ HeldByLive(End("READ", s))']_vars

\* When nobody can write to an empty pipe, a read reports EOF rather than
\* would-block, if programs close or duplicate what they open.
EofReported ==
    \A s \in Slots :
        inUse[s] /\ HeldByLive(End("READ", s)) /\ ~ HeldByLive(End("WRITE", s)) =>
            refs[End("WRITE", s)] = 0
EofDetected == habits \subseteq {"dup"} => EofReported
============================================================================
