------------------------------- MODULE RamFs -------------------------------
(***************************************************************************)
(* The RAM file system: one flat table of entries and a data area that is  *)
(* handed out from the bottom and never taken back (fs/ramfs.fj), changed  *)
(* by the shell's file commands (shell/commands.fj), by the file system    *)
(* calls of a user program (kernel/syscall/dispatch.fj) and by the         *)
(* messages of the VFS service (services/vfs/main.fj).                     *)
(*                                                                         *)
(* System calls run with interrupts masked, so each is one step.  Shell    *)
(* commands and the VFS service run as PID 0, which the timer can preempt: *)
(* a command finds its file and reads the file count in one step, and      *)
(* changes the table from what it has read in another.                     *)
(*                                                                         *)
(* The variable habits is who uses the file system in a behaviour.  Under  *)
(* "commands" only PID 0 does, and the service's client removes no file    *)
(* while it has one open.  Under "own" only the user program does, and it  *)
(* writes no file but those it created.  Under "any" everybody does        *)
(* anything.                                                               *)
(***************************************************************************)
EXTENDS Integers, Sequences

CONSTANTS
    Names,      \* the names programs use
    Texts,      \* the texts they write, none longer than Block
    Fds,        \* the descriptors of the user program
    MaxFiles,   \* FS_MAX_FILES, 64 in the code
    Area,       \* the cells of the data area, 832 KB in the code
    Block,      \* what sys_write reserves for a file, 4096 in the code
    MaxSeek,    \* bound on the offsets sought
    Room,       \* bound on the cells commands may fill, see Start
    Profiles    \* the habits looked at

Slots == 0 .. MaxFiles - 1
Cells == 0 .. Area - 1
None == -1              \* no slot, and a data pointer of zero
Kinds == {"file", "dir"}
NoName == ""            \* the name of an unused slot

ASSUME RamFsAssumption ==
    /\ MaxFiles \in Nat \ {0}
    /\ Area \in Nat /\ Block \in Nat \ {0} /\ MaxSeek \in Nat
    /\ Room \in 0 .. Area
    /\ \A t \in Texts : t \in Seq(Nat) /\ 0 < Len(t) /\ Len(t) <= Block
                                       /\ Len(t) <= Area
    /\ Profiles \subseteq {"commands", "own", "any"}

VARIABLES
    entry,      \* FS_BASE + 0x100: name, size, data pointer and type per slot
    count,      \* FS_BASE + 0: file_count
    next,       \* FS_BASE + 8: next_data_offset
    mem,        \* the data area
    fd,         \* the slot and the offset of every FD_RAMFS descriptor
    vfd,        \* the slot the VFS service has open for its client, or None
    pending,    \* the command PID 0 is in the middle of
    habits      \* who uses the file system

vars == <<entry, count, next, mem, fd, vfd, pending, habits>>

NoEntry == [name |-> NoName, size |-> 0, data |-> None, kind |-> "none"]
Closed == [at |-> None, off |-> 0]
Idle == [op |-> "none", name |-> NoName, to |-> NoName, text |-> <<>>,
         at |-> None, count |-> 0]

\* ramfs_init leaves files with a few bytes of data; one of them is looked at.
Init ==
    \E n \in Names, t \in Texts :
        /\ entry = [i \in Slots |->
              IF i = 0 THEN [name |-> n, size |-> Len(t), data |-> 0,
                             kind |-> "file"]
              ELSE NoEntry]
        /\ count = 1
        /\ next = Len(t)
        /\ mem = [a \in Cells |-> IF a < Len(t) THEN t[a + 1] ELSE 0]
        /\ fd = [f \in Fds |-> Closed]
        /\ vfd = None
        /\ pending = Idle
        /\ habits \in Profiles

----------------------------------------------------------------------------
\* Helpers

Used == 0 .. count - 1

\* ramfs_find, ramfs_find_buf, ramfs_find_by_addr return i for the name n: the
\* first of that name, or None.
Finds(n, i) ==
    \/ i = None /\ \A j \in Used : entry[j].name # n
    \/ i \in Used /\ entry[i].name = n /\ \A j \in 0 .. i - 1 : entry[j].name # n

Fits(n) == next + n <= Area

\* What cells can come to hold.
Values == {0} \cup UNION {{t[k] : k \in 1 .. Len(t)} : t \in Texts}

\* Memory after the text was stored at address a, and what a file holds.
Stored(a, text) ==
    [c \in Cells |-> IF c >= a /\ c < a + Len(text) THEN text[c - a + 1]
                     ELSE mem[c]]
Body(i) == [k \in 1 .. entry[i].size |-> mem[entry[i].data + k - 1]]

\* A command line or a message of the service that names files.
Removals == {"rm", "rmdir", "delete"}
Creations == {"create", "mkdir", "cp"}
Ops == Removals \cup Creations \cup {"write", "append", "mv"}
Commands ==
    [op : Removals \cup {"create", "mkdir"}, name : Names, to : {NoName},
     text : {<<>>}]
    \cup [op : {"write", "append"}, name : Names, to : {NoName}, text : Texts]
    \cup [op : {"cp", "mv"}, name : Names, to : Names, text : {<<>>}]

\* The memory a command takes: all of a body, never only what is new.
Need(op, i, text) ==
    Len(text) + IF op \in {"append", "cp"} /\ i # None THEN entry[i].size ELSE 0

----------------------------------------------------------------------------
\* PID 0: shell commands and the VFS service

Shell == habits # "own"

\* The command op has found file i and read the file count, and goes on: no
\* new name is taken, every old one is there, only a directory is removed by
\* rmdir, and there is a slot for a new file.  A command that is refused
\* prints so and changes nothing.
Accepted(op, i) ==
    /\ op \in {"create", "mkdir"} => i = None
    /\ op \in Removals \cup {"append", "cp", "mv"} => i # None
    /\ op = "rmdir" => entry[i].kind = "dir"
    /\ op \in Creations => count < MaxFiles
    /\ op = "write" /\ i = None => count < MaxFiles

\* The first half of a command: what it reads before it changes anything.
\* Bound: the commands that take memory do not check that there is any, and
\* are looked at only while they stay within the first Room cells.
Start(c) ==
    /\ Shell /\ pending = Idle
    /\ habits = "commands" /\ c.op \in Removals => vfd = None
    /\ \E i \in Used \cup {None} :
          /\ Finds(c.name, i) /\ Accepted(c.op, i)
          /\ next + Need(c.op, i, c.text) <= Room
          /\ pending' = [op |-> c.op, name |-> c.name, to |-> c.to,
                         text |-> c.text, at |-> i, count |-> count]
    /\ UNCHANGED <<entry, count, next, mem, fd, vfd, habits>>

Doing(op) == pending.op = op /\ pending' = Idle
Keep == UNCHANGED <<fd, vfd, habits>>

\* cmd_touch, cmd_mkdir, and ramfs_create_at for the service.
Create(op, k) ==
    /\ Doing(op)
    /\ entry' = [entry EXCEPT ![pending.count] =
                    [name |-> pending.name, size |-> 0, data |-> None,
                     kind |-> k]]
    /\ count' = pending.count + 1
    /\ Keep /\ UNCHANGED <<next, mem>>

\* cmd_write: the text goes into new memory, the old body is abandoned.  An
\* entry that exists keeps its kind.
CmdWrite ==
    LET i == IF pending.at = None THEN pending.count ELSE pending.at
        k == IF pending.at = None THEN "file" ELSE entry[i].kind
    IN  /\ Doing("write") /\ Fits(Len(pending.text))
        /\ entry' = [entry EXCEPT ![i] =
                        [name |-> pending.name, size |-> Len(pending.text),
                         data |-> next, kind |-> k]]
        /\ count' = IF pending.at = None THEN pending.count + 1 ELSE count
        /\ mem' = Stored(next, pending.text)
        /\ next' = next + Len(pending.text)
        /\ Keep

\* cmd_append: old body and text, one after the other in new memory.
CmdAppend ==
    LET i == pending.at
        body == Body(i) \o pending.text
    IN  /\ Doing("append") /\ Fits(Len(body))
        /\ entry' = [entry EXCEPT ![i].size = Len(body), ![i].data = next]
        /\ mem' = Stored(next, body)
        /\ next' = next + Len(body)
        /\ Keep /\ UNCHANGED count

\* cmd_cp: always a new entry, whether or not the name is taken.
CmdCopy ==
    LET body == Body(pending.at)
    IN  /\ Doing("cp") /\ Fits(Len(body))
        /\ entry' = [entry EXCEPT ![pending.count] =
                        [name |-> pending.to, size |-> Len(body),
                         data |-> next, kind |-> "file"]]
        /\ count' = pending.count + 1
        /\ mem' = Stored(next, body)
        /\ next' = next + Len(body)
        /\ Keep

\* cmd_mv: the name is overwritten, whether or not the new one is taken.
CmdMove ==
    /\ Doing("mv")
    /\ entry' = [entry EXCEPT ![pending.at].name = pending.to]
    /\ Keep /\ UNCHANGED <<count, next, mem>>

\* Mutant: the loop begins one entry too late.
ShiftedLate(gone, last) ==
    [i \in Slots |-> IF i > gone /\ i < count - 1 THEN entry[i + 1]
                     ELSE IF i = count - 1 THEN last ELSE entry[i]]
\* The entries above a removed one move down by one; what is left in the last
\* slot is its old entry (cmd_rm, cmd_rmdir) or nothing (ramfs_delete_at).
Shifted(gone, last) ==
    [i \in Slots |-> IF i >= gone /\ i < count - 1 THEN entry[i + 1]
                     ELSE IF i = count - 1 THEN last ELSE entry[i]]
Remove(op, last) ==
    /\ Doing(op)
    /\ entry' = Shifted(pending.at, last)
    /\ count' = count - 1
    /\ Keep /\ UNCHANGED <<next, mem>>
CmdRm ==
    \/ Remove("rm", entry[count - 1])
    \/ Remove("rmdir", entry[count - 1])
VfsDelete == Remove("delete", NoEntry)

\* The service opens a file for its client; MSG_VFS_OPEN takes any kind.
VfsOpen(n) ==
    /\ Shell /\ pending = Idle /\ vfd = None
    /\ \E i \in Used : Finds(n, i) /\ vfd' = i
    /\ UNCHANGED <<entry, count, next, mem, fd, pending, habits>>
VfsClose ==
    /\ Shell /\ pending = Idle
    /\ vfd' = None
    /\ UNCHANGED <<entry, count, next, mem, fd, pending, habits>>

\* Mutant: without the check for room.
VfsWriteUnchecked(t) ==
    /\ Shell /\ pending = Idle /\ vfd # None
    /\ vfd < count
    /\ entry' = [entry EXCEPT ![vfd].size = Len(t), ![vfd].data = next,
                              ![vfd].kind = "file"]
    /\ mem' = Stored(next, t)
    /\ next' = next + Len(t)
    /\ UNCHANGED <<count, fd, vfd, pending, habits>>
\* MSG_VFS_WRITE through ramfs_write_at, which has the check the commands
\* lack and replaces the whole body, whatever offset the message names.
VfsWrite(t) ==
    /\ Shell /\ pending = Idle /\ vfd # None
    /\ vfd < count /\ Fits(Len(t))
    /\ entry' = [entry EXCEPT ![vfd].size = Len(t), ![vfd].data = next,
                              ![vfd].kind = "file"]
    /\ mem' = Stored(next, t)
    /\ next' = next + Len(t)
    /\ UNCHANGED <<count, fd, vfd, pending, habits>>

----------------------------------------------------------------------------
\* System calls of a user program

User == habits # "commands"
\* Under "own" the program leaves alone what was there before it.
May(i) == habits = "own" => i # 0
SysKeep == UNCHANGED <<vfd, pending, habits>>

\* fd_v2_alloc: the lowest closed descriptor.
NextFd(f) == fd[f] = Closed /\ \A g \in Fds : g < f => fd[g] # Closed

\* sys_open with O_CREAT; trunc is O_TRUNC, which resets the size and keeps
\* the memory.  A directory, and a full table, are refused.
SysOpen(f, n, trunc) ==
    /\ User /\ NextFd(f) /\ SysKeep
    /\ UNCHANGED <<next, mem>>
    /\ \E i \in Used \cup {None} :
          /\ Finds(n, i)
          /\ \/ /\ i # None /\ entry[i].kind = "file"
                /\ entry' = [entry EXCEPT ![i].size = IF trunc THEN 0 ELSE @]
                /\ fd' = [fd EXCEPT ![f] = [at |-> i, off |-> 0]]
                /\ UNCHANGED count
             \/ /\ i = None /\ count < MaxFiles
                /\ entry' = [entry EXCEPT ![count] =
                      [name |-> n, size |-> 0, data |-> None, kind |-> "file"]]
                /\ fd' = [fd EXCEPT ![f] = [at |-> count, off |-> 0]]
                /\ count' = count + 1
             \/ /\ IF i # None THEN entry[i].kind # "file"
                   ELSE count = MaxFiles
                /\ UNCHANGED <<entry, fd, count>>

SysClose(f) ==
    /\ User /\ fd[f] # Closed /\ SysKeep
    /\ fd' = [fd EXCEPT ![f] = Closed]
    /\ UNCHANGED <<entry, count, next, mem>>

\* Mutant: the block of a first write is not taken out of the area.
SysWriteUnreserved(f, t) ==
    LET i == fd[f].at
        a == IF entry[i].data = None THEN next ELSE entry[i].data
        end == fd[f].off + Len(t)
    IN  /\ User /\ fd[f] # Closed /\ May(i)
        /\ end <= Block /\ a + end <= Area
        /\ entry' = [entry EXCEPT ![i].data = a,
                        ![i].size = IF end > @ THEN end ELSE @]
        /\ mem' = Stored(a + fd[f].off, t)
        /\ fd' = [fd EXCEPT ![f].off = end]
        /\ SysKeep /\ UNCHANGED <<count, next>>
\* sys_write: the first write to a file without memory takes a block for it;
\* the block stays with the file when the write is then refused.  Bound:
\* writes that would run past the area are not looked at.
SysWrite(f, t) ==
    LET i == fd[f].at
        new == entry[i].data = None
        a == IF new THEN next ELSE entry[i].data
        end == fd[f].off + Len(t)
    IN  /\ User /\ fd[f] # Closed /\ May(i)
        /\ new => Fits(Block)
        /\ next' = IF new THEN next + Block ELSE next
        /\ SysKeep /\ UNCHANGED count
        /\ \/ /\ end > Block
              /\ entry' = [entry EXCEPT ![i].data = a]
              /\ UNCHANGED <<mem, fd>>
           \/ /\ end <= Block /\ a + end <= Area
              /\ entry' = [entry EXCEPT ![i].data = a,
                              ![i].size = IF end > @ THEN end ELSE @]
              /\ mem' = Stored(a + fd[f].off, t)
              /\ fd' = [fd EXCEPT ![f].off = end]

\* sys_read: at most what is left of the file; only the offset changes.
SysRead(f) ==
    /\ User /\ fd[f] # Closed /\ SysKeep
    /\ entry[fd[f].at].data # None
    /\ \E off \in fd[f].off + 1 .. entry[fd[f].at].size :
          fd' = [fd EXCEPT ![f].off = off]
    /\ UNCHANGED <<entry, count, next, mem>>

\* sys_lseek.  Bound: offsets up to MaxSeek.
SysLseek(f, off) ==
    /\ User /\ fd[f] # Closed /\ SysKeep
    /\ off \in 0 .. MaxSeek
    /\ fd' = [fd EXCEPT ![f].off = off]
    /\ UNCHANGED <<entry, count, next, mem>>

\* sys_unlink: the entry loses its name, size and type; its slot, its memory
\* and the descriptors on it remain.
SysUnlink(n) ==
    /\ User /\ SysKeep
    /\ \E i \in Used :
          /\ Finds(n, i) /\ entry[i].kind # "dir"
          /\ entry' = [entry EXCEPT ![i] = [NoEntry EXCEPT !.data = entry[i].data]]
    /\ UNCHANGED <<count, next, mem, fd>>

----------------------------------------------------------------------------
Finish ==
    \/ Create("create", "file") \/ Create("mkdir", "dir")
    \/ CmdWrite \/ CmdAppend \/ CmdCopy \/ CmdMove
    \/ CmdRm \/ VfsDelete
Pid0 ==
    \/ \E c \in Commands : Start(c)
    \/ Finish
    \/ \E n \in Names : VfsOpen(n)
    \/ VfsClose
    \/ \E t \in Texts : VfsWrite(t)
Program ==
    \/ \E f \in Fds, n \in Names, trunc \in BOOLEAN : SysOpen(f, n, trunc)
    \/ \E f \in Fds : SysClose(f) \/ SysRead(f)
    \/ \E f \in Fds, t \in Texts : SysWrite(f, t)
    \/ \E f \in Fds, off \in 0 .. MaxSeek : SysLseek(f, off)
    \/ \E n \in Names : SysUnlink(n)
Next == Pid0 \/ Program

Spec == Init /\ [][Next]_vars

----------------------------------------------------------------------------
\* Properties

\* Types and ranges.
Entries == [name : Names \cup {NoName}, size : 0 .. Area,
            data : {None} \cup 0 .. Area, kind : Kinds \cup {"none"}]
TypeOK ==
    /\ entry \in [Slots -> Entries]
    /\ count \in 0 .. MaxFiles /\ next \in 0 .. Area
    /\ mem \in [Cells -> Nat]
    /\ fd \in [Fds -> {Closed} \cup [at : Slots, off : Nat]]
    /\ vfd \in {None} \cup Slots
    /\ pending \in [op : Ops \cup {"none"}, name : Names \cup {NoName},
                   to : Names \cup {NoName},
                   text : Texts \cup {<<>>}, at : {None} \cup Slots,
                   count : 0 .. MaxFiles]
    /\ habits \in Profiles

\* Two files never share a cell of the data area, and none reaches into the
\* part not handed out, as long as commands and system calls do not meet in
\* one file: the invariant behind every body staying what was written to it.
\* A file a program created owns its whole block, the others what they hold.
Region(i) ==
    LET length == IF habits = "own" /\ i # 0 THEN Block ELSE entry[i].size
    IN  IF entry[i].data = None THEN {}
        ELSE entry[i].data .. entry[i].data + length - 1
RegionsApart ==
    habits # "any" =>
        \A i \in Used : \A c \in Region(i) :
            c < next /\ \A j \in Used \ {i} : c \notin Region(j)

\* Allocation by bumping one pointer, shifting entries and passing slot
\* numbers around as file handles implement a store of named bodies, for
\* whoever keeps to the habits that Init allows (ramfs.fj, commands.fj,
\* dispatch.fj, vfs/main.fj).
FS == INSTANCE FileStore WITH
        files <- [k \in 1 .. count |->
                    [name |-> entry[k - 1].name, kind |-> entry[k - 1].kind,
                     body |-> Body(k - 1)]],
        open <- [f \in Fds |-> [at |-> fd[f].at + 1, off |-> fd[f].off]],
        served <- vfd + 1,
        Bytes <- Values
IsFileStore == FS!Spec
============================================================================
