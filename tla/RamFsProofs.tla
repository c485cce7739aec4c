---------------------------- MODULE RamFsProofs ----------------------------
(***************************************************************************)
(* Proofs about the RAM file system.  The first theorem is its typing,     *)
(* which is inductive together with two facts: every body lies inside the  *)
(* data area, and a command goes on only with what its first half accepted.*)
(* The second is that no two files share memory, which needs in addition   *)
(* that what a command has read is still so when it uses it: true as long  *)
(* as system calls and commands do not meet.                               *)
(* The third is that the file system then implements FileStore: from that  *)
(* invariant, and a step of the file system at a time, as the step of the  *)
(* store it stands for.                                                    *)
(***************************************************************************)
EXTENDS RamFs, SequenceTheorems, TLAPS

\* Every body lies inside the data area.
InArea ==
    \A i \in Slots :
        IF entry[i].data = None THEN entry[i].size = 0
        ELSE entry[i].data + entry[i].size <= Area

\* The command in progress was accepted.
Caught ==
    /\ pending.op \in Creations => pending.count < MaxFiles
    /\ pending.op = "write" /\ pending.at = None => pending.count < MaxFiles
    /\ pending.op \in Removals \cup {"append", "cp", "mv"} => pending.at # None
    /\ pending.op \in Removals => count > 0

TypeInv == TypeOK /\ InArea /\ Caught

----------------------------------------------------------------------------
\* The sizes are numbers.
LEMMA Sizes ==
    /\ Area \in Nat /\ Block \in Nat /\ Block > 0 /\ MaxFiles \in Nat
    /\ MaxFiles > 0 /\ MaxSeek \in Nat /\ Room \in 0 .. Area
BY RamFsAssumption

\* A text is a sequence of numbers that fits the area and a block.
LEMMA TextType ==
    ASSUME NEW t \in Texts \cup {<<>>}
    PROVE  t \in Seq(Nat) /\ Len(t) \in Nat /\ Len(t) <= Area /\ Len(t) <= Block
<1>1. CASE t \in Texts
  BY <1>1, RamFsAssumption
<1>2. CASE t = <<>>
  <2>1. t \in Seq(Nat) /\ Len(t) = 0
    BY <1>2
  <2> QED BY <2>1, Sizes
<1> QED BY <1>1, <1>2

\* Storing numbers keeps the memory one of numbers.
LEMMA StoredType ==
    ASSUME mem \in [Cells -> Nat], NEW a \in Int, NEW text \in Seq(Nat)
    PROVE  Stored(a, text) \in [Cells -> Nat]
<1> SUFFICES ASSUME NEW c \in Cells
             PROVE (IF c >= a /\ c < a + Len(text) THEN text[c - a + 1]
                    ELSE mem[c]) \in Nat
  BY DEF Stored
<1>1. CASE c >= a /\ c < a + Len(text)
  BY <1>1 DEF Cells
<1>2. CASE ~(c >= a /\ c < a + Len(text))
  BY <1>2
<1> QED BY <1>1, <1>2

\* A body is a sequence of numbers as long as its entry says.
LEMMA BodyType ==
    ASSUME TypeOK, InArea, NEW i \in Slots
    PROVE  Body(i) \in Seq(Nat) /\ Len(Body(i)) = entry[i].size
<1>1. entry[i] \in Entries /\ entry[i].size \in Nat
  BY Sizes DEF TypeOK, Entries
<1>2. ASSUME NEW k \in 1 .. entry[i].size
      PROVE  mem[entry[i].data + k - 1] \in Nat
  <2>1. entry[i].data # None
    BY <1>1, <1>2 DEF InArea
  <2>2. entry[i].data \in Nat /\ entry[i].data + entry[i].size <= Area
    BY <1>1, <2>1 DEF InArea, Entries, None
  <2> QED BY <1>1, <2>2, Sizes DEF Cells, TypeOK
<1> QED BY <1>1, <1>2 DEF Body

----------------------------------------------------------------------------
\* A file system that was just made is well typed.
LEMMA InitTyped == Init => TypeInv
<1> SUFFICES ASSUME Init PROVE TypeInv
  OBVIOUS
<1> PICK n \in Names, t \in Texts :
        /\ entry = [i \in Slots |->
              IF i = 0 THEN [name |-> n, size |-> Len(t), data |-> 0,
                             kind |-> "file"]
              ELSE NoEntry]
        /\ count = 1
        /\ next = Len(t)
        /\ mem = [a \in Cells |-> IF a < Len(t) THEN t[a + 1] ELSE 0]
        /\ fd = [f \in Fds |-> Closed]
        /\ vfd = None
        /\ pending = Idle
        /\ habits \in Profiles
  BY DEF Init
<1>1. mem \in [Cells -> Nat] /\ Len(t) \in 0 .. Area
  BY TextType DEF Cells
<1>2. entry \in [Slots -> Entries]
  BY <1>1, Sizes DEF Entries, NoEntry, None, Kinds
<1>3. TypeOK
  BY <1>1, <1>2, Sizes DEF TypeOK, Idle, Closed, None
<1> QED BY <1>1, <1>3, Sizes DEF TypeInv, InArea, Caught, Idle, NoEntry, None,
                             Removals, Creations

\* The operations of a command are told apart.
LEMMA OpTypes ==
    /\ "none" \notin Ops
    /\ \A c \in Commands : /\ c.op \in Ops /\ c.name \in Names
                          /\ c.to \in Names \cup {NoName}
                          /\ c.text \in Texts \cup {<<>>}
BY DEF Ops, Commands, Removals, Creations

\* Every step of the process the commands run in keeps the types.
LEMMA Pid0Typed == TypeInv /\ Pid0 => TypeInv'
<1> SUFFICES ASSUME TypeInv, Pid0 PROVE TypeInv'
  OBVIOUS
<1> USE Sizes DEF TypeInv
<1>1. ASSUME NEW c \in Commands, Start(c) PROVE TypeInv'
  <2>1. PICK i \in Used \cup {None} :
          /\ Accepted(c.op, i)
          /\ pending' = [op |-> c.op, name |-> c.name, to |-> c.to,
                         text |-> c.text, at |-> i, count |-> count]
    BY <1>1 DEF Start
  <2>2. UNCHANGED <<entry, count, next, mem, fd, vfd, habits>>
    BY <1>1 DEF Start
  <2>3. pending' \in [op : Ops \cup {"none"}, name : Names \cup {NoName},
                      to : Names \cup {NoName}, text : Texts \cup {<<>>},
                      at : {None} \cup Slots, count : 0 .. MaxFiles]
    BY <2>1, OpTypes DEF Used, Slots, TypeOK
  <2>4. TypeOK' /\ InArea'
    BY <2>2, <2>3 DEF TypeOK, InArea
  <2>5. i # None => count > 0
    BY DEF Used, TypeOK
  <2>6. Caught'
    BY <2>1, <2>2, <2>5 DEF Caught, Accepted
  <2> QED BY <2>4, <2>6
<1>2. ASSUME NEW op \in {"create", "mkdir"}, NEW k \in Kinds, Create(op, k)
      PROVE  TypeInv'
  <2>1. pending.count \in Slots /\ pending.count + 1 \in 0 .. MaxFiles
    BY <1>2 DEF Create, Doing, Caught, Creations, TypeOK, Slots
  <2>2. [name |-> pending.name, size |-> 0, data |-> None, kind |-> k]
            \in Entries
    BY DEF TypeOK, Entries
  <2>3. entry' \in [Slots -> Entries]
    BY <1>2, <2>1, <2>2 DEF Create, TypeOK
  <2>4. TypeOK'
    BY <1>2, <2>1, <2>3 DEF Create, Doing, Keep, TypeOK, Idle
  <2>5. InArea'
    BY <1>2, <2>1 DEF Create, InArea, TypeOK
  <2>6. Caught'
    BY <1>2 DEF Create, Doing, Idle, Caught, Removals, Creations
  <2> QED BY <2>4, <2>5, <2>6
<1>3. ASSUME CmdWrite PROVE TypeInv'
  <2> DEFINE i == IF pending.at = None THEN pending.count ELSE pending.at
             k == IF pending.at = None THEN "file" ELSE entry[i].kind
             t == pending.text
  <2>1. i \in Slots /\ (pending.at = None => pending.count + 1 <= MaxFiles)
    BY <1>3 DEF CmdWrite, Doing, Caught, TypeOK, Slots
  <2>2. k \in Kinds \cup {"none"}
    BY <2>1 DEF TypeOK, Entries, Kinds
  <2>3. t \in Seq(Nat) /\ Len(t) \in Nat /\ next + Len(t) <= Area
    BY <1>3, TextType DEF CmdWrite, Fits, TypeOK
  <2>4. [name |-> pending.name, size |-> Len(t), data |-> next, kind |-> k]
            \in Entries
    BY <2>2, <2>3 DEF TypeOK, Entries
  <2>5. entry' = [entry EXCEPT ![i] = [name |-> pending.name,
                    size |-> Len(t), data |-> next, kind |-> k]]
    BY <1>3 DEF CmdWrite
  <2> HIDE DEF i, k
  <2>6. entry' \in [Slots -> Entries]
    BY <2>1, <2>4, <2>5 DEF TypeOK
  <2>7. mem' \in [Cells -> Nat]
    BY <1>3, <2>3, StoredType DEF CmdWrite, TypeOK
  <2>8. TypeOK'
    BY <1>3, <2>1, <2>3, <2>6, <2>7 DEF CmdWrite, Doing, Keep, TypeOK, Idle
  <2>9. InArea'
    BY <2>1, <2>3, <2>5 DEF InArea, TypeOK, None
  <2>10. Caught'
    BY <1>3 DEF CmdWrite, Doing, Idle, Caught, Removals, Creations
  <2> QED BY <2>8, <2>9, <2>10
<1>4. ASSUME CmdAppend PROVE TypeInv'
  <2> DEFINE i == pending.at
             body == Body(i) \o pending.text
  <2>1. i \in Slots
    BY <1>4 DEF CmdAppend, Doing, Caught, TypeOK
  <2>2. body \in Seq(Nat) /\ Len(body) \in Nat
    BY <2>1, BodyType, TextType DEF TypeOK
  <2>3. /\ entry' = [entry EXCEPT ![i].size = Len(body), ![i].data = next]
        /\ mem' = Stored(next, body) /\ next' = next + Len(body)
        /\ next + Len(body) <= Area
        /\ pending' = Idle /\ UNCHANGED <<fd, vfd, habits, count>>
    BY <1>4 DEF CmdAppend, Keep, Doing, Fits
  <2> HIDE DEF body, i
  <2>4. entry' \in [Slots -> Entries]
    <3>1. Len(body) \in 0 .. Area /\ next \in 0 .. Area /\ entry[i] \in Entries
      BY <2>1, <2>2, <2>3 DEF TypeOK
    <3>2. [entry[i] EXCEPT !.size = Len(body), !.data = next] \in Entries
      BY <3>1 DEF Entries
    <3>3. entry' = [entry EXCEPT ![i] =
                      [entry[i] EXCEPT !.size = Len(body), !.data = next]]
      BY <2>1, <2>3 DEF TypeOK
    <3> QED BY <2>1, <3>2, <3>3 DEF TypeOK
  <2>5. mem' \in [Cells -> Nat]
    BY <2>2, <2>3, StoredType DEF TypeOK
  <2>6. TypeOK'
    BY <2>2, <2>3, <2>4, <2>5 DEF TypeOK, Idle
  <2>7. InArea'
    BY <2>1, <2>2, <2>3 DEF InArea, TypeOK, None
  <2>8. Caught'
    BY <2>3 DEF Idle, Caught, Removals, Creations
  <2> QED BY <2>6, <2>7, <2>8
<1>5. ASSUME CmdCopy PROVE TypeInv'
  <2> DEFINE s == pending.count
             body == Body(pending.at)
  <2>1. pending.at \in Slots /\ s \in Slots /\ s + 1 \in 0 .. MaxFiles
    BY <1>5 DEF CmdCopy, Doing, Caught, TypeOK, Slots, Creations
  <2>2. body \in Seq(Nat) /\ Len(body) \in Nat
    BY <2>1, BodyType, TextType DEF TypeOK
  <2>3. /\ entry' = [entry EXCEPT ![s] = [name |-> pending.to,
                       size |-> Len(body), data |-> next, kind |-> "file"]]
        /\ mem' = Stored(next, body) /\ next' = next + Len(body)
        /\ next + Len(body) <= Area /\ count' = s + 1
        /\ pending' = Idle /\ UNCHANGED <<fd, vfd, habits>>
    BY <1>5 DEF CmdCopy, Keep, Doing, Fits
  <2> HIDE DEF body, s
  <2>4. entry' \in [Slots -> Entries]
    BY <2>1, <2>2, <2>3 DEF TypeOK, Entries, Kinds
  <2>5. mem' \in [Cells -> Nat]
    BY <2>2, <2>3, StoredType DEF TypeOK
  <2>6. TypeOK'
    BY <2>1, <2>2, <2>3, <2>4, <2>5 DEF TypeOK, Idle
  <2>7. InArea'
    BY <2>1, <2>2, <2>3 DEF InArea, TypeOK, None
  <2>8. Caught'
    BY <2>3 DEF Idle, Caught, Removals, Creations
  <2> QED BY <2>6, <2>7, <2>8
<1>6. ASSUME CmdMove PROVE TypeInv'
  <2>1. pending.at \in Slots
    BY <1>6 DEF CmdMove, Doing, Caught, TypeOK
  <2>2. entry' \in [Slots -> Entries]
    <3>1. entry[pending.at] \in Entries /\ pending.to \in Names \cup {NoName}
      BY <2>1 DEF TypeOK
    <3>2. [entry[pending.at] EXCEPT !.name = pending.to] \in Entries
      BY <3>1 DEF Entries
    <3>3. entry' = [entry EXCEPT ![pending.at] =
                      [entry[pending.at] EXCEPT !.name = pending.to]]
      BY <1>6, <2>1 DEF CmdMove, TypeOK
    <3> QED BY <2>1, <3>2, <3>3 DEF TypeOK
  <2>5. TypeOK'
    BY <1>6, <2>2 DEF CmdMove, Doing, Keep, TypeOK, Idle
  <2>3. InArea'
    BY <1>6, <2>1 DEF CmdMove, InArea, TypeOK
  <2>4. Caught'
    BY <1>6 DEF CmdMove, Doing, Idle, Caught, Removals, Creations
  <2> QED BY <2>3, <2>4, <2>5
<1>7. ASSUME NEW op \in Removals, NEW last, Remove(op, last),
             last = NoEntry \/ last = entry[count - 1]
      PROVE  TypeInv'
  <2>1. count - 1 \in Slots
    BY <1>7 DEF Remove, Doing, Caught, TypeOK, Slots
  <2>2. last \in Entries /\ IF last.data = None THEN last.size = 0
                            ELSE last.data + last.size <= Area
    BY <1>7, <2>1 DEF NoEntry, Entries, TypeOK, InArea
  <2>3. ASSUME NEW i \in Slots
        PROVE  /\ Shifted(pending.at, last)[i] \in Entries
               /\ IF Shifted(pending.at, last)[i].data = None
                  THEN Shifted(pending.at, last)[i].size = 0
                  ELSE Shifted(pending.at, last)[i].data
                         + Shifted(pending.at, last)[i].size <= Area
    <3>1. CASE i >= pending.at /\ i < count - 1
      <4>1. i + 1 \in Slots
        BY <2>1, <3>1 DEF Slots
      <4> QED BY <3>1, <4>1 DEF Shifted, TypeOK, InArea
    <3>2. CASE ~(i >= pending.at /\ i < count - 1) /\ i = count - 1
      BY <2>2, <3>2 DEF Shifted
    <3>3. CASE ~(i >= pending.at /\ i < count - 1) /\ i # count - 1
      BY <3>3 DEF Shifted, TypeOK, InArea
    <3> QED BY <3>1, <3>2, <3>3
  <2>4. entry' = Shifted(pending.at, last) /\ count' = count - 1
    BY <1>7 DEF Remove
  <2>5. entry' \in [Slots -> Entries]
    <3>1. DOMAIN Shifted(pending.at, last) = Slots
          /\ Shifted(pending.at, last)
               = [i \in Slots |-> Shifted(pending.at, last)[i]]
      BY DEF Shifted
    <3> QED BY <2>3, <2>4, <3>1
  <2>6. TypeOK'
    BY <1>7, <2>1, <2>4, <2>5 DEF Remove, Doing, Keep, TypeOK, Idle, Slots
  <2>7. InArea'
    BY <2>3, <2>4 DEF InArea
  <2>8. Caught'
    BY <1>7 DEF Remove, Doing, Idle, Caught, Removals, Creations
  <2> QED BY <2>6, <2>7, <2>8
<1>8. ASSUME NEW n \in Names, VfsOpen(n) PROVE TypeInv'
  <2>1. UNCHANGED <<entry, count, next, mem, fd, pending, habits>>
        /\ vfd' \in Slots
    BY <1>8 DEF VfsOpen, Used, Slots, TypeOK
  <2> QED BY <2>1 DEF TypeOK, InArea, Caught
<1>9. ASSUME VfsClose PROVE TypeInv'
  BY <1>9 DEF VfsClose, TypeOK, InArea, Caught
<1>10. ASSUME NEW t \in Texts, VfsWrite(t) PROVE TypeInv'
  <2>1. /\ vfd \in Slots /\ next + Len(t) <= Area /\ Len(t) \in Nat
        /\ t \in Seq(Nat)
    BY <1>10, TextType DEF VfsWrite, Fits, TypeOK
  <2>2. /\ entry' = [entry EXCEPT ![vfd].size = Len(t), ![vfd].data = next,
                                  ![vfd].kind = "file"]
        /\ mem' = Stored(next, t) /\ next' = next + Len(t)
        /\ UNCHANGED <<count, fd, vfd, pending, habits>>
    BY <1>10 DEF VfsWrite
  <2>3. entry' \in [Slots -> Entries]
    <3> DEFINE e == [entry[vfd] EXCEPT !.size = Len(t), !.data = next,
                                       !.kind = "file"]
    <3>1. Len(t) \in 0 .. Area /\ next \in 0 .. Area /\ entry[vfd] \in Entries
      BY <2>1 DEF TypeOK
    <3>2. e \in Entries
      BY <3>1 DEF Entries, Kinds
    <3>3. entry' = [entry EXCEPT ![vfd] = e]
      BY <2>1, <2>2 DEF TypeOK
    <3> QED BY <2>1, <3>2, <3>3 DEF TypeOK
  <2>4. mem' \in [Cells -> Nat]
    BY <2>1, <2>2, StoredType DEF TypeOK
  <2>5. TypeOK'
    BY <2>1, <2>2, <2>3, <2>4 DEF TypeOK
  <2>6. InArea'
    BY <2>1, <2>2 DEF InArea, TypeOK, None
  <2> QED BY <2>2, <2>5, <2>6 DEF Caught
<1>11. CASE Finish
  BY <1>2, <1>3, <1>4, <1>5, <1>6, <1>7, <1>11
     DEF Finish, CmdRm, VfsDelete, Kinds, Removals
<1> QED BY <1>1, <1>8, <1>9, <1>10, <1>11 DEF Pid0

----------------------------------------------------------------------------
\* Every system call keeps the types.
LEMMA ProgramTyped == TypeInv /\ Program => TypeInv'
<1> SUFFICES ASSUME TypeInv, Program PROVE TypeInv'
  OBVIOUS
<1> USE Sizes DEF TypeInv
<1>1. ASSUME NEW f \in Fds, NEW n \in Names, NEW trunc \in BOOLEAN,
             SysOpen(f, n, trunc)
      PROVE  TypeInv'
  <2>1. PICK i \in Used \cup {None} :
          \/ /\ i # None /\ entry[i].kind = "file"
             /\ entry' = [entry EXCEPT ![i].size = IF trunc THEN 0 ELSE @]
             /\ fd' = [fd EXCEPT ![f] = [at |-> i, off |-> 0]]
             /\ UNCHANGED count
          \/ /\ i = None /\ count < MaxFiles
             /\ entry' = [entry EXCEPT ![count] =
                   [name |-> n, size |-> 0, data |-> None, kind |-> "file"]]
             /\ fd' = [fd EXCEPT ![f] = [at |-> count, off |-> 0]]
             /\ count' = count + 1
          \/ UNCHANGED <<entry, fd, count>>
    BY <1>1 DEF SysOpen
  <2>2. UNCHANGED <<next, mem, vfd, pending, habits>>
    BY <1>1 DEF SysOpen, SysKeep
  <2>3. CASE /\ i # None
             /\ entry' = [entry EXCEPT ![i].size = IF trunc THEN 0 ELSE @]
             /\ fd' = [fd EXCEPT ![f] = [at |-> i, off |-> 0]]
             /\ UNCHANGED count
    <3> DEFINE e == [entry[i] EXCEPT !.size = IF trunc THEN 0 ELSE @]
    <3>1. i \in Slots
      BY <2>3 DEF Used, Slots, TypeOK
    <3>2. entry[i] \in Entries /\ entry[i].size \in 0 .. Area
      BY <3>1 DEF TypeOK, Entries
    <3>3. /\ e \in Entries /\ e.data = entry[i].data
          /\ e.size = 0 \/ e.size = entry[i].size
      BY <3>2 DEF Entries
    <3>4. entry' = [entry EXCEPT ![i] = e]
      BY <2>3, <3>1 DEF TypeOK
    <3> HIDE DEF e
    <3>7. fd' \in [Fds -> {Closed} \cup [at : Slots, off : Nat]]
      BY <2>3, <3>1 DEF TypeOK
    <3>8. entry' \in [Slots -> Entries]
      BY <3>1, <3>3, <3>4 DEF TypeOK
    <3>5. TypeOK'
      BY <2>2, <2>3, <3>7, <3>8 DEF TypeOK
    <3>6. InArea'
      BY <3>1, <3>2, <3>3, <3>4 DEF InArea, TypeOK, None, Entries
    <3> QED BY <2>2, <2>3, <3>5, <3>6 DEF Caught
  <2>4. CASE /\ count < MaxFiles
             /\ entry' = [entry EXCEPT ![count] =
                   [name |-> n, size |-> 0, data |-> None, kind |-> "file"]]
             /\ fd' = [fd EXCEPT ![f] = [at |-> count, off |-> 0]]
             /\ count' = count + 1
    <3>1. count \in Slots /\ count + 1 \in 0 .. MaxFiles
      BY <2>4 DEF Slots, TypeOK
    <3>2. [name |-> n, size |-> 0, data |-> None, kind |-> "file"] \in Entries
      BY DEF Entries, Kinds
    <3>3. TypeOK'
      BY <2>2, <2>4, <3>1, <3>2 DEF TypeOK
    <3>4. InArea'
      BY <2>4, <3>1 DEF InArea, TypeOK
    <3> QED BY <2>2, <2>4, <3>1, <3>3, <3>4 DEF Caught, TypeOK
  <2>5. CASE UNCHANGED <<entry, fd, count>>
    BY <2>2, <2>5 DEF TypeOK, InArea, Caught
  <2> QED BY <2>1, <2>3, <2>4, <2>5
<1>2. ASSUME NEW f \in Fds, SysClose(f) PROVE TypeInv'
  BY <1>2 DEF SysClose, SysKeep, TypeOK, InArea, Caught, Closed
<1>3. ASSUME NEW f \in Fds, SysRead(f) PROVE TypeInv'
  <2>1. PICK off \in fd[f].off + 1 .. entry[fd[f].at].size :
            fd' = [fd EXCEPT ![f].off = off]
    BY <1>3 DEF SysRead
  <2>2. fd[f] \in [at : Slots, off : Nat] /\ fd[f].off \in Nat
    BY <1>3 DEF SysRead, TypeOK
  <2>3. off \in Nat
    BY <2>1, <2>2
  <2>4. [fd[f] EXCEPT !.off = off] \in [at : Slots, off : Nat]
    BY <2>2, <2>3
  <2>5. fd' \in [Fds -> {Closed} \cup [at : Slots, off : Nat]]
    BY <2>1, <2>4 DEF TypeOK
  <2> QED BY <1>3, <2>5 DEF SysRead, SysKeep, TypeOK, InArea, Caught
<1>4. ASSUME NEW f \in Fds, NEW off \in 0 .. MaxSeek, SysLseek(f, off)
      PROVE  TypeInv'
  <2>1. [fd[f] EXCEPT !.off = off] \in [at : Slots, off : Nat]
    BY <1>4 DEF SysLseek, TypeOK
  <2>2. fd' \in [Fds -> {Closed} \cup [at : Slots, off : Nat]]
    BY <1>4, <2>1 DEF TypeOK, SysLseek
  <2> QED BY <1>4, <2>2 DEF SysLseek, SysKeep, TypeOK, InArea, Caught
<1>5. ASSUME NEW n \in Names, SysUnlink(n) PROVE TypeInv'
  <2>1. PICK i \in Used :
          entry' = [entry EXCEPT ![i] = [NoEntry EXCEPT !.data = entry[i].data]]
    BY <1>5 DEF SysUnlink
  <2>2. UNCHANGED <<count, next, mem, fd, vfd, pending, habits>>
    BY <1>5 DEF SysUnlink, SysKeep
  <2> DEFINE e == [NoEntry EXCEPT !.data = entry[i].data]
  <2>3. i \in Slots
    BY DEF Used, Slots, TypeOK
  <2>4. entry[i] \in Entries /\ entry[i].size \in 0 .. Area
    BY <2>3 DEF TypeOK, Entries
  <2>5. e \in Entries /\ e.data = entry[i].data /\ e.size = 0
    <3>1. e = [name |-> NoName, size |-> 0, data |-> entry[i].data,
               kind |-> "none"]
      BY DEF NoEntry
    <3>2. entry[i].data \in {None} \cup 0 .. Area
      BY <2>4 DEF Entries
    <3> HIDE DEF e
    <3> QED BY <3>1, <3>2 DEF Entries
  <2>6. entry' = [entry EXCEPT ![i] = e]
    BY <2>1, <2>3 DEF TypeOK
  <2> HIDE DEF e
  <2>7. TypeOK'
    BY <2>2, <2>3, <2>5, <2>6 DEF TypeOK
  <2>8. InArea'
    BY <2>3, <2>4, <2>5, <2>6 DEF InArea, TypeOK, None, Entries
  <2> QED BY <2>2, <2>7, <2>8 DEF Caught
<1>6. ASSUME NEW f \in Fds, NEW t \in Texts, SysWrite(f, t) PROVE TypeInv'
  <2> DEFINE i == fd[f].at
             new == entry[i].data = None
             a == IF new THEN next ELSE entry[i].data
             end == fd[f].off + Len(t)
  <2>1. /\ new => next + Block <= Area
        /\ next' = IF new THEN next + Block ELSE next
        /\ UNCHANGED <<vfd, pending, habits, count>>
    BY <1>6 DEF SysWrite, SysKeep, Fits
  <2>2. \/ /\ entry' = [entry EXCEPT ![i].data = a]
           /\ UNCHANGED <<mem, fd>>
        \/ /\ end <= Block /\ a + end <= Area
           /\ entry' = [entry EXCEPT ![i].data = a,
                           ![i].size = IF end > @ THEN end ELSE @]
           /\ mem' = Stored(a + fd[f].off, t)
           /\ fd' = [fd EXCEPT ![f].off = end]
    BY <1>6 DEF SysWrite
  <2>3. /\ i \in Slots /\ entry[i] \in Entries /\ entry[i].size \in 0 .. Area
        /\ entry[i].data \in {None} \cup 0 .. Area
        /\ next \in 0 .. Area /\ fd[f].off \in Nat
        /\ t \in Seq(Nat) /\ Len(t) \in Nat
        /\ fd[f] \in [at : Slots, off : Nat]
    <3>1. fd[f] \in [at : Slots, off : Nat]
      BY <1>6 DEF SysWrite, TypeOK
    <3>2. t \in Seq(Nat) /\ Len(t) \in Nat
      BY TextType
    <3>3. entry[i] \in Entries /\ next \in 0 .. Area
      BY <3>1 DEF TypeOK
    <3> QED BY <3>1, <3>2, <3>3 DEF Entries
  <2>4. a \in 0 .. Area /\ end \in Nat /\ a # None
    BY <2>3 DEF None
  <2>5. next' \in 0 .. Area
    BY <2>1, <2>3
  <2>6. /\ new => entry[i].size = 0
        /\ ~new => a = entry[i].data /\ a + entry[i].size <= Area
    BY <2>3 DEF InArea
  <2>7. a + entry[i].size <= Area
    BY <2>3, <2>4, <2>6
  <2> DEFINE e1 == [entry[i] EXCEPT !.data = a]
             e2 == [entry[i] EXCEPT !.data = a,
                       !.size = IF end > @ THEN end ELSE @]
  <2>8. /\ e1 \in Entries /\ e1.data = a /\ e1.size = entry[i].size
    BY <2>3, <2>4 DEF Entries
  <2>9. ASSUME end <= Block, a + end <= Area
        PROVE  e2 \in Entries /\ e2.data = a /\ a + e2.size <= Area
    <3>1. end \in 0 .. Area
      BY <2>4, <2>9
    <3> QED BY <2>3, <2>4, <2>7, <2>9, <3>1 DEF Entries
  <2>10. CASE /\ entry' = [entry EXCEPT ![i].data = a]
              /\ UNCHANGED <<mem, fd>>
    <3>1. entry' = [entry EXCEPT ![i] = e1]
      BY <2>3, <2>10 DEF TypeOK
    <3> HIDE DEF e1
    <3>4. entry' \in [Slots -> Entries]
      BY <2>3, <2>8, <3>1 DEF TypeOK
    <3>2. TypeOK'
      BY <2>1, <2>5, <2>10, <3>4 DEF TypeOK
    <3>3. InArea'
      BY <2>3, <2>4, <2>7, <2>8, <3>1 DEF InArea, TypeOK
    <3> QED BY <2>1, <3>2, <3>3 DEF Caught
  <2>11. CASE /\ end <= Block /\ a + end <= Area
              /\ entry' = [entry EXCEPT ![i].data = a,
                              ![i].size = IF end > @ THEN end ELSE @]
              /\ mem' = Stored(a + fd[f].off, t)
              /\ fd' = [fd EXCEPT ![f].off = end]
    <3>1. entry' = [entry EXCEPT ![i] = e2]
      BY <2>3, <2>11 DEF TypeOK
    <3>2. e2 \in Entries /\ e2.data = a /\ a + e2.size <= Area
      BY <2>9, <2>11
    <3>3. mem' \in [Cells -> Nat]
      <4>1. a + fd[f].off \in Int
        BY <2>3, <2>4
      <4> QED BY <2>3, <2>11, <4>1, StoredType DEF TypeOK
    <3>4. fd' \in [Fds -> {Closed} \cup [at : Slots, off : Nat]]
      <4>1. [fd[f] EXCEPT !.off = end] \in [at : Slots, off : Nat]
        BY <2>3, <2>4
      <4> QED BY <2>11, <4>1 DEF TypeOK
    <3> HIDE DEF a, e2, new, i, end
    <3>5. TypeOK'
      BY <2>1, <2>3, <2>5, <3>1, <3>2, <3>3, <3>4 DEF TypeOK
    <3>6. InArea'
      BY <2>3, <2>4, <3>1, <3>2 DEF InArea, TypeOK
    <3> QED BY <2>1, <3>5, <3>6 DEF Caught
  <2> QED BY <2>2, <2>10, <2>11
<1> QED BY <1>1, <1>2, <1>3, <1>4, <1>5, <1>6 DEF Program
\* So every step keeps the types.
LEMMA NextTyped == TypeInv /\ [Next]_vars => TypeInv'
<1> SUFFICES ASSUME TypeInv, [Next]_vars PROVE TypeInv'
  OBVIOUS
<1>1. CASE Next
  BY <1>1, Pid0Typed, ProgramTyped DEF Next
<1>2. CASE UNCHANGED vars
  BY <1>2 DEF vars, TypeInv, TypeOK, InArea, Caught
<1> QED BY <1>1, <1>2

\* The table, the descriptors, the counters and the memory keep their types,
\* and the data pointer stays in the data area, whoever uses the file system
\* (ramfs.fj, and its users in commands.fj, dispatch.fj and vfs/main.fj).
THEOREM RamFsTyping == Spec => []TypeOK
<1>1. Spec => []TypeInv
  BY InitTyped, NextTyped, PTL DEF Spec
<1>2. TypeInv => TypeOK
  BY DEF TypeInv
<1> QED BY <1>1, <1>2, PTL

----------------------------------------------------------------------------
\* What a command has read is still so, as long as no call can come between;
\* and a program that is alone has its descriptors on entries of the table.
Alone ==
    /\ habits = "commands" /\ pending.op # "none" =>
          pending.count = count /\ pending.at \in Used \cup {None}
    /\ habits = "own" => pending.op = "none"
    /\ habits = "own" =>
          \A f \in Fds : fd[f] = Closed \/ fd[f].at \in Used

IInv == TypeInv /\ RegionsApart /\ Alone

\* Regions hold addresses of cells.
LEMMA RegionType ==
    ASSUME TypeOK, NEW i \in Slots
    PROVE  Region(i) \subseteq Int
<1>1. entry[i].data \in Int /\ entry[i].size \in Int
  BY Sizes DEF TypeOK, Entries, None
<1> QED BY <1>1, Sizes DEF Region

\* The slots in use are slots.
LEMMA UsedSlots == TypeOK => Used \subseteq Slots /\ Used \subseteq Int
BY Sizes DEF TypeOK, Used, Slots

\* Entries that are moved, dropped or made smaller leave regions apart.
LEMMA Kept ==
    ASSUME TypeOK, RegionsApart, habits' = habits, next' \in Int, next <= next',
           NEW S,
           \A i \in Used' : S[i] \in Used /\ Region(i)' \subseteq Region(S[i]),
           \A i, j \in Used' : i # j => S[i] # S[j]
    PROVE  RegionsApart'
<1> SUFFICES ASSUME habits # "any", NEW i \in Used', NEW c \in Region(i)'
             PROVE  c < next' /\ \A j \in Used' \ {i} : c \notin Region(j)'
  BY DEF RegionsApart
<1>1. S[i] \in Used /\ c \in Region(S[i])
  OBVIOUS
<1>2. c < next /\ \A j \in Used \ {S[i]} : c \notin Region(j)
  BY <1>1 DEF RegionsApart
<1>3. c \in Int /\ next \in Int
  BY <1>1, UsedSlots, RegionType DEF TypeOK
<1>4. c < next'
  BY <1>2, <1>3
<1>5. ASSUME NEW j \in Used' \ {i} PROVE c \notin Region(j)'
  <2>1. S[j] \in Used \ {S[i]}
    OBVIOUS
  <2> QED BY <1>2, <2>1
<1> QED BY <1>4, <1>5

\* So does an entry that is given fresh memory.
LEMMA Grown ==
    ASSUME TypeOK, RegionsApart, habits' = habits, next' \in Int, next <= next',
           NEW s,
           \A i \in Used' \ {s} : i \in Used /\ Region(i)' \subseteq Region(i),
           \A c \in Region(s)' : next <= c /\ c < next'
    PROVE  RegionsApart'
<1> SUFFICES ASSUME habits # "any", NEW i \in Used', NEW c \in Region(i)'
             PROVE  c < next' /\ \A j \in Used' \ {i} : c \notin Region(j)'
  BY DEF RegionsApart
<1>1. \A k \in Used' \ {s} : \A d \in Region(k)' :
          d \in Int /\ d < next /\ \A j \in Used \ {k} : d \notin Region(j)
  BY UsedSlots, RegionType DEF RegionsApart
<1>2. next \in Int
  BY DEF TypeOK
<1>3. CASE i # s
  <2>1. c \in Int /\ c < next /\ \A j \in Used \ {i} : c \notin Region(j)
    BY <1>1, <1>3
  <2>2. ASSUME NEW j \in Used' \ {i} PROVE c \notin Region(j)'
    <3>1. CASE j = s
      BY <1>2, <2>1, <3>1
    <3>2. CASE j # s
      BY <2>1, <3>2
    <3> QED BY <3>1, <3>2
  <2> QED BY <1>2, <2>1, <2>2
<1>4. CASE i = s
  <2>1. next <= c /\ c < next'
    BY <1>4
  <2>2. ASSUME NEW j \in Used' \ {i} PROVE c \notin Region(j)'
    BY <1>1, <1>2, <1>4, <2>1
  <2> QED BY <2>1, <2>2
<1> QED BY <1>3, <1>4

\* A region depends on its entry and on the habits only.
LEMMA SameRegion ==
    ASSUME habits' = habits, NEW i, entry'[i] = entry[i]
    PROVE  Region(i)' = Region(i)
BY DEF Region

\* If nothing but the rest changes, regions stay apart.
LEMMA Untouched ==
    ASSUME TypeOK, RegionsApart, UNCHANGED <<entry, count, next, habits>>
    PROVE  RegionsApart'
BY DEF RegionsApart, Region, Used

\* Commands and the service keep regions apart while they are alone.
LEMMA Pid0Apart == IInv /\ Pid0 => RegionsApart'
<1> SUFFICES ASSUME IInv, Pid0 PROVE RegionsApart'
  OBVIOUS
<1> USE Sizes DEF IInv, TypeInv
<1>1. habits' = habits /\ habits # "own"
  <2>1. CASE Finish
    BY <2>1 DEF Finish, Create, CmdWrite, CmdAppend, CmdCopy, CmdMove, CmdRm,
                VfsDelete, Remove, Doing, Keep, Alone
  <2>2. CASE ~Finish
    BY <2>2 DEF Pid0, Start, VfsOpen, VfsClose, VfsWrite, Shell
  <2> QED BY <2>1, <2>2
<1>2. SUFFICES ASSUME habits = "commands" PROVE RegionsApart'
  BY <1>1, RamFsAssumption DEF RegionsApart, TypeOK
<1>3. TypeInv'
  BY Pid0Typed
<1>4. /\ count \in Nat /\ count <= MaxFiles /\ next \in Int /\ next' \in Int
      /\ count' \in Nat
  BY <1>3 DEF TypeOK
<1>5. \A i : /\ entry[i].data = None => Region(i) = {}
             /\ entry[i].data # None =>
                  Region(i) = entry[i].data .. entry[i].data + entry[i].size - 1
  BY <1>2 DEF Region
<1>6. \A i : /\ entry'[i].data = None => Region(i)' = {}
             /\ entry'[i].data # None =>
                  Region(i)' = entry'[i].data
                                 .. entry'[i].data + entry'[i].size - 1
  BY <1>1, <1>2 DEF Region
<1>7. \A i : entry'[i] = entry[i] => Region(i)' = Region(i)
  BY <1>1, SameRegion
<1>8. ASSUME pending.op # "none"
      PROVE  pending.count = count /\ pending.at \in Used \cup {None}
  BY <1>2, <1>8 DEF Alone
<1>9. ASSUME NEW s \in Slots, NEW new, NEW size \in Nat,
             entry' = [entry EXCEPT ![s] = new],
             new.size = size, new.data = None \/ new.data = next,
             new.data = None => size = 0, next' = next + size,
             Used' \subseteq Used \cup {s}
      PROVE  RegionsApart'
  <2>1. /\ entry'[s] = new
        /\ \A i \in Used' \ {s} : i \in Used /\ entry'[i] = entry[i]
    BY <1>9, UsedSlots DEF TypeOK
  <2>2. \A i \in Used' \ {s} : i \in Used /\ Region(i)' \subseteq Region(i)
    BY <1>7, <2>1
  <2>3. \A c \in Region(s)' : next <= c /\ c < next'
    <3>1. CASE new.data = None
      BY <1>6, <2>1, <3>1
    <3>2. CASE new.data # None
      BY <1>4, <1>6, <1>9, <2>1, <3>2
    <3> QED BY <3>1, <3>2
  <2>4. next <= next'
    BY <1>4, <1>9
  <2> HIDE DEF IInv, TypeInv
  <2>5. TypeOK /\ RegionsApart
    BY DEF IInv, TypeInv
  <2> QED BY <1>1, <1>4, <2>2, <2>3, <2>4, <2>5, Grown
<1>10. ASSUME NEW c \in Commands, Start(c) PROVE RegionsApart'
  BY <1>10, Untouched DEF Start
<1>11. ASSUME NEW op \in {"create", "mkdir"}, NEW k \in Kinds, Create(op, k)
       PROVE  RegionsApart'
  <2>1. pending.count = count /\ count \in Slots
    BY <1>4, <1>8, <1>11 DEF Create, Doing, Caught, Creations, Slots
  <2> DEFINE new == [name |-> pending.name, size |-> 0, data |-> None,
                     kind |-> k]
             size == 0
  <2>2. /\ entry' = [entry EXCEPT ![count] = new] /\ count' = count + 1
        /\ next' = next
    BY <1>11, <2>1 DEF Create
  <2>3. /\ size \in Nat /\ size = 0 /\ new.size = size /\ new.data = None
        /\ next' = next + size
    BY <1>4, <2>2
  <2>4. Used' \subseteq Used \cup {count}
    BY <1>4, <2>2 DEF Used
  <2> HIDE DEF new, size
  <2> QED BY <1>9, <2>1, <2>2, <2>3, <2>4
<1>12. ASSUME CmdWrite PROVE RegionsApart'
  <2> DEFINE i == IF pending.at = None THEN pending.count ELSE pending.at
             k == IF pending.at = None THEN "file" ELSE entry[i].kind
             new == [name |-> pending.name, size |-> Len(pending.text),
                     data |-> next, kind |-> k]
  <2>1. /\ pending.count = count /\ pending.at \in Used \cup {None}
        /\ pending.at = None => count < MaxFiles
    BY <1>8, <1>12 DEF CmdWrite, Doing, Caught
  <2>2. /\ entry' = [entry EXCEPT ![i] = new]
        /\ count' = IF pending.at = None THEN pending.count + 1 ELSE count
        /\ next' = next + Len(pending.text)
    BY <1>12 DEF CmdWrite
  <2>3. i \in Slots
    BY <1>4, <2>1, UsedSlots DEF Slots
  <2>4. Used' \subseteq Used \cup {i}
    BY <1>4, <2>1, <2>2 DEF Used
  <2>5. Len(pending.text) \in Nat
    BY TextType DEF TypeOK
  <2>6. new.size = Len(pending.text) /\ new.data = next /\ next # None
    BY <1>4 DEF TypeOK, None
  <2> HIDE DEF new, i
  <2> QED BY <1>9, <2>2, <2>3, <2>4, <2>5, <2>6
<1>13. ASSUME CmdAppend PROVE RegionsApart'
  <2> DEFINE body == Body(pending.at) \o pending.text
             new == [entry[pending.at] EXCEPT !.size = Len(body),
                                              !.data = next]
  <2>1. pending.at \in Slots
    BY <1>13 DEF CmdAppend, Doing, Caught, TypeOK
  <2>2. Len(body) \in Nat
    BY <2>1, BodyType, TextType DEF TypeOK
  <2>3. /\ entry' = [entry EXCEPT ![pending.at] = new] /\ count' = count
        /\ next' = next + Len(body)
    BY <1>13, <2>1 DEF CmdAppend, TypeOK
  <2>4. entry[pending.at] \in Entries
    BY <2>1 DEF TypeOK
  <2> HIDE DEF body
  <2>5. new.size = Len(body) /\ new.data = next /\ next # None
    BY <1>4, <2>4 DEF TypeOK, None, Entries
  <2>6. Used' \subseteq Used \cup {pending.at}
    BY <2>3 DEF Used
  <2> HIDE DEF new
  <2> QED BY <1>9, <2>1, <2>2, <2>3, <2>5, <2>6
<1>14. ASSUME CmdCopy PROVE RegionsApart'
  <2> DEFINE body == Body(pending.at)
             new == [name |-> pending.to, size |-> Len(body), data |-> next,
                     kind |-> "file"]
  <2>1. pending.at \in Slots /\ pending.count = count /\ count \in Slots
    BY <1>4, <1>8, <1>14 DEF CmdCopy, Doing, Caught, TypeOK, Creations, Slots
  <2>2. Len(body) \in Nat
    BY <2>1, BodyType
  <2>3. /\ entry' = [entry EXCEPT ![count] = new] /\ count' = count + 1
        /\ next' = next + Len(body)
    BY <1>14, <2>1 DEF CmdCopy
  <2>4. Used' \subseteq Used \cup {count}
    BY <1>4, <2>3 DEF Used
  <2> HIDE DEF body
  <2>5. new.size = Len(body) /\ new.data = next /\ next # None
    BY <1>4 DEF TypeOK, None
  <2> HIDE DEF new
  <2> QED BY <1>9, <2>1, <2>2, <2>3, <2>4, <2>5
<1>15. ASSUME CmdMove PROVE RegionsApart'
  <2> DEFINE new == [entry[pending.at] EXCEPT !.name = pending.to]
  <2>1. pending.at \in Slots /\ entry[pending.at] \in Entries
    BY <1>15 DEF CmdMove, Doing, Caught, TypeOK
  <2>2. entry' = [entry EXCEPT ![pending.at] = new] /\ UNCHANGED <<count, next>>
    BY <1>15, <2>1 DEF CmdMove, TypeOK
  <2>3. new.data = entry[pending.at].data /\ new.size = entry[pending.at].size
    BY <2>1 DEF Entries
  <2> HIDE DEF new
  <2>4. \A i \in Used : /\ entry'[i].data = entry[i].data
                        /\ entry'[i].size = entry[i].size
    BY <2>1, <2>2, <2>3, UsedSlots DEF TypeOK
  <2>5. \A i \in Used : Region(i)' = Region(i)
    BY <1>1, <2>4 DEF Region
  <2> QED BY <1>1, <2>2, <2>5 DEF RegionsApart, Used
<1>16. ASSUME NEW op \in Removals, NEW last, Remove(op, last)
       PROVE  RegionsApart'
  <2> DEFINE gone == pending.at
             S == [i \in Used' |-> IF i >= gone THEN i + 1 ELSE i]
  <2>1. pending.at \in Used
    BY <1>8, <1>16 DEF Remove, Doing, Caught, Removals
  <2>2. entry' = Shifted(gone, last) /\ count' = count - 1 /\ next' = next
    BY <1>16 DEF Remove
  <2>3. /\ gone \in Int /\ Used' = 0 .. count - 2
        /\ Used' \subseteq Slots
    BY <1>4, <2>1, <2>2 DEF Used, Slots
  <2>4. ASSUME NEW i \in Used'
        PROVE  S[i] \in Used /\ entry'[i] = entry[S[i]]
    BY <1>4, <2>1, <2>2, <2>3, <2>4 DEF Shifted, Used
  <2>5. \A i, j \in Used' : i # j => S[i] # S[j]
    BY <2>3
  <2> HIDE DEF S
  <2>6. \A i \in Used' : S[i] \in Used /\ Region(i)' \subseteq Region(S[i])
    BY <1>5, <1>6, <2>4
  <2>7. next <= next'
    BY <1>4, <2>2
  <2>8. TypeOK /\ RegionsApart
    OBVIOUS
  <2> HIDE DEF IInv, TypeInv
  <2> QED BY <1>1, <1>4, <2>5, <2>6, <2>7, <2>8, Kept
<1>17. ASSUME NEW n \in Names, VfsOpen(n) PROVE RegionsApart'
  BY <1>17, Untouched DEF VfsOpen
<1>18. ASSUME VfsClose PROVE RegionsApart'
  BY <1>18, Untouched DEF VfsClose
<1>19. ASSUME NEW t \in Texts, VfsWrite(t) PROVE RegionsApart'
  <2> DEFINE new == [entry[vfd] EXCEPT !.size = Len(t), !.data = next,
                                       !.kind = "file"]
  <2>1. /\ vfd \in Slots /\ entry[vfd] \in Entries
    BY <1>19 DEF VfsWrite, TypeOK
  <2>2. /\ entry' = [entry EXCEPT ![vfd] = new] /\ count' = count
        /\ next' = next + Len(t)
    BY <1>19, <2>1 DEF VfsWrite, TypeOK
  <2>3. Len(t) \in Nat
    BY TextType
  <2>4. new.size = Len(t) /\ new.data = next /\ next # None
    BY <1>4, <2>1 DEF TypeOK, None, Entries
  <2>5. Used' \subseteq Used \cup {vfd}
    BY <2>2 DEF Used
  <2> HIDE DEF new
  <2> QED BY <1>9, <2>1, <2>2, <2>3, <2>4, <2>5
<1>20. CASE Finish
  BY <1>11, <1>12, <1>13, <1>14, <1>15, <1>16, <1>20
     DEF Finish, CmdRm, VfsDelete, Kinds, Removals
<1> QED BY <1>10, <1>17, <1>18, <1>19, <1>20 DEF Pid0

\* So do the system calls of a program that is alone and writes no file but
\* those it created.
LEMMA ProgramApart == IInv /\ Program => RegionsApart'
<1> SUFFICES ASSUME IInv, Program PROVE RegionsApart'
  OBVIOUS
<1> USE Sizes DEF IInv, TypeInv
<1>1. habits' = habits /\ habits # "commands"
  BY DEF Program, SysOpen, SysClose, SysRead, SysWrite, SysLseek, SysUnlink,
         SysKeep, User
<1>2. SUFFICES ASSUME habits = "own" PROVE RegionsApart'
  BY <1>1, RamFsAssumption DEF RegionsApart, TypeOK
<1>3. TypeInv'
  BY ProgramTyped
<1>4. /\ count \in Nat /\ count <= MaxFiles /\ next \in Nat /\ next' \in Nat
      /\ TypeOK /\ RegionsApart
  BY <1>3 DEF TypeOK
<1>5. \A i : /\ entry[i].data = None => Region(i) = {}
             /\ entry[i].data # None /\ i # 0 =>
                  Region(i) = entry[i].data .. entry[i].data + Block - 1
             /\ entry[i].data # None /\ i = 0 =>
                  Region(i) = entry[i].data .. entry[i].data + entry[i].size - 1
  BY <1>2 DEF Region
<1>6. \A i : /\ entry'[i].data = None => Region(i)' = {}
             /\ entry'[i].data # None /\ i # 0 =>
                  Region(i)' = entry'[i].data .. entry'[i].data + Block - 1
             /\ entry'[i].data # None /\ i = 0 =>
                  Region(i)' = entry'[i].data
                                 .. entry'[i].data + entry'[i].size - 1
  BY <1>1, <1>2 DEF Region
<1>7. \A i : entry'[i] = entry[i] => Region(i)' = Region(i)
  BY <1>1, SameRegion
<1>8. \A i \in Used : /\ i \in Slots /\ entry[i] \in Entries
                      /\ entry[i].data \in {None} \cup 0 .. Area
                      /\ entry[i].size \in 0 .. Area
  BY <1>4, UsedSlots DEF TypeOK, Entries
<1>9. ASSUME NEW i \in Used, NEW new, entry' = [entry EXCEPT ![i] = new],
             new.data = entry[i].data, i # 0 \/ new.size = entry[i].size
                                             \/ new.size = 0,
             UNCHANGED <<count, next>>
      PROVE  RegionsApart'
  <2>1. entry'[i] = new /\ \A j \in Used \ {i} : entry'[j] = entry[j]
    BY <1>4, <1>8, <1>9, UsedSlots DEF TypeOK
  <2>2. Region(i)' \subseteq Region(i)
    <3>1. CASE entry[i].data = None
      BY <1>6, <1>9, <2>1, <3>1
    <3>2. CASE entry[i].data # None /\ i # 0
      BY <1>5, <1>6, <1>9, <2>1, <3>2
    <3>3. CASE entry[i].data # None /\ i = 0 /\ new.size = entry[i].size
      BY <1>5, <1>6, <1>9, <2>1, <3>3
    <3>4. CASE entry[i].data # None /\ i = 0 /\ new.size = 0
      <4>1. Region(i)' = entry'[i].data .. entry'[i].data - 1
        BY <1>6, <1>8, <1>9, <2>1, <3>4 DEF None
      <4>2. entry'[i].data \in Int
        BY <1>8, <1>9, <2>1 DEF None
      <4> QED BY <4>1, <4>2
    <3> QED BY <1>9, <3>1, <3>2, <3>3, <3>4
  <2>3. \A j \in Used : Region(j)' \subseteq Region(j)
    BY <1>7, <2>1, <2>2
  <2> DEFINE S == [j \in Used |-> j]
  <2>4. Used' = Used
    BY <1>9 DEF Used
  <2>5. \A j \in Used' : S[j] \in Used /\ Region(j)' \subseteq Region(S[j])
    BY <2>3, <2>4
  <2>6. \A j, k \in Used' : j # k => S[j] # S[k]
    BY <2>4
  <2>7. next' \in Int /\ next <= next'
    BY <1>4, <1>9
  <2> HIDE DEF S, IInv, TypeInv
  <2> QED BY <1>1, <1>4, <2>5, <2>6, <2>7, Kept
<1>10. ASSUME NEW s \in Slots, NEW new, entry' = [entry EXCEPT ![s] = new],
              Used' \subseteq Used \cup {s}, next <= next',
              \/ new.data = None
              \/ s # 0 /\ new.data = next /\ next' = next + Block
       PROVE  RegionsApart'
  <2>1. /\ entry'[s] = new
        /\ \A i \in Used' \ {s} : i \in Used /\ entry'[i] = entry[i]
    BY <1>4, <1>10, UsedSlots DEF TypeOK
  <2>2. \A i \in Used' \ {s} : i \in Used /\ Region(i)' \subseteq Region(i)
    BY <1>7, <2>1
  <2>3. \A c \in Region(s)' : next <= c /\ c < next'
    <3>1. CASE new.data = None
      BY <1>6, <2>1, <3>1
    <3>2. CASE s # 0 /\ new.data = next /\ next' = next + Block
      <4>1. Region(s)' = next .. next + Block - 1
        BY <1>4, <1>6, <2>1, <3>2 DEF None
      <4> QED BY <1>4, <3>2, <4>1
    <3> QED BY <1>10, <3>1, <3>2
  <2>4. next' \in Int
    BY <1>4
  <2> HIDE DEF IInv, TypeInv
  <2> QED BY <1>1, <1>4, <1>10, <2>2, <2>3, <2>4, Grown
<1>11. ASSUME NEW f \in Fds, NEW n \in Names, NEW trunc \in BOOLEAN,
              SysOpen(f, n, trunc)
       PROVE  RegionsApart'
  <2>1. PICK i \in Used \cup {None} :
          \/ /\ i # None
             /\ entry' = [entry EXCEPT ![i].size = IF trunc THEN 0 ELSE @]
             /\ UNCHANGED count
          \/ /\ count < MaxFiles
             /\ entry' = [entry EXCEPT ![count] =
                   [name |-> n, size |-> 0, data |-> None, kind |-> "file"]]
             /\ count' = count + 1
          \/ UNCHANGED <<entry, count>>
    BY <1>11 DEF SysOpen
  <2>2. next' = next
    BY <1>11 DEF SysOpen
  <2>3. CASE /\ i # None
             /\ entry' = [entry EXCEPT ![i].size = IF trunc THEN 0 ELSE @]
             /\ UNCHANGED count
    <3> DEFINE e == [entry[i] EXCEPT !.size = IF trunc THEN 0 ELSE @]
    <3>1. i \in Used /\ entry' = [entry EXCEPT ![i] = e]
      BY <1>4, <1>8, <2>3 DEF TypeOK
    <3>2. /\ e.data = entry[i].data
          /\ e.size = 0 \/ e.size = entry[i].size
      BY <1>8, <3>1 DEF Entries
    <3> HIDE DEF e
    <3> QED BY <1>9, <2>2, <2>3, <3>1, <3>2
  <2>4. CASE /\ count < MaxFiles
             /\ entry' = [entry EXCEPT ![count] =
                   [name |-> n, size |-> 0, data |-> None, kind |-> "file"]]
             /\ count' = count + 1
    <3> DEFINE e == [name |-> n, size |-> 0, data |-> None, kind |-> "file"]
    <3>1. count \in Slots /\ Used' \subseteq Used \cup {count}
      BY <1>4, <2>4 DEF Slots, Used
    <3>2. next <= next'
      BY <1>4, <2>2
    <3>3. entry' = [entry EXCEPT ![count] = e] /\ e.data = None
      BY <2>4
    <3> HIDE DEF e
    <3> QED BY <1>10, <3>1, <3>2, <3>3
  <2>5. CASE UNCHANGED <<entry, count>>
    BY <1>1, <1>4, <2>2, <2>5, Untouched
  <2> QED BY <2>1, <2>3, <2>4, <2>5
<1>12. ASSUME NEW f \in Fds, SysClose(f) PROVE RegionsApart'
  BY <1>1, <1>4, <1>12, Untouched DEF SysClose
<1>13. ASSUME NEW f \in Fds, SysRead(f) PROVE RegionsApart'
  BY <1>1, <1>4, <1>13, Untouched DEF SysRead
<1>14. ASSUME NEW f \in Fds, NEW off \in 0 .. MaxSeek, SysLseek(f, off)
       PROVE  RegionsApart'
  BY <1>1, <1>4, <1>14, Untouched DEF SysLseek
<1>15. ASSUME NEW n \in Names, SysUnlink(n) PROVE RegionsApart'
  <2>1. PICK i \in Used :
          entry' = [entry EXCEPT ![i] = [NoEntry EXCEPT !.data = entry[i].data]]
    BY <1>15 DEF SysUnlink
  <2> DEFINE e == [NoEntry EXCEPT !.data = entry[i].data]
  <2>2. e.data = entry[i].data /\ e.size = 0
    BY DEF NoEntry
  <2>3. entry' = [entry EXCEPT ![i] = e] /\ UNCHANGED <<count, next>>
    BY <1>15, <2>1 DEF SysUnlink
  <2> HIDE DEF e
  <2> QED BY <1>9, <2>2, <2>3
<1>16. ASSUME NEW f \in Fds, NEW t \in Texts, SysWrite(f, t)
       PROVE  RegionsApart'
  <2> DEFINE i == fd[f].at
             a == IF entry[i].data = None THEN next ELSE entry[i].data
             end == fd[f].off + Len(t)
             e1 == [entry[i] EXCEPT !.data = a]
             e2 == [entry[i] EXCEPT !.data = a,
                       !.size = IF end > @ THEN end ELSE @]
  <2>1. i \in Used /\ i # 0
    BY <1>2, <1>16 DEF SysWrite, May, Alone
  <2>2. /\ next' = IF entry[i].data = None THEN next + Block ELSE next
        /\ count' = count
    BY <1>16 DEF SysWrite
  <2>3. entry' = [entry EXCEPT ![i] = e1] \/ entry' = [entry EXCEPT ![i] = e2]
    <3>1. \/ entry' = [entry EXCEPT ![i].data = a]
          \/ entry' = [entry EXCEPT ![i].data = a,
                          ![i].size = IF end > @ THEN end ELSE @]
      BY <1>16 DEF SysWrite
    <3> QED BY <1>4, <1>8, <2>1, <3>1 DEF TypeOK
  <2>4. e1.data = a /\ e2.data = a
    BY <1>8, <2>1 DEF Entries
  <2>5. PICK e \in {e1, e2} : entry' = [entry EXCEPT ![i] = e] /\ e.data = a
    BY <2>3, <2>4
  <2> HIDE DEF e1, e2
  <2>6. CASE entry[i].data = None
    <3>1. e.data = next /\ next' = next + Block /\ next <= next'
      BY <1>4, <2>2, <2>5, <2>6
    <3>2. Used' \subseteq Used \cup {i} /\ i \in Slots
      BY <1>8, <2>1, <2>2 DEF Used
    <3> QED BY <1>10, <2>1, <2>5, <3>1, <3>2
  <2>7. CASE entry[i].data # None
    <3>1. e.data = entry[i].data /\ UNCHANGED <<count, next>>
      BY <2>2, <2>5, <2>7
    <3> QED BY <1>9, <2>1, <2>5, <3>1
  <2> QED BY <2>6, <2>7
<1> QED BY <1>11, <1>12, <1>13, <1>14, <1>15, <1>16 DEF Program

\* What commands have read stays so, and descriptors stay in the table.
LEMMA StaysAlone == IInv /\ Next => Alone'
<1> SUFFICES ASSUME IInv, Next PROVE Alone'
  OBVIOUS
<1> USE DEF IInv, TypeInv
<1>1. ASSUME NEW c \in Commands, Start(c) PROVE Alone'
  <2>1. PICK i \in Used \cup {None} : pending'.count = count /\ pending'.at = i
    BY <1>1 DEF Start
  <2>2. UNCHANGED <<count, fd, habits>> /\ habits # "own"
    BY <1>1 DEF Start, Shell
  <2> QED BY <2>1, <2>2 DEF Alone, Used
<1>2. CASE Finish
  <2>1. habits' = habits /\ pending.op # "none" /\ pending' = Idle
    BY <1>2 DEF Finish, Create, CmdWrite, CmdAppend, CmdCopy, CmdMove, CmdRm,
                VfsDelete, Remove, Doing, Keep
  <2> QED BY <2>1 DEF Alone, Idle
<1>3. CASE \/ \E n \in Names : VfsOpen(n)
           \/ VfsClose
           \/ \E t \in Texts : VfsWrite(t)
  <2>1. habits # "own" /\ habits' = habits /\ pending' = Idle
    BY <1>3 DEF VfsOpen, VfsClose, VfsWrite, Shell
  <2> QED BY <2>1 DEF Alone, Idle
<1>4. CASE Program
  <2>1. habits' = habits /\ habits # "commands" /\ pending' = pending
    BY <1>4 DEF Program, SysOpen, SysClose, SysRead, SysWrite, SysLseek,
                SysUnlink, SysKeep, User
  <2>2. count \in Nat /\ fd \in [Fds -> {Closed} \cup [at : Slots, off : Nat]]
    BY Sizes DEF TypeOK
  <2>3. CASE \E f \in Fds, n \in Names, trunc \in BOOLEAN : SysOpen(f, n, trunc)
    <3>1. PICK f \in Fds, n \in Names, trunc \in BOOLEAN : SysOpen(f, n, trunc)
      BY <2>3
    <3>2. \/ /\ UNCHANGED count
             /\ \E i \in Used : fd' = [fd EXCEPT ![f] = [at |-> i, off |-> 0]]
          \/ /\ count' = count + 1
             /\ fd' = [fd EXCEPT ![f] = [at |-> count, off |-> 0]]
          \/ UNCHANGED <<fd, count>>
      BY <3>1 DEF SysOpen
    <3> QED BY <2>1, <2>2, <3>2 DEF Alone, Used
  <2>4. CASE \E f \in Fds : SysClose(f)
    BY <2>1, <2>2, <2>4 DEF SysClose, Alone, Used
  <2>5. CASE \/ \E f \in Fds : SysRead(f)
             \/ \E f \in Fds, t \in Texts : SysWrite(f, t)
             \/ \E f \in Fds, off \in 0 .. MaxSeek : SysLseek(f, off)
    <3>1. count' = count /\ \A f \in Fds :
             fd'[f] = fd[f] \/ (fd[f] # Closed /\ fd'[f].at = fd[f].at)
      <4>1. ASSUME NEW g \in Fds, fd[g] # Closed, NEW off,
                   fd' = [fd EXCEPT ![g].off = off]
            PROVE  \A f \in Fds :
             fd'[f] = fd[f] \/ (fd[f] # Closed /\ fd'[f].at = fd[f].at)
        BY <2>2, <4>1
      <4>2. CASE \E f \in Fds : SysRead(f)
        BY <4>1, <4>2 DEF SysRead
      <4>3. CASE \E f \in Fds, t \in Texts : SysWrite(f, t)
        BY <4>1, <4>3 DEF SysWrite
      <4>4. CASE \E f \in Fds, off \in 0 .. MaxSeek : SysLseek(f, off)
        BY <4>1, <4>4 DEF SysLseek
      <4> QED BY <2>5, <4>2, <4>3, <4>4
    <3> QED BY <2>1, <3>1 DEF Alone, Used
  <2>6. CASE \E n \in Names : SysUnlink(n)
    BY <2>1, <2>6 DEF SysUnlink, Alone, Used
  <2> QED BY <1>4, <2>3, <2>4, <2>5, <2>6 DEF Program
<1> QED BY <1>1, <1>2, <1>3, <1>4 DEF Next, Pid0

\* That invariant holds of a file system that was just made, and is kept.
LEMMA ApartInit == Init => IInv
<1> SUFFICES ASSUME Init PROVE IInv
  OBVIOUS
<1>1. TypeInv
  BY InitTyped
<1>2. PICK t \in Texts :
        /\ entry[0].data = 0 /\ entry[0].size = Len(t)
        /\ count = 1 /\ next = Len(t) /\ pending = Idle
        /\ fd = [f \in Fds |-> Closed]
  BY Sizes DEF Init, Slots
<1>3. Used = {0}
  BY <1>2 DEF Used
<1>4. RegionsApart
  BY <1>2, <1>3, TextType DEF RegionsApart, Region, None
<1>5. Alone
  BY <1>2 DEF Alone, Idle
<1> QED BY <1>1, <1>4, <1>5 DEF IInv

LEMMA ApartKept == IInv /\ [Next]_vars => IInv'
<1> SUFFICES ASSUME IInv, [Next]_vars PROVE IInv'
  OBVIOUS
<1>1. TypeInv'
  BY NextTyped DEF IInv
<1>2. CASE Next
  BY <1>1, <1>2, Pid0Apart, ProgramApart, StaysAlone DEF Next, IInv
<1>3. CASE UNCHANGED vars
  <2>1. RegionsApart'
    BY <1>3, Untouched DEF IInv, TypeInv, vars
  <2>2. Alone'
    BY <1>3 DEF IInv, Alone, Used, vars
  <2> QED BY <1>1, <2>1, <2>2 DEF IInv
<1> QED BY <1>2, <1>3

\* However many files, cells and texts there are, and whatever commands and
\* service messages, or calls of a program that writes what it created, come
\* in whatever order, no two files share memory (ramfs.fj, commands.fj,
\* dispatch.fj, vfs/main.fj).
THEOREM FilesShareNothing == Spec => []RegionsApart
<1>1. Init => IInv
  BY ApartInit
<1>2. IInv /\ [Next]_vars => IInv'
  BY ApartKept
<1>3. IInv => RegionsApart
  BY DEF IInv
<1> QED BY <1>1, <1>2, <1>3, PTL DEF Spec

----------------------------------------------------------------------------
\* The file of slot i as the store sees it, all of them, and the descriptors.
File(i) == [name |-> entry[i].name, kind |-> entry[i].kind, body |-> Body(i)]
Files == [k \in 1 .. count |->
            [name |-> entry[k - 1].name, kind |-> entry[k - 1].kind,
             body |-> Body(k - 1)]]
Opened == [f \in Fds |-> [at |-> fd[f].at + 1, off |-> fd[f].off]]

\* What the refinement needs of a state: cells hold what was written; while
\* commands are alone no descriptor is open, and the command in progress is
\* one somebody typed, its file is still the one it found, and none that it
\* removes is open; a program that is alone stays within its blocks.
Standing ==
    pending.op # "none" =>
        /\ \E c \in Commands : /\ pending.op = c.op /\ pending.name = c.name
                               /\ pending.to = c.to /\ pending.text = c.text
        /\ Finds(pending.name, pending.at)
        /\ Accepted(pending.op, pending.at)
        /\ pending.op \in Removals => vfd = None
Held ==
    /\ mem \in [Cells -> Values]
    /\ habits = "commands" => Standing /\ \A f \in Fds : fd[f] = Closed
    /\ habits = "own" => \A i \in Used \ {0} : entry[i].size <= Block

StoreInv == habits # "any" /\ IInv /\ Held

\* A step that changes none of them is no step of the store.
LEMMA Stutter ==
    ASSUME Files' = Files, Opened' = Opened, vfd' = vfd
    PROVE  UNCHANGED FS!vars
BY DEF FS!vars, Files, Opened

\* The slot ramfs_find returns is the file the store looks up.
LEMMA Looked ==
    ASSUME TypeOK, NEW n, NEW i \in Used \cup {None}, Finds(n, i)
    PROVE  FS!Lookup(n) = i + 1
<1> DEFINE I == {k \in 1 .. Len(Files) : Files[k].name = n}
<1>1. FS!Lookup(n) = IF I # {} THEN FS!Min(I) ELSE 0
  BY DEF FS!Lookup, FS!SelectInSeq, Files
<1>2. count \in Nat
  BY Sizes DEF TypeOK
<1>3. Len(Files) = count
  BY <1>2 DEF Files
<1>4. I = {k \in 1 .. count : entry[k - 1].name = n}
  BY <1>2, <1>3 DEF Files
<1> HIDE DEF I
<1>5. CASE i = None
  <2>1. \A j \in Used : entry[j].name # n
    BY <1>5 DEF Finds, None, Used
  <2>2. I = {}
    BY <1>2, <1>4, <2>1 DEF Used
  <2> QED BY <1>1, <1>5, <2>2 DEF None
<1>6. CASE i # None
  <2>1. /\ i \in 0 .. count - 1 /\ entry[i].name = n
        /\ \A j \in 0 .. i - 1 : entry[j].name # n
    BY <1>6 DEF Finds, Used
  <2>2. i + 1 \in I
    BY <1>2, <1>4, <2>1
  <2>3. \A k \in I : i + 1 <= k
    BY <1>2, <1>4, <2>1
  <2>4. FS!Min(I) = i + 1
    <3>1. FS!Min(I) = CHOOSE x \in I : \A y \in I : x <= y
      BY DEF FS!Min
    <3>2. FS!Min(I) \in I /\ \A y \in I : FS!Min(I) <= y
      BY <2>2, <2>3, <3>1
    <3>3. FS!Min(I) \in Int
      BY <1>2, <1>4, <3>2
    <3> QED BY <1>2, <2>1, <2>2, <2>3, <3>2, <3>3
  <2> QED BY <1>1, <2>2, <2>4
<1> QED BY <1>5, <1>6

\* The files are a sequence, one per slot in use.
LEMMA FilesShape ==
    ASSUME TypeOK
    PROVE  /\ count \in Nat /\ Len(Files) = count
           /\ DOMAIN Files = 1 .. count
           /\ \A k \in 1 .. count : k - 1 \in Used /\ Files[k] = File(k - 1)
           /\ \A i \in Used : i + 1 \in 1 .. count /\ Files[i + 1] = File(i)
<1>1. count \in Nat
  BY Sizes DEF TypeOK
<1>2. ASSUME NEW k \in 1 .. count
      PROVE  k - 1 \in Used /\ Files[k] = File(k - 1)
  BY <1>1 DEF Files, File, Used
<1>3. ASSUME NEW i \in Used PROVE i + 1 \in 1 .. count /\ Files[i + 1] = File(i)
  <2>1. i + 1 \in 1 .. count /\ (i + 1) - 1 = i
    BY <1>1 DEF Used
  <2> QED BY <1>2, <2>1
<1>4. Len(Files) = count /\ DOMAIN Files = 1 .. count
  BY <1>1 DEF Files
<1> QED BY <1>1, <1>2, <1>3, <1>4

\* A new slot is a file more, at the end.
LEMMA Added ==
    ASSUME TypeOK, count' = count + 1, \A i \in Used : File(i)' = File(i),
           NEW s, s = count, NEW e, File(s)' = e
    PROVE  Files' = Append(Files, e)
<1>1. count \in Nat
  BY Sizes DEF TypeOK
<1>2. Files' = [k \in 1 .. count + 1 |-> File(k - 1)']
  BY DEF Files, File
<1>3. Files = [k \in 1 .. count |-> File(k - 1)]
  BY DEF Files, File
<1> DEFINE G == [k \in 1 .. count + 1 |->
                   IF k = count + 1 THEN e ELSE File(k - 1)]
<1>4. \A k \in 1 .. count : k - 1 \in Used
  BY <1>1 DEF Used
<1>5. Files' = G
  <2> SUFFICES ASSUME NEW k \in 1 .. count + 1
               PROVE  File(k - 1)' = IF k = count + 1 THEN e ELSE File(k - 1)
    BY <1>2, Zenon
  <2>1. CASE k = count + 1
    <3>1. k - 1 = s
      BY <1>1, <2>1
    <3> QED BY <2>1, <3>1
  <2>2. CASE k # count + 1
    <3>1. k - 1 \in Used
      BY <1>1, <1>4, <2>2
    <3> QED BY <2>2, <3>1
  <2> QED BY <2>1, <2>2
<1>6. Append(Files, e) = G
  <2> DEFINE F(k) == File(k - 1)
  <2>1. /\ Files = [k \in 1 .. count |-> F(k)]
        /\ G = [k \in 1 .. count + 1 |->
                  IF k = count + 1 THEN e ELSE F(k)]
    BY <1>3
  <2> HIDE DEF F, G
  <2>2. Len(Files) = count
    BY <1>1, <2>1
  <2> QED BY <1>1, <2>1, <2>2
<1> QED BY <1>5, <1>6

\* Nothing seen of the slots changes.
LEMMA AllKept ==
    ASSUME TypeOK, count' = count, \A i \in Used : File(i)' = File(i)
    PROVE  Files' = Files
<1>1. count \in Nat
  BY Sizes DEF TypeOK
<1>2. Files' = [k \in 1 .. count |-> File(k - 1)']
  BY DEF Files, File
<1>3. Files = [k \in 1 .. count |-> File(k - 1)]
  BY DEF Files, File
<1>4. \A k \in 1 .. count : k - 1 \in Used
  BY <1>1 DEF Used
<1>5. \A k \in 1 .. count : File(k - 1)' = File(k - 1)
  BY <1>4
<1> QED BY <1>2, <1>3, <1>5, Zenon

\* One file changes.
LEMMA Changed ==
    ASSUME TypeOK, count' = count, NEW i \in Used,
           \A j \in Used \ {i} : File(j)' = File(j), NEW e, File(i)' = e
    PROVE  Files' = [Files EXCEPT ![i + 1] = e]
<1>1. count \in Nat /\ i \in 0 .. count - 1
  BY Sizes DEF TypeOK, Used
<1>2. Files' = [k \in 1 .. count |-> File(k - 1)']
  BY DEF Files, File
<1>3. Files = [k \in 1 .. count |-> File(k - 1)]
  BY DEF Files, File
<1>4. \A k \in 1 .. count : k - 1 \in Used
  BY <1>1 DEF Used
<1>5. \A k \in 1 .. count :
         File(k - 1)' = IF k = i + 1 THEN e ELSE File(k - 1)
  <2> TAKE k \in 1 .. count
  <2>1. CASE k = i + 1
    <3>1. k - 1 = i
      BY <1>1, <2>1
    <3> QED BY <2>1, <3>1
  <2>2. CASE k # i + 1
    <3>1. k - 1 \in Used \ {i}
      BY <1>1, <1>4, <2>2
    <3> QED BY <2>2, <3>1
  <2> QED BY <2>1, <2>2
<1>6. Files' = [k \in 1 .. count |-> IF k = i + 1 THEN e ELSE Files[k]]
  BY <1>2, <1>3, <1>5, Zenon
<1>7. DOMAIN Files = 1 .. count
  BY <1>3
<1> QED BY <1>6, <1>7

\* One file goes and those after it move up.
LEMMA Dropped ==
    ASSUME TypeOK, NEW gone \in Used, count' = count - 1,
           \A i \in 0 .. count - 2 :
              File(i)' = IF i < gone THEN File(i) ELSE File(i + 1)
    PROVE  Files' = FS!RemoveAt(Files, gone + 1)
<1>1. count \in Nat /\ gone \in 0 .. count - 1 /\ count - 1 \in Nat
  BY Sizes DEF TypeOK, Used
<1>2. Files' = [k \in 1 .. count - 1 |-> File(k - 1)']
  BY DEF Files, File
<1>3. Len(Files) = count /\ DOMAIN Files = 1 .. count
  BY FilesShape

<1> DEFINE G == [k \in 1 .. count - 1 |->
                   IF k < gone + 1 THEN Files[k] ELSE Files[k + 1]]
<1>4. Files' = G
  <2> SUFFICES ASSUME NEW k \in 1 .. count - 1
               PROVE  File(k - 1)' = IF k < gone + 1 THEN Files[k]
                                                     ELSE Files[k + 1]
    BY <1>2, Zenon
  <2>1. k - 1 \in 0 .. count - 2 /\ k \in 1 .. count /\ k + 1 \in 1 .. count
    BY <1>1
  <2>2. Files[k] = File(k - 1) /\ Files[k + 1] = File((k + 1) - 1)
    BY <2>1, FilesShape
  <2>3. (k + 1) - 1 = (k - 1) + 1 /\ (k < gone + 1 <=> k - 1 < gone)
    BY <1>1
  <2> QED BY <2>1, <2>2, <2>3
<1> DEFINE S == {Files[k] : k \in 1 .. count}
<1>5. Files \in Seq(S)
  <2>1. Files \in [1 .. count -> S]
    BY <1>3, Zenon DEF Files
  <2> HIDE DEF S
  <2> QED BY <1>1, <2>1
<1>6. FS!RemoveAt(Files, gone + 1)
        = SubSeq(Files, 1, gone) \o SubSeq(Files, gone + 2, count)
  <2>1. (gone + 1) - 1 = gone /\ (gone + 1) + 1 = gone + 2
    BY <1>1
  <2> QED BY <1>3, <2>1 DEF FS!RemoveAt, Files
<1>7. SubSeq(Files, 1, gone) \o SubSeq(Files, gone + 2, count) = G
  <2> HIDE DEF G
  <2> DEFINE a == SubSeq(Files, 1, gone)
             b == SubSeq(Files, gone + 2, count)
  <2>1. a \in Seq(S) /\ Len(a) = gone /\ \A k \in 1 .. gone : a[k] = Files[k]
    BY <1>1, <1>3, <1>5
  <2>2. b \in Seq(S) /\ Len(b) = count - 1 - gone
        /\ \A k \in 1 .. count - 1 - gone : b[k] = Files[k + gone + 1]
    BY <1>1, <1>3, <1>5
  <2> HIDE DEF a, b, S
  <2>3. a \o b \in Seq(S) /\ Len(a \o b) = count - 1
    <3>1. a \o b \in Seq(S) /\ Len(a \o b) = Len(a) + Len(b)
      BY <2>1, <2>2, ConcatProperties
    <3> QED BY <1>1, <2>1, <2>2, <3>1
  <2>4. \A k \in 1 .. count - 1 :
           (a \o b)[k] = IF k < gone + 1 THEN Files[k] ELSE Files[k + 1]
    BY <1>1, <2>1, <2>2
  <2> QED BY <1>1, <2>3, <2>4 DEF G, a, b
<1> QED BY <1>4, <1>6, <1>7

----------------------------------------------------------------------------
\* A body stays what it was when its cells do, in whatever slot it is.
LEMMA BodyKept ==
    ASSUME TypeOK, InArea, NEW i, NEW j \in Slots,
           entry'[i].size = entry[j].size, entry'[i].data = entry[j].data,
           \A c \in Cells : entry[j].data <= c
                              /\ c < entry[j].data + entry[j].size
                            => mem'[c] = mem[c]
    PROVE  Body(i)' = Body(j)
<1>1. /\ entry[j].size \in Nat /\ entry[j].data \in {None} \cup Nat
      /\ entry[j].data = None => entry[j].size = 0
      /\ entry[j].data # None => entry[j].data + entry[j].size <= Area
  BY Sizes DEF TypeOK, InArea, Entries
<1>2. Body(i)' = [k \in 1 .. entry[j].size |-> mem'[entry[j].data + k - 1]]
  BY DEF Body
<1>3. ASSUME NEW k \in 1 .. entry[j].size
      PROVE  mem'[entry[j].data + k - 1] = mem[entry[j].data + k - 1]
  <2>1. entry[j].data # None /\ entry[j].data \in Nat
    BY <1>1
  <2>2. /\ entry[j].data + k - 1 \in Cells
        /\ entry[j].data <= entry[j].data + k - 1
        /\ entry[j].data + k - 1 < entry[j].data + entry[j].size
    BY <1>1, <2>1, Sizes DEF Cells
  <2> QED BY <2>2
<1> QED BY <1>2, <1>3, Zenon DEF Body

\* The cells of a body are in its region and in no other.
LEMMA InRegion ==
    ASSUME StoreInv, NEW j \in Used, NEW c \in Cells,
           entry[j].data <= c, c < entry[j].data + entry[j].size
    PROVE  c < next /\ \A i \in Used \ {j} : c \notin Region(i)
<1>1. TypeOK /\ InArea /\ RegionsApart /\ habits # "any"
      /\ (habits = "own" /\ j # 0 => entry[j].size <= Block)
  BY DEF StoreInv, IInv, TypeInv, Held
<1>2. j \in Slots /\ c \in Int
  BY <1>1, UsedSlots DEF Cells
<1>3. entry[j].data \in {None} \cup Nat /\ entry[j].size \in Nat
  BY <1>1, <1>2, Sizes DEF TypeOK, Entries
<1>4. entry[j].data # None
  BY <1>1, <1>2, <1>3 DEF InArea, None
<1>5. c \in Region(j)
  BY <1>1, <1>2, <1>3, <1>4, Sizes DEF Region
<1> QED BY <1>1, <1>5 DEF RegionsApart

\* Storing into memory not handed out changes no body.
LEMMA FreshKept ==
    ASSUME StoreInv, NEW i, NEW j \in Used, NEW a \in Int, NEW t, next <= a,
           entry'[i].size = entry[j].size, entry'[i].data = entry[j].data,
           mem' = Stored(a, t)
    PROVE  Body(i)' = Body(j)
<1>1. TypeOK /\ InArea /\ j \in Slots /\ next \in Int
  BY UsedSlots DEF StoreInv, IInv, TypeInv, TypeOK
<1>2. ASSUME NEW c \in Cells, entry[j].data <= c,
             c < entry[j].data + entry[j].size
      PROVE  mem'[c] = mem[c]
  <2>1. c < next /\ c \in Int
    BY <1>2, InRegion DEF Cells
  <2>2. ~(c >= a)
    BY <1>1, <2>1
  <2> QED BY <2>2 DEF Stored
<1> QED BY <1>1, <1>2, BodyKept

\* What was stored is the body.
LEMMA StoredBody ==
    ASSUME NEW i, NEW t \in Seq(Nat), NEW a \in Nat, a + Len(t) <= Area,
           entry'[i].data = a, entry'[i].size = Len(t), mem' = Stored(a, t)
    PROVE  Body(i)' = t
<1>1. Body(i)' = [k \in 1 .. Len(t) |-> mem'[a + k - 1]]
  BY DEF Body
<1>2. ASSUME NEW k \in 1 .. Len(t) PROVE mem'[a + k - 1] = t[k]
  <2> DEFINE c == a + k - 1
  <2>1. /\ c \in Cells /\ c >= a /\ c < a + Len(t) /\ c - a + 1 = k
    BY Sizes DEF Cells
  <2>2. mem'[c] = IF c >= a /\ c < a + Len(t) THEN t[c - a + 1] ELSE mem[c]
    BY <2>1 DEF Stored
  <2> HIDE DEF c
  <2>3. mem'[c] = t[k]
    BY <2>1, <2>2
  <2> QED BY <2>3 DEF c
<1>3. Body(i)' = [k \in 1 .. Len(t) |-> t[k]]
  BY <1>1, <1>2, Zenon
<1> QED BY <1>3

\* Cells go on holding zeros and pieces of texts.
LEMMA StoredValues ==
    ASSUME mem \in [Cells -> Values], NEW a \in Int, NEW text \in Seq(Values)
    PROVE  Stored(a, text) \in [Cells -> Values]
<1> SUFFICES ASSUME NEW c \in Cells
             PROVE (IF c >= a /\ c < a + Len(text) THEN text[c - a + 1]
                    ELSE mem[c]) \in Values
  BY DEF Stored
<1>1. CASE c >= a /\ c < a + Len(text)
  BY <1>1 DEF Cells
<1>2. CASE ~(c >= a /\ c < a + Len(text))
  BY <1>2
<1> QED BY <1>1, <1>2

\* A text is made of values.
LEMMA TextValues ==
    ASSUME NEW t \in Texts \cup {<<>>}
    PROVE  t \in Seq(Values)
<1>1. CASE t = <<>>
  BY <1>1
<1>2. CASE t \in Texts
  <2>1. t \in Seq(Nat)
    BY <1>2, RamFsAssumption
  <2>2. \A k \in 1 .. Len(t) : t[k] \in Values
    <3> TAKE k \in 1 .. Len(t)
    <3> DEFINE cells == {t[j] : j \in 1 .. Len(t)}
    <3>1. t[k] \in cells
      OBVIOUS
    <3>2. cells \in {{u[j] : j \in 1 .. Len(u)} : u \in Texts}
      BY <1>2, Zenon
    <3> HIDE DEF cells
    <3> QED BY <3>1, <3>2, Zenon DEF Values
  <2> HIDE DEF Values
  <2>3. Len(t) \in Nat /\ t = [k \in 1 .. Len(t) |-> t[k]]
    BY <2>1
  <2>4. t \in [1 .. Len(t) -> Values]
    BY <2>2, <2>3
  <2> QED BY <2>3, <2>4
<1> QED BY <1>1, <1>2

\* So is the body of a slot.
LEMMA BodyValues ==
    ASSUME TypeOK, InArea, mem \in [Cells -> Values], NEW i \in Slots
    PROVE  Body(i) \in Seq(Values)
<1>1. entry[i] \in Entries /\ entry[i].size \in Nat
  BY Sizes DEF TypeOK, Entries
<1>2. ASSUME NEW k \in 1 .. entry[i].size
      PROVE  mem[entry[i].data + k - 1] \in Values
  <2>1. entry[i].data # None
    BY <1>1, <1>2 DEF InArea
  <2>2. entry[i].data \in Nat /\ entry[i].data + entry[i].size <= Area
    BY <1>1, <2>1 DEF InArea, Entries, None
  <2>3. entry[i].data + k - 1 \in Cells
    BY <1>1, <2>2, Sizes DEF Cells
  <2> QED BY <2>3
<1> QED BY <1>1, <1>2 DEF Body

\* Every step stores zeros and pieces of texts only.
LEMMA ValuesKept == StoreInv /\ Next => mem' \in [Cells -> Values]
<1> SUFFICES ASSUME StoreInv, Next PROVE mem' \in [Cells -> Values]
  OBVIOUS
<1>1. /\ TypeOK /\ InArea /\ Caught /\ mem \in [Cells -> Values]
      /\ next \in Int
  BY Sizes DEF StoreInv, IInv, TypeInv, Held, TypeOK
<1>2. CASE mem' = mem
  BY <1>1, <1>2
<1>3. ASSUME NEW a \in Int, NEW t \in Seq(Values), mem' = Stored(a, t)
      PROVE  mem' \in [Cells -> Values]
  BY <1>1, <1>3, StoredValues
<1>4. CASE CmdWrite
  <2>1. pending.text \in Seq(Values)
    BY <1>1, TextValues DEF TypeOK
  <2> QED BY <1>1, <1>3, <1>4, <2>1 DEF CmdWrite
<1>5. CASE CmdAppend
  <2>1. pending.at \in Slots
    BY <1>1, <1>5 DEF CmdAppend, Doing, Caught, TypeOK
  <2>2. Body(pending.at) \in Seq(Values) /\ pending.text \in Seq(Values)
    BY <1>1, <2>1, BodyValues, TextValues DEF TypeOK
  <2>3. Body(pending.at) \o pending.text \in Seq(Values)
    BY <2>2, ConcatProperties
  <2> QED BY <1>1, <1>3, <1>5, <2>3 DEF CmdAppend
<1>6. CASE CmdCopy
  <2>1. pending.at \in Slots
    BY <1>1, <1>6 DEF CmdCopy, Doing, Caught, TypeOK
  <2>2. Body(pending.at) \in Seq(Values)
    BY <1>1, <2>1, BodyValues
  <2> QED BY <1>1, <1>3, <1>6, <2>2 DEF CmdCopy
<1>7. ASSUME NEW t \in Texts, VfsWrite(t) PROVE mem' \in [Cells -> Values]
  BY <1>1, <1>3, <1>7, TextValues DEF VfsWrite
<1>8. ASSUME NEW f \in Fds, NEW t \in Texts, SysWrite(f, t)
      PROVE  mem' \in [Cells -> Values]
  <2> DEFINE a == IF entry[fd[f].at].data = None THEN next
                  ELSE entry[fd[f].at].data
  <2>1. mem' = mem \/ mem' = Stored(a + fd[f].off, t)
    BY <1>8 DEF SysWrite
  <2>2. fd[f] \in [at : Slots, off : Nat]
    BY <1>1, <1>8 DEF SysWrite, TypeOK
  <2>3. a + fd[f].off \in Int
    <3>1. entry[fd[f].at] \in Entries
      BY <1>1, <2>2 DEF TypeOK
    <3> QED BY <1>1, <2>2, <3>1, Sizes DEF Entries, None
  <2> QED BY <1>2, <1>3, <2>1, <2>3, TextValues
<1>9. CASE \/ \E c \in Commands : Start(c)
           \/ \E op \in {"create", "mkdir"}, k \in Kinds : Create(op, k)
           \/ CmdMove \/ CmdRm \/ VfsDelete
           \/ \E n \in Names : VfsOpen(n) \/ SysUnlink(n)
           \/ VfsClose
           \/ \E f \in Fds, n \in Names, trunc \in BOOLEAN :
                 SysOpen(f, n, trunc)
           \/ \E f \in Fds : SysClose(f) \/ SysRead(f)
           \/ \E f \in Fds, off \in 0 .. MaxSeek : SysLseek(f, off)
  BY <1>2, <1>9, Zenon
     DEF Start, Create, CmdMove, CmdRm, VfsDelete, Remove, VfsOpen, SysUnlink,
         VfsClose, SysOpen, SysClose, SysRead, SysLseek
<1> QED BY <1>4, <1>5, <1>6, <1>7, <1>8, <1>9, Zenon
        DEF Next, Pid0, Program, Finish, Kinds

\* A program that is alone stays within its blocks.
LEMMA BlocksKept ==
    StoreInv /\ Next /\ habits' = "own"
        => \A i \in Used' \ {0} : entry'[i].size <= Block
<1> SUFFICES ASSUME StoreInv, Next, habits' = "own",
                    NEW i \in Used' \ {0}
             PROVE  entry'[i].size <= Block
  OBVIOUS
<1>1. /\ TypeOK /\ count \in Nat /\ Alone
      /\ habits = "own" => \A j \in Used \ {0} : entry[j].size <= Block
  BY Sizes DEF StoreInv, IInv, TypeInv, Held, TypeOK
<1>7. Program /\ habits = "own"
  <2>1. ~Finish
    BY <1>1 DEF Finish, Create, CmdWrite, CmdAppend, CmdCopy, CmdMove, CmdRm,
                VfsDelete, Remove, Doing, Keep, Alone
  <2>2. habits' = "own" /\ Pid0 => Finish
    BY DEF Pid0, Start, VfsOpen, VfsClose, VfsWrite, Shell
  <2>3. Program
    BY <2>1, <2>2 DEF Next
  <2> QED BY <2>3
       DEF Program, SysOpen, SysClose, SysRead, SysWrite, SysLseek, SysUnlink,
           SysKeep
<1>2. /\ i \in Int
      /\ i \in Used => i \in Slots /\ entry[i] \in Entries
                        /\ entry[i].size <= Block /\ entry[i].size \in Int
  BY <1>1, <1>7, UsedSlots, Sizes DEF TypeOK, Entries, Used, Slots
<1>3. CASE entry' = entry /\ count' = count
  BY <1>2, <1>3 DEF Used
<1>4. ASSUME NEW f \in Fds, NEW n \in Names, NEW trunc \in BOOLEAN,
             SysOpen(f, n, trunc)
      PROVE  entry'[i].size <= Block
  <2>1. PICK j \in Used \cup {None} :
          \/ /\ j # None
             /\ entry' = [entry EXCEPT ![j].size = IF trunc THEN 0 ELSE @]
             /\ UNCHANGED count
          \/ /\ count < MaxFiles
             /\ entry' = [entry EXCEPT ![count] =
                   [name |-> n, size |-> 0, data |-> None, kind |-> "file"]]
             /\ count' = count + 1
          \/ UNCHANGED <<entry, count>>
    BY <1>4 DEF SysOpen
  <2>2. CASE /\ j # None
             /\ entry' = [entry EXCEPT ![j].size = IF trunc THEN 0 ELSE @]
             /\ UNCHANGED count
    <3>1. i \in Used /\ (entry'[i].size = entry[i].size \/ entry'[i].size = 0)
      BY <1>1, <1>2, <2>2 DEF Used, TypeOK, Entries
    <3> QED BY <1>2, <3>1, Sizes
  <2>3. CASE /\ count < MaxFiles
             /\ entry' = [entry EXCEPT ![count] =
                   [name |-> n, size |-> 0, data |-> None, kind |-> "file"]]
             /\ count' = count + 1
    <3>1. count \in Slots /\ (i = count \/ i \in Used)
      BY <1>1, <2>3, Sizes DEF Slots, Used
    <3>2. i # count => entry'[i] = entry[i]
      BY <1>1, <2>3 DEF TypeOK
    <3>3. i = count => entry'[i].size = 0
      BY <1>1, <2>3, <3>1 DEF TypeOK
    <3> QED BY <1>2, <3>1, <3>2, <3>3, Sizes
  <2> QED BY <1>3, <2>1, <2>2, <2>3
<1>5. ASSUME NEW f \in Fds, NEW t \in Texts, SysWrite(f, t)
      PROVE  entry'[i].size <= Block
  <2> DEFINE j == fd[f].at
             a == IF entry[j].data = None THEN next ELSE entry[j].data
             end == fd[f].off + Len(t)
  <2>1. fd[f] \in [at : Slots, off : Nat] /\ count' = count /\ i \in Used
    BY <1>1, <1>5 DEF SysWrite, TypeOK, Used
  <2>2. \/ entry' = [entry EXCEPT ![j].data = a]
        \/ /\ end <= Block
           /\ entry' = [entry EXCEPT ![j].data = a,
                           ![j].size = IF end > @ THEN end ELSE @]
    BY <1>5 DEF SysWrite
  <2>3. Len(t) \in Nat /\ end \in Nat
    BY <2>1, TextType
  <2> DEFINE e1 == [entry[j] EXCEPT !.data = a]
             e2 == [entry[j] EXCEPT !.data = a,
                       !.size = IF end > @ THEN end ELSE @]
  <2> HIDE DEF a, end
  <2>5. \/ entry' = [entry EXCEPT ![j] = e1]
        \/ end <= Block /\ entry' = [entry EXCEPT ![j] = e2]
    BY <1>1, <2>1, <2>2 DEF TypeOK
  <2>6. /\ e1.size = entry[j].size
        /\ e2.size = entry[j].size \/ e2.size = end
    BY <1>1, <2>1 DEF TypeOK, Entries
  <2> HIDE DEF e1, e2
  <2>4. entry'[i].size = entry[i].size \/ (entry'[i].size = end /\ end <= Block)
    BY <1>1, <1>2, <2>1, <2>5, <2>6 DEF TypeOK
  <2> QED BY <1>2, <2>1, <2>3, <2>4
<1>6. ASSUME NEW n \in Names, SysUnlink(n) PROVE entry'[i].size <= Block
  <2>1. PICK j \in Used :
          entry' = [entry EXCEPT ![j] = [NoEntry EXCEPT !.data = entry[j].data]]
    BY <1>6 DEF SysUnlink
  <2>2. i \in Used
    BY <1>6 DEF SysUnlink, Used
  <2>3. entry'[i].size = entry[i].size \/ entry'[i].size = 0
    BY <1>1, <1>2, <2>1, <2>2 DEF NoEntry, TypeOK
  <2> QED BY <1>2, <2>2, <2>3, Sizes
<1> QED BY <1>7, <1>3, <1>4, <1>5, <1>6
        DEF Program, SysClose, SysRead, SysLseek

\* So is everything the refinement rests on.
LEMMA StoreInvKept == StoreInv /\ [Next]_vars => StoreInv'
<1> SUFFICES ASSUME StoreInv, [Next]_vars PROVE StoreInv'
  OBVIOUS
<1>1. IInv'
  BY ApartKept DEF StoreInv
<1>2. CASE UNCHANGED vars
  <2>1. Standing => Standing'
    BY <1>2 DEF Standing, Finds, Accepted, Used, vars
  <2>2. Held'
    BY <1>2, <2>1 DEF StoreInv, Held, Used, vars
  <2> QED BY <1>1, <1>2, <2>2 DEF StoreInv, vars
<1>3. CASE Next
  <2>1. mem' \in [Cells -> Values]
    BY <1>3, ValuesKept
  <2>2. habits' = "own" => \A i \in Used' \ {0} : entry'[i].size <= Block
    BY <1>3, BlocksKept
  <2>3. habits' = habits
    BY <1>3 DEF Next, Pid0, Program, Finish, Start, Create, CmdWrite, CmdAppend,
        CmdCopy, CmdMove, CmdRm, VfsDelete, Remove, Keep, VfsOpen, VfsClose,
        VfsWrite, SysOpen, SysClose, SysRead, SysWrite, SysLseek, SysUnlink,
        SysKeep
  <2>4. ASSUME habits = "commands"
        PROVE  Standing' /\ \A f \in Fds : fd'[f] = Closed
    <3>1. ~Program
      BY <2>4 DEF Program, SysOpen, SysClose, SysRead, SysWrite, SysLseek,
                  SysUnlink, User
    <3>2. fd' = fd
      BY <1>3, <3>1
         DEF Next, Pid0, Finish, Start, Create, CmdWrite, CmdAppend, CmdCopy,
             CmdMove, CmdRm, VfsDelete, Remove, Keep, VfsOpen, VfsClose,
             VfsWrite
    <3> SUFFICES Standing'
      BY <2>4, <3>2 DEF StoreInv, Held
    <3>3. ASSUME NEW c \in Commands, Start(c) PROVE Standing'
      <4>1. PICK i \in Used \cup {None} :
               /\ Finds(c.name, i) /\ Accepted(c.op, i)
               /\ pending' = [op |-> c.op, name |-> c.name, to |-> c.to,
                              text |-> c.text, at |-> i, count |-> count]
        BY <3>3 DEF Start
      <4>2. UNCHANGED <<entry, count, vfd>>
            /\ (c.op \in Removals => vfd = None)
        BY <2>4, <3>3 DEF Start
      <4>3. /\ pending'.op = c.op /\ pending'.name = c.name /\ pending'.at = i
            /\ pending'.to = c.to /\ pending'.text = c.text
        BY <4>1
      <4> QED BY <4>1, <4>2, <4>3 DEF Standing, Finds, Accepted, Used
    <3>4. CASE Finish \/ VfsClose \/ (\E n \in Names : VfsOpen(n))
               \/ (\E t \in Texts : VfsWrite(t))
      <4>1. pending' = Idle
        BY <3>4 DEF Finish, Create, CmdWrite, CmdAppend, CmdCopy, CmdMove,
                    CmdRm, VfsDelete, Remove, Doing, VfsOpen, VfsClose, VfsWrite
      <4> QED BY <4>1 DEF Standing, Idle
    <3> QED BY <1>3, <3>1, <3>3, <3>4, Zenon DEF Next, Pid0
  <2>5. Held'
    BY <2>1, <2>2, <2>3, <2>4 DEF Held
  <2> QED BY <1>1, <2>3, <2>5 DEF StoreInv
<1> QED BY <1>2, <1>3

\* It holds of a file system that was just made.
LEMMA StoreInvInit == Init /\ habits # "any" => StoreInv
<1> SUFFICES ASSUME Init, habits # "any" PROVE Held
  BY ApartInit DEF StoreInv
<1>1. PICK t \in Texts :
        /\ count = 1 /\ pending = Idle /\ fd = [f \in Fds |-> Closed]
        /\ mem = [a \in Cells |-> IF a < Len(t) THEN t[a + 1] ELSE 0]
  BY DEF Init
<1>2. mem \in [Cells -> Values]
  <2>1. t \in Seq(Values) /\ 0 \in Values
    BY TextValues DEF Values
  <2> QED BY <1>1, <2>1 DEF Cells
<1>3. Used \ {0} = {}
  BY <1>1 DEF Used
<1> QED BY <1>1, <1>2, <1>3 DEF Held, Standing, Idle

----------------------------------------------------------------------------
\* A file system that was just made is a store with one file.
LEMMA StoreInit == Init => FS!Init
<1> SUFFICES ASSUME Init PROVE FS!Init
  OBVIOUS
<1> PICK n \in Names, t \in Texts :
        /\ entry = [i \in Slots |->
              IF i = 0 THEN [name |-> n, size |-> Len(t), data |-> 0,
                             kind |-> "file"]
              ELSE NoEntry]
        /\ count = 1
        /\ mem = [a \in Cells |-> IF a < Len(t) THEN t[a + 1] ELSE 0]
        /\ fd = [f \in Fds |-> Closed]
        /\ vfd = None
  BY DEF Init
<1>1. t \in Seq(Nat) /\ Len(t) \in Nat /\ Len(t) <= Area /\ 0 \in Slots
  BY TextType, Sizes DEF Slots
<1>2. entry[0] = [name |-> n, size |-> Len(t), data |-> 0, kind |-> "file"]
  BY <1>1
<1>3. Body(0) = t
  <2>1. Body(0) = [k \in 1 .. Len(t) |-> mem[0 + k - 1]]
    BY <1>2 DEF Body
  <2>2. \A k \in 1 .. Len(t) : mem[0 + k - 1] = t[k]
    BY <1>1, Sizes DEF Cells
  <2>3. Body(0) = [k \in 1 .. Len(t) |-> t[k]]
    BY <2>1, <2>2, Zenon
  <2> QED BY <1>1, <2>3
<1>4. Files = <<FS!NewFile(n, "file", t)>>
  <2>1. Files = [k \in 1 .. 1 |-> File(k - 1)]
    BY DEF Files, File
  <2>2. File(0) = [name |-> n, kind |-> "file", body |-> t]
    BY <1>2, <1>3 DEF File
  <2>3. Files = [k \in 1 .. 1 |-> File(0)]
    BY <2>1
  <2> QED BY <2>2, <2>3 DEF FS!NewFile
<1>5. Opened = [f \in Fds |-> FS!Closed] /\ vfd + 1 = 0
  BY DEF Opened, Closed, None, FS!Closed
<1> QED BY <1>4, <1>5 DEF FS!Init, Files, Opened

\* What is so in every step of PID 0.
LEMMA Pid0Facts ==
    ASSUME StoreInv, Pid0
    PROVE  /\ habits = "commands" /\ Standing
           /\ \A f \in Fds : fd[f] = Closed
           /\ fd' = fd /\ Opened' = Opened
<1>1. Alone /\ Held /\ habits # "any" /\ habits \in {"commands", "own", "any"}
  BY RamFsAssumption DEF StoreInv, IInv, TypeInv, TypeOK
<1>2. CASE Finish
  BY <1>1, <1>2
     DEF Finish, Create, CmdWrite, CmdAppend, CmdCopy, CmdMove, CmdRm,
         VfsDelete, Remove, Doing, Keep, Alone, Held, Opened
<1>3. CASE ~Finish
  BY <1>1, <1>3
     DEF Pid0, Start, VfsOpen, VfsClose, VfsWrite, Shell, Held, Opened
<1> QED BY <1>2, <1>3

\* What is so when a command goes on with what it has read.
LEMMA FinishFacts ==
    ASSUME StoreInv, Pid0, pending.op # "none"
    PROVE  /\ \E c \in Commands : /\ pending.op = c.op /\ pending.name = c.name
                                  /\ pending.to = c.to /\ pending.text = c.text
           /\ Finds(pending.name, pending.at)
           /\ Accepted(pending.op, pending.at)
           /\ pending.op \in Removals => vfd = None
           /\ pending.count = count /\ pending.at \in Used \cup {None}
           /\ FS!Lookup(pending.name) = pending.at + 1
<1>1. /\ TypeOK /\ pending.count = count /\ pending.at \in Used \cup {None}
      /\ Finds(pending.name, pending.at)
  BY Pid0Facts DEF StoreInv, IInv, TypeInv, Alone, Standing
<1>2. FS!Lookup(pending.name) = pending.at + 1
  BY <1>1, Looked
<1> QED BY <1>1, <1>2, Pid0Facts DEF Standing

\* Which names and texts a command carries.
LEMMA CommandTypes ==
    ASSUME NEW c \in Commands
    PROVE  /\ c.name \in Names
           /\ c.op \in {"write", "append"} => c.text \in Texts
           /\ c.op \in {"cp", "mv"} => c.to \in Names
BY DEF Commands, Removals

\* The slots in use have entries that keep name, kind, size and place, and no
\* cell of theirs changes: then the files are what they were.
LEMMA SameFile ==
    ASSUME StoreInv, NEW j \in Used, NEW i, entry'[i] = entry[j],
           \/ mem' = mem
           \/ \E a \in Int : \E t : next <= a /\ mem' = Stored(a, t)
    PROVE  File(i)' = File(j)
<1>1. TypeOK /\ InArea /\ j \in Slots
  BY UsedSlots DEF StoreInv, IInv, TypeInv
<1>2. CASE mem' = mem
  BY <1>2 DEF File, Body
<1>3. ASSUME NEW a \in Int, NEW t, next <= a, mem' = Stored(a, t)
      PROVE  File(i)' = File(j)
  <2>1. Body(i)' = Body(j)
    BY <1>3, FreshKept
  <2> QED BY <2>1 DEF File
<1> QED BY <1>2, <1>3

\* Types and counters, as the steps below need them.
LEMMA StoreTypes ==
    ASSUME StoreInv
    PROVE  /\ TypeOK /\ InArea /\ Caught /\ Alone /\ count \in Nat
           /\ count <= MaxFiles /\ next \in Nat /\ next <= Area
           /\ Used = 0 .. count - 1 /\ Used \subseteq Slots
           /\ \A i \in Used : /\ i \in Nat /\ i + 1 # 0 /\ entry[i] \in Entries
                              /\ entry[i].size \in Nat
BY Sizes, UsedSlots
   DEF StoreInv, IInv, TypeInv, TypeOK, Used, Entries

\* What a step may do to the body of a slot that gets the entry e: leave it
\* empty, or store it in memory that was not handed out.
Fills(e, b) ==
    \/ e.size = 0 /\ b = <<>> /\ mem' = mem
    \/ /\ b \in Seq(Nat) /\ next + Len(b) <= Area
       /\ e.size = Len(b) /\ e.data = next /\ mem' = Stored(next, b)

\* Then that is its body, and no other body changes.
LEMMA Filled ==
    ASSUME StoreInv, NEW e, NEW b, Fills(e, b), NEW i, entry'[i] = e
    PROVE  /\ File(i)' = [name |-> e.name, kind |-> e.kind, body |-> b]
           /\ \A j \in Used : entry'[j] = entry[j] => File(j)' = File(j)
<1>1. Body(i)' = b
  <2>1. CASE e.size = 0 /\ b = <<>> /\ mem' = mem
    <3>1. entry'[i].size = 0
      BY <2>1
    <3> QED BY <2>1, <3>1 DEF Body
  <2>2. CASE /\ b \in Seq(Nat) /\ next + Len(b) <= Area
             /\ e.size = Len(b) /\ e.data = next /\ mem' = Stored(next, b)
    <3>1. entry'[i].data = next /\ entry'[i].size = Len(b) /\ next \in Nat
      BY <2>2, StoreTypes
    <3> QED BY <2>2, <3>1, StoredBody
  <2> QED BY <2>1, <2>2 DEF Fills
<1>2. ASSUME NEW j \in Used, entry'[j] = entry[j] PROVE File(j)' = File(j)
  <2>1. \/ mem' = mem
        \/ \E a \in Int : \E t : next <= a /\ mem' = Stored(a, t)
    BY StoreTypes DEF Fills
  <2> QED BY <1>2, <2>1, SameFile
<1> QED BY <1>1, <1>2 DEF File

\* A slot more is a file more.
LEMMA FileAdded ==
    ASSUME StoreInv, NEW e, NEW b, Fills(e, b), count < MaxFiles,
           entry' = [entry EXCEPT ![count] = e], count' = count + 1
    PROVE  Files' = Append(Files, [name |-> e.name, kind |-> e.kind,
                                   body |-> b])
<1>1. count \in Slots /\ TypeOK /\ \A j \in Used : j # count
  BY StoreTypes, Sizes DEF Slots
<1> PICK s : s = count
  OBVIOUS
<1>2. entry'[s] = e /\ \A j \in Used : entry'[j] = entry[j]
  BY <1>1, StoreTypes DEF TypeOK
<1>3. /\ File(s)' = [name |-> e.name, kind |-> e.kind, body |-> b]
      /\ \A j \in Used : File(j)' = File(j)
  BY <1>2, Filled
<1> QED BY <1>1, <1>3, Added

\* Another entry in a slot is another file in its place.
LEMMA FileChanged ==
    ASSUME StoreInv, NEW i \in Used, NEW e, NEW b,
           Fills(e, b) \/ (/\ e.size = entry[i].size /\ e.data = entry[i].data
                           /\ mem' = mem /\ b = Body(i)),
           entry' = [entry EXCEPT ![i] = e], count' = count
    PROVE  Files' = [Files EXCEPT ![i + 1] =
                       [name |-> e.name, kind |-> e.kind, body |-> b]]
<1>1. TypeOK /\ entry'[i] = e /\ \A j \in Used \ {i} : entry'[j] = entry[j]
  BY StoreTypes DEF TypeOK
<1>2. /\ File(i)' = [name |-> e.name, kind |-> e.kind, body |-> b]
      /\ \A j \in Used \ {i} : File(j)' = File(j)
  <2>1. CASE Fills(e, b)
    BY <1>1, <2>1, Filled
  <2>2. CASE /\ e.size = entry[i].size /\ e.data = entry[i].data
             /\ mem' = mem /\ b = Body(i)
    <3>1. Body(i)' = b
      BY <1>1, <2>2 DEF Body
    <3> QED BY <1>1, <2>2, <3>1, SameFile DEF File
  <2> QED BY <2>1, <2>2
<1> QED BY <1>1, <1>2, Changed

\* So an entry of which the body, the name, or body and kind are others is a
\* file with that field replaced.
BodySet(i, b) == Files' = [Files EXCEPT ![i + 1].body = b]
NameSet(i, n) == Files' = [Files EXCEPT ![i + 1].name = n]
DataSet(i, b) ==
    Files' = [Files EXCEPT ![i + 1].body = b, ![i + 1].kind = "file"]

\* Which of them it is depends on what the new entry keeps of the old one.
LEMMA FieldChanged ==
    ASSUME StoreInv, NEW i \in Used, NEW e, NEW b,
           Fills(e, b) \/ (/\ e.size = entry[i].size /\ e.data = entry[i].data
                           /\ mem' = mem /\ b = Body(i)),
           entry' = [entry EXCEPT ![i] = e], count' = count
    PROVE  /\ e.name = entry[i].name /\ e.kind = entry[i].kind => BodySet(i, b)
           /\ e.kind = entry[i].kind /\ b = Body(i) => NameSet(i, e.name)
           /\ e.name = entry[i].name /\ e.kind = "file" => DataSet(i, b)
<1> PICK k : k = i + 1
  OBVIOUS
<1> DEFINE r == [name |-> entry[i].name, kind |-> entry[i].kind,
                 body |-> Body(i)]
<1>1. k \in DOMAIN Files /\ Files[k] = r
  BY StoreTypes, FilesShape DEF File
<1>2. Files' = [Files EXCEPT ![k] =
                  [name |-> e.name, kind |-> e.kind, body |-> b]]
  BY FileChanged
<1>3. [r EXCEPT !.body = b]
        = [name |-> entry[i].name, kind |-> entry[i].kind, body |-> b]
  OBVIOUS
<1>5. [r EXCEPT !.name = e.name]
        = [name |-> e.name, kind |-> entry[i].kind, body |-> Body(i)]
  OBVIOUS
<1>6. [r EXCEPT !.body = b, !.kind = "file"]
        = [name |-> entry[i].name, kind |-> "file", body |-> b]
  <2> DEFINE q == [name |-> entry[i].name, kind |-> entry[i].kind, body |-> b]
  <2>1. [q EXCEPT !.kind = "file"]
          = [name |-> entry[i].name, kind |-> "file", body |-> b]
    OBVIOUS
  <2> HIDE DEF q
  <2>2. [r EXCEPT !.body = b] = q
    BY <1>3 DEF q
  <2> HIDE DEF r
  <2>3. [r EXCEPT !.body = b, !.kind = "file"]
          = [[r EXCEPT !.body = b] EXCEPT !.kind = "file"]
    OBVIOUS
  <2> QED BY <2>1, <2>2, <2>3
<1> HIDE DEF r
<1>4. /\ [Files EXCEPT ![k].body = b]
           = [Files EXCEPT ![k] = [r EXCEPT !.body = b]]
      /\ [Files EXCEPT ![k].body = b, ![k].kind = "file"]
           = [Files EXCEPT ![k] = [r EXCEPT !.body = b, !.kind = "file"]]
      /\ [Files EXCEPT ![k].name = e.name]
           = [Files EXCEPT ![k] = [r EXCEPT !.name = e.name]]
  BY <1>1
<1> QED BY <1>2, <1>3, <1>4, <1>5, <1>6 DEF BodySet, NameSet, DataSet

----------------------------------------------------------------------------
\* Each step of PID 0 is a call of the store, or none.

\* An empty file or a directory is added.
LEMMA StoreCreate ==
    ASSUME StoreInv, Pid0, NEW op \in {"create", "mkdir"}, NEW k \in Kinds,
           Create(op, k)
    PROVE  \E n \in Names : FS!Create(n, k)
<1> DEFINE e == [name |-> pending.name, size |-> 0, data |-> None, kind |-> k]
<1>1. pending.op = op /\ op \in Creations /\ pending.op # "none"
  BY DEF Create, Doing, Creations
<1>2. pending.name \in Names /\ pending.count = count
  BY <1>1, FinishFacts, CommandTypes
<1>3. FS!Lookup(pending.name) = 0 /\ count < MaxFiles
  BY <1>1, FinishFacts DEF Accepted, None
<1>4. /\ entry' = [entry EXCEPT ![count] = e]
      /\ count' = count + 1 /\ mem' = mem /\ vfd' = vfd
  BY <1>2 DEF Create, Keep
<1>5. /\ Fills(e, <<>>)
      /\ FS!NewFile(pending.name, k, <<>>)
           = [name |-> e.name, kind |-> e.kind, body |-> <<>>]
  BY <1>4 DEF Fills, FS!NewFile
<1> HIDE DEF e
<1>6. Files' = Append(Files, FS!NewFile(pending.name, k, <<>>))
  BY <1>3, <1>4, <1>5, FileAdded
<1> QED BY <1>2, <1>3, <1>4, <1>6, Pid0Facts
        DEF FS!Create, FS!Add, Files, Opened

\* cmd_write gives a file a new body, or adds one with it.
LEMMA StoreWrite ==
    ASSUME StoreInv, Pid0, CmdWrite
    PROVE  \E n \in Names, t \in Texts : FS!Write(n, t)
<1> DEFINE t == pending.text
           i == IF pending.at = None THEN pending.count ELSE pending.at
           k == IF pending.at = None THEN "file" ELSE entry[i].kind
           e == [name |-> pending.name, size |-> Len(t), data |-> next,
                 kind |-> k]
<1>1. pending.op = "write" /\ pending.op # "none"
  BY DEF CmdWrite, Doing
<1>2. /\ pending.name \in Names /\ t \in Texts /\ pending.count = count
      /\ pending.at \in Used \cup {None}
      /\ FS!Lookup(pending.name) = pending.at + 1
      /\ Finds(pending.name, pending.at)
  BY <1>1, FinishFacts, CommandTypes
<1>3. pending.at = None => count < MaxFiles
  BY <1>1, FinishFacts DEF Accepted
<1>4. /\ entry' = [entry EXCEPT ![i] = e]
      /\ count' = IF pending.at = None THEN pending.count + 1 ELSE count
      /\ mem' = Stored(next, t) /\ next + Len(t) <= Area /\ vfd' = vfd
  BY DEF CmdWrite, Keep, Fits
<1>5. Fills(e, t)
  BY <1>2, <1>4, TextType DEF Fills
<1>6. CASE pending.at = None
  <2>1. FS!NewFile(pending.name, "file", t)
          = [name |-> e.name, kind |-> e.kind, body |-> t]
    BY <1>6 DEF FS!NewFile
  <2>2. entry' = [entry EXCEPT ![count] = e] /\ count' = count + 1
    BY <1>2, <1>4, <1>6
  <2>3. FS!Lookup(pending.name) = 0
    BY <1>2, <1>6 DEF None
  <2> HIDE DEF e, t
  <2>4. Files' = Append(Files, FS!NewFile(pending.name, "file", t))
    BY <1>3, <1>5, <1>6, <2>1, <2>2, FileAdded
  <2>5. FS!Write(pending.name, t)
    BY <1>4, <2>3, <2>4, Pid0Facts DEF FS!Write, FS!Add, Files, Opened
  <2> QED BY <1>2, <2>5
<1>7. CASE pending.at # None
  <2>1. i \in Used /\ i = pending.at /\ entry[i].name = pending.name
    BY <1>2, <1>7 DEF Finds
  <2>2. /\ entry' = [entry EXCEPT ![i] = e] /\ count' = count
        /\ e.name = entry[i].name /\ e.kind = entry[i].kind
    BY <1>4, <1>7, <2>1
  <2>3. FS!Lookup(pending.name) = i + 1 /\ FS!Lookup(pending.name) # 0
    BY <1>2, <2>1, StoreTypes
  <2> HIDE DEF e, t, i
  <2>4. BodySet(i, t)
    BY <1>5, <2>1, <2>2, FieldChanged
  <2>5. FS!Write(pending.name, t)
    BY <1>4, <2>3, <2>4, Pid0Facts
       DEF FS!Write, FS!SetBody, Files, Opened, BodySet
  <2> QED BY <1>2, <2>5
<1> QED BY <1>6, <1>7

\* cmd_append makes a body longer.
LEMMA StoreExtend ==
    ASSUME StoreInv, Pid0, CmdAppend
    PROVE  \E n \in Names, t \in Texts : FS!Extend(n, t)
<1> DEFINE t == pending.text
           i == pending.at
           body == Body(i) \o t
           e == [entry[i] EXCEPT !.size = Len(body), !.data = next]
<1>1. pending.op = "append" /\ pending.op # "none"
  BY DEF CmdAppend, Doing
<1>2. /\ pending.name \in Names /\ t \in Texts /\ i \in Used
      /\ FS!Lookup(pending.name) = i + 1
  BY <1>1, FinishFacts, CommandTypes DEF Accepted
<1>3. /\ entry' = [entry EXCEPT ![i] = e] /\ count' = count
      /\ mem' = Stored(next, body) /\ next + Len(body) <= Area /\ vfd' = vfd
  BY <1>2, StoreTypes DEF CmdAppend, Keep, Fits, TypeOK
<1>4. body \in Seq(Nat)
  <2>1. Body(i) \in Seq(Nat) /\ t \in Seq(Nat)
    BY <1>2, StoreTypes, BodyType, TextType
  <2> QED BY <2>1, ConcatProperties
<1>5. /\ e.size = Len(body) /\ e.data = next /\ e.name = entry[i].name
      /\ e.kind = entry[i].kind
  BY <1>2, StoreTypes DEF Entries
<1> HIDE DEF body, e, i, t
<1>6. Fills(e, body)
  BY <1>3, <1>4, <1>5 DEF Fills
<1>7. BodySet(i, body)
  BY <1>2, <1>3, <1>5, <1>6, FieldChanged
<1>8. FS!Lookup(pending.name) # 0 /\ Files[i + 1].body = Body(i)
  BY <1>2, StoreTypes, FilesShape DEF File
<1>9. FS!Extend(pending.name, t)
  BY <1>2, <1>3, <1>7, <1>8, Pid0Facts
     DEF FS!Extend, FS!SetBody, Files, Opened, body, BodySet
<1> QED BY <1>2, <1>9

\* cmd_cp adds a file with the body of another.
LEMMA StoreCopy ==
    ASSUME StoreInv, Pid0, CmdCopy
    PROVE  \E n, m \in Names : FS!Copy(n, m)
<1> DEFINE i == pending.at
           body == Body(i)
           e == [name |-> pending.to, size |-> Len(body), data |-> next,
                 kind |-> "file"]
<1>1. pending.op = "cp" /\ pending.op # "none"
  BY DEF CmdCopy, Doing
<1>2. /\ pending.name \in Names /\ pending.to \in Names /\ i \in Used
      /\ FS!Lookup(pending.name) = i + 1 /\ pending.count = count
      /\ count < MaxFiles
  BY <1>1, FinishFacts, CommandTypes DEF Accepted, Creations
<1>3. /\ entry' = [entry EXCEPT ![count] = e] /\ count' = count + 1
      /\ mem' = Stored(next, body) /\ next + Len(body) <= Area /\ vfd' = vfd
  BY <1>2 DEF CmdCopy, Keep, Fits
<1>4. body \in Seq(Nat)
  BY <1>2, StoreTypes, BodyType
<1>5. Fills(e, body)
  BY <1>3, <1>4 DEF Fills
<1>6. FS!NewFile(pending.to, "file", body)
        = [name |-> e.name, kind |-> e.kind, body |-> body]
  BY DEF FS!NewFile
<1>8. FS!Lookup(pending.name) # 0 /\ Files[i + 1].body = body
  BY <1>2, StoreTypes, FilesShape DEF File
<1> HIDE DEF body, e, i
<1>7. Files' = Append(Files, FS!NewFile(pending.to, "file", body))
  BY <1>2, <1>3, <1>5, <1>6, FileAdded
<1>9. FS!Copy(pending.name, pending.to)
  BY <1>2, <1>3, <1>7, <1>8, Pid0Facts DEF FS!Copy, FS!Add, Files, Opened
<1> QED BY <1>2, <1>9

\* cmd_mv gives a file another name.
LEMMA StoreMove ==
    ASSUME StoreInv, Pid0, CmdMove
    PROVE  \E n, m \in Names : FS!Move(n, m)
<1> DEFINE i == pending.at
           e == [entry[i] EXCEPT !.name = pending.to]
<1>1. pending.op = "mv" /\ pending.op # "none"
  BY DEF CmdMove, Doing
<1>2. /\ pending.name \in Names /\ pending.to \in Names /\ i \in Used
      /\ FS!Lookup(pending.name) = i + 1
  BY <1>1, FinishFacts, CommandTypes DEF Accepted
<1>3. /\ entry' = [entry EXCEPT ![i] = e] /\ count' = count /\ mem' = mem
      /\ vfd' = vfd
  BY <1>2, StoreTypes DEF CmdMove, Keep, TypeOK
<1>4. /\ e.size = entry[i].size /\ e.data = entry[i].data
      /\ e.name = pending.to /\ e.kind = entry[i].kind
  BY <1>2, StoreTypes DEF Entries
<1> HIDE DEF e, i
<1>5. NameSet(i, pending.to)
  BY <1>2, <1>3, <1>4, FieldChanged
<1>6. FS!Lookup(pending.name) # 0
  BY <1>2, StoreTypes
<1>7. PICK n, m \in Names : n = pending.name /\ m = pending.to
  BY <1>2
<1>8. FS!Lookup(n) = i + 1
  BY <1>1, <1>2, <1>7, FinishFacts, Looked, StoreTypes DEF i
<1>9. FS!Move(n, m)
  BY <1>3, <1>5, <1>6, <1>7, <1>8, Pid0Facts DEF FS!Move, Files, Opened, NameSet
<1> QED BY <1>9

\* Moving the entries above down by one removes one file: no descriptor is
\* open then, so none has to follow.
LEMMA StoreDelete ==
    ASSUME StoreInv, Pid0, NEW op \in Removals, NEW last, Remove(op, last)
    PROVE  \E n \in Names : FS!Delete(n)
<1> DEFINE gone == pending.at
<1>1. pending.op = op /\ pending.op # "none"
  BY DEF Remove, Doing, Removals
<1>2. /\ pending.name \in Names /\ gone \in Used /\ vfd = None
      /\ FS!Lookup(pending.name) = gone + 1
  BY <1>1, FinishFacts, CommandTypes DEF Accepted
<1>3. /\ entry' = Shifted(gone, last) /\ count' = count - 1 /\ mem' = mem
      /\ vfd' = vfd /\ fd' = fd
  BY DEF Remove, Keep
<1> HIDE DEF gone
<1>4. ASSUME NEW i \in 0 .. count - 2
      PROVE  File(i)' = IF i < gone THEN File(i) ELSE File(i + 1)
  <2>1. i \in Used /\ i + 1 \in Used /\ i \in Slots /\ gone \in Nat
    BY <1>2, StoreTypes
  <2>2. CASE i < gone
    <3>1. entry'[i] = entry[i]
      BY <1>3, <2>1, <2>2, StoreTypes DEF Shifted
    <3> QED BY <1>3, <2>1, <2>2, <3>1, SameFile
  <2>3. CASE ~(i < gone)
    <3>1. entry'[i] = entry[i + 1]
      BY <1>3, <2>1, <2>3, StoreTypes DEF Shifted
    <3> QED BY <1>3, <2>1, <2>3, <3>1, SameFile
  <2> QED BY <2>2, <2>3
<1>5. Files' = FS!RemoveAt(Files, gone + 1)
  BY <1>2, <1>3, <1>4, StoreTypes, Dropped
<1>6. gone \in Nat /\ gone + 1 # 0
  BY <1>2, StoreTypes
<1>7. /\ vfd + 1 = 0 /\ (vfd + 1)' = 0
      /\ \A f \in Fds : Opened[f] = [at |-> 0, off |-> 0]
      /\ Opened' = [f \in Fds |-> [at |-> 0, off |-> 0]]
  BY <1>2, <1>3, Pid0Facts DEF Opened, Closed, None
<1>8. FS!After(0, gone + 1) = 0
  BY <1>6 DEF FS!After
<1>9. Opened' = [f \in Fds |->
                   [Opened[f] EXCEPT !.at = FS!After(@, gone + 1)]]
  BY <1>7, <1>8
<1>10. PICK n \in Names : n = pending.name
  BY <1>2
<1>11. FS!Lookup(n) = gone + 1
  BY <1>1, <1>2, <1>10, FinishFacts, Looked, StoreTypes DEF gone
<1>12. FS!Delete(n)
  BY <1>5, <1>6, <1>7, <1>8, <1>9, <1>11 DEF FS!Delete, Files, Opened
<1> QED BY <1>12

\* The service opens the file it found.
LEMMA StoreServe ==
    ASSUME StoreInv, Pid0, NEW n \in Names, VfsOpen(n)
    PROVE  FS!Serve(n)
<1>1. PICK i \in Used : Finds(n, i) /\ vfd' = i
  BY DEF VfsOpen
<1>2. FS!Lookup(n) = i + 1 /\ FS!Lookup(n) # 0
  BY <1>1, Looked, StoreTypes
<1>3. Files' = Files
  BY DEF VfsOpen, Files, Body
<1> QED BY <1>1, <1>2, <1>3, Pid0Facts DEF FS!Serve, Files, Opened

\* What it writes is the body of the file it has open.
LEMMA StoreServeWrite ==
    ASSUME StoreInv, Pid0, NEW t \in Texts, VfsWrite(t)
    PROVE  FS!ServeWrite(t)
<1> DEFINE i == vfd
           e == [entry[i] EXCEPT !.size = Len(t), !.data = next,
                                 !.kind = "file"]
<1>1. i \in Used /\ i # None /\ vfd' = vfd
  BY StoreTypes DEF VfsWrite, TypeOK, Slots, None
<1>2. /\ entry' = [entry EXCEPT ![i] = e] /\ count' = count
      /\ mem' = Stored(next, t) /\ next + Len(t) <= Area
  BY <1>1, StoreTypes DEF VfsWrite, Fits, TypeOK
<1>3. /\ e.size = Len(t) /\ e.data = next /\ e.name = entry[i].name
      /\ e.kind = "file"
  BY <1>1, StoreTypes DEF Entries
<1>4. i + 1 # 0 /\ t \in Seq(Nat)
  BY <1>1, StoreTypes, TextType
<1> HIDE DEF e, i
<1>5. Fills(e, t)
  BY <1>2, <1>3, <1>4 DEF Fills
<1>6. DataSet(i, t)
  BY <1>1, <1>2, <1>3, <1>5, FieldChanged
<1> QED BY <1>1, <1>4, <1>6, Pid0Facts
        DEF FS!ServeWrite, DataSet, Files, Opened, i

\* Every step of PID 0 is a step of the store or changes nothing in it.
LEMMA Pid0Store == StoreInv /\ Pid0 => [FS!Next]_(FS!vars)
<1> SUFFICES ASSUME StoreInv, Pid0 PROVE [FS!Next]_(FS!vars)
  OBVIOUS
<1>1. CASE \E c \in Commands : Start(c)
  <2>1. Files' = Files /\ vfd' = vfd
    BY <1>1 DEF Start, Files, Body
  <2> QED BY <2>1, Pid0Facts, Stutter
<1>2. CASE Create("create", "file") \/ Create("mkdir", "dir")
  <2>1. \E k \in FS!Kinds, n \in Names : FS!Create(n, k)
    BY <1>2, StoreCreate DEF Kinds, FS!Kinds
  <2> QED BY <2>1 DEF FS!Next
<1>3. CASE CmdWrite
  BY <1>3, StoreWrite DEF FS!Next
<1>4. CASE CmdAppend
  BY <1>4, StoreExtend DEF FS!Next
<1>5. CASE CmdCopy
  BY <1>5, StoreCopy DEF FS!Next
<1>6. CASE CmdMove
  BY <1>6, StoreMove DEF FS!Next
<1>7. CASE CmdRm \/ VfsDelete
  <2>1. \E n \in Names : FS!Delete(n)
    BY <1>7, StoreDelete DEF CmdRm, VfsDelete, Removals
  <2> QED BY <2>1 DEF FS!Next
<1>8. CASE \E n \in Names : VfsOpen(n)
  BY <1>8, StoreServe DEF FS!Next
<1>9. CASE VfsClose
  <2>1. Files' = Files /\ vfd' + 1 = 0
    BY <1>9 DEF VfsClose, Files, Body, None
  <2>2. FS!EndService
    BY <2>1, Pid0Facts DEF FS!EndService, Files, Opened
  <2> QED BY <2>2 DEF FS!Next
<1>10. CASE \E t \in Texts : VfsWrite(t)
  BY <1>10, StoreServeWrite DEF FS!Next
<1> QED BY <1>1, <1>2, <1>3, <1>4, <1>5, <1>6, <1>7, <1>8, <1>9, <1>10, Zenon
        DEF Pid0, Finish

----------------------------------------------------------------------------
\* Each system call is a call of the store, or none.

\* What is so in every step of the program.
LEMMA ProgramFacts ==
    ASSUME StoreInv, Program
    PROVE  /\ habits = "own" /\ vfd' = vfd
           /\ \A f \in Fds : fd[f] # Closed =>
                 /\ fd[f] \in [at : Slots, off : Nat]
                 /\ fd[f].at \in Used /\ Opened[f].at = fd[f].at + 1
                 /\ Opened[f].at # 0 /\ Opened[f].off = fd[f].off
<1>1. /\ Alone /\ habits \in {"commands", "own"}
      /\ fd \in [Fds -> {Closed} \cup [at : Slots, off : Nat]]
  BY RamFsAssumption DEF StoreInv, IInv, TypeInv, TypeOK
<1>2. habits # "commands" /\ vfd' = vfd
  BY DEF Program, SysOpen, SysClose, SysRead, SysWrite, SysLseek, SysUnlink,
         SysKeep, User
<1>3. \A f \in Fds : fd[f] # Closed => fd[f].at \in Used
  BY <1>1, <1>2 DEF Alone
<1>4. \A f \in Fds : fd[f] # Closed => fd[f].at + 1 # 0
  BY <1>3, StoreTypes
<1> QED BY <1>1, <1>2, <1>3, <1>4 DEF Opened

\* The descriptor f is given a file and an offset.
LEMMA FdSet ==
    ASSUME StoreInv, NEW f \in Fds, NEW i, NEW off
    PROVE  /\ fd' = [fd EXCEPT ![f] = [at |-> i, off |-> off]] =>
                Opened' = [Opened EXCEPT ![f] = [at |-> i + 1, off |-> off]]
           /\ fd' = [fd EXCEPT ![f] = Closed] =>
                Opened' = [Opened EXCEPT ![f] = FS!Closed]
           /\ fd[f] # Closed /\ fd' = [fd EXCEPT ![f].off = off] =>
                Opened' = [Opened EXCEPT ![f].off = off]
<1>1. fd \in [Fds -> {Closed} \cup [at : Slots, off : Nat]]
  BY DEF StoreInv, IInv, TypeInv, TypeOK
<1>2. ASSUME fd' = [fd EXCEPT ![f] = [at |-> i, off |-> off]]
      PROVE  Opened' = [Opened EXCEPT ![f] = [at |-> i + 1, off |-> off]]
  BY <1>1, <1>2 DEF Opened
<1>3. ASSUME fd' = [fd EXCEPT ![f] = Closed]
      PROVE  Opened' = [Opened EXCEPT ![f] = FS!Closed]
  <2>1. Closed.at + 1 = 0 /\ Closed.off = 0
    BY DEF Closed, None
  <2>2. fd'[f] = Closed /\ \A g \in Fds \ {f} : fd'[g] = fd[g]
    BY <1>1, <1>3
  <2>3. Opened' = [g \in Fds |-> [at |-> fd'[g].at + 1, off |-> fd'[g].off]]
    BY DEF Opened
  <2>4. \A g \in Fds : [at |-> fd'[g].at + 1, off |-> fd'[g].off]
                         = IF g = f THEN FS!Closed ELSE Opened[g]
    BY <2>1, <2>2 DEF Opened, FS!Closed
  <2>5. DOMAIN Opened = Fds
    BY DEF Opened
  <2> QED BY <2>3, <2>4, <2>5
<1>4. ASSUME fd[f] # Closed, fd' = [fd EXCEPT ![f].off = off]
      PROVE  Opened' = [Opened EXCEPT ![f].off = off]
  BY <1>1, <1>4 DEF Opened
<1> QED BY <1>2, <1>3, <1>4

\* sys_open finds, truncates or adds a file, or is refused.
LEMMA StoreOpen ==
    ASSUME StoreInv, Program, NEW f \in Fds, NEW n \in Names,
           NEW trunc \in BOOLEAN, SysOpen(f, n, trunc)
    PROVE  FS!Open(f, n, trunc) \/ UNCHANGED FS!vars
<1>1. Opened[f] = FS!Closed /\ vfd' = vfd /\ mem' = mem
  BY DEF SysOpen, NextFd, SysKeep, Opened, Closed, None, FS!Closed
<1>2. PICK i \in Used \cup {None} :
          /\ Finds(n, i)
          /\ \/ /\ i # None
                /\ entry' = [entry EXCEPT ![i].size = IF trunc THEN 0 ELSE @]
                /\ fd' = [fd EXCEPT ![f] = [at |-> i, off |-> 0]]
                /\ UNCHANGED count
             \/ /\ i = None /\ count < MaxFiles
                /\ entry' = [entry EXCEPT ![count] =
                      [name |-> n, size |-> 0, data |-> None, kind |-> "file"]]
                /\ fd' = [fd EXCEPT ![f] = [at |-> count, off |-> 0]]
                /\ count' = count + 1
             \/ UNCHANGED <<entry, fd, count>>
  BY DEF SysOpen
<1>3. FS!Lookup(n) = i + 1
  BY <1>2, Looked, StoreTypes
<1>4. CASE /\ i # None
           /\ entry' = [entry EXCEPT ![i].size = IF trunc THEN 0 ELSE @]
           /\ fd' = [fd EXCEPT ![f] = [at |-> i, off |-> 0]]
           /\ UNCHANGED count
  <2> DEFINE e == [entry[i] EXCEPT !.size = 0]
  <2>1. i \in Used /\ i + 1 # 0
    BY <1>2, <1>4, StoreTypes
  <2>2. Opened' = [Opened EXCEPT ![f] = [at |-> i + 1, off |-> 0]]
    BY <1>4, FdSet
  <2>3. IF trunc THEN BodySet(i, <<>>) ELSE Files' = Files
    <3>1. CASE trunc
      <4>1. entry' = [entry EXCEPT ![i] = e]
        BY <1>4, <2>1, <3>1, StoreTypes DEF TypeOK
      <4>2. e.size = 0 /\ e.name = entry[i].name /\ e.kind = entry[i].kind
        BY <2>1, StoreTypes DEF Entries
      <4> HIDE DEF e
      <4>3. Fills(e, <<>>)
        BY <1>1, <4>2 DEF Fills
      <4> QED BY <1>4, <2>1, <3>1, <4>1, <4>2, <4>3, FieldChanged
    <3>2. CASE ~trunc
      <4> DEFINE d == [entry[i] EXCEPT !.size = @]
      <4>2. d = entry[i] /\ entry' = [entry EXCEPT ![i] = d]
        BY <1>4, <2>1, <3>2, StoreTypes DEF TypeOK, Entries
      <4>1. entry' = entry
        BY <2>1, <4>2, StoreTypes DEF TypeOK
      <4> QED BY <1>1, <1>4, <3>2, <4>1 DEF Files, Body
    <3> QED BY <3>1, <3>2
  <2> QED BY <1>1, <1>3, <2>1, <2>2, <2>3
          DEF FS!Open, BodySet, Files, Opened
<1>5. CASE /\ i = None /\ count < MaxFiles
           /\ entry' = [entry EXCEPT ![count] =
                 [name |-> n, size |-> 0, data |-> None, kind |-> "file"]]
           /\ fd' = [fd EXCEPT ![f] = [at |-> count, off |-> 0]]
           /\ count' = count + 1
  <2> DEFINE e == [name |-> n, size |-> 0, data |-> None, kind |-> "file"]
  <2>1. /\ Fills(e, <<>>)
        /\ FS!NewFile(n, "file", <<>>)
             = [name |-> e.name, kind |-> e.kind, body |-> <<>>]
    BY <1>1 DEF Fills, FS!NewFile
  <2>2. entry' = [entry EXCEPT ![count] = e]
    BY <1>5
  <2> HIDE DEF e
  <2>3. Files' = Append(Files, FS!NewFile(n, "file", <<>>))
    BY <1>5, <2>1, <2>2, FileAdded
  <2>4. Opened' = [Opened EXCEPT ![f] = [at |-> Len(Files) + 1, off |-> 0]]
    <3>1. Len(Files) = count
      BY FilesShape, StoreTypes
    <3> QED BY <1>5, <3>1, FdSet
  <2>5. FS!Lookup(n) = 0
    BY <1>3, <1>5 DEF None
  <2> QED BY <1>1, <2>3, <2>4, <2>5 DEF FS!Open, Files, Opened
<1>6. CASE UNCHANGED <<entry, fd, count>>
  <2>1. Files' = Files /\ Opened' = Opened
    BY <1>1, <1>6 DEF Files, Body, Opened
  <2> QED BY <1>1, <2>1, Stutter
<1> QED BY <1>2, <1>4, <1>5, <1>6

\* sys_unlink leaves a file without name, kind and body in its place.
LEMMA StoreUnlink ==
    ASSUME StoreInv, Program, NEW n \in Names, SysUnlink(n)
    PROVE  FS!Unlink(n)
<1>1. PICK i \in Used :
          /\ Finds(n, i)
          /\ entry' = [entry EXCEPT ![i] =
                          [NoEntry EXCEPT !.data = entry[i].data]]
  BY DEF SysUnlink
<1> DEFINE e == [NoEntry EXCEPT !.data = entry[i].data]
<1>2. /\ e.size = 0 /\ e.name = "" /\ e.kind = "none"
      /\ entry' = [entry EXCEPT ![i] = e]
  BY <1>1 DEF NoEntry, NoName
<1>3. count' = count /\ mem' = mem /\ vfd' = vfd /\ Opened' = Opened
  BY DEF SysUnlink, SysKeep, Opened
<1>4. FS!Lookup(n) = i + 1 /\ i + 1 # 0
  BY <1>1, Looked, StoreTypes
<1> HIDE DEF e
<1>5. Fills(e, <<>>)
  BY <1>2, <1>3 DEF Fills
<1>6. Files' = [Files EXCEPT ![i + 1] =
                  [name |-> e.name, kind |-> e.kind, body |-> <<>>]]
  BY <1>2, <1>3, <1>5, FileChanged
<1>7. Files' = [Files EXCEPT ![i + 1] = FS!NewFile("", "none", <<>>)]
  BY <1>2, <1>6 DEF FS!NewFile
<1> QED BY <1>3, <1>4, <1>7 DEF FS!Unlink, Files, Opened

\* The other calls change a descriptor only.
LEMMA StoreFds ==
    ASSUME StoreInv, Program, NEW f \in Fds
    PROVE  /\ SysClose(f) => FS!Close(f)
           /\ SysRead(f) => FS!Read(f)
           /\ \A off \in 0 .. MaxSeek : SysLseek(f, off) => FS!Seek(f, off)
<1>1. ASSUME SysClose(f) PROVE FS!Close(f)
  <2>1. Opened' = [Opened EXCEPT ![f] = FS!Closed] /\ Files' = Files
        /\ vfd' = vfd
    BY <1>1, FdSet DEF SysClose, SysKeep, Files, Body
  <2> QED BY <2>1 DEF FS!Close, Files, Opened
<1>2. ASSUME SysRead(f) PROVE FS!Read(f)
  <2>1. PICK off \in fd[f].off + 1 .. entry[fd[f].at].size :
            fd' = [fd EXCEPT ![f].off = off]
    BY <1>2 DEF SysRead
  <2>2. fd[f] # Closed /\ Files' = Files /\ vfd' = vfd
    BY <1>2 DEF SysRead, SysKeep, Files, Body
  <2>3. Opened' = [Opened EXCEPT ![f].off = off]
    BY <2>1, <2>2, FdSet
  <2>4. /\ Opened[f].at # 0 /\ Opened[f].off = fd[f].off
        /\ Files[Opened[f].at].body = Body(fd[f].at)
    BY <2>2, ProgramFacts, FilesShape, StoreTypes DEF File
  <2>5. Len(Body(fd[f].at)) = entry[fd[f].at].size
    BY <2>2, ProgramFacts, StoreTypes, BodyType
  <2>6. off \in Opened[f].off + 1 .. Len(Files[Opened[f].at].body)
    BY <2>1, <2>4, <2>5
  <2> QED BY <2>2, <2>3, <2>4, <2>6 DEF FS!Read, Files, Opened
<1>3. ASSUME NEW off \in 0 .. MaxSeek, SysLseek(f, off) PROVE FS!Seek(f, off)
  <2>1. /\ fd[f] # Closed /\ Files' = Files /\ vfd' = vfd
        /\ fd' = [fd EXCEPT ![f].off = off]
    BY <1>3 DEF SysLseek, SysKeep, Files, Body
  <2>2. Opened' = [Opened EXCEPT ![f].off = off] /\ Opened[f].at # 0
    BY <2>1, FdSet, ProgramFacts
  <2> QED BY <2>1, <2>2 DEF FS!Seek, Files, Opened
<1> QED BY <1>1, <1>2, <1>3

\* The length and the cells of two sequences one after the other.
Joined(s, a, b, V, m, n) ==
    /\ s \in Seq(V) /\ Len(s) = m + n
    /\ \A k \in 1 .. m : s[k] = a[k]
    /\ \A k \in 1 .. n : s[m + k] = b[k]

\* What is joined is both, one after the other.
LEMMA Concat ==
    ASSUME NEW V, NEW a \in Seq(V), NEW b \in Seq(V), NEW m \in Nat,
           NEW n \in Nat,
           Len(a) = m, Len(b) = n
    PROVE  Joined(a \o b, a, b, V, m, n)
<1>1. a \o b \in Seq(V) /\ Len(a \o b) = m + n
  BY ConcatProperties
<1>2. \A k \in 1 .. m : (a \o b)[k] = a[k]
  OBVIOUS
<1>3. \A k \in 1 .. n : (a \o b)[m + k] = b[k]
  OBVIOUS
<1> QED BY <1>1, <1>2, <1>3 DEF Joined

\* n cells of a sequence, behind the first f of it.
Piece(p, body, f, n, V) ==
    /\ p \in Seq(V) /\ Len(p) = n
    /\ \A k \in 1 .. n : p[k] = body[f + k]

\* What is behind the text, if anything, is one.
LEMMA RestSeq ==
    ASSUME NEW V, NEW body \in Seq(V), NEW L \in Nat, L = Len(body),
           NEW e \in Nat, NEW h \in Nat, L = e + h \/ (h = 0 /\ L <= e)
    PROVE  Piece(SubSeq(body, e + 1, L), body, e, h, V)
<1>1. CASE h > 0
  <2>1. e + 1 \in 1 .. L /\ L - (e + 1) + 1 = h
    BY <1>1
  <2>2. \A k \in 1 .. h : (e + 1) + k - 1 = e + k
    OBVIOUS
  <2>3. /\ SubSeq(body, e + 1, L) \in Seq(V)
        /\ Len(SubSeq(body, e + 1, L)) = L - (e + 1) + 1
        /\ \A k \in 1 .. L - (e + 1) + 1 :
              SubSeq(body, e + 1, L)[k] = body[(e + 1) + k - 1]
    BY <2>1, SubSeqProperties
  <2> QED BY <2>1, <2>2, <2>3 DEF Piece
<1>2. CASE h = 0
  <2>1. SubSeq(body, e + 1, L) = <<>>
    BY <1>2
  <2> QED BY <1>2, <2>1 DEF Piece
<1> QED BY <1>1, <1>2

\* So is what is before it.
LEMMA FrontSeq ==
    ASSUME NEW V, NEW body \in Seq(V), NEW i \in Nat, i <= Len(body)
    PROVE  Piece(SubSeq(body, 1, i), body, 0, i, V)
<1>1. SubSeq(body, 1, i) \in Seq(V) /\ Len(SubSeq(body, 1, i)) = i
  OBVIOUS
<1>2. \A k \in 1 .. i : SubSeq(body, 1, i)[k] = body[0 + k]
  OBVIOUS
<1> QED BY <1>1, <1>2 DEF Piece

\* A body that was written into, cell by cell: the first i cells of it, g
\* cells that hold anything, the text, and the last h cells of it.
Overwritten(V, body, t, gap, new, off, e, i, g, h) ==
    /\ body \in Seq(V) /\ t \in Seq(V) /\ new \in Seq(V)
    /\ gap \in [1 .. g -> V]
    /\ off \in Nat /\ e \in Nat /\ i \in Nat /\ g \in Nat /\ h \in Nat
    /\ e = off + Len(t) /\ off = i + g /\ i <= Len(body)
    /\ g > 0 => i = Len(body)
    /\ Len(body) = e + h \/ (h = 0 /\ Len(body) <= e)
    /\ Len(new) = e + h
    /\ \A k \in 1 .. e + h :
          /\ off < k /\ k <= e => new[k] = t[k - off]
          /\ ~(off < k /\ k <= e) /\ k <= Len(body) => new[k] = body[k]
          /\ ~(off < k /\ k <= e) /\ ~(k <= Len(body))
                => new[k] = gap[k - Len(body)]

\* A body like that is made of those parts.
LEMMA PutBody ==
    ASSUME NEW V, NEW body, NEW t, NEW gap, NEW new, NEW off, NEW e, NEW i,
           NEW g, NEW h, Overwritten(V, body, t, gap, new, off, e, i, g, h)
    PROVE  new = SubSeq(body, 1, i) \o gap \o t
                    \o SubSeq(body, e + 1, Len(body))
<1> PICK L \in Nat, m \in Nat : L = Len(body) /\ m = Len(t)
  <2>1. body \in Seq(V) /\ t \in Seq(V)
    BY DEF Overwritten
  <2>2. Len(body) \in Nat /\ Len(t) \in Nat
    BY <2>1
  <2> QED BY <2>2, Zenon
<1>1. /\ body \in Seq(V) /\ t \in Seq(V) /\ new \in Seq(V)
      /\ off \in Nat /\ e \in Nat /\ i \in Nat /\ g \in Nat /\ h \in Nat
      /\ L = Len(body) /\ m = Len(t) /\ e = off + m
      /\ i <= L /\ off = i + g /\ (g > 0 => i = L)
      /\ (L = e + h \/ (h = 0 /\ L <= e)) /\ Len(new) = e + h
      /\ gap \in [1 .. g -> V]
  BY DEF Overwritten
<1>0. \A k \in 1 .. e + h :
         /\ off < k /\ k <= e => new[k] = t[k - off]
         /\ ~(off < k /\ k <= e) /\ k <= L => new[k] = body[k]
         /\ ~(off < k /\ k <= e) /\ ~(k <= L) => new[k] = gap[k - L]
  BY DEF Overwritten
<1> USE <1>1
<1> DEFINE a == SubSeq(body, 1, i)
           d == SubSeq(body, e + 1, L)
           s == a \o gap
           u == s \o t
           w == u \o d
<1>2. Piece(a, body, 0, i, V)
  BY FrontSeq
<1>3. gap \in Seq(V) /\ Len(gap) = g
  OBVIOUS
<1>4. Piece(d, body, e, h, V)
  BY RestSeq
<1> HIDE DEF a, d
<1>5. Joined(s, a, gap, V, i, g)
  <2>1. a \in Seq(V) /\ Len(a) = i
    BY <1>2 DEF Piece
  <2> QED BY <1>3, <2>1, Concat
<1> HIDE DEF s
<1>6. Joined(u, s, t, V, off, m)
  <2>1. s \in Seq(V) /\ Len(s) = off
    BY <1>5 DEF Joined
  <2> QED BY <2>1, Concat DEF u
<1> HIDE DEF u
<1>7. Joined(w, u, d, V, e, h)
  <2>1. u \in Seq(V) /\ Len(u) = e
    BY <1>6 DEF Joined
  <2>2. d \in Seq(V) /\ Len(d) = h
    BY <1>4 DEF Piece
  <2> QED BY <2>1, <2>2, Concat DEF w
<1> HIDE DEF w
<1>9. w \in Seq(V) /\ Len(w) = e + h
  BY <1>7 DEF Joined
<1>10. ASSUME NEW k \in 1 .. e + h PROVE w[k] = new[k]
  <2>1. k \in Nat /\ 1 <= k /\ k <= e + h
    OBVIOUS
  <2>2. CASE k <= off /\ k <= L
    <3>1. /\ k \in 1 .. i /\ k \in 1 .. off /\ k \in 1 .. e
          /\ ~(off < k /\ k <= e)
      BY <2>1, <2>2
    <3>2. w[k] = a[k]
      BY <1>5, <1>6, <1>7, <3>1 DEF Joined
    <3>3. a[k] = body[0 + k] /\ 0 + k = k
      BY <1>2, <2>1, <3>1 DEF Piece
    <3> QED BY <1>0, <2>2, <3>1, <3>2, <3>3
  <2>3. CASE k <= off /\ ~(k <= L)
    <3>0. i = L
      BY <2>1, <2>3
    <3>1. /\ k - L \in 1 .. g /\ i + (k - L) = k
          /\ k \in 1 .. off /\ k \in 1 .. e /\ ~(off < k /\ k <= e)
      BY <2>1, <2>3, <3>0
    <3>2. w[k] = s[k]
      BY <1>6, <1>7, <3>1 DEF Joined
    <3>3. s[i + (k - L)] = gap[k - L]
      BY <1>5, <3>1 DEF Joined
    <3> QED BY <1>0, <2>3, <3>0, <3>1, <3>2, <3>3
  <2>4. CASE off < k /\ k <= e
    <3>1. k - off \in 1 .. m /\ off + (k - off) = k /\ k \in 1 .. e
      BY <2>1, <2>4
    <3>2. w[k] = u[k]
      BY <1>7, <3>1 DEF Joined
    <3>3. u[off + (k - off)] = t[k - off]
      BY <1>6, <3>1 DEF Joined
    <3> QED BY <1>0, <2>4, <3>1, <3>2, <3>3
  <2>5. CASE ~(k <= e)
    <3>1. /\ k - e \in 1 .. h /\ e + (k - e) = k /\ k <= L
          /\ ~(off < k /\ k <= e)
      BY <2>1, <2>5
    <3>2. w[e + (k - e)] = d[k - e]
      BY <1>7, <3>1 DEF Joined
    <3>3. d[k - e] = body[e + (k - e)]
      BY <1>4, <3>1 DEF Piece
    <3> QED BY <1>0, <2>5, <3>1, <3>2, <3>3
  <2> QED BY <2>1, <2>2, <2>3, <2>4, <2>5
<1>11. w = new
  BY <1>9, <1>10, SeqEqual
<1> QED BY <1>11 DEF w, u, s, a, d

\* The address sys_write works from: where the body of slot i is, or memory
\* not handed out when it has none.
Base(i, a) ==
    \/ entry[i].data = None /\ a = next /\ entry[i].size = 0
    \/ entry[i].data # None /\ a = entry[i].data /\ a + entry[i].size <= Area

\* A write within the block at that address changes no other body.
LEMMA OthersKept ==
    ASSUME StoreInv, habits = "own", NEW i \in Used, i # 0,
           NEW a \in Nat, Base(i, a), NEW p \in Nat, a <= p,
           NEW t \in Texts, p + Len(t) <= a + Block, mem' = Stored(p, t),
           NEW j \in Used \ {i}, entry'[j] = entry[j]
    PROVE  Body(j)' = Body(j)
<1>1. TypeOK /\ InArea /\ j \in Slots /\ i \in Slots /\ next \in Nat
  BY StoreTypes
<1>2. Len(t) \in Nat
  BY TextType
<1>3. ASSUME NEW c \in Cells, entry[j].data <= c,
             c < entry[j].data + entry[j].size
      PROVE  mem'[c] = mem[c]
  <2>1. c \in Int /\ c < next /\ c \notin Region(i)
    BY <1>3, InRegion, Sizes DEF Cells
  <2>2. ~(c >= p /\ c < p + Len(t))
    <3>1. CASE entry[i].data = None
      BY <1>1, <1>2, <2>1, <3>1 DEF Base
    <3>2. CASE entry[i].data # None
      <4>1. Region(i) = a .. a + Block - 1
        BY <3>2, Zenon DEF Base, Region
      <4>2. ~(a <= c /\ c <= a + Block - 1)
        BY <2>1, <4>1
      <4> QED BY <1>2, <2>1, <4>2, Sizes
    <3> QED BY <3>1, <3>2
  <2> QED BY <2>2 DEF Stored
<1> QED BY <1>1, <1>3, BodyKept

\* The body that is written into, cell by cell.
CellByCell(i, a, off, t, e, S, n) ==
    /\ Body(i)' = [k \in 1 .. n |-> mem'[a + k - 1]]
    /\ \A k \in 1 .. n :
          /\ a + k - 1 \in Cells
          /\ off < k /\ k <= e => mem'[a + k - 1] = t[k - off]
          /\ ~(off < k /\ k <= e) => mem'[a + k - 1] = mem[a + k - 1]
    /\ \A k \in 1 .. S : mem[a + k - 1] = Body(i)[k]

\* A write does that.
LEMMA CellsWritten ==
    ASSUME StoreInv, NEW i \in Used, NEW a \in Nat, Base(i, a),
           NEW off \in Nat, NEW t, NEW m \in Nat, m = Len(t),
           NEW e \in Nat, e = off + m, a + e <= Area,
           NEW S \in Nat, S = entry[i].size, NEW n \in Nat,
           n = e \/ n = S, e <= n, S <= n,
           entry'[i].data = a, entry'[i].size = n, mem' = Stored(a + off, t)
    PROVE  CellByCell(i, a, off, t, e, S, n)
<1>1. Body(i)' = [k \in 1 .. n |-> mem'[a + k - 1]]
  BY DEF Body
<1>2. a + S <= Area \/ S = 0
  BY DEF Base
<1>3. ASSUME NEW k \in 1 .. n
      PROVE  /\ a + k - 1 \in Cells
             /\ off < k /\ k <= e => mem'[a + k - 1] = t[k - off]
             /\ ~(off < k /\ k <= e) => mem'[a + k - 1] = mem[a + k - 1]
  <2>1. a + k - 1 \in Cells
    BY <1>2, Sizes DEF Cells
  <2> PICK c \in Int : c = a + k - 1
    OBVIOUS
  <2>2. mem'[c] = IF c >= a + off /\ c < a + off + Len(t)
                  THEN t[c - (a + off) + 1] ELSE mem[c]
    BY <2>1 DEF Stored
  <2>3. (c >= a + off /\ c < a + off + Len(t)) <=> (off < k /\ k <= e)
    OBVIOUS
  <2>4. c - (a + off) + 1 = k - off
    OBVIOUS
  <2> QED BY <2>1, <2>2, <2>3, <2>4
<1>4. ASSUME NEW k \in 1 .. S PROVE mem[a + k - 1] = Body(i)[k]
  <2>1. entry[i].data = a
    BY <1>4 DEF Base
  <2> QED BY <2>1 DEF Body
<1> QED BY <1>1, <1>3, <1>4 DEF CellByCell

\* The lengths of the parts of a body that had S cells when cells off to e
\* of it are written: kept before, anything, kept behind, and the whole.
Parts(S, off, e, x, g, h, n) ==
    /\ S \in Nat /\ off \in Nat /\ e \in Nat /\ x \in Nat /\ g \in Nat
    /\ h \in Nat /\ n \in Nat
    /\ x <= S /\ off = x + g /\ (g > 0 => x = S)
    /\ S = e + h \/ (h = 0 /\ S <= e)
    /\ n = e + h /\ off <= e

\* There are such lengths.
Cut(S, off, e, n) ==
    \E x, g, h : /\ Parts(S, off, e, x, g, h, n)
                /\ x = (IF off < S THEN off ELSE S)
                /\ 1 .. g = 1 .. off - S
LEMMA PartsExist ==
    ASSUME NEW S \in Nat, NEW off \in Nat, NEW e \in Nat, off <= e, NEW n,
           n = IF e > S THEN e ELSE S
    PROVE  Cut(S, off, e, n)
<1>1. CASE off < S /\ e < S
  <2>1. Parts(S, off, e, off, 0, S - e, n) /\ 1 .. 0 = 1 .. off - S
    BY <1>1 DEF Parts
  <2> QED BY <1>1, <2>1 DEF Cut
<1>2. CASE off < S /\ ~(e < S)
  <2>1. Parts(S, off, e, off, 0, 0, n) /\ 1 .. 0 = 1 .. off - S
    BY <1>2 DEF Parts
  <2> QED BY <1>2, <2>1 DEF Cut
<1>3. CASE ~(off < S)
  <2>1. Parts(S, off, e, S, off - S, 0, n)
    BY <1>3 DEF Parts
  <2> QED BY <1>3, <2>1 DEF Cut
<1> QED BY <1>1, <1>2, <1>3

\* A cell that is neither of the text nor of the old body is in between.
LEMMA InGap ==
    ASSUME NEW S, NEW off, NEW e, NEW x, NEW g, NEW h, NEW n,
           Parts(S, off, e, x, g, h, n), NEW k \in 1 .. e + h,
           ~(off < k /\ k <= e), ~(k <= S)
    PROVE  k - S \in 1 .. g
<1>1. /\ S \in Nat /\ off \in Nat /\ e \in Nat /\ x \in Nat /\ g \in Nat
      /\ h \in Nat
      /\ x <= S /\ off = x + g /\ (g > 0 => x = S)
      /\ S = e + h \/ (h = 0 /\ S <= e)
  BY DEF Parts
<1>2. k <= off
  BY <1>1
<1>3. x = S
  BY <1>1, <1>2
<1> QED BY <1>1, <1>2, <1>3

\* A step that writes the text t there, into slot i with memory at a.
PutInto(i, a, off, t, n) ==
    /\ entry'[i].data = a /\ entry'[i].size = n /\ mem' = Stored(a + off, t)

\* The body after it.
PutResult(i, t, e, x, g, S) ==
    \E gap \in [1 .. g -> Values] :
        Body(i)' = SubSeq(Body(i), 1, x) \o gap \o t
                       \o SubSeq(Body(i), e + 1, S)

\* It is the old one with the text put into it.
LEMMA NewBody ==
    ASSUME StoreInv, NEW i \in Used, NEW a \in Nat, Base(i, a),
           NEW t \in Texts, NEW off, NEW e, NEW S, NEW x, NEW g, NEW h, NEW n,
           Parts(S, off, e, x, g, h, n), PutInto(i, a, off, t, n),
           S = entry[i].size, e = off + Len(t), a + e <= Area
    PROVE  PutResult(i, t, e, x, g, S)
<1> PICK m \in Nat : m = Len(t)
  BY TextType
<1>0. /\ S \in Nat /\ off \in Nat /\ e \in Nat /\ x \in Nat /\ g \in Nat
      /\ h \in Nat /\ n \in Nat
      /\ x <= S /\ off = x + g /\ (g > 0 => x = S)
      /\ (S = e + h \/ (h = 0 /\ S <= e))
      /\ n = e + h /\ e = off + m /\ off <= e
  BY DEF Parts
<1> USE <1>0
<1>1. /\ TypeOK /\ InArea /\ i \in Slots /\ mem \in [Cells -> Values]
  BY StoreTypes DEF StoreInv, Held
<1>2. t \in Seq(Values) /\ Body(i) \in Seq(Values) /\ Len(Body(i)) = S
  BY <1>1, TextValues, BodyValues, BodyType
<1>3. mem' \in [Cells -> Values]
  BY <1>1, <1>2, StoredValues DEF PutInto
<1>4. /\ Body(i)' = [k \in 1 .. n |-> mem'[a + k - 1]]
      /\ \A k \in 1 .. n :
            /\ a + k - 1 \in Cells
            /\ off < k /\ k <= e => mem'[a + k - 1] = t[k - off]
            /\ ~(off < k /\ k <= e) => mem'[a + k - 1] = mem[a + k - 1]
      /\ \A k \in 1 .. S : mem[a + k - 1] = Body(i)[k]
  <2>1. (n = e \/ n = S) /\ e <= n /\ S <= n
    OBVIOUS
  <2>2. CellByCell(i, a, off, t, e, S, n)
    BY <2>1, CellsWritten DEF PutInto
  <2> QED BY <2>2 DEF CellByCell
<1>5. PICK new : new = Body(i)'
  OBVIOUS
<1>6. new \in [1 .. n -> Values]
  BY <1>3, <1>4, <1>5
<1>7. new \in Seq(Values) /\ Len(new) = n
  <2>1. n \in Nat
    OBVIOUS
  <2> QED BY ONLY <1>6, <2>1
<1> DEFINE gap == [k \in 1 .. g |-> mem[a + (S + k) - 1]]
<1>8. ASSUME NEW k \in 1 .. g PROVE S + k \in 1 .. n
  OBVIOUS
<1>9. gap \in [1 .. g -> Values]
  <2>1. \A k \in 1 .. g : mem[a + (S + k) - 1] \in Values
    BY <1>1, <1>4, <1>8
  <2> QED BY <2>1
<1>10. ASSUME NEW k \in 1 .. e + h
       PROVE  /\ off < k /\ k <= e => new[k] = t[k - off]
              /\ ~(off < k /\ k <= e) /\ k <= S => new[k] = Body(i)[k]
              /\ ~(off < k /\ k <= e) /\ ~(k <= S) => new[k] = gap[k - S]
  <2>1. k \in 1 .. n /\ k \in Nat
    OBVIOUS
  <2>2. new[k] = mem'[a + k - 1]
    BY <1>4, <1>5, <2>1
  <2>3. ASSUME off < k /\ k <= e PROVE new[k] = t[k - off]
    BY <1>4, <2>1, <2>2, <2>3
  <2>4. ASSUME ~(off < k /\ k <= e), k <= S PROVE new[k] = Body(i)[k]
    <3>1. k \in 1 .. S
      BY <2>4
    <3> QED BY <1>4, <2>1, <2>2, <2>4, <3>1
  <2>5. ASSUME ~(off < k /\ k <= e), ~(k <= S) PROVE new[k] = gap[k - S]
    <3>1. k - S \in 1 .. g
      BY <2>5, InGap
    <3>2. gap[k - S] = mem[a + (S + (k - S)) - 1]
      BY <3>1
    <3>3. a + (S + (k - S)) - 1 = a + k - 1
      <4>1. S \in Int /\ a \in Int /\ k \in Int
        BY <2>1
      <4> QED BY ONLY <4>1
    <3>4. new[k] = mem[a + k - 1]
      BY <1>4, <2>1, <2>2, <2>5
    <3> QED BY <3>2, <3>3, <3>4
  <2> QED BY <2>3, <2>4, <2>5
<1> HIDE DEF gap
<1>11. new = SubSeq(Body(i), 1, x) \o gap \o t \o SubSeq(Body(i), e + 1, S)
  <2>1. PICK V, body : V = Values /\ body = Body(i)
    OBVIOUS
  <2>2. /\ t \in Seq(V) /\ body \in Seq(V) /\ S = Len(body)
        /\ new \in Seq(V) /\ Len(new) = e + h /\ gap \in [1 .. g -> V]
    BY <1>2, <1>7, <1>9, <2>1
  <2>3. \A k \in 1 .. e + h :
           /\ off < k /\ k <= e => new[k] = t[k - off]
           /\ ~(off < k /\ k <= e) /\ k <= S => new[k] = body[k]
           /\ ~(off < k /\ k <= e) /\ ~(k <= S) => new[k] = gap[k - S]
    BY <1>10, <2>1
  <2>4. /\ off = x + g /\ (g > 0 => x = S) /\ x <= S
        /\ (S = e + h \/ (h = 0 /\ S <= e)) /\ e = off + Len(t)
    OBVIOUS
  <2>5. Overwritten(V, body, t, gap, new, off, e, x, g, h)
    BY ONLY <2>2, <2>3, <2>4, off \in Nat, e \in Nat, x \in Nat, g \in Nat,
       h \in Nat DEF Overwritten
  <2>6. new = SubSeq(body, 1, x) \o gap \o t \o SubSeq(body, e + 1, S)
    BY <2>2, <2>5, PutBody
  <2> QED BY <2>1, <2>6
<1> QED BY <1>5, <1>9, <1>11 DEF PutResult

\* A write to slot i at the offset off, from the address a: refused, or done.
Writes(f, t, i, off, a) ==
    \/ /\ entry' = [entry EXCEPT ![i].data = a]
       /\ UNCHANGED <<mem, fd>>
    \/ /\ off + Len(t) <= Block /\ a + (off + Len(t)) <= Area
       /\ entry' = [entry EXCEPT ![i].data = a,
                       ![i].size = IF off + Len(t) > @ THEN off + Len(t)
                                   ELSE @]
       /\ mem' = Stored(a + off, t)
       /\ fd' = [fd EXCEPT ![f].off = off + Len(t)]

\* sys_write is one of them, on an entry that is not the first.
LEMMA WriteFacts ==
    ASSUME StoreInv, Program, NEW f \in Fds, NEW t \in Texts, SysWrite(f, t),
           NEW i, i = fd[f].at, NEW off, off = fd[f].off
    PROVE  /\ fd[f] # Closed /\ habits = "own" /\ i \in Used
           /\ i # 0 /\ off \in Nat /\ count' = count /\ vfd' = vfd
           /\ \E a \in Nat : Base(i, a) /\ Writes(f, t, i, off, a)
<1> PICK a : a = IF entry[i].data = None THEN next ELSE entry[i].data
  OBVIOUS
<1>1. /\ fd[f] # Closed /\ habits = "own" /\ i \in Used
      /\ off \in Nat /\ count' = count /\ vfd' = vfd
  BY ProgramFacts DEF SysWrite, SysKeep
<1>2. i # 0
  BY <1>1 DEF SysWrite, May
<1>3. a \in Nat /\ Base(i, a)
  <2>1. entry[i].data \in {None} \cup Nat /\ i \in Slots
    BY <1>1, StoreTypes, Sizes DEF Entries
  <2> QED BY <1>1, <2>1, StoreTypes DEF InArea, Base
<1>4. Writes(f, t, i, off, a)
  BY DEF SysWrite, Writes
<1> QED BY <1>1, <1>2, <1>3, <1>4

\* A refused write leaves its file as it was, even when it took a block.
LEMMA StoreRefused ==
    ASSUME StoreInv, NEW i \in Used, NEW a \in Nat, Base(i, a),
           entry' = [entry EXCEPT ![i].data = a],
           mem' = mem, count' = count
    PROVE  Files' = Files
<1>1. /\ TypeOK /\ entry'[i].size = entry[i].size
      /\ entry'[i].name = entry[i].name /\ entry'[i].kind = entry[i].kind
      /\ entry'[i].data = a
      /\ \A j \in Used \ {i} : entry'[j] = entry[j]
  BY StoreTypes DEF TypeOK, Entries
<1>2. Body(i)' = Body(i)
  <2>1. CASE entry[i].size = 0
    BY <1>1, <2>1 DEF Body
  <2>2. CASE entry[i].size # 0
    <3>1. entry[i].data = a
      BY <2>2 DEF Base
    <3> QED BY <1>1, <3>1 DEF Body
  <2> QED BY <2>1, <2>2
<1>3. File(i)' = File(i)
  BY <1>1, <1>2 DEF File
<1>4. \A j \in Used \ {i} : File(j)' = File(j)
  BY <1>1, SameFile
<1> QED BY <1>1, <1>3, <1>4, AllKept

\* A write that is made overwrites that file only.
LEMMA StorePut ==
    ASSUME StoreInv, habits = "own", NEW i \in Used, i # 0, NEW a \in Nat,
           Base(i, a), NEW off \in Nat, NEW t \in Texts, NEW e \in Nat,
           e = off + Len(t), e <= Block, a + e <= Area,
           entry' = [entry EXCEPT ![i].data = a,
                        ![i].size = IF e > @ THEN e ELSE @],
           mem' = Stored(a + off, t), count' = count
    PROVE  \E gap \in [1 .. off - Len(Body(i)) -> Values] :
              BodySet(i, SubSeq(Body(i), 1, IF off < Len(Body(i)) THEN off
                                            ELSE Len(Body(i)))
                           \o gap \o t
                           \o SubSeq(Body(i), e + 1, Len(Body(i))))
<1> PICK S, m \in Nat : S = entry[i].size /\ m = Len(t)
  <2>1. Len(t) \in Nat
    BY TextType
  <2> QED BY <2>1, StoreTypes
<1>1. S \in Nat /\ TypeOK /\ InArea /\ i \in Slots
  BY StoreTypes
<1>2. Len(Body(i)) = S
  BY <1>1, BodyType
<1> PICK n \in Nat : n = IF e > S THEN e ELSE S
  BY <1>1
<1>3. /\ entry'[i].size = n /\ entry'[i].data = a
      /\ entry'[i].name = entry[i].name /\ entry'[i].kind = entry[i].kind
      /\ \A j \in Used \ {i} : entry'[j] = entry[j]
  BY <1>1, StoreTypes DEF TypeOK, Entries
<1>4. \A j \in Used \ {i} : File(j)' = File(j)
  <2> TAKE j \in Used \ {i}
  <2>1. Body(j)' = Body(j)
    <3>1. a + off \in Nat /\ a <= a + off /\ (a + off) + Len(t) <= a + Block
      BY Sizes
    <3> QED BY <1>3, <3>1, OthersKept
  <2> QED BY <1>3, <2>1 DEF File
<1>5. PICK x, g, h :
         /\ Parts(S, off, e, x, g, h, n)
         /\ x = (IF off < S THEN off ELSE S)
         /\ 1 .. g = 1 .. off - S
  <2>1. off <= e
    BY TextType
  <2>2. Cut(S, off, e, n)
    BY <2>1, PartsExist
  <2> QED BY <2>2 DEF Cut
<1>6. PutResult(i, t, e, x, g, S)
  <2>1. PutInto(i, a, off, t, n)
    BY <1>3 DEF PutInto
  <2> QED BY <1>5, <2>1, NewBody
<1>7. ASSUME NEW b, b = Body(i)' PROVE BodySet(i, b)
  <2>1. File(i)' = [name |-> entry[i].name, kind |-> entry[i].kind, body |-> b]
    BY <1>3, <1>7 DEF File
  <2>2. Files' = [Files EXCEPT ![i + 1] =
                    [name |-> entry[i].name, kind |-> entry[i].kind,
                     body |-> b]]
    BY <1>1, <1>4, <2>1, Changed
  <2> PICK k, r : k = i + 1 /\ r = File(i)
    OBVIOUS
  <2>3. k \in DOMAIN Files /\ Files[k] = r
    BY <1>1, FilesShape
  <2>4. [r EXCEPT !.body = b]
          = [name |-> entry[i].name, kind |-> entry[i].kind, body |-> b]
    <3>1. r = [name |-> entry[i].name, kind |-> entry[i].kind,
               body |-> Body(i)]
      BY DEF File
    <3> QED BY ONLY <3>1
  <2>5. [Files EXCEPT ![k].body = b]
          = [Files EXCEPT ![k] = [r EXCEPT !.body = b]]
    BY <2>3
  <2> QED BY <2>2, <2>4, <2>5 DEF BodySet
<1> QED BY <1>2, <1>5, <1>6, <1>7 DEF PutResult

\* So sys_write puts the text into its file, or is refused.
LEMMA StoreSysWrite ==
    ASSUME StoreInv, Program, NEW f \in Fds, NEW t \in Texts, SysWrite(f, t)
    PROVE  FS!Put(f, t) \/ UNCHANGED FS!vars
<1>1. PICK i, off : i = fd[f].at /\ off = fd[f].off
  OBVIOUS
<1>2. /\ fd[f] # Closed /\ habits = "own" /\ i \in Used /\ i # 0
      /\ off \in Nat /\ count' = count /\ vfd' = vfd
  BY <1>1, WriteFacts
<1>3. PICK a \in Nat : Base(i, a) /\ Writes(f, t, i, off, a)
  BY <1>1, WriteFacts
<1>4. CASE entry' = [entry EXCEPT ![i].data = a] /\ UNCHANGED <<mem, fd>>
  <2>1. Files' = Files
    BY <1>2, <1>3, <1>4, StoreRefused
  <2>2. Opened' = Opened
    BY <1>4 DEF Opened
  <2> QED BY <1>2, <2>1, <2>2, Stutter
<1>5. CASE /\ off + Len(t) <= Block /\ a + (off + Len(t)) <= Area
           /\ entry' = [entry EXCEPT ![i].data = a,
                           ![i].size = IF off + Len(t) > @
                                       THEN off + Len(t) ELSE @]
           /\ mem' = Stored(a + off, t)
           /\ fd' = [fd EXCEPT ![f].off = off + Len(t)]
  <2>1. PICK e \in Nat : e = off + Len(t)
    BY <1>2, TextType
  <2>2. \E gap \in [1 .. off - Len(Body(i)) -> Values] :
           BodySet(i, SubSeq(Body(i), 1, IF off < Len(Body(i)) THEN off
                                         ELSE Len(Body(i)))
                        \o gap \o t \o SubSeq(Body(i), e + 1, Len(Body(i))))
    BY <1>2, <1>3, <1>5, <2>1, StorePut
  <2>3. Opened' = [Opened EXCEPT ![f].off = e]
    BY <1>2, <1>5, <2>1, FdSet
  <2>4. /\ Opened[f].at = i + 1 /\ Opened[f].off = off /\ i + 1 # 0
        /\ Files[i + 1].body = Body(i)
    BY <1>1, <1>2, ProgramFacts, StoreTypes, FilesShape DEF File
  <2> PICK body : body = Body(i)
    OBVIOUS
  <2>5. PICK gap \in [1 .. off - Len(body) -> Values] :
           Files' = [Files EXCEPT ![i + 1].body =
                       SubSeq(body, 1, IF off < Len(body) THEN off
                                       ELSE Len(body))
                          \o gap \o t \o SubSeq(body, e + 1, Len(body))]
    BY <2>2 DEF BodySet
  <2>6. PICK at : at = Opened[f].at
    OBVIOUS
  <2>7. at = i + 1 /\ at # 0 /\ Opened[f].off = off /\ Files[at].body = body
    BY <2>4, <2>6
  <2>8. \E gap_1 \in [1 .. off - Len(body) -> Values] :
           Files' = [Files EXCEPT ![at].body =
                       SubSeq(body, 1, IF off < Len(body) THEN off
                                       ELSE Len(body))
                          \o gap_1 \o t
                          \o SubSeq(body, off + Len(t) + 1, Len(body))]
    BY <2>1, <2>5, <2>7
  <2>9. Opened' = [Opened EXCEPT ![f].off = off + Len(t)]
    BY <2>1, <2>3
  <2>10. LET n == Opened[f].at
             d == Opened[f].off
             b == Files[n].body
             before == IF d < Len(b) THEN d ELSE Len(b)
         IN  /\ n # 0
             /\ \E gap_1 \in [1 .. d - Len(b) -> Values] :
                   Files' = [Files EXCEPT ![n].body =
                               SubSeq(b, 1, before) \o gap_1 \o t
                                  \o SubSeq(b, d + Len(t) + 1, Len(b))]
             /\ Opened' = [Opened EXCEPT ![f].off = d + Len(t)]
    BY <2>6, <2>7, <2>8, <2>9
  <2>11. UNCHANGED (vfd + 1)
    BY <1>2
  <2>12. FS!Put(f, t)
    BY <2>10, <2>11, Zenon DEF FS!Put, Files, Opened
  <2> QED BY <2>12
<1> QED BY <1>3, <1>4, <1>5 DEF Writes

\* Every system call is a step of the store or changes nothing in it.
LEMMA ProgramStore == StoreInv /\ Program => [FS!Next]_(FS!vars)
<1> SUFFICES ASSUME StoreInv, Program PROVE [FS!Next]_(FS!vars)
  OBVIOUS
<1>1. CASE \E f \in Fds, n \in Names, trunc \in BOOLEAN : SysOpen(f, n, trunc)
  BY <1>1, StoreOpen DEF FS!Next
<1>2. CASE \E f \in Fds : SysClose(f) \/ SysRead(f)
  BY <1>2, StoreFds DEF FS!Next
<1>3. CASE \E f \in Fds, t \in Texts : SysWrite(f, t)
  BY <1>3, StoreSysWrite DEF FS!Next
<1>4. CASE \E f \in Fds, off \in 0 .. MaxSeek : SysLseek(f, off)
  BY <1>4, StoreFds DEF FS!Next
<1>5. CASE \E n \in Names : SysUnlink(n)
  BY <1>5, StoreUnlink DEF FS!Next
<1> QED BY <1>1, <1>2, <1>3, <1>4, <1>5 DEF Program

\* However many files, cells, texts and descriptors there are, whoever keeps
\* to one of the two habits sees a store of named files with bodies of their
\* own: bumping one pointer, moving entries down, passing slot numbers around
\* and reserving a block at the first write never show (ramfs.fj,
\* commands.fj, dispatch.fj, vfs/main.fj).  What a command has read before it
\* was preempted is part of it.
THEOREM RamFsIsFileStore == Spec /\ habits # "any" => IsFileStore
<1>1. Init /\ habits # "any" => StoreInv
  BY StoreInvInit
<1>2. StoreInv /\ [Next]_vars => StoreInv'
  BY StoreInvKept
<1>3. Init => FS!Init
  BY StoreInit
<1>4. StoreInv /\ [Next]_vars => [FS!Next]_(FS!vars)
  <2> SUFFICES ASSUME StoreInv, [Next]_vars PROVE [FS!Next]_(FS!vars)
    OBVIOUS
  <2>1. CASE Next
    BY <2>1, Pid0Store, ProgramStore DEF Next
  <2>2. CASE UNCHANGED vars
    <3>1. Files' = Files /\ Opened' = Opened /\ vfd' = vfd
      BY <2>2 DEF vars, Files, Opened, Body
    <3> QED BY <3>1, Stutter
  <2> QED BY <2>1, <2>2
<1> QED BY <1>1, <1>2, <1>3, <1>4, PTL DEF Spec, IsFileStore, FS!Spec
=============================================================================
