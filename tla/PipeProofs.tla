----------------------------- MODULE PipeProofs -----------------------------
(***************************************************************************)
(* The reference counts of the pipes against the descriptors that hold     *)
(* their ends, for any number of processes, descriptors and pipes.  Copies *)
(* that dup makes are not counted, references that exec, exit and kill     *)
(* leave are never given back: so the counts are at least the descriptors  *)
(* without the first, at most without the others, exact without both.      *)
(***************************************************************************)
EXTENDS Pipe, FiniteSetTheorems, WellFoundedInduction, TLAPS

\* A search for the first of some naturals finds one of them.
LEMMA LeastIsMember ==
    ASSUME NEW S \in SUBSET Nat, S # {}
    PROVE  Least(S) \in S
<1>1. PICK x \in S : \A y \in S : ~ (<<y, x>> \in OpToRel(<, Nat))
  BY NatLessThanWellFounded, WFMin
<1>2. \A y \in S : ~ (y < x)
  BY <1>1 DEF OpToRel
<1>3. \A y \in S : x <= y
  BY <1>2
<1>4. QED
  BY <1>3 DEF Least

Rows == [Pids -> [Fds -> Ends \cup {Closed}]]

(* The descriptors of the table f that are the end e.                      *)
Cells(f, e) == {x \in Pids \X Fds : f[x[1]][x[2]] = e}
HoldersIn(f, e) == Cardinality(Cells(f, e))

----------------------------------------------------------------------------
(* Counting descriptors                                                    *)

LEMMA Finite ==
    /\ IsFiniteSet(Pids) /\ IsFiniteSet(Fds)
    /\ \A f, e : IsFiniteSet(Cells(f, e)) /\ HoldersIn(f, e) \in Nat
    /\ \A row, e : IsFiniteSet({i \in Fds : row[i] = e}) /\ Copies(row, e) \in Nat
  <1>1. IsFiniteSet(Pids) /\ IsFiniteSet(Fds)
    BY FS_Interval, NProcAssumption, PipeAssumption DEF Pids, Fds
  <1>2. ASSUME NEW f, NEW e
        PROVE  IsFiniteSet(Cells(f, e)) /\ HoldersIn(f, e) \in Nat
    <2>1. IsFiniteSet(Pids \X Fds)
      BY <1>1, FS_Product
    <2>2. Cells(f, e) \in SUBSET (Pids \X Fds)
      BY DEF Cells
    <2>3. IsFiniteSet(Cells(f, e))
      BY <2>1, <2>2, FS_Subset
    <2> QED
      BY <2>3, FS_CardinalityType DEF HoldersIn
  <1>3. ASSUME NEW row, NEW e
        PROVE  IsFiniteSet({i \in Fds : row[i] = e}) /\ Copies(row, e) \in Nat
    <2>1. {i \in Fds : row[i] = e} \in SUBSET Fds
      OBVIOUS
    <2>2. IsFiniteSet({i \in Fds : row[i] = e})
      BY <1>1, <2>1, FS_Subset
    <2> QED
      BY <2>2, FS_CardinalityType DEF Copies
  <1> QED
    BY <1>1, <1>2, <1>3

LEMMA EndsNotClosed ==
    /\ Closed \notin Ends
    /\ \A t \in EndTypes, s \in Slots : End(t, s) \in Ends
    /\ \A e \in Ends : e.type \in EndTypes /\ e.slot \in Slots /\ e = End(e.type, e.slot)
    /\ \A t, u \in EndTypes : \A r, s : End(t, r) = End(u, s) => t = u /\ r = s
    /\ \A t, s : End(t, s).type = t /\ End(t, s).slot = s
  <1>1. \A t, s : End(t, s).type = t /\ End(t, s).slot = s
    BY DEF End
  <1>2. \A t \in EndTypes, s \in Slots : End(t, s) \in Ends
    BY DEF Ends
  <1>3. ASSUME NEW e \in Ends
        PROVE  e.type \in EndTypes /\ e.slot \in Slots /\ e = End(e.type, e.slot)
    <2>1. PICK t \in EndTypes, s \in Slots : e = End(t, s)
      BY DEF Ends
    <2> QED
      BY <1>1, <2>1
  <1>4. Closed.type = "CLOSED"
    BY DEF Closed, End
  <1>5. Closed \notin Ends
    BY <1>3, <1>4 DEF EndTypes
  <1> QED
    BY <1>1, <1>2, <1>3, <1>5

(* Nobody holds an end nobody has a descriptor of.                         *)
LEMMA HeldByNone ==
    ASSUME NEW f, NEW e
    PROVE  HoldersIn(f, e) = 0 <=> \A p \in Pids, i \in Fds : f[p][i] # e
  <1>1. HoldersIn(f, e) = 0 <=> Cells(f, e) = {}
    BY Finite, FS_EmptySet DEF HoldersIn
  <1>2. ASSUME NEW p \in Pids, NEW i \in Fds
        PROVE  f[p][i] = e <=> <<p, i>> \in Cells(f, e)
    BY DEF Cells
  <1>3. \A x \in Cells(f, e) : \E p \in Pids, i \in Fds : f[p][i] = e
    BY DEF Cells
  <1> QED
    BY <1>1, <1>2, <1>3

(* A table that is e only where another one is holds it no more often.     *)
LEMMA HeldNoMore ==
    ASSUME NEW f, NEW g, NEW e,
           \A p \in Pids, i \in Fds : g[p][i] = e => f[p][i] = e
    PROVE  HoldersIn(g, e) <= HoldersIn(f, e)
  <1>1. Cells(g, e) \in SUBSET Cells(f, e)
    BY DEF Cells
  <1> QED
    BY <1>1, Finite, FS_Subset DEF HoldersIn

(* A descriptor is overwritten: what it was is held once less, what it is  *)
(* now once more.                                                          *)
Overwritten(f, p, i, v, g) == g = [f EXCEPT ![p][i] = v]
LEMMA HeldOnWrite ==
    ASSUME NEW f \in Rows, NEW p \in Pids, NEW i \in Fds, NEW v, NEW e,
           NEW g, Overwritten(f, p, i, v, g)
    PROVE  /\ f[p][i] = e /\ v # e => HoldersIn(g, e) = HoldersIn(f, e) - 1
           /\ f[p][i] # e /\ v = e => HoldersIn(g, e) = HoldersIn(f, e) + 1
           /\ f[p][i] = e /\ v = e => HoldersIn(g, e) = HoldersIn(f, e)
           /\ f[p][i] # e /\ v # e => HoldersIn(g, e) = HoldersIn(f, e)
  <1> DEFINE x == <<p, i>>
             rest == Cells(f, e) \ {x}
  <1>1. \A q \in Pids, j \in Fds : g[q][j] = IF q = p /\ j = i THEN v ELSE f[q][j]
    BY DEF Rows, Overwritten
  <1>2. /\ IsFiniteSet(rest) /\ IsFiniteSet(Cells(f, e)) /\ HoldersIn(f, e) \in Nat
        /\ Cardinality(rest) \in Nat
    BY Finite, FS_RemoveElement, FS_CardinalityType
  <1>3. x \in Cells(f, e) <=> f[p][i] = e
    BY DEF Cells
  <1>4. Cardinality(rest) = IF f[p][i] = e THEN HoldersIn(f, e) - 1 ELSE HoldersIn(f, e)
    BY <1>2, <1>3, FS_RemoveElement DEF HoldersIn
  <1>5. Cells(g, e) = IF v = e THEN rest \cup {x} ELSE rest
    <2>1. ASSUME NEW y \in Pids \X Fds
          PROVE  y \in Cells(g, e) <=> y \in (IF v = e THEN rest \cup {x} ELSE rest)
      <3>1. PICK q \in Pids, j \in Fds : y = <<q, j>>
        BY <2>1
      <3>2. y \in Cells(g, e) <=> g[q][j] = e
        BY <3>1 DEF Cells
      <3>3. y \in Cells(f, e) <=> f[q][j] = e
        BY <3>1 DEF Cells
      <3>4. y = x <=> q = p /\ j = i
        BY <3>1
      <3> QED
        BY <1>1, <3>2, <3>3, <3>4
    <2>2. /\ Cells(g, e) \subseteq Pids \X Fds /\ Cells(f, e) \subseteq Pids \X Fds
          /\ x \in Pids \X Fds
      BY DEF Cells
    <2> QED
      BY <2>1, <2>2
  <1>6. HoldersIn(g, e) = IF v = e THEN Cardinality(rest) + 1 ELSE Cardinality(rest)
    <2>1. Cardinality(rest \cup {x}) = Cardinality(rest) + 1
      BY <1>2, FS_AddElement
    <2> QED
      BY <1>5, <2>1 DEF HoldersIn
  <1> HIDE DEF rest, x
  <1> QED
    BY <1>2, <1>4, <1>6

(* A row is copied over another one.                                       *)
Copied(f, p, c, g) == g = [f EXCEPT ![c] = f[p]]
LEMMA HeldOnFork ==
    ASSUME NEW f \in Rows, NEW p \in Pids, NEW c \in Pids, NEW e,
           NEW g, Copied(f, p, c, g)
    PROVE  /\ HoldersIn(g, e) <= HoldersIn(f, e) + Copies(f[p], e)
           /\ (\A i \in Fds : f[c][i] # e)
                 => HoldersIn(g, e) = HoldersIn(f, e) + Copies(f[p], e)
  <1> DEFINE of == {i \in Fds : f[p][i] = e}
             new == {c} \X of
             old == {x \in Cells(f, e) : x[1] # c}
             pair == [i \in of |-> <<c, i>>]
  <1>1. \A q \in Pids, j \in Fds : g[q][j] = IF q = c THEN f[p][j] ELSE f[q][j]
    BY DEF Rows, Copied
  <1>2. IsFiniteSet(of) /\ Cardinality(of) = Copies(f[p], e)
    BY Finite DEF Copies
  <1>3. IsFiniteSet(new) /\ Cardinality(new) = Copies(f[p], e)
    <2>1. IsFiniteSet({c}) /\ Cardinality({c}) = 1
      BY FS_Singleton
    <2>2. IsFiniteSet(new) /\ Cardinality(new) = 1 * Cardinality(of)
      BY <1>2, <2>1, FS_Product
    <2>3. Cardinality(of) \in Nat
      BY <1>2, FS_CardinalityType
    <2> QED
      BY <1>2, <2>2, <2>3
  <1>4. IsFiniteSet(old) /\ Cardinality(old) <= HoldersIn(f, e) /\ Cardinality(old) \in Nat
    <2>1. old \in SUBSET Cells(f, e)
      OBVIOUS
    <2> QED
      BY <2>1, Finite, FS_Subset, FS_CardinalityType DEF HoldersIn
  <1>5. Cells(g, e) = old \cup new /\ old \cap new = {}
    BY <1>1 DEF Cells
  <1>6. HoldersIn(g, e) = Cardinality(old) + Cardinality(new)
    <2>1. Cardinality(old \cup new) = Cardinality(old) + Cardinality(new)
                                          - Cardinality(old \cap new)
      BY <1>3, <1>4, FS_Union
    <2>2. Cardinality(old \cap new) = 0
      BY <1>5, FS_EmptySet
    <2>3. Cardinality(new) \in Nat
      BY <1>3, FS_CardinalityType
    <2> QED
      BY <1>4, <1>5, <2>1, <2>2, <2>3 DEF HoldersIn
  <1>7. (\A i \in Fds : f[c][i] # e) => Cardinality(old) = HoldersIn(f, e)
    <2>1. (\A i \in Fds : f[c][i] # e) => old = Cells(f, e)
      BY DEF Cells
    <2> QED
      BY <2>1 DEF HoldersIn
  <1>8. HoldersIn(f, e) \in Nat /\ Copies(f[p], e) \in Nat
    BY Finite
  <1> HIDE DEF old, new
  <1> QED
    BY <1>3, <1>4, <1>6, <1>7, <1>8

(* A row that holds an end copies it at least once.                        *)
LEMMA CopiedIfHeld ==
    ASSUME NEW row, NEW e
    PROVE  Copies(row, e) = 0 <=> \A i \in Fds : row[i] # e
  <1>1. Copies(row, e) = 0 <=> {i \in Fds : row[i] = e} = {}
    BY Finite, FS_EmptySet DEF Copies
  <1> QED
    BY <1>1

----------------------------------------------------------------------------
(* The invariant                                                           *)

(* Without dup every descriptor is counted; a pipe that is not in use has  *)
(* no descriptor, no reference and no byte.                                *)
Counted(f, u, b, r) ==
    /\ \A e \in Ends : HoldersIn(f, e) <= r[e]
    /\ \A s \in Slots : ~ u[s] => b[s] = 0 /\ BothZero(r, s)

(* Without exec, exit and kill every reference is of a descriptor, and the *)
(* slots of dead processes hold none.                                      *)
Referred(l, f, r) ==
    /\ \A e \in Ends : r[e] <= HoldersIn(f, e)
    /\ \A p \in Pids \ l, i \in Fds : f[p][i] = Closed

CountedIf == "dup" \notin habits => Counted(fd, inUse, fill, refs)
ReferredIf == habits \subseteq {"dup"} => Referred(live, fd, refs)
PipeInv == TypeOK /\ CountedIf /\ ReferredIf

LEMMA HoldersAre ==
    ASSUME NEW e
    PROVE  Holders(e) = HoldersIn(fd, e)
  BY DEF Holders, HoldersIn, Cells

(* A reference is given back, never below zero.                            *)
LEMMA Decrease ==
    ASSUME NEW e \in Ends, TypeOK
    PROVE  /\ Decreased(e) \in [Ends -> 0 .. MaxRefs]
           /\ \A d \in Ends : Decreased(e)[d] =
                 IF d # e THEN refs[d] ELSE IF refs[e] > 0 THEN refs[e] - 1 ELSE 0
  BY PipeAssumption DEF TypeOK, Decreased

(* sys_close, and what dup2 does to its target: the end e of descriptor i  *)
(* is released, and the descriptor becomes v.                              *)
LEMMA ReleaseKeeps ==
    ASSUME PipeInv, UNCHANGED <<live, habits>>,
           NEW p \in live, NEW i \in Fds, fd[p][i] # Closed,
           NEW v \in Ends \cup {Closed}, v # Closed => "dup" \in habits,
           Release(fd[p][i]), fd' = [fd EXCEPT ![p][i] = v]
    PROVE  PipeInv'
  <1> DEFINE e == fd[p][i]
             r == Decreased(e)
  <1> USE DEF PipeInv
  <1>0. /\ fd \in Rows /\ p \in Pids /\ e \in Ends /\ refs \in [Ends -> 0 .. MaxRefs]
        /\ MaxRefs \in Nat /\ PipeBytes \in Nat
    BY PipeAssumption DEF TypeOK, Rows
  <1>1. /\ r \in [Ends -> 0 .. MaxRefs]
        /\ \A d \in Ends : r[d] =
              IF d # e THEN refs[d] ELSE IF refs[e] > 0 THEN refs[e] - 1 ELSE 0
    BY <1>0, Decrease
  <1>2. e.slot \in Slots
    BY <1>0, EndsNotClosed
  <1>3. /\ refs' = r
        /\ inUse' = IF BothZero(r, e.slot) THEN [inUse EXCEPT ![e.slot] = FALSE] ELSE inUse
        /\ fill' = IF BothZero(r, e.slot) THEN [fill EXCEPT ![e.slot] = 0] ELSE fill
    BY DEF Release
  <1>4. ASSUME NEW d \in Ends
        PROVE  /\ d = e /\ v # d => HoldersIn(fd', d) = HoldersIn(fd, d) - 1
               /\ d # e /\ v = d => HoldersIn(fd', d) = HoldersIn(fd, d) + 1
               /\ d = e /\ v = d => HoldersIn(fd', d) = HoldersIn(fd, d)
               /\ d # e /\ v # d => HoldersIn(fd', d) = HoldersIn(fd, d)
    <2>1. Overwritten(fd, p, i, v, fd')
      BY DEF Overwritten
    <2> QED
      BY <1>0, <2>1, HeldOnWrite
  <1>5. \A d \in Ends : HoldersIn(fd, d) \in Nat /\ HoldersIn(fd', d) \in Nat
    BY Finite
  <1>6. HoldersIn(fd, e) >= 1
    BY <1>0, <1>5, HeldByNone
  <1> HIDE DEF e, r
  <1>7. TypeOK'
    <2>1. fd' \in [Pids -> [Fds -> Ends \cup {Closed}]]
      BY <1>0 DEF Rows
    <2> QED
      BY <1>0, <1>1, <1>2, <1>3, <2>1 DEF TypeOK
  <1>8. ASSUME "dup" \notin habits
        PROVE  Counted(fd', inUse', fill', refs')
    <2>1. v \notin Ends
      BY <1>8, EndsNotClosed
    <2>2. Counted(fd, inUse, fill, refs)
      BY <1>8 DEF CountedIf
    <2>3. \A d \in Ends : HoldersIn(fd', d) <= refs'[d]
      <3> SUFFICES ASSUME NEW d \in Ends PROVE HoldersIn(fd', d) <= refs'[d]
        OBVIOUS
      <3>1. HoldersIn(fd, d) <= refs[d] /\ refs[d] \in Nat
        BY <1>0, <2>2 DEF Counted
      <3>2. /\ d = e => HoldersIn(fd', d) = HoldersIn(fd, d) - 1
            /\ d # e => HoldersIn(fd', d) = HoldersIn(fd, d)
        BY <1>4, <2>1
      <3> QED
        BY <1>1, <1>3, <1>5, <3>1, <3>2
    <2>4. ASSUME NEW s \in Slots, ~ inUse'[s]
          PROVE  fill'[s] = 0 /\ BothZero(refs', s)
      <3>1. CASE s = e.slot /\ BothZero(r, e.slot)
        BY <1>0, <1>2, <1>3, <3>1 DEF TypeOK
      <3>2. CASE s # e.slot
        <4>1. ~ inUse[s] /\ fill'[s] = fill[s]
          BY <1>0, <1>3, <2>4, <3>2 DEF TypeOK
        <4>2. \A t \in EndTypes : End(t, s) \in Ends /\ End(t, s) # e
          BY <3>2, EndsNotClosed
        <4>3. \A t \in EndTypes : refs'[End(t, s)] = refs[End(t, s)]
          BY <1>1, <1>3, <4>2
        <4> QED
          BY <2>2, <4>1, <4>3 DEF Counted, BothZero
      <3>3. CASE s = e.slot /\ ~ BothZero(r, e.slot)
        <4>1. ~ inUse[s]
          BY <1>3, <2>4, <3>3
        <4>2. refs[e] = 0
          BY <1>0, <2>2, <3>3, <4>1, EndsNotClosed DEF Counted, BothZero
        <4>3. FALSE
          BY <1>0, <1>5, <1>6, <2>2, <4>2 DEF Counted
        <4> QED
          BY <4>3
      <3> QED
        BY <3>1, <3>2, <3>3
    <2> QED
      BY <2>3, <2>4 DEF Counted
  <1>9. ASSUME habits \subseteq {"dup"}
        PROVE  Referred(live, fd', refs')
    <2>1. Referred(live, fd, refs)
      BY <1>9 DEF ReferredIf
    <2>2. \A d \in Ends : refs'[d] <= HoldersIn(fd', d)
      <3> SUFFICES ASSUME NEW d \in Ends PROVE refs'[d] <= HoldersIn(fd', d)
        OBVIOUS
      <3>1. refs[d] <= HoldersIn(fd, d) /\ refs[d] \in Nat
        BY <1>0, <2>1 DEF Referred
      <3> DEFINE was == HoldersIn(fd, d)
                 is == HoldersIn(fd', d)
      <3>2. is \in {was - 1, was, was + 1} /\ (d # e => is \in {was, was + 1})
        BY <1>4
      <3>3. was \in Nat /\ is \in Nat /\ (d = e => was >= 1)
        BY <1>5, <1>6
      <3>4. refs'[d] = IF d # e THEN refs[d] ELSE IF refs[d] > 0 THEN refs[d] - 1 ELSE 0
        BY <1>1, <1>3
      <3>5. refs[d] <= was
        BY <3>1
      <3> HIDE DEF was, is
      <3>6. refs'[d] <= is
        BY <3>1, <3>2, <3>3, <3>4, <3>5
      <3> QED
        BY <3>6 DEF is
    <2>3. \A q \in Pids \ live, j \in Fds : fd'[q][j] = Closed
      BY <1>0, <2>1 DEF Referred, Rows
    <2> QED
      BY <2>2, <2>3 DEF Referred
  <1>10. CountedIf' /\ ReferredIf'
    BY <1>8, <1>9 DEF CountedIf, ReferredIf
  <1> QED
    BY <1>7, <1>10

(* Only the fill of pipes whose end a descriptor is changes.               *)
LEMMA HeldInUse ==
    ASSUME TypeOK, Counted(fd, inUse, fill, refs),
           NEW p \in Pids, NEW i \in Fds, fd[p][i] # Closed
    PROVE  inUse[fd[p][i].slot]
  <1> DEFINE e == fd[p][i]
  <1>1. e \in Ends /\ refs \in [Ends -> 0 .. MaxRefs] /\ MaxRefs \in Nat
    BY PipeAssumption DEF TypeOK
  <1>2. e.type \in EndTypes /\ e.slot \in Slots /\ e = End(e.type, e.slot)
    BY <1>1, EndsNotClosed
  <1>3. HoldersIn(fd, e) # 0
    BY HeldByNone
  <1>4. HoldersIn(fd, e) \in Nat /\ HoldersIn(fd, e) <= refs[e] /\ refs[e] \in Nat
    BY <1>1, Finite DEF Counted
  <1>5. refs[e] # 0
    BY <1>3, <1>4
  <1> HIDE DEF e
  <1>6. inUse[e.slot]
    BY <1>2, <1>5 DEF Counted, BothZero
  <1> QED
    BY <1>6 DEF e

(* A transfer of bytes at an end somebody holds.                           *)
LEMMA TransferKeeps ==
    ASSUME PipeInv, UNCHANGED <<live, fd, inUse, refs, habits>>,
           NEW p \in live, NEW i \in Fds, fd[p][i] # Closed, NEW n \in 0 .. PipeBytes,
           fill' = [fill EXCEPT ![fd[p][i].slot] = n]
    PROVE  PipeInv'
  <1> USE DEF PipeInv
  <1>1. p \in Pids /\ fd[p][i] \in Ends
    BY DEF TypeOK
  <1>2. fd[p][i].slot \in Slots
    BY <1>1, EndsNotClosed
  <1>3. TypeOK'
    BY <1>2 DEF TypeOK
  <1>4. ASSUME "dup" \notin habits
        PROVE  Counted(fd', inUse', fill', refs')
    <2>1. Counted(fd, inUse, fill, refs)
      BY <1>4 DEF CountedIf
    <2>2. inUse[fd[p][i].slot]
      BY <1>1, <2>1, HeldInUse
    <2>3. \A s \in Slots : ~ inUse[s] => fill'[s] = fill[s]
      BY <1>2, <2>2 DEF TypeOK
    <2> QED
      BY <2>1, <2>3 DEF Counted
  <1> QED
    BY <1>3, <1>4 DEF CountedIf, ReferredIf

(* sys_pipe                                                                *)
LEMMA OpenKeeps ==
    ASSUME PipeInv, NEW p \in live, SysPipe(p), UNCHANGED habits
    PROVE  PipeInv'
  <1> DEFINE s == Least(FreePipes)
             r == Least(FreeFds(p))
             w == Least(FreeFds(p) \ {r})
             R == End("READ", s)
             W == End("WRITE", s)
  <1> USE DEF PipeInv
  <1>1. /\ fd \in Rows /\ p \in Pids /\ refs \in [Ends -> 0 .. MaxRefs]
        /\ MaxRefs \in Nat \ {0} /\ PipeBytes \in Nat \ {0}
        /\ inUse \in [Slots -> BOOLEAN] /\ fill \in [Slots -> 0 .. PipeBytes]
    BY PipeAssumption DEF TypeOK, Rows
  <1>2. s \in Slots /\ ~ inUse[s]
    <2>1. FreePipes \in SUBSET Nat /\ FreePipes # {}
      BY PipeAssumption DEF FreePipes, Slots, SysPipe
    <2>2. s \in FreePipes
      BY <2>1, LeastIsMember
    <2> QED
      BY <2>2 DEF FreePipes
  <1>3. inUse' = [inUse EXCEPT ![s] = TRUE] /\ fill' = [fill EXCEPT ![s] = 0]
        /\ UNCHANGED live
    BY DEF SysPipe
  <1>4. CASE UNCHANGED <<fd, refs>>
    <2> HIDE DEF s
    <2>1. TypeOK'
      BY <1>1, <1>2, <1>3, <1>4 DEF TypeOK
    <2>2. CountedIf'
      BY <1>1, <1>2, <1>3, <1>4 DEF CountedIf, Counted, BothZero
    <2>3. ReferredIf'
      BY <1>3, <1>4 DEF ReferredIf
    <2> QED
      BY <2>1, <2>2, <2>3
  <1>5. CASE Cardinality(FreeFds(p)) >= 2
    <2>1. r \in Fds /\ w \in Fds /\ r # w /\ fd[p][r] = Closed /\ fd[p][w] = Closed
      <3>1. FreeFds(p) \in SUBSET Fds /\ Fds \in SUBSET Nat /\ IsFiniteSet(FreeFds(p))
        <4>1. FreeFds(p) \in SUBSET Fds
          BY DEF FreeFds
        <4> QED
          BY <4>1, Finite, FS_Subset, PipeAssumption DEF Fds
      <3>2. FreeFds(p) # {} /\ FreeFds(p) \ {r} # {}
        <4>1. Cardinality(FreeFds(p)) \in Nat /\ IsFiniteSet(FreeFds(p) \ {r})
          BY <3>1, FS_CardinalityType, FS_RemoveElement
        <4>2. /\ Cardinality(FreeFds(p) \ {r}) \in {Cardinality(FreeFds(p)) - 1,
                                                   Cardinality(FreeFds(p))}
          BY <3>1, FS_RemoveElement
        <4> QED
          BY <1>5, <4>1, <4>2, FS_EmptySet
      <3> HIDE DEF r
      <3>3. r \in FreeFds(p)
        BY <3>1, <3>2, LeastIsMember DEF r
      <3>4. w \in FreeFds(p) \ {r}
        BY <3>1, <3>2, LeastIsMember
      <3> QED
        BY <3>1, <3>3, <3>4 DEF FreeFds
    <2>2. R \in Ends /\ W \in Ends /\ R # W /\ R # Closed /\ W # Closed
      BY <1>2, EndsNotClosed DEF EndTypes
    <2>3. /\ fd' = [fd EXCEPT ![p][r] = R, ![p][w] = W]
          /\ refs' = [refs EXCEPT ![R] = 1, ![W] = 1]
      BY <1>5 DEF SysPipe
    <2>4. \A t \in EndTypes, u \in Slots : u # s => End(t, u) # R /\ End(t, u) # W
      BY <1>2, EndsNotClosed DEF EndTypes
    <2> HIDE DEF r, w, R, W, s
    <2> DEFINE mid == [fd EXCEPT ![p][r] = R]
    <2>5. Overwritten(fd, p, r, R, mid) /\ Overwritten(mid, p, w, W, fd')
      BY <2>3 DEF Overwritten
    <2>6. mid \in Rows /\ mid[p][w] = Closed
      BY <1>1, <2>1, <2>2 DEF Rows
    <2> HIDE DEF mid
    <2>7. fd' \in Rows
      BY <1>1, <2>5, <2>6, <2>1, <2>2 DEF Rows, Overwritten
    <2>8. ASSUME NEW d \in Ends
          PROVE  /\ d \in {R, W} => HoldersIn(fd', d) = HoldersIn(fd, d) + 1
                 /\ d \notin {R, W} => HoldersIn(fd', d) = HoldersIn(fd, d)
      <3>1. d # Closed
        BY EndsNotClosed
      <3>2. /\ d = R => HoldersIn(mid, d) = HoldersIn(fd, d) + 1
            /\ d # R => HoldersIn(mid, d) = HoldersIn(fd, d)
        BY <1>1, <2>1, <2>5, <3>1, HeldOnWrite
      <3>3. /\ d = W => HoldersIn(fd', d) = HoldersIn(mid, d) + 1
            /\ d # W => HoldersIn(fd', d) = HoldersIn(mid, d)
        BY <1>1, <2>1, <2>5, <2>6, <3>1, HeldOnWrite
      <3> QED
        BY <2>2, <3>2, <3>3
    <2>9. \A d \in Ends : /\ d \in {R, W} => refs'[d] = 1
                          /\ d \notin {R, W} => refs'[d] = refs[d]
      BY <1>1, <2>2, <2>3
    <2>10. TypeOK'
      <3>1. refs' \in [Ends -> 0 .. MaxRefs]
        BY <1>1, <2>2, <2>3
      <3> QED
        BY <1>1, <1>2, <1>3, <2>7, <3>1 DEF TypeOK, Rows
    <2>11. ASSUME "dup" \notin habits
           PROVE  Counted(fd', inUse', fill', refs')
      <3>1. Counted(fd, inUse, fill, refs)
        BY <2>11 DEF CountedIf
      <3>2. refs[R] = 0 /\ refs[W] = 0
        BY <1>2, <3>1 DEF Counted, BothZero, EndTypes, R, W
      <3>3. \A d \in Ends : HoldersIn(fd, d) \in Nat /\ HoldersIn(fd, d) <= refs[d]
        BY <3>1, Finite DEF Counted
      <3>4. \A d \in Ends : HoldersIn(fd', d) <= refs'[d]
        BY <2>2, <2>8, <2>9, <3>2, <3>3
      <3>5. ASSUME NEW u \in Slots, ~ inUse'[u]
            PROVE  fill'[u] = 0 /\ BothZero(refs', u)
        <4>1. u # s /\ ~ inUse[u] /\ fill'[u] = fill[u]
          BY <1>1, <1>2, <1>3, <3>5
        <4>2. \A t \in EndTypes : End(t, u) \in Ends /\ refs'[End(t, u)] = refs[End(t, u)]
          BY <2>4, <2>9, <4>1, EndsNotClosed
        <4> QED
          BY <3>1, <4>1, <4>2 DEF Counted, BothZero
      <3> QED
        BY <3>4, <3>5 DEF Counted
    <2>12. ASSUME habits \subseteq {"dup"}
           PROVE  Referred(live', fd', refs')
      <3>1. Referred(live, fd, refs)
        BY <2>12 DEF ReferredIf
      <3>2. \A d \in Ends : HoldersIn(fd, d) \in Nat /\ refs[d] <= HoldersIn(fd, d)
        BY <3>1, Finite DEF Referred
      <3>3. \A d \in Ends : refs'[d] <= HoldersIn(fd', d)
        BY <2>8, <2>9, <3>2
      <3>4. \A q \in Pids \ live, j \in Fds : fd'[q][j] = fd[q][j]
        BY <1>1, <2>3 DEF Rows
      <3> QED
        BY <1>3, <3>1, <3>3, <3>4 DEF Referred
    <2> QED
      BY <2>10, <2>11, <2>12 DEF CountedIf, ReferredIf
  <1> QED
    BY <1>4, <1>5 DEF SysPipe

(* A copy that dup or dup2 puts at a closed descriptor.                    *)
LEMMA DupKeeps ==
    ASSUME PipeInv, UNCHANGED <<live, inUse, fill, refs, habits>>, "dup" \in habits,
           NEW p \in live, NEW i \in Fds, fd[p][i] = Closed, NEW v \in Ends,
           Overwritten(fd, p, i, v, fd')
    PROVE  PipeInv'
  <1> USE DEF PipeInv
  <1>1. fd \in Rows /\ p \in Pids
    BY DEF TypeOK, Rows
  <1>2. fd' \in Rows /\ \A q \in Pids \ live, j \in Fds : fd'[q][j] = fd[q][j]
    BY <1>1 DEF Rows, Overwritten
  <1>3. TypeOK'
    BY <1>2 DEF TypeOK, Rows
  <1>4. ASSUME NEW d \in Ends
        PROVE  HoldersIn(fd', d) >= HoldersIn(fd, d)
    <2>1. /\ v = d => HoldersIn(fd', d) = HoldersIn(fd, d) + 1
          /\ v # d => HoldersIn(fd', d) = HoldersIn(fd, d)
      BY <1>1, HeldOnWrite, EndsNotClosed
    <2>2. HoldersIn(fd, d) \in Nat /\ HoldersIn(fd', d) \in Nat
      BY Finite
    <2> QED
      BY <2>1, <2>2
  <1>5. ASSUME habits \subseteq {"dup"}
        PROVE  Referred(live', fd', refs')
    <2>1. Referred(live, fd, refs)
      BY <1>5 DEF ReferredIf
    <2>2. \A d \in Ends : refs[d] \in Nat /\ HoldersIn(fd, d) \in Nat
                          /\ HoldersIn(fd', d) \in Nat
      BY Finite, PipeAssumption DEF TypeOK
    <2>3. \A d \in Ends : refs[d] <= HoldersIn(fd', d)
      BY <1>4, <2>1, <2>2 DEF Referred
    <2> QED
      BY <1>2, <2>1, <2>3 DEF Referred
  <1> QED
    BY <1>3, <1>5 DEF CountedIf, ReferredIf

(* Descriptors that are forgotten without giving a reference back: exec,   *)
(* spawn, exit and kill.                                                   *)
LEMMA ForgetKeeps ==
    ASSUME PipeInv, UNCHANGED <<inUse, fill, refs, habits>>,
           live' \in SUBSET Pids, fd' \in Rows,
           \A p \in Pids, i \in Fds : fd'[p][i] \in {fd[p][i], Closed},
           habits \subseteq {"dup"} =>
              /\ \A p \in Pids, i \in Fds : fd'[p][i] = fd[p][i]
              /\ \A p \in Pids \ live', i \in Fds : fd[p][i] = Closed
    PROVE  PipeInv'
  <1> USE DEF PipeInv
  <1>1. TypeOK'
    BY DEF TypeOK, Rows
  <1>2. ASSUME "dup" \notin habits
        PROVE  Counted(fd', inUse', fill', refs')
    <2>1. Counted(fd, inUse, fill, refs)
      BY <1>2 DEF CountedIf
    <2>2. ASSUME NEW d \in Ends
          PROVE  HoldersIn(fd', d) <= refs'[d]
      <3>1. \A p \in Pids, i \in Fds : fd'[p][i] = d => fd[p][i] = d
        BY EndsNotClosed
      <3>2. HoldersIn(fd', d) <= HoldersIn(fd, d)
        BY <3>1, HeldNoMore
      <3>3. /\ HoldersIn(fd', d) \in Nat /\ HoldersIn(fd, d) \in Nat
            /\ refs[d] \in Nat /\ HoldersIn(fd, d) <= refs[d]
        BY <2>1, Finite, PipeAssumption DEF Counted, TypeOK
      <3> QED
        BY <3>2, <3>3
    <2> QED
      BY <2>1, <2>2 DEF Counted
  <1>3. ASSUME habits \subseteq {"dup"}
        PROVE  Referred(live', fd', refs')
    <2>1. Referred(live, fd, refs)
      BY <1>3 DEF ReferredIf
    <2>2. ASSUME NEW d \in Ends
          PROVE  refs'[d] <= HoldersIn(fd', d)
      <3>1. \A p \in Pids, i \in Fds : fd[p][i] = d => fd'[p][i] = d
        BY <1>3
      <3>2. HoldersIn(fd, d) <= HoldersIn(fd', d)
        BY <3>1, HeldNoMore
      <3>3. /\ HoldersIn(fd', d) \in Nat /\ HoldersIn(fd, d) \in Nat
            /\ refs[d] \in Nat /\ refs[d] <= HoldersIn(fd, d)
        BY <2>1, Finite, PipeAssumption DEF Referred, TypeOK
      <3> QED
        BY <3>2, <3>3
    <2> QED
      BY <1>3, <2>2 DEF Referred
  <1> QED
    BY <1>1, <1>2, <1>3 DEF CountedIf, ReferredIf

(* sys_fork                                                                *)
LEMMA ForkKeeps ==
    ASSUME PipeInv, NEW p \in live, NEW c \in Pids, Fork(p, c), UNCHANGED habits
    PROVE  PipeInv'
  <1> USE DEF PipeInv
  <1>1. fd \in Rows /\ p \in Pids /\ fd[p] \in [Fds -> Ends \cup {Closed}]
        /\ refs \in [Ends -> 0 .. MaxRefs] /\ MaxRefs \in Nat
    BY PipeAssumption DEF TypeOK, Rows
  <1>2. /\ c \notin live /\ live' = live \cup {c} /\ Copied(fd, p, c, fd')
        /\ refs' = [e \in Ends |-> refs[e] + Copies(fd[p], e)]
        /\ \A e \in Ends : refs[e] + Copies(fd[p], e) <= MaxRefs
        /\ UNCHANGED <<inUse, fill>>
    BY DEF Fork, Copied
  <1>3. fd' \in Rows
    BY <1>1, <1>2 DEF Rows, Copied
  <1>4. \A e \in Ends : /\ refs'[e] = refs[e] + Copies(fd[p], e)
                        /\ Copies(fd[p], e) \in Nat /\ refs[e] \in Nat
                        /\ HoldersIn(fd, e) \in Nat /\ HoldersIn(fd', e) \in Nat
    <2> SUFFICES ASSUME NEW e \in Ends
                 PROVE  /\ refs'[e] = refs[e] + Copies(fd[p], e)
                        /\ Copies(fd[p], e) \in Nat /\ refs[e] \in Nat
                        /\ HoldersIn(fd, e) \in Nat /\ HoldersIn(fd', e) \in Nat
      OBVIOUS
    <2>1. Copies(fd[p], e) \in Nat
      BY Finite
    <2>2. HoldersIn(fd, e) \in Nat /\ HoldersIn(fd', e) \in Nat
      BY Finite
    <2>3. refs'[e] = refs[e] + Copies(fd[p], e) /\ refs[e] \in Nat
      BY <1>1, <1>2
    <2> QED
      BY <2>1, <2>2, <2>3
  <1>5. TypeOK'
    <2>1. refs' \in [Ends -> 0 .. MaxRefs]
      BY <1>1, <1>2, <1>4
    <2> QED
      BY <1>2, <1>3, <2>1 DEF TypeOK, Rows
  <1>6. ASSUME "dup" \notin habits
        PROVE  Counted(fd', inUse', fill', refs')
    <2>1. Counted(fd, inUse, fill, refs)
      BY <1>6 DEF CountedIf
    <2>2. ASSUME NEW e \in Ends
          PROVE  HoldersIn(fd', e) <= refs'[e]
      <3>1. HoldersIn(fd', e) <= HoldersIn(fd, e) + Copies(fd[p], e)
        BY <1>1, <1>2, HeldOnFork
      <3>2. HoldersIn(fd, e) <= refs[e]
        BY <2>1 DEF Counted
      <3> QED
        BY <1>4, <3>1, <3>2
    <2>3. ASSUME NEW s \in Slots, ~ inUse[s], NEW t \in EndTypes
          PROVE  refs'[End(t, s)] = 0
      <3> DEFINE e == End(t, s)
      <3>1. e \in Ends
        BY EndsNotClosed
      <3>2. refs[e] = 0 /\ HoldersIn(fd, e) <= refs[e]
        BY <2>1, <2>3, <3>1 DEF Counted, BothZero
      <3>3. HoldersIn(fd, e) = 0
        BY <1>4, <3>1, <3>2
      <3>4. \A i \in Fds : fd[p][i] # e
        BY <1>1, <3>3, HeldByNone
      <3>5. Copies(fd[p], e) = 0
        BY <3>4, CopiedIfHeld
      <3> QED
        BY <1>4, <3>1, <3>2, <3>5
    <2> QED
      BY <1>2, <2>1, <2>2, <2>3 DEF Counted, BothZero
  <1>7. ASSUME habits \subseteq {"dup"}
        PROVE  Referred(live', fd', refs')
    <2>1. Referred(live, fd, refs)
      BY <1>7 DEF ReferredIf
    <2>2. ASSUME NEW e \in Ends
          PROVE  refs'[e] <= HoldersIn(fd', e)
      <3>1. \A i \in Fds : fd[c][i] # e
        BY <1>2, <2>1, EndsNotClosed DEF Referred
      <3>2. HoldersIn(fd', e) = HoldersIn(fd, e) + Copies(fd[p], e)
        BY <1>1, <1>2, <3>1, HeldOnFork
      <3>3. refs[e] <= HoldersIn(fd, e)
        BY <2>1 DEF Referred
      <3> QED
        BY <1>4, <3>2, <3>3
    <2>3. \A q \in Pids \ live', i \in Fds : fd'[q][i] = Closed
      BY <1>1, <1>2, <2>1 DEF Referred, Copied, Rows
    <2> QED
      BY <2>2, <2>3 DEF Referred
  <1> QED
    BY <1>5, <1>6, <1>7, <1>2 DEF CountedIf, ReferredIf

----------------------------------------------------------------------------
(* The invariant holds                                                     *)

LEMMA PipeInvInit == Init => PipeInv
  <1> SUFFICES ASSUME Init PROVE PipeInv
    OBVIOUS
  <1>1. TypeOK
    BY PipeAssumption, NProcAssumption, EndsNotClosed DEF Init, TypeOK, Pids
  <1>2. \A e \in Ends : HoldersIn(fd, e) = 0 /\ refs[e] = 0
    BY HeldByNone, EndsNotClosed DEF Init
  <1>3. Counted(fd, inUse, fill, refs)
    BY <1>2, EndsNotClosed DEF Init, Counted, BothZero
  <1>4. Referred(live, fd, refs)
    BY <1>2 DEF Init, Referred
  <1> QED
    BY <1>1, <1>3, <1>4 DEF PipeInv, CountedIf, ReferredIf

LEMMA CallKeeps ==
    ASSUME PipeInv, NEW p \in live, Call(p) \/ Kill(p), UNCHANGED habits
    PROVE  PipeInv'
  <1>1. /\ fd \in Rows /\ live \in SUBSET Pids /\ p \in Pids
        /\ fill \in [Slots -> 0 .. PipeBytes] /\ PipeBytes \in Nat
        /\ \A i \in Fds : fd[p][i] \in Ends \cup {Closed}
    BY PipeAssumption DEF PipeInv, TypeOK, Rows
  <1>2. CASE SysPipe(p)
    BY <1>2, OpenKeeps
  <1>3. CASE SysExec(p)
    <2>1. /\ fd' = [fd EXCEPT ![p] = ResetFds(@)] /\ "exec" \in habits
          /\ UNCHANGED <<live, inUse, fill, refs>>
      BY <1>3 DEF SysExec
    <2>2. \A q \in Pids, i \in Fds : fd'[q][i] \in {fd[q][i], Closed}
      BY <1>1, <2>1 DEF ResetFds, Rows
    <2>3. fd' \in Rows
      BY <1>1, <2>1 DEF ResetFds, Rows
    <2> QED
      BY <1>1, <2>1, <2>2, <2>3, ForgetKeeps
  <1>4. CASE SysExit(p)
    <2>1. live' \in SUBSET Pids /\ UNCHANGED <<fd, inUse, fill, refs>>
      BY <1>1, <1>4 DEF SysExit
    <2>2. ASSUME habits \subseteq {"dup"}
          PROVE  \A q \in Pids \ live', i \in Fds : fd[q][i] = Closed
      <3>1. \A i \in Fds : fd[p][i] = Closed
        BY <1>4, <2>2 DEF SysExit, HoldsNoEnd, FreeFds
      <3>2. \A q \in Pids \ live, i \in Fds : fd[q][i] = Closed
        BY <2>2 DEF PipeInv, ReferredIf, Referred
      <3>3. live' = live \ {p}
        BY <1>4 DEF SysExit
      <3> QED
        BY <3>1, <3>2, <3>3
    <2> QED
      BY <1>1, <2>1, <2>2, ForgetKeeps
  <1>5. CASE Kill(p)
    <2>1. /\ fd' = [fd EXCEPT ![p] = [i \in Fds |-> Closed]] /\ "kill" \in habits
          /\ live' = live \ {p} /\ UNCHANGED <<inUse, fill, refs>>
      BY <1>5 DEF Kill
    <2>2. \A q \in Pids, i \in Fds : fd'[q][i] \in {fd[q][i], Closed}
      BY <1>1, <2>1 DEF Rows
    <2>3. fd' \in Rows
      BY <1>1, <2>1 DEF Rows
    <2> QED
      BY <1>1, <2>1, <2>2, <2>3, ForgetKeeps
  <1>6. ASSUME NEW i \in Fds, SysClose(p, i)
        PROVE  PipeInv'
    BY <1>6, ReleaseKeeps DEF SysClose
  <1>7. ASSUME NEW i \in Fds, SysDup(p, i)
        PROVE  PipeInv'
    <2> DEFINE j == Least(FreeFds(p))
    <2>1. FreeFds(p) \in SUBSET Nat /\ FreeFds(p) # {}
      BY <1>7, PipeAssumption DEF SysDup, FreeFds, Fds
    <2>2. j \in FreeFds(p)
      BY <2>1, LeastIsMember
    <2>3. j \in Fds /\ fd[p][j] = Closed
      BY <2>2 DEF FreeFds
    <2>4. Overwritten(fd, p, j, fd[p][i], fd') /\ fd[p][i] \in Ends
          /\ "dup" \in habits /\ UNCHANGED <<live, inUse, fill, refs>>
      BY <1>1, <1>7 DEF SysDup, Overwritten
    <2> HIDE DEF j
    <2> QED
      BY <2>3, <2>4, DupKeeps
  <1>8. ASSUME NEW i \in Fds, NEW j \in Fds, SysDup2(p, i, j)
        PROVE  PipeInv'
    <2>1. /\ "dup" \in habits /\ fd[p][i] \in Ends /\ UNCHANGED live
          /\ fd' = [fd EXCEPT ![p][j] = fd[p][i]]
      BY <1>1, <1>8 DEF SysDup2
    <2>2. CASE fd[p][j] # Closed
      <3>1. Release(fd[p][j])
        BY <1>8, <2>2 DEF SysDup2
      <3> QED
        BY <2>1, <2>2, <3>1, ReleaseKeeps
    <2>3. CASE fd[p][j] = Closed
      <3>1. UNCHANGED <<inUse, fill, refs>>
        BY <1>8, <2>3 DEF SysDup2
      <3>2. Overwritten(fd, p, j, fd[p][i], fd')
        BY <2>1 DEF Overwritten
      <3> QED
        BY <2>1, <2>3, <3>1, <3>2, DupKeeps
    <2> QED
      BY <2>2, <2>3
  <1>9. ASSUME NEW i \in Fds, NEW len \in 1 .. PipeBytes, Read(p, i, len) \/ Write(p, i, len)
        PROVE  PipeInv'
    <2> DEFINE s == fd[p][i].slot
    <2>1. fd[p][i] # Closed
      BY <1>9 DEF Read, Write, Closed, End
    <2>2. s \in Slots
      BY <1>1, <2>1, EndsNotClosed
    <2>3. fill[s] \in 0 .. PipeBytes
      BY <1>1, <2>2
    <2>4. \E n \in 0 .. PipeBytes : fill' = [fill EXCEPT ![s] = n]
      <3>1. CASE Read(p, i, len)
        <4>1. fill' = [fill EXCEPT ![s] = fill[s] - (IF len < fill[s] THEN len ELSE fill[s])]
          BY <3>1 DEF Read
        <4>2. fill[s] - (IF len < fill[s] THEN len ELSE fill[s]) \in 0 .. PipeBytes
          BY <1>1, <2>3
        <4> QED
          BY <4>1, <4>2
      <3>2. CASE Write(p, i, len)
        <4>1. fill' = [fill EXCEPT ![s] = fill[s] + (IF len < PipeBytes - fill[s] THEN len
                                                     ELSE PipeBytes - fill[s])]
          BY <3>2 DEF Write
        <4>2. fill[s] + (IF len < PipeBytes - fill[s] THEN len ELSE PipeBytes - fill[s])
                 \in 0 .. PipeBytes
          BY <1>1, <2>3
        <4> QED
          BY <4>1, <4>2
      <3> QED
        BY <1>9, <3>1, <3>2
    <2>5. UNCHANGED <<live, fd, inUse, refs>>
      BY <1>9 DEF Read, Write
    <2> QED
      BY <2>1, <2>4, <2>5, TransferKeeps
  <1>10. ASSUME NEW c \in Pids, Fork(p, c)
         PROVE  PipeInv'
    BY <1>10, ForkKeeps
  <1> QED
    BY <1>2, <1>3, <1>4, <1>5, <1>6, <1>7, <1>8, <1>9, <1>10 DEF Call

LEMMA SpawnKeeps ==
    ASSUME PipeInv, NEW c \in Pids, NEW elf \in BOOLEAN, Spawn(c, elf), UNCHANGED habits
    PROVE  PipeInv'
  <1>1. fd \in Rows /\ live \in SUBSET Pids
    BY DEF PipeInv, TypeOK, Rows
  <1>2. /\ c \notin live /\ live' = live \cup {c} /\ UNCHANGED <<inUse, fill, refs>>
        /\ fd' = IF elf THEN [fd EXCEPT ![c] = ResetFds(@)] ELSE fd
    BY DEF Spawn
  <1>3. fd' \in Rows /\ \A q \in Pids, i \in Fds :
                            fd'[q][i] = IF elf /\ q = c /\ i >= KeptFds THEN Closed ELSE fd[q][i]
    BY <1>1, <1>2, PipeAssumption DEF ResetFds, Rows, Fds
  <1>4. habits \subseteq {"dup"} =>
            \A q \in Pids \ live, i \in Fds : fd[q][i] = Closed
    BY DEF PipeInv, ReferredIf, Referred
  <1> QED
    BY <1>1, <1>2, <1>3, <1>4, ForgetKeeps

LEMMA PipeInvStep == PipeInv /\ [Next]_vars => PipeInv'
  <1> SUFFICES ASSUME PipeInv, [Next]_vars PROVE PipeInv'
    OBVIOUS
  <1>1. CASE Next
    <2>1. ASSUME NEW p \in live, Call(p) \/ Kill(p)
          PROVE  PipeInv'
      BY <1>1, <2>1, CallKeeps DEF Next
    <2>2. ASSUME NEW c \in Pids, NEW elf \in BOOLEAN, Spawn(c, elf)
          PROVE  PipeInv'
      BY <1>1, <2>2, SpawnKeeps DEF Next
    <2> QED
      BY <1>1, <2>1, <2>2 DEF Next, Step
  <1>2. CASE UNCHANGED vars
    BY <1>2 DEF PipeInv, TypeOK, CountedIf, ReferredIf, Counted, Referred, HoldersIn,
                Cells, BothZero, vars
  <1> QED
    BY <1>1, <1>2

(* Every descriptor is closed or an end of a slot of the pool, every count *)
(* and fill within its bound, whatever the programs do.                    *)
THEOREM PipesTyping == Spec => []TypeOK
  <1>1. Init => PipeInv
    BY PipeInvInit
  <1>2. PipeInv /\ [Next]_vars => PipeInv'
    BY PipeInvStep
  <1>3. PipeInv => TypeOK
    BY DEF PipeInv
  <1> QED
    BY <1>1, <1>2, <1>3, PTL DEF Spec

(* Programs that open, fork, read, write and close keep the two counts of  *)
(* every pipe equal to the descriptors that are its ends.                  *)
THEOREM RefsAlwaysExact == Spec => []RefsExact
  <1>1. Init => PipeInv
    BY PipeInvInit
  <1>2. PipeInv /\ [Next]_vars => PipeInv'
    BY PipeInvStep
  <1>3. PipeInv => RefsExact
    <2> SUFFICES ASSUME PipeInv, habits = {}, NEW e \in Ends
                 PROVE  refs[e] = Holders(e)
      BY DEF RefsExact
    <2>1. HoldersIn(fd, e) <= refs[e] /\ refs[e] <= HoldersIn(fd, e)
      BY DEF PipeInv, CountedIf, ReferredIf, Counted, Referred
    <2>2. HoldersIn(fd, e) \in Nat /\ refs[e] \in Nat
      BY Finite, PipeAssumption DEF PipeInv, TypeOK
    <2>3. refs[e] = HoldersIn(fd, e)
      BY <2>1, <2>2
    <2> QED
      BY <2>3, HoldersAre
  <1> QED
    BY <1>1, <1>2, <1>3, PTL DEF Spec

(* As long as no process execs, is killed or exits with open ends, a pipe  *)
(* no live process can write to has a writer count of zero: its reader     *)
(* sees end of file, also when ends were duplicated.                       *)
THEOREM EofAlwaysDetected == Spec => []EofDetected
  <1>1. Init => PipeInv
    BY PipeInvInit
  <1>2. PipeInv /\ [Next]_vars => PipeInv'
    BY PipeInvStep
  <1>3. PipeInv => EofDetected
    <2> SUFFICES ASSUME PipeInv, habits \subseteq {"dup"}, NEW s \in Slots,
                        ~ HeldByLive(End("WRITE", s))
                 PROVE  refs[End("WRITE", s)] = 0
      BY DEF EofDetected, EofReported
    <2> DEFINE W == End("WRITE", s)
    <2>1. W \in Ends
      BY EndsNotClosed DEF EndTypes
    <2>2. Referred(live, fd, refs)
      BY DEF PipeInv, ReferredIf
    <2>3. \A p \in Pids, i \in Fds : fd[p][i] # W
      BY <2>1, <2>2, EndsNotClosed DEF HeldByLive, Referred
    <2>4. HoldersIn(fd, W) = 0
      BY <2>3, HeldByNone
    <2>5. refs[W] \in Nat /\ refs[W] <= 0
      BY <2>1, <2>2, <2>4, PipeAssumption DEF Referred, PipeInv, TypeOK
    <2> QED
      BY <2>5
  <1> QED
    BY <1>1, <1>2, <1>3, PTL DEF Spec

(* Without dup no byte leaves a pipe but by a read, as long as a live      *)
(* process can read it: no close, exec, exit, kill or fork frees the pipe, *)
(* and sys_pipe never takes it for a new one.                              *)
THEOREM BytesNeverDropped == Spec => NoBytesDropped
  <1> DEFINE Kept(s) ==
                \/ \E p \in live, i \in Fds, len \in 1 .. PipeBytes : Read(p, i, len)
                \/ ~ HeldByLive(End("READ", s))'
  <1>1. Init => PipeInv
    BY PipeInvInit
  <1>2. PipeInv /\ [Next]_vars => PipeInv'
    BY PipeInvStep
  <1>3. ASSUME PipeInv, PipeInv', [Next]_vars, NEW s \in Slots,
               "dup" \notin habits, fill'[s] < fill[s]
        PROVE  Kept(s)
    <2>1. fill \in [Slots -> 0 .. PipeBytes] /\ PipeBytes \in Nat
      BY <1>3, PipeAssumption DEF PipeInv, TypeOK
    <2>2. Next /\ habits' = habits
      BY <1>3, <2>1 DEF vars, Next
    <2>3. ASSUME BothZero(refs', s)
          PROVE  ~ HeldByLive(End("READ", s))'
      <3> DEFINE R == End("READ", s)
      <3>1. R \in Ends /\ refs'[R] = 0
        BY <2>3, EndsNotClosed DEF EndTypes, BothZero
      <3>2. HoldersIn(fd', R) <= refs'[R]
        BY <1>3, <2>2, <3>1 DEF PipeInv, CountedIf, Counted
      <3>3. HoldersIn(fd', R) = 0
        BY <3>1, <3>2, Finite
      <3>4. \A p \in Pids, i \in Fds : fd'[p][i] # R
        BY <3>3, HeldByNone
      <3> QED
        BY <1>3, <3>4 DEF HeldByLive, PipeInv, TypeOK
    <2>4. ASSUME NEW e \in Ends, Release(e)
          PROVE  Kept(s)
      <3>1. fill'[s] # fill[s] => s = e.slot /\ BothZero(refs', e.slot)
        BY <2>1, <2>4, EndsNotClosed DEF Release
      <3>2. fill'[s] # fill[s]
        BY <1>3, <2>1
      <3> QED
        BY <2>3, <3>1, <3>2
    <2>5. ASSUME NEW p \in live, NEW i \in Fds, SysClose(p, i)
          PROVE  Kept(s)
      <3>1. fd[p][i] \in Ends
        BY <1>3, <2>5 DEF SysClose, PipeInv, TypeOK
      <3> QED
        BY <2>4, <2>5, <3>1 DEF SysClose
    <2>6. ASSUME NEW p \in live, SysPipe(p)
          PROVE  FALSE
      <3> DEFINE t == Least(FreePipes)
      <3>1. FreePipes \in SUBSET Nat /\ FreePipes # {}
        BY <2>6, PipeAssumption DEF FreePipes, Slots, SysPipe
      <3>2. t \in FreePipes
        BY <3>1, LeastIsMember
      <3>3. t \in Slots /\ ~ inUse[t]
        BY <3>2 DEF FreePipes
      <3>4. fill[t] = 0
        BY <1>3, <3>3 DEF PipeInv, CountedIf, Counted
      <3>5. fill' = [fill EXCEPT ![t] = 0]
        BY <2>6 DEF SysPipe
      <3>6. fill'[s] = fill[s]
        BY <2>1, <3>3, <3>4, <3>5
      <3> QED
        BY <1>3, <2>1, <3>6
    <2>7. ASSUME NEW p \in live, NEW i \in Fds, NEW len \in 1 .. PipeBytes, Write(p, i, len)
          PROVE  FALSE
      <3> DEFINE t == fd[p][i].slot
                 room == PipeBytes - fill[t]
      <3>1. fd[p][i] # Closed /\ fd[p][i] \in Ends
        BY <1>3, <2>7 DEF Write, Closed, End, PipeInv, TypeOK
      <3>2. t \in Slots
        BY <3>1, EndsNotClosed
      <3>3. fill'[t] = fill[t] + (IF len < room THEN len ELSE room) /\ room > 0
        BY <2>1, <2>7, <3>2 DEF Write
      <3>4. s # t => fill'[s] = fill[s]
        BY <2>1, <2>7 DEF Write
      <3>5. fill[s] \in Nat /\ fill[t] \in Nat /\ fill'[s] < fill[s]
        BY <1>3, <2>1, <3>2
      <3> HIDE DEF t
      <3>6. s = t => FALSE
        BY <2>1, <3>3, <3>5
      <3>7. s # t => FALSE
        BY <3>4, <3>5
      <3> QED
        BY <3>6, <3>7
    <2>8. fill' # fill
      BY <1>3, <2>1
    <2>9. ASSUME NEW p \in live, Call(p)
          PROVE  Kept(s)
      <3>1. ASSUME NEW i \in Fds, NEW len \in 1 .. PipeBytes, Read(p, i, len)
            PROVE  Kept(s)
        BY <2>9, <3>1
      <3>2. ASSUME NEW i \in Fds, SysDup(p, i)
            PROVE  FALSE
        BY <1>3, <3>2 DEF SysDup
      <3>3. ASSUME NEW i \in Fds, NEW j \in Fds, SysDup2(p, i, j)
            PROVE  FALSE
        BY <1>3, <3>3 DEF SysDup2
      <3>4. SysExec(p) \/ SysExit(p) \/ (\E c \in Pids : Fork(p, c)) => FALSE
        BY <2>8 DEF SysExec, SysExit, Fork
      <3> QED
        BY <2>5, <2>6, <2>7, <2>9, <3>1, <3>2, <3>3, <3>4 DEF Call
    <2>10. ASSUME NEW p \in live, Kill(p)
           PROVE  FALSE
      BY <2>8, <2>10 DEF Kill
    <2>11. ASSUME NEW c \in Pids, NEW elf \in BOOLEAN, Spawn(c, elf)
           PROVE  FALSE
      BY <2>8, <2>11 DEF Spawn
    <2> QED
      BY <2>2, <2>9, <2>10, <2>11 DEF Next, Step
  <1>4. PipeInv /\ PipeInv' /\ [Next]_vars =>
            [\A s \in Slots : "dup" \notin habits /\ fill'[s] < fill[s] => Kept(s)]_vars
    BY <1>3
  <1> QED
    BY <1>1, <1>2, <1>4, PTL DEF NoBytesDropped, Spec
============================================================================
