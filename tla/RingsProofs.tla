---------------------------- MODULE RingsProofs ----------------------------
(***************************************************************************)
(* The circular buffers of the kernel implement what they promise for any  *)
(* size: the ring of an endpoint and the lock-free queue are bounded       *)
(* queues, the buffer of a pipe is a stream of bytes.                      *)
(***************************************************************************)
EXTENDS IpcRing, PipeRing, SpscQueue, SequenceTheorems, TLAPS

----------------------------------------------------------------------------
(* How the window of a circular buffer changes when an entry is written    *)
(* behind it and when its first entry is given up, for any size.           *)

\* An index advanced at most once round the buffer.
LEMMA WrapOnce ==
    ASSUME NEW size \in Nat \ {0}, NEW a \in 0 .. 2 * size - 1
    PROVE  a % size = IF a < size THEN a ELSE a - size
<1>1. CASE a < size
  BY <1>1
<1>2. CASE a >= size
  BY <1>2
<1>3. QED
  BY <1>1, <1>2

\* mem2 is mem with v written at index t, just behind the window of n
\* entries at index from.
WrittenBehind(mem, mem2, from, n, t, v, V, size) ==
    /\ size \in Nat \ {0}
    /\ from \in 0 .. size - 1
    /\ n \in 0 .. size - 1
    /\ t = IF from + n < size THEN from + n ELSE from + n - size
    /\ v \in V
    /\ mem \in [0 .. size - 1 -> V]
    /\ mem2 = [mem EXCEPT ![t] = v]

\* Such a write appends v to the window.
LEMMA WindowPush ==
    ASSUME NEW mem, NEW mem2, NEW from, NEW n, NEW t, NEW v, NEW V, NEW size,
           WrittenBehind(mem, mem2, from, n, t, v, V, size)
    PROVE  Window(mem2, from, n + 1, size) = Append(Window(mem, from, n, size), v)
<1> USE DEF WrittenBehind
<1> DEFINE old == Window(mem, from, n, size)
           new == Window(mem2, from, n + 1, size)
<1>1. \A i \in 1 .. n + 1 : /\ from + i - 1 \in 0 .. 2 * size - 1
                                /\ (from + i - 1) % size \in 0 .. size - 1
  BY WrapOnce
<1>2. t = IF from + n < size THEN from + n ELSE from + n - size
  OBVIOUS
<1>3. ASSUME NEW i \in 1 .. n
      PROVE  (from + i - 1) % size # t
  <2> DEFINE a == from + i - 1
  <2>1. a \in 0 .. 2 * size - 1
    OBVIOUS
  <2> HIDE DEF a
  <2>2. a % size = IF a < size THEN a ELSE a - size
    BY <2>1, WrapOnce
  <2>3. QED
    BY <1>2, <2>2 DEF a
<1>4. \A i \in 1 .. n : new[i] = old[i]
  BY <1>1, <1>3 DEF Window
<1>5. new[n + 1] = v
  <2> DEFINE a == from + n
  <2>1. a \in 0 .. 2 * size - 1
    OBVIOUS
  <2> HIDE DEF a
  <2>2. a % size = IF a < size THEN a ELSE a - size
    BY <2>1, WrapOnce
  <2>3. (from + (n + 1) - 1) % size = t
    BY <1>2, <2>2 DEF a
  <2>4. n + 1 \in 1 .. n + 1 /\ mem2[t] = v
    BY <1>2
  <2>5. QED
    BY <2>3, <2>4 DEF Window
<1>6. old \in Seq(V) /\ Len(old) = n
  BY <1>1 DEF Window
<1>7. new \in Seq(V) /\ Len(new) = n + 1
  BY <1>1 DEF Window
<1> HIDE DEF old, new
<1>8. /\ Append(old, v) \in Seq(V) /\ Len(Append(old, v)) = n + 1
      /\ \A i \in 1 .. n : Append(old, v)[i] = old[i]
      /\ Append(old, v)[n + 1] = v
  <2> HIDE DEF WrittenBehind
  <2>1. v \in V /\ n \in Nat
    BY DEF WrittenBehind
  <2>2. QED
    BY <1>6, <2>1, AppendProperties
<1>9. \A i \in 1 .. n + 1 : i \in 1 .. n \/ i = n + 1
  OBVIOUS
<1>10. \A i \in 1 .. n + 1 : new[i] = Append(old, v)[i]
  BY <1>4, <1>5, <1>8, <1>9
<1>11. QED
  BY <1>7, <1>8, <1>10, SeqEqual DEF old, new

\* Advancing the from gives up the first entry.
LEMMA WindowPop ==
    ASSUME NEW size \in Nat \ {0}, NEW from \in 0 .. size - 1,
           NEW n \in 1 .. size, NEW V, NEW mem \in [0 .. size - 1 -> V]
    PROVE  /\ Window(mem, Advance(from, size), n - 1, size)
                = Tail(Window(mem, from, n, size))
           /\ Window(mem, from, n, size) # <<>>
           /\ Head(Window(mem, from, n, size)) = mem[from]
<1> DEFINE old == Window(mem, from, n, size)
           new == Window(mem, Advance(from, size), n - 1, size)
<1>1. \A i \in 1 .. n : /\ from + i - 1 \in 0 .. 2 * size - 1
                            /\ (from + i - 1) % size \in 0 .. size - 1
  BY WrapOnce
<1>2. old \in Seq(V) /\ Len(old) = n
  BY <1>1 DEF Window
<1>3. Advance(from, size) = IF from + 1 < size THEN from + 1 ELSE 0
  <2> DEFINE a == from + 1
  <2>1. a \in 0 .. 2 * size - 1
    OBVIOUS
  <2> HIDE DEF a
  <2>2. a % size = IF a < size THEN a ELSE a - size
    BY <2>1, WrapOnce
  <2>3. QED
    BY <2>2 DEF Advance, a
<1>4. ASSUME NEW i \in 1 .. n - 1
      PROVE  /\ (Advance(from, size) + i - 1) % size = (from + (i + 1) - 1) % size
             /\ (Advance(from, size) + i - 1) % size \in 0 .. size - 1
  <2>1. /\ Advance(from, size) + i - 1 \in 0 .. 2 * size - 1
        /\ from + (i + 1) - 1 \in 0 .. 2 * size - 1
    BY <1>3
  <2> DEFINE a == Advance(from, size) + i - 1
             b == from + (i + 1) - 1
  <2>2. a % size = IF a < size THEN a ELSE a - size
    BY <2>1, WrapOnce
  <2>3. b % size = IF b < size THEN b ELSE b - size
    BY <2>1, WrapOnce
  <2>4. QED
    BY <1>3, <2>2, <2>3
<1>5. new \in Seq(V) /\ Len(new) = n - 1
  <2>1. new \in [1 .. n - 1 -> V] /\ n - 1 \in Nat
    BY <1>4 DEF Window
  <2>2. QED
    BY <2>1
<1>6. \A i \in 1 .. n - 1 : new[i] = old[i + 1]
  BY <1>4 DEF Window
<1>7. old # <<>> /\ Head(old) = old[1]
  BY <1>2
<1>8. old[1] = mem[from]
  <2>1. from + 1 - 1 = from /\ from \in 0 .. 2 * size - 1 /\ 1 \in 1 .. n
    OBVIOUS
  <2>2. from % size = from
    BY <2>1, WrapOnce
  <2>3. QED
    BY <2>1, <2>2 DEF Window
<1>9. new = Tail(old)
  BY <1>2, <1>5, <1>6
<1>10. QED
  BY <1>7, <1>8, <1>9

----------------------------------------------------------------------------
\* The ring of an endpoint

\* The inductive invariant.
RingInv == TypeOK /\ RingCoherent

LEMMA AdvanceType ==
    ASSUME NEW i \in 0 .. Slots - 1
    PROVE  Advance(i, Slots) = IF i + 1 < Slots THEN i + 1 ELSE 0
<1> DEFINE a == i + 1
<1>1. a \in 0 .. 2 * Slots - 1
  BY SlotsAssumption
<1> HIDE DEF a
<1>2. a % Slots = IF a < Slots THEN a ELSE a - Slots
  BY <1>1, WrapOnce, SlotsAssumption
<1>3. QED
  BY <1>2, SlotsAssumption DEF Advance, a

\* Where the next push writes.
LEMMA TailBehind ==
    ASSUME RingInv
    PROVE  tail = IF head + count < Slots THEN head + count ELSE head + count - Slots
<1> USE SlotsAssumption DEF RingInv, TypeOK, RingCoherent
<1> DEFINE a == head + count
<1>1. a \in 0 .. 2 * Slots - 1
  OBVIOUS
<1> HIDE DEF a
<1>2. a % Slots = IF a < Slots THEN a ELSE a - Slots
  BY <1>1, WrapOnce
<1>3. QED
  BY <1>2 DEF a

\* The words of the ring keep their types and agree, in every execution.
THEOREM RingInvariant == Spec => [](TypeOK /\ RingCoherent)
<1>1. Init => RingInv
  BY SlotsAssumption, ZeroAssumption, WrapOnce DEF Init, RingInv, TypeOK, RingCoherent
<1>2. RingInv /\ [Next]_vars => RingInv'
  <2> SUFFICES ASSUME RingInv, [Next]_vars PROVE RingInv'
    OBVIOUS
  <2> USE SlotsAssumption DEF RingInv, TypeOK, RingCoherent
  <2>1. tail = IF head + count < Slots THEN head + count ELSE head + count - Slots
    BY TailBehind
  <2>2. ASSUME NEW v \in Values, Push(v)
        PROVE  RingInv'
    <3>1. tail' = IF tail + 1 < Slots THEN tail + 1 ELSE 0
      BY <2>2, AdvanceType DEF Push
    <3>2. head' = head /\ count' = count + 1 /\ count < Slots
      BY <2>2 DEF Push
    <3>3. slots' \in [0 .. Slots - 1 -> Values] /\ popped' = popped
      BY <2>2 DEF Push
    <3>4. tail' = (head' + count') % Slots
      <4> DEFINE a == head + count + 1
      <4>1. a \in 0 .. 2 * Slots - 1
        BY <3>2
      <4> HIDE DEF a
      <4>2. a % Slots = IF a < Slots THEN a ELSE a - Slots
        BY <4>1, WrapOnce
      <4>3. a = head' + count'
        BY <3>2 DEF a
      <4>4. tail' = IF a < Slots THEN a ELSE a - Slots
        BY <2>1, <3>1, <3>2 DEF a
      <4>5. QED
        BY <4>2, <4>3, <4>4
    <3>5. QED
      BY <3>1, <3>2, <3>3, <3>4
  <2>3. ASSUME Pop
        PROVE  RingInv'
    <3>1. head' = IF head + 1 < Slots THEN head + 1 ELSE 0
      BY <2>3, AdvanceType DEF Pop
    <3>2. tail' = tail /\ count' = count - 1 /\ count > 0 /\ slots' = slots /\ popped' \in Values
      BY <2>3 DEF Pop
    <3>3. tail' = (head' + count') % Slots
      <4> DEFINE a == head' + count'
      <4>1. a \in 0 .. 2 * Slots - 1
        BY <3>1, <3>2
      <4>2. tail' = IF a < Slots THEN a ELSE a - Slots
        BY <2>1, <3>1, <3>2
      <4> HIDE DEF a
      <4>3. a % Slots = IF a < Slots THEN a ELSE a - Slots
        BY <4>1, WrapOnce
      <4>4. QED
        BY <4>2, <4>3 DEF a
    <3>4. QED
      BY <3>1, <3>2, <3>3
  <2>4. QED
    BY <2>2, <2>3 DEF Next, vars
<1>3. RingInv => TypeOK /\ RingCoherent
  BY DEF RingInv
<1>4. QED
  BY <1>1, <1>2, <1>3, PTL DEF Spec

\* The ring implements the bounded queue.
THEOREM RingIsQueue == Spec => IsQueue
<1>1. Init => Queue!Init
  BY SlotsAssumption, ZeroAssumption DEF Init, Queue!Init, Window
<1>2. RingInv /\ [Next]_vars => [Queue!Next]_<<Window(slots, head, count, Slots), popped>>
  <2> SUFFICES ASSUME RingInv, [Next]_vars
               PROVE  [Queue!Next]_<<Window(slots, head, count, Slots), popped>>
    OBVIOUS
  <2> USE SlotsAssumption DEF RingInv, TypeOK, RingCoherent
  <2>1. ASSUME NEW v \in Values, Push(v)
        PROVE  Queue!Put(v)
    <3>1. count \in 0 .. Slots - 1
      BY <2>1 DEF Push
    <3>2. WrittenBehind(slots, slots', head, count, tail, v, Values, Slots)
      BY <2>1, <3>1, TailBehind DEF Push, WrittenBehind
    <3>3. Window(slots', head, count + 1, Slots) = Append(Window(slots, head, count, Slots), v)
      BY <3>2, WindowPush
    <3>4. /\ Window(slots, head, count, Slots)' = Append(Window(slots, head, count, Slots), v)
          /\ popped' = popped
      BY <2>1, <3>3 DEF Push
    <3>5. Len(Window(slots, head, count, Slots)) = count
      BY DEF Window
    <3>6. QED
      BY <3>1, <3>4, <3>5 DEF Queue!Put
  <2>2. CASE Pop
    <3>1. count \in 1 .. Slots
      BY <2>2 DEF Pop
    <3>2. /\ Window(slots, head, count, Slots)' = Tail(Window(slots, head, count, Slots))
          /\ Window(slots, head, count, Slots) # <<>>
          /\ popped' = Head(Window(slots, head, count, Slots))
      BY <2>2, <3>1, WindowPop DEF Pop
    <3>3. QED
      BY <3>2 DEF Queue!Take, Queue!Next
  <2>3. CASE UNCHANGED vars
    BY <2>3 DEF vars
  <2>4. QED
    BY <2>1, <2>2, <2>3 DEF Next, Queue!Next
<1>3. TypeOK /\ RingCoherent => RingInv
  BY DEF RingInv
<1>4. QED
  BY <1>1, <1>2, <1>3, RingInvariant, PTL DEF Spec, IsQueue, Queue!Spec

----------------------------------------------------------------------------
\* The buffer of a pipe

\* Distances round the buffer.
LEMMA AheadIs ==
    ASSUME NEW i \in Indices, NEW j \in Indices
    PROVE  /\ Ahead(i, j) = IF i >= j THEN i - j ELSE i - j + Size
           /\ Ahead(i, j) \in Indices
<1> USE SizeAssumption
<1> DEFINE a == i - j + Size
<1>1. a \in 0 .. 2 * Size - 1 /\ Size \in Nat \ {0}
  BY DEF Indices
<1> HIDE DEF a
<1>2. a % Size = IF a < Size THEN a ELSE a - Size
  BY <1>1, WrapOnce
<1>3. QED
  BY <1>2 DEF Ahead, Indices, a

\* An index moved forward less than once round the buffer.
LEMMA Moved ==
    ASSUME NEW i \in Indices, NEW n \in Indices
    PROVE  /\ (i + n) % Size = IF i + n < Size THEN i + n ELSE i + n - Size
           /\ (i + n) % Size \in Indices
<1> USE SizeAssumption
<1> DEFINE a == i + n
<1>1. a \in 0 .. 2 * Size - 1 /\ Size \in Nat \ {0}
  BY DEF Indices
<1> HIDE DEF a
<1>2. a % Size = IF a < Size THEN a ELSE a - Size
  BY <1>1, WrapOnce
<1>3. QED
  BY <1>2 DEF Indices, a

\* The i-th byte of the contents lies at this index.
Place(i) == (rp + i - 1) % Size

LEMMA PlaceIs ==
    ASSUME rp \in Indices, NEW i \in 1 .. Size
    PROVE  /\ Place(i) = IF rp + i - 1 < Size THEN rp + i - 1 ELSE rp + i - 1 - Size
           /\ Place(i) \in Indices
<1> USE SizeAssumption
<1> DEFINE k == i - 1
<1>1. k \in Indices /\ rp + i - 1 = rp + k
  BY DEF Indices
<1> HIDE DEF k
<1>2. (rp + k) % Size = IF rp + k < Size THEN rp + k ELSE rp + k - Size
  BY <1>1, Moved
<1>3. QED
  BY <1>1, <1>2, Moved DEF Place, k

Q == Window(buf, rp, Used, Size)

LEMMA ContentsType ==
    ASSUME PipeTypeOK
    PROVE  Q \in Seq(Bytes) /\ Len(Q) = Used /\ Used \in Indices
<1> USE SizeAssumption DEF PipeTypeOK
<1>1. Used \in Indices
  BY AheadIs DEF Used
<1>2. \A i \in 1 .. Used : buf[Place(i)] \in Bytes
  BY <1>1, PlaceIs DEF Indices
<1>3. QED
  BY <1>1, <1>2 DEF Q, Window, Place, Indices

\* What a write of n bytes does to the contents.
LEMMA WriteAppends ==
    ASSUME PipeTypeOK, NEW data \in Seq(Bytes), NEW n \in 1 .. Size - 1 - Used, n <= Len(data),
           wp' = (wp + n) % Size, rp' = rp,
           buf' = [i \in Indices |->
                      IF Ahead(i, wp) < n THEN data[Ahead(i, wp) + 1] ELSE buf[i]]
    PROVE  Q' = Q \o SubSeq(data, 1, n)
<1> USE SizeAssumption DEF PipeTypeOK
<1> DEFINE used == Used
           s == SubSeq(data, 1, n)
<1>1. used \in Indices /\ used = IF wp >= rp THEN wp - rp ELSE wp - rp + Size
  BY AheadIs DEF Used
<1>2. n \in Indices /\ used + n \in Indices
  BY <1>1 DEF Indices
<1>3. wp' \in Indices /\ wp' = IF wp + n < Size THEN wp + n ELSE wp + n - Size
  BY <1>2, Moved
<1>4. Used' = used + n
  <2>1. Used' = IF wp' >= rp THEN wp' - rp ELSE wp' - rp + Size
    BY <1>3, AheadIs DEF Used, Ahead
  <2>2. QED
    BY <1>1, <1>2, <1>3, <2>1 DEF Indices
<1> HIDE DEF used
<1>5. ASSUME NEW i \in 1 .. used + n
      PROVE  /\ Place(i) \in Indices
             /\ i <= used => Ahead(Place(i), wp) >= n
             /\ i > used => Ahead(Place(i), wp) = i - 1 - used
  <2>1. i \in 1 .. Size
    BY <1>1, <1>2 DEF Indices
  <2>2. Place(i) \in Indices /\ Place(i) = IF rp + i - 1 < Size THEN rp + i - 1 ELSE rp + i - 1 - Size
    BY <2>1, PlaceIs
  <2>3. Ahead(Place(i), wp) = IF Place(i) >= wp THEN Place(i) - wp ELSE Place(i) - wp + Size
    BY <2>2, AheadIs
  <2>4. QED
    BY <1>1, <1>2, <2>2, <2>3 DEF Indices
<1>6. \A i \in 1 .. used + n :
         buf'[Place(i)] = IF i <= used THEN buf[Place(i)] ELSE data[i - used]
  <2> SUFFICES ASSUME NEW i \in 1 .. used + n
               PROVE  buf'[Place(i)] = IF i <= used THEN buf[Place(i)] ELSE data[i - used]
    OBVIOUS
  <2>1. CASE i <= used
    <3>1. Place(i) \in Indices /\ Ahead(Place(i), wp) >= n /\ Ahead(Place(i), wp) \in Indices
      BY <1>5, <2>1, AheadIs
    <3>2. ~ (Ahead(Place(i), wp) < n)
      BY <3>1 DEF Indices
    <3>3. QED
      BY <2>1, <3>1, <3>2
  <2>2. CASE i > used
    <3>1. Ahead(Place(i), wp) = i - 1 - used /\ Place(i) \in Indices
      BY <1>5, <2>2
    <3>2. i - 1 - used < n /\ (i - 1 - used) + 1 = i - used
      BY <1>1 DEF Indices
    <3>3. buf'[Place(i)] = data[Ahead(Place(i), wp) + 1]
      BY <3>1, <3>2
    <3>4. QED
      BY <1>1, <2>2, <3>1, <3>2, <3>3 DEF Indices
  <2>3. QED
    BY <1>1, <2>1, <2>2 DEF Indices
<1>7. Q' = [i \in 1 .. used + n |-> buf'[Place(i)]]
  BY <1>4 DEF Q, Window, Place
<1>8. Q = [i \in 1 .. used |-> buf[Place(i)]] /\ Q \in Seq(Bytes) /\ Len(Q) = used
  BY ContentsType DEF Q, Window, Place, used
<1>9. s \in Seq(Bytes) /\ Len(s) = n /\ \A i \in 1 .. n : s[i] = data[i]
  BY <1>2 DEF Indices
<1>10. Q \o s = [i \in 1 .. used + n |-> IF i <= used THEN Q[i] ELSE s[i - used]]
  BY <1>1, <1>2, <1>8, <1>9 DEF Indices
<1> HIDE DEF s
<1>11. \A i \in 1 .. used + n :
          buf'[Place(i)] = IF i <= used THEN Q[i] ELSE s[i - used]
  <2> SUFFICES ASSUME NEW i \in 1 .. used + n
               PROVE  buf'[Place(i)] = IF i <= used THEN Q[i] ELSE s[i - used]
    OBVIOUS
  <2>1. CASE i <= used
    <3>1. i \in 1 .. used
      BY <1>1, <2>1 DEF Indices
    <3>2. QED
      BY <1>6, <1>8, <2>1, <3>1
  <2>2. CASE ~ (i <= used)
    <3>1. i - used \in 1 .. n
      BY <1>1, <1>2, <2>2 DEF Indices
    <3>2. QED
      BY <1>6, <1>9, <2>2, <3>1
  <2>3. QED
    BY <2>1, <2>2
<1>12. QED
  BY <1>7, <1>10, <1>11 DEF s

\* What a read of n bytes does to the contents and returns.
LEMMA ReadTakes ==
    ASSUME PipeTypeOK, NEW n \in 1 .. Used,
           rp' = (rp + n) % Size, wp' = wp, buf' = buf,
           io' = [i \in 1 .. n |-> buf[(rp + i - 1) % Size]]
    PROVE  Q' = SubSeq(Q, n + 1, Len(Q)) /\ io' = SubSeq(Q, 1, n)
<1> USE SizeAssumption DEF PipeTypeOK
<1> DEFINE used == Used
<1>1. used \in Indices /\ used = IF wp >= rp THEN wp - rp ELSE wp - rp + Size
  BY AheadIs DEF Used
<1>2. n \in Indices /\ n <= used
  BY <1>1 DEF Indices
<1>3. rp' \in Indices /\ rp' = IF rp + n < Size THEN rp + n ELSE rp + n - Size
  BY <1>2, Moved
<1>4. Used' = used - n
  <2>1. Used' = IF wp >= rp' THEN wp - rp' ELSE wp - rp' + Size
    BY <1>3, AheadIs DEF Used, Ahead
  <2>2. QED
    BY <1>1, <1>2, <1>3, <2>1 DEF Indices
<1>5. Q = [i \in 1 .. used |-> buf[Place(i)]] /\ Q \in Seq(Bytes) /\ Len(Q) = used
  BY ContentsType DEF Q, Window, Place
<1> HIDE DEF used
<1>6. ASSUME NEW i \in 1 .. used - n
      PROVE  (rp' + i - 1) % Size = Place(i + n)
  <2> DEFINE k == i - 1
  <2>1. k \in Indices /\ rp' + i - 1 = rp' + k
    BY <1>1, <1>2, <1>3 DEF Indices
  <2> HIDE DEF k
  <2>2. (rp' + k) % Size = IF rp' + k < Size THEN rp' + k ELSE rp' + k - Size
    BY <1>3, <2>1, Moved
  <2>3. i + n \in 1 .. Size
    BY <1>1, <1>2 DEF Indices
  <2>4. Place(i + n) = IF rp + (i + n) - 1 < Size THEN rp + (i + n) - 1
                       ELSE rp + (i + n) - 1 - Size
    BY <2>3, PlaceIs
  <2>5. (rp' + i - 1) % Size = (rp' + k) % Size
    BY <2>1
  <2>6. k = i - 1
    BY DEF k
  <2>7. (rp' + k) % Size = IF rp + (i + n) - 1 < Size THEN rp + (i + n) - 1
                           ELSE rp + (i + n) - 1 - Size
    <3> DEFINE m == (rp' + k) % Size
    <3> HIDE DEF m
    <3>1. m = IF rp' + k < Size THEN rp' + k ELSE rp' + k - Size
      BY <2>2 DEF m
    <3>2. m = IF rp + (i + n) - 1 < Size THEN rp + (i + n) - 1
              ELSE rp + (i + n) - 1 - Size
      BY <1>1, <1>2, <1>3, <2>6, <3>1 DEF Indices
    <3>3. QED
      BY <3>2 DEF m
  <2>8. QED
    BY <2>4, <2>5, <2>7
<1>7. Q' = [i \in 1 .. used - n |-> buf[Place(i + n)]]
  BY <1>4, <1>6 DEF Q, Window
<1>8. SubSeq(Q, n + 1, Len(Q)) = [i \in 1 .. used - n |-> Q[i + n]]
  BY <1>1, <1>2, <1>5 DEF Indices
<1>9. \A i \in 1 .. used - n : Q[i + n] = buf[Place(i + n)]
  BY <1>1, <1>2, <1>5 DEF Indices
<1>10. SubSeq(Q, 1, n) = [i \in 1 .. n |-> Q[i]]
  BY <1>1, <1>2, <1>5 DEF Indices
<1>11. \A i \in 1 .. n : Q[i] = buf[(rp + i - 1) % Size]
  BY <1>1, <1>2, <1>5 DEF Place, Indices
<1>12. QED
  BY <1>7, <1>8, <1>9, <1>10, <1>11

----------------------------------------------------------------------------
\* Both positions stay inside the buffer, for any size and any transfers.
THEOREM PipeTyping == PipeSpec => []PipeTypeOK
<1>1. PipeInit => PipeTypeOK
  BY SizeAssumption, StaleAssumption DEF PipeInit, PipeTypeOK, Indices
<1>2. PipeTypeOK /\ [PipeNext]_pipeVars => PipeTypeOK'
  <2> SUFFICES ASSUME PipeTypeOK, [PipeNext]_pipeVars PROVE PipeTypeOK'
    OBVIOUS
  <2> USE SizeAssumption
  <2>0. Used \in Indices
    BY AheadIs DEF Used, PipeTypeOK
  <2>1. ASSUME NEW data \in Chunks, Write(data)
        PROVE  PipeTypeOK'
    <3> DEFINE n == Smaller(Len(data), Size - 1 - Used)
    <3>1. data \in Seq(Bytes)
      BY ChunksAssumption
    <3>2. n \in Indices /\ n > 0 /\ n <= Len(data)
      BY <2>0, <2>1, <3>1 DEF Write, Smaller, Indices
    <3>3. wp' = (wp + n) % Size /\ rp' = rp /\ io' = SubSeq(data, 1, n)
      BY <2>1 DEF Write
    <3>4. buf' = [i \in Indices |->
                     IF Ahead(i, wp) < n THEN data[Ahead(i, wp) + 1] ELSE buf[i]]
      BY <2>1 DEF Write
    <3> HIDE DEF n
    <3>5. wp' \in Indices
      BY <3>2, <3>3, Moved DEF PipeTypeOK
    <3>6. io' \in Seq(Bytes)
      BY <3>1, <3>2, <3>3 DEF Indices
    <3>7. ASSUME NEW i \in Indices
          PROVE  buf'[i] \in Bytes
      <4>1. Ahead(i, wp) \in Indices
        BY AheadIs DEF PipeTypeOK
      <4>2. CASE Ahead(i, wp) < n
        <5>1. Ahead(i, wp) + 1 \in 1 .. Len(data)
          BY <3>1, <3>2, <4>1, <4>2 DEF Indices
        <5>2. QED
          BY <3>1, <3>4, <4>2, <5>1
      <4>3. CASE ~ (Ahead(i, wp) < n)
        BY <3>4, <4>3 DEF PipeTypeOK
      <4>4. QED
        BY <4>2, <4>3
    <3>8. QED
      BY <3>3, <3>4, <3>5, <3>6, <3>7 DEF PipeTypeOK
  <2>2. ASSUME NEW len \in Lengths, Read(len)
        PROVE  PipeTypeOK'
    <3> DEFINE n == Smaller(len, Used)
    <3>1. n \in Indices /\ n > 0 /\ n <= Used
      BY <2>0, <2>2, ChunksAssumption DEF Read, Smaller, Indices
    <3>2. rp' = (rp + n) % Size /\ UNCHANGED <<wp, buf>>
          /\ io' = [i \in 1 .. n |-> buf[(rp + i - 1) % Size]]
      BY <2>2 DEF Read
    <3> HIDE DEF n
    <3>3. rp' \in Indices
      BY <3>1, <3>2, Moved DEF PipeTypeOK
    <3>4. \A i \in 1 .. n : i \in 1 .. Size
      BY <3>1 DEF Indices
    <3>5. \A i \in 1 .. n : buf[(rp + i - 1) % Size] \in Bytes
      BY <3>4, PlaceIs DEF Place, PipeTypeOK
    <3>6. io' \in Seq(Bytes)
      BY <3>1, <3>2, <3>5 DEF Indices
    <3>7. QED
      BY <3>2, <3>3, <3>6 DEF PipeTypeOK
  <2>3. CASE UNCHANGED pipeVars
    BY <2>3 DEF pipeVars, PipeTypeOK
  <2>4. QED
    BY <2>1, <2>2, <2>3 DEF PipeNext
<1>3. QED
  BY <1>1, <1>2, PTL DEF PipeSpec

\* The circular buffer implements the stream: whatever wraps round its end,
\* reads return the written bytes in order, once each.
THEOREM PipeIsStream == PipeSpec => IsStream
<1>1. PipeInit => Contents!Init
  <2> SUFFICES ASSUME PipeInit PROVE Contents!Init
    OBVIOUS
  <2>1. Used = 0
    BY SizeAssumption, AheadIs DEF PipeInit, Used, Indices
  <2>2. QED
    BY <2>1 DEF PipeInit, Contents!Init, Window
<1>2. PipeTypeOK /\ [PipeNext]_pipeVars => [Contents!Next]_<<Q, io>>
  <2> SUFFICES ASSUME PipeTypeOK, [PipeNext]_pipeVars PROVE [Contents!Next]_<<Q, io>>
    OBVIOUS
  <2> USE SizeAssumption
  <2>0. Q \in Seq(Bytes) /\ Len(Q) = Used /\ Used \in Indices
    BY ContentsType
  <2>1. ASSUME NEW data \in Chunks, Write(data)
        PROVE  Contents!Write(data)
    <3> DEFINE n == Smaller(Len(data), Size - 1 - Used)
    <3>1. data \in Seq(Bytes)
      BY ChunksAssumption
    <3>2. n \in 1 .. Size - 1 - Used /\ n <= Len(data)
      BY <2>0, <2>1, <3>1 DEF Write, Smaller, Indices
    <3>3. Q' = Q \o SubSeq(data, 1, n)
      BY <2>1, <3>1, <3>2, WriteAppends DEF Write
    <3>4. n = Contents!Smaller(Len(data), Size - 1 - Len(Q))
      BY <2>0 DEF Smaller, Contents!Smaller
    <3>5. io' = SubSeq(data, 1, n) /\ n > 0
      BY <2>1 DEF Write
    <3> HIDE DEF n
    <3>6. QED
      BY <3>3, <3>4, <3>5 DEF Contents!Write, Q
  <2>2. ASSUME NEW len \in Lengths, Read(len)
        PROVE  Contents!Read(len)
    <3> DEFINE n == Smaller(len, Used)
    <3>1. n \in 1 .. Used
      BY <2>0, <2>2, ChunksAssumption DEF Read, Smaller, Indices
    <3>2. Q' = SubSeq(Q, n + 1, Len(Q)) /\ io' = SubSeq(Q, 1, n)
      BY <2>2, <3>1, ReadTakes DEF Read
    <3>3. n = Contents!Smaller(len, Len(Q))
      BY <2>0 DEF Smaller, Contents!Smaller
    <3>4. n > 0
      BY <2>2 DEF Read
    <3> HIDE DEF n
    <3>5. QED
      BY <3>2, <3>3, <3>4 DEF Contents!Read, Q
  <2>3. CASE UNCHANGED pipeVars
    BY <2>3 DEF pipeVars, Q, Used, Ahead, Window
  <2>4. QED
    BY <2>1, <2>2, <2>3 DEF PipeNext, Contents!Next
<1>3. [Contents!Next]_<<Q, io>> <=> [Contents!Next]_<<Window(buf, rp, Used, Size), io>>
  BY DEF Q
<1>4. QED
  BY <1>1, <1>2, <1>3, PipeTyping, PTL DEF PipeSpec, IsStream, Contents!Spec

----------------------------------------------------------------------------
\* The lock-free queue

LfWindow == Window(lfData, lfHead, LfCount, LfSlots)

\* The inductive invariant: a producer that has found room still has it, one
\* that has stored its value finds it behind the window, a consumer that has
\* found a value still has it and has loaded the oldest.
SpscInv ==
    /\ SpscTypeOK
    /\ prod # "idle" => LfCount < LfSlots - 1
    /\ prod = "stored" => lfData[lfTail] = value
    /\ cons # "idle" => LfCount > 0
    /\ cons = "loaded" => word = lfData[lfHead]

LEMMA LfAdvance ==
    ASSUME NEW i \in 0 .. LfSlots - 1
    PROVE  Advance(i, LfSlots) = IF i + 1 < LfSlots THEN i + 1 ELSE 0
<1> DEFINE a == i + 1
<1>1. a \in 0 .. 2 * LfSlots - 1 /\ LfSlots \in Nat \ {0}
  BY LfAssumption
<1> HIDE DEF a
<1>2. a % LfSlots = IF a < LfSlots THEN a ELSE a - LfSlots
  BY <1>1, WrapOnce
<1>3. QED
  BY <1>2, LfAssumption DEF Advance, a

LEMMA LfCountIs ==
    ASSUME SpscTypeOK
    PROVE  /\ LfCount \in 0 .. LfSlots - 1
           /\ lfTail = IF lfHead + LfCount < LfSlots THEN lfHead + LfCount
                                                     ELSE lfHead + LfCount - LfSlots
           /\ Advance(lfTail, LfSlots) # lfHead => LfCount < LfSlots - 1
           /\ lfHead # lfTail => LfCount > 0
BY LfAssumption, LfAdvance DEF SpscTypeOK, LfCount

LEMMA SpscStep == SpscInv /\ [SpscNext]_spscVars => SpscInv'
<1> SUFFICES ASSUME SpscInv, [SpscNext]_spscVars PROVE SpscInv'
  OBVIOUS
<1> USE LfAssumption DEF SpscInv, SpscTypeOK
<1>0. /\ LfCount \in 0 .. LfSlots - 1
      /\ Advance(lfTail, LfSlots) # lfHead => LfCount < LfSlots - 1
      /\ lfHead # lfTail => LfCount > 0
  BY LfCountIs
<1>1. ASSUME NEW v \in Words, CheckFull(v)
      PROVE  SpscInv'
  BY <1>0, <1>1 DEF CheckFull, consVars, LfCount
<1>2. CASE Store
  <2>1. cons # "idle" => lfHead # lfTail
    BY DEF LfCount
  <2>2. QED
    BY <1>2, <2>1 DEF Store, consVars, LfCount
<1>3. CASE Publish
  <2>1. lfTail' = IF lfTail + 1 < LfSlots THEN lfTail + 1 ELSE 0
    BY <1>3, LfAdvance DEF Publish
  <2>2. LfCount' = LfCount + 1
    BY <1>3, <2>1 DEF Publish, consVars, LfCount
  <2>3. QED
    BY <1>0, <1>3, <2>1, <2>2 DEF Publish, consVars
<1>4. CASE CheckEmpty
  BY <1>0, <1>4 DEF CheckEmpty, prodVars, LfCount
<1>5. CASE Load
  BY <1>5 DEF Load, prodVars, LfCount
<1>6. CASE GiveUp
  <2>1. lfHead' = IF lfHead + 1 < LfSlots THEN lfHead + 1 ELSE 0
    BY <1>6, LfAdvance DEF GiveUp
  <2>2. LfCount' = LfCount - 1
    BY <1>6, <2>1 DEF GiveUp, prodVars, LfCount
  <2>3. QED
    BY <1>0, <1>6, <2>1, <2>2 DEF GiveUp, prodVars
<1>7. CASE UNCHANGED spscVars
  BY <1>7 DEF spscVars, prodVars, consVars, LfCount
<1>8. QED
  BY <1>1, <1>2, <1>3, <1>4, <1>5, <1>6, <1>7 DEF SpscNext

\* Without a lock, the lock-free queue implements the bounded queue: every
\* step but the two that publish an index is invisible.
THEOREM LockFreeIsQueue == SpscSpec => IsLockFreeQueue
<1>1. SpscInit => SpscInv /\ LfQueue!Init
  BY LfAssumption DEF SpscInit, SpscInv, SpscTypeOK, LfCount, LfQueue!Init, Window
<1>2. SpscInv /\ [SpscNext]_spscVars => [LfQueue!Next]_<<LfWindow, lfOut>>
  <2> SUFFICES ASSUME SpscInv, [SpscNext]_spscVars
               PROVE  [LfQueue!Next]_<<LfWindow, lfOut>>
    OBVIOUS
  <2> USE LfAssumption DEF SpscInv, SpscTypeOK
  <2>0. /\ LfCount \in 0 .. LfSlots - 1
        /\ lfTail = IF lfHead + LfCount < LfSlots THEN lfHead + LfCount
                                                  ELSE lfHead + LfCount - LfSlots
    BY LfCountIs
  <2>1. CASE \/ \E v \in Words : CheckFull(v)
             \/ CheckEmpty \/ Load \/ UNCHANGED spscVars
    <3>1. UNCHANGED <<lfData, lfHead, lfTail, lfOut>>
      BY <2>1 DEF CheckFull, CheckEmpty, Load, spscVars, prodVars, consVars
    <3>2. QED
      BY <3>1 DEF LfWindow, LfCount
  <2>2. CASE Store
    <3>1. UNCHANGED <<lfHead, lfTail, lfOut>> /\ lfData' = [lfData EXCEPT ![lfTail] = value]
      BY <2>2 DEF Store, consVars
    <3>2. LfCount' = LfCount
      BY <3>1 DEF LfCount
    <3>3. ASSUME NEW i \in 1 .. LfCount
          PROVE  lfData'[(lfHead + i - 1) % LfSlots] = lfData[(lfHead + i - 1) % LfSlots]
      <4> DEFINE a == lfHead + i - 1
      <4>1. a \in 0 .. 2 * LfSlots - 1 /\ LfSlots \in Nat \ {0}
        BY <2>0
      <4>2. a < LfSlots => a # lfTail
        BY <2>0
      <4>3. a >= LfSlots => a - LfSlots # lfTail
        BY <2>0
      <4> HIDE DEF a
      <4>4. a % LfSlots = IF a < LfSlots THEN a ELSE a - LfSlots
        BY <4>1, WrapOnce
      <4>5. a % LfSlots # lfTail /\ a % LfSlots \in 0 .. LfSlots - 1
        BY <4>1, <4>2, <4>3, <4>4
      <4>6. lfData'[a % LfSlots] = lfData[a % LfSlots]
        BY <3>1, <4>5
      <4>7. QED
        BY <4>6 DEF a
    <3>4. LfWindow' = LfWindow
      BY <3>1, <3>2, <3>3 DEF LfWindow, Window
    <3>5. QED
      BY <3>1, <3>4
  <2>3. CASE Publish
    <3>1. /\ UNCHANGED <<lfData, lfHead, lfOut>>
          /\ LfCount \in 0 .. LfSlots - 2 /\ lfData[lfTail] = value
      BY <2>0, <2>3 DEF Publish, consVars
    <3>2. LfCount' = LfCount + 1
      <4>1. lfTail' = IF lfTail + 1 < LfSlots THEN lfTail + 1 ELSE 0
        BY <2>3, LfAdvance DEF Publish
      <4>2. QED
        BY <3>1, <4>1 DEF LfCount
    <3>3. WrittenBehind(lfData, lfData, lfHead, LfCount, lfTail, value, Words, LfSlots)
      <4>1. lfData = [lfData EXCEPT ![lfTail] = value]
        BY <3>1
      <4>2. QED
        BY <2>0, <3>1, <4>1 DEF WrittenBehind
    <3>4. Window(lfData, lfHead, LfCount + 1, LfSlots) = Append(LfWindow, value)
      BY <3>3, WindowPush DEF LfWindow
    <3>5. LfWindow' = Append(LfWindow, value) /\ Len(LfWindow) = LfCount
      BY <2>0, <3>1, <3>2, <3>4 DEF LfWindow, Window
    <3>6. LfQueue!Put(value)
      BY <3>1, <3>5 DEF LfQueue!Put, LfWindow
    <3>7. QED
      BY <3>6 DEF LfQueue!Next
  <2>4. CASE GiveUp
    <3>1. /\ UNCHANGED <<lfData, lfTail>> /\ lfOut' = lfData[lfHead]
          /\ lfHead' = Advance(lfHead, LfSlots) /\ LfCount \in 1 .. LfSlots
      BY <2>0, <2>4 DEF GiveUp, prodVars
    <3>2. LfCount' = LfCount - 1
      <4>1. lfHead' = IF lfHead + 1 < LfSlots THEN lfHead + 1 ELSE 0
        BY <3>1, LfAdvance
      <4>2. QED
        BY <3>1, <4>1 DEF LfCount
    <3>3. /\ Window(lfData, Advance(lfHead, LfSlots), LfCount - 1, LfSlots) = Tail(LfWindow)
          /\ LfWindow # <<>> /\ Head(LfWindow) = lfData[lfHead]
      <4> DEFINE n == LfCount
      <4>1. /\ LfSlots \in Nat \ {0} /\ lfHead \in 0 .. LfSlots - 1 /\ n \in 1 .. LfSlots
            /\ lfData \in [0 .. LfSlots - 1 -> Words]
        BY <3>1
      <4> HIDE DEF n
      <4>2. /\ Window(lfData, Advance(lfHead, LfSlots), n - 1, LfSlots)
                  = Tail(Window(lfData, lfHead, n, LfSlots))
            /\ Window(lfData, lfHead, n, LfSlots) # <<>>
            /\ Head(Window(lfData, lfHead, n, LfSlots)) = lfData[lfHead]
        BY <4>1, WindowPop
      <4>3. QED
        BY <4>2 DEF LfWindow, n
    <3>4. LfWindow' = Tail(LfWindow)
      BY <3>1, <3>2, <3>3 DEF LfWindow
    <3>5. LfQueue!Take
      BY <3>1, <3>3, <3>4 DEF LfQueue!Take, LfWindow
    <3>6. QED
      BY <3>5 DEF LfQueue!Next
  <2>5. QED
    BY <2>1, <2>2, <2>3, <2>4 DEF SpscNext
<1>3. QED
  BY <1>1, <1>2, SpscStep, PTL DEF SpscSpec, IsLockFreeQueue, LfQueue!Spec, LfWindow
============================================================================
