--------------------------- MODULE BlkCacheProofs ---------------------------
(***************************************************************************)
(* The block cache caches every sector once, and cannot be observed on a   *)
(* device that refuses nothing and is transferred a sector at a time,      *)
(* whatever other devices do to the cache, for any number of devices,      *)
(* sectors and entries and any data.                                       *)
(***************************************************************************)
EXTENDS BlkCache, TLAPS

DirtyIsValid == \A i \in Slots : dirty[i] => valid[i]

\* The inductive invariant that needs no assumption about the requests.
CacheInv == TypeOK /\ OneCopy /\ DirtyIsValid

LEMMA SlotsAreInts == Slots \subseteq Int /\ 0 \in Slots /\ <<0, 0>> \in Sectors
BY BlkAssumption DEF Slots, Sectors, Lbas

LEMMA NextSlot ==
    ASSUME NEW n \in Slots
    PROVE  (n + 1) % NEntries \in Slots
BY BlkAssumption DEF Slots

\* The entry that caches a sector is the one that is looked up.
LEMMA FoundEntry ==
    ASSUME CacheInv, NEW i \in Slots, valid[i], NEW s, at[i] = s
    PROVE  Cached(s) /\ Lookup(s) = i
<1>1. Entries(s) = {i}
  BY DEF CacheInv, OneCopy, Entries
<1>2. \A j \in Entries(s) : i <= j
  BY <1>1, SlotsAreInts
<1>3. \E k \in Entries(s) : \A j \in Entries(s) : k <= j
  BY <1>1, <1>2
<1>4. Lookup(s) \in Entries(s)
  BY <1>3, Zenon DEF Lookup
<1>5. QED
  BY <1>1, <1>4 DEF Cached

LEMMA LookedUp ==
    ASSUME CacheInv, NEW s, Cached(s)
    PROVE  Lookup(s) \in Slots /\ valid[Lookup(s)] /\ at[Lookup(s)] = s
<1>1. PICK i \in Slots : valid[i] /\ at[i] = s
  BY DEF Cached, Entries
<1>2. QED
  BY <1>1, FoundEntry

\* An insertion keeps the cache well formed when the sector was not cached.
LEMMA InsertKeepsInv ==
    ASSUME CacheInv, DOMAIN io' = Devs,
           NEW s \in Sectors, NEW d \in Data, NEW dsk \in [Sectors -> Data],
           NEW ok \in BOOLEAN, ~ Cached(s), Insert(s, d, dsk, ok)
    PROVE  CacheInv'
<1> USE DEF CacheInv
<1>1. TypeOK'
  <2>1. next' \in Slots
    BY NextSlot DEF TypeOK, Insert
  <2>2. disk' \in [Sectors -> Data]
    BY DEF TypeOK, Insert
  <2>3. QED
    BY <2>1, <2>2 DEF TypeOK, Insert
<1>2. \A i \in Slots : valid[i] => at[i] # s
  BY DEF Cached, Entries
<1>3. OneCopy'
  BY <1>2 DEF TypeOK, OneCopy, Insert
<1>4. DirtyIsValid'
  BY DEF TypeOK, DirtyIsValid, Insert
<1>5. QED
  BY <1>1, <1>3, <1>4

LEMMA CacheInvStep == CacheInv /\ [Next]_vars => CacheInv'
<1> SUFFICES ASSUME CacheInv, [Next]_vars PROVE CacheInv'
  OBVIOUS
<1>0. CASE UNCHANGED vars
  BY <1>0 DEF CacheInv, vars, cacheVars, TypeOK, OneCopy, DirtyIsValid
<1>2. ASSUME NEW s \in Sectors, ReadHit(s)
      PROVE  CacheInv'
  BY <1>2 DEF CacheInv, ReadHit, Did, cacheVars, TypeOK, OneCopy, DirtyIsValid
<1>3. ASSUME NEW s \in Sectors, NEW ok \in BOOLEAN, ReadMiss(s, ok)
      PROVE  CacheInv'
  <2>1. disk[s] \in Data /\ disk \in [Sectors -> Data] /\ DOMAIN io' = Devs
    BY <1>3 DEF CacheInv, TypeOK, ReadMiss, Did
  <2>2. QED
    BY <1>3, <2>1, InsertKeepsInv DEF ReadMiss
<1>4. ASSUME NEW s \in Sectors, NEW d \in Data, WriteHit(s, d)
      PROVE  CacheInv'
  <2>1. Lookup(s) \in Slots /\ valid[Lookup(s)]
    BY <1>4, LookedUp DEF WriteHit
  <2>2. QED
    BY <1>4, <2>1 DEF CacheInv, WriteHit, Did, TypeOK, OneCopy, DirtyIsValid
<1>5. ASSUME NEW s \in Sectors, NEW d \in Data, NEW ok \in BOOLEAN,
             WriteMiss(s, d, ok)
      PROVE  CacheInv'
  <2>1. [disk EXCEPT ![s] = d] \in [Sectors -> Data] /\ DOMAIN io' = Devs
    BY <1>5 DEF CacheInv, TypeOK, WriteMiss, Did
  <2>2. QED
    BY <1>5, <2>1, InsertKeepsInv DEF WriteMiss
<1>6. ASSUME NEW dev \in Long, NEW lba \in Lbas, NEW n \in Counts, NEW d \in Data,
             WriteMany(dev, lba, n, d)
      PROVE  CacheInv'
  BY <1>6 DEF CacheInv, WriteMany, cacheVars, TypeOK, OneCopy, DirtyIsValid
<1>7. ASSUME NEW lost \in SUBSET Slots, FlushAll(lost)
      PROVE  CacheInv'
  <2>1. disk' \in [Sectors -> Data]
    <3> SUFFICES ASSUME NEW s \in Sectors
                 PROVE  (IF \E i \in Slots \ lost : dirty[i] /\ at[i] = s
                         THEN data[CHOOSE i \in Slots \ lost : dirty[i] /\ at[i] = s]
                         ELSE disk[s]) \in Data
      BY <1>7 DEF FlushAll
    <3>1. CASE \E i \in Slots \ lost : dirty[i] /\ at[i] = s
      <4> DEFINE c == CHOOSE i \in Slots \ lost : dirty[i] /\ at[i] = s
      <4>1. c \in Slots
        BY <3>1, Zenon
      <4>2. QED
        BY <3>1, <4>1 DEF CacheInv, TypeOK
    <3>2. QED
      BY <3>1 DEF CacheInv, TypeOK
  <2>2. QED
    BY <1>7, <2>1 DEF CacheInv, FlushAll, TypeOK, OneCopy, DirtyIsValid
<1>8. ASSUME NEW s \in Sectors, ReadNvme(s)
      PROVE  CacheInv'
  BY <1>8 DEF CacheInv, ReadNvme, Did, cacheVars, TypeOK, OneCopy, DirtyIsValid
<1>9. ASSUME NEW s \in Sectors, NEW d \in Data, NEW ok \in BOOLEAN,
             ReadRefused(s, d, ok) \/ WriteRefused(s, d, ok)
      PROVE  CacheInv'
  <2>1. disk \in [Sectors -> Data] /\ DOMAIN io' = Devs
    BY <1>9 DEF CacheInv, TypeOK, ReadRefused, WriteRefused, Did
  <2>2. ~ Cached(s) /\ Insert(s, d, disk, ok)
    BY <1>9 DEF ReadRefused, WriteRefused
  <2>3. QED
    BY <2>1, <2>2, InsertKeepsInv
<1>10. ASSUME NEW s \in Sectors, NEW d \in Data, WriteNvme(s, d)
       PROVE  CacheInv'
  BY <1>10 DEF CacheInv, WriteNvme, Did, cacheVars, TypeOK, OneCopy, DirtyIsValid
<1>11. ASSUME NEW s \in Sectors, Single(s)
       PROVE  CacheInv'
  BY <1>2, <1>3, <1>4, <1>5, <1>8, <1>9, <1>10, <1>11 DEF Single
<1>12. QED
  BY <1>0, <1>6, <1>7, <1>11 DEF Next

LEMMA CacheInvInit == Init => CacheInv
BY SlotsAreInts, BlkAssumption DEF Init, CacheInv, TypeOK, OneCopy, DirtyIsValid

\* The fields of the cache keep their types, whatever is transferred and
\* whatever fails.
THEOREM CacheTyping == Spec => []TypeOK
<1>1. CacheInv => TypeOK
  BY DEF CacheInv
<1>2. QED
  BY <1>1, CacheInvInit, CacheInvStep, PTL DEF Spec

\* A sector is never cached twice, whatever is transferred and whatever fails.
THEOREM CachedOnce == Spec => []OneCopy
<1>1. CacheInv => OneCopy
  BY DEF CacheInv
<1>2. QED
  BY <1>1, CacheInvInit, CacheInvStep, PTL DEF Spec

----------------------------------------------------------------------------
\* The inductive invariant of the refinement.
FullInv == CacheInv /\ CleanIsCurrent

LEMMA QuietSectors ==
    /\ Quiet \subseteq Sectors
    /\ \A s \in Sectors : s \in Quiet => ~ OnNvme(s)
    /\ \A s \in Quiet : s[1] \in QuietDevs
    /\ \A s \in Sectors \ Quiet : s[1] \in Devs \ QuietDevs
BY DEF Quiet, QuietDevs, Sectors, OnNvme

\* What reads see of a sector.
LEMMA SeenCached ==
    ASSUME CacheInv, NEW i \in Slots, valid[i]
    PROVE  Seen(at[i]) = data[i]
BY FoundEntry DEF Seen

\* An insertion changes what is seen of the sector inserted and of no other.
LEMMA InsertSeen ==
    ASSUME FullInv, CacheInv',
           NEW s \in Sectors, NEW d \in Data, NEW dsk \in [Sectors -> Data],
           NEW ok \in BOOLEAN, ~ Cached(s), Insert(s, d, dsk, ok),
           s \in Quiet => dsk[s] = d,
           \A t \in Quiet \ {s} : dsk[t] = disk[t]
    PROVE  /\ \A t \in Quiet : Seen(t)' = IF t = s THEN d ELSE Seen(t)
           /\ CleanIsCurrent'
<1> USE DEF FullInv
<1>0. next \in Slots /\ (\A i \in Slots : at[i] \in Sectors) /\ Quiet \subseteq Sectors
  BY QuietSectors DEF CacheInv, TypeOK
<1>1. \A i \in Slots : valid[i] => at[i] # s
  BY DEF Cached, Entries
<1>2. /\ valid' = [valid EXCEPT ![next] = TRUE] /\ at' = [at EXCEPT ![next] = s]
      /\ data' = [data EXCEPT ![next] = d] /\ dirty' = [dirty EXCEPT ![next] = FALSE]
      /\ disk' = IF dirty[next] /\ ok THEN [dsk EXCEPT ![at[next]] = data[next]] ELSE dsk
  BY DEF Insert
<1>3. at[next] \in Quiet => ok
  BY <1>0, QuietSectors DEF Insert, Taken
<1>4. \A t \in Quiet \ {s} :
         disk'[t] = IF valid[next] /\ at[next] = t THEN data[next] ELSE disk[t]
  BY <1>0, <1>2, <1>3 DEF CacheInv, TypeOK, CleanIsCurrent
<1>5. s \in Quiet => disk'[s] = d
  BY <1>0, <1>1, <1>2 DEF CacheInv, DirtyIsValid
<1>6. ASSUME NEW t \in Quiet
      PROVE  Seen(t)' = IF t = s THEN d ELSE Seen(t)
  <2>1. CASE t = s
    <3>1. valid'[next] /\ at'[next] = s /\ data'[next] = d
      BY <1>0, <1>2 DEF CacheInv, TypeOK
    <3>2. Cached(s)' /\ Lookup(s)' = next
      BY <1>0, <3>1 DEF CacheInv, OneCopy, Cached, Entries, Lookup
    <3>3. QED
      BY <2>1, <3>1, <3>2 DEF Seen
  <2>2. CASE t # s /\ Cached(t)
    <3>1. PICK i \in Slots : valid[i] /\ at[i] = t
      BY <2>2 DEF Cached, Entries
    <3>2. Seen(t) = data[i]
      BY <3>1, SeenCached
    <3>3. CASE i = next
      <4>1. ~ Cached(t)'
        BY <1>0, <1>2, <2>2, <3>1, <3>3 DEF CacheInv, TypeOK, OneCopy, Cached, Entries
      <4>2. Seen(t)' = disk'[t]
        BY <4>1 DEF Seen
      <4>3. QED
        BY <1>4, <2>2, <3>1, <3>2, <3>3, <4>2
    <3>4. CASE i # next
      <4>1. valid'[i] /\ at'[i] = t /\ data'[i] = data[i]
        BY <1>0, <1>2, <3>1, <3>4 DEF CacheInv, TypeOK
      <4>2. Cached(t)' /\ Lookup(t)' = i
        BY <4>1 DEF CacheInv, OneCopy, Cached, Entries, Lookup
      <4>3. QED
        BY <2>2, <3>2, <4>1, <4>2 DEF Seen
    <3>5. QED
      BY <3>3, <3>4
  <2>3. CASE t # s /\ ~ Cached(t)
    <3>1. \A i \in Slots : valid[i] => at[i] # t
      BY <2>3 DEF Cached, Entries
    <3>2. ~ Cached(t)'
      BY <1>0, <1>2, <2>3, <3>1 DEF CacheInv, TypeOK, Cached, Entries
    <3>3. disk'[t] = disk[t]
      BY <1>0, <1>4, <2>3, <3>1
    <3>4. QED
      BY <2>3, <3>2, <3>3 DEF Seen
  <2>4. QED
    BY <2>1, <2>2, <2>3
<1>7. ASSUME NEW i \in Slots
      PROVE  /\ dirty'[i] => valid'[i]
             /\ valid'[i] /\ ~ dirty'[i] /\ at'[i] \in Quiet => data'[i] = disk'[at'[i]]
  <2>1. CASE i = next
    BY <1>0, <1>2, <1>5, <2>1 DEF CacheInv, TypeOK
  <2>2. CASE i # next
    <3>1. valid'[i] = valid[i] /\ at'[i] = at[i] /\ data'[i] = data[i] /\ dirty'[i] = dirty[i]
      BY <1>0, <1>2, <2>2 DEF CacheInv, TypeOK
    <3>2. valid[i] /\ at[i] \in Quiet => disk'[at[i]] = disk[at[i]]
      BY <1>0, <1>1, <1>4, <2>2 DEF CacheInv, OneCopy
    <3>3. QED
      BY <3>1, <3>2 DEF CleanIsCurrent
  <2>3. QED
    BY <2>1, <2>2
<1>8. CleanIsCurrent'
  BY <1>7 DEF CleanIsCurrent, Quiet, QuietDevs, Lbas
<1>9. QED
  BY <1>6, <1>8

\* A request for a sector changes what is seen of no other; what is not quiet
\* is not seen.
LEMMA SeenToContents ==
    ASSUME NEW s \in Sectors, NEW d,
           \A t \in Quiet : Seen(t)' = IF t = s THEN d ELSE Seen(t)
    PROVE  Contents' = [Contents EXCEPT ![s] = d]
<1>1. Contents' = [t \in Quiet |-> Seen(t)']
  BY DEF Contents, Quiet, QuietDevs, Lbas
<1>2. QED
  BY <1>1 DEF Contents

LEMMA ContentsKept ==
    ASSUME \A t \in Quiet : Seen(t)' = Seen(t)
    PROVE  Contents' = Contents
BY DEF Contents, Quiet, QuietDevs, Lbas

LEMMA DidQuiet ==
    ASSUME CacheInv, NEW s \in Sectors, NEW op, NEW d, Did(op, s, d)
    PROVE  IF s \in Quiet
           THEN Transfers' = [Transfers EXCEPT ![s[1]] = <<op, s, d>>]
           ELSE Transfers' = Transfers
<1>1. io' = [io EXCEPT ![s[1]] = <<op, s, d>>] /\ DOMAIN io = Devs
  BY DEF CacheInv, TypeOK, Did
<1>2. CASE s \in Quiet
  <2>1. s[1] \in QuietDevs /\ QuietDevs \subseteq Devs
    BY <1>2, QuietSectors DEF QuietDevs
  <2>2. \A dev \in QuietDevs :
           Transfers'[dev] = [Transfers EXCEPT ![s[1]] = <<op, s, d>>][dev]
    BY <1>1, <2>1 DEF Transfers, QuietDevs
  <2>3. QED
    BY <1>2, <2>2 DEF Transfers, QuietDevs
<1>3. CASE s \notin Quiet
  <2>1. s[1] \notin QuietDevs /\ QuietDevs \subseteq Devs
    BY <1>3, QuietSectors DEF QuietDevs
  <2>2. \A dev \in QuietDevs : io'[dev] = io[dev]
    BY <1>1, <2>1
  <2>3. QED
    BY <1>3, <2>2 DEF Transfers, QuietDevs
<1>4. QED
  BY <1>2, <1>3

\* Writing back changes nothing that is seen of a quiet device.
LEMMA FlushSeen ==
    ASSUME FullInv, NEW lost \in SUBSET Slots, FlushAll(lost)
    PROVE  (\A t \in Quiet : Seen(t)' = Seen(t)) /\ CleanIsCurrent'
<1> USE DEF FullInv
<1>0. (\A i \in Slots : at[i] \in Sectors) /\ Quiet \subseteq Sectors
  BY QuietSectors DEF CacheInv, TypeOK
<1>1. valid' = valid /\ at' = at /\ data' = data /\ dirty' = [i \in Slots |-> FALSE]
  BY DEF FlushAll
<1>2. \A i \in lost : at[i] \notin Quiet
  BY <1>0, QuietSectors DEF FlushAll
<1>3. \A i \in Slots : dirty[i] /\ at[i] \in Quiet => disk'[at[i]] = data[i]
  <2> SUFFICES ASSUME NEW i \in Slots, dirty[i], at[i] \in Quiet
               PROVE  disk'[at[i]] = data[i]
    OBVIOUS
  <2> DEFINE c == CHOOSE j \in Slots \ lost : dirty[j] /\ at[j] = at[i]
  <2>0. i \in Slots \ lost
    BY <1>2
  <2>1. c \in Slots \ lost /\ dirty[c] /\ at[c] = at[i]
    <3>1. \E j \in Slots \ lost : dirty[j] /\ at[j] = at[i]
      BY <2>0
    <3>2. QED
      BY <3>1, Zenon
  <2>2. c = i
    BY <2>1 DEF CacheInv, OneCopy, DirtyIsValid
  <2>3. disk'[at[i]] = data[c]
    BY <1>0, <2>0 DEF FlushAll
  <2>4. QED
    BY <2>2, <2>3
<1>4. \A s \in Sectors : (\A i \in Slots : ~ (dirty[i] /\ at[i] = s)) => disk'[s] = disk[s]
  BY DEF FlushAll
<1>5. ASSUME NEW i \in Slots, valid[i], at[i] \in Quiet
      PROVE  disk'[at[i]] = data[i]
  <2>1. CASE dirty[i]
    BY <1>3, <1>5, <2>1
  <2>2. CASE ~ dirty[i]
    <3>1. \A j \in Slots : ~ (dirty[j] /\ at[j] = at[i])
      BY <1>5, <2>2 DEF CacheInv, OneCopy, DirtyIsValid
    <3>2. QED
      BY <1>0, <1>4, <1>5, <2>2, <3>1 DEF CleanIsCurrent
  <2>3. QED
    BY <2>1, <2>2
<1>6. ASSUME NEW s \in Sectors, ~ Cached(s)
      PROVE  disk'[s] = disk[s]
  BY <1>4, <1>6 DEF CacheInv, DirtyIsValid, Cached, Entries
<1>7. \A s \in Sectors : Cached(s)' = Cached(s) /\ Lookup(s)' = Lookup(s)
  BY <1>1 DEF Cached, Lookup, Entries
<1>8. \A t \in Quiet : Seen(t)' = Seen(t)
  BY <1>0, <1>1, <1>6, <1>7 DEF Seen
<1>9. CleanIsCurrent'
  BY <1>1, <1>5 DEF CacheInv, DirtyIsValid, CleanIsCurrent, Quiet, QuietDevs, Lbas
<1>10. QED
  BY <1>8, <1>9

\* A write of a cached sector changes what is seen of that sector only.
LEMMA WriteHitSeen ==
    ASSUME FullInv, NEW s \in Sectors, NEW d \in Data, WriteHit(s, d)
    PROVE  /\ \A t \in Quiet : Seen(t)' = IF t = s THEN d ELSE Seen(t)
           /\ CleanIsCurrent'
<1> USE DEF FullInv
<1> DEFINE e == Lookup(s)
<1>1. e \in Slots /\ valid[e] /\ at[e] = s
  BY LookedUp DEF WriteHit
<1>2. /\ data' = [data EXCEPT ![e] = d] /\ dirty' = [dirty EXCEPT ![e] = TRUE]
      /\ UNCHANGED <<disk, valid, at>>
  BY DEF WriteHit
<1>3. \A t : Cached(t)' = Cached(t) /\ Lookup(t)' = Lookup(t)
  BY <1>2 DEF Cached, Lookup, Entries
<1>4. \A t \in Sectors : Cached(t) /\ t # s => Lookup(t) # e /\ Lookup(t) \in Slots
  BY <1>1, LookedUp
<1>5. Cached(s) /\ Lookup(s) = e
  BY DEF WriteHit
<1> HIDE DEF e
<1>6. ASSUME NEW t \in Quiet
      PROVE  Seen(t)' = IF t = s THEN d ELSE Seen(t)
  <2>1. CASE t = s
    <3>1. Seen(t)' = data'[e]
      BY <1>3, <1>5, <2>1 DEF Seen
    <3>2. QED
      BY <1>1, <1>2, <2>1, <3>1 DEF CacheInv, TypeOK
  <2>2. CASE t # s
    BY <1>2, <1>3, <1>4, <2>2, QuietSectors DEF CacheInv, TypeOK, Seen
  <2>3. QED
    BY <2>1, <2>2
<1>7. CleanIsCurrent'
  BY <1>1, <1>2 DEF CacheInv, TypeOK, OneCopy, CleanIsCurrent, Quiet, QuietDevs, Lbas
<1>8. QED
  BY <1>6, <1>7

\* A read of a sector is a read of the device, or is not seen.
LEMMA ReadStep ==
    ASSUME CacheInv, NEW s \in Sectors, NEW d,
           \A t \in Quiet : Seen(t)' = Seen(t),
           s \in Quiet => d = Seen(s), Did("read", s, d)
    PROVE  Device!Next \/ UNCHANGED <<Contents, Transfers>>
<1>1. Contents' = Contents
  BY ContentsKept
<1>2. CASE s \in Quiet
  <2>1. Transfers' = [Transfers EXCEPT ![s[1]] = <<"read", s, d>>]
    BY <1>2, DidQuiet
  <2>2. d = Contents[s]
    BY <1>2 DEF Contents
  <2>3. Device!Read(s)
    BY <1>1, <2>1, <2>2 DEF Device!Read
  <2>4. QED
    BY <1>2, <2>3 DEF Device!Next
<1>3. CASE s \notin Quiet
  BY <1>1, <1>3, DidQuiet
<1>4. QED
  BY <1>2, <1>3

\* A write of a sector is a write of the device, or is not seen.
LEMMA WriteStep ==
    ASSUME CacheInv, NEW s \in Sectors, NEW d \in Data,
           \A t \in Quiet : Seen(t)' = IF t = s THEN d ELSE Seen(t),
           Did("write", s, d)
    PROVE  Device!Next \/ UNCHANGED <<Contents, Transfers>>
<1>1. CASE s \in Quiet
  <2>1. Transfers' = [Transfers EXCEPT ![s[1]] = <<"write", s, d>>]
    BY <1>1, DidQuiet
  <2>2. Contents' = [Contents EXCEPT ![s] = d]
    BY SeenToContents
  <2>3. Device!Write(s, d)
    BY <2>1, <2>2 DEF Device!Write
  <2>4. QED
    BY <1>1, <2>3 DEF Device!Next
<1>2. CASE s \notin Quiet
  <2>1. Contents' = Contents
    BY <1>2, ContentsKept
  <2>2. QED
    BY <1>2, <2>1, DidQuiet
<1>3. QED
  BY <1>1, <1>2

\* Every step is a read or a write of the device, or a stutter.
LEMMA Simulates ==
    ASSUME FullInv, [Next]_vars
    PROVE  CleanIsCurrent' /\ [Device!Next]_<<Contents, Transfers>>
<1> DEFINE Done == CleanIsCurrent' /\ (Device!Next \/ UNCHANGED <<Contents, Transfers>>)
<1> USE DEF FullInv
<1>0. CacheInv' /\ Quiet \subseteq Sectors /\ disk \in [Sectors -> Data]
  BY CacheInvStep, QuietSectors DEF CacheInv, TypeOK
<1>1. CASE UNCHANGED vars
  BY <1>1 DEF vars, cacheVars, CleanIsCurrent, Contents, Seen, Cached, Lookup, Entries, Transfers
<1>2. ASSUME NEW s \in Sectors, ReadHit(s)
      PROVE  Done
  <2>1. CleanIsCurrent' /\ \A t \in Quiet : Seen(t)' = Seen(t)
    BY <1>2 DEF ReadHit, cacheVars, CleanIsCurrent, Seen, Cached, Lookup, Entries
  <2>2. Seen(s) = data[Lookup(s)] /\ Did("read", s, data[Lookup(s)])
    BY <1>2 DEF ReadHit, Seen
  <2>3. QED
    BY <2>1, <2>2, ReadStep
<1>3. ASSUME NEW s \in Sectors, NEW d \in Data, NEW ok \in BOOLEAN, ~ Cached(s),
             Insert(s, d, disk, ok), Did("read", s, d), s \in Quiet => d = disk[s]
      PROVE  Done
  <2>1. /\ \A t \in Quiet : Seen(t)' = IF t = s THEN d ELSE Seen(t)
        /\ CleanIsCurrent'
    BY <1>0, <1>3, InsertSeen
  <2>2. s \in Quiet => d = Seen(s)
    BY <1>3 DEF Seen
  <2>3. \A t \in Quiet : Seen(t)' = Seen(t)
    BY <2>1, <2>2
  <2>4. QED
    BY <1>3, <2>1, <2>2, <2>3, ReadStep
<1>4. ASSUME NEW s \in Sectors, ReadNvme(s)
      PROVE  Done
  <2>1. CleanIsCurrent' /\ \A t \in Quiet : Seen(t)' = Seen(t)
    BY <1>4 DEF ReadNvme, cacheVars, CleanIsCurrent, Seen, Cached, Lookup, Entries
  <2>2. s \notin Quiet /\ Did("read", s, disk[s])
    BY <1>4, QuietSectors DEF ReadNvme
  <2>3. QED
    BY <2>1, <2>2, ReadStep
<1>5. ASSUME NEW s \in Sectors, NEW d \in Data, WriteHit(s, d)
      PROVE  Done
  <2>1. /\ \A t \in Quiet : Seen(t)' = IF t = s THEN d ELSE Seen(t)
        /\ CleanIsCurrent'
    BY <1>5, WriteHitSeen
  <2>2. Did("write", s, d)
    BY <1>5 DEF WriteHit
  <2>3. QED
    BY <2>1, <2>2, WriteStep
<1>6. ASSUME NEW s \in Sectors, NEW d \in Data, NEW ok \in BOOLEAN,
             NEW dsk \in [Sectors -> Data], ~ Cached(s),
             Insert(s, d, dsk, ok), Did("write", s, d),
             s \in Quiet => dsk[s] = d, \A t \in Quiet \ {s} : dsk[t] = disk[t]
      PROVE  Done
  <2>1. /\ \A t \in Quiet : Seen(t)' = IF t = s THEN d ELSE Seen(t)
        /\ CleanIsCurrent'
    BY <1>0, <1>6, InsertSeen
  <2>2. QED
    BY <1>6, <2>1, WriteStep
<1>7. ASSUME NEW s \in Sectors, NEW d \in Data, WriteNvme(s, d)
      PROVE  Done
  <2>1. s \notin Quiet /\ Did("write", s, d)
    BY <1>7, QuietSectors DEF WriteNvme
  <2>2. UNCHANGED cacheVars /\ \A t \in Quiet : disk'[t] = disk[t]
    BY <1>0, <1>7, <2>1 DEF WriteNvme
  <2>3. CleanIsCurrent' /\ \A t \in Quiet : Seen(t)' = Seen(t)
    BY <2>2 DEF cacheVars, CleanIsCurrent, Seen, Cached, Lookup, Entries
  <2>4. QED
    BY <2>1, <2>3, WriteStep
<1>8. ASSUME NEW dev \in Long, NEW lba \in Lbas, NEW n \in Counts, NEW d \in Data,
             WriteMany(dev, lba, n, d)
      PROVE  Done
  <2>1. UNCHANGED <<cacheVars, io>> /\ \A t \in Quiet : disk'[t] = disk[t]
    BY <1>0, <1>8, QuietSectors DEF WriteMany, QuietDevs
  <2>2. CleanIsCurrent' /\ \A t \in Quiet : Seen(t)' = Seen(t)
    BY <2>1 DEF cacheVars, CleanIsCurrent, Seen, Cached, Lookup, Entries
  <2>3. QED
    BY <2>1, <2>2, ContentsKept DEF Transfers
<1>9. ASSUME NEW lost \in SUBSET Slots, FlushAll(lost)
      PROVE  Done
  <2>1. CleanIsCurrent' /\ \A t \in Quiet : Seen(t)' = Seen(t)
    BY <1>9, FlushSeen
  <2>2. QED
    BY <1>9, <2>1, ContentsKept DEF FlushAll, Transfers
<1>10. ASSUME NEW s \in Sectors, Single(s)
       PROVE  Done
  <2>1. ASSUME NEW ok \in BOOLEAN, ReadMiss(s, ok)
        PROVE  Done
    BY <1>0, <1>3, <2>1 DEF ReadMiss
  <2>2. ASSUME NEW ok \in BOOLEAN, NEW d \in Data, ReadRefused(s, d, ok)
        PROVE  Done
    BY <1>3, <2>2, QuietSectors DEF ReadRefused
  <2>3. ASSUME NEW ok \in BOOLEAN, NEW d \in Data, WriteMiss(s, d, ok)
        PROVE  Done
    <3> DEFINE dsk == [disk EXCEPT ![s] = d]
    <3>1. dsk \in [Sectors -> Data] /\ dsk[s] = d /\ \A t \in Quiet \ {s} : dsk[t] = disk[t]
      BY <1>0
    <3>2. ~ Cached(s) /\ Insert(s, d, dsk, ok) /\ Did("write", s, d)
      BY <2>3 DEF WriteMiss
    <3> HIDE DEF dsk
    <3>3. QED
      BY <1>6, <3>1, <3>2
  <2>4. ASSUME NEW ok \in BOOLEAN, NEW d \in Data, WriteRefused(s, d, ok)
        PROVE  Done
    BY <1>0, <1>6, <2>4, QuietSectors DEF WriteRefused
  <2>5. QED
    BY <1>2, <1>4, <1>5, <1>7, <1>10, <2>1, <2>2, <2>3, <2>4 DEF Single
<1>11. QED
  BY <1>1, <1>8, <1>9, <1>10 DEF Next

\* The cache implements the device: a device that refuses nothing and is
\* transferred a sector at a time reads back what was last written to it,
\* through hits, misses, evictions and flushes, whatever other devices do.
THEOREM CacheIsDisk == Spec => IsDisk
<1>1. Init => FullInv /\ Device!Init
  <2> SUFFICES ASSUME Init PROVE FullInv /\ Device!Init
    OBVIOUS
  <2>1. \A s \in Sectors : ~ Cached(s)
    BY DEF Init, Cached, Entries
  <2>2. Contents \in [Quiet -> Data]
    BY <2>1, QuietSectors DEF Init, Contents, Seen
  <2>3. Transfers = [dev \in QuietDevs |-> <<>>]
    BY DEF Init, Transfers, QuietDevs
  <2>4. CleanIsCurrent
    BY DEF Init, CleanIsCurrent
  <2>5. QED
    BY <2>2, <2>3, <2>4, CacheInvInit DEF FullInv, Device!Init
<1>2. FullInv /\ [Next]_vars => FullInv'
  BY CacheInvStep, Simulates DEF FullInv
<1>3. FullInv /\ [Next]_vars => [Device!Next]_<<Contents, Transfers>>
  BY Simulates
<1>4. QED
  BY <1>1, <1>2, <1>3, PTL DEF Spec, IsDisk, Device!Spec

\* CleanIsCurrent, on its own: what is evicted without being written back is
\* what the device holds, after any mix of requests, evictions and flushes.
THEOREM CleanAlwaysCurrent == Spec => []CleanIsCurrent
<1>1. Init => FullInv
  BY CacheInvInit DEF FullInv, Init, CleanIsCurrent
<1>2. FullInv /\ [Next]_vars => FullInv'
  BY CacheInvStep, Simulates DEF FullInv
<1>3. FullInv => CleanIsCurrent
  BY DEF FullInv
<1>4. QED
  BY <1>1, <1>2, <1>3, PTL DEF Spec
============================================================================
