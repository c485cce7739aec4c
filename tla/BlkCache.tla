------------------------------ MODULE BlkCache ------------------------------
(***************************************************************************)
(* The block cache of the block service: blk_cache_*, blk_svc_cached_read  *)
(* and blk_svc_cached_write of services/blk/main.fj.                       *)
(*                                                                         *)
(* A transfer of one sector goes through the cache, a longer one goes to   *)
(* the device.  Entries are filled round-robin.  A request is one step, as *)
(* the service handles a message at a time.                                *)
(*                                                                         *)
(* The ramdisk takes every transfer and returns the number of bytes.  The  *)
(* NVMe driver returns the completion status instead: 0 when the command   *)
(* is done, more when it is refused.  The cache takes whatever is more     *)
(* than 0 for success, and ignores the result of a write back.  (A command *)
(* that times out returns -1 and is left out.)                             *)
(***************************************************************************)
EXTENDS Integers, FiniteSets

CONSTANTS
    Devs,       \* entries of the device table in use
    Nvme,       \* those of them that the NVMe driver serves
    Long,       \* those of them that clients transfer several sectors of
    NSectors,   \* sectors of a device
    Data,       \* what a sector can hold
    Zero,       \* the data of an entry that was cleared
    NEntries,   \* BLK_CACHE_ENTRIES, 16 in the code
    Counts      \* the lengths of the long transfers

ASSUME BlkAssumption ==
    /\ 0 \in Devs
    /\ NSectors \in Nat \ {0}
    /\ NEntries \in Nat \ {0}
    /\ Zero \in Data
    /\ Counts \subseteq Nat \ {0, 1}
    /\ Nvme \subseteq Devs /\ Long \subseteq Devs

Lbas == 0 .. NSectors - 1
Sectors == Devs \X Lbas
Slots == 0 .. NEntries - 1

VARIABLES
    disk,       \* what the devices hold
    valid,      \* +0 of every entry
    at,         \* +8, +16: the sector an entry caches
    dirty,      \* +24
    data,       \* +32
    next,       \* the insertion counter, modulo the number of entries
    io          \* the last transfer of one sector, for every device

cacheVars == <<valid, at, dirty, data, next>>
vars == <<disk, cacheVars, io>>

\* blk_svc_init
Init ==
    /\ disk \in [Sectors -> Data]
    /\ valid = [i \in Slots |-> FALSE]
    /\ at = [i \in Slots |-> <<0, 0>>]
    /\ dirty = [i \in Slots |-> FALSE]
    /\ data = [i \in Slots |-> Zero]
    /\ next = 0
    /\ io = [dev \in Devs |-> <<>>]

----------------------------------------------------------------------------
\* Helpers

\* Mutant of blk_cache_lookup: the scan stops one entry early.
EntriesShort(s) == {i \in Slots \ {NEntries - 1} : valid[i] /\ at[i] = s}

Entries(s) == {i \in Slots : valid[i] /\ at[i] = s}
Cached(s) == Entries(s) # {}
Lookup(s) == CHOOSE i \in Entries(s) : \A j \in Entries(s) : i <= j

OnNvme(s) == s[1] \in Nvme
Did(op, s, d) == io' = [io EXCEPT ![s[1]] = <<op, s, d>>]

\* A write back is taken, or refused where that can happen.
Taken(ok) == ok \/ OnNvme(at[next])

\* Mutants of blk_cache_insert: the victim is not written back, and the
\* counter is not taken modulo the number of entries.
InsertOver(s, d, dsk, ok) ==
    /\ Taken(ok)
    /\ disk' = dsk
    /\ valid' = [valid EXCEPT ![next] = TRUE]
    /\ at' = [at EXCEPT ![next] = s]
    /\ dirty' = [dirty EXCEPT ![next] = FALSE]
    /\ data' = [data EXCEPT ![next] = d]
    /\ next' = (next + 1) % NEntries

InsertPastEnd(s, d, dsk, ok) ==
    /\ Taken(ok)
    /\ disk' = IF dirty[next] /\ ok THEN [dsk EXCEPT ![at[next]] = data[next]] ELSE dsk
    /\ valid' = [valid EXCEPT ![next] = TRUE]
    /\ at' = [at EXCEPT ![next] = s]
    /\ dirty' = [dirty EXCEPT ![next] = FALSE]
    /\ data' = [data EXCEPT ![next] = d]
    /\ next' = next + 1

\* blk_cache_insert after the device has become dsk: the victim is written
\* back if it is dirty, whatever comes of that.
Insert(s, d, dsk, ok) ==
    /\ Taken(ok)
    /\ disk' = IF dirty[next] /\ ok THEN [dsk EXCEPT ![at[next]] = data[next]] ELSE dsk
    /\ valid' = [valid EXCEPT ![next] = TRUE]
    /\ at' = [at EXCEPT ![next] = s]
    /\ dirty' = [dirty EXCEPT ![next] = FALSE]
    /\ data' = [data EXCEPT ![next] = d]
    /\ next' = (next + 1) % NEntries

----------------------------------------------------------------------------
\* blk_svc_cached_read

ReadHit(s) ==
    /\ Cached(s)
    /\ Did("read", s, data[Lookup(s)])
    /\ UNCHANGED <<disk, cacheVars>>

ReadMiss(s, ok) ==
    /\ ~ Cached(s) /\ ~ OnNvme(s)
    /\ Did("read", s, disk[s])
    /\ Insert(s, disk[s], disk, ok)

\* A command that is done returns 0, and what was read is not cached.
ReadNvme(s) ==
    /\ ~ Cached(s) /\ OnNvme(s)
    /\ Did("read", s, disk[s])
    /\ UNCHANGED <<disk, cacheVars>>

\* The status of a refused command passes for a number of bytes: what happens
\* to be in the buffer, d, is cached and returned.
ReadRefused(s, d, ok) ==
    /\ ~ Cached(s) /\ OnNvme(s)
    /\ Did("read", s, d)
    /\ Insert(s, d, disk, ok)

\* blk_svc_cached_write

\* Mutant: the entry is not marked dirty.
WriteHitClean(s, d) ==
    /\ Cached(s)
    /\ data' = [data EXCEPT ![Lookup(s)] = d]
    /\ Did("write", s, d)
    /\ UNCHANGED <<disk, valid, at, dirty, next>>

WriteHit(s, d) ==
    /\ Cached(s)
    /\ data' = [data EXCEPT ![Lookup(s)] = d]
    /\ dirty' = [dirty EXCEPT ![Lookup(s)] = TRUE]
    /\ Did("write", s, d)
    /\ UNCHANGED <<disk, valid, at, next>>

\* Not cached: through to the device, and into the cache if that succeeds.
WriteMiss(s, d, ok) ==
    /\ ~ Cached(s) /\ ~ OnNvme(s)
    /\ Did("write", s, d)
    /\ Insert(s, d, [disk EXCEPT ![s] = d], ok)

WriteNvme(s, d) ==
    /\ ~ Cached(s) /\ OnNvme(s)
    /\ disk' = [disk EXCEPT ![s] = d]
    /\ Did("write", s, d)
    /\ UNCHANGED cacheVars

\* A refused write is cached as if it were on the device.
WriteRefused(s, d, ok) ==
    /\ ~ Cached(s) /\ OnNvme(s)
    /\ Did("write", s, d)
    /\ Insert(s, d, disk, ok)

\* Transfers of several sectors go past the cache; a read of that kind
\* changes nothing here.
WriteMany(dev, lba, n, d) ==
    /\ lba + n <= NSectors
    /\ disk' = [s \in Sectors |->
                   IF s[1] = dev /\ s[2] \in lba .. lba + n - 1 THEN d ELSE disk[s]]
    /\ UNCHANGED <<cacheVars, io>>

\* MSG_BLK_FLUSH: every dirty entry is written back and marked clean; lost
\* are the entries whose write the device refused.
FlushAll(lost) ==
    /\ lost \subseteq {i \in Slots : dirty[i] /\ OnNvme(at[i])}
    /\ disk' = [s \in Sectors |->
                   IF \E i \in Slots \ lost : dirty[i] /\ at[i] = s
                   THEN data[CHOOSE i \in Slots \ lost : dirty[i] /\ at[i] = s]
                   ELSE disk[s]]
    /\ dirty' = [i \in Slots |-> FALSE]
    /\ UNCHANGED <<valid, at, data, next, io>>

----------------------------------------------------------------------------
Single(s) ==
    \/ ReadHit(s)
    \/ ReadNvme(s)
    \/ \E d \in Data : WriteHit(s, d) \/ WriteNvme(s, d)
    \/ \E ok \in BOOLEAN :
          \/ ReadMiss(s, ok)
          \/ \E d \in Data :
                WriteMiss(s, d, ok) \/ ReadRefused(s, d, ok) \/ WriteRefused(s, d, ok)

Next ==
    \/ \E s \in Sectors : Single(s)
    \/ \E dev \in Long, lba \in Lbas, n \in Counts, d \in Data : WriteMany(dev, lba, n, d)
    \/ \E lost \in SUBSET Slots : FlushAll(lost)

Spec == Init /\ [][Next]_vars

----------------------------------------------------------------------------
\* Properties

\* Every field holds a value the code can store in it.
TypeOK ==
    /\ disk \in [Sectors -> Data]
    /\ valid \in [Slots -> BOOLEAN]
    /\ at \in [Slots -> Sectors]
    /\ dirty \in [Slots -> BOOLEAN]
    /\ data \in [Slots -> Data]
    /\ next \in Slots
    /\ DOMAIN io = Devs

\* A sector is cached in one entry at most: a second copy would be read, or
\* written back, instead of the one that was written.
OneCopy ==
    \A i, j \in Slots : valid[i] /\ valid[j] /\ at[i] = at[j] => i = j

\* The devices that refuse nothing and are transferred a sector at a time.
\* They share the cache with the others.
QuietDevs == Devs \ (Nvme \cup Long)
Quiet == QuietDevs \X Lbas

\* An entry of such a device that is not dirty holds what the device holds,
\* after any mix of hits, misses, evictions and flushes, by whatever device;
\* it may be dropped at any time.
CleanIsCurrent ==
    \A i \in Slots :
        /\ dirty[i] => valid[i]
        /\ valid[i] /\ ~ dirty[i] /\ at[i] \in Quiet => data[i] = disk[at[i]]

\* Through the cache, such a device reads back what was last written to it:
\* the cache, and the traffic of the other devices in it, cannot be observed.
Seen(s) == IF Cached(s) THEN data[Lookup(s)] ELSE disk[s]
Contents == [s \in Quiet |-> Seen(s)]
Transfers == [dev \in QuietDevs |-> io[dev]]
Device == INSTANCE Disk
    WITH Devs <- QuietDevs, Sectors <- Quiet, contents <- Contents, io <- Transfers
IsDisk == Device!Spec
============================================================================
