----------------------------- MODULE ToolsProofs ----------------------------
(***************************************************************************)
(* What the host scripts promise of every input: the memory map checker    *)
(* reports exactly the regions that overlap, the kernel finds its way      *)
(* through every file the tiny IntLLM builder writes, both test images     *)
(* hold the files of their manifest, the trace parser writes exactly the   *)
(* records that reached the log whole, the kernel computes from a          *)
(* group-wise quantised matrix what was exported, up to half a step, and   *)
(* its tokenizer cuts a text into pieces the exported vocabulary has for   *)
(* the ids, and puts it together again.                                    *)
(***************************************************************************)
EXTENDS MemoryMap, IntllmTiny, TestDisk, KernelTrace, Quantizer, Tokenizer,
        SequenceTheorems, FiniteSetTheorems, WellFoundedInduction, TLAPS

Positive == Nat \ {0}

----------------------------------------------------------------------------
(* The memory map checker                                                  *)

Region == [start : Nat, size : Positive]

(* The later of two regions in the order of their addresses begins in the  *)
(* earlier one.                                                            *)
Begins(r, s) == s.start < r.start + r.size

(* That is all there is to sharing a byte.                                 *)
LEMMA SharingBegins ==
    ASSUME NEW r \in Region, NEW s \in Region, r.start <= s.start
    PROVE  Shares(r, s) <=> Begins(r, s)
  <1>1. r.start \in Nat /\ r.size \in Nat /\ s.start \in Nat /\ s.size \in Nat \ {0}
    BY DEF Region, Positive
  <1>2. ASSUME Shares(r, s) PROVE Begins(r, s)
    BY <1>1, <1>2 DEF Shares, Begins
  <1>3. ASSUME Begins(r, s) PROVE Shares(r, s)
    <2>1. s.start \in r.start .. r.start + r.size - 1 /\ s.start < s.start + s.size
      BY <1>1, <1>3 DEF Begins
    <2> QED
      BY <1>1, <2>1 DEF Shares
  <1> QED
    BY <1>2, <1>3

(* Once the regions are sorted, the pairs that were printed are those the  *)
(* loops have passed and of which the later begins in the earlier.         *)
Pairs == {p \in (1 .. Len(regions)) \X (1 .. Len(regions)) : p[1] < p[2]}
Passed(p) == p[1] < scan.a \/ (p[1] = scan.a /\ p[2] < scan.b)
Ascending == \A i, j \in 1 .. Len(regions) : i < j => regions[i].start <= regions[j].start
Scanned ==
    /\ scan.a \in Positive /\ scan.b \in Positive /\ scan.a < scan.b
    /\ Ascending
    /\ found = {p \in Pairs : Passed(p) /\ Begins(regions[p[1]], regions[p[2]])}
    /\ exitStatus # -1 => /\ scan.a > Len(regions)
                          /\ exitStatus = IF found = {} THEN 0 ELSE 1
Reporting ==
    /\ regions \in Seq(Region)
    /\ scan = [a |-> scan.a, b |-> scan.b]
    /\ scan.a = 0 => found = {} /\ exitStatus = -1
    /\ scan.a # 0 => Scanned

(* Before the sort nothing is found and the status is open.                *)
LEMMA ReportingStarts ==
    ASSUME RegionLists \subseteq Seq(Region), MapInit
    PROVE  Reporting
  BY DEF MapInit, MapStart, Reporting

(* The sort puts the regions in order, with no pair passed yet.            *)
LEMMA SortingReports ==
    ASSUME Reporting, SortRegions
    PROVE  Reporting'
  <1> DEFINE n == Len(regions)
  <1>1. PICK order \in [1 .. n -> 1 .. n] :
           /\ \A i, j \in 1 .. n : i < j =>
                 \/ regions[order[i]].start < regions[order[j]].start
                 \/ regions[order[i]].start = regions[order[j]].start /\ order[i] < order[j]
           /\ regions' = [i \in 1 .. n |-> regions[order[i]]]
    BY DEF SortRegions
  <1>2. n \in Nat /\ \A i \in 1 .. n : regions[i] \in Region
    BY DEF Reporting
  <1>3. /\ scan' = [a |-> 1, b |-> 2] /\ found' = {} /\ exitStatus' = -1
    BY DEF SortRegions, Reporting
  <1> HIDE DEF n
  <1>4. regions' \in Seq(Region) /\ Len(regions') = n
    BY <1>1, <1>2
  <1>5. Ascending'
    <2> SUFFICES ASSUME NEW i \in 1 .. n, NEW j \in 1 .. n, i < j
                 PROVE  regions'[i].start <= regions'[j].start
      BY <1>4 DEF Ascending
    <2>1. regions'[i] = regions[order[i]] /\ regions'[j] = regions[order[j]]
      BY <1>1
    <2>2. regions[order[i]].start \in Nat /\ regions[order[j]].start \in Nat
      BY <1>1, <1>2 DEF Region
    <2> QED
      BY <1>1, <2>1, <2>2, SMTT(30)
  <1>6. {p \in Pairs' : Passed(p)' /\ Begins(regions'[p[1]], regions'[p[2]])} = {}
    <2> SUFFICES ASSUME NEW p \in Pairs', Passed(p)' PROVE FALSE
      OBVIOUS
    <2>1. p[1] \in 1 .. n /\ p[2] \in 1 .. n /\ p[1] < p[2]
      BY <1>4 DEF Pairs
    <2>2. p[1] < 1 \/ (p[1] = 1 /\ p[2] < 2)
      BY <1>3 DEF Passed
    <2> QED
      BY <2>1, <2>2
  <1>7. Scanned'
    BY <1>3, <1>5, <1>6 DEF Scanned, Positive
  <1> QED
    BY <1>3, <1>4, <1>7 DEF Reporting

(* The inner loop passes one pair, and prints it if it overlaps.           *)
LEMMA PairReports ==
    ASSUME Reporting, CheckPair
    PROVE  Reporting'
  <1> DEFINE a == scan.a
             b == scan.b
             n == Len(regions)
  <1>1. /\ a \in 1 .. n /\ b <= n /\ n \in Nat
        /\ scan' = [a |-> a, b |-> b + 1] /\ UNCHANGED <<regions, exitStatus>>
        /\ found' = IF Begins(regions[a], regions[b]) THEN found \cup {<<a, b>>} ELSE found
    BY DEF CheckPair, Begins, Reporting
  <1>2. /\ Scanned /\ a \in Positive /\ b \in Positive /\ a < b
        /\ found = {p \in Pairs : Passed(p) /\ Begins(regions[p[1]], regions[p[2]])}
        /\ exitStatus = -1 /\ Ascending
    BY <1>1 DEF Reporting, Scanned
  <1>3. <<a, b>> \in Pairs
    BY <1>1, <1>2 DEF Pairs, Positive
  <1>4. ASSUME NEW p \in Pairs
        PROVE  Passed(p)' <=> Passed(p) \/ p = <<a, b>>
    <2>1. p = <<p[1], p[2]>> /\ p[1] \in Nat /\ p[2] \in Nat
      BY DEF Pairs
    <2>2. Passed(p)' <=> p[1] < a \/ (p[1] = a /\ p[2] < b + 1)
      BY <1>1 DEF Passed
    <2>3. Passed(p) <=> p[1] < a \/ (p[1] = a /\ p[2] < b)
      BY DEF Passed
    <2>4. p = <<a, b>> <=> p[1] = a /\ p[2] = b
      BY <2>1
    <2> HIDE DEF a, b
    <2> QED
      BY <1>2, <2>1, <2>2, <2>3, <2>4 DEF Positive
  <1>5. Pairs' = Pairs
    BY <1>1 DEF Pairs
  <1>6. found' = {p \in Pairs' : Passed(p)' /\ Begins(regions'[p[1]], regions'[p[2]])}
    BY <1>1, <1>2, <1>3, <1>4, <1>5
  <1>7. Scanned'
    BY <1>1, <1>2, <1>6 DEF Scanned, Positive, Ascending
  <1> QED
    BY <1>1, <1>7 DEF Reporting

(* The inner loop ends, and the next region begins with its successor.     *)
LEMMA RegionReports ==
    ASSUME Reporting, NextRegion
    PROVE  Reporting'
  <1> DEFINE a == scan.a
             b == scan.b
             n == Len(regions)
  <1>1. /\ a \in 1 .. n /\ b > n /\ n \in Nat
        /\ scan' = [a |-> a + 1, b |-> a + 2] /\ UNCHANGED <<regions, found, exitStatus>>
    BY DEF NextRegion, Reporting
  <1>2. /\ Scanned /\ a \in Positive /\ b \in Positive /\ a < b
        /\ found = {p \in Pairs : Passed(p) /\ Begins(regions[p[1]], regions[p[2]])}
        /\ exitStatus = -1 /\ Ascending
    BY <1>1 DEF Reporting, Scanned
  <1>4. ASSUME NEW p \in Pairs
        PROVE  Passed(p)' <=> Passed(p)
    <2>1. p[1] \in 1 .. n /\ p[2] \in 1 .. n /\ p[1] < p[2]
      BY DEF Pairs
    <2>2. Passed(p)' <=> p[1] < a + 1 \/ (p[1] = a + 1 /\ p[2] < a + 2)
      BY <1>1 DEF Passed
    <2>3. Passed(p) <=> p[1] < a \/ (p[1] = a /\ p[2] < b)
      BY DEF Passed
    <2> HIDE DEF a, b, n
    <2> QED
      BY <1>1, <1>2, <2>1, <2>2, <2>3 DEF Positive
  <1>5. Pairs' = Pairs
    BY <1>1 DEF Pairs
  <1>6. found' = {p \in Pairs' : Passed(p)' /\ Begins(regions'[p[1]], regions'[p[2]])}
    BY <1>1, <1>2, <1>4, <1>5
  <1>7. Scanned'
    BY <1>1, <1>2, <1>6 DEF Scanned, Positive, Ascending
  <1> QED
    BY <1>1, <1>7 DEF Reporting

(* PairsReported of every list of regions that are not empty: the sweep    *)
(* over the sorted regions misses no two that share a byte, touching and   *)
(* nested regions among them, reports no others, and decides the status.   *)
THEOREM PairsAlwaysReported ==
    ASSUME RegionLists \subseteq Seq(Region)
    PROVE  MapSpec => []PairsReported
  <1>1. MapInit => Reporting
    BY ReportingStarts
  <1>2. ASSUME Reporting, [MapNext]_mapVars PROVE Reporting'
    <2>1. ASSUME ExitWith PROVE Reporting'
      BY <1>2, <2>1 DEF ExitWith, Reporting, Scanned, Ascending, Pairs, Passed, Positive
    <2>2. CASE UNCHANGED mapVars
      BY <1>2, <2>2 DEF mapVars, Reporting, Scanned, Ascending, Pairs, Passed
    <2> QED
      BY <1>2, <2>1, <2>2, SortingReports, PairReports, RegionReports DEF MapNext
  <1>3. ASSUME Reporting PROVE PairsReported
    <2> DEFINE n == Len(regions)
               pairs == {p \in (1 .. n) \X (1 .. n) :
                            p[1] < p[2] /\ Shares(regions[p[1]], regions[p[2]])}
    <2> SUFFICES ASSUME exitStatus # -1
                 PROVE  found = pairs /\ (exitStatus = 0 <=> pairs = {})
      BY DEF PairsReported
    <2>1. /\ scan.a \in Positive /\ scan.a > n /\ Ascending /\ n \in Nat
          /\ found = {p \in Pairs : Passed(p) /\ Begins(regions[p[1]], regions[p[2]])}
          /\ exitStatus = IF found = {} THEN 0 ELSE 1
      BY <1>3 DEF Reporting, Scanned
    <2>2. ASSUME NEW p \in Pairs
          PROVE  Passed(p) /\ (Begins(regions[p[1]], regions[p[2]])
                                  <=> Shares(regions[p[1]], regions[p[2]]))
      <3>1. p[1] \in 1 .. n /\ p[2] \in 1 .. n /\ p[1] < p[2]
        BY DEF Pairs
      <3>2. regions[p[1]] \in Region /\ regions[p[2]] \in Region
        BY <1>3, <3>1 DEF Reporting
      <3>3. regions[p[1]].start <= regions[p[2]].start
        BY <2>1, <3>1 DEF Ascending
      <3>4. Passed(p)
        BY <2>1, <3>1 DEF Passed, Positive
      <3> QED
        BY <3>2, <3>3, <3>4, SharingBegins
    <2>3. found = pairs
      BY <2>1, <2>2 DEF Pairs
    <2> QED
      BY <2>1, <2>3
  <1> QED
    BY <1>1, <1>2, <1>3, PTL DEF MapSpec

----------------------------------------------------------------------------
(* The file of the tiny IntLLM                                             *)

(* The shapes whose betas the kernel has room for and whose dimensions it  *)
(* accepts.                                                                *)
TinyShapes == {c \in [layers : 1 .. MaxLayers, d : 1 .. MaxDModel, vocab : 1 .. MaxVocab] :
                  6 * c.layers + 1 <= MaxBetas}
KernelTables == /\ MaxBetas \in Nat /\ DmaBytes \in Nat
                /\ OffsetSlots \in Nat /\ OffsetSlots >= 32
                /\ CacheSlot \in 0 .. OffsetSlots - 1

(* Where the gamma table and layer i of a file of shape c begin.           *)
GammaAt(c) == HeaderV9 + BuildBetaTable(6 * c.layers + 1)
LayerAt(c, i) == GammaAt(c) + BuildEmptyGammaTable + i * LayerBlock(c)

(* The dimensions of a shape are positive numbers the kernel takes.        *)
LEMMA ShapesTyped ==
    ASSUME NEW c \in TinyShapes
    PROVE  /\ c.layers \in 1 .. MaxLayers /\ c.layers \in 1 .. 32
           /\ c.d \in 1 .. MaxDModel /\ c.d \in Positive
           /\ c.vocab \in 1 .. MaxVocab /\ c.vocab \in Positive
           /\ 6 * c.layers + 1 <= MaxBetas
  <1>1. MaxLayers = 32 /\ MaxDModel \in Nat /\ MaxVocab \in Nat
    BY SMT DEF MaxLayers, MaxDModel, MaxVocab
  <1>2. /\ c.layers \in 1 .. MaxLayers /\ c.d \in 1 .. MaxDModel
        /\ c.vocab \in 1 .. MaxVocab /\ 6 * c.layers + 1 <= MaxBetas
    BY DEF TinyShapes
  <1> QED
    BY <1>1, <1>2 DEF Positive

(* Packed weights take no less than nothing, and one takes a byte.         *)
LEMMA PackedTernary ==
    ASSUME NEW n \in Nat
    PROVE  /\ PackTernary(n) \in Nat
           /\ n > 0 => PackTernary(n) > 0
  BY DEF PackTernary

(* A layer takes at least one byte.                                        *)
LEMMA LayerBlockPositive ==
    ASSUME NEW c \in TinyShapes
    PROVE  LayerBlock(c) \in Positive
  <1>1. c.d \in Nat
    BY ShapesTyped DEF Positive
  <1>2. Intermediate(c) \in Nat
    BY <1>1 DEF Intermediate
  <1>3. 4 * c.d * c.d \in Nat /\ 2 * Intermediate(c) * c.d + c.d * Intermediate(c) \in Nat
    BY <1>1, <1>2
  <1>4. /\ PackTernary(4 * c.d * c.d) \in Nat
        /\ PackTernary(2 * Intermediate(c) * c.d + c.d * Intermediate(c)) \in Nat
    BY <1>3, PackedTernary
  <1> QED
    BY <1>4 DEF LayerBlock, Positive

(* The tables lie one behind the other, and so do the layers.              *)
LEMMA TablesInOrder ==
    ASSUME NEW c \in TinyShapes
    PROVE  /\ c.layers \in 1 .. 32
           /\ GammaAt(c) = 176 + 8 + 4 * (6 * c.layers + 1)
           /\ \A i \in Nat : /\ LayerAt(c, i) \in Nat
                             /\ LayerAt(c, i) >= GammaAt(c) + 8
                             /\ LayerAt(c, i + 1) = LayerAt(c, i) + LayerBlock(c)
           /\ LayerAt(c, 0) = GammaAt(c) + 8
  <1>1. c.layers \in 1 .. 32
    BY ShapesTyped
  <1>2. GammaAt(c) = 176 + 8 + 4 * (6 * c.layers + 1)
    BY <1>1 DEF GammaAt, HeaderV9, BuildBetaTable
  <1>3. LayerBlock(c) \in Nat
    BY LayerBlockPositive DEF Positive
  <1>4. ASSUME NEW i \in Nat
        PROVE  /\ LayerAt(c, i) \in Nat
               /\ LayerAt(c, i) >= GammaAt(c) + 8
               /\ LayerAt(c, i + 1) = LayerAt(c, i) + LayerBlock(c)
    <2>1. i * LayerBlock(c) \in Nat
      BY <1>3
    <2>2. (i + 1) * LayerBlock(c) = i * LayerBlock(c) + LayerBlock(c)
      BY <1>3
    <2>3. GammaAt(c) \in Nat
      BY <1>1, <1>2
    <2> QED
      BY <1>3, <2>1, <2>2, <2>3 DEF LayerAt, BuildEmptyGammaTable
  <1>5. LayerAt(c, 0) = GammaAt(c) + 8
    BY <1>1, <1>2, <1>3 DEF LayerAt, BuildEmptyGammaTable
  <1> QED
    BY <1>1, <1>2, <1>4, <1>5

(* What the file holds, in the terms of the kernel.                        *)
InFile(f, c) ==
    /\ f.header.layers = c.layers
    /\ f.header.version = 9 /\ f.header.modelType = 11 /\ f.header.quantFormat = 2
    /\ f.header.layer0Off = LayerAt(c, 0) /\ f.header.embedOff = LayerAt(c, c.layers)
    /\ DOMAIN f.layers = 0 .. c.layers - 1
    /\ \A i \in 0 .. c.layers - 1 : f.layers[i] = LayerAt(c, i)
    /\ 180 \in DOMAIN f.words /\ f.words[180] = 6 * c.layers + 1
    /\ GammaAt(c) + 4 \in DOMAIN f.words /\ f.words[GammaAt(c) + 4] = 0
    /\ \A i \in 0 .. c.layers - 1 :
          LayerAt(c, i) + 4 \in DOMAIN f.words
          /\ f.words[LayerAt(c, i) + 4] = LayerBlock(c)

(* The file holds each table and layer at its place.                       *)
LEMMA BuildHolds ==
    ASSUME NEW c \in TinyShapes
    PROVE  InFile(Build(c), c)
  <1> DEFINE sizes == {LayerAt(c, i) + 4 : i \in 0 .. c.layers - 1}
             fields == {180, GammaAt(c) + 4} \cup sizes
             f == Build(c)
  <1>1. /\ f.header.layers = c.layers
        /\ f.header.version = 9 /\ f.header.modelType = 11 /\ f.header.quantFormat = 2
        /\ f.header.layer0Off = GammaAt(c) + BuildEmptyGammaTable
        /\ f.header.embedOff = LayerAt(c, c.layers)
        /\ f.layers = [i \in 0 .. c.layers - 1 |-> LayerAt(c, i)]
    BY DEF Build, BuildHeader, GammaAt, LayerAt
  <1>2. f.words = [w \in fields |-> IF w = 180 THEN 6 * c.layers + 1
                                    ELSE IF w = GammaAt(c) + 4 THEN 0 ELSE LayerBlock(c)]
    BY DEF Build, GammaAt, LayerAt, HeaderV9
  <1> HIDE DEF f
  <1>3. GammaAt(c) \in Nat /\ GammaAt(c) > 176
    <2>1. c.layers \in 1 .. 32 /\ GammaAt(c) = 176 + 8 + 4 * (6 * c.layers + 1)
      BY TablesInOrder
    <2> QED
      BY <2>1
  <1>4. ASSUME NEW i \in 0 .. c.layers - 1
        PROVE  /\ LayerAt(c, i) + 4 \in sizes
               /\ LayerAt(c, i) + 4 # 180 /\ LayerAt(c, i) + 4 # GammaAt(c) + 4
    <2>1. LayerAt(c, i) \in Nat /\ LayerAt(c, i) >= GammaAt(c) + 8
      BY TablesInOrder
    <2> QED
      BY <1>3, <2>1
  <1>5. f.header.layer0Off = LayerAt(c, 0)
    BY <1>1, TablesInOrder DEF BuildEmptyGammaTable
  <1> HIDE DEF sizes
  <1>6. /\ 180 \in DOMAIN f.words /\ f.words[180] = 6 * c.layers + 1
        /\ GammaAt(c) + 4 \in DOMAIN f.words /\ f.words[GammaAt(c) + 4] = 0
    BY <1>2, <1>3
  <1>7. ASSUME NEW i \in 0 .. c.layers - 1
        PROVE  LayerAt(c, i) + 4 \in DOMAIN f.words
               /\ f.words[LayerAt(c, i) + 4] = LayerBlock(c)
    BY <1>2, <1>4
  <1>8. DOMAIN f.layers = 0 .. c.layers - 1
        /\ \A i \in 0 .. c.layers - 1 : f.layers[i] = LayerAt(c, i)
    BY <1>1
  <1>9. InFile(f, c)
    BY <1>1, <1>5, <1>6, <1>7, <1>8 DEF InFile
  <1> QED
    BY <1>9 DEF f

(* The kernel accepts the header.                                          *)
LEMMA TinyAccepted ==
    ASSUME NEW c \in TinyShapes
    PROVE  HeaderAccepted(Build(c).header)
  <1> DEFINE h == Build(c).header
             embed == LayerAt(c, c.layers)
             room == BuildEmbedding(c)
             head == PackTernary(c.vocab * c.d)
  <1>1. /\ h.version = 9 /\ h.layers = c.layers /\ h.d = c.d /\ h.heads = 1
        /\ h.vocab = c.vocab /\ h.bits = 2
        /\ h.layer0Off = GammaAt(c) + BuildEmptyGammaTable /\ h.embedOff = embed
        /\ h.lmheadOff = embed + room /\ h.total = embed + room + head
    BY DEF Build, BuildHeader, GammaAt, LayerAt
  <1>2. /\ c.layers \in 1 .. MaxLayers /\ c.d \in 1 .. MaxDModel
        /\ c.vocab \in 1 .. MaxVocab
        /\ c.layers \in Nat /\ c.d \in Nat \ {0} /\ c.vocab \in Nat \ {0}
    BY ShapesTyped DEF Positive
  <1>3. c.vocab * c.d \in Nat /\ c.vocab * c.d > 0
    BY <1>2
  <1>4. room \in Nat /\ head \in Nat /\ head > 0
    BY <1>2, <1>3, PackedTernary DEF BuildEmbedding
  <1>5. /\ embed \in Nat /\ embed >= GammaAt(c) + 8
        /\ GammaAt(c) \in Nat /\ GammaAt(c) >= 176
    BY <1>2, TablesInOrder
  <1> HIDE DEF h, embed, room, head
  <1>6. /\ h.total >= 176
        /\ \A off \in {h.embedOff, h.layer0Off, h.lmheadOff} : 176 <= off /\ off < h.total
    BY <1>1, <1>4, <1>5 DEF BuildEmptyGammaTable
  <1>7. HeaderSize(h) = 176
    BY <1>1 DEF HeaderSize
  <1> QED
    BY <1>1, <1>2, <1>6, <1>7, SMTT(30) DEF h, HeaderAccepted

(* Where the kernel is in a file of shape c, as long as it reads what the  *)
(* script wrote: at the beta table, at the gamma table, at a layer with    *)
(* all before it recorded, or done.                                        *)
AtBetas == v9Cursor.next = BetaTable /\ v9Cursor.byte = 176 /\ v9Result = 1
AtGammas(c) ==
    /\ v9Cursor.next = GammaTable /\ v9Cursor.byte = GammaAt(c) /\ v9Result = 1
    /\ betaCount = 6 * c.layers + 1
AtLayers(c) ==
    /\ v9Cursor.next \in 0 .. c.layers /\ v9Cursor.byte = LayerAt(c, v9Cursor.next)
    /\ v9Result \in {0, 1} /\ (v9Result = 0 => v9Cursor.next = c.layers)
    /\ betaCount = 6 * c.layers + 1
    /\ \A i \in 0 .. v9Cursor.next - 1 : v9Words[i] = LayerAt(c, i)
OnCourse(c) ==
    /\ c.layers <= CacheSlot => v9Words[CacheSlot] = PhaseD
    /\ AtBetas \/ AtGammas(c) \/ AtLayers(c)
ParsedAs(c) ==
    /\ c \in Shapes /\ tiny = Build(c)
    /\ v9Words = [i \in 0 .. OffsetSlots - 1 |-> v9Words[i]]
    /\ loadedBy \in {"none", "ramfs", "nvme"}
    /\ loadedBy = "none" => v9Result = 1 /\ v9Cursor.next = NotBegun
    /\ loadedBy # "none" /\ InReach => OnCourse(c)
Parsed == \E c \in Shapes : ParsedAs(c)

(* The words the kernel reads are those of the file.                       *)
LEMMA WordsRead ==
    ASSUME KernelTables, NEW c \in TinyShapes, tiny = Build(c), InReach
    PROVE  /\ WordAt(180) = 6 * c.layers + 1 /\ WordAt(GammaAt(c) + 4) = 0
           /\ \A i \in 0 .. c.layers - 1 : WordAt(LayerAt(c, i) + 4) = LayerBlock(c)
  <1>1. InFile(tiny, c)
    BY BuildHolds
  <1>2. c.layers \in 1 .. 32 /\ GammaAt(c) = 176 + 8 + 4 * (6 * c.layers + 1)
    BY TablesInOrder
  <1>3. LayerAt(c, 0) = GammaAt(c) + 8
    BY TablesInOrder
  <1>4. ASSUME loadedBy = "nvme", NEW i \in 0 .. c.layers - 1
        PROVE  LayerAt(c, i) \in Nat /\ LayerAt(c, i) + 8 <= DmaBytes
    <2>1. LayerAt(c, i) + 8 <= DmaBytes
      BY <1>1, <1>4 DEF InFile, InReach
    <2> QED
      BY <2>1, TablesInOrder
  <1>5. ASSUME loadedBy = "nvme" PROVE GammaAt(c) + 16 <= DmaBytes
    <2>1. LayerAt(c, 0) + 8 <= DmaBytes
      BY <1>2, <1>4, <1>5
    <2> QED
      BY <1>2, <1>3, <2>1
  <1>6. DmaBytes \in Nat
    BY DEF KernelTables
  <1>7. WordAt(180) = 6 * c.layers + 1
    <2>1. ~(loadedBy = "nvme" /\ 180 + 4 > DmaBytes)
      BY <1>2, <1>5, <1>6
    <2> QED
      BY <1>1, <2>1 DEF WordAt, InFile
  <1>8. WordAt(GammaAt(c) + 4) = 0
    <2>1. ~(loadedBy = "nvme" /\ GammaAt(c) + 4 + 4 > DmaBytes)
      BY <1>2, <1>5, <1>6
    <2> QED
      BY <1>1, <2>1 DEF WordAt, InFile
  <1>9. ASSUME NEW i \in 0 .. c.layers - 1
        PROVE  WordAt(LayerAt(c, i) + 4) = LayerBlock(c)
    <2>1. ~(loadedBy = "nvme" /\ LayerAt(c, i) + 4 + 4 > DmaBytes)
      BY <1>4, <1>6
    <2> QED
      BY <1>1, <2>1 DEF WordAt, InFile
  <1> QED
    BY <1>7, <1>8, <1>9

(* After the header the cursor is at the scales.                           *)
LEMMA BeginParses ==
    ASSUME KernelTables, Shapes \subseteq TinyShapes,
           NEW c, ParsedAs(c), NEW source \in {"ramfs", "nvme"}, BeginV9(source)
    PROVE  ParsedAs(c)'
  <1>1. InFile(tiny, c) /\ c \in TinyShapes
    BY BuildHolds DEF ParsedAs
  <1>2. DetectFormat(tiny.header) = PhaseD
    BY <1>1 DEF InFile, DetectFormat
  <1>3. /\ loadedBy' = source /\ v9Cursor' = [next |-> BetaTable, byte |-> 176]
        /\ v9Words' = [v9Words EXCEPT ![CacheSlot] = PhaseD] /\ v9Result' = 1
        /\ tiny' = tiny
    BY <1>2 DEF BeginV9, HeaderV9
  <1>4. v9Words'[CacheSlot] = PhaseD /\ v9Words' = [i \in 0 .. OffsetSlots - 1 |-> v9Words'[i]]
    BY <1>3 DEF ParsedAs, KernelTables
  <1>5. OnCourse(c)'
    BY <1>3, <1>4 DEF OnCourse, AtBetas
  <1> QED
    BY <1>3, <1>4, <1>5 DEF ParsedAs

(* A step after the begin that stays on course.                            *)
LEMMA StaysOnCourse ==
    ASSUME NEW c, ParsedAs(c), loadedBy # "none", UNCHANGED <<tiny, loadedBy>>,
           v9Words' = [i \in 0 .. OffsetSlots - 1 |-> v9Words'[i]],
           InReach /\ OnCourse(c) => OnCourse(c)'
    PROVE  ParsedAs(c)'
  <1>1. InReach' = InReach
    BY DEF InReach
  <1> QED
    BY <1>1 DEF ParsedAs

(* Behind the scales it is at the norms.                                   *)
LEMMA BetasParse ==
    ASSUME KernelTables, Shapes \subseteq TinyShapes, NEW c, ParsedAs(c), ParseBetaTable
    PROVE  ParsedAs(c)'
  <1>1. /\ UNCHANGED <<tiny, loadedBy, v9Words>> /\ loadedBy # "none"
        /\ c \in TinyShapes /\ tiny = Build(c)
    BY DEF ParseBetaTable, ParsedAs, BetaTable, NotBegun
  <1>2. ASSUME InReach, OnCourse(c) PROVE OnCourse(c)'
    <2>1. v9Cursor.byte = 176
      BY <1>2, TablesInOrder, <1>1 DEF ParseBetaTable, OnCourse, AtBetas, AtGammas, AtLayers,
                                       BetaTable, GammaTable
    <2>2. WordAt(v9Cursor.byte + 4) = 6 * c.layers + 1
      BY <1>1, <1>2, <2>1, WordsRead
    <2>3. c.layers \in 1 .. 32 /\ 6 * c.layers + 1 <= MaxBetas /\ MaxBetas \in Nat
      BY <1>1, ShapesTyped DEF KernelTables
    <2>4. 6 * c.layers + 1 \in 1 .. MaxBetas
      BY <2>3
    <2>5. /\ betaCount' = 6 * c.layers + 1 /\ v9Result' = 1
          /\ v9Cursor' = [next |-> GammaTable, byte |-> 176 + 8 + 4 * (6 * c.layers + 1)]
      BY <2>1, <2>2, <2>4 DEF ParseBetaTable
    <2>6. GammaAt(c) = 176 + 8 + 4 * (6 * c.layers + 1)
      BY <1>1, TablesInOrder
    <2> QED
      BY <1>1, <1>2, <2>5, <2>6 DEF OnCourse, AtGammas
  <1> QED
    BY <1>1, <1>2, StaysOnCourse DEF ParsedAs

(* Behind the norms it is at the first layer.                              *)
LEMMA GammasParse ==
    ASSUME KernelTables, Shapes \subseteq TinyShapes, NEW c, ParsedAs(c), ParseGammaTable
    PROVE  ParsedAs(c)'
  <1>1. /\ UNCHANGED <<tiny, loadedBy, v9Words, betaCount, v9Result>> /\ loadedBy # "none"
        /\ c \in TinyShapes /\ tiny = Build(c) /\ v9Result = 1
    BY DEF ParseGammaTable, ParsedAs, GammaTable, NotBegun
  <1>2. ASSUME InReach, OnCourse(c) PROVE OnCourse(c)'
    <2>1. v9Cursor.byte = GammaAt(c) /\ betaCount = 6 * c.layers + 1
      BY <1>2, TablesInOrder, <1>1 DEF ParseGammaTable, OnCourse, AtBetas, AtGammas, AtLayers,
                                       BetaTable, GammaTable
    <2>2. WordAt(v9Cursor.byte + 4) = 0
      BY <1>1, <1>2, <2>1, WordsRead
    <2>3. c.layers \in 1 .. 32 /\ GammaAt(c) \in Nat /\ LayerAt(c, 0) = GammaAt(c) + 8
      <3>1. c.layers \in 1 .. 32 /\ GammaAt(c) = 176 + 8 + 4 * (6 * c.layers + 1)
            /\ LayerAt(c, 0) = GammaAt(c) + 8
        BY <1>1, TablesInOrder
      <3> QED
        BY <3>1
    <2>4. v9Cursor' = [next |-> 0, byte |-> GammaAt(c) + 8 + 4 * 0]
      BY <2>1, <2>2 DEF ParseGammaTable
    <2>5. v9Cursor'.next = 0 /\ v9Cursor'.byte = LayerAt(c, 0)
      BY <2>3, <2>4
    <2> QED
      BY <1>1, <1>2, <2>1, <2>3, <2>5 DEF OnCourse, AtLayers
  <1> QED
    BY <1>1, <1>2, StaysOnCourse DEF ParsedAs

(* Each layer is recorded where it begins, and passed.                     *)
LEMMA LayerParses ==
    ASSUME KernelTables, Shapes \subseteq TinyShapes, NEW c, ParsedAs(c), RecordLayerBlock
    PROVE  ParsedAs(c)'
  <1> DEFINE l == v9Cursor.next
  <1>1. /\ UNCHANGED <<tiny, loadedBy, betaCount>>
        /\ c \in TinyShapes /\ tiny = Build(c) /\ v9Result = 1
        /\ l \in 0 .. tiny.header.layers - 1
        /\ v9Words' = IF l < OffsetSlots THEN [v9Words EXCEPT ![l] = v9Cursor.byte]
                      ELSE v9Words
    BY DEF RecordLayerBlock, ParsedAs
  <1>2. tiny.header.layers = c.layers /\ c.layers \in 1 .. 32
    BY <1>1, BuildHolds, TablesInOrder DEF InFile
  <1>3. l \in 0 .. c.layers - 1 /\ l < OffsetSlots /\ loadedBy # "none"
    <2>1. l \in 0 .. c.layers - 1
      BY <1>1, <1>2
    <2>2. loadedBy = "none" => l = -3
      BY DEF ParsedAs, NotBegun
    <2>3. OffsetSlots \in Nat /\ OffsetSlots >= 32
      BY DEF KernelTables
    <2> HIDE DEF l
    <2> QED
      BY <1>2, <2>1, <2>2, <2>3
  <1>4. v9Words' = [v9Words EXCEPT ![l] = v9Cursor.byte]
    BY <1>1, <1>3
  <1>5. v9Words' = [i \in 0 .. OffsetSlots - 1 |-> v9Words'[i]]
    BY <1>4 DEF ParsedAs
  <1> DEFINE slots == 0 .. OffsetSlots - 1
  <1>7. /\ DOMAIN v9Words = slots /\ CacheSlot \in slots /\ 0 .. l \subseteq slots
        /\ l \in slots
    BY <1>3 DEF ParsedAs, KernelTables
  <1>6. ASSUME InReach, OnCourse(c) PROVE OnCourse(c)'
    <2>1. /\ v9Cursor.byte = LayerAt(c, l) /\ betaCount = 6 * c.layers + 1
          /\ \A i \in 0 .. l - 1 : v9Words[i] = LayerAt(c, i)
      BY <1>3, <1>6 DEF OnCourse, AtBetas, AtGammas, AtLayers, BetaTable, GammaTable
    <2>2. WordAt(v9Cursor.byte + 4) = LayerBlock(c)
      BY <1>1, <1>3, <1>6, <2>1, WordsRead
    <2>3. LayerBlock(c) \in Positive /\ LayerAt(c, l + 1) = LayerAt(c, l) + LayerBlock(c)
      BY <1>1, <1>3, LayerBlockPositive, TablesInOrder
    <2>4. v9Cursor' = [next |-> l + 1, byte |-> LayerAt(c, l + 1)] /\ v9Result' = 1
      <3>1. ~(LayerBlock(c) <= 0)
        BY <2>3 DEF Positive
      <3> QED
        BY <1>1, <2>1, <2>2, <2>3, <3>1 DEF RecordLayerBlock
    <2>5. ASSUME NEW i \in 0 .. l PROVE v9Words'[i] = LayerAt(c, i)
      <3>1. i \in slots /\ (i = l \/ i \in 0 .. l - 1)
        BY <1>3, <1>7, <2>5
      <3> HIDE DEF l, slots
      <3>2. CASE i = l
        BY <1>4, <1>7, <2>1, <3>2
      <3>3. CASE i # l
        BY <1>4, <1>7, <2>1, <3>1, <3>3
      <3> QED
        BY <3>2, <3>3
    <2>6. c.layers <= CacheSlot => v9Words'[CacheSlot] = PhaseD
      <3>1. c.layers <= CacheSlot => CacheSlot # l /\ v9Words[CacheSlot] = PhaseD
        BY <1>2, <1>3, <1>6 DEF OnCourse
      <3> HIDE DEF l, slots
      <3> QED
        BY <1>4, <1>7, <3>1
    <2>7. l + 1 \in 0 .. c.layers /\ (l + 1) - 1 = l
      BY <1>2, <1>3
    <2>8. AtLayers(c)'
      BY <1>1, <2>1, <2>4, <2>5, <2>7 DEF AtLayers
    <2> QED
      BY <2>6, <2>8 DEF OnCourse
  <1> QED
    BY <1>1, <1>3, <1>5, <1>6, StaysOnCourse

(* Behind the last layer it is at the embedding.                           *)
LEMMA EndParses ==
    ASSUME Shapes \subseteq TinyShapes, NEW c, ParsedAs(c), EndV9
    PROVE  ParsedAs(c)'
  <1>1. /\ UNCHANGED <<tiny, loadedBy, v9Cursor, v9Words, betaCount>> /\ v9Result' = 0
        /\ c \in TinyShapes /\ tiny = Build(c)
    BY DEF EndV9, ParsedAs
  <1>2. v9Cursor.next = c.layers /\ c.layers \in 1 .. 32
    BY <1>1, BuildHolds, TablesInOrder DEF InFile, EndV9
  <1>3. loadedBy # "none"
    <2>1. loadedBy = "none" => v9Cursor.next = -3
      BY DEF ParsedAs, NotBegun
    <2> QED
      BY <1>2, <2>1
  <1>4. ASSUME InReach, OnCourse(c) PROVE OnCourse(c)'
    BY <1>1, <1>2, <1>4 DEF OnCourse, AtBetas, AtGammas, AtLayers, BetaTable, GammaTable
  <1> QED
    BY <1>1, <1>3, <1>4, StaysOnCourse DEF ParsedAs

(* LayersRecorded of every shape the kernel has room for, 24 layers in it: *)
(* the header is accepted and, from RamFS or with all layer headers in the *)
(* sector NVMe has read, the kernel gets through both tables to the layers *)
(* and ends at the embedding with every layer recorded where it is.        *)
THEOREM LayersAlwaysRecorded ==
    ASSUME Shapes \subseteq TinyShapes, KernelTables
    PROVE  V9Spec => []LayersRecorded
  <1>1. V9Init => Parsed
    BY DEF V9Init, V9Start, Parsed, ParsedAs
  <1>2. ASSUME Parsed, [V9Next]_v9Vars PROVE Parsed'
    <2>1. PICK c \in Shapes : ParsedAs(c)
      BY <1>2 DEF Parsed
    <2>2. ParsedAs(c)'
      <3>1. CASE UNCHANGED v9Vars
        BY <2>1, <3>1 DEF v9Vars, ParsedAs, InReach, OnCourse, AtBetas, AtGammas, AtLayers
      <3> QED
        BY <1>2, <2>1, <3>1, BeginParses, BetasParse, GammasParse, LayerParses, EndParses
           DEF V9Next
    <2> QED
      BY <2>2 DEF Parsed
  <1>3. ASSUME Parsed PROVE LayersRecorded
    <2>1. PICK c \in Shapes : ParsedAs(c)
      BY <1>3 DEF Parsed
    <2>2. c \in TinyShapes /\ tiny = Build(c)
      BY <2>1 DEF ParsedAs
    <2>3. HeaderAccepted(tiny.header) /\ InFile(tiny, c) /\ c.layers \in 1 .. 32
      BY <2>2, TinyAccepted, BuildHolds, TablesInOrder
    <2>4. ASSUME v9Result # 1, InReach
          PROVE  /\ v9Result = 0
                 /\ betaCount = 6 * c.layers + 1
                 /\ \A i \in 0 .. c.layers - 1 : v9Words[i] = LayerAt(c, i)
                 /\ v9Cursor.byte = LayerAt(c, c.layers)
                 /\ c.layers <= CacheSlot => v9Words[CacheSlot] = PhaseD
      BY <2>1, <2>4 DEF ParsedAs, OnCourse, AtBetas, AtGammas, AtLayers
    <2>5. 0 \in 0 .. c.layers - 1
      BY <2>3
    <2> QED
      BY <2>3, <2>4, <2>5 DEF LayersRecorded, InFile
  <1> QED
    BY <1>1, <1>2, <1>3, PTL DEF V9Spec
----------------------------------------------------------------------------
(* The test disk builder                                                   *)

Entry(Names, Bytes) == [path : Seq(Names) \ {<<>>}, bytes : Bytes]

(* The paths of the files on either image.                                 *)
Ext2Paths == [i \in DOMAIN manifest |-> manifest[i].path]
FatPaths == [i \in DOMAIN manifest |-> UpperPath(manifest[i].path)]

(* A path is in the root or in a directory of the root; no two are the     *)
(* same, and none is the directory of another.                             *)
Short(p) == /\ p # <<>> /\ p # Dirname(p)
            /\ Dirname(p) # <<>> => Dirname(Dirname(p)) = <<>>
Separate(q) == \A i, j \in DOMAIN q :
                  Short(q[i]) /\ q[i] # Dirname(q[j]) /\ (i # j => q[i] # q[j])

(* The image holds the first k files, with their directories.              *)
Dirs(q, k) == {Dirname(q[i]) : i \in 1 .. k} \ {<<>>}
Image(img) == /\ img = [dirs |-> img.dirs, files |-> img.files, failed |-> img.failed]
              /\ ~img.failed
Filled(img, q, k) ==
    /\ Image(img)
    /\ img.dirs = Dirs(q, k) \cup {<<>>}
    /\ DOMAIN img.files = {q[i] : i \in 1 .. k}
    /\ \A i \in 1 .. k : img.files[q[i]] = manifest[i].bytes

(* After k entries: their host files are staged, and their commands are    *)
(* queued, the mkdir of a directory before what is written into it.        *)
MkdirOf(p) == [do |-> "mkdir", path |-> p]
WriteOf(p) == [do |-> "write", path |-> p]
Commands == {MkdirOf(d) : d \in Dirs(Ext2Paths, Len(manifest))}
               \cup {WriteOf(manifest[i].path) : i \in DOMAIN manifest}
Queued(k) ==
    /\ createdDirs = Dirs(Ext2Paths, k)
    /\ \A i \in 1 .. k : /\ HostName(manifest[i].path) \in DOMAIN staged
                         /\ staged[HostName(manifest[i].path)] = manifest[i].bytes
    /\ cmds \in Seq(Commands)
    /\ \A i \in 1 .. k : \E c \in 1 .. Len(cmds) : cmds[c] = WriteOf(manifest[i].path)
    /\ \A d \in createdDirs : \E c \in 1 .. Len(cmds) : cmds[c] = MkdirOf(d)
    /\ \A c \in 1 .. Len(cmds) :
          cmds[c].do = "write" =>
             \/ Dirname(cmds[c].path) = <<>>
             \/ \E b \in 1 .. c - 1 : cmds[b] = MkdirOf(Dirname(cmds[c].path))

(* After k commands: the image holds what they made.                       *)
Done(k) == {cmds[c] : c \in 1 .. k}
Executed(k) ==
    /\ Image(ext2)
    /\ \A d : d \in ext2.dirs <=> d = <<>> \/ MkdirOf(d) \in Done(k)
    /\ \A p : p \in DOMAIN ext2.files <=> WriteOf(p) \in Done(k)
    /\ \A i \in DOMAIN manifest :
          manifest[i].path \in DOMAIN ext2.files =>
             ext2.files[manifest[i].path] = manifest[i].bytes

Built ==
    \/ fs = "ext2" /\ entry <= Len(manifest) + 1 /\ Queued(entry - 1)
       /\ ext2 = Blank /\ fat = Blank
    \/ fs = "debugfs" /\ entry <= Len(cmds) + 1 /\ Queued(Len(manifest)) /\ Executed(entry - 1)
       /\ fat = Blank
    \/ fs = "fat32" /\ entry <= Len(manifest) + 1 /\ createdDirs = Dirs(FatPaths, entry - 1)
       /\ Filled(ext2, Ext2Paths, Len(manifest)) /\ Filled(fat, FatPaths, entry - 1)
    \/ fs = "both" /\ selfTest = 0
       /\ Filled(ext2, Ext2Paths, Len(manifest)) /\ Filled(fat, FatPaths, Len(manifest))
Building(Names, Bytes) ==
    /\ manifest \in Seq(Entry(Names, Bytes))
    /\ entry \in Nat \ {0}
    /\ fs # "both" => selfTest = -1
    /\ selfTest = 0 => \A i \in DOMAIN manifest :
                          ext2.files[manifest[i].path] = manifest[i].bytes
    /\ Apart /\ Flat => Built

(* The directory of a path is the path without its last name.              *)
LEMMA DirnameOf ==
    ASSUME NEW S, NEW q \in Seq(S), q # <<>>
    PROVE  /\ Len(q) \in Nat \ {0} /\ DOMAIN q = 1 .. Len(q)
           /\ Dirname(q) \in Seq(S) /\ Len(Dirname(q)) = Len(q) - 1
           /\ \A i \in 1 .. Len(q) - 1 : Dirname(q)[i] = q[i]
  <1>1. Len(q) \in Nat \ {0} /\ DOMAIN q = 1 .. Len(q)
    BY EmptySeq, LenProperties
  <1>2. \A i \in 1 .. Len(q) - 1 : q[i] \in S
    BY <1>1, ElementOfSeq
  <1>3. /\ SubSeq(q, 1, Len(q) - 1) \in Seq(S)
        /\ Len(SubSeq(q, 1, Len(q) - 1)) = IF 1 <= Len(q) - 1 THEN Len(q) - 1 - 1 + 1 ELSE 0
        /\ \A i \in 1 .. Len(q) - 1 - 1 + 1 : SubSeq(q, 1, Len(q) - 1)[i] = q[1 + i - 1]
    <2>1. 1 \in Int /\ Len(q) - 1 \in Int
      BY <1>1
    <2> QED
      BY <1>2, <2>1, SubSeqProperties
  <1>4. Dirname(q) = SubSeq(q, 1, Len(q) - 1)
    BY DEF Dirname
  <1> HIDE DEF Dirname
  <1>5. Len(Dirname(q)) = Len(q) - 1
    BY <1>1, <1>3, <1>4
  <1>6. \A i \in 1 .. Len(q) - 1 : Dirname(q)[i] = q[i]
    <2> SUFFICES ASSUME NEW i \in 1 .. Len(q) - 1 PROVE Dirname(q)[i] = q[i]
      OBVIOUS
    <2>1. i \in 1 .. Len(q) - 1 - 1 + 1 /\ 1 + i - 1 = i
      BY <1>1
    <2> QED
      BY <1>3, <1>4, <2>1
  <1> QED
    BY <1>1, <1>3, <1>4, <1>5, <1>6

(* A path of one or two names is short.                                    *)
LEMMA ShortPath ==
    ASSUME NEW S, NEW q \in Seq(S), q # <<>>, Len(q) <= 2
    PROVE  Short(q)
  <1>1. /\ Len(q) \in Nat \ {0} /\ Dirname(q) \in Seq(S) /\ Len(Dirname(q)) = Len(q) - 1
    BY DirnameOf
  <1>2. q # Dirname(q)
    BY <1>1
  <1>3. ASSUME Dirname(q) # <<>> PROVE Dirname(Dirname(q)) = <<>>
    <2>1. Len(Dirname(q)) \in Nat \ {0} /\ Dirname(Dirname(q)) \in Seq(S)
          /\ Len(Dirname(Dirname(q))) = Len(Dirname(q)) - 1
      BY <1>1, <1>3, DirnameOf
    <2>2. Len(Dirname(Dirname(q))) = 0
      BY <1>1, <2>1
    <2> QED
      BY <2>1, <2>2, EmptySeq
  <1> QED
    BY <1>2, <1>3 DEF Short

(* Upper case changes names, not where they stand.                         *)
LEMMA UpperPaths ==
    ASSUME NEW Names, NEW p \in Seq(Names), p # <<>>, Len(p) <= 2
    PROVE  /\ Short(p) /\ Short(UpperPath(p))
           /\ UpperPath(Dirname(p)) = Dirname(UpperPath(p))
  <1> DEFINE Uppers == {[j \in DOMAIN x |-> Upper(x[j])] : x \in Names}
             u == UpperPath(p)
             m == Len(p) - 1
  <1>1. /\ Len(p) \in Nat \ {0} /\ DOMAIN p = 1 .. Len(p)
        /\ Dirname(p) \in Seq(Names) /\ Len(Dirname(p)) = m
        /\ \A i \in 1 .. m : Dirname(p)[i] = p[i]
    BY DirnameOf
  <1>2. u \in Seq(Uppers) /\ Len(u) = Len(p) /\ u # <<>>
    <2>1. \A i \in 1 .. Len(p) : p[i] \in Names
      BY <1>1, ElementOfSeq
    <2>2. u \in [1 .. Len(p) -> Uppers]
      BY <1>1, <2>1 DEF UpperPath
    <2> HIDE DEF u, Uppers
    <2> QED
      BY <1>1, <2>2
  <1>3. \A i \in 1 .. Len(p) : u[i] = [j \in DOMAIN p[i] |-> Upper(p[i][j])]
    BY <1>1 DEF UpperPath
  <1>4. UpperPath(Dirname(p)) = [i \in 1 .. m |-> [j \in DOMAIN p[i] |-> Upper(p[i][j])]]
    <2>1. DOMAIN Dirname(p) = 1 .. m
      BY <1>1, LenProperties
    <2> QED
      BY <1>1, <2>1 DEF UpperPath
  <1> HIDE DEF u, Uppers
  <1>5. /\ Dirname(u) \in Seq(Uppers) /\ Len(Dirname(u)) = m
        /\ \A i \in 1 .. m : Dirname(u)[i] = u[i]
    BY <1>1, <1>2, DirnameOf, Zenon
  <1>6. Dirname(u) = [i \in 1 .. m |-> Dirname(u)[i]]
    BY <1>5, LenProperties
  <1>7. \A i \in 1 .. m : Dirname(u)[i] = [j \in DOMAIN p[i] |-> Upper(p[i][j])]
    <2>1. \A i \in 1 .. m : i \in 1 .. Len(p)
      BY <1>1
    <2> QED
      BY <1>3, <1>5, <2>1
  <1>8. UpperPath(Dirname(p)) = Dirname(u)
    BY <1>4, <1>6, <1>7
  <1>9. Short(p)
    BY ShortPath
  <1>10. Short(u)
    BY <1>2, ShortPath
  <1> QED
    BY <1>8, <1>9, <1>10 DEF u

(* What Apart and Flat say of the paths on either image.                   *)
LEMMA PathsSeparate ==
    ASSUME NEW Names, NEW Bytes, manifest \in Seq(Entry(Names, Bytes)), Apart, Flat
    PROVE  /\ Separate(Ext2Paths) /\ Separate(FatPaths)
           /\ \A i, j \in DOMAIN manifest :
                 HostName(manifest[i].path) = HostName(manifest[j].path) => i = j
  <1>1. \A i \in DOMAIN manifest : manifest[i].path \in Seq(Names) /\ manifest[i].path # <<>>
                                     /\ Len(manifest[i].path) <= 2
    <2>1. \A i \in DOMAIN manifest : manifest[i] \in Entry(Names, Bytes)
      BY LenProperties, ElementOfSeq
    <2> QED
      BY <2>1 DEF Flat, Entry
  <1>2. \A i \in DOMAIN manifest :
           /\ Short(manifest[i].path) /\ Short(UpperPath(manifest[i].path))
           /\ UpperPath(Dirname(manifest[i].path)) = Dirname(UpperPath(manifest[i].path))
    BY <1>1, UpperPaths
  <1>3. \A i, j \in DOMAIN manifest : i # j =>
            /\ HostName(manifest[i].path) # HostName(manifest[j].path)
            /\ UpperPath(manifest[i].path) # UpperPath(manifest[j].path)
            /\ UpperPath(manifest[i].path) # UpperPath(Dirname(manifest[j].path))
    BY DEF Apart
  <1>4. Separate(Ext2Paths)
    <2> SUFFICES ASSUME NEW i \in DOMAIN manifest, NEW j \in DOMAIN manifest
                 PROVE  /\ Short(manifest[i].path)
                        /\ manifest[i].path # Dirname(manifest[j].path)
                        /\ (i # j => manifest[i].path # manifest[j].path)
      BY DEF Separate, Ext2Paths
    <2>1. CASE i = j
      BY <1>2, <2>1 DEF Short
    <2>2. CASE i # j
      BY <1>2, <1>3, <2>2
    <2> QED
      BY <2>1, <2>2
  <1>5. Separate(FatPaths)
    <2> SUFFICES ASSUME NEW i \in DOMAIN manifest, NEW j \in DOMAIN manifest
                 PROVE  /\ Short(UpperPath(manifest[i].path))
                        /\ UpperPath(manifest[i].path) # Dirname(UpperPath(manifest[j].path))
                        /\ (i # j => UpperPath(manifest[i].path) # UpperPath(manifest[j].path))
      BY DEF Separate, FatPaths
    <2>1. CASE i = j
      BY <1>2, <2>1 DEF Short
    <2>2. CASE i # j
      BY <1>2, <1>3, <2>2
    <2> QED
      BY <2>1, <2>2
  <1> QED
    BY <1>3, <1>4, <1>5

(* Another file adds at most its directory.                                *)
LEMMA DirsGrow ==
    ASSUME NEW q, NEW k \in Nat
    PROVE  Dirs(q, k + 1) = Dirs(q, k) \cup ({Dirname(q[k + 1])} \ {<<>>})
  <1>1. 1 .. k + 1 = (1 .. k) \cup {k + 1}
    OBVIOUS
  <1> QED
    BY <1>1, Zenon DEF Dirs

(* One more file, its directory made if it is new, fits on the image.      *)
LEMMA FileFits ==
    ASSUME NEW q, NEW k \in Nat, NEW img, Separate(q), k + 1 \in DOMAIN q,
           1 .. k \subseteq DOMAIN q, Filled(img, q, k), NEW path, path = q[k + 1],
           NEW new \in BOOLEAN, new <=> Dirname(path) # <<>> /\ Dirname(path) \notin Dirs(q, k),
           NEW made, made = IF new THEN Mkdir(img, Dirname(path)) ELSE img
    PROVE  /\ new => CanMkdir(img, Dirname(path))
           /\ CanWrite(made, path)
           /\ Filled(Write(made, path, manifest[k + 1].bytes), q, k + 1)
  <1>1. Short(path) /\ path # <<>>
    BY DEF Separate, Short
  <1>2. \A i \in 1 .. k : /\ q[i] # path /\ q[i] # Dirname(path) /\ path # Dirname(q[i])
    BY DEF Separate
  <1>3. /\ Image(img) /\ img.dirs = Dirs(q, k) \cup {<<>>}
        /\ DOMAIN img.files = {q[i] : i \in 1 .. k}
        /\ \A i \in 1 .. k : img.files[q[i]] = manifest[i].bytes
    BY DEF Filled
  <1>4. ASSUME new PROVE CanMkdir(img, Dirname(path))
    BY <1>1, <1>2, <1>3, <1>4 DEF CanMkdir, Exists, Short
  <1>5. /\ Image(made) /\ made.files = img.files
        /\ made.dirs = Dirs(q, k + 1) \cup {<<>>}
    <2>1. CASE new
      <3>1. made = [dirs |-> img.dirs \cup {Dirname(path)}, files |-> img.files, failed |-> img.failed]
        BY <1>3, <2>1 DEF Mkdir, Image
      <3> QED
        BY <1>3, <2>1, <3>1, DirsGrow DEF Image
    <2>2. CASE ~new
      BY <1>3, <2>2, DirsGrow
    <2> QED
      BY <2>1, <2>2
  <1>6. CanWrite(made, path)
    <2>1. Dirname(path) \in made.dirs
      BY <1>5, DirsGrow
    <2>2. path \notin made.dirs
      BY <1>1, <1>2, <1>5, DirsGrow DEF Dirs, Short
    <2> QED
      BY <2>1, <2>2 DEF CanWrite
  <1>7. Filled(Write(made, path, manifest[k + 1].bytes), q, k + 1)
    <2> DEFINE w == Write(made, path, manifest[k + 1].bytes)
    <2>1. w = [dirs |-> made.dirs, files |-> Put(img.files, path, manifest[k + 1].bytes), failed |-> made.failed]
      BY <1>5 DEF Write, Image
    <2>2. Image(w) /\ w.dirs = Dirs(q, k + 1) \cup {<<>>}
      BY <1>5, <2>1 DEF Image
    <2>3. 1 .. k + 1 = (1 .. k) \cup {k + 1}
      OBVIOUS
    <2>4. w.files = [z \in DOMAIN img.files \cup {path} |->
                        IF z = path THEN manifest[k + 1].bytes ELSE img.files[z]]
      BY <2>1 DEF Put
    <2>5. DOMAIN w.files = {q[i] : i \in 1 .. k + 1}
      BY <1>3, <2>3, <2>4
    <2>6. \A i \in 1 .. k + 1 : w.files[q[i]] = manifest[i].bytes
      BY <1>2, <1>3, <2>3, <2>4
    <2> QED
      BY <2>2, <2>5, <2>6 DEF Filled
  <1> QED
    BY <1>4, <1>6, <1>7

(* An entry of the manifest is staged.                                     *)
LEMMA StagingBuilds ==
    ASSUME NEW Names, NEW Bytes, Building(Names, Bytes), Apart, Flat, StageExt2
    PROVE  Queued(entry - 1)'
  <1> DEFINE n == Len(manifest)
             k == entry - 1
             p == manifest[entry].path
             new == NewParent(p)
  <1>1. /\ fs = "ext2" /\ entry \in 1 .. n /\ n \in Nat /\ k \in Nat /\ k + 1 = entry
        /\ DOMAIN manifest = 1 .. n /\ entry \in DOMAIN manifest
    BY LenProperties DEF StageExt2, Building
  <1>2. /\ Queued(k)
        /\ Separate(Ext2Paths)
        /\ \A i, j \in 1 .. n : HostName(manifest[i].path) = HostName(manifest[j].path) => i = j
    BY <1>1, PathsSeparate DEF Building, Built
  <1>3. /\ createdDirs' = IF new THEN createdDirs \cup {Dirname(p)} ELSE createdDirs
        /\ staged' = Put(staged, HostName(p), manifest[entry].bytes)
        /\ cmds' = cmds \o (IF new THEN <<MkdirOf(Dirname(p))>> ELSE <<>>) \o <<WriteOf(p)>>
        /\ manifest' = manifest /\ entry' = entry + 1
    BY DEF StageExt2, MkdirOf, WriteOf
  <1>4. /\ createdDirs = Dirs(Ext2Paths, k)
        /\ \A i \in 1 .. k : /\ HostName(manifest[i].path) \in DOMAIN staged
                             /\ staged[HostName(manifest[i].path)] = manifest[i].bytes
        /\ cmds \in Seq(Commands) /\ Len(cmds) \in Nat
    BY <1>2, LenProperties DEF Queued
  <1>5. Ext2Paths' = Ext2Paths /\ Commands' = Commands
    BY <1>3 DEF Ext2Paths, Commands, MkdirOf, WriteOf
  <1>6. Ext2Paths[entry] = p /\ new = (Dirname(p) # <<>> /\ Dirname(p) \notin createdDirs)
    BY <1>1 DEF Ext2Paths, NewParent
  <1>7. 1 .. entry = (1 .. k) \cup {entry}
    BY <1>1
  <1>8. createdDirs' = Dirs(Ext2Paths, entry)
    <2>1. Dirs(Ext2Paths, entry) = Dirs(Ext2Paths, k) \cup ({Dirname(p)} \ {<<>>})
      BY <1>1, <1>6, DirsGrow
    <2> HIDE DEF new, k, p, n
    <2> QED
      BY <1>3, <1>4, <1>6, <2>1
  <1>9. \A i \in 1 .. entry : /\ HostName(manifest[i].path) \in DOMAIN staged'
                              /\ staged'[HostName(manifest[i].path)] = manifest[i].bytes
    <2>1. staged' = [z \in DOMAIN staged \cup {HostName(p)} |->
                        IF z = HostName(p) THEN manifest[entry].bytes ELSE staged[z]]
      BY <1>3 DEF Put
    <2>2. \A i \in 1 .. k : HostName(manifest[i].path) # HostName(p)
      BY <1>1, <1>2
    <2> HIDE DEF k, n, new
    <2> QED
      BY <1>4, <1>7, <2>1, <2>2
  <1>10. WriteOf(p) \in Commands /\ (new => MkdirOf(Dirname(p)) \in Commands)
    <2>1. entry \in 1 .. Len(manifest) /\ Dirname(Ext2Paths[entry]) = Dirname(p)
      BY <1>1, <1>6
    <2>2. Dirname(p) # <<>> => Dirname(p) \in Dirs(Ext2Paths, Len(manifest))
      BY <2>1 DEF Dirs
    <2> QED
      BY <1>1, <1>6, <2>2 DEF Commands
  <1> DEFINE l == Len(cmds)
             e == Len(cmds')
  <1>11. /\ cmds' \in Seq(Commands) /\ e = IF new THEN l + 2 ELSE l + 1
         /\ \A c \in 1 .. l : cmds'[c] = cmds[c]
         /\ cmds'[e] = WriteOf(p)
         /\ new => cmds'[l + 1] = MkdirOf(Dirname(p))
    <2> HIDE DEF p, new, k, n, Commands
    <2>1. CASE new
      <3>1. cmds' = (cmds \o <<MkdirOf(Dirname(p))>>) \o <<WriteOf(p)>>
        BY <1>3, <2>1
      <3> QED
        BY <1>4, <1>10, <2>1, <3>1
    <2>2. CASE ~new
      <3>1. cmds' = cmds \o <<WriteOf(p)>>
        BY <1>3, <1>4, <2>2
      <3> QED
        BY <1>4, <1>10, <2>2, <3>1
    <2> QED
      BY <2>1, <2>2
  <1> HIDE DEF l, e, new
  <1>12. l \in Nat /\ e \in 1 .. l + 2 /\ l < e /\ (new => l + 1 < e) /\ (~new => e = l + 1)
    BY <1>4, <1>11 DEF l
  <1>13. \A i \in 1 .. entry : \E c \in 1 .. e : cmds'[c] = WriteOf(manifest[i].path)
    <2>1. \A i \in 1 .. k : \E c \in 1 .. l : cmds[c] = WriteOf(manifest[i].path)
      BY <1>2 DEF Queued, l
    <2>2. \A i \in 1 .. k : \E c \in 1 .. e : cmds'[c] = WriteOf(manifest[i].path)
      BY <1>11, <1>12, <2>1
    <2>3. e \in 1 .. e /\ cmds'[e] = WriteOf(manifest[entry].path)
      BY <1>11, <1>12
    <2> HIDE DEF p
    <2> QED
      BY <1>7, <2>2, <2>3
  <1>14. \A d \in createdDirs' : \E c \in 1 .. e : cmds'[c] = MkdirOf(d)
    <2> SUFFICES ASSUME NEW d \in createdDirs' PROVE \E c \in 1 .. e : cmds'[c] = MkdirOf(d)
      OBVIOUS
    <2>1. CASE d \in createdDirs
      <3>1. PICK c \in 1 .. l : cmds[c] = MkdirOf(d)
        BY <1>2, <2>1 DEF Queued, l
      <3> QED
        BY <1>11, <1>12, <3>1
    <2>2. CASE d \notin createdDirs
      <3>1. new /\ d = Dirname(p)
        BY <1>3, <2>2
      <3>2. l + 1 \in 1 .. e /\ cmds'[l + 1] = MkdirOf(d)
        BY <1>11, <1>12, <3>1
      <3> QED
        BY <3>2
    <2> QED
      BY <2>1, <2>2
  <1>15. ASSUME NEW c \in 1 .. e, cmds'[c].do = "write", Dirname(cmds'[c].path) # <<>>
         PROVE  \E b \in 1 .. c - 1 : cmds'[b] = MkdirOf(Dirname(cmds'[c].path))
    <2>1. CASE c \in 1 .. l
      <3>1. cmds[c].do = "write" /\ Dirname(cmds[c].path) # <<>> /\ cmds'[c] = cmds[c]
        BY <1>11, <1>15, <2>1
      <3>2. PICK b \in 1 .. c - 1 : cmds[b] = MkdirOf(Dirname(cmds[c].path))
        BY <1>2, <2>1, <3>1 DEF Queued, l
      <3>3. b \in 1 .. l
        BY <1>12, <2>1
      <3> QED
        BY <1>11, <3>1, <3>2, <3>3
    <2>2. CASE c = e
      <3>1. cmds'[c] = WriteOf(p) /\ cmds'[c].path = p
        BY <1>11, <2>2 DEF WriteOf
      <3>2. CASE new
        <4>1. l + 1 \in 1 .. c - 1 /\ cmds'[l + 1] = MkdirOf(Dirname(p))
          BY <1>11, <1>12, <2>2, <3>2
        <4> QED
          BY <3>1, <4>1
      <3>3. CASE ~new
        <4>1. Dirname(p) \in createdDirs
          BY <1>6, <1>15, <3>1, <3>3
        <4>2. PICK b \in 1 .. l : cmds[b] = MkdirOf(Dirname(p))
          BY <1>2, <4>1 DEF Queued, l
        <4>3. b \in 1 .. c - 1 /\ cmds'[b] = cmds[b]
          BY <1>11, <1>12, <2>2, <4>2
        <4> QED
          BY <3>1, <4>2, <4>3
      <3> QED
        BY <3>2, <3>3
    <2>3. CASE c = l + 1 /\ new
      BY <1>11, <1>15, <2>3 DEF MkdirOf
    <2> QED
      BY <1>12, <2>1, <2>2, <2>3
  <1>16. (entry - 1)' = entry /\ Ext2Paths' = Ext2Paths
    BY <1>1, <1>3, <1>5
  <1> HIDE DEF p, k, n
  <1> QED
    BY <1>3, <1>5, <1>8, <1>9, <1>11, <1>13, <1>14, <1>15, <1>16, Zenon DEF Queued, e

(* debugfs runs a command of the queue.                                    *)
LEMMA CommandExecutes ==
    ASSUME NEW Names, NEW Bytes, Building(Names, Bytes), Apart, Flat, RunDebugfs
    PROVE  Executed(entry - 1)'
  <1> DEFINE n == Len(manifest)
             k == entry - 1
             c == cmds[entry]
  <1>1. /\ fs = "debugfs" /\ entry \in 1 .. Len(cmds) /\ n \in Nat /\ k \in Nat /\ k + 1 = entry
        /\ DOMAIN manifest = 1 .. n
    <2>1. fs = "debugfs" /\ entry <= Len(cmds) /\ entry \in Nat \ {0}
      BY DEF RunDebugfs, Building
    <2>2. Queued(n)
      BY <2>1 DEF Building, Built
    <2>3. Len(cmds) \in Nat /\ n \in Nat /\ DOMAIN manifest = 1 .. n
      BY <2>2, LenProperties DEF Queued, Building
    <2> QED
      BY <2>1, <2>3
  <1>2. /\ Queued(n) /\ Executed(k)
        /\ Separate(Ext2Paths)
        /\ \A i, j \in 1 .. n : HostName(manifest[i].path) = HostName(manifest[j].path) => i = j
    BY <1>1, PathsSeparate DEF Building, Built
  <1>3. /\ ext2' = Debugfs(ext2, c) /\ entry' = entry + 1
        /\ UNCHANGED <<manifest, cmds, staged>>
    BY DEF RunDebugfs
  <1>4. /\ Done(k) \subseteq Commands /\ c \in Commands
        /\ Done(k + 1) = Done(k) \cup {c}
    <2>1. \A b \in 1 .. Len(cmds) : cmds[b] \in Commands
      BY <1>2, ElementOfSeq DEF Queued
    <2>2. 1 .. k + 1 = (1 .. k) \cup {entry} /\ 1 .. k \subseteq 1 .. Len(cmds)
      BY <1>1
    <2> HIDE DEF k, Commands
    <2> QED
      BY <1>1, <2>1, <2>2 DEF Done
  <1>5. /\ Image(ext2)
        /\ \A d : d \in ext2.dirs <=> d = <<>> \/ MkdirOf(d) \in Done(k)
        /\ \A p : p \in DOMAIN ext2.files <=> WriteOf(p) \in Done(k)
        /\ \A i \in 1 .. n :
              manifest[i].path \in DOMAIN ext2.files =>
                 ext2.files[manifest[i].path] = manifest[i].bytes
    BY <1>1, <1>2 DEF Executed
  <1>6. /\ \A d : MkdirOf(d) \in Commands =>
                     d # <<>> /\ Dirname(d) = <<>> /\ WriteOf(d) \notin Commands
        /\ \A p : WriteOf(p) \in Commands =>
                     /\ p # <<>> /\ MkdirOf(p) \notin Commands
                     /\ \E i \in 1 .. n : p = manifest[i].path
        /\ \A d, p : MkdirOf(d) # WriteOf(p)
        /\ \A x, y : (MkdirOf(x) = MkdirOf(y) => x = y) /\ (WriteOf(x) = WriteOf(y) => x = y)
    <2>1. \A d, p : MkdirOf(d) # WriteOf(p)
      BY DEF MkdirOf, WriteOf
    <2>2. \A x, y : (MkdirOf(x) = MkdirOf(y) => x = y) /\ (WriteOf(x) = WriteOf(y) => x = y)
      <3> TAKE x, y
      <3>1. MkdirOf(x).path = x /\ MkdirOf(y).path = y /\ WriteOf(x).path = x /\ WriteOf(y).path = y
        BY DEF MkdirOf, WriteOf
      <3> QED
        BY <3>1, Zenon
    <2>3. ASSUME NEW d, MkdirOf(d) \in Commands
          PROVE  \E i \in 1 .. n : d = Dirname(manifest[i].path) /\ d # <<>>
      <3>1. d \in Dirs(Ext2Paths, n)
        BY <2>1, <2>2, <2>3, Zenon DEF Commands
      <3> QED
        BY <1>1, <3>1 DEF Dirs, Ext2Paths
    <2>4. ASSUME NEW p, WriteOf(p) \in Commands
          PROVE  \E i \in 1 .. n : p = manifest[i].path
      BY <1>1, <2>1, <2>2, <2>4, Zenon DEF Commands
    <2>5. \A i, j \in 1 .. n : Short(manifest[i].path) /\ manifest[i].path # Dirname(manifest[j].path)
      BY <1>1, <1>2 DEF Separate, Ext2Paths
    <2> HIDE DEF n
    <2>6. ASSUME NEW d, MkdirOf(d) \in Commands
          PROVE  d # <<>> /\ Dirname(d) = <<>> /\ WriteOf(d) \notin Commands
      <3>1. PICK i \in 1 .. n : d = Dirname(manifest[i].path) /\ d # <<>>
        BY <2>3, <2>6
      <3>2. Dirname(d) = <<>>
        BY <2>5, <3>1 DEF Short
      <3>3. WriteOf(d) \notin Commands
        BY <2>4, <2>5, <3>1
      <3> QED
        BY <3>1, <3>2, <3>3
    <2>7. ASSUME NEW p, WriteOf(p) \in Commands
          PROVE  p # <<>> /\ MkdirOf(p) \notin Commands
      <3>1. PICK i \in 1 .. n : p = manifest[i].path
        BY <2>4, <2>7
      <3>2. p # <<>>
        BY <2>5, <3>1 DEF Short
      <3> QED
        BY <2>6, <2>7, <3>2
    <2> HIDE DEF Commands, MkdirOf, WriteOf
    <2> QED
      BY <2>1, <2>2, <2>4, <2>6, <2>7, Zenon
  <1>7. Done(entry - 1)' = Done(k + 1)
    <2>1. (entry - 1)' = k + 1 /\ cmds' = cmds
      BY <1>1, <1>3
    <2> HIDE DEF k
    <2> QED
      BY <2>1 DEF Done
  <1>8. ASSUME NEW d, c = MkdirOf(d)
        PROVE  /\ Image(ext2') /\ ext2'.files = ext2.files
               /\ ext2'.dirs = ext2.dirs \cup {d}
    <2>1. c.do = "mkdir" /\ c.path = d
      BY <1>8 DEF MkdirOf
    <2>2. d # <<>> /\ Dirname(d) = <<>> /\ WriteOf(d) \notin Done(k)
      BY <1>4, <1>6, <1>8
    <2>3. Dirname(d) \in ext2.dirs /\ d \notin DOMAIN ext2.files
      BY <1>5, <2>2
    <2>4. CASE d \in ext2.dirs
      <3>1. ext2' = ext2
        BY <1>3, <2>1, <2>4 DEF Debugfs, CanMkdir, Exists
      <3> QED
        BY <1>5, <2>4, <3>1
    <2>5. CASE d \notin ext2.dirs
      <3>1. CanMkdir(ext2, d)
        BY <2>3, <2>5 DEF CanMkdir, Exists
      <3>2. ext2' = Mkdir(ext2, d)
        BY <1>3, <2>1, <3>1 DEF Debugfs
      <3>3. ext2' = [dirs |-> ext2.dirs \cup {d}, files |-> ext2.files, failed |-> ext2.failed]
        BY <1>5, <3>2 DEF Mkdir, Image
      <3> QED
        BY <1>5, <3>3 DEF Image
    <2> QED
      BY <2>4, <2>5
  <1>9. ASSUME NEW i \in 1 .. n, c = WriteOf(manifest[i].path)
        PROVE  /\ Image(ext2') /\ ext2'.dirs = ext2.dirs
               /\ DOMAIN ext2'.files = DOMAIN ext2.files \cup {manifest[i].path}
               /\ \A z \in DOMAIN ext2.files \ {manifest[i].path} : ext2'.files[z] = ext2.files[z]
               /\ ext2'.files[manifest[i].path] = manifest[i].bytes
    <2> DEFINE p == manifest[i].path
    <2>1. c.do = "write" /\ c.path = p
      BY <1>9 DEF WriteOf
    <2>2. p # <<>> /\ MkdirOf(p) \notin Done(k)
      BY <1>4, <1>6, <1>9
    <2>3. Dirname(p) \in ext2.dirs /\ p \notin ext2.dirs
      <3>1. \/ Dirname(p) = <<>>
            \/ \E b \in 1 .. entry - 1 : cmds[b] = MkdirOf(Dirname(p))
        BY <1>1, <1>2, <2>1 DEF Queued
      <3>2. Dirname(p) = <<>> \/ MkdirOf(Dirname(p)) \in Done(k)
        BY <3>1 DEF Done
      <3> QED
        BY <1>5, <2>2, <3>2
    <2>4. staged[HostName(p)] = manifest[i].bytes
      BY <1>2 DEF Queued
    <2> HIDE DEF p
    <2>5. CASE p \in DOMAIN ext2.files
      <3>1. ext2' = ext2
        BY <1>3, <2>1, <2>5 DEF Debugfs, Exists
      <3>2. ext2.files[p] = manifest[i].bytes
        BY <1>5, <2>5 DEF p
      <3> QED
        BY <1>5, <2>5, <3>1, <3>2 DEF p
    <2>6. CASE p \notin DOMAIN ext2.files
      <3>1. CanWrite(ext2, p) /\ ~Exists(ext2, p)
        BY <2>3, <2>6 DEF CanWrite, Exists
      <3>2. ext2' = Write(ext2, p, manifest[i].bytes)
        BY <1>3, <2>1, <2>4, <3>1 DEF Debugfs
      <3>3. ext2' = [dirs |-> ext2.dirs, files |-> Put(ext2.files, p, manifest[i].bytes), failed |-> ext2.failed]
        BY <1>5, <3>2 DEF Write, Image
      <3>4. ext2'.files = [z \in DOMAIN ext2.files \cup {p} |->
                              IF z = p THEN manifest[i].bytes ELSE ext2.files[z]]
        BY <3>3 DEF Put
      <3> QED
        BY <1>5, <3>3, <3>4 DEF Image, p
    <2> QED
      BY <2>5, <2>6
  <1>10. (\E d : c = MkdirOf(d)) \/ (\E i \in 1 .. n : c = WriteOf(manifest[i].path))
    BY <1>1, <1>4, Zenon DEF Commands
  <1> HIDE DEF c, k, n
  <1>11. /\ Image(ext2')
         /\ \A d : d \in ext2'.dirs <=> d = <<>> \/ MkdirOf(d) \in Done(k + 1)
         /\ \A p : p \in DOMAIN ext2'.files <=> WriteOf(p) \in Done(k + 1)
         /\ \A i \in 1 .. n :
               manifest[i].path \in DOMAIN ext2'.files =>
                  ext2'.files[manifest[i].path] = manifest[i].bytes
    <2>1. ASSUME NEW d, c = MkdirOf(d) PROVE <1>11!:
      <3>1. /\ Image(ext2') /\ ext2'.files = ext2.files
            /\ ext2'.dirs = ext2.dirs \cup {d}
        BY <1>8, <2>1
      <3> QED
        BY <1>4, <1>5, <1>6, <2>1, <3>1
    <2>2. ASSUME NEW j \in 1 .. n, c = WriteOf(manifest[j].path) PROVE <1>11!:
      <3> DEFINE q == manifest[j].path
      <3>1. /\ Image(ext2') /\ ext2'.dirs = ext2.dirs
            /\ DOMAIN ext2'.files = DOMAIN ext2.files \cup {q}
            /\ \A z \in DOMAIN ext2.files \ {q} : ext2'.files[z] = ext2.files[z]
            /\ ext2'.files[q] = manifest[j].bytes
        BY <1>9, <2>2
      <3>2. c = WriteOf(q) /\ \A i \in 1 .. n : manifest[i].path = q => i = j
        BY <1>2, <2>2
      <3>3. \A d : d \in ext2'.dirs <=> d = <<>> \/ MkdirOf(d) \in Done(k + 1)
        BY <1>4, <1>5, <1>6, <3>1, <3>2
      <3> HIDE DEF q
      <3>4. \A p : p \in DOMAIN ext2'.files <=> WriteOf(p) \in Done(k + 1)
        BY <1>4, <1>5, <1>6, <3>1, <3>2
      <3>5. ASSUME NEW i \in 1 .. n, manifest[i].path \in DOMAIN ext2'.files
            PROVE  ext2'.files[manifest[i].path] = manifest[i].bytes
        BY <1>5, <3>1, <3>2, <3>5 DEF q
      <3> QED
        BY <3>1, <3>3, <3>4, <3>5
    <2> QED
      BY <1>10, <2>1, <2>2
  <1>12. manifest' = manifest /\ DOMAIN manifest = 1 .. n /\ n' = n
    BY <1>1, <1>3 DEF n
  <1> QED
    BY <1>7, <1>11, <1>12 DEF Executed

(* When all commands have run, the ext2 image holds every file.            *)
LEMMA Ext2Ends ==
    ASSUME NEW Names, NEW Bytes, Building(Names, Bytes), Apart, Flat, EndExt2
    PROVE  Filled(ext2, Ext2Paths, Len(manifest))
  <1> DEFINE n == Len(manifest)
  <1>1. fs = "debugfs" /\ entry > Len(cmds) /\ Built /\ manifest \in Seq(Entry(Names, Bytes))
        /\ entry \in Nat
    BY DEF EndExt2, Building
  <1>2. Queued(n) /\ Executed(entry - 1) /\ entry <= Len(cmds) + 1
    BY <1>1 DEF Built
  <1>3. Len(cmds) \in Nat /\ n \in Nat /\ DOMAIN manifest = 1 .. n
    BY <1>1, <1>2, LenProperties DEF Queued
  <1>4. entry - 1 = Len(cmds)
    BY <1>1, <1>2, <1>3
  <1>5. /\ Image(ext2)
        /\ \A d : d \in ext2.dirs <=> d = <<>> \/ MkdirOf(d) \in Done(Len(cmds))
        /\ \A p : p \in DOMAIN ext2.files <=> WriteOf(p) \in Done(Len(cmds))
        /\ \A i \in 1 .. n :
              manifest[i].path \in DOMAIN ext2.files =>
                 ext2.files[manifest[i].path] = manifest[i].bytes
    BY <1>2, <1>3, <1>4 DEF Executed
  <1>6. /\ Done(Len(cmds)) \subseteq Commands
        /\ \A d \in Dirs(Ext2Paths, n) : MkdirOf(d) \in Done(Len(cmds))
        /\ \A i \in 1 .. n : WriteOf(manifest[i].path) \in Done(Len(cmds))
    <2>1. \A c \in 1 .. Len(cmds) : cmds[c] \in Commands
      BY <1>2, ElementOfSeq DEF Queued
    <2> QED
      BY <1>2, <2>1, Zenon DEF Queued, Done
  <1>7. \A x : MkdirOf(x) \in Commands => x \in Dirs(Ext2Paths, n)
    <2> SUFFICES ASSUME NEW x, MkdirOf(x) \in Commands PROVE x \in Dirs(Ext2Paths, n)
      OBVIOUS
    <2>1. MkdirOf(x).do = "mkdir" /\ MkdirOf(x).path = x
      BY DEF MkdirOf
    <2>2. \A p : WriteOf(p).do = "write"
      BY DEF WriteOf
    <2>3. \A y : MkdirOf(y).path = y
      BY DEF MkdirOf
    <2> HIDE DEF n
    <2>4. PICK d \in Dirs(Ext2Paths, n) : MkdirOf(x) = MkdirOf(d)
      BY <2>1, <2>2 DEF Commands, n
    <2> QED
      BY <2>3, <2>4
  <1>8. \A x : WriteOf(x) \in Commands => \E i \in 1 .. n : x = manifest[i].path
    <2> SUFFICES ASSUME NEW x, WriteOf(x) \in Commands PROVE \E i \in 1 .. n : x = manifest[i].path
      OBVIOUS
    <2>1. WriteOf(x).do = "write" /\ \A d : MkdirOf(d).do = "mkdir"
      BY DEF MkdirOf, WriteOf
    <2>2. \A y : WriteOf(y).path = y
      BY DEF WriteOf
    <2>3. PICK i \in 1 .. n : WriteOf(x) = WriteOf(manifest[i].path)
      BY <1>3, <2>1 DEF Commands
    <2> QED
      BY <2>2, <2>3
  <1> HIDE DEF n
  <1>9. ext2.dirs = Dirs(Ext2Paths, n) \cup {<<>>}
    BY <1>5, <1>6, <1>7
  <1>10. DOMAIN ext2.files = {manifest[i].path : i \in 1 .. n}
    BY <1>5, <1>6, <1>8
  <1>11. \A i \in 1 .. n : Ext2Paths[i] = manifest[i].path
    BY <1>3 DEF Ext2Paths
  <1>12. {Ext2Paths[i] : i \in 1 .. n} = {manifest[i].path : i \in 1 .. n}
    BY <1>11
  <1>13. \A i \in 1 .. n : ext2.files[Ext2Paths[i]] = manifest[i].bytes
    BY <1>5, <1>10, <1>11
  <1> QED
    BY <1>5, <1>9, <1>10, <1>12, <1>13 DEF Filled, n

(* A file is copied to the FAT32 image.                                    *)
LEMMA CopyBuilds ==
    ASSUME NEW Names, NEW Bytes, Building(Names, Bytes), Apart, Flat, CopyFat32
    PROVE  /\ createdDirs' = Dirs(FatPaths, entry)
           /\ Filled(fat', FatPaths, entry)
  <1> DEFINE n == Len(manifest)
             k == entry - 1
             p == UpperPath(manifest[entry].path)
             new == NewParent(p)
             made == IF new THEN Mkdir(fat, Dirname(p)) ELSE fat
  <1>1. /\ fs = "fat32" /\ entry \in 1 .. n /\ n \in Nat /\ k \in Nat /\ k + 1 = entry
        /\ DOMAIN manifest = 1 .. n
    BY LenProperties DEF CopyFat32, Building
  <1>2. createdDirs = Dirs(FatPaths, k) /\ Filled(fat, FatPaths, k) /\ Separate(FatPaths)
    BY <1>1, PathsSeparate DEF Building, Built
  <1>3. /\ DOMAIN FatPaths = 1 .. n /\ FatPaths[entry] = p
        /\ 1 .. k \subseteq DOMAIN FatPaths /\ k + 1 \in DOMAIN FatPaths
    BY <1>1 DEF FatPaths
  <1>4. new \in BOOLEAN /\ (new <=> Dirname(p) # <<>> /\ Dirname(p) \notin Dirs(FatPaths, k))
    BY <1>2 DEF NewParent
  <1>5. IF (new => CanMkdir(fat, Dirname(p))) /\ CanWrite(made, p)
        THEN /\ createdDirs' = createdDirs \cup ({Dirname(p)} \ {<<>>})
             /\ staged' = Put(staged, HostName(p), manifest[entry].bytes)
             /\ fat' = Write(made, p, staged'[HostName(p)])
        ELSE /\ fat' = [fat EXCEPT !.failed = TRUE]
             /\ UNCHANGED <<createdDirs, staged>>
    BY DEF CopyFat32
  <1>6. made = IF new THEN Mkdir(fat, Dirname(p)) ELSE fat
    OBVIOUS
  <1> HIDE DEF p, new, made, k, n
  <1>7. /\ new => CanMkdir(fat, Dirname(p))
        /\ CanWrite(made, p)
        /\ Filled(Write(made, p, manifest[k + 1].bytes), FatPaths, k + 1)
    BY <1>1, <1>2, <1>3, <1>4, <1>6, FileFits
  <1>8. staged'[HostName(p)] = manifest[entry].bytes /\ fat' = Write(made, p, staged'[HostName(p)])
    BY <1>5, <1>7 DEF Put
  <1>9. createdDirs' = Dirs(FatPaths, k + 1)
    BY <1>1, <1>2, <1>3, <1>5, <1>7, DirsGrow
  <1> QED
    BY <1>1, <1>7, <1>8, <1>9

(* The self test finds every file.                                         *)
LEMMA TestPasses ==
    ASSUME NEW Names, NEW Bytes, Building(Names, Bytes), Apart, Flat, RunSelfTest
    PROVE  /\ selfTest' = 0
           /\ Filled(ext2, Ext2Paths, Len(manifest)) /\ Filled(fat, FatPaths, Len(manifest))
  <1> DEFINE n == Len(manifest)
  <1>1. /\ fs = "fat32" /\ (fat.failed \/ entry > n) /\ n \in Nat /\ entry \in Nat
        /\ DOMAIN manifest = 1 .. n
    BY LenProperties DEF RunSelfTest, Building
  <1>2. /\ Filled(ext2, Ext2Paths, n) /\ Filled(fat, FatPaths, entry - 1) /\ entry <= n + 1
    BY <1>1 DEF Building, Built
  <1>3. ~fat.failed /\ entry - 1 = n
    BY <1>1, <1>2 DEF Filled, Image
  <1>4. \A i \in DOMAIN manifest :
           /\ Holds(ext2, manifest[i].path, manifest[i].bytes)
           /\ Holds(fat, UpperPath(manifest[i].path), manifest[i].bytes)
    BY <1>1, <1>2, <1>3 DEF Filled, Holds, Ext2Paths, FatPaths
  <1> QED
    BY <1>2, <1>3, <1>4 DEF RunSelfTest

(* Each step builds on.                                                    *)
LEMMA BuildingGoesOn ==
    ASSUME NEW Names, NEW Bytes, Building(Names, Bytes), DiskNext
    PROVE  Building(Names, Bytes)'
  <1>1. /\ manifest' = manifest /\ manifest \in Seq(Entry(Names, Bytes))
        /\ Len(manifest) \in Nat /\ DOMAIN manifest = 1 .. Len(manifest)
        /\ entry \in Nat \ {0}
    BY LenProperties DEF Building, DiskNext, StageExt2, StartDebugfs, RunDebugfs, EndExt2, CopyFat32, RunSelfTest
  <1>2. Ext2Paths' = Ext2Paths /\ FatPaths' = FatPaths
    BY <1>1 DEF Ext2Paths, FatPaths
  <1>3. entry' \in Nat \ {0}
    BY <1>1 DEF DiskNext, StageExt2, StartDebugfs, RunDebugfs, EndExt2, CopyFat32, RunSelfTest
  <1>4. /\ fs' # "both" => selfTest' = -1
        /\ selfTest' = 0 => \A i \in DOMAIN manifest :
                               ext2'.files[manifest[i].path] = manifest[i].bytes
    <2>1. CASE RunSelfTest
      BY <2>1 DEF RunSelfTest, Holds
    <2>2. CASE ~RunSelfTest
      <3>1. selfTest' = selfTest /\ fs # "both" /\ fs' # "both"
        BY <2>2 DEF DiskNext, StageExt2, StartDebugfs, RunDebugfs, EndExt2, CopyFat32
      <3> QED
        BY <3>1 DEF Building
    <2> QED
      BY <2>1, <2>2
  <1>5. ASSUME Apart, Flat PROVE Built'
    <2>1. Built
      BY <1>5 DEF Building
    <2>2. ASSUME StageExt2 PROVE Built'
      <3>1. Queued(entry - 1)'
        BY <1>5, <2>2, StagingBuilds
      <3>2. /\ fs = "ext2" /\ fs' = "ext2" /\ entry' = entry + 1 /\ entry <= Len(manifest)
            /\ ext2' = ext2 /\ fat' = fat /\ ext2 = Blank /\ fat = Blank
        BY <2>1, <2>2 DEF StageExt2, Built
      <3>3. entry' <= Len(manifest) + 1
        BY <1>1, <3>2
      <3> QED
        BY <1>1, <3>1, <3>2, <3>3 DEF Built, Blank
    <2>3. ASSUME StartDebugfs PROVE Built'
      <3>1. /\ fs' = "debugfs" /\ entry' = 1 /\ entry > Len(manifest) /\ entry <= Len(manifest) + 1
            /\ Queued(entry - 1) /\ ext2 = Blank /\ fat = Blank
            /\ UNCHANGED <<createdDirs, staged, cmds, ext2, fat>>
        BY <2>1, <2>3 DEF StartDebugfs, Built
      <3>2. Queued(Len(manifest))
        <4>1. entry - 1 = Len(manifest)
          BY <1>1, <3>1
        <4> QED
          BY <3>1, <4>1
      <3>3. Queued(Len(manifest))' /\ Len(cmds) \in Nat
        BY <1>1, <1>2, <3>1, <3>2, LenProperties DEF Queued, Commands
      <3>4. Executed(entry - 1)'
        <4>1. Done(entry - 1)' = {}
          BY <3>1 DEF Done
        <4>2. Image(ext2') /\ ext2'.dirs = {<<>>} /\ ext2'.files = <<>>
          BY <3>1 DEF Image, Blank
        <4> QED
          BY <4>1, <4>2 DEF Executed
      <3> QED
        BY <3>1, <3>3, <3>4 DEF Built, Blank
    <2>4. ASSUME RunDebugfs PROVE Built'
      <3>1. Executed(entry - 1)'
        BY <1>5, <2>4, CommandExecutes
      <3>2. /\ fs' = "debugfs" /\ entry' = entry + 1 /\ entry <= Len(cmds)
            /\ Queued(Len(manifest)) /\ fat = Blank
            /\ UNCHANGED <<createdDirs, staged, cmds, fat>>
        BY <2>1, <2>4 DEF RunDebugfs, Built
      <3>3. Queued(Len(manifest))' /\ Len(cmds) \in Nat
        BY <1>1, <1>2, <3>2, LenProperties DEF Queued, Commands
      <3>4. entry' <= Len(cmds') + 1
        BY <1>1, <3>2, <3>3
      <3> QED
        BY <3>1, <3>2, <3>3, <3>4 DEF Built, Blank
    <2>5. ASSUME EndExt2 PROVE Built'
      <3>1. Filled(ext2, Ext2Paths, Len(manifest))
        BY <1>5, <2>5, Ext2Ends
      <3>2. /\ fs' = "fat32" /\ entry' = 1 /\ createdDirs' = {} /\ UNCHANGED <<ext2, fat>>
            /\ fat = Blank
        BY <2>1, <2>5 DEF EndExt2, Built
      <3>3. Filled(ext2, Ext2Paths, Len(manifest))'
        BY <1>1, <1>2, <3>1, <3>2 DEF Filled
      <3>4. Dirs(FatPaths, entry - 1)' = {} /\ 1 .. (entry' - 1) = {}
        BY <3>2 DEF Dirs
      <3>5. Filled(fat, FatPaths, entry - 1)'
        <4>1. Image(fat') /\ fat'.dirs = {<<>>} /\ fat'.files = <<>>
          BY <3>2 DEF Image, Blank
        <4> QED
          BY <3>4, <4>1 DEF Filled
      <3> QED
        BY <1>1, <3>2, <3>3, <3>4, <3>5 DEF Built
    <2>6. ASSUME CopyFat32 PROVE Built'
      <3>1. createdDirs' = Dirs(FatPaths, entry) /\ Filled(fat', FatPaths, entry)
        BY <1>5, <2>6, CopyBuilds
      <3>2. /\ fs' = "fat32" /\ entry' = entry + 1 /\ entry <= Len(manifest) /\ ext2' = ext2
            /\ Filled(ext2, Ext2Paths, Len(manifest))
        BY <2>1, <2>6 DEF CopyFat32, Built
      <3>3. (entry - 1)' = entry /\ entry' <= Len(manifest) + 1
        BY <1>1, <3>2
      <3>4. Filled(ext2, Ext2Paths, Len(manifest))'
        BY <1>1, <1>2, <3>2 DEF Filled
      <3>5. Filled(fat, FatPaths, entry - 1)' /\ createdDirs' = Dirs(FatPaths, entry - 1)'
        BY <1>1, <1>2, <3>1, <3>3 DEF Filled
      <3> QED
        BY <1>1, <3>2, <3>3, <3>4, <3>5 DEF Built
    <2>7. ASSUME RunSelfTest PROVE Built'
      <3>1. /\ selfTest' = 0
            /\ Filled(ext2, Ext2Paths, Len(manifest)) /\ Filled(fat, FatPaths, Len(manifest))
        BY <1>5, <2>7, TestPasses
      <3>2. fs' = "both" /\ UNCHANGED <<ext2, fat>>
        BY <2>7 DEF RunSelfTest
      <3>3. Filled(ext2, Ext2Paths, Len(manifest))' /\ Filled(fat, FatPaths, Len(manifest))'
        BY <1>1, <1>2, <3>1, <3>2 DEF Filled
      <3> QED
        BY <3>1, <3>2, <3>3 DEF Built
    <2> QED
      BY <2>2, <2>3, <2>4, <2>5, <2>6, <2>7, Zenon DEF DiskNext
  <1>6. (Apart /\ Flat)' => Apart /\ Flat
    BY <1>1 DEF Apart, Flat
  <1> QED
    BY <1>1, <1>3, <1>4, <1>5, <1>6 DEF Building

(* ImagesAgree of every manifest, whatever its names and contents: if its  *)
(* files lie in the root or in a directory of it and nothing but case or   *)
(* an underscore tells no two apart, the queued commands find their        *)
(* directories and their host files, and both images hold just the files;  *)
(* and of no manifest does the self test pass a file debugfs left out.     *)
THEOREM ImagesAlwaysAgree ==
    ASSUME NEW Names, NEW Bytes, Manifests \subseteq Seq(Entry(Names, Bytes))
    PROVE  DiskSpec => []ImagesAgree
  <1>1. DiskInit => Building(Names, Bytes)
    <2> SUFFICES ASSUME DiskInit PROVE Building(Names, Bytes)
      OBVIOUS
    <2>1. /\ manifest \in Seq(Entry(Names, Bytes)) /\ fs = "ext2" /\ entry = 1 /\ createdDirs = {}
          /\ staged = <<>> /\ cmds = <<>> /\ ext2 = Blank /\ fat = Blank /\ selfTest = -1
      BY DEF DiskInit, DiskStart
    <2>2. Len(manifest) \in Nat
      BY <2>1, LenProperties
    <2>3. Queued(entry - 1)
      <3>1. Dirs(Ext2Paths, entry - 1) = {} /\ 1 .. entry - 1 = {}
        BY <2>1 DEF Dirs
      <3>2. cmds \in Seq(Commands) /\ 1 .. Len(cmds) = {}
        BY <2>1, EmptySeq
      <3> QED
        BY <2>1, <3>1, <3>2 DEF Queued
    <2>4. entry <= Len(manifest) + 1
      BY <2>1, <2>2
    <2>5. Built
      BY <2>1, <2>3, <2>4 DEF Built
    <2> QED
      BY <2>1, <2>5 DEF Building
  <1>2. Building(Names, Bytes) /\ [DiskNext]_diskVars => Building(Names, Bytes)'
    <2>1. ASSUME Building(Names, Bytes), UNCHANGED diskVars PROVE Building(Names, Bytes)'
      <3>1. /\ manifest' = manifest /\ fs' = fs /\ entry' = entry /\ createdDirs' = createdDirs
            /\ staged' = staged /\ cmds' = cmds /\ ext2' = ext2 /\ fat' = fat /\ selfTest' = selfTest
        BY <2>1 DEF diskVars
      <3>2. /\ Queued(entry - 1)' = Queued(entry - 1)
            /\ Queued(Len(manifest))' = Queued(Len(manifest))
        BY <3>1 DEF Queued, Commands, Ext2Paths
      <3>3. Executed(entry - 1)' = Executed(entry - 1)
        BY <3>1 DEF Executed, Done
      <3>4. /\ Filled(ext2, Ext2Paths, Len(manifest))' = Filled(ext2, Ext2Paths, Len(manifest))
            /\ Filled(fat, FatPaths, entry - 1)' = Filled(fat, FatPaths, entry - 1)
            /\ Filled(fat, FatPaths, Len(manifest))' = Filled(fat, FatPaths, Len(manifest))
            /\ Dirs(FatPaths, entry - 1)' = Dirs(FatPaths, entry - 1)
        BY <3>1 DEF Filled, Ext2Paths, FatPaths
      <3>5. Built' = Built /\ (Apart /\ Flat)' = (Apart /\ Flat)
        BY <3>1, <3>2, <3>3, <3>4 DEF Built, Blank, Apart, Flat
      <3> QED
        BY <2>1, <3>1, <3>5 DEF Building
    <2> QED
      BY <2>1, BuildingGoesOn
  <1>3. Building(Names, Bytes) => ImagesAgree
    <2> SUFFICES ASSUME Building(Names, Bytes), fs = "both" PROVE ImagesAgree
      BY DEF ImagesAgree
    <2>1. DOMAIN manifest = 1 .. Len(manifest)
      BY LenProperties DEF Building
    <2>2. ASSUME Apart, Flat
          PROVE  /\ selfTest = 0
                 /\ DOMAIN ext2.files = {manifest[i].path : i \in DOMAIN manifest}
                 /\ DOMAIN fat.files = {UpperPath(manifest[i].path) : i \in DOMAIN manifest}
      <3>1. /\ selfTest = 0
            /\ Filled(ext2, Ext2Paths, Len(manifest)) /\ Filled(fat, FatPaths, Len(manifest))
        BY <2>2 DEF Building, Built
      <3> QED
        BY <2>1, <3>1 DEF Filled, Ext2Paths, FatPaths
    <2>3. {UpperPath(p) : p \in {manifest[i].path : i \in DOMAIN manifest}}
             = {UpperPath(manifest[i].path) : i \in DOMAIN manifest}
      OBVIOUS
    <2> QED
      BY <2>2, <2>3 DEF Building, ImagesAgree
  <1> QED
    BY <1>1, <1>2, <1>3, PTL DEF DiskSpec

----------------------------------------------------------------------------
(* The kernel trace                                                        *)

(* The kernels a log may be of: any version, any operations, of which the  *)
(* script knows the first.                                                 *)
Kernel(Versions, Ops) ==
    {b \in [version : Versions, ops : Seq(Ops) \ {<<>>}] : b.ops[1] \in OpNames}
Rec(Versions, Ops) == [generation : Nat, step : Nat, version : Versions, op : Ops]
Fragment(Versions, Ops) == {Text, Cut} \cup {Record(r) : r \in Rec(Versions, Ops)}
Before(r, s) == \/ r.generation < s.generation
                \/ r.generation = s.generation /\ r.step < s.step

(* The records on a line, and those the kernel has emitted.                *)
On(line) == {r.rec : r \in {line[i] : i \in DOMAIN line} \ {Text, Cut}}
Emitted == {emitted[i] : i \in DOMAIN emitted}
Precedes(k, l) == \A r \in On(k), s \in On(l) : Before(r, s)

(* Records are emitted in the order of generations and steps, those of a   *)
(* generation from its first on, and what stands in the log was emitted,   *)
(* and stands there in that order.                                         *)
Counting(Versions, Ops) ==
    /\ build \in Kernel(Versions, Ops)
    /\ generation \in Nat /\ traceStep \in Nat /\ passes \in Nat
    /\ opAt \in 1 .. Len(build.ops) + 1
    /\ phase = "pass" /\ traceStep = 0 => opAt \in {1, Len(build.ops) + 1}
First(r) == r.step = 0 /\ r.version = build.version /\ r.op = build.ops[1]
Emitting(Versions, Ops) ==
    /\ emitted \in Seq(Rec(Versions, Ops))
    /\ \A i, j \in DOMAIN emitted : i < j => Before(emitted[i], emitted[j])
    /\ \A r \in Emitted :
          /\ r.generation <= generation /\ r.version = build.version
          /\ phase = "pass" /\ r.generation = generation => r.step < traceStep
          /\ \E s \in Emitted : s.generation = r.generation /\ First(s)
    /\ phase = "pass" /\ traceStep > 0 =>
          \E s \in Emitted : s.generation = generation /\ First(s)
Logging(Versions, Ops) ==
    /\ lines \in Seq(Seq(Fragment(Versions, Ops)) \ {<<>>})
    /\ open \in Seq(Fragment(Versions, Ops))
    /\ On(open) \subseteq Emitted
    /\ \A i \in 1 .. Len(lines) : On(lines[i]) \subseteq Emitted /\ Precedes(lines[i], open)
    /\ \A i, j \in 1 .. Len(lines) : i < j => Precedes(lines[i], lines[j])

(* A record on a line is neither text nor a cut one.                       *)
LEMMA Fragments ==
    ASSUME NEW Versions, NEW Ops
    PROVE  /\ Text # Cut /\ \A r : Record(r) # Text /\ Record(r) # Cut /\ Record(r).rec = r
           /\ \A x, y : x = y => Record(x) = Record(y)
  <1>1. Text.kind = "text" /\ Cut.kind = "cut" /\ \A r : Record(r).kind = "record" /\ Record(r).rec = r
    BY DEF Text, Cut, Record
  <1>2. Text # Cut
    BY <1>1
  <1>3. \A r : Record(r) # Text /\ Record(r) # Cut
    BY <1>1
  <1> QED
    BY <1>1, <1>2, <1>3

(* What console text and cut records add to a line holds no record, what a *)
(* record adds is that one.                                                *)
LEMMA Added ==
    ASSUME NEW Versions, NEW Ops, NEW line \in Seq(Fragment(Versions, Ops)),
           NEW f \in Fragment(Versions, Ops)
    PROVE  /\ Append(line, f) \in Seq(Fragment(Versions, Ops))
           /\ {Append(line, f)[i] : i \in DOMAIN Append(line, f)} = {line[i] : i \in DOMAIN line} \cup {f}
  <1>1. /\ Append(line, f) \in Seq(Fragment(Versions, Ops)) /\ Len(line) \in Nat
        /\ DOMAIN line = 1 .. Len(line) /\ DOMAIN Append(line, f) = 1 .. Len(line) + 1
        /\ \A i \in 1 .. Len(line) : Append(line, f)[i] = line[i]
        /\ Append(line, f)[Len(line) + 1] = f
    OBVIOUS
  <1>2. 1 .. Len(line) + 1 = (1 .. Len(line)) \cup {Len(line) + 1}
    BY <1>1
  <1> QED
    BY <1>1, <1>2

LEMMA TextAdded ==
    ASSUME NEW Versions, NEW Ops, NEW line \in Seq(Fragment(Versions, Ops))
    PROVE  /\ Add(line, Text) \in Seq(Fragment(Versions, Ops)) /\ On(Add(line, Text)) = On(line)
           /\ Append(line, Cut) \in Seq(Fragment(Versions, Ops)) /\ On(Append(line, Cut)) = On(line)
           /\ On(<<>>) = {} /\ On(<<Text>>) = {}
           /\ <<>> \in Seq(Fragment(Versions, Ops)) /\ <<Text>> \in Seq(Fragment(Versions, Ops))
  <1>1. Text \in Fragment(Versions, Ops) /\ Cut \in Fragment(Versions, Ops)
    BY DEF Fragment
  <1>2. On(Append(line, Text)) = On(line) /\ On(Append(line, Cut)) = On(line)
    <2>1. ASSUME NEW f \in {Text, Cut}
          PROVE  {Append(line, f)[i] : i \in DOMAIN Append(line, f)} \ {Text, Cut}
                    = {line[i] : i \in DOMAIN line} \ {Text, Cut}
      BY <1>1, Added
    <2> QED
      BY <2>1, Zenon DEF On
  <1>3. Add(line, Text) = line \/ Add(line, Text) = Append(line, Text)
    BY DEF Add
  <1>4. On(<<>>) = {} /\ On(<<Text>>) = {}
    <2>1. DOMAIN <<>> = {} /\ DOMAIN <<Text>> = {1} /\ <<Text>>[1] = Text
      OBVIOUS
    <2> QED
      BY <2>1 DEF On
  <1>5. <<>> \in Seq(Fragment(Versions, Ops)) /\ <<Text>> \in Seq(Fragment(Versions, Ops))
    BY <1>1
  <1>6. Append(line, Text) \in Seq(Fragment(Versions, Ops)) /\ Append(line, Cut) \in Seq(Fragment(Versions, Ops))
    BY <1>1, Added
  <1>7. Add(line, Text) \in Seq(Fragment(Versions, Ops)) /\ On(Add(line, Text)) = On(line)
    BY <1>2, <1>3, <1>6, Zenon
  <1> QED
    BY <1>2, <1>4, <1>5, <1>6, <1>7, Zenon

(* A record added to a line is one more record on it.                      *)
LEMMA RecordAdded ==
    ASSUME NEW Versions, NEW Ops, NEW line \in Seq(Fragment(Versions, Ops)), NEW r \in Rec(Versions, Ops)
    PROVE  /\ Append(line, Record(r)) \in Seq(Fragment(Versions, Ops))
           /\ On(Append(line, Record(r))) = On(line) \cup {r}
  <1>1. Record(r) \in Fragment(Versions, Ops)
    BY DEF Fragment
  <1>2. Record(r) # Text /\ Record(r) # Cut /\ Record(r).rec = r
    BY Fragments
  <1>3. {Append(line, Record(r))[i] : i \in DOMAIN Append(line, Record(r))} \ {Text, Cut}
           = ({line[i] : i \in DOMAIN line} \ {Text, Cut}) \cup {Record(r)}
    BY <1>1, <1>2, Added
  <1>4. ASSUME NEW X, NEW x, x.rec = r
        PROVE  {q.rec : q \in X \cup {x}} = {q.rec : q \in X} \cup {r}
    BY <1>4
  <1>5. {q.rec : q \in ({line[i] : i \in DOMAIN line} \ {Text, Cut}) \cup {Record(r)}}
           = {q.rec : q \in {line[i] : i \in DOMAIN line} \ {Text, Cut}} \cup {r}
    BY <1>2, <1>4
  <1>6. On(Append(line, Record(r))) = On(line) \cup {r}
    BY <1>3, <1>5, Zenon DEF On
  <1> QED
    BY <1>1, <1>6, Added

(* Records newer than all before may come to the open line, and the open   *)
(* line to the closed ones.                                                *)
LEMMA OpenGrows ==
    ASSUME NEW Versions, NEW Ops, Logging(Versions, Ops), NEW new,
           new \subseteq Emitted', Emitted \subseteq Emitted',
           \A e \in Emitted, r \in new : Before(e, r),
           lines' = lines, open' \in Seq(Fragment(Versions, Ops)),
           On(open') \subseteq On(open) \cup new
    PROVE  Logging(Versions, Ops)'
  <1>1. On(open') \subseteq Emitted'
    BY DEF Logging
  <1>2. \A i \in 1 .. Len(lines) : On(lines[i]) \subseteq Emitted' /\ Precedes(lines[i], open')
    BY DEF Logging, Precedes
  <1> QED
    BY <1>1, <1>2 DEF Logging

LEMMA LinesGrow ==
    ASSUME NEW Versions, NEW Ops, Logging(Versions, Ops), NEW new,
           new \subseteq Emitted', Emitted \subseteq Emitted',
           \A e \in Emitted, r \in new : Before(e, r),
           NEW l \in Seq(Fragment(Versions, Ops)), On(l) \subseteq On(open) \cup new,
           lines' = Close(l),
           open' \in Seq(Fragment(Versions, Ops)), On(open') = {}
    PROVE  Logging(Versions, Ops)'
  <1>1. lines' = lines \/ (l # <<>> /\ lines' = Append(lines, l))
    <2>1. \A i \in DOMAIN <<>> : <<>>[i] = Text
      OBVIOUS
    <2> QED
      BY <2>1 DEF Close
  <1>2. \A k : Precedes(k, open')
    BY DEF Precedes
  <1>3. CASE lines' = lines
    <2>1. \A i \in 1 .. Len(lines) : On(lines[i]) \subseteq Emitted' /\ Precedes(lines[i], open')
      BY <1>2 DEF Logging
    <2> QED
      BY <1>3, <2>1 DEF Logging
  <1>4. CASE l # <<>> /\ lines' = Append(lines, l)
    <2> DEFINE n == Len(lines)
    <2>1. /\ lines' \in Seq(Seq(Fragment(Versions, Ops)) \ {<<>>}) /\ Len(lines') = n + 1 /\ n \in Nat
          /\ \A i \in 1 .. n : lines'[i] = lines[i]
          /\ lines'[n + 1] = l
      BY <1>4 DEF Logging
    <2>2. On(l) \subseteq Emitted' /\ \A i \in 1 .. n : On(lines[i]) \subseteq Emitted' /\ Precedes(lines[i], l)
      BY DEF Logging, Precedes
    <2>3. \A i \in 1 .. n + 1 : i \in 1 .. n \/ i = n + 1
      BY <2>1
    <2> HIDE DEF n
    <2>4. \A i \in 1 .. n + 1 : On(lines'[i]) \subseteq Emitted' /\ Precedes(lines'[i], open')
      BY <1>2, <2>1, <2>2, <2>3
    <2>5. ASSUME NEW i \in 1 .. n + 1, NEW j \in 1 .. n + 1, i < j
          PROVE  Precedes(lines'[i], lines'[j])
      <3>1. i \in 1 .. n
        BY <2>1, <2>5
      <3>2. CASE j \in 1 .. n
        BY <2>1, <2>5, <3>1, <3>2 DEF Logging, n
      <3>3. CASE j = n + 1
        BY <2>1, <2>2, <3>1, <3>3
      <3> QED
        BY <2>3, <3>2, <3>3
    <2> QED
      BY <2>1, <2>4, <2>5 DEF Logging
  <1> QED
    BY <1>1, <1>3, <1>4

(* The console spoils lines, but adds no record and reorders none.         *)
LEMMA PrintingLogs ==
    ASSUME NEW Versions, NEW Ops, Logging(Versions, Ops), emitted' = emitted,
           PrintLines \/ PrintText \/ UNCHANGED <<lines, open>>
    PROVE  Logging(Versions, Ops)'
  <1> DEFINE F == Fragment(Versions, Ops)
  <1>1. Emitted' = Emitted
    BY DEF Emitted
  <1>2. ASSUME NEW l \in Seq(F)
        PROVE  /\ Add(l, Text) \in Seq(F) /\ On(Add(l, Text)) = On(l)
               /\ On(<<>>) = {} /\ On(<<Text>>) = {} /\ <<>> \in Seq(F) /\ <<Text>> \in Seq(F)
    BY <1>2, TextAdded
  <1>3. open \in Seq(F) /\ Add(open, Text) \in Seq(F) /\ On(Add(open, Text)) = On(open)
    BY <1>2 DEF Logging
  <1>4. CASE PrintText \/ UNCHANGED <<lines, open>>
    <2>1. lines' = lines /\ (open' = open \/ open' = Add(open, Text))
      BY <1>4 DEF PrintText
    <2> QED
      BY <1>1, <1>3, <2>1, OpenGrows
  <1>5. CASE PrintLines /\ ~PrintText
    <2>1. /\ lines' = Close(open) \/ lines' = Close(Add(open, Text))
          /\ open' = <<>> \/ open' = <<Text>>
      BY <1>5 DEF PrintLines
    <2>2. open' \in Seq(F) /\ On(open') = {}
      BY <1>2, <1>3, <2>1
    <2> QED
      BY <1>1, <1>3, <2>1, <2>2, LinesGrow
  <1> QED
    BY <1>4, <1>5

(* Log and records agree.                                                  *)
Written(Versions, Ops) ==
    Counting(Versions, Ops) /\ Emitting(Versions, Ops) /\ Logging(Versions, Ops)

(* Emitting speaks of the records and of the pass that runs.               *)
LEMMA EmittingStays ==
    ASSUME NEW Versions, NEW Ops, Emitting(Versions, Ops),
           UNCHANGED <<build, emitted, generation>>,
           phase' = "pass" => phase = "pass" /\ traceStep' = traceStep
    PROVE  Emitting(Versions, Ops)' /\ Emitted' = Emitted
  <1>1. Emitted' = Emitted /\ \A r : First(r)' <=> First(r)
    BY DEF Emitted, First
  <1> QED
    BY <1>1 DEF Emitting

(* What was emitted is a record.                                           *)
LEMMA EmittedTyped ==
    ASSUME NEW Versions, NEW Ops, Emitting(Versions, Ops), NEW e \in Emitted
    PROVE  e \in Rec(Versions, Ops) /\ e.generation \in Nat /\ e.step \in Nat
  <1>1. e \in Rec(Versions, Ops)
    BY ElementOfSeq, LenProperties DEF Emitting, Emitted
  <1> QED
    BY <1>1 DEF Rec

(* The next record is newer than all before, and the first of its          *)
(* generation or behind it.                                                *)
LEMMA NextEmitted ==
    ASSUME NEW Versions, NEW Ops, Counting(Versions, Ops), Emitting(Versions, Ops),
           phase = "pass", opAt <= Len(build.ops),
           emitted' = Append(emitted, NextRecord)
    PROVE  /\ NextRecord \in Rec(Versions, Ops) /\ NextRecord.version = build.version
           /\ Emitted' = Emitted \cup {NextRecord}
           /\ \A e \in Emitted : Before(e, NextRecord)
           /\ emitted' \in Seq(Rec(Versions, Ops))
           /\ \A i, j \in DOMAIN emitted' : i < j => Before(emitted'[i], emitted'[j])
           /\ \E s \in Emitted' : s.generation = generation /\ First(s)
  <1> DEFINE n == Len(emitted)
             r == NextRecord
  <1>1. /\ build.ops \in Seq(Ops) /\ build.version \in Versions
        /\ generation \in Nat /\ traceStep \in Nat
        /\ opAt \in 1 .. Len(build.ops)
    BY LenProperties DEF Counting, Kernel
  <1>2. /\ r.generation = generation /\ r.step = traceStep /\ r.version = build.version
        /\ r.op = build.ops[opAt] /\ r \in Rec(Versions, Ops)
    BY <1>1, ElementOfSeq DEF NextRecord, Rec
  <1>3. \A e \in Emitted : Before(e, r)
    <2> SUFFICES ASSUME NEW e \in Emitted PROVE Before(e, r)
      OBVIOUS
    <2>1. e \in Rec(Versions, Ops)
      BY ElementOfSeq, LenProperties DEF Emitting, Emitted
    <2>2. e.generation <= generation /\ (e.generation = generation => e.step < traceStep)
      BY DEF Emitting
    <2>3. e.generation \in Nat
      BY <2>1 DEF Rec
    <2> HIDE DEF r
    <2> QED
      BY <1>1, <1>2, <2>2, <2>3 DEF Before
  <1> HIDE DEF r
  <1>4. /\ emitted' \in Seq(Rec(Versions, Ops)) /\ Len(emitted') = n + 1 /\ n \in Nat
        /\ DOMAIN emitted = 1 .. n /\ DOMAIN emitted' = 1 .. n + 1
        /\ \A i \in 1 .. n : emitted'[i] = emitted[i]
        /\ emitted'[n + 1] = r
    BY <1>2 DEF r, Emitting
  <1>5. 1 .. n + 1 = (1 .. n) \cup {n + 1}
    BY <1>4
  <1>6. Emitted' = Emitted \cup {r}
    BY <1>4, <1>5 DEF Emitted
  <1>7. ASSUME NEW i \in DOMAIN emitted', NEW j \in DOMAIN emitted', i < j
        PROVE  Before(emitted'[i], emitted'[j])
    <2>1. i \in 1 .. n
      BY <1>4, <1>7
    <2>2. CASE j \in 1 .. n
      BY <1>4, <1>7, <2>1, <2>2 DEF Emitting
    <2>3. CASE j = n + 1
      BY <1>3, <1>4, <2>1, <2>3 DEF Emitted
    <2> QED
      BY <1>4, <2>2, <2>3
  <1>8. \E s \in Emitted' : s.generation = generation /\ First(s)
    <2>1. CASE traceStep > 0
      BY <1>6, <2>1 DEF Emitting
    <2>2. CASE traceStep = 0
      <3>1. opAt = 1
        BY <1>1, <2>2 DEF Counting
      <3>2. First(r)
        BY <1>2, <2>2, <3>1 DEF First
      <3> QED
        BY <1>2, <1>6, <3>2
    <2> QED
      BY <1>1, <2>1, <2>2
  <1> QED
    BY <1>2, <1>3, <1>4, <1>6, <1>7, <1>8 DEF r

(* The two steps that write records keep records and log in order.         *)
LEMMA EmitWrites ==
    ASSUME NEW Versions, NEW Ops, Written(Versions, Ops), Emit
    PROVE  Written(Versions, Ops)'
  <1>1. /\ phase = "pass" /\ phase' = "pass" /\ opAt <= Len(build.ops) /\ emitted' = Append(emitted, NextRecord)
        /\ lines' = Close(Append(open, Record(NextRecord))) /\ open' = <<>>
        /\ traceStep' = traceStep + 1 /\ opAt' = opAt + 1
        /\ UNCHANGED <<build, generation, passes>>
    BY DEF Emit
  <1>2. /\ NextRecord \in Rec(Versions, Ops) /\ NextRecord.version = build.version
        /\ Emitted' = Emitted \cup {NextRecord}
        /\ \A e \in Emitted : Before(e, NextRecord)
        /\ emitted' \in Seq(Rec(Versions, Ops))
        /\ \A i, j \in DOMAIN emitted' : i < j => Before(emitted'[i], emitted'[j])
        /\ \E s \in Emitted' : s.generation = generation /\ First(s)
    BY <1>1, NextEmitted DEF Written
  <1>3. Counting(Versions, Ops)'
    <2>1. traceStep' \in Nat /\ traceStep' # 0 /\ opAt' \in 1 .. Len(build.ops) + 1
      <3>1. Len(build.ops) \in Nat /\ opAt \in 1 .. Len(build.ops) + 1 /\ traceStep \in Nat
        BY LenProperties DEF Written, Counting, Kernel
      <3> QED
        BY <1>1, <3>1
    <2> QED
      BY <1>1, <2>1 DEF Written, Counting
  <1>4. NextRecord.generation = generation /\ NextRecord.step = traceStep
    BY DEF NextRecord
  <1>5. generation \in Nat /\ traceStep \in Nat
    BY DEF Written, Counting
  <1>6. \A e \in Emitted : /\ e.generation <= generation /\ e.step \in Nat
                           /\ e.version = build.version
                           /\ e.generation = generation => e.step < traceStep
                           /\ \E s \in Emitted : s.generation = e.generation /\ First(s)
    <2>1. \A e \in Emitted : e.step \in Nat
      BY EmittedTyped DEF Written
    <2> QED
      BY <1>1, <2>1 DEF Written, Emitting
  <1>7. \A r : First(r)' <=> First(r)
    BY <1>1 DEF First
  <1> HIDE DEF NextRecord
  <1>8. \A r \in Emitted' :
          /\ r.generation <= generation' /\ r.version = build.version'
          /\ r.generation = generation' => r.step < traceStep'
          /\ \E s \in Emitted' : s.generation = r.generation /\ First(s)
    <2> SUFFICES ASSUME NEW r \in Emitted'
                 PROVE  /\ r.generation <= generation /\ r.version = build.version
                        /\ r.generation = generation => r.step < traceStep + 1
                        /\ \E s \in Emitted' : s.generation = r.generation /\ First(s)
      BY <1>1
    <2>1. CASE r \in Emitted
      BY <1>2, <1>5, <1>6, <2>1
    <2>2. CASE r = NextRecord
      BY <1>2, <1>4, <1>5, <2>2
    <2> QED
      BY <1>2, <2>1, <2>2
  <1>9. Emitting(Versions, Ops)'
    BY <1>1, <1>2, <1>7, <1>8 DEF Emitting
  <1>10. Logging(Versions, Ops)'
    <2> DEFINE l == Append(open, Record(NextRecord))
    <2>1. l \in Seq(Fragment(Versions, Ops)) /\ On(l) \subseteq On(open) \cup {NextRecord}
      BY <1>2, RecordAdded DEF Written, Logging
    <2>2. open' \in Seq(Fragment(Versions, Ops)) /\ On(open') = {}
      BY <1>1, TextAdded DEF Written, Logging
    <2>3. lines' = Close(l)
      BY <1>1
    <2> HIDE DEF l
    <2> QED
      BY <1>2, <2>1, <2>2, <2>3, LinesGrow DEF Written
  <1> QED
    BY <1>3, <1>9, <1>10 DEF Written

(* The machine stops in the middle of a record or right behind it.         *)
LEMMA CrashWrites ==
    ASSUME NEW Versions, NEW Ops, Written(Versions, Ops), Crash
    PROVE  Written(Versions, Ops)'
  <1>1. /\ phase = "pass" /\ phase' = "off" /\ opAt <= Len(build.ops)
        /\ UNCHANGED <<build, lines, generation, passes, opAt, traceStep>>
    BY DEF Crash
  <1>2. Counting(Versions, Ops)'
    BY <1>1 DEF Written, Counting
  <1>3. CASE open' \in {Add(open, Text), Append(open, Cut)} /\ UNCHANGED emitted
    <2>1. Emitting(Versions, Ops)' /\ Emitted' = Emitted
      BY <1>1, <1>3, EmittingStays DEF Written
    <2>2. open' \in Seq(Fragment(Versions, Ops)) /\ On(open') \subseteq On(open)
      <3>1. open \in Seq(Fragment(Versions, Ops))
        BY DEF Written, Logging
      <3>2. /\ Add(open, Text) \in Seq(Fragment(Versions, Ops)) /\ On(Add(open, Text)) = On(open)
            /\ Append(open, Cut) \in Seq(Fragment(Versions, Ops)) /\ On(Append(open, Cut)) = On(open)
        BY <3>1, TextAdded
      <3> QED
        BY <1>3, <3>2, Zenon
    <2>3. Logging(Versions, Ops)'
      BY <1>1, <2>1, <2>2, OpenGrows DEF Written
    <2> QED
      BY <1>2, <2>1, <2>3 DEF Written
  <1>4. CASE open' = Append(open, Record(NextRecord)) /\ emitted' = Append(emitted, NextRecord)
    <2>1. /\ NextRecord \in Rec(Versions, Ops) /\ NextRecord.version = build.version
          /\ Emitted' = Emitted \cup {NextRecord}
          /\ \A e \in Emitted : Before(e, NextRecord)
          /\ emitted' \in Seq(Rec(Versions, Ops))
          /\ \A i, j \in DOMAIN emitted' : i < j => Before(emitted'[i], emitted'[j])
          /\ \E s \in Emitted' : s.generation = generation /\ First(s)
      BY <1>1, <1>4, NextEmitted DEF Written
    <2>2. NextRecord.generation = generation /\ generation \in Nat
      BY DEF NextRecord, Written, Counting
    <2>3. \A r : First(r)' <=> First(r)
      BY <1>1 DEF First
    <2> HIDE DEF NextRecord
    <2>4. \A r \in Emitted' :
             /\ r.generation <= generation /\ r.version = build.version
             /\ \E s \in Emitted' : s.generation = r.generation /\ First(s)
      BY <2>1, <2>2 DEF Written, Emitting
    <2>5. Emitting(Versions, Ops)'
      BY <1>1, <2>1, <2>3, <2>4 DEF Emitting
    <2>6. open' \in Seq(Fragment(Versions, Ops)) /\ On(open') \subseteq On(open) \cup {NextRecord}
      BY <1>4, <2>1, RecordAdded DEF Written, Logging
    <2>7. Logging(Versions, Ops)'
      BY <1>1, <2>1, <2>6, OpenGrows DEF Written
    <2> QED
      BY <1>2, <2>5, <2>7 DEF Written
  <1> QED
    BY <1>3, <1>4 DEF Crash

(* The steps that emit nothing.                                            *)
LEMMA QuietWrites ==
    ASSUME NEW Versions, NEW Ops, Written(Versions, Ops),
           Ask \/ SkipLayer \/ FailPass \/ NextPass \/ EndGeneration \/ Boot
    PROVE  Written(Versions, Ops)'
  <1>1. UNCHANGED <<build, emitted>> /\ (PrintLines \/ PrintText \/ UNCHANGED <<lines, open>>)
    BY DEF Ask, SkipLayer, FailPass, NextPass, EndGeneration, Boot
  <1>2. Logging(Versions, Ops)'
    BY <1>1, PrintingLogs DEF Written
  <1>3. /\ Len(build.ops) \in Nat \ {0} /\ opAt \in Nat /\ generation \in Nat /\ passes \in Nat
    BY EmptySeq DEF Written, Counting, Kernel
  <1>4. Counting(Versions, Ops)'
    <2>1. CASE Ask
      BY <1>3, <2>1 DEF Ask, Written, Counting
    <2>2. CASE SkipLayer
      BY <1>3, <2>2 DEF SkipLayer, Written, Counting
    <2>3. CASE FailPass
      BY <1>3, <2>3 DEF FailPass, Written, Counting
    <2>4. CASE NextPass
      BY <1>3, <2>4 DEF NextPass, Written, Counting
    <2>5. CASE EndGeneration \/ Boot
      BY <1>3, <2>5 DEF EndGeneration, Boot, Written, Counting
    <2> QED
      BY <2>1, <2>2, <2>3, <2>4, <2>5
  <1>5. Emitting(Versions, Ops)'
    <2>1. CASE Ask
      <3>1. generation' = generation + 1 /\ traceStep' = 0
        BY <2>1 DEF Ask
      <3>2. Emitted' = Emitted /\ (\A r : First(r)' <=> First(r))
        BY <1>1 DEF Emitted, First
      <3>3. \A r \in Emitted : r.generation <= generation /\ r.generation \in Nat
        <4>1. \A r \in Emitted : r.generation \in Nat
          BY EmittedTyped DEF Written
        <4> QED
          BY <4>1 DEF Written, Emitting
      <3>4. \A r \in Emitted : r.generation <= generation' /\ r.generation # generation'
        BY <1>3, <3>1, <3>3
      <3>5. /\ emitted \in Seq(Rec(Versions, Ops))
            /\ \A i, j \in DOMAIN emitted : i < j => Before(emitted[i], emitted[j])
            /\ \A r \in Emitted : /\ r.version = build.version
                                 /\ \E s \in Emitted : s.generation = r.generation /\ First(s)
        BY DEF Written, Emitting
      <3> QED
        BY <1>1, <3>1, <3>2, <3>4, <3>5 DEF Emitting
    <2>2. CASE ~Ask
      <3>1. generation' = generation /\ (phase' = "pass" => phase = "pass" /\ traceStep' = traceStep)
        BY <2>2 DEF SkipLayer, FailPass, NextPass, EndGeneration, Boot
      <3> QED
        BY <1>1, <3>1, EmittingStays DEF Written
    <2> QED
      BY <2>1, <2>2
  <1> QED
    BY <1>2, <1>4, <1>5 DEF Written

(* What the script has counted when it has read m lines: the records that  *)
(* stand alone on them and are valid.                                      *)
Valid(r) == ValidateRecord(r) = "valid"
Good == {i \in 1 .. Len(Log) : \E r \in Emitted : Log[i] = <<Record(r)>> /\ Valid(r)}
RecordAt(i) == Log[i][1].rec
Read == {i \in Good : i <= report.linesRead}
Place(i) == Cardinality({j \in Good : j <= i})
Generations == {report.out[k].generation : k \in DOMAIN report.out}
Report(Versions, Ops) ==
    [linesRead : Nat, out : Seq(Rec(Versions, Ops)), malformed : Nat, unknownOp : Nat,
     nonMonotonic : Nat, lastStep : Nat \cup {-1}, strict : BOOLEAN, renumber : BOOLEAN,
     exit : Int]
Exported ==
    /\ Len(report.out) = Cardinality(Read)
    /\ \A i \in Read : report.out[Place(i)] = IF report.renumber
                                              THEN [RecordAt(i) EXCEPT !.step = Place(i) - 1]
                                              ELSE RecordAt(i)
    /\ Generations = {RecordAt(i).generation : i \in Read}
Warned ==
    /\ IsFiniteSet(Generations)
    /\ Read = {} => report.lastStep = -1 /\ report.nonMonotonic = 0
    /\ Read # {} =>
          /\ \E i \in Read : /\ \A j \in Read : j <= i
                             /\ report.lastStep = RecordAt(i).step
          /\ report.nonMonotonic <= Cardinality(Generations) - 1
          /\ Lost = {} => report.nonMonotonic = Cardinality(Generations) - 1
Parsing(Versions, Ops) ==
    /\ report \in Report(Versions, Ops) /\ report.linesRead <= Len(Log)
    /\ phase = "parsed" => report.linesRead = Len(Log)
    /\ Exported /\ Warned

(* The log is its closed lines and, if it is not empty, the open one.      *)
LEMMA Logged ==
    ASSUME NEW Versions, NEW Ops, Logging(Versions, Ops)
    PROVE  /\ Log \in Seq(Seq(Fragment(Versions, Ops)) \ {<<>>})
           /\ \A i \in 1 .. Len(Log) : On(Log[i]) \subseteq Emitted
           /\ \A i, j \in 1 .. Len(Log) : i < j => Precedes(Log[i], Log[j])
  <1> DEFINE n == Len(lines)
  <1>1. CASE open = <<>>
    BY <1>1 DEF Log, Logging
  <1>2. CASE open # <<>>
    <2>1. /\ Log \in Seq(Seq(Fragment(Versions, Ops)) \ {<<>>}) /\ Len(Log) = n + 1 /\ n \in Nat
          /\ \A i \in 1 .. n : Log[i] = lines[i]
          /\ Log[n + 1] = open
      BY <1>2 DEF Log, Logging
    <2>2. On(open) \subseteq Emitted /\ \A i \in 1 .. n : On(lines[i]) \subseteq Emitted /\ Precedes(lines[i], open)
      BY DEF Logging
    <2>3. \A i \in 1 .. n + 1 : i \in 1 .. n \/ i = n + 1
      BY <2>1
    <2>4. \A i, j \in 1 .. n : i < j => Precedes(lines[i], lines[j])
      BY DEF Logging
    <2> HIDE DEF n
    <2>5. ASSUME NEW i \in 1 .. n + 1, NEW j \in 1 .. n + 1, i < j
          PROVE  Precedes(Log[i], Log[j])
      <3>1. i \in 1 .. n
        BY <2>1, <2>5
      <3> QED
        BY <2>1, <2>2, <2>3, <2>4, <2>5, <3>1
    <2> QED
      BY <2>1, <2>2, <2>3, <2>5
  <1> QED
    BY <1>1, <1>2

(* A record alone on its line is the only one there.                       *)
LEMMA OneRecord ==
    ASSUME NEW Versions, NEW Ops, NEW r \in Rec(Versions, Ops)
    PROVE  On(<<Record(r)>>) = {r} /\ <<Record(r)>>[1].rec = r
  <1>1. <<>> \in Seq(Fragment(Versions, Ops))
    OBVIOUS
  <1>2. On(<<>>) = {}
    BY <1>1, TextAdded
  <1>3. Append(<<>>, Record(r)) = <<Record(r)>> /\ <<Record(r)>>[1] = Record(r)
    OBVIOUS
  <1>4. \A line \in Seq(Fragment(Versions, Ops)) :
           On(Append(line, Record(r))) = On(line) \cup {r}
    <2> TAKE line \in Seq(Fragment(Versions, Ops))
    <2>1. r \in Rec(Versions, Ops)
      OBVIOUS
    <2>2. On(Append(line, Record(r))) = On(line) \cup {r}
      BY ONLY <2>1, RecordAdded, line \in Seq(Fragment(Versions, Ops))
    <2> QED
      BY <2>2
  <1>5. On(Append(<<>>, Record(r))) = On(<<>>) \cup {r}
    BY <1>1, <1>4, Zenon
  <1> QED
    BY <1>2, <1>3, <1>5, Fragments

(* Good lines hold emitted records, in the order they were emitted.        *)
LEMMA GoodOrdered ==
    ASSUME NEW Versions, NEW Ops, Emitting(Versions, Ops), Logging(Versions, Ops)
    PROVE  /\ \A i \in Good : /\ RecordAt(i) \in Emitted /\ RecordAt(i) \in Rec(Versions, Ops)
                              /\ Valid(RecordAt(i)) /\ Log[i] = <<Record(RecordAt(i))>>
                              /\ RecordAt(i).generation \in Nat /\ RecordAt(i).step \in Nat
           /\ \A i, j \in Good : i < j => Before(RecordAt(i), RecordAt(j))
           /\ Good \in SUBSET (1 .. Len(Log)) /\ IsFiniteSet(Good) /\ Len(Log) \in Nat
  <1>1. ASSUME NEW i \in Good
        PROVE  /\ RecordAt(i) \in Emitted /\ RecordAt(i) \in Rec(Versions, Ops)
               /\ Valid(RecordAt(i)) /\ Log[i] = <<Record(RecordAt(i))>>
               /\ RecordAt(i).generation \in Nat /\ RecordAt(i).step \in Nat
               /\ On(Log[i]) = {RecordAt(i)}
    <2>1. PICK r \in Emitted : Log[i] = <<Record(r)>> /\ Valid(r)
      BY DEF Good
    <2>2. r \in Rec(Versions, Ops) /\ r.generation \in Nat /\ r.step \in Nat
      BY EmittedTyped
    <2>3. On(Log[i]) = {r} /\ RecordAt(i) = r
      BY <2>1, <2>2, OneRecord DEF RecordAt
    <2> QED
      BY <2>1, <2>2, <2>3
  <1>2. \A i, j \in Good : i < j => Before(RecordAt(i), RecordAt(j))
    <2>1. \A i, j \in Good : i < j => Precedes(Log[i], Log[j])
      BY Logged DEF Good
    <2> QED
      BY <1>1, <2>1 DEF Precedes
  <1>3. Len(Log) \in Nat
    BY Logged, LenProperties
  <1>4. Good \in SUBSET (1 .. Len(Log))
    BY DEF Good
  <1>5. IsFiniteSet(1 .. Len(Log))
    BY <1>3, FS_Interval
  <1> QED
    BY <1>1, <1>2, <1>3, <1>4, <1>5, FS_Subset

(* How many members of a set of numbers are at most m.                     *)
LEMMA Ranks ==
    ASSUME NEW S \in SUBSET Nat, IsFiniteSet(S), NEW m \in Nat
    PROVE  /\ m + 1 \in S => {j \in S : j <= m + 1} = {j \in S : j <= m} \cup {m + 1}
           /\ m + 1 \in S => Cardinality({j \in S : j <= m + 1}) = Cardinality({j \in S : j <= m}) + 1
           /\ m + 1 \notin S => {j \in S : j <= m + 1} = {j \in S : j <= m}
           /\ \A i \in S : i <= m => Cardinality({j \in S : j <= i}) \in 1 .. Cardinality({j \in S : j <= m})
           /\ IsFiniteSet({j \in S : j <= m}) /\ Cardinality({j \in S : j <= m}) \in Nat
  <1> DEFINE Upto(k) == {j \in S : j <= k}
  <1>0. /\ \A j \in S : j <= m + 1 <=> j <= m \/ j = m + 1
        /\ \A i, j \in S : i <= m /\ j <= i => j <= m
        /\ \A j \in S : j <= j
        /\ ~(m + 1 <= m) /\ m + 1 <= m + 1
    OBVIOUS
  <1>1. ASSUME NEW k \in Nat
        PROVE  IsFiniteSet(Upto(k)) /\ Cardinality(Upto(k)) \in Nat
    <2>1. Upto(k) \in SUBSET S
      OBVIOUS
    <2> HIDE DEF Upto
    <2> QED
      BY <2>1, FS_Subset, FS_CardinalityType
  <1>2. ASSUME m + 1 \in S
        PROVE  Upto(m + 1) = Upto(m) \cup {m + 1} /\ m + 1 \notin Upto(m)
    BY <1>0, <1>2, Zenon
  <1>3. m + 1 \notin S => Upto(m + 1) = Upto(m)
    BY <1>0, Zenon
  <1>4. ASSUME NEW i \in S, i <= m
        PROVE  Upto(i) \in SUBSET Upto(m) /\ i \in Upto(i)
    BY <1>0, <1>4
  <1> HIDE DEF Upto
  <1>5. m + 1 \in S => Cardinality(Upto(m + 1)) = Cardinality(Upto(m)) + 1
    BY <1>1, <1>2, FS_AddElement
  <1>6. ASSUME NEW i \in S, i <= m
        PROVE  Cardinality(Upto(i)) \in 1 .. Cardinality(Upto(m))
    <2>1. Cardinality(Upto(i)) <= Cardinality(Upto(m)) /\ Cardinality(Upto(i)) # 0 /\ i \in Nat
      BY <1>1, <1>4, <1>6, FS_Subset, FS_EmptySet
    <2> QED
      BY <1>1, <2>1
  <1> QED
    BY <1>1, <1>2, <1>3, <1>5, <1>6 DEF Upto

(* The steps of the parser on its report.                                  *)
Onward(stats) == [stats EXCEPT !.linesRead = @ + 1]
Malformed(stats) == [stats EXCEPT !.malformed = @ + 1]
UnknownOp(stats) == [stats EXCEPT !.unknownOp = @ + 1]
Take(stats, r) == [stats EXCEPT !.nonMonotonic = IF Restarted(stats, r) THEN @ + 1 ELSE @,
                                !.lastStep = r.step,
                                !.out = Append(@, Output(stats, r))]

(* The script takes the good lines and counts or passes over the others.   *)
LEMMA LineParsed ==
    ASSUME NEW Versions, NEW Ops, NEW line \in Seq(Fragment(Versions, Ops)), line # <<>>, NEW stats
    PROVE  \/ \E r \in Rec(Versions, Ops) :
                 /\ line = <<Record(r)>> /\ Valid(r)
                 /\ ParseLine(stats, line) = Take(stats, r)
           \/ /\ ~\E r \in Rec(Versions, Ops) : line = <<Record(r)>> /\ Valid(r)
              /\ \/ ParseLine(stats, line) = stats
                 \/ ParseLine(stats, line) = Malformed(stats)
                 \/ ParseLine(stats, line) = UnknownOp(stats)
  <1>0. line \in Seq(Fragment(Versions, Ops)) /\ DOMAIN line = 1 .. Len(line)
    BY LenProperties
  <1>1. Len(line) \in Nat \ {0} /\ line[1] \in Fragment(Versions, Ops)
    BY EmptySeq, ElementOfSeq, LenProperties
  <1>2. \A r : <<Record(r)>>[1] = Record(r) /\ Len(<<Record(r)>>) = 1
    OBVIOUS
  <1>3. CASE \E r \in Rec(Versions, Ops) : line = <<Record(r)>> /\ Valid(r)
    <2>1. PICK r \in Rec(Versions, Ops) : line = <<Record(r)>> /\ Valid(r)
      BY <1>3
    <2>2. line[1] = Record(r) /\ Len(line) = 1 /\ line[1].rec = r /\ line[1] # Text /\ line[1] # Cut
      BY <1>2, <2>1, Fragments
    <2>3. Candidate(line) /\ Verdict(line) = "valid"
      BY <2>1, <2>2 DEF Candidate, Verdict, Valid
    <2> QED
      BY <2>1, <2>2, <2>3 DEF ParseLine, Take
  <1>4. CASE ~\E r \in Rec(Versions, Ops) : line = <<Record(r)>> /\ Valid(r)
    <2>1. CASE ~Candidate(line)
      BY <1>4, <2>1 DEF ParseLine
    <2>2. CASE Candidate(line)
      <3>1. Verdict(line) \in {"malformed", "unknown op"}
        <4>1. CASE Len(line) > 1 \/ line[1] = Cut
          BY <4>1 DEF Verdict
        <4>2. CASE ~(Len(line) > 1 \/ line[1] = Cut)
          <5>1. PICK r \in Rec(Versions, Ops) : line[1] = Record(r)
            BY <1>1, <2>2, <4>2 DEF Candidate, Fragment
          <5>2. line = <<Record(r)>>
            <6>1. Len(line) = 1 /\ DOMAIN line = 1 .. Len(line)
              BY <1>0, <1>1, <4>2
            <6> QED
              BY <1>2, <5>1, <6>1, SeqEqual
          <5>3. ~Valid(r) /\ line[1].rec = r
            BY <1>4, <5>1, <5>2, Fragments
          <5> QED
            BY <4>2, <5>3 DEF Verdict, Valid, ValidateRecord
        <4> QED
          BY <4>1, <4>2
      <3> QED
        BY <1>4, <2>2, <3>1 DEF ParseLine, Malformed, UnknownOp
    <2> QED
      BY <2>1, <2>2
  <1> QED
    BY <1>3, <1>4

(* The log is not written to while it is read.                             *)
LEMMA LogStays ==
    ASSUME UNCHANGED <<lines, open, emitted>>
    PROVE  /\ Log' = Log /\ Emitted' = Emitted /\ Good' = Good /\ Lost' = Lost
           /\ \A i : RecordAt(i)' = RecordAt(i) /\ Place(i)' = Place(i)
  <1>1. Log' = Log /\ Emitted' = Emitted
    BY DEF Log, Emitted
  <1>2. Good' = Good
    BY <1>1 DEF Good
  <1>3. \A i : RecordAt(i)' = RecordAt(i)
    BY <1>1 DEF RecordAt
  <1>4. \A i : Place(i)' = Place(i)
    BY <1>2 DEF Place
  <1>5. \A r : Alone(r)' <=> Alone(r)
    BY <1>1 DEF Alone
  <1>6. Lost' = Lost
    BY <1>5 DEF Lost
  <1> QED
    BY <1>1, <1>2, <1>3, <1>4, <1>6

(* What a line leaves of the report, by the fields that the output is      *)
(* about.                                                                  *)
Took(stats, after, r) ==
    /\ after.nonMonotonic = IF Restarted(stats, r) THEN stats.nonMonotonic + 1 ELSE stats.nonMonotonic
    /\ after.lastStep = r.step
    /\ after.out = Append(stats.out, Output(stats, r))
PassedOver(stats, after) ==
    /\ after.nonMonotonic = stats.nonMonotonic
    /\ after.lastStep = stats.lastStep /\ after.out = stats.out

Alike(s, t) ==
    /\ s.out = t.out /\ s.renumber = t.renumber
    /\ s.lastStep = t.lastStep /\ s.nonMonotonic = t.nonMonotonic

(* The counters do not touch what the report says of the output.           *)
LEMMA Counted ==
    ASSUME NEW Versions, NEW Ops, NEW stats \in Report(Versions, Ops)
    PROVE  /\ /\ Onward(stats) \in Report(Versions, Ops) /\ Onward(stats).linesRead = stats.linesRead + 1
              /\ Alike(Onward(stats), stats)
           /\ /\ Malformed(stats) \in Report(Versions, Ops) /\ Malformed(stats).linesRead = stats.linesRead
              /\ Alike(Malformed(stats), stats)
           /\ /\ UnknownOp(stats) \in Report(Versions, Ops) /\ UnknownOp(stats).linesRead = stats.linesRead
              /\ Alike(UnknownOp(stats), stats)
  <1>1. /\ Onward(stats) \in Report(Versions, Ops) /\ Onward(stats).linesRead = stats.linesRead + 1
        /\ Alike(Onward(stats), stats)
    BY DEF Report, Alike, Onward
  <1>2. /\ Malformed(stats) \in Report(Versions, Ops) /\ Malformed(stats).linesRead = stats.linesRead
        /\ Alike(Malformed(stats), stats)
    BY DEF Report, Alike, Malformed
  <1>3. /\ UnknownOp(stats) \in Report(Versions, Ops) /\ UnknownOp(stats).linesRead = stats.linesRead
        /\ Alike(UnknownOp(stats), stats)
    BY DEF Report, Alike, UnknownOp
  <1> QED
    BY <1>1, <1>2, <1>3

(* Taking a record leaves the report one of its kind.                      *)
LEMMA Taking ==
    ASSUME NEW Versions, NEW Ops, NEW stats \in Report(Versions, Ops), NEW r \in Rec(Versions, Ops)
    PROVE  /\ Take(stats, r) \in Report(Versions, Ops) /\ Take(stats, r).renumber = stats.renumber
           /\ Take(stats, r).linesRead = stats.linesRead
           /\ Took(stats, Take(stats, r), r) /\ Output(stats, r) \in Rec(Versions, Ops)
  <1> DEFINE n == IF Restarted(stats, r) THEN stats.nonMonotonic + 1 ELSE stats.nonMonotonic
             o == Append(stats.out, Output(stats, r))
             k == r.step
  <1>1. stats \in Report(Versions, Ops) /\ stats.out \in Seq(Rec(Versions, Ops)) /\ stats.nonMonotonic \in Nat
    BY DEF Report
  <1>2. Output(stats, r) \in Rec(Versions, Ops) /\ k \in Nat
    <2>1. Len(stats.out) \in Nat /\ r \in Rec(Versions, Ops)
      BY <1>1, LenProperties
    <2> QED
      BY <2>1 DEF Output, Rec
  <1>3. n \in Nat /\ o \in Seq(Rec(Versions, Ops))
    BY <1>1, <1>2
  <1>4. Take(stats, r) = [stats EXCEPT !.nonMonotonic = n, !.lastStep = k, !.out = o]
    BY DEF Take
  <1> HIDE DEF n, o, k
  <1>5. ASSUME NEW s, s = [stats EXCEPT !.nonMonotonic = n, !.lastStep = k, !.out = o]
        PROVE  s \in Report(Versions, Ops)
    BY ONLY <1>1, <1>2, <1>3, <1>5 DEF Report
  <1>6. ASSUME NEW s, s = [stats EXCEPT !.nonMonotonic = n, !.lastStep = k, !.out = o]
        PROVE  /\ s.linesRead = stats.linesRead /\ s.renumber = stats.renumber
               /\ s.nonMonotonic = n /\ s.lastStep = k /\ s.out = o
    BY ONLY <1>1, <1>6 DEF Report
  <1>7. Took(stats, Take(stats, r), r)
    BY <1>4, <1>6 DEF Took, n, o, k
  <1> QED
    BY <1>2, <1>4, <1>5, <1>6, <1>7

(* One line read: its record is taken, or it is passed over.               *)
LEMMA LineRead ==
    ASSUME NEW Versions, NEW Ops, NEW line \in Seq(Fragment(Versions, Ops)), line # <<>>,
           NEW stats \in Report(Versions, Ops)
    PROVE  LET after == Onward(ParseLine(stats, line))
           IN  /\ after \in Report(Versions, Ops) /\ after.renumber = stats.renumber
               /\ after.linesRead = stats.linesRead + 1
               /\ \/ \E r \in Rec(Versions, Ops) :
                        /\ line = <<Record(r)>> /\ Valid(r) /\ Output(stats, r) \in Rec(Versions, Ops)
                        /\ Took(stats, after, r)
                  \/ /\ ~\E r \in Rec(Versions, Ops) : line = <<Record(r)>> /\ Valid(r)
                     /\ PassedOver(stats, after)
  <1> DEFINE s == ParseLine(stats, line)
  <1>a. line \in Seq(Fragment(Versions, Ops)) /\ line # <<>>
    OBVIOUS
  <1>0. /\ stats \in Report(Versions, Ops) /\ stats.out \in Seq(Rec(Versions, Ops)) /\ stats.nonMonotonic \in Nat
    BY DEF Report
  <1>1. \/ \E r \in Rec(Versions, Ops) :
              /\ line = <<Record(r)>> /\ Valid(r)
              /\ s = Take(stats, r)
        \/ /\ ~\E r \in Rec(Versions, Ops) : line = <<Record(r)>> /\ Valid(r)
           /\ s = stats \/ s = Malformed(stats) \/ s = UnknownOp(stats)
    BY ONLY <1>a, LineParsed, SMTT(20)
  <1> HIDE DEF s
  <1>2. ASSUME s = stats \/ s = Malformed(stats) \/ s = UnknownOp(stats)
        PROVE  s \in Report(Versions, Ops) /\ s.linesRead = stats.linesRead /\ Alike(s, stats)
    <2>1. /\ Malformed(stats) \in Report(Versions, Ops) /\ Malformed(stats).linesRead = stats.linesRead
          /\ Alike(Malformed(stats), stats)
          /\ UnknownOp(stats) \in Report(Versions, Ops) /\ UnknownOp(stats).linesRead = stats.linesRead
          /\ Alike(UnknownOp(stats), stats) /\ Alike(stats, stats)
      BY <1>0, Counted DEF Alike
    <2> QED
      BY <1>0, <1>2, <2>1, Zenon
  <1>3. ASSUME NEW r \in Rec(Versions, Ops),
               s = Take(stats, r)
        PROVE  /\ s \in Report(Versions, Ops) /\ s.renumber = stats.renumber /\ s.linesRead = stats.linesRead
               /\ Took(stats, s, r) /\ Output(stats, r) \in Rec(Versions, Ops)
    BY <1>0, <1>3, Taking
  <1>4. ASSUME s \in Report(Versions, Ops)
        PROVE  /\ Onward(s) \in Report(Versions, Ops) /\ Onward(s).linesRead = s.linesRead + 1
               /\ Alike(Onward(s), s)
    BY <1>4, Counted
  <1>5. CASE /\ ~\E r \in Rec(Versions, Ops) : line = <<Record(r)>> /\ Valid(r)
             /\ s = stats \/ s = Malformed(stats) \/ s = UnknownOp(stats)
    <2>1. PassedOver(stats, Onward(s)) /\ Onward(s).renumber = stats.renumber
      BY <1>2, <1>4, <1>5 DEF Alike, PassedOver
    <2> QED
      BY <1>2, <1>4, <1>5, <2>1 DEF s
  <1>6. CASE \E r \in Rec(Versions, Ops) :
              /\ line = <<Record(r)>> /\ Valid(r)
              /\ s = Take(stats, r)
    <2>1. PICK r \in Rec(Versions, Ops) :
              /\ line = <<Record(r)>> /\ Valid(r)
              /\ s = Take(stats, r)
      BY <1>6
    <2>2. /\ s \in Report(Versions, Ops) /\ s.renumber = stats.renumber /\ s.linesRead = stats.linesRead
          /\ Took(stats, s, r) /\ Output(stats, r) \in Rec(Versions, Ops)
      BY <1>3, <2>1
    <2>3. Took(stats, Onward(s), r) /\ Onward(s).renumber = stats.renumber
      BY <1>4, <2>2 DEF Alike, Took
    <2> QED
      BY <1>4, <2>1, <2>2, <2>3 DEF s
  <1> QED
    BY <1>1, <1>5, <1>6

(* What one line does to the report.                                       *)
LEMMA ReportGrows ==
    ASSUME NEW Versions, NEW Ops, Written(Versions, Ops), report \in Report(Versions, Ops), ParseStream
    PROVE  /\ report' \in Report(Versions, Ops) /\ report'.renumber = report.renumber
           /\ report'.linesRead = report.linesRead + 1 /\ report.linesRead + 1 \in 1 .. Len(Log)
           /\ \/ /\ report.linesRead + 1 \in Good
                 /\ Took(report, report', RecordAt(report.linesRead + 1))
                 /\ Output(report, RecordAt(report.linesRead + 1)) \in Rec(Versions, Ops)
              \/ /\ report.linesRead + 1 \notin Good
                 /\ PassedOver(report, report')
  <1> DEFINE m == report.linesRead
             line == Log[m + 1]
  <1>1. m \in Nat /\ Len(Log) \in Nat /\ m + 1 \in 1 .. Len(Log)
    BY Logged, LenProperties DEF Report, ParseStream, LinesToRead, Written
  <1>2. report' = Onward(ParseLine(report, line))
    BY DEF ParseStream, Onward
  <1>3. line \in Seq(Fragment(Versions, Ops)) /\ line # <<>>
    <2>1. Log \in Seq(Seq(Fragment(Versions, Ops)) \ {<<>>})
      BY Logged DEF Written
    <2>2. line \in Seq(Fragment(Versions, Ops)) \ {<<>>}
      BY <1>1, <2>1, ElementOfSeq
    <2> QED
      BY <2>2
  <1>4. On(line) \subseteq Emitted
    BY <1>1, Logged DEF Written
  <1>5. /\ report' \in Report(Versions, Ops) /\ report'.renumber = report.renumber
        /\ report'.linesRead = report.linesRead + 1
        /\ \/ \E r \in Rec(Versions, Ops) :
                 /\ line = <<Record(r)>> /\ Valid(r) /\ Output(report, r) \in Rec(Versions, Ops)
                 /\ Took(report, report', r)
           \/ /\ ~\E r \in Rec(Versions, Ops) : line = <<Record(r)>> /\ Valid(r)
              /\ PassedOver(report, report')
    <2> HIDE DEF line
    <2> QED
      BY <1>2, <1>3, LineRead
  <1>6. CASE \E r \in Rec(Versions, Ops) :
                 /\ line = <<Record(r)>> /\ Valid(r) /\ Output(report, r) \in Rec(Versions, Ops)
                 /\ Took(report, report', r)
    <2>1. PICK r \in Rec(Versions, Ops) :
                 /\ line = <<Record(r)>> /\ Valid(r) /\ Output(report, r) \in Rec(Versions, Ops)
                 /\ Took(report, report', r)
      BY <1>6
    <2>2. r \in Emitted /\ RecordAt(m + 1) = r
      BY <1>4, <2>1, OneRecord DEF RecordAt
    <2>3. m + 1 \in Good
      BY <1>1, <2>1, <2>2 DEF Good
    <2> QED
      BY <1>1, <1>5, <2>1, <2>2, <2>3
  <1>7. CASE ~\E r \in Rec(Versions, Ops) : line = <<Record(r)>> /\ Valid(r)
    <2>1. \A r \in Emitted : r \in Rec(Versions, Ops)
      BY EmittedTyped DEF Written
    <2>2. m + 1 \notin Good
      BY <1>7, <2>1 DEF Good
    <2> QED
      BY <1>1, <1>5, <1>7, <2>2
  <1> QED
    BY <1>5, <1>6, <1>7

(* One more line is read.                                                  *)
Reading(Versions, Ops) ==
    /\ Written(Versions, Ops) /\ Parsing(Versions, Ops)
    /\ UNCHANGED <<lines, open, emitted>>
    /\ report' \in Report(Versions, Ops) /\ report'.renumber = report.renumber
    /\ report'.linesRead = report.linesRead + 1 /\ report.linesRead + 1 \in 1 .. Len(Log)

(* The good lines read so far, and the place of the next one.              *)
LEMMA ReadGrows ==
    ASSUME NEW Versions, NEW Ops, Reading(Versions, Ops)
    PROVE  LET m == report.linesRead
           IN  /\ m \in Nat /\ Good \in SUBSET Nat /\ IsFiniteSet(Good)
               /\ m + 1 \in Good => /\ Read' = Read \cup {m + 1} /\ m + 1 \notin Read
                                    /\ Cardinality(Read') = Cardinality(Read) + 1
                                    /\ Place(m + 1) = Cardinality(Read) + 1
               /\ m + 1 \notin Good => Read' = Read
               /\ \A i \in Read : i \in Good /\ i < m + 1 /\ Place(i) \in 1 .. Cardinality(Read)
               /\ Cardinality(Read) \in Nat
  <1> DEFINE m == report.linesRead
  <1>1. m \in Nat /\ report'.linesRead = m + 1
    BY DEF Reading, Parsing, Report
  <1>2. Good \in SUBSET (1 .. Len(Log)) /\ IsFiniteSet(Good) /\ Len(Log) \in Nat
    BY GoodOrdered DEF Reading, Written
  <1>3. Good \in SUBSET Nat /\ \A i \in Good : i \in Nat
    BY <1>2
  <1>4. Good' = Good
    BY LogStays DEF Reading
  <1>5. Read = {j \in Good : j <= m} /\ Read' = {j \in Good : j <= m + 1}
    BY <1>1, <1>4 DEF Read
  <1> HIDE DEF m
  <1>6. /\ m + 1 \in Good => {j \in Good : j <= m + 1} = {j \in Good : j <= m} \cup {m + 1}
        /\ m + 1 \in Good => Cardinality({j \in Good : j <= m + 1}) = Cardinality({j \in Good : j <= m}) + 1
        /\ m + 1 \notin Good => {j \in Good : j <= m + 1} = {j \in Good : j <= m}
        /\ \A i \in Good : i <= m => Cardinality({j \in Good : j <= i}) \in 1 .. Cardinality({j \in Good : j <= m})
        /\ Cardinality({j \in Good : j <= m}) \in Nat
    BY <1>1, <1>2, <1>3, Ranks
  <1>7. /\ Place(m + 1) = Cardinality({j \in Good : j <= m + 1})
        /\ \A i : Place(i) = Cardinality({j \in Good : j <= i})
    BY DEF Place
  <1>8. m + 1 \in Good => /\ Read' = Read \cup {m + 1}
                          /\ Cardinality(Read') = Cardinality(Read) + 1
                          /\ Place(m + 1) = Cardinality(Read) + 1
    BY <1>5, <1>6, <1>7
  <1>9. (m + 1 \notin Good => Read' = Read) /\ Cardinality(Read) \in Nat
    BY <1>5, <1>6
  <1>10. m + 1 \notin Read /\ \A i \in Read : i \in Good /\ i <= m /\ i < m + 1
    BY <1>1, <1>3, <1>5
  <1>11. \A i \in Read : Place(i) \in 1 .. Cardinality(Read)
    BY <1>5, <1>6, <1>7, <1>10
  <1> QED
    BY <1>1, <1>2, <1>3, <1>8, <1>9, <1>10, <1>11 DEF m

(* A good line adds its record to the output, any other leaves it.         *)
LEMMA Exporting ==
    ASSUME NEW Versions, NEW Ops, Reading(Versions, Ops),
           \/ /\ report.linesRead + 1 \in Good
              /\ Took(report, report', RecordAt(report.linesRead + 1))
              /\ Output(report, RecordAt(report.linesRead + 1)) \in Rec(Versions, Ops)
           \/ /\ report.linesRead + 1 \notin Good
              /\ PassedOver(report, report')
    PROVE  /\ Exported'
           /\ report.linesRead + 1 \in Good =>
                 Generations' = Generations \cup {RecordAt(report.linesRead + 1).generation}
           /\ report.linesRead + 1 \notin Good => Generations' = Generations
  <1> DEFINE m == report.linesRead
             n == Len(report.out)
             r == RecordAt(m + 1)
             out == report.out
             Shown(i) == IF report.renumber THEN [RecordAt(i) EXCEPT !.step = Place(i) - 1] ELSE RecordAt(i)
  <1>1. /\ m \in Nat
        /\ m + 1 \in Good => /\ Read' = Read \cup {m + 1}
                             /\ Cardinality(Read') = Cardinality(Read) + 1
                             /\ Place(m + 1) = Cardinality(Read) + 1
        /\ m + 1 \notin Good => Read' = Read
        /\ \A i \in Read : Place(i) \in 1 .. Cardinality(Read)
        /\ Cardinality(Read) \in Nat
    BY ReadGrows
  <1>2. /\ n = Cardinality(Read) /\ \A i \in Read : out[Place(i)] = Shown(i)
        /\ Generations = {RecordAt(i).generation : i \in Read}
    BY DEF Reading, Parsing, Exported
  <1>3. (\A i : RecordAt(i)' = RecordAt(i) /\ Place(i)' = Place(i)) /\ report'.renumber = report.renumber
    BY LogStays DEF Reading
  <1>4. out \in Seq(Rec(Versions, Ops)) /\ DOMAIN out = 1 .. n /\ n \in Nat
    BY LenProperties DEF Reading, Parsing, Report
  <1>5. CASE m + 1 \notin Good /\ PassedOver(report, report')
    <2>1. report'.out = report.out /\ Read' = Read
      BY <1>1, <1>5 DEF PassedOver
    <2>2. Generations' = Generations
      BY <2>1 DEF Generations
    <2>3. {RecordAt(i)'.generation : i \in Read'} = {RecordAt(i).generation : i \in Read}
      BY <1>3, <2>1
    <2>4. \A i \in Read' : report'.out[Place(i)'] = IF report'.renumber
                                              THEN [RecordAt(i)' EXCEPT !.step = Place(i)' - 1]
                                              ELSE RecordAt(i)'
      BY <1>2, <1>3, <2>1
    <2>5. Exported'
      BY <1>2, <2>1, <2>2, <2>3, <2>4 DEF Exported
    <2> QED
      BY <1>5, <2>2, <2>5
  <1>6. CASE m + 1 \in Good /\ Took(report, report', r) /\ Output(report, r) \in Rec(Versions, Ops)
    <2>1. /\ report'.out = Append(out, Output(report, r)) /\ Read' = Read \cup {m + 1}
          /\ Cardinality(Read') = n + 1 /\ Place(m + 1) = n + 1
          /\ \A i \in Read : Place(i) \in 1 .. n
      BY <1>1, <1>2, <1>6 DEF Took
    <2>2. /\ Len(report'.out) = n + 1 /\ DOMAIN report'.out = 1 .. n + 1
          /\ \A k \in 1 .. n : report'.out[k] = out[k]
          /\ report'.out[n + 1] = Output(report, r)
      BY <1>4, <1>6, <2>1
    <2>3. r \in Rec(Versions, Ops)
      BY <1>6, GoodOrdered DEF Reading, Written
    <2>4. Output(report, r) = Shown(m + 1) /\ Output(report, r).generation = r.generation
      <3>1. n + 1 - 1 = n
        BY <1>4
      <3>2. Output(report, r) = Shown(m + 1)
        BY <2>1, <3>1 DEF Output
      <3>3. Output(report, r).generation = r.generation
        BY <1>4, <2>3 DEF Output, Rec
      <3> QED
        BY <3>2, <3>3
    <2> HIDE DEF m, r, n
    <2>5. \A i \in Read' : report'.out[Place(i)] = Shown(i)
      BY <1>2, <2>1, <2>2, <2>4
    <2>6. 1 .. n + 1 = (1 .. n) \cup {n + 1}
      BY <1>4 DEF n
    <2>7. Generations' = Generations \cup {r.generation}
      <3>1. Generations = {out[k].generation : k \in 1 .. n}
        BY <1>4 DEF Generations
      <3>2. Generations' = {report'.out[k].generation : k \in (1 .. n) \cup {n + 1}}
        BY <2>2, <2>6 DEF Generations
      <3> QED
        BY <2>2, <2>4, <3>1, <3>2
    <2>8. {RecordAt(i)'.generation : i \in Read'} = {RecordAt(i).generation : i \in Read} \cup {r.generation}
      BY <1>3, <2>1 DEF r
    <2>9. \A i \in Read' : report'.out[Place(i)'] = IF report'.renumber
                                              THEN [RecordAt(i)' EXCEPT !.step = Place(i)' - 1]
                                              ELSE RecordAt(i)'
      BY <1>3, <2>5
    <2>10. Exported'
      BY <1>2, <2>1, <2>2, <2>7, <2>8, <2>9 DEF Exported
    <2> QED
      BY <1>6, <2>7, <2>10 DEF m, r
  <1> QED
    BY <1>5, <1>6

(* If no record was lost, a record whose step is behind that of the last   *)
(* one read is of a generation the script has met.                         *)
LEMMA SameGeneration ==
    ASSUME NEW Versions, NEW Ops, Reading(Versions, Ops), report.linesRead + 1 \in Good,
           Lost = {}, RecordAt(report.linesRead + 1).step # 0
    PROVE  RecordAt(report.linesRead + 1).generation \in Generations
  <1> DEFINE m == report.linesRead
             r == RecordAt(m + 1)
  <1>1. /\ \A i \in Good : /\ RecordAt(i) \in Emitted
                           /\ Valid(RecordAt(i)) /\ Log[i] = <<Record(RecordAt(i))>>
                           /\ RecordAt(i).generation \in Nat /\ RecordAt(i).step \in Nat
        /\ \A i, j \in Good : i < j => Before(RecordAt(i), RecordAt(j))
        /\ Good \in SUBSET (1 .. Len(Log)) /\ Len(Log) \in Nat
    BY GoodOrdered DEF Reading, Written
  <1>2. PICK s \in Emitted : s.generation = r.generation /\ First(s)
    BY <1>1 DEF Reading, Written, Emitting
  <1>3. PICK l \in 1 .. Len(Log) : Log[l] = <<Record(s)>>
    <2>1. \A i \in DOMAIN emitted : Alone(emitted[i])
      BY DEF Lost
    <2>2. Log \in Seq(Seq(Fragment(Versions, Ops)) \ {<<>>})
      BY Logged DEF Reading, Written
    <2>3. DOMAIN Log = 1 .. Len(Log)
      BY <2>2
    <2> QED
      BY <2>1, <2>3 DEF Alone, Emitted
  <1>4. Valid(s)
    <2>1. s.version = build.version /\ r.version = build.version /\ Valid(r)
      BY <1>1 DEF Reading, Written, Emitting
    <2>2. s.op \in OpNames
      BY <1>2 DEF First, Reading, Written, Counting, Kernel
    <2> QED
      BY <2>1, <2>2 DEF Valid, ValidateRecord
  <1>5. l \in Good /\ RecordAt(l) = s
    <2>1. RecordAt(l) = s
      BY <1>3, Fragments DEF RecordAt
    <2> QED
      BY <1>3, <1>4, <2>1 DEF Good
  <1>6. m \in Nat /\ s.step = 0
    BY <1>2, ReadGrows DEF First
  <1> HIDE DEF m, r
  <1>7. ~(m + 1 <= l)
    <2>1. l # m + 1
      BY <1>5, <1>6 DEF r, m
    <2>2. ~(m + 1 < l)
      <3>1. m + 1 < l => Before(r, s)
        BY <1>1, <1>5 DEF r, m
      <3>2. r.generation \in Nat /\ r.step \in Nat
        BY <1>1 DEF r, m
      <3> QED
        BY <1>2, <1>6, <3>1, <3>2 DEF Before
    <2> QED
      BY <1>6, <2>1, <2>2
  <1>8. l \in Read
    BY <1>5, <1>6, <1>7 DEF Read, m
  <1>9. s.generation \in Generations
    BY <1>5, <1>8 DEF Reading, Parsing, Exported
  <1> QED
    BY <1>2, <1>9 DEF r, m

(* A good line whose step goes back adds a generation and a restart.       *)
LEMMA Warning ==
    ASSUME NEW Versions, NEW Ops, Reading(Versions, Ops), Exported',
           \/ /\ report.linesRead + 1 \in Good
              /\ Took(report, report', RecordAt(report.linesRead + 1))
              /\ Generations' = Generations \cup {RecordAt(report.linesRead + 1).generation}
           \/ /\ report.linesRead + 1 \notin Good
              /\ PassedOver(report, report')
              /\ Generations' = Generations
    PROVE  Warned'
  <1> DEFINE m == report.linesRead
             r == RecordAt(m + 1)
             restarts == report.nonMonotonic
             g == Cardinality(Generations)
  <1>1. /\ m \in Nat
        /\ m + 1 \in Good => Read' = Read \cup {m + 1}
        /\ m + 1 \notin Good => Read' = Read
        /\ \A i \in Read : i \in Good /\ i < m + 1
    BY ReadGrows
  <1>2. (\A i : RecordAt(i)' = RecordAt(i)) /\ Lost' = Lost
    BY LogStays DEF Reading
  <1>3. Warned /\ restarts \in Nat /\ Generations = {RecordAt(i).generation : i \in Read}
    BY DEF Reading, Parsing, Exported, Report
  <1>4. CASE m + 1 \notin Good /\ PassedOver(report, report') /\ Generations' = Generations
    <2>1. /\ report'.nonMonotonic = restarts /\ report'.lastStep = report.lastStep /\ Read' = Read
      BY <1>1, <1>4 DEF PassedOver
    <2> QED
      BY <1>2, <1>3, <1>4, <2>1 DEF Warned
  <1>5. CASE m + 1 \in Good /\ Took(report, report', r) /\ Generations' = Generations \cup {r.generation}
    <2>1. /\ r.generation \in Nat /\ r.step \in Nat
          /\ \A i \in Read : /\ RecordAt(i).generation \in Nat /\ RecordAt(i).step \in Nat
                             /\ Before(RecordAt(i), r)
          /\ \A i, j \in Read : j < i => Before(RecordAt(j), RecordAt(i))
          /\ \A i \in Read : i \in Nat
      <3>1. /\ \A i \in Good : RecordAt(i).generation \in Nat /\ RecordAt(i).step \in Nat
            /\ \A i, j \in Good : i < j => Before(RecordAt(i), RecordAt(j))
            /\ Good \in SUBSET (1 .. Len(Log)) /\ Len(Log) \in Nat
        BY GoodOrdered DEF Reading, Written
      <3>2. m + 1 \in Good /\ \A i \in Read : i \in Good /\ i < m + 1
        BY <1>1, <1>5
      <3> HIDE DEF m
      <3>3. r.generation \in Nat /\ r.step \in Nat
        BY ONLY <3>1, <3>2
      <3>5. \A i \in Good : i \in Nat
        BY <3>1
      <3>4. \A i \in Read : Before(RecordAt(i), r)
        BY <3>1, <3>2
      <3> HIDE DEF r
      <3> QED
        BY <3>1, <3>2, <3>3, <3>4, <3>5
    <2>2. report'.nonMonotonic = (IF Restarted(report, r) THEN restarts + 1 ELSE restarts) /\ report'.lastStep = r.step
      BY <1>5 DEF Took
    <2>3. IsFiniteSet(Generations) /\ g \in Nat
      BY <1>3, FS_CardinalityType DEF Warned
    <2>4. IsFiniteSet(Generations') /\ Cardinality(Generations') = (IF r.generation \in Generations THEN g ELSE g + 1)
      BY <1>5, <2>3, FS_AddElement
    <2>5. /\ \E i \in Read' : /\ \A j \in Read' : j <= i
                             /\ report'.lastStep = RecordAt(i)'.step
          /\ Read' # {}
      <3> HIDE DEF m
      <3>1. \A j \in Read : j <= m + 1
        BY <1>1, <2>1
      <3>2. m + 1 <= m + 1
        BY <1>1
      <3>3. report'.lastStep = RecordAt(m + 1).step
        BY <2>2
      <3>4. Read' = Read \cup {m + 1}
        BY <1>1, <1>5
      <3> QED
        BY <1>2, <3>1, <3>2, <3>3, <3>4
    <2>6. CASE Read = {}
      <3>1. ~Restarted(report, r) /\ restarts = 0
        BY <1>3, <2>6 DEF Warned, Restarted
      <3>2. Generations = {} /\ Cardinality(Generations') = 1
        BY <1>3, <2>3, <2>4, <2>6, FS_EmptySet
      <3>3. report'.nonMonotonic = 0
        BY <2>2, <3>1
      <3> QED
        BY <2>4, <2>5, <3>2, <3>3 DEF Warned
    <2>7. CASE Read # {}
      <3>1. PICK i \in Read : (\A j \in Read : j <= i) /\ report.lastStep = RecordAt(i).step
        BY <1>3, <2>7 DEF Warned
      <3>2. restarts <= g - 1 /\ (Lost = {} => restarts = g - 1)
        BY <1>3, <2>7 DEF Warned
      <3>3. CASE Restarted(report, r)
        <4>1. r.step <= RecordAt(i).step
          BY <3>1, <3>3 DEF Restarted
        <4>2. RecordAt(i).generation < r.generation
          BY <2>1, <4>1 DEF Before
        <4>3. \A j \in Read : RecordAt(j).generation # r.generation
          BY <2>1, <3>1, <4>2 DEF Before
        <4>4. r.generation \notin Generations
          BY <1>3, <4>3
        <4>5. report'.nonMonotonic = restarts + 1 /\ Cardinality(Generations') = g + 1
          BY <2>2, <2>4, <3>3, <4>4
        <4> HIDE DEF g, restarts
        <4>6. /\ report'.nonMonotonic <= Cardinality(Generations') - 1
              /\ Lost' = {} => report'.nonMonotonic = Cardinality(Generations') - 1
          BY <1>2, <1>3, <2>3, <3>2, <4>5
        <4> QED
          BY <2>4, <2>5, <4>6 DEF Warned
      <3>4. CASE ~Restarted(report, r)
        <4>1. r.step # 0
          BY <2>1, <3>1, <3>4 DEF Restarted
        <4>2. Lost = {} => r.generation \in Generations
          BY <1>5, <4>1, SameGeneration
        <4>3. report'.nonMonotonic = restarts
          BY <2>2, <3>4
        <4> HIDE DEF g, restarts
        <4>4. /\ report'.nonMonotonic <= Cardinality(Generations') - 1
              /\ Lost' = {} => report'.nonMonotonic = Cardinality(Generations') - 1
          BY <1>2, <1>3, <2>3, <2>4, <3>2, <4>2, <4>3
        <4> QED
          BY <2>4, <2>5, <4>4 DEF Warned
      <3> QED
        BY <3>3, <3>4
    <2> QED
      BY <2>6, <2>7
  <1> QED
    BY <1>4, <1>5

TraceInv(Versions, Ops) ==
    /\ Written(Versions, Ops)
    /\ phase \in {"parsing", "parsed"} => Parsing(Versions, Ops)

(* Written speaks of the kernel and its log only.                          *)
LEMMA WrittenStays ==
    ASSUME NEW Versions, NEW Ops, Written(Versions, Ops),
           UNCHANGED <<build, lines, open, generation, passes, opAt, traceStep, emitted>>,
           phase' = "pass" => phase = "pass"
    PROVE  Written(Versions, Ops)'
  <1>1. Counting(Versions, Ops)'
    BY DEF Written, Counting
  <1>2. Emitting(Versions, Ops)'
    BY EmittingStays DEF Written
  <1>3. Logging(Versions, Ops)'
    BY PrintingLogs DEF Written
  <1> QED
    BY <1>1, <1>2, <1>3 DEF Written

(* What Parsing says of the report it says of any report that tells the    *)
(* same of the same log.                                                   *)
LEMMA ParsingStays ==
    ASSUME NEW Versions, NEW Ops, Parsing(Versions, Ops), UNCHANGED <<lines, open, emitted>>,
           report' \in Report(Versions, Ops), report'.linesRead = report.linesRead, Alike(report', report),
           phase' = "parsed" => report.linesRead = Len(Log)
    PROVE  Parsing(Versions, Ops)'
  <1>1. /\ Log' = Log /\ Good' = Good /\ Lost' = Lost
        /\ \A i : RecordAt(i)' = RecordAt(i) /\ Place(i)' = Place(i)
    BY LogStays
  <1>2. Read' = Read
    BY <1>1 DEF Read
  <1>3. Generations' = Generations /\ report'.out = report.out /\ report'.renumber = report.renumber
        /\ report'.lastStep = report.lastStep /\ report'.nonMonotonic = report.nonMonotonic
    BY DEF Generations, Alike
  <1>4. Exported'
    <2>1. {RecordAt(i)'.generation : i \in Read'} = {RecordAt(i).generation : i \in Read}
      BY <1>1, <1>2
    <2> QED
      BY <1>1, <1>2, <1>3, <2>1 DEF Exported, Parsing
  <1>5. Warned'
    BY <1>1, <1>2, <1>3 DEF Warned, Parsing
  <1> QED
    BY <1>1, <1>4, <1>5 DEF Parsing

(* An empty report agrees with no lines read.                              *)
LEMMA MainParses ==
    ASSUME NEW Versions, NEW Ops, Written(Versions, Ops), Main
    PROVE  TraceInv(Versions, Ops)'
  <1>1. Written(Versions, Ops)'
    BY WrittenStays DEF Main
  <1>2. /\ report'.linesRead = 0 /\ report'.out = <<>> /\ report'.lastStep = -1 /\ report'.nonMonotonic = 0
        /\ report' \in Report(Versions, Ops)
    <2>1. PICK renumber \in BOOLEAN : report' = [NoReport EXCEPT !.renumber = renumber]
      BY DEF Main
    <2>2. <<>> \in Seq(Rec(Versions, Ops))
      BY EmptySeq
    <2>3. report' = [linesRead |-> 0, out |-> <<>>, malformed |-> 0, unknownOp |-> 0,
                     nonMonotonic |-> 0, lastStep |-> -1, strict |-> FALSE,
                     renumber |-> renumber, exit |-> -1]
      BY <2>1 DEF NoReport
    <2> QED
      BY ONLY <2>2, <2>3, renumber \in BOOLEAN DEF Report
  <1>3. Log' = Log /\ Good' = Good
    BY LogStays DEF Main
  <1>4. Good \in SUBSET (1 .. Len(Log)) /\ Len(Log) \in Nat
    BY GoodOrdered DEF Written
  <1>5. Read' = {} /\ Generations' = {}
    <2>1. Read' = {}
      <3>1. \A i \in Good : ~(i <= 0)
        BY <1>4
      <3> QED
        BY <1>2, <1>3, <3>1 DEF Read
    <2>2. DOMAIN <<>> = {}
      OBVIOUS
    <2>3. Generations' = {}
      BY <1>2, <2>2 DEF Generations
    <2> QED
      BY <2>1, <2>3
  <1>6. Exported'
    <2>1. Len(<<>>) = 0 /\ Cardinality({}) = 0
      BY FS_EmptySet
    <2> QED
      BY <1>2, <1>5, <2>1 DEF Exported
  <1>7. Warned'
    BY <1>2, <1>5, FS_EmptySet DEF Warned
  <1>8. phase' = "parsing"
    BY DEF Main
  <1> QED
    BY <1>1, <1>2, <1>3, <1>4, <1>6, <1>7, <1>8 DEF TraceInv, Parsing

(* Reading a line keeps report and log in agreement.                       *)
LEMMA ParseStreamParses ==
    ASSUME NEW Versions, NEW Ops, TraceInv(Versions, Ops), ParseStream
    PROVE  TraceInv(Versions, Ops)'
  <1>1. Written(Versions, Ops) /\ Parsing(Versions, Ops) /\ phase' = "parsing" /\ UNCHANGED <<lines, open, emitted>>
    BY DEF TraceInv, ParseStream
  <1>2. Written(Versions, Ops)'
    BY <1>1, WrittenStays DEF ParseStream
  <1>3. /\ report' \in Report(Versions, Ops) /\ report'.renumber = report.renumber
        /\ report'.linesRead = report.linesRead + 1 /\ report.linesRead + 1 \in 1 .. Len(Log)
        /\ \/ /\ report.linesRead + 1 \in Good
              /\ Took(report, report', RecordAt(report.linesRead + 1))
              /\ Output(report, RecordAt(report.linesRead + 1)) \in Rec(Versions, Ops)
           \/ /\ report.linesRead + 1 \notin Good
              /\ PassedOver(report, report')
    BY <1>1, ReportGrows DEF Parsing
  <1>4. Reading(Versions, Ops)
    BY <1>1, <1>3 DEF Reading
  <1>5. /\ Exported'
        /\ report.linesRead + 1 \in Good =>
                 Generations' = Generations \cup {RecordAt(report.linesRead + 1).generation}
        /\ report.linesRead + 1 \notin Good => Generations' = Generations
    BY <1>3, <1>4, Exporting
  <1>6. Warned'
    BY <1>3, <1>4, <1>5, Warning
  <1>7. Log' = Log
    BY <1>1, LogStays
  <1>8. report'.linesRead <= Len(Log)
    BY <1>3
  <1> QED
    BY <1>1, <1>2, <1>3, <1>5, <1>6, <1>7, <1>8 DEF TraceInv, Parsing

(* So does the exit, which changes flag and code alone.                    *)
LEMMA ExitParses ==
    ASSUME NEW Versions, NEW Ops, TraceInv(Versions, Ops), Exit
    PROVE  TraceInv(Versions, Ops)'
  <1>1. /\ Written(Versions, Ops) /\ Parsing(Versions, Ops) /\ phase = "parsing" /\ phase' = "parsed"
        /\ UNCHANGED <<build, lines, open, generation, passes, opAt, traceStep, emitted>>
        /\ report.linesRead = Len(Log)
    BY DEF TraceInv, Exit, LinesToRead
  <1>2. Written(Versions, Ops)'
    BY <1>1, WrittenStays
  <1>3. report' \in Report(Versions, Ops) /\ report'.linesRead = report.linesRead /\ Alike(report', report)
    <2>1. PICK strict \in BOOLEAN :
              report' = [[report EXCEPT !.strict = strict] EXCEPT
                            !.exit = ExitCode([report EXCEPT !.strict = strict])]
      BY DEF Exit
    <2>2. \A s : ExitCode(s) \in Int
      BY DEF ExitCode
    <2> DEFINE s == [report EXCEPT !.strict = strict]
    <2>3. report \in Report(Versions, Ops)
      BY <1>1 DEF Parsing
    <2>4. s \in Report(Versions, Ops) /\ s.linesRead = report.linesRead /\ Alike(s, report)
      BY <2>3 DEF Report, Alike
    <2> DEFINE e == ExitCode(s)
    <2>5. report' = [s EXCEPT !.exit = e] /\ e \in Int
      BY <2>1, <2>2
    <2> HIDE DEF e, s
    <2>6. report' \in Report(Versions, Ops) /\ report'.linesRead = s.linesRead /\ Alike(report', s)
      BY ONLY <2>4, <2>5 DEF Report, Alike
    <2> QED
      BY <2>4, <2>6 DEF Alike
  <1>4. Parsing(Versions, Ops)'
    BY <1>1, <1>3, ParsingStays
  <1> QED
    BY <1>2, <1>4 DEF TraceInv

(* The inductive invariant: log and records, and report and log, agree.    *)
LEMMA TraceInvInductive ==
    ASSUME NEW Versions, NEW Ops, Builds \subseteq Kernel(Versions, Ops)
    PROVE  TraceSpec => []TraceInv(Versions, Ops)
  <1>1. TraceInit => TraceInv(Versions, Ops)
    <2> SUFFICES ASSUME TraceInit PROVE TraceInv(Versions, Ops)
      OBVIOUS
    <2>1. /\ build \in Kernel(Versions, Ops) /\ lines = <<>> /\ open = <<>> /\ phase = "shell" /\ generation = 0
          /\ passes = 0 /\ opAt = 1 /\ traceStep = 0 /\ emitted = <<>>
      BY DEF TraceInit, TraceStart
    <2>2. Counting(Versions, Ops)
      <3>1. Len(build.ops) \in Nat
        BY <2>1, LenProperties DEF Kernel
      <3> QED
        BY <2>1, <3>1 DEF Counting
    <2>3. DOMAIN <<>> = {} /\ Len(<<>>) = 0 /\ \A S : <<>> \in Seq(S)
      BY EmptySeq
    <2>4. Emitting(Versions, Ops) /\ Emitted = {}
      BY <2>1, <2>3 DEF Emitting, Emitted
    <2>5. Logging(Versions, Ops)
      <3>1. On(<<>>) = {}
        BY <2>3 DEF On
      <3> QED
        BY <2>1, <2>3, <2>4, <3>1 DEF Logging
    <2> QED
      BY <2>1, <2>2, <2>4, <2>5 DEF TraceInv, Written
  <1>2. TraceInv(Versions, Ops) /\ [TraceNext]_traceVars => TraceInv(Versions, Ops)'
    <2> SUFFICES ASSUME TraceInv(Versions, Ops), [TraceNext]_traceVars
                 PROVE  TraceInv(Versions, Ops)'
      OBVIOUS
    <2>1. Written(Versions, Ops)
      BY DEF TraceInv
    <2>2. CASE Emit
      BY <2>1, <2>2, EmitWrites DEF TraceInv, Emit
    <2>3. CASE Crash
      BY <2>1, <2>3, CrashWrites DEF TraceInv, Crash
    <2>4. CASE Ask \/ SkipLayer \/ FailPass \/ NextPass \/ EndGeneration \/ Boot
      <3>1. phase' \in {"pass", "shell"}
        BY <2>4 DEF Ask, SkipLayer, FailPass, NextPass, EndGeneration, Boot
      <3> QED
        BY <2>1, <2>4, <3>1, QuietWrites DEF TraceInv
    <2>5. CASE Main
      BY <2>1, <2>5, MainParses
    <2>6. CASE ParseStream
      BY <2>6, ParseStreamParses
    <2>7. CASE Exit
      BY <2>7, ExitParses
    <2>8. CASE UNCHANGED traceVars
      <3>1. /\ UNCHANGED <<build, lines, open, generation, passes, opAt, traceStep, emitted>>
            /\ phase' = phase /\ report' = report
        BY <2>8 DEF traceVars
      <3>2. Written(Versions, Ops)'
        BY <2>1, <3>1, WrittenStays
      <3>3. ASSUME phase \in {"parsing", "parsed"}
            PROVE  Parsing(Versions, Ops)'
        <4>1. Parsing(Versions, Ops)
          BY <3>3 DEF TraceInv
        <4>2. Alike(report', report) /\ report' \in Report(Versions, Ops)
              /\ (phase' = "parsed" => report.linesRead = Len(Log))
          BY <3>1, <4>1 DEF Alike, Parsing
        <4> QED
          BY <3>1, <4>1, <4>2, ParsingStays
      <3> QED
        BY <3>1, <3>2, <3>3 DEF TraceInv
    <2> QED
      BY <2>2, <2>3, <2>4, <2>5, <2>6, <2>7, <2>8, Zenon DEF TraceNext
  <1> QED
    BY <1>1, <1>2, PTL DEF TraceSpec

(* A bijection of two sets of numbers that keeps their order keeps ranks.  *)
LEMMA RanksKept ==
    ASSUME NEW S, NEW T, IsFiniteSet(S), NEW h \in [S -> T],
           \A i, j \in S : (h[i] <= h[j]) <=> (i <= j),
           \A i, j \in S : h[i] = h[j] => i = j,
           \A t \in T : \E i \in S : h[i] = t
    PROVE  /\ Cardinality(S) = Cardinality(T)
           /\ \A i \in S : Cardinality({j \in S : j <= i}) = Cardinality({t \in T : t <= h[i]})
  <1>1. ASSUME NEW X \in SUBSET S, NEW Y \in SUBSET T,
               \A i \in S : i \in X <=> h[i] \in Y
        PROVE  Cardinality(X) = Cardinality(Y)
    <2> DEFINE f == [i \in X |-> h[i]]
    <2>1. f \in [X -> Y]
      BY <1>1
    <2>2. \A i, j \in X : f[i] = f[j] => i = j
      OBVIOUS
    <2>3. \A t \in Y : \E i \in X : f[i] = t
      BY <1>1
    <2> HIDE DEF f
    <2>4. f \in Injection(X, Y) /\ f \in Surjection(X, Y)
      BY <2>1, <2>2, <2>3 DEF Injection, Surjection, IsInjective
    <2>5. IsFiniteSet(X)
      BY FS_Subset
    <2>6. ExistsBijection(X, Y)
      BY <2>4 DEF ExistsBijection, Bijection
    <2> QED
      BY <2>5, <2>6, FS_Bijection
  <1>2. Cardinality(S) = Cardinality(T)
    BY <1>1
  <1>3. ASSUME NEW i \in S
        PROVE  Cardinality({j \in S : j <= i}) = Cardinality({t \in T : t <= h[i]})
    <2> DEFINE X == {j \in S : j <= i}
               Y == {t \in T : t <= h[i]}
    <2>1. X \in SUBSET S /\ Y \in SUBSET T /\ \A j \in S : j \in X <=> h[j] \in Y
      BY <1>3
    <2> HIDE DEF X, Y
    <2>2. Cardinality(X) = Cardinality(Y)
      BY <1>1, <2>1
    <2> QED
      BY <2>2 DEF X, Y
  <1> QED
    BY <1>2, <1>3

(* The good lines hold the kept records, in the order of emission.         *)
LEMMA KeptRanks ==
    ASSUME NEW Versions, NEW Ops, Written(Versions, Ops)
    PROVE  /\ Cardinality(Kept) = Cardinality(Good)
           /\ \A i \in Kept : \E l \in Good : RecordAt(l) = emitted[i] /\ Place(l) = Rank(i)
  <1> DEFINE h == [i \in Kept |-> CHOOSE l \in Good : RecordAt(l) = emitted[i]]
  <1>1. /\ \A i \in Good : /\ RecordAt(i) \in Emitted /\ Valid(RecordAt(i))
                           /\ Log[i] = <<Record(RecordAt(i))>>
                           /\ RecordAt(i).generation \in Nat /\ RecordAt(i).step \in Nat
        /\ \A i, j \in Good : i < j => Before(RecordAt(i), RecordAt(j))
        /\ Good \in SUBSET (1 .. Len(Log)) /\ IsFiniteSet(Good) /\ Len(Log) \in Nat
    BY GoodOrdered DEF Written
  <1>2. \A i \in Good : i \in Int
    BY <1>1
  <1>3. /\ DOMAIN emitted = 1 .. Len(emitted) /\ Len(emitted) \in Nat
        /\ \A i, j \in DOMAIN emitted : i < j => Before(emitted[i], emitted[j])
    BY LenProperties DEF Written, Emitting
  <1>4. \A i \in Kept : i \in DOMAIN emitted /\ i \in Int /\ Alone(emitted[i]) /\ Valid(emitted[i])
    BY <1>3 DEF Kept, Valid
  <1>5. ASSUME NEW i \in Kept
        PROVE  \E l \in Good : RecordAt(l) = emitted[i]
    <2>1. PICK l \in DOMAIN Log : Log[l] = <<Record(emitted[i])>>
      BY <1>4 DEF Alone
    <2>2. Log \in Seq(Seq(Fragment(Versions, Ops)) \ {<<>>})
      BY Logged DEF Written
    <2>3. l \in 1 .. Len(Log)
      BY <2>2, LenProperties
    <2>4. RecordAt(l) = emitted[i] /\ emitted[i] \in Emitted
      BY <1>4, <2>1, Fragments DEF RecordAt, Emitted
    <2> QED
      BY <1>4, <2>1, <2>3, <2>4 DEF Good
  <1>6. h \in [Kept -> Good] /\ \A i \in Kept : RecordAt(h[i]) = emitted[i]
    BY <1>5
  <1> HIDE DEF h
  <1>7. \A r, s : /\ r.generation \in Nat /\ r.step \in Nat /\ s.generation \in Nat /\ s.step \in Nat
                  => ~(Before(r, s) /\ Before(s, r))
    BY DEF Before
  <1>8. ASSUME NEW i \in Kept, NEW j \in Kept
        PROVE  /\ i < j => h[i] < h[j]
               /\ h[i] = h[j] => i = j
    <2>1. /\ h[i] \in Good /\ h[j] \in Good /\ h[i] \in Int /\ h[j] \in Int /\ i \in Int /\ j \in Int
          /\ RecordAt(h[i]) = emitted[i] /\ RecordAt(h[j]) = emitted[j]
          /\ i \in DOMAIN emitted /\ j \in DOMAIN emitted
      BY <1>2, <1>4, <1>6
    <2> DEFINE a == h[i]
               b == h[j]
    <2>2. ~(Before(emitted[i], emitted[j]) /\ Before(emitted[j], emitted[i]))
          /\ ~Before(emitted[i], emitted[i])
      BY <1>1, <1>7, <2>1
    <2>3. b < a => Before(emitted[j], emitted[i])
      BY <1>1, <2>1
    <2>4. (i < j => Before(emitted[i], emitted[j])) /\ (j < i => Before(emitted[j], emitted[i]))
      BY <1>3, <2>1
    <2>5. a = b => emitted[i] = emitted[j]
      BY <2>1
    <2>6. a \in Int /\ b \in Int
      BY <2>1
    <2> HIDE DEF a, b
    <2>7. /\ i < j => a < b
          /\ a = b => i = j
      BY <2>1, <2>2, <2>3, <2>4, <2>5, <2>6
    <2> QED
      BY <2>7 DEF a, b
  <1>9. \A i, j \in Kept : (h[i] <= h[j]) <=> (i <= j)
    <2>1. \A i \in Kept : h[i] \in Int /\ i \in Int
      BY <1>2, <1>4, <1>6
    <2> QED
      BY <1>8, <2>1
  <1>10. \A l \in Good : \E i \in Kept : h[i] = l
    <2> SUFFICES ASSUME NEW l \in Good PROVE \E i \in Kept : h[i] = l
      OBVIOUS
    <2>1. PICK i \in DOMAIN emitted : RecordAt(l) = emitted[i]
      BY <1>1 DEF Emitted
    <2>2. Log \in Seq(Seq(Fragment(Versions, Ops)) \ {<<>>})
      BY Logged DEF Written
    <2>3. l \in DOMAIN Log
      BY <1>1, <2>2, LenProperties
    <2>4. i \in Kept
      BY <1>1, <2>1, <2>3 DEF Kept, Alone, Valid
    <2>5. h[i] \in Good /\ h[i] \in Int /\ l \in Int /\ RecordAt(h[i]) = RecordAt(l)
      BY <1>2, <1>6, <2>1, <2>4
    <2>6. ~Before(RecordAt(l), RecordAt(l))
      BY <1>1, <1>7
    <2>7. ~(h[i] < l) /\ ~(l < h[i])
      BY <1>1, <2>5, <2>6
    <2> QED
      BY <2>4, <2>5, <2>7
  <1>11. /\ Cardinality(Kept) = Cardinality(Good)
         /\ \A i \in Kept : Cardinality({j \in Kept : j <= i}) = Cardinality({t \in Good : t <= h[i]})
    <2>0. IsFiniteSet(Kept)
      <3>1. Kept \in SUBSET (1 .. Len(emitted))
        BY <1>3, <1>4
      <3>2. IsFiniteSet(1 .. Len(emitted))
        BY <1>3, FS_Interval
      <3> QED
        BY <3>1, <3>2, FS_Subset
    <2>1. /\ IsFiniteSet(Kept) /\ h \in [Kept -> Good]
          /\ \A i, j \in Kept : h[i] = h[j] => i = j
      BY <1>6, <1>8, <2>0
    <2> QED
      BY ONLY <2>1, <1>9, <1>10, RanksKept
  <1>12. \A i \in Kept : Place(h[i]) = Rank(i)
    BY <1>11 DEF Place, Rank
  <1> QED
    BY <1>6, <1>11, <1>12

(* When the script is done it has read every good line.                    *)
LEMMA AllRead ==
    ASSUME NEW Versions, NEW Ops, TraceInv(Versions, Ops), phase = "parsed"
    PROVE  Read = Good /\ Exported /\ Warned /\ Written(Versions, Ops)
  <1>1. Parsing(Versions, Ops) /\ Written(Versions, Ops) /\ report.linesRead = Len(Log)
    BY DEF TraceInv, Parsing
  <1>2. Good \in SUBSET (1 .. Len(Log)) /\ Len(Log) \in Nat
    BY <1>1, GoodOrdered DEF Written
  <1>3. \A i \in Good : i <= Len(Log)
    BY <1>2
  <1>4. Read = Good
    BY <1>1, <1>3 DEF Read
  <1> QED
    BY <1>1, <1>4 DEF Parsing

(* Whatever the kernels, however the machine is reset and the console      *)
(* spoils lines, the script writes every record that stands alone and is   *)
(* valid, once, in the order of emission, with steps counted from 0 if     *)
(* renumbered.                                                             *)
THEOREM OutputAlwaysExact ==
    ASSUME NEW Versions, NEW Ops, Builds \subseteq Kernel(Versions, Ops)
    PROVE  TraceSpec => []OutputExact
  <1>1. TraceInv(Versions, Ops) => OutputExact
    <2> SUFFICES ASSUME TraceInv(Versions, Ops), phase = "parsed"
                 PROVE  /\ Len(report.out) = Cardinality(Kept)
                        /\ \A i \in Kept :
                              report.out[Rank(i)] = IF report.renumber
                                                    THEN [emitted[i] EXCEPT !.step = Rank(i) - 1]
                                                    ELSE emitted[i]
      BY DEF OutputExact
    <2>1. Read = Good /\ Exported /\ Written(Versions, Ops)
      BY AllRead
    <2>2. /\ Cardinality(Kept) = Cardinality(Good)
          /\ \A i \in Kept : \E l \in Good : RecordAt(l) = emitted[i] /\ Place(l) = Rank(i)
      BY <2>1, KeptRanks
    <2>3. ASSUME NEW i \in Kept
          PROVE  report.out[Rank(i)] = IF report.renumber
                                       THEN [emitted[i] EXCEPT !.step = Rank(i) - 1]
                                       ELSE emitted[i]
      <3>1. PICK l \in Good : RecordAt(l) = emitted[i] /\ Place(l) = Rank(i)
        BY <2>2
      <3>2. report.out[Place(l)] = IF report.renumber
                                   THEN [RecordAt(l) EXCEPT !.step = Place(l) - 1]
                                   ELSE RecordAt(l)
        BY <2>1 DEF Exported
      <3> QED
        BY <3>1, <3>2
    <2> QED
      BY <2>1, <2>2, <2>3 DEF Exported
  <1> QED
    BY <1>1, TraceInvInductive, PTL

(* The warnings about steps that go back never outnumber the generations   *)
(* that started over, and tell their number when no record was lost.       *)
THEOREM RestartsAlwaysNoticed ==
    ASSUME NEW Versions, NEW Ops, Builds \subseteq Kernel(Versions, Ops)
    PROVE  TraceSpec => []RestartsNoticed
  <1>1. TraceInv(Versions, Ops) => RestartsNoticed
    <2> SUFFICES ASSUME TraceInv(Versions, Ops), phase = "parsed", report.out # <<>>
                 PROVE  /\ report.nonMonotonic <= Cardinality(Generations) - 1
                        /\ Lost = {} => report.nonMonotonic = Cardinality(Generations) - 1
      BY DEF RestartsNoticed, Generations
    <2>1. Exported /\ Warned /\ Written(Versions, Ops) /\ report.out \in Seq(Rec(Versions, Ops))
      BY AllRead DEF TraceInv, Parsing, Report
    <2>2. Read # {}
      <3>1. Len(report.out) # 0
        BY <2>1, EmptySeq
      <3> QED
        BY <2>1, <3>1, FS_EmptySet DEF Exported
    <2> QED
      BY <2>1, <2>2 DEF Warned
  <1> QED
    BY <1>1, TraceInvInductive, PTL
----------------------------------------------------------------------------
(* Group-wise quantisation                                                 *)

LEMMA Division ==
    ASSUME NEW num \in Int, NEW den \in Nat \ {0}
    PROVE  /\ num \div den \in Int
           /\ (num \div den) * den <= num
           /\ num < (num \div den) * den + den
  <1> den \in Int /\ den > 0
    OBVIOUS
  <1> QED
    BY SMT

(* round() goes to the nearest integer, at most half away.                 *)
Rounds(r, num, den) == -den <= 2 * (r * den - num) /\ 2 * (r * den - num) <= den

LEMMA RoundsToNearest ==
    ASSUME NEW num \in Int, NEW den \in Nat \ {0}
    PROVE  RoundHalfEven(num, den) \in Int /\ Rounds(RoundHalfEven(num, den), num, den)
  <1> DEFINE low == num \div den
             part == low * den
             twice == 2 * (num - part)
  <1>1. low \in Int /\ part \in Int /\ den \in Int /\ part <= num /\ num < part + den
    BY Division
  <1>2. (low + 1) * den = part + den
    BY <1>1
  <1>3. RoundHalfEven(num, den)
          = IF twice < den \/ (twice = den /\ low % 2 = 0) THEN low ELSE low + 1
    BY DEF RoundHalfEven
  <1> HIDE DEF twice
  <1>4. twice = 2 * (num - part)
    BY DEF twice
  <1>5. CASE RoundHalfEven(num, den) = low /\ twice <= den
    <2> HIDE DEF low
    <2>1. -den <= 2 * (part - num) /\ 2 * (part - num) <= den
      <3> HIDE DEF part
      <3> QED
        BY <1>1, <1>4, <1>5
    <2> QED
      BY <1>1, <1>5, <2>1 DEF Rounds
  <1>6. CASE RoundHalfEven(num, den) = low + 1 /\ twice >= den
    <2>1. -den <= 2 * (part + den - num) /\ 2 * (part + den - num) <= den
      <3> HIDE DEF part
      <3> QED
        BY <1>1, <1>4, <1>6
    <2> QED
      BY <1>1, <1>2, <1>6, <2>1 DEF Rounds
  <1>7. \/ RoundHalfEven(num, den) = low /\ twice <= den
        \/ RoundHalfEven(num, den) = low + 1 /\ twice >= den
    <2>1. twice \in Int
      BY <1>1, <1>4
    <2> QED
      BY <1>1, <1>3, <2>1
  <1> QED
    BY <1>5, <1>6, <1>7

(* Of finitely many finite sets one has no smaller one among the others.   *)
LEMMA SmallestSet ==
    ASSUME NEW D, IsFiniteSet(D), NEW S, S # {}, NEW f \in [S -> SUBSET D]
    PROVE  \E x \in S : \A y \in S : f[y] \subseteq f[x] => f[y] = f[x]
  <1> DEFINE T == {Cardinality(f[x]) : x \in S}
  <1>1. ASSUME NEW x \in S PROVE IsFiniteSet(f[x]) /\ Cardinality(f[x]) \in Nat
    BY FS_Subset, FS_CardinalityType
  <1>2. T \subseteq Nat /\ T # {}
    BY <1>1
  <1>3. PICK t \in T : \A u \in T : ~ (<<u, t>> \in OpToRel(<, Nat))
    <2> HIDE DEF T
    <2> QED
      BY <1>2, WFMin, NatLessThanWellFounded
  <1>4. PICK x \in S : t = Cardinality(f[x])
    BY <1>3
  <1>5. ASSUME NEW y \in S, f[y] \subseteq f[x] PROVE f[y] = f[x]
    <2>1. Cardinality(f[y]) <= Cardinality(f[x])
          /\ (Cardinality(f[x]) = Cardinality(f[y]) => f[x] = f[y])
      BY <1>1, <1>5, FS_Subset
    <2>2. Cardinality(f[y]) \in T
      OBVIOUS
    <2>3. ~ (<<Cardinality(f[y]), Cardinality(f[x])>> \in OpToRel(<, Nat))
      BY <1>3, <1>4, <2>2
    <2>4. ~ (Cardinality(f[y]) < Cardinality(f[x]))
      BY <1>1, <2>3 DEF OpToRel
    <2> QED
      BY <1>1, <2>1, <2>4
  <1> QED
    BY <1>5

(* So a group has a lightest and a heaviest weight.                        *)
IsGroup(ws) == ws \in Seq(Int) /\ ws # <<>>
LEMMA WeightsAre ==
    ASSUME NEW ws, IsGroup(ws)
    PROVE  /\ DOMAIN ws = 1 .. Len(ws) /\ Len(ws) \in Nat \ {0} /\ DOMAIN ws # {}
           /\ IsFiniteSet(DOMAIN ws)
           /\ \A n \in DOMAIN ws : ws[n] \in Int
  <1>1. ws \in Seq(Int) /\ ws # <<>>
    BY DEF IsGroup
  <1>2. DOMAIN ws = 1 .. Len(ws) /\ Len(ws) \in Nat \ {0}
    BY <1>1, LenProperties, EmptySeq
  <1>3. IsFiniteSet(DOMAIN ws)
    BY <1>2, FS_Interval
  <1>4. \A n \in DOMAIN ws : ws[n] \in Int
    BY <1>1, <1>2, ElementOfSeq
  <1>5. 1 \in DOMAIN ws
    BY <1>2
  <1> QED
    BY <1>2, <1>3, <1>4, <1>5

Spans(ws, low, high) ==
    /\ low \in Int /\ high \in Int /\ low <= high
    /\ \E n \in DOMAIN ws : ws[n] = low
    /\ \E n \in DOMAIN ws : ws[n] = high
    /\ \A n \in DOMAIN ws : low <= ws[n] /\ ws[n] <= high
LEMMA LowestFound ==
    ASSUME NEW ws, IsGroup(ws)
    PROVE  /\ \E n \in DOMAIN ws : ws[n] = LowestOf(ws)
           /\ \A n \in DOMAIN ws : LowestOf(ws) <= ws[n]
  <1> DEFINE D == DOMAIN ws
             f == [n \in D |-> {m \in D : ws[m] < ws[n]}]
  <1>1. D # {} /\ IsFiniteSet(D) /\ (\A n \in D : ws[n] \in Int)
    BY WeightsAre
  <1>2. f \in [D -> SUBSET D]
    OBVIOUS
  <1>3. PICK x \in D : \A y \in D : f[y] \subseteq f[x] => f[y] = f[x]
    <2> HIDE DEF f, D
    <2> QED
      BY <1>1, <1>2, SmallestSet
  <1>4. ASSUME NEW y \in D PROVE ws[x] <= ws[y]
    <2> SUFFICES ASSUME ws[y] < ws[x] PROVE FALSE
      BY <1>1
    <2>1. f[y] \subseteq f[x]
      BY <1>1
    <2>2. f[y] # f[x]
      <3>1. y \in f[x] /\ y \notin f[y]
        BY <1>1
      <3> QED
        BY <3>1
    <2> QED
      BY <1>3, <2>1, <2>2
  <1>5. ws[x] \in {ws[n] : n \in D} /\ \A n \in D : ws[x] <= ws[n]
    BY <1>1, <1>4
  <1>6. LowestOf(ws) \in {ws[n] : n \in D} /\ \A n \in D : LowestOf(ws) <= ws[n]
    BY <1>5 DEF LowestOf
  <1> QED
    BY <1>1, <1>6
LEMMA HighestFound ==
    ASSUME NEW ws, IsGroup(ws)
    PROVE  /\ \E n \in DOMAIN ws : ws[n] = HighestOf(ws)
           /\ \A n \in DOMAIN ws : ws[n] <= HighestOf(ws)
  <1> DEFINE D == DOMAIN ws
             f == [n \in D |-> {m \in D : ws[n] < ws[m]}]
  <1>1. D # {} /\ IsFiniteSet(D) /\ (\A n \in D : ws[n] \in Int)
    BY WeightsAre
  <1>2. f \in [D -> SUBSET D]
    OBVIOUS
  <1>3. PICK x \in D : \A y \in D : f[y] \subseteq f[x] => f[y] = f[x]
    <2> HIDE DEF f, D
    <2> QED
      BY <1>1, <1>2, SmallestSet
  <1>4. ASSUME NEW y \in D PROVE ws[y] <= ws[x]
    <2> SUFFICES ASSUME ws[x] < ws[y] PROVE FALSE
      BY <1>1
    <2>1. f[y] \subseteq f[x]
      BY <1>1
    <2>2. f[y] # f[x]
      <3>1. y \in f[x] /\ y \notin f[y]
        BY <1>1
      <3> QED
        BY <3>1
    <2> QED
      BY <1>3, <2>1, <2>2
  <1>5. ws[x] \in {ws[n] : n \in D} /\ \A n \in D : ws[n] <= ws[x]
    BY <1>1, <1>4
  <1>6. HighestOf(ws) \in {ws[n] : n \in D} /\ \A n \in D : ws[n] <= HighestOf(ws)
    BY <1>5 DEF HighestOf
  <1> QED
    BY <1>1, <1>6
LEMMA WeightsSpan ==
    ASSUME NEW ws, IsGroup(ws)
    PROVE  Spans(ws, LowestOf(ws), HighestOf(ws))
  <1>1. \A n \in DOMAIN ws : ws[n] \in Int
    BY WeightsAre
  <1>2. PICK n \in DOMAIN ws : ws[n] = LowestOf(ws)
    BY LowestFound
  <1>3. LowestOf(ws) <= HighestOf(ws)
    BY <1>2, HighestFound
  <1> QED
    BY <1>1, <1>3, LowestFound, HighestFound DEF Spans
LEMMA Monotonic ==
    ASSUME NEW a \in Int, NEW b \in Int, NEW c \in Nat, a <= b
    PROVE  a * c <= b * c
  OBVIOUS

(* What clipping an index x does to its multiple of the spread.            *)
Clipped(x, L, S) ==
    \/ 0 <= x /\ x <= L /\ Clip(x, L) = x
    \/ x * S <= -S /\ Clip(x, L) = 0
    \/ x * S >= L * S + S /\ Clip(x, L) = L
LEMMA Clipping ==
    ASSUME NEW x \in Int, NEW L \in Nat, NEW S \in Nat
    PROVE  Clip(x, L) \in 0 .. L /\ Clipped(x, L, S)
  <1>1. CASE x < 0
    <2>1. x * S <= (-1) * S
      <3>1. x <= -1
        BY <1>1
      <3> QED
        BY <3>1, Monotonic
    <2> QED
      BY <1>1, <2>1 DEF Clip, Clipped
  <1>2. CASE x > L
    <2>1. (L + 1) * S <= x * S
      <3>1. L + 1 <= x
        BY <1>2
      <3> QED
        BY <3>1, Monotonic
    <2>2. (L + 1) * S = L * S + S
      OBVIOUS
    <2> QED
      BY <1>2, <2>1, <2>2 DEF Clip, Clipped
  <1>3. CASE 0 <= x /\ x <= L
    BY <1>3 DEF Clip, Clipped
  <1> QED
    BY <1>1, <1>2, <1>3

(* The zero point lies within half a step of where -low is, unless it was  *)
(* clipped: then the group lies to one side of 0, by the gap.              *)
Gap(low, high) == IF low > 0 THEN low ELSE IF high < 0 THEN -high ELSE 0
LEMMA GapBounds ==
    ASSUME NEW low \in Int, NEW high \in Int, low <= high
    PROVE  /\ Gap(low, high) \in Nat
           /\ low <= Gap(low, high) /\ -high <= Gap(low, high)
  BY DEF Gap

LEMMA ZeroPoint ==
    ASSUME NEW lL \in Int, NEW hL \in Int, NEW gL \in Int, NEW S \in Nat, NEW LS \in Nat,
           NEW rS \in Int, NEW zS \in Int, lL <= hL, hL = lL + LS,
           lL <= gL, -hL <= gL, 0 <= gL, S > 0,
           -S <= 2 * (rS + lL), 2 * (rS + lL) <= S,
           zS = rS \/ (rS <= -S /\ zS = 0) \/ (rS >= LS + S /\ zS = LS)
    PROVE  /\ -2 * (lL + zS) <= S + 2 * gL
           /\ 2 * (lL + zS) <= S + 2 * gL
  OBVIOUS

(* And so does an index of where its weight is.                            *)
LEMMA IndexWithin ==
    ASSUME NEW lL \in Int, NEW wL \in Int, NEW hL \in Int, NEW gL \in Int, NEW S \in Nat, NEW LS \in Nat,
           NEW zS \in Int, NEW rS \in Int, NEW qS \in Int,
           lL <= wL, wL <= hL, hL = lL + LS, S > 0, 0 <= gL,
           -2 * (lL + zS) <= S + 2 * gL, 2 * (lL + zS) <= S + 2 * gL,
           -S <= 2 * (rS - (wL + zS)), 2 * (rS - (wL + zS)) <= S,
           qS = rS \/ (rS <= -S /\ qS = 0) \/ (rS >= LS + S /\ qS = LS)
    PROVE  /\ -(S + 2 * gL) <= 2 * (qS - zS - wL)
           /\ 2 * (qS - zS - wL) <= S + 2 * gL
  <1>1. CASE qS = rS
    BY <1>1
  <1>2. CASE rS <= -S /\ qS = 0
    BY <1>2
  <1>3. CASE rS >= LS + S /\ qS = LS
    BY <1>3
  <1> QED
    BY <1>1, <1>2, <1>3

(* The scale is rounded too, so d steps of it are off by as much.          *)
LEMMA StepsScaled ==
    ASSUME NEW d \in Int, NEW L \in Nat, -L <= d, d <= L,
           NEW A \in Int, NEW LU \in Nat, -LU <= 2 * A, 2 * A <= LU
    PROVE  -(L * LU) <= 2 * (d * A) /\ 2 * (d * A) <= L * LU
  <1>1. CASE d >= 0
    <2>1. d * (-LU) <= d * (2 * A) /\ d * (2 * A) <= d * LU
      BY <1>1
    <2>2. d * LU <= L * LU
      BY Monotonic
    <2>3. d * (-LU) = -(d * LU) /\ d * (2 * A) = 2 * (d * A)
      OBVIOUS
    <2>4. d * LU \in Int /\ d * A \in Int /\ L * LU \in Int
      OBVIOUS
    <2> QED
      BY <2>1, <2>2, <2>3, <2>4
  <1>2. CASE d < 0
    <2> DEFINE m == -d
    <2>1. m * (-LU) <= m * (2 * A) /\ m * (2 * A) <= m * LU
      BY <1>2
    <2>2. m * LU <= L * LU
      BY Monotonic
    <2>3. m * (-LU) = -(m * LU) /\ m * (2 * A) = -2 * (d * A)
      OBVIOUS
    <2>4. m * LU \in Int /\ d * A \in Int /\ L * LU \in Int
      OBVIOUS
    <2> QED
      BY <2>1, <2>2, <2>3, <2>4
  <1> QED
    BY <1>1, <1>2

(* Half a step of the spread and half a unit of the scale are what a       *)
(* weight is off by, at most.                                              *)
LEMMA ErrorWithin ==
    ASSUME NEW d \in Int, NEW L \in Nat, -L <= d, d <= L,
           NEW S \in Nat, NEW U \in Nat, NEW F \in Nat, NEW w \in Int, NEW gL \in Nat,
           NEW s \in Int, Rounds(s, S * F, L * U),
           -(S + 2 * gL) <= 2 * (d * S - w * L), 2 * (d * S - w * L) <= S + 2 * gL
    PROVE  LET e == d * s * U - w * F
           IN  /\ -((S + 2 * gL) * F + L * L * U) <= 2 * L * e
               /\ 2 * L * e <= (S + 2 * gL) * F + L * L * U
  <1> DEFINE A == s * (L * U) - S * F
             E == d * S - w * L
             B == S + 2 * gL
             e == d * s * U - w * F
  <1>1. A \in Int /\ L * U \in Nat /\ E \in Int /\ B \in Nat /\ e \in Int
    OBVIOUS
  <1>2. -(L * U) <= 2 * A /\ 2 * A <= L * U
    BY DEF Rounds
  <1>3. -(L * (L * U)) <= 2 * (d * A) /\ 2 * (d * A) <= L * (L * U)
    <2> HIDE DEF A
    <2> QED
      BY <1>1, <1>2, StepsScaled
  <1>4. (-B) * F <= (2 * E) * F /\ (2 * E) * F <= B * F
    <2> HIDE DEF E, B
    <2>1. -B <= 2 * E /\ 2 * E <= B
      BY DEF E, B
    <2> QED
      BY <1>1, <2>1, Monotonic
  <1>5. L * e = d * A + F * E
    OBVIOUS
  <1>6. /\ 2 * L * e = 2 * (d * A) + (2 * E) * F /\ L * (L * U) = L * L * U
        /\ (-B) * F = -(B * F)
    <2> HIDE DEF A, E, e, B
    <2> QED
      BY <1>1, <1>5
  <1>7. -(B * F + L * L * U) <= 2 * L * e /\ 2 * L * e <= B * F + L * L * U
    <2> DEFINE dA == d * A
               EF == (2 * E) * F
               BF == B * F
               LLU == L * L * U
               le == 2 * L * e
    <2>1. dA \in Int /\ EF \in Int /\ BF \in Int /\ LLU \in Int
      BY <1>1
    <2>2. /\ -LLU <= 2 * dA /\ 2 * dA <= LLU /\ -BF <= EF /\ EF <= BF /\ le = 2 * dA + EF
      BY <1>3, <1>4, <1>6
    <2> HIDE DEF A, E, e, B, dA, EF, BF, LLU, le
    <2>3. -(BF + LLU) <= le /\ le <= BF + LLU
      BY <2>1, <2>2
    <2> QED
      BY <2>3 DEF BF, LLU, le
  <1> QED
    BY <1>7

LEMMA ErrorAbsolute ==
    ASSUME NEW x \in Int, NEW w \in Int, NEW L \in Nat, NEW bound \in Int,
           WeightUnit \in Nat, ScaleFixedPoint \in Nat,
           -bound <= 2 * L * (x * WeightUnit - w * ScaleFixedPoint),
           2 * L * (x * WeightUnit - w * ScaleFixedPoint) <= bound
    PROVE  AbsErr(x, w) \in Nat /\ 2 * L * AbsErr(x, w) <= bound
  <1> DEFINE e == x * WeightUnit - w * ScaleFixedPoint
  <1>1. e \in Int /\ AbsErr(x, w) = IF e < 0 THEN -e ELSE e
    BY DEF AbsErr
  <1>2. 2 * L * (-e) = -(2 * L * e)
    BY <1>1
  <1> HIDE DEF e
  <1>3. -bound <= 2 * L * e /\ 2 * L * e <= bound
    BY DEF e
  <1>4. CASE e < 0
    BY <1>1, <1>2, <1>3, <1>4
  <1>5. CASE e >= 0
    BY <1>1, <1>3, <1>5
  <1> QED
    BY <1>1, <1>4, <1>5

(* What a group promises of each of its weights.                           *)
GoodGroup(ws, levels, group) ==
    /\ group.zero \in 0 .. levels /\ group.scale \in Int
    /\ DOMAIN group.q = DOMAIN ws
    /\ \A n \in DOMAIN ws :
          /\ group.q[n] \in 0 .. levels
          /\ AbsErr(Dequantized(group.q[n], group), ws[n]) \in Nat
          /\ 2 * levels * AbsErr(Dequantized(group.q[n], group), ws[n])
                <= ErrorBound(ws, levels)
Units == WeightUnit \in Nat \ {0} /\ ScaleFixedPoint \in Nat \ {0}

(* The extremes of a group, and its distance from 0.                       *)
LEMMA GroupShape ==
    ASSUME NEW ws, IsGroup(ws)
    PROVE  /\ LowestOf(ws) \in Int /\ HighestOf(ws) \in Int
           /\ SpreadOf(ws) \in Nat /\ GapOf(ws) \in Nat
           /\ HighestOf(ws) = LowestOf(ws) + SpreadOf(ws)
           /\ LowestOf(ws) <= GapOf(ws) /\ -HighestOf(ws) <= GapOf(ws)
           /\ \A n \in DOMAIN ws : /\ ws[n] \in Int
                                   /\ LowestOf(ws) <= ws[n] /\ ws[n] <= HighestOf(ws)
  <1>1. Spans(ws, LowestOf(ws), HighestOf(ws)) /\ \A n \in DOMAIN ws : ws[n] \in Int
    BY WeightsSpan, WeightsAre
  <1>2. /\ LowestOf(ws) \in Int /\ HighestOf(ws) \in Int /\ LowestOf(ws) <= HighestOf(ws)
        /\ \A n \in DOMAIN ws : LowestOf(ws) <= ws[n] /\ ws[n] <= HighestOf(ws)
    BY <1>1 DEF Spans
  <1>3. GapOf(ws) = Gap(LowestOf(ws), HighestOf(ws))
    BY DEF GapOf, Gap
  <1>4. SpreadOf(ws) \in Nat /\ HighestOf(ws) = LowestOf(ws) + SpreadOf(ws)
    BY <1>2 DEF SpreadOf
  <1> QED
    BY <1>1, <1>2, <1>3, <1>4, GapBounds

(* The same for the numbers QuantizeGroup computes.                        *)
Computed(l, h, g, S, w, L, z0, z, q0, q, U, F, s) ==
    /\ l \in Int /\ h \in Int /\ g \in Nat /\ S \in Nat /\ w \in Int /\ L \in Nat
    /\ S > 0 /\ h = l + S /\ l <= g /\ -h <= g /\ l <= w /\ w <= h
    /\ z0 \in Int /\ Rounds(z0, -l * L, S) /\ z = Clip(z0, L)
    /\ q0 \in Int /\ Rounds(q0, w * L + z * S, S) /\ q = Clip(q0, L)
    /\ U \in Nat /\ F \in Nat /\ s \in Int /\ Rounds(s, S * F, L * U)
LEMMA WeightKept ==
    ASSUME NEW l, NEW h, NEW g, NEW S, NEW w, NEW L, NEW z0, NEW z, NEW q0, NEW q,
           NEW U, NEW F, NEW s, Computed(l, h, g, S, w, L, z0, z, q0, q, U, F, s)
    PROVE  /\ -((S + 2 * (g * L)) * F + L * L * U) <= 2 * L * ((q - z) * s * U - w * F)
           /\ 2 * L * ((q - z) * s * U - w * F) <= (S + 2 * (g * L)) * F + L * L * U
  <1> DEFINE lL == l * L
             hL == h * L
             gL == g * L
             wL == w * L
             LS == L * S
             zS == z * S
             z0S == z0 * S
             qS == q * S
             q0S == q0 * S
  <1> /\ l \in Int /\ h \in Int /\ g \in Nat /\ S \in Nat /\ w \in Int /\ L \in Nat
      /\ S > 0 /\ h = l + S /\ l <= g /\ -h <= g /\ l <= w /\ w <= h
      /\ z0 \in Int /\ Rounds(z0, -l * L, S) /\ z = Clip(z0, L)
      /\ q0 \in Int /\ Rounds(q0, w * L + z * S, S) /\ q = Clip(q0, L)
      /\ U \in Nat /\ F \in Nat /\ s \in Int /\ Rounds(s, S * F, L * U)
    BY DEF Computed
  <1>1. /\ z \in 0 .. L /\ Clipped(z0, L, S) /\ q \in 0 .. L /\ Clipped(q0, L, S)
    BY Clipping
  <1>2. /\ lL \in Int /\ hL \in Int /\ gL \in Nat /\ wL \in Int /\ LS \in Nat /\ zS \in Int
        /\ z0S \in Int /\ qS \in Int /\ q0S \in Int /\ z \in Int /\ q \in Int
    BY <1>1
  <1>3. lL <= wL /\ wL <= hL /\ lL <= gL /\ lL <= hL
    BY Monotonic
  <1>4. hL = lL + LS
    OBVIOUS
  <1>5. -hL <= gL
    <2>1. (-h) * L <= g * L
      BY Monotonic
    <2>2. (-h) * L = -(h * L)
      OBVIOUS
    <2> QED
      BY <2>1, <2>2
  <1>6. zS = z0S \/ (z0S <= -S /\ zS = 0) \/ (z0S >= LS + S /\ zS = LS)
    BY <1>1 DEF Clipped
  <1>7. qS = q0S \/ (q0S <= -S /\ qS = 0) \/ (q0S >= LS + S /\ qS = LS)
    <2>1. q = q0 \/ (q0S <= -S /\ q = 0) \/ (q0S >= LS + S /\ q = L)
      BY <1>1 DEF Clipped
    <2>2. q = 0 => qS = 0
      BY <1>2
    <2> QED
      BY <2>1, <2>2
  <1>8. -S <= 2 * (z0S + lL) /\ 2 * (z0S + lL) <= S
    <2>1. -S <= 2 * (z0 * S - (-l * L)) /\ 2 * (z0 * S - (-l * L)) <= S
      BY DEF Rounds
    <2>2. z0 * S - (-l * L) = z0S + lL
      OBVIOUS
    <2> QED
      BY <2>1, <2>2
  <1>9. -S <= 2 * (q0S - (wL + zS)) /\ 2 * (q0S - (wL + zS)) <= S
    BY DEF Rounds
  <1>10. qS - zS - wL = (q - z) * S - w * L
    BY <1>2
  <1> HIDE DEF lL, hL, gL, wL, LS, zS, z0S, qS, q0S
  <1>11. -2 * (lL + zS) <= S + 2 * gL /\ 2 * (lL + zS) <= S + 2 * gL
    BY <1>2, <1>3, <1>4, <1>5, <1>6, <1>8, ZeroPoint
  <1>12. -(S + 2 * gL) <= 2 * (qS - zS - wL) /\ 2 * (qS - zS - wL) <= S + 2 * gL
    BY <1>2, <1>3, <1>4, <1>7, <1>9, <1>11, IndexWithin
  <1>13. -(S + 2 * gL) <= 2 * ((q - z) * S - w * L) /\ 2 * ((q - z) * S - w * L) <= S + 2 * gL
    BY <1>10, <1>12
  <1>14. q - z \in Int /\ -L <= q - z /\ q - z <= L
    BY <1>1
  <1>15. LET e == (q - z) * s * U - w * F
         IN  /\ -((S + 2 * gL) * F + L * L * U) <= 2 * L * e
             /\ 2 * L * e <= (S + 2 * gL) * F + L * L * U
    <2> DEFINE d == q - z
    <2> HIDE DEF d
    <2>1. /\ d \in Int /\ -L <= d /\ d <= L
          /\ -(S + 2 * gL) <= 2 * (d * S - w * L) /\ 2 * (d * S - w * L) <= S + 2 * gL
      BY <1>13, <1>14 DEF d
    <2>2. LET e == d * s * U - w * F
          IN  /\ -((S + 2 * gL) * F + L * L * U) <= 2 * L * e
              /\ 2 * L * e <= (S + 2 * gL) * F + L * L * U
      BY <1>2, <2>1, ErrorWithin
    <2> QED
      BY <2>2 DEF d
  <1> QED
    BY <1>15 DEF gL

(* The group of a spread that is not 0.                                    *)
LEMMA GroupKept ==
    ASSUME NEW ws, IsGroup(ws), NEW L \in Nat \ {0}, Units, SpreadOf(ws) # 0
    PROVE  GoodGroup(ws, L, QuantizeGroup(ws, L))
  <1> DEFINE l == LowestOf(ws)
             h == HighestOf(ws)
             S == SpreadOf(ws)
             g == GapOf(ws)
             U == WeightUnit
             F == ScaleFixedPoint
             z0 == RoundHalfEven(-l * L, S)
             z == Clip(z0, L)
             s == RoundHalfEven(S * F, L * U)
             q0(n) == RoundHalfEven(ws[n] * L + z * S, S)
             group == QuantizeGroup(ws, L)
  <1>1. /\ l \in Int /\ h \in Int /\ S \in Nat /\ g \in Nat /\ S > 0 /\ S \in Nat \ {0}
        /\ h = l + S /\ l <= g /\ -h <= g
        /\ \A n \in DOMAIN ws : ws[n] \in Int /\ l <= ws[n] /\ ws[n] <= h
    BY GroupShape
  <1>2. U \in Nat /\ F \in Nat /\ L \in Nat /\ L * U \in Nat \ {0} /\ S * F \in Nat
    BY <1>1 DEF Units
  <1>3. z0 \in Int /\ Rounds(z0, -l * L, S) /\ z \in 0 .. L
    <2>1. z0 \in Int /\ Rounds(z0, -l * L, S)
      BY <1>1, RoundsToNearest
    <2> QED
      BY <1>2, <1>1, <2>1, Clipping
  <1>4. s \in Int /\ Rounds(s, S * F, L * U)
    BY <1>2, RoundsToNearest
  <1>5. /\ group.zero = z /\ group.scale = s
        /\ group.q = [n \in DOMAIN ws |-> Clip(q0(n), L)]
    BY <1>1 DEF QuantizeGroup
  <1>6. ASSUME NEW n \in DOMAIN ws
        PROVE  /\ group.q[n] \in 0 .. L
               /\ AbsErr(Dequantized(group.q[n], group), ws[n]) \in Nat
               /\ 2 * L * AbsErr(Dequantized(group.q[n], group), ws[n]) <= ErrorBound(ws, L)
    <2> DEFINE w == ws[n]
               q == Clip(q0(n), L)
               x == (q - z) * s
               bound == (S + 2 * (g * L)) * F + L * L * U
    <2>1. w \in Int /\ l <= w /\ w <= h
      BY <1>1
    <2>2. q0(n) \in Int /\ Rounds(q0(n), w * L + z * S, S) /\ q \in 0 .. L
      <3>1. w * L + z * S \in Int
        BY <1>1, <1>2, <1>3, <2>1
      <3>2. q0(n) \in Int /\ Rounds(q0(n), w * L + z * S, S)
        BY <1>1, <3>1, RoundsToNearest
      <3> QED
        BY <1>1, <1>2, <3>2, Clipping
    <2>3. /\ -bound <= 2 * L * ((q - z) * s * U - w * F)
          /\ 2 * L * ((q - z) * s * U - w * F) <= bound
      <3> DEFINE qq == q0(n)
      <3>1. qq \in Int /\ Rounds(qq, w * L + z * S, S) /\ q = Clip(qq, L) /\ z = Clip(z0, L)
        BY <2>2
      <3> HIDE DEF l, h, S, g, U, F, z0, z, s, q0, w, q, qq
      <3>2. Computed(l, h, g, S, w, L, z0, z, qq, q, U, F, s)
        BY <1>1, <1>2, <1>3, <1>4, <2>1, <3>1 DEF Computed
      <3> QED
        BY ONLY <3>2, WeightKept
    <2>4. group.q[n] = q /\ Dequantized(group.q[n], group) = x
      BY <1>5 DEF Dequantized
    <2>5. x \in Int /\ bound \in Int
      BY <1>1, <1>2, <1>3, <1>4, <2>2
    <2>6. bound = ErrorBound(ws, L)
      <3> HIDE DEF S, g
      <3>1. bound = S * F + 2 * L * g * F + L * L * U
        BY <1>1, <1>2
      <3> QED
        BY <3>1 DEF ErrorBound, S, g
    <2>7. AbsErr(x, w) \in Nat /\ 2 * L * AbsErr(x, w) <= bound
      <3> HIDE DEF x, w, bound
      <3>1. /\ -bound <= 2 * L * (x * WeightUnit - w * ScaleFixedPoint)
            /\ 2 * L * (x * WeightUnit - w * ScaleFixedPoint) <= bound
        BY <2>3 DEF x
      <3> QED
        BY <1>2, <2>1, <2>5, <3>1, ErrorAbsolute
    <2> QED
      BY <2>2, <2>4, <2>6, <2>7
  <1>7. DOMAIN group.q = DOMAIN ws /\ group.zero \in 0 .. L /\ group.scale \in Int
    BY <1>3, <1>4, <1>5
  <1> QED
    BY <1>6, <1>7 DEF GoodGroup

(* A group of equal weights becomes 0.                                     *)
LEMMA ConstantGroupKept ==
    ASSUME NEW ws, IsGroup(ws), NEW L \in Nat \ {0}, Units, SpreadOf(ws) = 0
    PROVE  GoodGroup(ws, L, QuantizeGroup(ws, L))
  <1> DEFINE l == LowestOf(ws)
             g == GapOf(ws)
             U == WeightUnit
             F == ScaleFixedPoint
             z0 == RoundHalfEven(-l, U)
             z == Clip(z0, L)
             group == QuantizeGroup(ws, L)
  <1>1. /\ l \in Int /\ g \in Nat /\ U \in Nat \ {0} /\ F \in Nat /\ L \in Nat
        /\ l <= g /\ -l <= g
        /\ \A n \in DOMAIN ws : ws[n] = l
    BY GroupShape DEF Units
  <1>2. z \in 0 .. L
    <2>1. z0 \in Int
      BY <1>1, RoundsToNearest
    <2> QED
      BY <1>1, <2>1, Clipping
  <1>3. /\ group.zero = z /\ group.scale = F
        /\ group.q = [n \in DOMAIN ws |-> z]
    BY DEF QuantizeGroup
  <1>4. ASSUME NEW n \in DOMAIN ws
        PROVE  /\ group.q[n] \in 0 .. L
               /\ AbsErr(Dequantized(group.q[n], group), ws[n]) \in Nat
               /\ 2 * L * AbsErr(Dequantized(group.q[n], group), ws[n]) <= ErrorBound(ws, L)
    <2>1. group.q[n] = z /\ Dequantized(group.q[n], group) = 0 /\ ws[n] = l
      BY <1>1, <1>2, <1>3 DEF Dequantized
    <2>2. ErrorBound(ws, L) = 2 * L * (g * F) + L * L * U /\ L * L * U \in Nat
      BY <1>1 DEF ErrorBound
    <2>3. l * F <= g * F /\ (-l) * F <= g * F /\ (-l) * F = -(l * F)
      BY <1>1, Monotonic
    <2>4. AbsErr(0, l) = IF -(l * F) < 0 THEN l * F ELSE -(l * F)
      <3>1. 0 * U - l * F = -(l * F) /\ -(-(l * F)) = l * F
        BY <1>1
      <3> QED
        BY <3>1 DEF AbsErr
    <2>5. AbsErr(0, l) \in Nat /\ AbsErr(0, l) <= g * F
      <3> DEFINE lF == l * F
                 gF == g * F
      <3>1. lF \in Int /\ gF \in Int /\ lF <= gF /\ -lF <= gF
        BY <1>1, <2>3
      <3> HIDE DEF lF, gF
      <3>2. AbsErr(0, l) = IF -lF < 0 THEN lF ELSE -lF
        BY <2>4 DEF lF
      <3>3. AbsErr(0, l) \in Nat /\ AbsErr(0, l) <= gF
        BY <3>1, <3>2
      <3> QED
        BY <3>3 DEF gF
    <2>6. 2 * L * AbsErr(0, l) <= 2 * L * (g * F)
      <3> DEFINE a == AbsErr(0, l)
                 b == g * F
      <3>1. a \in Nat /\ b \in Nat /\ a <= b
        BY <1>1, <2>5
      <3> HIDE DEF a, b
      <3>2. a * (2 * L) <= b * (2 * L)
        BY <1>1, <3>1, Monotonic
      <3>3. 2 * L * a <= 2 * L * b
        BY <1>1, <3>1, <3>2
      <3> QED
        BY <3>3 DEF a, b
    <2>7. 2 * L * (g * F) \in Int /\ 2 * L * AbsErr(0, l) \in Int
      BY <1>1, <2>5
    <2> QED
      BY <1>2, <2>1, <2>2, <2>5, <2>6, <2>7
  <1> QED
    BY <1>1, <1>2, <1>3, <1>4 DEF GoodGroup
(* Where a weight is in its group.                                         *)
GroupNumbers(ws) == 0 .. (Len(ws) + GroupSize - 1) \div GroupSize - 1
PlaceOf(n) == ((n - 1) % GroupSize) + 1

LEMMA Remainder ==
    ASSUME NEW a \in Nat, NEW b \in Nat \ {0}
    PROVE  a \div b \in Nat /\ a % b \in 0 .. b - 1 /\ a = (a \div b) * b + (a % b)
  <1>1. b \in Int /\ b > 0 /\ a \in Int
    OBVIOUS
  <1>2. a % b \in 0 .. b - 1 /\ a = (a \div b) * b + (a % b) /\ a \div b \in Int
    BY <1>1
  <1>3. a \div b >= 0
    BY <1>1
  <1> QED
    BY <1>2, <1>3

LEMMA GroupsAre ==
    ASSUME NEW ws, IsGroup(ws), GroupSize \in Nat \ {0}, NEW g \in GroupNumbers(ws)
    PROVE  /\ IsGroup(GroupOf(ws, g))
           /\ \A k \in DOMAIN GroupOf(ws, g) : g * GroupSize + k \in DOMAIN ws
                                               /\ GroupOf(ws, g)[k] = ws[g * GroupSize + k]
           /\ \A k \in 1 .. GroupSize : g * GroupSize + k <= Len(ws)
                                           => k \in DOMAIN GroupOf(ws, g)
  <1> DEFINE G == GroupSize
             N == Len(ws)
             base == g * G
             last == IF base + G < N THEN base + G ELSE N
  <1>1. /\ ws \in Seq(Int) /\ N \in Nat \ {0} /\ DOMAIN ws = 1 .. N /\ G \in Nat \ {0}
        /\ g \in Nat /\ base \in Nat
    BY WeightsAre DEF IsGroup, GroupNumbers
  <1>2. base < N
    <2>1. ((N + G - 1) \div G) * G <= N + G - 1
      BY <1>1, Division
    <2>2. g + 1 <= (N + G - 1) \div G /\ (N + G - 1) \div G \in Int
      BY <1>1, Division DEF GroupNumbers
    <2>3. (g + 1) * G <= ((N + G - 1) \div G) * G
      <3> DEFINE c == (N + G - 1) \div G
      <3>1. g + 1 <= c /\ c \in Int
        BY <2>2
      <3> HIDE DEF c
      <3>2. (g + 1) * G <= c * G
        BY <1>1, <3>1
      <3> QED
        BY <3>2 DEF c
    <2>4. (g + 1) * G = base + G
      BY <1>1
    <2>5. ((N + G - 1) \div G) * G \in Int
      BY <1>1, <2>2
    <2> QED
      BY <1>1, <2>1, <2>3, <2>4, <2>5
  <1>3. GroupOf(ws, g) = SubSeq(ws, base + 1, last)
    <2>1. (g + 1) * G = base + G
      BY <1>1
    <2> QED
      BY <2>1 DEF GroupOf
  <1>4. last \in Nat /\ base + 1 <= last /\ last <= N
    BY <1>1, <1>2
  <1> HIDE DEF base, last
  <1>5. /\ SubSeq(ws, base + 1, last) \in Seq(Int)
        /\ Len(SubSeq(ws, base + 1, last)) = last - base
        /\ \A k \in 1 .. last - base : SubSeq(ws, base + 1, last)[k] = ws[base + k]
    <2> DEFINE part == SubSeq(ws, base + 1, last)
    <2>1. base + 1 \in Int /\ last \in Int /\ base \in Nat
      BY <1>1, <1>4
    <2>2. \A i \in base + 1 .. last : ws[i] \in Int
      BY <1>1, <1>4, ElementOfSeq
    <2>3. /\ part \in Seq(Int)
          /\ Len(part) = IF base + 1 <= last THEN last - (base + 1) + 1 ELSE 0
          /\ \A i \in 1 .. last - (base + 1) + 1 : part[i] = ws[base + 1 + i - 1]
      BY <2>1, <2>2, SubSeqProperties
    <2> HIDE DEF part
    <2>4. Len(part) = last - base
      BY <1>4, <2>1, <2>3
    <2>5. \A i \in 1 .. last - base : part[i] = ws[base + i]
      BY <1>4, <2>1, <2>3
    <2>6. part \in Seq(Int) /\ Len(part) = last - base /\ \A i \in 1 .. last - base : part[i] = ws[base + i]
      BY <2>3, <2>4, <2>5
    <2> QED
      BY <2>6 DEF part
  <1>6. DOMAIN GroupOf(ws, g) = 1 .. last - base
    BY <1>3, <1>4, <1>5, LenProperties
  <1>7. IsGroup(GroupOf(ws, g))
    <2>1. GroupOf(ws, g) # <<>>
      <3>1. 1 \in DOMAIN GroupOf(ws, g)
        BY <1>1, <1>4, <1>6
      <3> QED
        BY <3>1
    <2> QED
      BY <1>3, <1>5, <2>1 DEF IsGroup
  <1>8. \A k \in DOMAIN GroupOf(ws, g) : base + k \in DOMAIN ws /\ GroupOf(ws, g)[k] = ws[base + k]
    BY <1>1, <1>3, <1>4, <1>5, <1>6, SMTT(30)
  <1>9. \A k \in 1 .. G : base + k <= N => k \in DOMAIN GroupOf(ws, g)
    BY <1>1, <1>4, <1>6 DEF last
  <1> QED
    BY <1>7, <1>8, <1>9 DEF base

LEMMA PlaceInGroup ==
    ASSUME NEW ws, IsGroup(ws), GroupSize \in Nat \ {0}, NEW n \in DOMAIN ws
    PROVE  /\ GroupNumber(n) \in GroupNumbers(ws)
           /\ PlaceOf(n) \in DOMAIN GroupOf(ws, GroupNumber(n))
           /\ GroupOf(ws, GroupNumber(n))[PlaceOf(n)] = ws[n]
  <1> DEFINE G == GroupSize
             N == Len(ws)
             g == GroupNumber(n)
             k == PlaceOf(n)
  <1>1. N \in Nat \ {0} /\ DOMAIN ws = 1 .. N /\ G \in Nat \ {0} /\ n \in 1 .. N
    BY WeightsAre
  <1>2. g \in Nat /\ k \in 1 .. G /\ n = g * G + k
    <2>1. n - 1 \in Nat
      BY <1>1
    <2> DEFINE m == (n - 1) % G
    <2>2. g \in Nat /\ m \in 0 .. G - 1 /\ n - 1 = g * G + m
      BY <1>1, <2>1, Remainder DEF GroupNumber
    <2>3. k = m + 1
      BY DEF PlaceOf
    <2> HIDE DEF m, g, k
    <2>4. g * G \in Nat
      BY <1>1, <2>2
    <2> QED
      BY <1>1, <2>2, <2>3, <2>4
  <1> HIDE DEF g, k
  <1>3. g \in GroupNumbers(ws)
    <2> DEFINE c == (N + G - 1) \div G
    <2>1. c \in Int /\ N + G - 1 < c * G + G
      BY <1>1, Division
    <2> HIDE DEF c
    <2>2. g * G < c * G
      <3>1. g * G + 1 <= N /\ g * G \in Int /\ c * G \in Int
        BY <1>1, <1>2, <2>1
      <3> QED
        BY <1>1, <2>1, <3>1
    <2>3. g < c
      <3>1. g >= c => g * G >= c * G
        BY <1>1, <1>2, <2>1
      <3> QED
        BY <1>1, <1>2, <2>1, <2>2, <3>1
    <2>4. g \in 0 .. c - 1
      BY <1>2, <2>1, <2>3
    <2> QED
      BY <2>4 DEF c, GroupNumbers
  <1>4. k \in DOMAIN GroupOf(ws, g)
    BY <1>1, <1>2, <1>3, GroupsAre
  <1>5. GroupOf(ws, g)[k] = ws[n]
    BY <1>1, <1>2, <1>3, <1>4, GroupsAre
  <1> QED
    BY <1>3, <1>4, <1>5 DEF g, k

(* No group spans more than the matrix.                                    *)
LEMMA SpreadWithin ==
    ASSUME NEW ws, IsGroup(ws), GroupSize \in Nat \ {0}, NEW g \in GroupNumbers(ws)
    PROVE  /\ SpreadOf(GroupOf(ws, g)) \in Nat /\ SpreadOf(ws) \in Nat
           /\ SpreadOf(GroupOf(ws, g)) <= SpreadOf(ws)
  <1> DEFINE gr == GroupOf(ws, g)
  <1>1. IsGroup(gr) /\ \A k \in DOMAIN gr : \E n \in DOMAIN ws : gr[k] = ws[n]
    BY GroupsAre
  <1> HIDE DEF gr
  <1>2. Spans(gr, LowestOf(gr), HighestOf(gr)) /\ Spans(ws, LowestOf(ws), HighestOf(ws))
    BY <1>1, WeightsSpan
  <1>3. LowestOf(ws) <= LowestOf(gr) /\ HighestOf(gr) <= HighestOf(ws)
    BY <1>1, <1>2 DEF Spans
  <1>4. SpreadOf(gr) \in Nat /\ SpreadOf(ws) \in Nat /\ SpreadOf(gr) <= SpreadOf(ws)
    BY <1>2, <1>3 DEF Spans, SpreadOf
  <1> QED
    BY <1>4 DEF gr

(* The indices of a matrix, each within its group.                         *)
Levels(bits) == 2^bits - 1
Quantized(ws, bits) == QuantizeGroups(ws, Levels(bits))
Indices(ws, bits) == GroupIndices(ws, Quantized(ws, bits))
LEMMA LevelsAre == Levels(4) = 15 /\ Levels(8) = 255
  BY DEF Levels

LEMMA Nibbles ==
    ASSUME NEW a \in 0 .. 15, NEW c \in 0 .. 15
    PROVE  /\ (a \div 1) % 16 = a
           /\ ((a + 16 * c) \div 16) % 16 = c /\ ((a + 16 * c) \div 1) % 16 = a
  OBVIOUS

LEMMA IndicesKept ==
    ASSUME NEW ws, IsGroup(ws), NEW bits \in {4, 8}, GroupSize \in Nat \ {0}, Units
    PROVE  /\ DOMAIN Indices(ws, bits) = 1 .. Len(ws) /\ Len(ws) \in Nat
           /\ DOMAIN Quantized(ws, bits) = GroupNumbers(ws)
           /\ \A n \in 1 .. Len(ws) :
                LET group == Quantized(ws, bits)[GroupNumber(n)]
                    x == Dequantized(Indices(ws, bits)[n], group)
                IN  /\ GroupNumber(n) \in GroupNumbers(ws)
                    /\ Indices(ws, bits)[n] \in 0 .. Levels(bits)
                    /\ AbsErr(x, ws[n]) \in Nat
                    /\ 2 * Levels(bits) * AbsErr(x, ws[n])
                         <= ErrorBound(GroupOf(ws, GroupNumber(n)), Levels(bits))
  <1>1. DOMAIN ws = 1 .. Len(ws) /\ Len(ws) \in Nat
    BY WeightsAre
  <1>2. Levels(bits) \in Nat \ {0}
    BY LevelsAre
  <1>3. DOMAIN Quantized(ws, bits) = GroupNumbers(ws)
    BY DEF Quantized, QuantizeGroups, GroupNumbers
  <1>4. DOMAIN Indices(ws, bits) = 1 .. Len(ws)
    BY <1>1 DEF Indices, GroupIndices
  <1>5. ASSUME NEW n \in 1 .. Len(ws)
        PROVE  LET group == Quantized(ws, bits)[GroupNumber(n)]
                   x == Dequantized(Indices(ws, bits)[n], group)
               IN  /\ GroupNumber(n) \in GroupNumbers(ws)
                   /\ Indices(ws, bits)[n] \in 0 .. Levels(bits)
                   /\ AbsErr(x, ws[n]) \in Nat
                   /\ 2 * Levels(bits) * AbsErr(x, ws[n])
                         <= ErrorBound(GroupOf(ws, GroupNumber(n)), Levels(bits))
    <2> DEFINE g == GroupNumber(n)
               k == PlaceOf(n)
               part == GroupOf(ws, g)
               group == Quantized(ws, bits)[g]
    <2>1. g \in GroupNumbers(ws) /\ k \in DOMAIN part /\ part[k] = ws[n]
      BY <1>1, PlaceInGroup
    <2>2. IsGroup(part)
      BY <2>1, GroupsAre
    <2>3. group = QuantizeGroup(part, Levels(bits))
      BY <2>1 DEF Quantized, QuantizeGroups, GroupNumbers
    <2>4. GoodGroup(part, Levels(bits), group)
      <3> HIDE DEF g, part, group
      <3> QED
        BY <1>2, <2>2, <2>3, GroupKept, ConstantGroupKept
    <2>5. Indices(ws, bits)[n] = group.q[k]
      BY <1>1 DEF Indices, GroupIndices, PlaceOf
    <2> QED
      BY <2>1, <2>4, <2>5 DEF GoodGroup
  <1> QED
    BY <1>1, <1>3, <1>4, <1>5

(* The kernel reads every index back.                                      *)
Bytes(ix, bits) == IF bits = 4 THEN PackIndices4bit(ix) ELSE RawIndices(ix)
ByteIndex(bytes, n, bits) == IF bits = 8 THEN bytes[n - 1] ELSE ReadIndex(bytes, n, 4)
LEMMA IndexReadBack ==
    ASSUME NEW N \in Nat, NEW ix, DOMAIN ix = 1 .. N, Len(ix) = N, NEW bits \in {4, 8},
           \A n \in 1 .. N : ix[n] \in 0 .. Levels(bits), NEW n \in 1 .. N
    PROVE  ByteIndex(Bytes(ix, bits), n, bits) = ix[n]
  <1>1. CASE bits = 8
    <2>1. n - 1 \in 0 .. N - 1 /\ n - 1 + 1 = n
      OBVIOUS
    <2> QED
      BY <1>1, <2>1 DEF Bytes, ByteIndex, RawIndices
  <1>2. CASE bits = 4
    <2> DEFINE b == (n - 1) \div 2
               half == (n - 1) % 2
               bytes == PackIndices4bit(ix)
    <2>1. b \in 0 .. ((N + 1) \div 2) - 1 /\ (half = 0 \/ half = 1) /\ n = 2 * b + half + 1
      OBVIOUS
    <2>2. \A m \in 1 .. N : ix[m] \in 0 .. 15
      BY <1>2, LevelsAre
    <2>3. bytes[b] = ix[2 * b + 1] + (IF 2 * b + 2 <= N THEN 16 * ix[2 * b + 2] ELSE 0)
      BY <2>1 DEF PackIndices4bit
    <2>4. ByteIndex(Bytes(ix, bits), n, bits) = (bytes[b] \div 2^(half * 4)) % 16
      BY <1>2 DEF Bytes, ByteIndex, ReadIndex
    <2> HIDE DEF b, half, bytes
    <2>5. CASE half = 0
      <3>1. 2 * b + 1 = n /\ b \in Nat
        BY <2>1, <2>5
      <3>2. ix[n] \in 0 .. 15 /\ (2 * b + 2 <= N => ix[2 * b + 2] \in 0 .. 15)
        BY <2>2, <3>1
      <3>3. bytes[b] = ix[n] \/ (2 * b + 2 <= N /\ bytes[b] = ix[n] + 16 * ix[2 * b + 2])
        <4>1. CASE 2 * b + 2 <= N
          BY <2>3, <3>1, <4>1
        <4>2. CASE ~ (2 * b + 2 <= N)
          BY <2>3, <3>1, <3>2, <4>2
        <4> QED
          BY <4>1, <4>2
      <3>4. (bytes[b] \div 1) % 16 = ix[n]
        <4> DEFINE a == ix[n]
                   c == ix[2 * b + 2]
        <4>1. a \in 0 .. 15 /\ (2 * b + 2 <= N => c \in 0 .. 15)
              /\ (bytes[b] = a \/ (2 * b + 2 <= N /\ bytes[b] = a + 16 * c))
          BY <3>2, <3>3
        <4> HIDE DEF a, c
        <4>2. CASE bytes[b] = a
          BY <4>1, <4>2, Nibbles DEF a
        <4>3. CASE 2 * b + 2 <= N /\ bytes[b] = a + 16 * c
          BY <4>1, <4>3, Nibbles, ZenonT(40) DEF a
        <4> QED
          BY <4>1, <4>2, <4>3
      <3>5. 2^(half * 4) = 1
        BY <2>5
      <3> QED
        BY <2>4, <3>4, <3>5
    <2>6. CASE half = 1
      <3>1. 2 * b + 2 = n /\ b \in Nat /\ 2 * b + 1 \in 1 .. N
        BY <2>1, <2>6
      <3>2. ix[n] \in 0 .. 15 /\ ix[2 * b + 1] \in 0 .. 15
        BY <2>2, <3>1
      <3>3. bytes[b] = ix[2 * b + 1] + 16 * ix[n]
        <4>1. 2 * b + 2 <= N
          BY <3>1
        <4> QED
          BY <2>3, <3>1, <4>1
      <3>4. (bytes[b] \div 16) % 16 = ix[n]
        <4> DEFINE a == ix[2 * b + 1]
                   c == ix[n]
        <4>1. a \in 0 .. 15 /\ c \in 0 .. 15 /\ bytes[b] = a + 16 * c
          BY <3>2, <3>3
        <4> HIDE DEF a, c
        <4> QED
          BY <4>1, Nibbles, ZenonT(40) DEF c
      <3>5. 2^(half * 4) = 16
        BY <2>6
      <3> QED
        BY <2>4, <3>4, <3>5
    <2> QED
      BY <2>1, <2>5, <2>6
  <1> QED
    BY <1>1, <1>2

(* What QuantizeMatrix leaves behind is all a function of the matrix.      *)
Stored(gs) == [g \in DOMAIN gs |-> [zero |-> gs[g].zero, scale |-> gs[g].scale]]
GroupedAs(bits) ==
    /\ width = bits
    /\ groups = Stored(Quantized(matrix, bits))
    /\ packed = Bytes(Indices(matrix, bits), bits)
    /\ gate = ValidateRoundtrip(Dequantize(Indices(matrix, bits), Quantized(matrix, bits)), bits)
QuantInv ==
    /\ matrix \in Matrices
    /\ stage = "grouped" => \E bits \in {4, 8} : GroupedAs(bits)

LEMMA QuantStarts == QuantInit => QuantInv
  BY DEF QuantInit, QuantStart, QuantInv

LEMMA QuantSteps == QuantInv /\ [QuantNext]_quantVars => QuantInv'
  <1> SUFFICES ASSUME QuantInv, [QuantNext]_quantVars PROVE QuantInv'
    OBVIOUS
  <1>1. matrix \in Matrices
    BY DEF QuantInv
  <1>2. ASSUME NEW e, NEW bits, BeginLloyd(e, bits) PROVE QuantInv'
    <2>1. matrix' = matrix /\ stage' = "iterate"
      BY <1>2 DEF BeginLloyd
    <2> QED
      BY <1>1, <2>1 DEF QuantInv
  <1>3. CASE Iterate
    <2>1. matrix' = matrix /\ stage' = "iterate"
      BY <1>3 DEF Iterate
    <2> QED
      BY <1>1, <2>1 DEF QuantInv
  <1>4. CASE PackMatrix
    <2>1. matrix' = matrix /\ stage' = "packed"
      BY <1>4 DEF PackMatrix
    <2> QED
      BY <1>1, <2>1 DEF QuantInv
  <1>5. ASSUME NEW bits \in {4, 8}, QuantizeMatrix(bits) PROVE QuantInv'
    <2>1. /\ width' = bits /\ matrix' = matrix
          /\ groups' = Stored(Quantized(matrix, bits))
          /\ packed' = Bytes(Indices(matrix, bits), bits)
          /\ gate' = ValidateRoundtrip(Dequantize(Indices(matrix, bits),
                                                  Quantized(matrix, bits)), bits)
      BY <1>5 DEF QuantizeMatrix, Stored, Quantized, Indices, Bytes, Levels
    <2>2. \A values : ValidateRoundtrip(values, bits)' = ValidateRoundtrip(values, bits)
      BY <2>1 DEF ValidateRoundtrip, Within
    <2>3. GroupedAs(bits)'
      BY <2>1, <2>2 DEF GroupedAs
    <2> QED
      BY <1>1, <2>1, <2>3 DEF QuantInv
  <1>6. CASE UNCHANGED quantVars
    <2>1. /\ matrix' = matrix /\ stage' = stage /\ width' = width /\ groups' = groups
          /\ packed' = packed /\ gate' = gate
      BY <1>6 DEF quantVars
    <2>2. ASSUME NEW bits, GroupedAs(bits) PROVE GroupedAs(bits)'
      BY <2>1, <2>2 DEF GroupedAs, ValidateRoundtrip, Within
    <2> QED
      BY <2>1, <2>2 DEF QuantInv
  <1> QED
    BY <1>2, <1>3, <1>4, <1>5, <1>6 DEF QuantNext

(* What the kernel computes is what dequantize does.                       *)
Value(n, bits) ==
    Dequantized(Indices(matrix, bits)[n], Quantized(matrix, bits)[GroupNumber(n)])
LEMMA KernelDequantizes ==
    ASSUME IsGroup(matrix), GroupSize \in Nat \ {0}, Units, NEW bits \in {4, 8}, GroupedAs(bits),
           NEW n \in 1 .. Len(matrix)
    PROVE  /\ KernelWeight(packed, groups, n, width) = Value(n, bits)
           /\ Dequantize(Indices(matrix, bits), Quantized(matrix, bits))[n] = Value(n, bits)
  <1> DEFINE N == Len(matrix)
             ix == Indices(matrix, bits)
             gs == Quantized(matrix, bits)
  <1>1. /\ DOMAIN ix = 1 .. N /\ N \in Nat
        /\ DOMAIN gs = GroupNumbers(matrix) /\ GroupNumber(n) \in GroupNumbers(matrix)
        /\ \A m \in 1 .. N : ix[m] \in 0 .. Levels(bits)
    BY IndicesKept
  <1>2. Len(ix) = N
    <2>1. ix = [m \in 1 .. N |-> ix[m]]
      BY <1>1, WeightsAre DEF Indices, GroupIndices
    <2> HIDE DEF ix
    <2>2. ix \in [1 .. N -> 0 .. Levels(bits)]
      BY <1>1, <2>1
    <2>3. ix \in Seq(0 .. Levels(bits))
      BY <1>1, <2>2, SeqDef
    <2> QED
      BY <1>1, <2>3, LenProperties
  <1>3. ByteIndex(Bytes(ix, bits), n, bits) = ix[n]
    <2> HIDE DEF ix
    <2> QED
      BY <1>1, <1>2, IndexReadBack
  <1>4. packed = Bytes(ix, bits) /\ width = bits /\ groups = Stored(gs)
    BY DEF GroupedAs
  <1>5. /\ groups[GroupNumber(n)].zero = gs[GroupNumber(n)].zero
        /\ groups[GroupNumber(n)].scale = gs[GroupNumber(n)].scale
    BY <1>1, <1>4 DEF Stored
  <1>6. KernelWeight(packed, groups, n, width)
          = Dequantized(ByteIndex(Bytes(ix, bits), n, bits), groups[GroupNumber(n)])
    BY <1>4 DEF KernelWeight, ByteIndex
  <1>7. KernelWeight(packed, groups, n, width) = Value(n, bits)
    BY <1>3, <1>5, <1>6 DEF Dequantized, Value
  <1>8. Dequantize(ix, gs)[n] = Value(n, bits)
    BY <1>1 DEF Dequantize, Value
  <1> QED
    BY <1>7, <1>8

(* Half a step, and what the scale is rounded, are less than the gate.     *)
LEMMA HalfStepPasses ==
    ASSUME NEW bits \in {4, 8}, NEW a \in Nat, NEW SF \in Nat, NEW gF \in Nat, NEW U \in Nat \ {0},
           gF <= SF, 16000 * U <= SF,
           2 * Levels(bits) * a <= gF + Levels(bits) * Levels(bits) * U
    PROVE  100 * a < Percent(bits) * SF
  <1>1. CASE bits = 4
    <2>1. 30 * a <= SF + 225 * U
      BY <1>1, LevelsAre
    <2>2. Percent(bits) = 5
      BY <1>1 DEF Percent
    <2> QED
      BY <2>1, <2>2
  <1>2. CASE bits = 8
    <2>1. 510 * a <= SF + 65025 * U
      BY <1>2, LevelsAre
    <2>2. Percent(bits) = 1
      BY <1>2 DEF Percent
    <2> QED
      BY <2>1, <2>2
  <1> QED
    BY <1>1, <1>2

LEMMA GateOpens ==
    ASSUME IsGroup(matrix), GroupSize \in Nat \ {0}, Units, NEW bits \in {4, 8}, GroupedAs(bits),
           SpansEnough, \A g \in DOMAIN groups : GapOf(GroupOf(matrix, g)) = 0
    PROVE  gate = "pass"
  <1> DEFINE F == ScaleFixedPoint
             S == SpreadOf(matrix)
             values == Dequantize(Indices(matrix, bits), Quantized(matrix, bits))
  <1>1. DOMAIN matrix = 1 .. Len(matrix) /\ F \in Nat \ {0} /\ WeightUnit \in Nat \ {0}
    BY WeightsAre DEF Units
  <1>2. DOMAIN groups = GroupNumbers(matrix)
    BY IndicesKept DEF GroupedAs, Stored
  <1>3. ASSUME NEW n \in 1 .. Len(matrix) PROVE Within(values[n], matrix[n], Percent(bits))
    <2> DEFINE g == GroupNumber(n)
               a == AbsErr(Value(n, bits), matrix[n])
               T == SpreadOf(GroupOf(matrix, g))
               L == Levels(bits)
    <2>1. g \in GroupNumbers(matrix) /\ a \in Nat /\ 2 * L * a <= ErrorBound(GroupOf(matrix, g), L)
      BY IndicesKept DEF Value
    <2>2. T \in Nat /\ S \in Nat /\ T <= S
      BY <2>1, SpreadWithin
    <2>3. L \in Nat
      BY LevelsAre
    <2>4. ErrorBound(GroupOf(matrix, g), L) = T * F + L * L * WeightUnit
      <3>1. GapOf(GroupOf(matrix, g)) = 0
        BY <1>2, <2>1
      <3>2. 2 * L * 0 * F = 0
        BY <1>1, <2>3
      <3>3. T * F \in Nat /\ L * L * WeightUnit \in Nat
        BY <1>1, <2>2, <2>3
      <3> HIDE DEF L
      <3> QED
        BY <3>1, <3>2, <3>3 DEF ErrorBound
    <2>5. T * F <= S * F /\ T * F \in Nat /\ S * F \in Nat
      BY <1>1, <2>2, Monotonic
    <2>6. 16000 * WeightUnit <= S * F
      BY DEF SpansEnough
    <2>7. 100 * a < Percent(bits) * (S * F)
      <3> HIDE DEF T, S, F, a, g
      <3>1. 2 * Levels(bits) * a <= T * F + Levels(bits) * Levels(bits) * WeightUnit
        BY <2>1, <2>4
      <3> DEFINE SF == S * F
                 TF == T * F
      <3>2. SF \in Nat /\ TF \in Nat /\ TF <= SF /\ 16000 * WeightUnit <= SF
            /\ 2 * Levels(bits) * a <= TF + Levels(bits) * Levels(bits) * WeightUnit
        BY <2>5, <2>6, <3>1
      <3> HIDE DEF SF, TF
      <3>3. 100 * a < Percent(bits) * SF
        BY <1>1, <2>1, <3>2, HalfStepPasses
      <3> QED
        BY <3>3 DEF SF
    <2>8. Percent(bits) * (S * F) = Percent(bits) * S * F
      <3>1. Percent(bits) \in Nat
        BY DEF Percent
      <3> QED
        BY <1>1, <2>2, <3>1
    <2>9. values[n] = Value(n, bits)
      BY KernelDequantizes
    <2> QED
      BY <2>7, <2>8, <2>9 DEF Within
  <1>4. \A n \in DOMAIN matrix : Within(values[n], matrix[n], Percent(bits))
    BY <1>1, <1>3
  <1> QED
    BY <1>4 DEF GroupedAs, ValidateRoundtrip

LEMMA DecodedAsGrouped == QuantInv => GroupwiseDecoded
  <1> SUFFICES ASSUME QuantInv, stage = "grouped" PROVE GroupwiseDecoded
    BY DEF GroupwiseDecoded
  <1>1. IsGroup(matrix) /\ GroupSize \in Nat \ {0} /\ Units
    BY MatrixAssumption, UnitAssumption DEF QuantInv, IsGroup, Units
  <1>2. PICK bits \in {4, 8} : GroupedAs(bits)
    BY DEF QuantInv
  <1>3. DOMAIN matrix = 1 .. Len(matrix) /\ width = bits
    BY <1>1, <1>2, WeightsAre DEF GroupedAs
  <1>4. ASSUME NEW n \in DOMAIN matrix
        PROVE  LET x == KernelWeight(packed, groups, n, width)
                   levels == 2^width - 1
               IN /\ 2 * levels * AbsErr(x, matrix[n])
                        <= ErrorBound(GroupOf(matrix, GroupNumber(n)), levels)
                  /\ gate = "pass" => Within(x, matrix[n], Percent(width))
    <2>1. KernelWeight(packed, groups, n, width) = Value(n, bits)
      BY <1>1, <1>2, <1>3, KernelDequantizes
    <2>2. 2 * Levels(bits) * AbsErr(Value(n, bits), matrix[n])
            <= ErrorBound(GroupOf(matrix, GroupNumber(n)), Levels(bits))
      BY <1>1, <1>3, IndicesKept DEF Value
    <2>3. gate = "pass" => Within(Value(n, bits), matrix[n], Percent(bits))
      <3>1. Dequantize(Indices(matrix, bits), Quantized(matrix, bits))[n] = Value(n, bits)
        BY <1>1, <1>2, <1>3, KernelDequantizes
      <3> QED
        BY <1>2, <3>1 DEF GroupedAs, ValidateRoundtrip
    <2> QED
      BY <1>3, <2>1, <2>2, <2>3 DEF Levels
  <1>5. SpansEnough /\ (\A g \in DOMAIN groups : GapOf(GroupOf(matrix, g)) = 0) => gate = "pass"
    BY <1>1, <1>2, GateOpens
  <1> QED
    BY <1>4, <1>5 DEF GroupwiseDecoded

(* Of every matrix, whatever its weights, its groups and the fixed point,  *)
(* the kernel computes weights within half a step of the exported ones, up *)
(* to the rounding of the scale and the distance of a group from 0; a      *)
(* matrix that passes the gate is as good in the kernel, and one whose     *)
(* groups reach to 0 and whose range is not too small passes it.           *)
THEOREM GroupsAlwaysDecoded == QuantSpec => []GroupwiseDecoded
  <1>1. QuantInv => GroupwiseDecoded
    BY DecodedAsGrouped
  <1> QED
    BY <1>1, QuantStarts, QuantSteps, PTL DEF QuantSpec

----------------------------------------------------------------------------
(* Lloyd-Max quantisation                                                  *)

(* A set of numbers has a least one, so what holds of 0, and of each       *)
(* number after one it holds of, holds of all.                             *)
LEMMA LeastNumber ==
    ASSUME NEW T, T \subseteq Nat, T # {}
    PROVE  \E n \in T : \A m \in T : n <= m
  <1>1. PICK n \in T : \A m \in T : ~ (<<m, n>> \in OpToRel(<, Nat))
    BY WFMin, NatLessThanWellFounded
  <1>2. ASSUME NEW m \in T PROVE n <= m
    <2>1. ~ (m < n)
      BY <1>1 DEF OpToRel
    <2> QED
      BY <2>1
  <1> QED
    BY <1>2
LEMMA UpTo ==
    ASSUME NEW N \in Nat, NEW S, 0 \in S, \A n \in 1 .. N : n - 1 \in S => n \in S
    PROVE  \A n \in 0 .. N : n \in S
  <1> DEFINE T == {n \in 0 .. N : n \notin S}
  <1> SUFFICES ASSUME T # {} PROVE FALSE
    OBVIOUS
  <1>1. PICK n \in T : \A m \in T : n <= m
    <2>1. T \subseteq Nat
      OBVIOUS
    <2> HIDE DEF T
    <2> QED
      BY <2>1, LeastNumber
  <1>2. n \in 0 .. N /\ n \notin S
    OBVIOUS
  <1>3. n # 0
    BY <1>2
  <1>4. n \in 1 .. N /\ n - 1 \in 0 .. N /\ ~ (n <= n - 1)
    BY <1>2, <1>3
  <1>5. n - 1 \in S
    BY <1>1, <1>4
  <1> QED
    BY <1>2, <1>4, <1>5

(* Sums of a sequence exist, begin at 0 and grow number by number.         *)
SumsRec(s, g) == g = [n \in 0 .. Len(s) |-> IF n = 0 THEN 0 ELSE g[n - 1] + s[n]]
Summed(s, g, N) ==
    g \in [0 .. N -> Int] /\ g[0] = 0 /\ \A n \in 1 .. N : g[n] = g[n - 1] + s[n]
LEMMA SumsExist ==
    ASSUME NEW s \in Seq(Int)
    PROVE  \E g : Summed(s, g, Len(s))
  <1> DEFINE N == Len(s)
             S == {n \in 0 .. N : \E g : Summed(s, g, n)}
  <1>1. N \in Nat /\ \A n \in 1 .. N : s[n] \in Int
    BY LenProperties, ElementOfSeq
  <1>2. 0 \in S
    <2>1. Summed(s, [n \in 0 .. 0 |-> 0], 0)
      BY DEF Summed
    <2> QED
      BY <1>1, <2>1
  <1>3. ASSUME NEW n \in 1 .. N, n - 1 \in S PROVE n \in S
    <2>1. PICK g : Summed(s, g, n - 1)
      BY <1>3
    <2> DEFINE h == [k \in 0 .. n |-> IF k = n THEN g[n - 1] + s[n] ELSE g[k]]
    <2>2. /\ n \in Nat /\ n # 0 /\ n - 1 \in 0 .. n - 1 /\ s[n] \in Int
          /\ \A k \in 0 .. n : k # n => k \in 0 .. n - 1
      BY <1>1
    <2>3. h \in [0 .. n -> Int] /\ h[0] = 0
      BY <2>1, <2>2 DEF Summed
    <2>4. ASSUME NEW k \in 1 .. n PROVE h[k] = h[k - 1] + s[k]
      <3>1. k \in 0 .. n /\ k - 1 \in 0 .. n /\ k - 1 # n
        BY <2>2
      <3>2. CASE k = n
        BY <3>1, <3>2
      <3>3. CASE k # n
        <4>1. k \in 1 .. n - 1
          BY <2>2, <3>3
        <4> QED
          BY <2>1, <3>1, <3>3, <4>1 DEF Summed
      <3> QED
        BY <3>2, <3>3
    <2>5. Summed(s, h, n)
      <3> HIDE DEF h
      <3> QED
        BY <2>3, <2>4 DEF Summed
    <2>6. n \in 0 .. N
      BY <1>1
    <2> QED
      BY <2>5, <2>6
  <1>4. N \in S
    <2> HIDE DEF S, N
    <2>1. \A n \in 0 .. N : n \in S
      BY <1>1, <1>2, <1>3, UpTo
    <2> QED
      BY <1>1, <2>1
  <1> QED
    BY <1>4
LEMMA SumsGrow ==
    ASSUME NEW s \in Seq(Int)
    PROVE  Summed(s, Sums(s), Len(s))
  <1> DEFINE N == Len(s)
             g == Sums(s)
             S == {n \in 0 .. N : g[n] \in Int}
  <1>1. N \in Nat /\ \A n \in 1 .. N : s[n] \in Int
    BY LenProperties, ElementOfSeq
  <1>2. SumsRec(s, g)
    <2>1. PICK h : Summed(s, h, N)
      BY SumsExist
    <2>2. SumsRec(s, h)
      <3>1. h = [n \in 0 .. N |-> h[n]]
        BY <2>1 DEF Summed
      <3>2. \A n \in 0 .. N : h[n] = IF n = 0 THEN 0 ELSE h[n - 1] + s[n]
        BY <1>1, <2>1 DEF Summed
      <3> QED
        BY <3>1, <3>2 DEF SumsRec
    <2>3. Sums(s) = CHOOSE f : SumsRec(s, f)
      BY DEF Sums, SumsRec
    <2> QED
      BY <2>2, <2>3
  <1> HIDE DEF g
  <1>3. /\ DOMAIN g = 0 .. N /\ g = [n \in 0 .. N |-> g[n]]
        /\ \A n \in 0 .. N : g[n] = IF n = 0 THEN 0 ELSE g[n - 1] + s[n]
    BY <1>2 DEF SumsRec
  <1>4. g[0] = 0 /\ \A n \in 1 .. N : g[n] = g[n - 1] + s[n]
    <2>1. 0 \in 0 .. N /\ \A n \in 1 .. N : n \in 0 .. N /\ n # 0
      BY <1>1
    <2> QED
      BY <1>3, <2>1
  <1>5. \A n \in 0 .. N : n \in S
    <2>1. 0 \in S
      BY <1>1, <1>4
    <2>2. ASSUME NEW n \in 1 .. N, n - 1 \in S PROVE n \in S
      <3>1. n \in 0 .. N /\ g[n - 1] \in Int /\ s[n] \in Int
        BY <1>1, <2>2
      <3> QED
        BY <1>4, <3>1
    <2> HIDE DEF S, N
    <2> QED
      BY <1>1, <2>1, <2>2, UpTo
  <1> QED
    BY <1>3, <1>4, <1>5 DEF Summed, g

LEMMA SumTyped ==
    ASSUME NEW s \in Seq(Int)
    PROVE  SumOf(s) \in Int
  <1>1. Len(s) \in Nat /\ Len(s) \in 0 .. Len(s)
    BY LenProperties
  <1> QED
    BY <1>1, SumsGrow DEF Summed, SumOf

(* What relates sums number by number relates the sums.                    *)
LEMMA SumsOrdered ==
    ASSUME NEW s \in Seq(Int), NEW t \in Seq(Int), Len(s) = Len(t),
           \A n \in 1 .. Len(s) : s[n] <= t[n]
    PROVE  SumOf(s) <= SumOf(t)
  <1> DEFINE N == Len(s)
             g == Sums(s)
             h == Sums(t)
             S == {n \in 0 .. N : g[n] <= h[n]}
  <1>1. N \in Nat /\ N \in 0 .. N /\ \A n \in 1 .. N : s[n] \in Int /\ t[n] \in Int
    BY LenProperties, ElementOfSeq
  <1>2. Summed(s, g, N) /\ Summed(t, h, N)
    BY SumsGrow
  <1> HIDE DEF g, h
  <1>3. 0 \in S
    BY <1>1, <1>2 DEF Summed
  <1>4. ASSUME NEW n \in 1 .. N, n - 1 \in S PROVE n \in S
    <2>1. n \in 0 .. N /\ n - 1 \in 0 .. N
      BY <1>1
    <2>2. /\ g[n - 1] \in Int /\ h[n - 1] \in Int /\ g[n - 1] <= h[n - 1]
          /\ g[n] = g[n - 1] + s[n] /\ h[n] = h[n - 1] + t[n]
      BY <1>2, <1>4, <2>1 DEF Summed
    <2>3. s[n] \in Int /\ t[n] \in Int /\ s[n] <= t[n]
      BY <1>1
    <2>4. g[n] <= h[n]
      BY <2>2, <2>3
    <2> QED
      BY <2>1, <2>4
  <1>5. N \in S
    <2> HIDE DEF S, N
    <2> QED
      BY <1>1, <1>3, <1>4, UpTo
  <1> QED
    BY <1>5 DEF SumOf, g, h

(* One sequence is another and multiples of two more, number by number.    *)
Mix(p, q, x, y, z) == x + (p * y + q * z)
Mixed(p, q, g, h, b, c, n) ==
    /\ g[n] \in Int /\ h[n] \in Int /\ b[n] \in Int /\ c[n] \in Int
    /\ g[n] = Mix(p, q, h[n], b[n], c[n])
Grown(g, s, m, n) == g[n] = g[m] + s[n]
LEMMA StepCombined ==
    ASSUME NEW p \in Int, NEW q \in Int, NEW m, NEW n,
           NEW g, NEW h, NEW b, NEW c, NEW s, NEW t, NEW a, NEW k,
           Mixed(p, q, g, h, b, c, m), Mixed(p, q, s, t, a, k, n),
           Grown(g, s, m, n), Grown(h, t, m, n), Grown(b, a, m, n), Grown(c, k, m, n)
    PROVE  Mixed(p, q, g, h, b, c, n)
  BY DEF Mixed, Grown, Mix
LEMMA NumbersAre ==
    ASSUME NEW s \in Seq(Int)
    PROVE  Len(s) \in Nat /\ \A n \in 1 .. Len(s) : s[n] \in Int
  BY LenProperties, ElementOfSeq
Combined(p, q, s, t, a, k) ==
    /\ Len(s) = Len(t) /\ Len(s) = Len(a) /\ Len(s) = Len(k)
    /\ \A n \in 1 .. Len(s) : s[n] = Mix(p, q, t[n], a[n], k[n])
LEMMA SumsCombined ==
    ASSUME NEW s \in Seq(Int), NEW t \in Seq(Int), NEW a \in Seq(Int), NEW k \in Seq(Int),
           NEW p \in Int, NEW q \in Int, Combined(p, q, s, t, a, k)
    PROVE  SumOf(s) = Mix(p, q, SumOf(t), SumOf(a), SumOf(k))
  <1> DEFINE N == Len(s)
             g == Sums(s)
             h == Sums(t)
             b == Sums(a)
             c == Sums(k)
             S == {n \in 0 .. N : g[n] = Mix(p, q, h[n], b[n], c[n])}
  <1>1. N \in Nat /\ N \in 0 .. N
    BY NumbersAre
  <1>2. Len(t) = N /\ Len(a) = N /\ Len(k) = N
    BY DEF Combined
  <1>3. \A n \in 1 .. N : s[n] \in Int /\ t[n] \in Int /\ a[n] \in Int /\ k[n] \in Int
    <2>1. \A n \in 1 .. N : s[n] \in Int
      BY NumbersAre
    <2>2. \A n \in 1 .. N : t[n] \in Int
      BY <1>2, NumbersAre
    <2>3. \A n \in 1 .. N : a[n] \in Int
      BY <1>2, NumbersAre
    <2>4. \A n \in 1 .. N : k[n] \in Int
      BY <1>2, NumbersAre
    <2> QED
      BY <2>1, <2>2, <2>3, <2>4
  <1>4. Summed(s, g, N) /\ Summed(t, h, N) /\ Summed(a, b, N) /\ Summed(k, c, N)
    BY <1>2, SumsGrow
  <1> HIDE DEF g, h, b, c
  <1>5. 0 \in S
    BY <1>1, <1>4 DEF Summed, Mix
  <1>6. ASSUME NEW n \in 1 .. N, n - 1 \in S PROVE n \in S
    <2>1. n \in 0 .. N /\ n - 1 \in 0 .. N
      BY <1>1
    <2>2. Mixed(p, q, g, h, b, c, n - 1)
      BY <1>4, <1>6, <2>1 DEF Summed, Mixed
    <2>3. Mixed(p, q, s, t, a, k, n)
      BY <1>3 DEF Combined, Mixed
    <2>4. Grown(g, s, n - 1, n) /\ Grown(h, t, n - 1, n)
          /\ Grown(b, a, n - 1, n) /\ Grown(c, k, n - 1, n)
      BY <1>4 DEF Summed, Grown
    <2>5. Mixed(p, q, g, h, b, c, n)
      BY ONLY <2>2, <2>3, <2>4, p \in Int, q \in Int, StepCombined
    <2> QED
      BY <2>1, <2>5 DEF Mixed
  <1>7. N \in S
    <2> HIDE DEF S, N
    <2> QED
      BY <1>1, <1>5, <1>6, UpTo
  <1> QED
    BY <1>7, <1>2 DEF SumOf, g, h, b, c

(* Ones, where a set has a position, sum up to its size.                   *)
UpToIn(M, n) == {m \in M : m <= n}
GrowsTo(M, N) ==
    \A n \in 1 .. N :
        /\ n \in M => /\ UpToIn(M, n) = UpToIn(M, n - 1) \cup {n}
                      /\ n \notin UpToIn(M, n - 1)
        /\ n \notin M => UpToIn(M, n) = UpToIn(M, n - 1)
LEMMA UpToGrows ==
    ASSUME NEW N \in Nat, NEW M, M \subseteq 1 .. N
    PROVE  /\ UpToIn(M, 0) = {} /\ UpToIn(M, N) = M
           /\ GrowsTo(M, N)
  <1>1. \A m \in M : m \in Int /\ 1 <= m /\ m <= N
    OBVIOUS
  <1>2. UpToIn(M, 0) = {} /\ UpToIn(M, N) = M
    <2>1. \A m \in M : ~ (m <= 0)
      BY <1>1
    <2> QED
      BY <1>1, <2>1, Zenon DEF UpToIn
  <1>3. ASSUME NEW n \in 1 .. N, NEW m \in M
        PROVE  /\ m <= n <=> m <= n - 1 \/ m = n
               /\ m <= n - 1 => m # n
    BY <1>1
  <1>4. \A n \in 1 .. N : n \in M => /\ UpToIn(M, n) = UpToIn(M, n - 1) \cup {n}
                                     /\ n \notin UpToIn(M, n - 1)
    BY ONLY <1>3, ZenonT(40) DEF UpToIn
  <1>5. \A n \in 1 .. N : n \notin M => UpToIn(M, n) = UpToIn(M, n - 1)
    <2> SUFFICES ASSUME NEW n \in 1 .. N, n \notin M
                 PROVE  UpToIn(M, n) = UpToIn(M, n - 1)
      OBVIOUS
    <2>1. \A m \in M : m <= n <=> m <= n - 1
      <3>1. \A m \in M : m # n
        OBVIOUS
      <3> QED
        BY <1>3, <3>1
    <2>2. \A m : m \in UpToIn(M, n) <=> m \in UpToIn(M, n - 1)
      BY ONLY <2>1, Zenon DEF UpToIn
    <2> QED
      BY <2>2 DEF UpToIn
  <1> QED
    BY <1>2, <1>4, <1>5, Zenon DEF GrowsTo
LEMMA OnesCounted ==
    ASSUME NEW k \in Seq(Int), NEW M, M \subseteq 1 .. Len(k),
           \A n \in 1 .. Len(k) : k[n] = IF n \in M THEN 1 ELSE 0
    PROVE  SumOf(k) = Cardinality(M)
  <1> DEFINE N == Len(k)
             g == Sums(k)
             S == {n \in 0 .. N : IsFiniteSet(UpToIn(M, n)) /\ g[n] = Cardinality(UpToIn(M, n))}
  <1>1. N \in Nat /\ N \in 0 .. N
    BY LenProperties
  <1>2. Summed(k, g, N)
    BY SumsGrow
  <1> HIDE DEF g
  <1>3. GrowsTo(M, N)
    BY <1>1, UpToGrows
  <1>4. 0 \in S
    <2>1. g[0] = 0
      BY <1>2 DEF Summed
    <2>3. UpToIn(M, 0) = {}
      BY <1>1, UpToGrows
    <2>2. IsFiniteSet({}) /\ Cardinality({}) = 0
      BY FS_EmptySet
    <2> QED
      <3> HIDE DEF N
      <3>1. IsFiniteSet(UpToIn(M, 0)) /\ g[0] = Cardinality(UpToIn(M, 0))
        BY <2>1, <2>2, <2>3
      <3> QED
        BY <1>1, <3>1
  <1>5. ASSUME NEW n \in 1 .. N, n - 1 \in S PROVE n \in S
    <2>1. n \in 0 .. N
      BY <1>1
    <2>2. /\ IsFiniteSet(UpToIn(M, n - 1)) /\ g[n - 1] = Cardinality(UpToIn(M, n - 1))
          /\ g[n] = g[n - 1] + k[n] /\ Cardinality(UpToIn(M, n - 1)) \in Nat
      BY <1>2, <1>5, FS_CardinalityType DEF Summed
    <2>3. CASE n \in M
      <3>1. UpToIn(M, n) = UpToIn(M, n - 1) \cup {n} /\ n \notin UpToIn(M, n - 1)
        BY <1>3, <2>3 DEF GrowsTo
      <3>2. /\ IsFiniteSet(UpToIn(M, n - 1) \cup {n})
            /\ Cardinality(UpToIn(M, n - 1) \cup {n}) = Cardinality(UpToIn(M, n - 1)) + 1
        <4> QED
          BY <2>2, <3>1, FS_AddElement
      <3>3. k[n] = 1
        BY <2>3
      <3>4. IsFiniteSet(UpToIn(M, n)) /\ g[n] = Cardinality(UpToIn(M, n))
        BY <2>2, <3>1, <3>2, <3>3
      <3> QED
        BY <2>1, <3>4
    <2>4. CASE n \notin M
      <3>1. UpToIn(M, n) = UpToIn(M, n - 1)
        BY <1>3, <2>4 DEF GrowsTo
      <3>2. k[n] = 0
        BY <2>4
      <3>3. IsFiniteSet(UpToIn(M, n)) /\ g[n] = Cardinality(UpToIn(M, n))
        BY <2>2, <3>1, <3>2
      <3> QED
        BY <2>1, <3>3
    <2> QED
      BY <2>3, <2>4
  <1>6. N \in S
    <2> HIDE DEF S, N
    <2> QED
      BY <1>1, <1>4, <1>5, UpTo
  <1>7. UpToIn(M, N) = M
    BY <1>1, UpToGrows
  <1> QED
    BY <1>6, <1>7 DEF SumOf, g

(* Of the numbers at the positions of a finite set one is the least, and   *)
(* one the greatest.                                                       *)
Values(v, D) == IsFiniteSet(D) /\ D # {} /\ \A n \in D : v[n] \in Int
LEMMA LeastValue ==
    ASSUME NEW D, NEW v, Values(v, D)
    PROVE  \E x \in D : \A y \in D : v[x] <= v[y]
  <1> DEFINE Below == [n \in D |-> {m \in D : v[m] < v[n]}]
  <1>1. IsFiniteSet(D) /\ D # {} /\ Below \in [D -> SUBSET D]
    BY DEF Values
  <1>2. PICK x \in D : \A y \in D : Below[y] \subseteq Below[x] => Below[y] = Below[x]
    <2> HIDE DEF Below
    <2> QED
      BY <1>1, SmallestSet
  <1>3. ASSUME NEW y \in D PROVE v[x] <= v[y]
    <2> SUFFICES ASSUME v[y] < v[x] PROVE FALSE
      BY DEF Values
    <2>1. Below[y] \subseteq Below[x] /\ y \in Below[x] /\ y \notin Below[y]
      BY DEF Values
    <2> HIDE DEF Below
    <2> QED
      BY <1>2, <2>1
  <1> QED
    BY <1>3
LEMMA GreatestValue ==
    ASSUME NEW D, NEW v, Values(v, D)
    PROVE  \E x \in D : \A y \in D : v[y] <= v[x]
  <1> DEFINE u == [n \in D |-> -v[n]]
  <1>1. Values(u, D)
    BY DEF Values
  <1>2. PICK x \in D : \A y \in D : u[x] <= u[y]
    <2> HIDE DEF u
    <2> QED
      BY <1>1, LeastValue
  <1> QED
    BY <1>2 DEF Values

LEMMA RankedTyped ==
    ASSUME NEW w, NEW sample, Values(w, sample), NEW r \in 1 .. Cardinality(sample)
    PROVE  Ranked(w, sample, r) \in Int
  <1> DEFINE Reached(x) == r <= Cardinality({n \in sample : w[n] <= x})
             G == {n \in sample : Reached(w[n])}
  <1>1. PICK t \in sample : \A n \in sample : w[n] <= w[t]
    BY GreatestValue
  <1>2. t \in G
    <2>1. {n \in sample : w[n] <= w[t]} = sample
      BY <1>1
    <2>2. r <= Cardinality(sample)
      <3>1. Cardinality(sample) \in Nat
        BY FS_CardinalityType DEF Values
      <3> QED
        BY <3>1
    <2> QED
      BY <2>1, <2>2
  <1>3. Values(w, G)
    <2>1. G \subseteq sample
      OBVIOUS
    <2> HIDE DEF G
    <2> QED
      BY <1>2, <2>1, FS_Subset DEF Values
  <1>4. PICK x \in G : \A y \in G : w[x] <= w[y]
    <2> HIDE DEF G
    <2> QED
      BY <1>3, LeastValue
  <1>5. /\ w[x] \in {w[n] : n \in sample} /\ Reached(w[x])
        /\ \A n \in sample : Reached(w[n]) => w[x] <= w[n]
    BY <1>4
  <1>6. Ranked(w, sample, r) \in {w[n] : n \in sample}
    <2> HIDE DEF G
    <2> QED
      BY <1>5, Zenon DEF Ranked
  <1> QED
    BY <1>6 DEF Values

(* The positions the percentiles are at are positions of the sample.       *)
RanksIn(N, k, p) ==
    /\ p \in Int /\ p \div (k + 1) + 1 \in 1 .. N
    /\ p % (k + 1) \in Int
    /\ p % (k + 1) # 0 => p \div (k + 1) + 2 \in 1 .. N
LEMMA PositionsIn ==
    ASSUME NEW N \in Nat \ {0}, NEW k \in Nat \ {0}, NEW i \in 0 .. k - 1
    PROVE  RanksIn(N, k, (i + 1) * (N - 1))
  <1> DEFINE p == (i + 1) * (N - 1)
             q == p \div (k + 1)
  <1>1. p \in Nat /\ p <= k * (N - 1)
    <2>1. (i + 1) * (N - 1) <= k * (N - 1)
      OBVIOUS
    <2> QED
      BY <2>1
  <1>2. q \in Int /\ q * (k + 1) <= p /\ p < q * (k + 1) + (k + 1)
    <2>1. k + 1 \in Nat \ {0} /\ p \in Int
      BY <1>1
    <2> HIDE DEF p
    <2> QED
      BY <2>1, Division
  <1>3. p % (k + 1) = p - q * (k + 1)
    <2> HIDE DEF p
    <2> QED
      BY <1>1, <1>2
  <1> HIDE DEF p, q
  <1>4. 0 <= q
    <2> SUFFICES ASSUME q <= -1 PROVE FALSE
      BY <1>2
    <2>1. q * (k + 1) <= (-1) * (k + 1)
      BY <1>2
    <2> QED
      BY <1>1, <1>2, <2>1
  <1>5. k * (N - 1) <= (N - 1) * (k + 1)
    OBVIOUS
  <1>6. q <= N - 1
    <2> SUFFICES ASSUME N <= q PROVE FALSE
      BY <1>2
    <2>1. N * (k + 1) <= q * (k + 1)
      BY <1>2
    <2> QED
      BY <1>1, <1>2, <1>5, <2>1
  <1>7. q = N - 1 => p % (k + 1) = 0
    BY <1>1, <1>2, <1>3, <1>5
  <1>8. p % (k + 1) \in Int
    BY <1>1, <1>2, <1>3
  <1>9. /\ p \in Int /\ q + 1 \in 1 .. N
        /\ p % (k + 1) \in Int
        /\ p % (k + 1) # 0 => q + 2 \in 1 .. N
    BY <1>1, <1>2, <1>4, <1>6, <1>7, <1>8
  <1> QED
    BY <1>9 DEF p, q, RanksIn

(* So the percentiles of a sample are numbers, and make a codebook.        *)
Book(K) == [0 .. K - 1 -> Int]
LEMMA Ratio ==
    ASSUME NEW a \in Int, NEW b \in Int, NEW r \in Int, NEW d \in Nat \ {0}
    PROVE  (a * b * r) \div d \in Int
  <1>1. a * b * r \in Int
    OBVIOUS
  <1> DEFINE n == a * b * r
  <1> HIDE DEF n
  <1> QED
    BY <1>1, Division DEF n
LEMMA PercentilesTyped ==
    ASSUME NEW w, NEW sample, Values(w, sample), NEW k \in Nat \ {0}
    PROVE  Percentiles(w, sample, k) \in Book(k)
  <1> DEFINE N == Cardinality(sample)
             Position(i) == (i + 1) * (N - 1)
             Low(i) == Ranked(w, sample, Position(i) \div (k + 1) + 1)
             High(i) == Ranked(w, sample, Position(i) \div (k + 1) + 2)
             Over(i) == Position(i) % (k + 1)
             At(i) == Low(i) * Unit
                        + (IF Over(i) = 0 THEN 0
                           ELSE ((High(i) - Low(i)) * Unit * Over(i)) \div (k + 1))
  <1>1. N \in Nat \ {0}
    BY FS_CardinalityType, FS_EmptySet DEF Values
  <1>2. Percentiles(w, sample, k) = [i \in 0 .. k - 1 |-> At(i)]
    BY DEF Percentiles
  <1>3. ASSUME NEW i \in 0 .. k - 1 PROVE At(i) \in Int
    <2>1. RanksIn(N, k, Position(i))
      <3> HIDE DEF N
      <3> QED
        BY <1>1, PositionsIn
    <2>2. Unit \in Int /\ k + 1 \in Nat \ {0}
      BY UnitAssumption
    <2> HIDE DEF Position
    <2>3. Low(i) \in Int
      BY <2>1, RankedTyped DEF RanksIn
    <2>4. Low(i) * Unit \in Int
      <3> HIDE DEF Low
      <3> QED
        BY <2>2, <2>3
    <2>5. CASE Over(i) = 0
      <3> HIDE DEF Low
      <3> QED
        BY <2>4, <2>5
    <2>6. CASE Over(i) # 0
      <3>1. High(i) \in Int /\ Over(i) \in Int
        BY <2>1, <2>6, RankedTyped DEF RanksIn
      <3> HIDE DEF Low, High, Over
      <3>2. High(i) - Low(i) \in Int
        BY <2>3, <3>1
      <3>3. ((High(i) - Low(i)) * Unit * Over(i)) \div (k + 1) \in Int
        BY <2>2, <3>1, <3>2, Ratio
      <3> QED
        BY <2>4, <2>6, <3>3
    <2> QED
      BY <2>5, <2>6
  <1> HIDE DEF At
  <1> QED
    BY <1>2, <1>3 DEF Book

(* The weights of a matrix, and of any sample of them, are numbers.        *)
LEMMA WeightsOf ==
    ASSUME NEW w \in Matrices
    PROVE  /\ w \in Seq(Int) /\ Len(w) \in Nat \ {0} /\ DOMAIN w = 1 .. Len(w)
           /\ Values(w, DOMAIN w)
  <1>1. w \in Seq(Int) /\ w # <<>>
    BY MatrixAssumption
  <1>2. Len(w) \in Nat \ {0} /\ DOMAIN w = 1 .. Len(w)
    BY <1>1, LenProperties, EmptySeq
  <1>3. IsFiniteSet(DOMAIN w)
    BY <1>2, FS_Interval
  <1>4. \A n \in DOMAIN w : w[n] \in Int
    BY <1>1, <1>2, ElementOfSeq
  <1>5. 1 \in DOMAIN w
    BY <1>2
  <1> QED
    BY <1>1, <1>2, <1>3, <1>4, <1>5 DEF Values
LEMMA SamplesValued ==
    ASSUME NEW w \in Matrices, NEW sample \in Samples(w)
    PROVE  Values(w, sample)
  <1>1. Values(w, DOMAIN w)
    BY WeightsOf
  <1>2. CASE Len(w) <= SampleSize
    BY <1>1, <1>2 DEF Samples
  <1>3. CASE ~ (Len(w) <= SampleSize)
    <2>1. sample \in SUBSET DOMAIN w /\ Cardinality(sample) = SampleSize
      BY <1>3 DEF Samples
    <2>2. sample # {}
      BY <2>1, FS_EmptySet, UnitAssumption
    <2>3. IsFiniteSet(sample)
      BY <1>1, <2>1, FS_Subset DEF Values
    <2> QED
      BY <1>1, <2>1, <2>2, <2>3 DEF Values
  <1> QED
    BY <1>2, <1>3

(* A mean is a number: the sum, over their number, of the weights with the *)
(* index of the centroid.                                                  *)
Mine(w, ix, i) == {n \in DOMAIN w : ix[n] = i}
Held(w, ix, i) == [n \in DOMAIN w |-> IF n \in Mine(w, ix, i) THEN w[n] ELSE 0]
MeanAt(w, ix, book, i) ==
    IF Mine(w, ix, i) = {} THEN book[i]
    ELSE (SumOf(Held(w, ix, i)) * Unit) \div Cardinality(Mine(w, ix, i))
LEMMA MeansAre ==
    ASSUME NEW w, NEW ix, NEW book
    PROVE  Means(w, ix, book) = [i \in DOMAIN book |-> MeanAt(w, ix, book, i)]
  BY DEF Means, MeanAt, Mine, Held
LEMMA MineCounted ==
    ASSUME NEW w \in Matrices, NEW ix, NEW i
    PROVE  /\ Mine(w, ix, i) \subseteq 1 .. Len(w) /\ IsFiniteSet(Mine(w, ix, i))
           /\ Cardinality(Mine(w, ix, i)) \in 0 .. Len(w)
           /\ Mine(w, ix, i) # {} => Cardinality(Mine(w, ix, i)) \in 1 .. Len(w)
  <1>1. Len(w) \in Nat /\ DOMAIN w = 1 .. Len(w)
    BY WeightsOf
  <1>2. Mine(w, ix, i) \subseteq 1 .. Len(w)
    BY <1>1 DEF Mine
  <1>3. IsFiniteSet(1 .. Len(w)) /\ Cardinality(1 .. Len(w)) = Len(w)
    <2> DEFINE N == Len(w)
    <2>1. N \in Nat \ {0}
      BY WeightsOf
    <2> HIDE DEF N
    <2>2. IsFiniteSet(1 .. N) /\ Cardinality(1 .. N) = N
      BY <2>1, FS_Interval
    <2> QED
      BY <2>2 DEF N
  <1>4. /\ IsFiniteSet(Mine(w, ix, i))
        /\ Cardinality(Mine(w, ix, i)) <= Len(w)
    BY <1>2, <1>3, FS_Subset
  <1>5. /\ Cardinality(Mine(w, ix, i)) \in Nat
        /\ Mine(w, ix, i) # {} => Cardinality(Mine(w, ix, i)) # 0
    BY <1>4, FS_CardinalityType, FS_EmptySet
  <1> QED
    BY <1>1, <1>2, <1>4, <1>5
LEMMA HeldNumbers ==
    ASSUME NEW w \in Matrices, NEW ix, NEW i
    PROVE  Held(w, ix, i) \in Seq(Int) /\ Len(Held(w, ix, i)) = Len(w)
  <1> DEFINE h == Held(w, ix, i)
  <1>1. Len(w) \in Nat /\ DOMAIN w = 1 .. Len(w) /\ \A n \in DOMAIN w : w[n] \in Int
    BY WeightsOf DEF Values
  <1>2. h \in [1 .. Len(w) -> Int]
    BY <1>1 DEF Held
  <1>3. h \in Seq(Int)
    <2> HIDE DEF h
    <2> QED
      BY <1>1, <1>2, SeqDef
  <1>4. Len(h) = Len(w)
    <2> HIDE DEF h
    <2> QED
      BY <1>1, <1>2, <1>3, LenProperties
  <1> QED
    BY <1>3, <1>4
LEMMA MeansTyped ==
    ASSUME NEW w \in Matrices, NEW ix, NEW K, NEW book \in Book(K)
    PROVE  Means(w, ix, book) \in Book(K)
  <1>1. DOMAIN book = 0 .. K - 1
    BY DEF Book
  <1>2. ASSUME NEW i \in 0 .. K - 1 PROVE MeanAt(w, ix, book, i) \in Int
    <2>1. CASE Mine(w, ix, i) = {}
      BY <2>1 DEF MeanAt, Book
    <2>2. CASE Mine(w, ix, i) # {}
      <3> DEFINE m == Cardinality(Mine(w, ix, i))
                 s == SumOf(Held(w, ix, i))
      <3>1. m \in 1 .. Len(w) /\ Len(w) \in Nat
        BY <2>2, MineCounted, WeightsOf
      <3>2. m \in Nat \ {0}
        BY <3>1
      <3>3. s \in Int /\ Unit \in Int
        BY HeldNumbers, SumTyped, UnitAssumption
      <3>4. MeanAt(w, ix, book, i) = (s * Unit) \div m
        BY <2>2 DEF MeanAt
      <3> HIDE DEF s, m
      <3>5. s * Unit \in Int
        BY <3>3
      <3> QED
        BY <3>2, <3>4, <3>5, Division
    <2> QED
      BY <2>1, <2>2
  <1> QED
    BY <1>1, <1>2, MeansAre DEF Book

(* argmin finds the first of the nearest centroids.                        *)
NearestIs(x, book, i) ==
    i \in DOMAIN book /\ \A j \in DOMAIN book : Distance(x, book[i]) <= Distance(x, book[j])
LEMMA DistanceTyped ==
    ASSUME NEW x \in Int, NEW c \in Int
    PROVE  Distance(x, c) \in Nat
  <1>1. x * Unit - c \in Int
    BY UnitAssumption
  <1> DEFINE d == x * Unit - c
  <1>2. d * d \in Nat
    <2> HIDE DEF d
    <2>1. CASE d >= 0
      BY <1>1, <2>1 DEF d
    <2>2. CASE d < 0
      BY <1>1, <2>2 DEF d
    <2> QED
      BY <1>1, <2>1, <2>2 DEF d
  <1> QED
    BY <1>2 DEF Distance, Square
LEMMA NearestFound ==
    ASSUME NEW x \in Int, NEW K \in Nat \ {0}, NEW book \in Book(K)
    PROVE  Nearest(x, book) \in 0 .. K - 1 /\ NearestIs(x, book, Nearest(x, book))
  <1> DEFINE T == {i \in 0 .. K - 1 : NearestIs(x, book, i)}
             Leading(i) == /\ \A j \in DOMAIN book : Distance(x, book[i]) <= Distance(x, book[j])
                         /\ \A j \in 0 .. i - 1 : Distance(x, book[i]) # Distance(x, book[j])
  <1>1. DOMAIN book = 0 .. K - 1
    BY DEF Book
  <1>2. \A i \in 0 .. K - 1 : book[i] \in Int /\ Distance(x, book[i]) \in Int
    <2>1. \A i \in 0 .. K - 1 : book[i] \in Int
      BY DEF Book
    <2>2. \A i \in 0 .. K - 1 : Distance(x, book[i]) \in Nat
      BY <2>1, DistanceTyped
    <2>3. \A i \in 0 .. K - 1 : Distance(x, book[i]) \in Int
      BY <2>2
    <2> QED
      BY <2>1, <2>3
  <1>3. T # {}
    <2> DEFINE v == [i \in 0 .. K - 1 |-> Distance(x, book[i])]
    <2>1. Values(v, 0 .. K - 1)
      <3>1. IsFiniteSet(0 .. K - 1) /\ 0 \in 0 .. K - 1
        BY FS_Interval
      <3> QED
        BY <1>2, <3>1 DEF Values
    <2>2. PICK i \in 0 .. K - 1 : \A j \in 0 .. K - 1 : v[i] <= v[j]
      <3> HIDE DEF v
      <3> QED
        BY <2>1, LeastValue
    <2>3. i \in T
      BY <1>1, <2>2 DEF NearestIs
    <2> QED
      BY <2>3
  <1>4. PICK i \in T : \A j \in T : i <= j
    <2>1. T \subseteq Nat
      OBVIOUS
    <2> HIDE DEF T
    <2> QED
      BY <1>3, <2>1, LeastNumber
  <1>5. i \in DOMAIN book /\ Leading(i)
    <2>1. i \in 0 .. K - 1 /\ NearestIs(x, book, i)
      BY <1>4
    <2>2. ASSUME NEW j \in 0 .. i - 1, Distance(x, book[i]) = Distance(x, book[j]) PROVE FALSE
      <3>1. j \in 0 .. K - 1 /\ ~ (i <= j)
        BY <2>1, <2>2
      <3>2. NearestIs(x, book, j)
        BY <1>1, <2>1, <2>2, <3>1 DEF NearestIs
      <3>3. j \in T
        BY <3>1, <3>2
      <3> HIDE DEF T
      <3> QED
        BY <1>4, <3>1, <3>3
    <2> QED
      BY <1>1, <2>1, <2>2 DEF NearestIs
  <1>6. Nearest(x, book) = CHOOSE k \in DOMAIN book : Leading(k)
    BY DEF Nearest
  <1>7. Nearest(x, book) \in DOMAIN book /\ Leading(Nearest(x, book))
    <2> HIDE DEF Leading
    <2> QED
      BY <1>5, <1>6
  <1> QED
    BY <1>1, <1>7 DEF NearestIs

(* The bytes hold the indices.  A byte is the sum of its digits, and a     *)
(* digit is found where it was put.                                        *)
LEMMA SumOfEight ==
    ASSUME NEW d, d \in Seq(Int)
    PROVE  /\ Len(d) = 1 => SumOf(d) = d[1]
           /\ Len(d) = 2 => SumOf(d) = d[1] + d[2]
           /\ Len(d) = 4 => SumOf(d) = d[1] + d[2] + d[3] + d[4]
           /\ Len(d) = 8 => SumOf(d) = d[1] + d[2] + d[3] + d[4] + d[5] + d[6] + d[7] + d[8]
  <1> DEFINE g == Sums(d)
  <1>1. Summed(d, g, Len(d))
    BY SumsGrow
  <1>2. \A n \in 1 .. Len(d) : d[n] \in Int
    BY NumbersAre
  <1>3. SumOf(d) = g[Len(d)]
    BY DEF SumOf
  <1> HIDE DEF g
  <1>4. CASE Len(d) = 1
    BY <1>1, <1>2, <1>3, <1>4 DEF Summed
  <1>5. CASE Len(d) = 2
    BY <1>1, <1>2, <1>3, <1>5 DEF Summed
  <1>6. CASE Len(d) = 4
    BY <1>1, <1>2, <1>3, <1>6 DEF Summed
  <1>7. CASE Len(d) = 8
    BY <1>1, <1>2, <1>3, <1>7 DEF Summed
  <1> QED
    BY <1>4, <1>5, <1>6, <1>7
LEMMA Digits8of2 ==
    ASSUME NEW a \in 0 .. 1, NEW b \in 0 .. 1, NEW c \in 0 .. 1, NEW d \in 0 .. 1,
           NEW e \in 0 .. 1, NEW f \in 0 .. 1, NEW g \in 0 .. 1, NEW h \in 0 .. 1,
           NEW x, x = a * 1 + b * 2 + c * 4 + d * 8 + e * 16 + f * 32 + g * 64 + h * 128
    PROVE  /\ (x \div 1) % 2 = a /\ (x \div 2) % 2 = b /\ (x \div 4) % 2 = c
           /\ (x \div 8) % 2 = d /\ (x \div 16) % 2 = e /\ (x \div 32) % 2 = f
           /\ (x \div 64) % 2 = g /\ (x \div 128) % 2 = h
  OBVIOUS
LEMMA Digits4of4 ==
    ASSUME NEW a \in 0 .. 3, NEW b \in 0 .. 3, NEW c \in 0 .. 3, NEW d \in 0 .. 3,
           NEW x, x = a * 1 + b * 4 + c * 16 + d * 64
    PROVE  /\ (x \div 1) % 4 = a /\ (x \div 4) % 4 = b /\ (x \div 16) % 4 = c
           /\ (x \div 64) % 4 = d
  OBVIOUS
LEMMA Digits2of8 ==
    ASSUME NEW a \in 0 .. 7, NEW b \in 0 .. 7, NEW x, x = a * 1 + b * 8
    PROVE  (x \div 1) % 8 = a /\ (x \div 8) % 8 = b
  OBVIOUS
LEMMA Digits2of16 ==
    ASSUME NEW a \in 0 .. 15, NEW b \in 0 .. 15, NEW x, x = a * 1 + b * 16
    PROVE  (x \div 1) % 16 = a /\ (x \div 16) % 16 = b
  OBVIOUS
Digited(d, bits) == [i \in 1 .. 8 \div bits |-> d[i] * 2^((i - 1) * bits)]
Digits(d, bits) == \A i \in 1 .. 8 \div bits : d[i] \in 0 .. 2^bits - 1
DigitRead(d, bits) ==
    \A i \in 1 .. 8 \div bits :
        (SumOf(Digited(d, bits)) \div 2^((i - 1) * bits)) % 2^bits = d[i]
LEMMA SequenceOf ==
    ASSUME NEW N \in Nat, NEW s \in [1 .. N -> Int]
    PROVE  s \in Seq(Int) /\ Len(s) = N
  BY SeqDef, LenProperties
LEMMA DigitsOf1 ==
    ASSUME NEW d, Digits(d, 1)
    PROVE  DigitRead(d, 1)
  <1> DEFINE s == Digited(d, 1)
  <1>1. /\ d[1] \in 0 .. 1 /\ d[2] \in 0 .. 1 /\ d[3] \in 0 .. 1 /\ d[4] \in 0 .. 1
        /\ d[5] \in 0 .. 1 /\ d[6] \in 0 .. 1 /\ d[7] \in 0 .. 1 /\ d[8] \in 0 .. 1
    BY DEF Digits
  <1>2. s = [i \in 1 .. 8 |-> d[i] * 2^((i - 1) * 1)]
    BY DEF Digited
  <1>3. /\ s[1] = d[1] * 1 /\ s[2] = d[2] * 2 /\ s[3] = d[3] * 4 /\ s[4] = d[4] * 8
        /\ s[5] = d[5] * 16 /\ s[6] = d[6] * 32 /\ s[7] = d[7] * 64 /\ s[8] = d[8] * 128
    BY <1>2
  <1>4. s \in Seq(Int) /\ Len(s) = 8
    <2>1. DOMAIN s = 1 .. 8 /\ s = [i \in 1 .. 8 |-> s[i]]
      BY <1>2
    <2> HIDE DEF s
    <2>2. ASSUME NEW i \in 1 .. 8 PROVE s[i] \in Int
      BY <1>1, <1>3
    <2>3. s \in [1 .. 8 -> Int]
      BY <2>1, <2>2
    <2> QED
      BY <2>3, SequenceOf
  <1> HIDE DEF s
  <1>5. SumOf(s) = s[1] + s[2] + s[3] + s[4] + s[5] + s[6] + s[7] + s[8]
    BY <1>4, SumOfEight
  <1>6. SumOf(s) = d[1] * 1 + d[2] * 2 + d[3] * 4 + d[4] * 8
                    + d[5] * 16 + d[6] * 32 + d[7] * 64 + d[8] * 128
    BY <1>3, <1>5
  <1>7. /\ (SumOf(s) \div 1) % 2 = d[1] /\ (SumOf(s) \div 2) % 2 = d[2]
        /\ (SumOf(s) \div 4) % 2 = d[3] /\ (SumOf(s) \div 8) % 2 = d[4]
        /\ (SumOf(s) \div 16) % 2 = d[5] /\ (SumOf(s) \div 32) % 2 = d[6]
        /\ (SumOf(s) \div 64) % 2 = d[7] /\ (SumOf(s) \div 128) % 2 = d[8]
    BY <1>1, <1>6, Digits8of2
  <1>8. ASSUME NEW i \in 1 .. 8 PROVE (SumOf(s) \div 2^((i - 1) * 1)) % 2^1 = d[i]
    <2>1. CASE i = 1
      <3>1. 2^((i - 1) * 1) = 1
        BY <2>1
      <3> QED
        BY <1>7, <2>1, <3>1
    <2>2. CASE i = 2
      <3>1. 2^((i - 1) * 1) = 2
        BY <2>2
      <3> QED
        BY <1>7, <2>2, <3>1
    <2>3. CASE i = 3
      <3>1. 2^((i - 1) * 1) = 4
        BY <2>3
      <3> QED
        BY <1>7, <2>3, <3>1
    <2>4. CASE i = 4
      <3>1. 2^((i - 1) * 1) = 8
        BY <2>4
      <3> QED
        BY <1>7, <2>4, <3>1
    <2>5. CASE i = 5
      <3>1. 2^((i - 1) * 1) = 16
        BY <2>5
      <3> QED
        BY <1>7, <2>5, <3>1
    <2>6. CASE i = 6
      <3>1. 2^((i - 1) * 1) = 32
        BY <2>6
      <3> QED
        BY <1>7, <2>6, <3>1
    <2>7. CASE i = 7
      <3>1. 2^((i - 1) * 1) = 64
        BY <2>7
      <3> QED
        BY <1>7, <2>7, <3>1
    <2>8. CASE i = 8
      <3>1. 2^((i - 1) * 1) = 128
        BY <2>8
      <3> QED
        BY <1>7, <2>8, <3>1
    <2> QED
      BY <2>1, <2>2, <2>3, <2>4, <2>5, <2>6, <2>7, <2>8
  <1>9. 1 .. 8 \div 1 = 1 .. 8
    OBVIOUS
  <1> QED
    BY <1>8, <1>9, Zenon DEF DigitRead, s
LEMMA DigitsOf2 ==
    ASSUME NEW d, Digits(d, 2)
    PROVE  DigitRead(d, 2)
  <1> DEFINE s == Digited(d, 2)
  <1>1. d[1] \in 0 .. 3 /\ d[2] \in 0 .. 3 /\ d[3] \in 0 .. 3 /\ d[4] \in 0 .. 3
    BY DEF Digits
  <1>2. s = [i \in 1 .. 4 |-> d[i] * 2^((i - 1) * 2)]
    BY DEF Digited
  <1>3. s[1] = d[1] * 1 /\ s[2] = d[2] * 4 /\ s[3] = d[3] * 16 /\ s[4] = d[4] * 64
    BY <1>2
  <1>4. s \in Seq(Int) /\ Len(s) = 4
    <2>1. DOMAIN s = 1 .. 4 /\ s = [i \in 1 .. 4 |-> s[i]]
      BY <1>2
    <2> HIDE DEF s
    <2>2. ASSUME NEW i \in 1 .. 4 PROVE s[i] \in Int
      BY <1>1, <1>3
    <2>3. s \in [1 .. 4 -> Int]
      BY <2>1, <2>2
    <2> QED
      BY <2>3, SequenceOf
  <1> HIDE DEF s
  <1>5. SumOf(s) = s[1] + s[2] + s[3] + s[4]
    BY <1>4, SumOfEight
  <1>6. SumOf(s) = d[1] * 1 + d[2] * 4 + d[3] * 16 + d[4] * 64
    BY <1>3, <1>5
  <1>7. /\ (SumOf(s) \div 1) % 4 = d[1] /\ (SumOf(s) \div 4) % 4 = d[2]
        /\ (SumOf(s) \div 16) % 4 = d[3] /\ (SumOf(s) \div 64) % 4 = d[4]
    BY <1>1, <1>6, Digits4of4
  <1>8. ASSUME NEW i \in 1 .. 4 PROVE (SumOf(s) \div 2^((i - 1) * 2)) % 2^2 = d[i]
    <2>1. CASE i = 1
      <3>1. 2^((i - 1) * 2) = 1
        BY <2>1
      <3> QED
        BY <1>7, <2>1, <3>1
    <2>2. CASE i = 2
      <3>1. 2^((i - 1) * 2) = 4
        BY <2>2
      <3> QED
        BY <1>7, <2>2, <3>1
    <2>3. CASE i = 3
      <3>1. 2^((i - 1) * 2) = 16
        BY <2>3
      <3> QED
        BY <1>7, <2>3, <3>1
    <2>4. CASE i = 4
      <3>1. 2^((i - 1) * 2) = 64
        BY <2>4
      <3> QED
        BY <1>7, <2>4, <3>1
    <2> QED
      BY <2>1, <2>2, <2>3, <2>4
  <1>9. 1 .. 8 \div 2 = 1 .. 4
    OBVIOUS
  <1> QED
    BY <1>8, <1>9, Zenon DEF DigitRead, s
LEMMA DigitsOf3 ==
    ASSUME NEW d, Digits(d, 3)
    PROVE  DigitRead(d, 3)
  <1> DEFINE s == Digited(d, 3)
  <1>1. d[1] \in 0 .. 7 /\ d[2] \in 0 .. 7
    BY DEF Digits
  <1>2. s = [i \in 1 .. 2 |-> d[i] * 2^((i - 1) * 3)]
    BY DEF Digited
  <1>3. s[1] = d[1] * 1 /\ s[2] = d[2] * 8
    BY <1>2
  <1>4. s \in Seq(Int) /\ Len(s) = 2
    <2>1. DOMAIN s = 1 .. 2 /\ s = [i \in 1 .. 2 |-> s[i]]
      BY <1>2
    <2> HIDE DEF s
    <2>2. ASSUME NEW i \in 1 .. 2 PROVE s[i] \in Int
      BY <1>1, <1>3
    <2>3. s \in [1 .. 2 -> Int]
      BY <2>1, <2>2
    <2> QED
      BY <2>3, SequenceOf
  <1> HIDE DEF s
  <1>5. SumOf(s) = s[1] + s[2]
    BY <1>4, SumOfEight
  <1>6. SumOf(s) = d[1] * 1 + d[2] * 8
    BY <1>3, <1>5
  <1>7. (SumOf(s) \div 1) % 8 = d[1] /\ (SumOf(s) \div 8) % 8 = d[2]
    BY <1>1, <1>6, Digits2of8
  <1>8. ASSUME NEW i \in 1 .. 2 PROVE (SumOf(s) \div 2^((i - 1) * 3)) % 2^3 = d[i]
    <2>1. CASE i = 1
      <3>1. 2^((i - 1) * 3) = 1
        BY <2>1
      <3> QED
        BY <1>7, <2>1, <3>1
    <2>2. CASE i = 2
      <3>1. 2^((i - 1) * 3) = 8
        BY <2>2
      <3> QED
        BY <1>7, <2>2, <3>1
    <2> QED
      BY <2>1, <2>2
  <1>9. 1 .. 8 \div 3 = 1 .. 2
    OBVIOUS
  <1> QED
    BY <1>8, <1>9, Zenon DEF DigitRead, s
LEMMA DigitsOf4 ==
    ASSUME NEW d, Digits(d, 4)
    PROVE  DigitRead(d, 4)
  <1> DEFINE s == Digited(d, 4)
  <1>1. d[1] \in 0 .. 15 /\ d[2] \in 0 .. 15
    BY DEF Digits
  <1>2. s = [i \in 1 .. 2 |-> d[i] * 2^((i - 1) * 4)]
    BY DEF Digited
  <1>3. s[1] = d[1] * 1 /\ s[2] = d[2] * 16
    BY <1>2
  <1>4. s \in Seq(Int) /\ Len(s) = 2
    <2>1. DOMAIN s = 1 .. 2 /\ s = [i \in 1 .. 2 |-> s[i]]
      BY <1>2
    <2> HIDE DEF s
    <2>2. ASSUME NEW i \in 1 .. 2 PROVE s[i] \in Int
      BY <1>1, <1>3
    <2>3. s \in [1 .. 2 -> Int]
      BY <2>1, <2>2
    <2> QED
      BY <2>3, SequenceOf
  <1> HIDE DEF s
  <1>5. SumOf(s) = s[1] + s[2]
    BY <1>4, SumOfEight
  <1>6. SumOf(s) = d[1] * 1 + d[2] * 16
    BY <1>3, <1>5
  <1>7. (SumOf(s) \div 1) % 16 = d[1] /\ (SumOf(s) \div 16) % 16 = d[2]
    BY <1>1, <1>6, Digits2of16
  <1>8. ASSUME NEW i \in 1 .. 2 PROVE (SumOf(s) \div 2^((i - 1) * 4)) % 2^4 = d[i]
    <2>1. CASE i = 1
      <3>1. 2^((i - 1) * 4) = 1
        BY <2>1
      <3> QED
        BY <1>7, <2>1, <3>1
    <2>2. CASE i = 2
      <3>1. 2^((i - 1) * 4) = 16
        BY <2>2
      <3> QED
        BY <1>7, <2>2, <3>1
    <2> QED
      BY <2>1, <2>2
  <1>9. 1 .. 8 \div 4 = 1 .. 2
    OBVIOUS
  <1> QED
    BY <1>8, <1>9, Zenon DEF DigitRead, s
LEMMA PowerTyped ==
    ASSUME NEW k \in 0 .. 8
    PROVE  2^k \in Nat \ {0}
  <1>1. CASE k = 0
    BY <1>1
  <1>2. CASE k = 1
    BY <1>2
  <1>3. CASE k = 2
    BY <1>3
  <1>4. CASE k = 3
    BY <1>4
  <1>5. CASE k = 4
    BY <1>5
  <1>6. CASE k = 5
    BY <1>6
  <1>7. CASE k = 6
    BY <1>7
  <1>8. CASE k = 7
    BY <1>8
  <1>9. CASE k = 8
    BY <1>9
  <1> QED
    BY <1>1, <1>2, <1>3, <1>4, <1>5, <1>6, <1>7, <1>8, <1>9
LEMMA DigitsOfOne ==
    ASSUME NEW d, NEW bits \in 5 .. 8, Digits(d, bits)
    PROVE  DigitRead(d, bits)
  <1> DEFINE s == Digited(d, bits)
             B == 2^bits
  <1>1. 8 \div bits = 1
    OBVIOUS
  <1>2. B \in Nat \ {0} /\ 2^((1 - 1) * bits) = 1
    <2>1. (1 - 1) * bits = 0
      OBVIOUS
    <2>2. 2^((1 - 1) * bits) = 2^0
      BY ONLY <2>1, Zenon
    <2>3. 2^0 = 1
      OBVIOUS
    <2>4. bits \in 0 .. 8
      OBVIOUS
    <2>5. B \in Nat \ {0}
      BY ONLY <2>4, PowerTyped, Zenon
    <2> QED
      BY ONLY <2>2, <2>3, <2>5, Zenon
  <1>3. d[1] \in 0 .. B - 1
    BY <1>1 DEF Digits
  <1>4. s = [i \in 1 .. 1 |-> d[i] * 2^((i - 1) * bits)]
    BY <1>1 DEF Digited
  <1>5. s[1] = d[1]
    BY <1>2, <1>3, <1>4
  <1> HIDE DEF B
  <1>6. s \in Seq(Int) /\ Len(s) = 1
    <2>1. DOMAIN s = 1 .. 1 /\ s = [i \in 1 .. 1 |-> s[i]]
      BY <1>4
    <2> HIDE DEF s
    <2>2. s \in [1 .. 1 -> Int]
      BY <1>3, <1>5, <2>1
    <2> QED
      BY <2>2, SequenceOf
  <1> HIDE DEF s
  <1>7. SumOf(s) = d[1]
    BY <1>5, <1>6, SumOfEight
  <1>8. (SumOf(s) \div 1) % B = d[1]
    BY <1>2, <1>3, <1>7
  <1>9. ASSUME NEW i \in 1 .. 1 PROVE (SumOf(s) \div 2^((i - 1) * bits)) % B = d[i]
    <2>1. i = 1
      OBVIOUS
    <2> QED
      BY <1>2, <1>8, <2>1
  <1> QED
    BY <1>1, <1>9 DEF DigitRead, s, B
LEMMA DigitsRead ==
    ASSUME NEW bits \in 1 .. 8, NEW d, Digits(d, bits)
    PROVE  DigitRead(d, bits)
  <1>1. bits = 1 \/ bits = 2 \/ bits = 3 \/ bits = 4 \/ bits \in 5 .. 8
    OBVIOUS
  <1> QED
    BY <1>1, DigitsOf1, DigitsOf2, DigitsOf3, DigitsOf4, DigitsOfOne

LEMMA WidthIs ==
    ASSUME NEW bits \in 1 .. 8
    PROVE  /\ 8 \div bits \in 1 .. 8 /\ 2^bits \in Nat \ {0}
           /\ \A i \in 1 .. 8 \div bits : 2^((i - 1) * bits) \in Nat
  <1>1. 8 \div bits \in 1 .. 8
    OBVIOUS
  <1>2. \A i \in 1 .. 8 \div bits : (i - 1) * bits \in 0 .. 8
    OBVIOUS
  <1>3. bits \in 0 .. 8
    OBVIOUS
  <1>4. 2^bits \in Nat \ {0}
    BY ONLY <1>3, PowerTyped, Zenon
  <1>5. ASSUME NEW i \in 1 .. 8 \div bits PROVE 2^((i - 1) * bits) \in Nat \ {0}
    BY ONLY <1>2, PowerTyped, Zenon
  <1>6. \A x : x \in Nat \ {0} => x \in Nat
    OBVIOUS
  <1> QED
    BY <1>1, <1>4, <1>5, <1>6, Zenon

(* The byte and the digit in it that an index is put at.                   *)
PlacedAt(N, each, n, b, i) ==
    /\ b \in 0 .. (N + each - 1) \div each - 1 /\ i \in 1 .. each /\ b \in Nat
    /\ b * each + i = n
LEMMA Places ==
    ASSUME NEW each \in 1 .. 8, NEW N \in Nat, NEW n \in 1 .. N
    PROVE  PlacedAt(N, each, n, (n - 1) \div each, ((n - 1) % each) + 1)
  BY DEF PlacedAt
Indexed(ix, N, bits) == Len(ix) = N /\ \A n \in 1 .. N : ix[n] \in 0 .. 2^bits - 1
DigitAt(ix, each, bits, b, i) ==
    IF b * each + i <= Len(ix) THEN ix[b * each + i] % 2^bits ELSE 0
PartAt(ix, each, bits, b, i) ==
    IF b * each + i <= Len(ix) THEN (ix[b * each + i] % 2^bits) * 2^((i - 1) * bits) ELSE 0
LEMMA SmallRemainder ==
    ASSUME NEW x, NEW B \in Nat \ {0}, x \in 0 .. B - 1
    PROVE  x % B = x
  OBVIOUS
LEMMA BytesAre ==
    ASSUME NEW ix, NEW bits, NEW each, each = 8 \div bits,
           NEW b \in 0 .. (Len(ix) + each - 1) \div each - 1
    PROVE  PackIndices(ix, bits)[b] = SumOf([i \in 1 .. each |-> PartAt(ix, each, bits, b, i)])
  BY DEF PackIndices, PartAt
LEMMA PackedRead ==
    ASSUME NEW bits \in 1 .. 8, NEW N \in Nat, NEW ix, Indexed(ix, N, bits), NEW n \in 1 .. N
    PROVE  ReadIndex(PackIndices(ix, bits), n, bits) = ix[n]
  <1> DEFINE each == 8 \div bits
             b == (n - 1) \div each
             i == ((n - 1) % each) + 1
             B == 2^bits
             d == [j \in 1 .. each |-> DigitAt(ix, each, bits, b, j)]
             byte == PackIndices(ix, bits)[b]
  <1>1. /\ each \in 1 .. 8 /\ B \in Nat \ {0}
        /\ \A j \in 1 .. each : 2^((j - 1) * bits) \in Nat
    BY WidthIs
  <1>2. Len(ix) = N /\ \A m \in 1 .. N : ix[m] \in 0 .. B - 1
    BY DEF Indexed
  <1>3. PlacedAt(N, each, n, b, i)
    <2> HIDE DEF each
    <2> QED
      BY <1>1, Places
  <1>4. i - 1 = (n - 1) % each
    <2> HIDE DEF each
    <2> QED
      BY <1>1
  <1>5. ReadIndex(PackIndices(ix, bits), n, bits) = (byte \div 2^((i - 1) * bits)) % B
    BY <1>4, Zenon DEF ReadIndex
  <1> HIDE DEF i
  <1>6. byte = SumOf([j \in 1 .. each |-> PartAt(ix, each, bits, b, j)])
    <2> HIDE DEF b
    <2> QED
      BY <1>2, <1>3, BytesAre DEF PlacedAt
  <1> HIDE DEF b, byte, each, B
  <1>7. ASSUME NEW j \in 1 .. each
        PROVE  /\ DigitAt(ix, each, bits, b, j) \in 0 .. B - 1
               /\ PartAt(ix, each, bits, b, j)
                     = DigitAt(ix, each, bits, b, j) * 2^((j - 1) * bits)
    <2>1. CASE b * each + j <= Len(ix)
      <3>1. b * each + j \in 1 .. N
        BY <1>1, <1>2, <1>3, <2>1 DEF PlacedAt
      <3>2. ix[b * each + j] % B \in 0 .. B - 1
        BY <1>1, <1>2, <3>1
      <3> QED
        BY <2>1, <3>2, Zenon DEF DigitAt, PartAt, B
    <2>2. CASE ~ (b * each + j <= Len(ix))
      <3>1. DigitAt(ix, each, bits, b, j) = 0 /\ PartAt(ix, each, bits, b, j) = 0
        BY <2>2, Zenon DEF DigitAt, PartAt
      <3>2. 0 * 2^((j - 1) * bits) = 0
        BY <1>1
      <3> QED
        BY <1>1, <3>1, <3>2
    <2> QED
      BY <2>1, <2>2
  <1>8. Digits(d, bits)
    BY <1>7, Zenon DEF Digits, each, B
  <1>9. Digited(d, bits) = [j \in 1 .. each |-> PartAt(ix, each, bits, b, j)]
    <2>1. \A j \in 1 .. each : d[j] * 2^((j - 1) * bits) = PartAt(ix, each, bits, b, j)
      BY <1>7, Zenon
    <2>2. Digited(d, bits) = [j \in 1 .. each |-> d[j] * 2^((j - 1) * bits)]
      BY Zenon DEF Digited, each
    <2> QED
      BY <2>1, <2>2, Zenon
  <1>10. DigitRead(d, bits)
    BY <1>8, DigitsRead
  <1>11. i \in 1 .. each /\ b * each + i = n
    BY <1>3 DEF PlacedAt
  <1>12. d[i] = ix[n]
    <2>1. n <= Len(ix) /\ ix[n] % B = ix[n]
      BY <1>1, <1>2, SmallRemainder
    <2>2. d[i] = DigitAt(ix, each, bits, b, i)
      BY <1>11
    <2> QED
      BY <1>11, <2>1, <2>2, Zenon DEF DigitAt, B
  <1>13. (SumOf(Digited(d, bits)) \div 2^((i - 1) * bits)) % B = d[i]
    BY <1>10, <1>11, Zenon DEF DigitRead, each, B
  <1> QED
    BY <1>5, <1>6, <1>9, <1>12, <1>13, Zenon

(* Assign gives every weight the index of its nearest centroid.            *)
LEMMA Assigned ==
    ASSUME NEW w \in Matrices, NEW bits \in 1 .. 8, NEW book \in Book(2^bits)
    PROVE  /\ Indexed(Assign(w, book), Len(w), bits)
           /\ \A n \in 1 .. Len(w) : /\ Assign(w, book)[n] = Nearest(w[n], book)
                                     /\ NearestIs(w[n], book, Nearest(w[n], book))
  <1> DEFINE B == 2^bits
             N == Len(w)
  <1>1. B \in Nat \ {0}
    BY WidthIs
  <1>2. N \in Nat /\ DOMAIN w = 1 .. N /\ \A n \in 1 .. N : w[n] \in Int
    BY WeightsOf DEF Values
  <1> HIDE DEF B, N
  <1>3. book \in Book(B)
    BY DEF B
  <1>4. ASSUME NEW n \in 1 .. N
        PROVE  Nearest(w[n], book) \in 0 .. B - 1 /\ NearestIs(w[n], book, Nearest(w[n], book))
    BY <1>1, <1>2, <1>3, NearestFound
  <1>5. Assign(w, book) = [n \in 1 .. N |-> Nearest(w[n], book)]
    BY <1>2 DEF Assign
  <1>6. Len(Assign(w, book)) = N
    <2>1. Assign(w, book) \in [1 .. N -> Int]
      BY <1>4, <1>5
    <2> QED
      BY <1>2, <2>1, SequenceOf
  <1>7. \A n \in 1 .. N : Assign(w, book)[n] = Nearest(w[n], book)
    BY <1>5
  <1> QED
    BY <1>4, <1>6, <1>7, Zenon DEF Indexed, B, N

(* Lloyd-Max keeps a codebook of 2^width numbers; when it has converged,   *)
(* or assigned once more, the indices belong to that codebook.             *)
Assigning == indices = Assign(matrix, centroids)
Coded == width \in BitsSet /\ centroids \in Book(2^width)
LloydInv ==
    /\ matrix \in Matrices
    /\ stage = "read" => ~converged
    /\ stage = "iterate" => Coded /\ (converged => Assigning)
    /\ stage = "packed" => /\ Coded
                           /\ converged \/ Exporters[exporter].final =>
                                 Assigning /\ packed = PackIndices(indices, width)

LEMMA LloydStarts == QuantInit => LloydInv
  BY DEF QuantInit, QuantStart, LloydInv
LEMMA LloydBegins ==
    ASSUME LloydInv, NEW e, NEW bits \in BitsSet, BeginLloyd(e, bits)
    PROVE  LloydInv'
  <1>1. matrix \in Matrices /\ ~converged
    BY DEF LloydInv, BeginLloyd
  <1>2. matrix' = matrix /\ converged' = converged /\ stage' = "iterate" /\ width' = bits
    BY DEF BeginLloyd
  <1>3. PICK sample \in Samples(matrix) : centroids' = Percentiles(matrix, sample, 2^bits)
    BY DEF BeginLloyd
  <1>4. bits \in 1 .. 8
    BY BitsAssumption
  <1>5. 2^bits \in Nat \ {0}
    BY <1>4, WidthIs
  <1>6. Values(matrix, sample)
    BY <1>1, SamplesValued
  <1>7. centroids' \in Book(2^bits)
    BY <1>3, <1>5, <1>6, PercentilesTyped
  <1>8. Coded'
    BY <1>2, <1>7 DEF Coded
  <1> QED
    BY <1>1, <1>2, <1>8 DEF LloydInv
LEMMA LloydIterates ==
    ASSUME LloydInv, Iterate
    PROVE  LloydInv'
  <1>1. matrix \in Matrices /\ Coded
    BY DEF LloydInv, Iterate
  <1>2. matrix' = matrix /\ width' = width /\ stage' = "iterate"
    BY DEF Iterate
  <1>3. /\ indices' = Assign(matrix, centroids)
        /\ centroids' = Means(matrix, indices', centroids)
        /\ converged' = (centroids' = centroids)
    BY DEF Iterate
  <1>4. Coded'
    BY <1>1, <1>2, <1>3, MeansTyped DEF Coded
  <1>5. converged' => Assigning'
    BY <1>2, <1>3 DEF Assigning
  <1> QED
    BY <1>1, <1>2, <1>4, <1>5 DEF LloydInv
LEMMA LloydPacks ==
    ASSUME LloydInv, PackMatrix
    PROVE  LloydInv'
  <1>1. matrix \in Matrices /\ Coded /\ (converged => Assigning)
    BY DEF LloydInv, PackMatrix
  <1>2. /\ matrix' = matrix /\ width' = width /\ stage' = "packed" /\ exporter' = exporter
        /\ centroids' = centroids /\ converged' = converged
    BY DEF PackMatrix
  <1>3. /\ indices' = IF Exporters[exporter].final THEN Assign(matrix, centroids) ELSE indices
        /\ packed' = PackIndices(indices', width)
    BY DEF PackMatrix
  <1>4. Coded'
    BY <1>1, <1>2 DEF Coded
  <1>5. converged' \/ Exporters[exporter'].final => Assigning'
    BY <1>1, <1>2, <1>3 DEF Assigning
  <1>6. packed' = PackIndices(indices', width')
    BY <1>2, <1>3
  <1> QED
    BY <1>1, <1>2, <1>4, <1>5, <1>6 DEF LloydInv
LEMMA LloydSteps == LloydInv /\ [QuantNext]_quantVars => LloydInv'
  <1> SUFFICES ASSUME LloydInv, [QuantNext]_quantVars PROVE LloydInv'
    OBVIOUS
  <1>1. ASSUME NEW bits, QuantizeMatrix(bits) PROVE LloydInv'
    <2>1. matrix' = matrix /\ stage' = "grouped"
      BY <1>1 DEF QuantizeMatrix
    <2> QED
      BY <2>1 DEF LloydInv
  <1>2. CASE UNCHANGED quantVars
    <2>1. /\ matrix' = matrix /\ width' = width /\ stage' = stage /\ exporter' = exporter
          /\ centroids' = centroids /\ converged' = converged /\ indices' = indices
          /\ packed' = packed
      BY <1>2 DEF quantVars
    <2> QED
      BY <2>1 DEF LloydInv, Coded, Assigning
  <1> QED
    BY <1>1, <1>2, LloydBegins, LloydIterates, LloydPacks DEF QuantNext

LEMMA PackedNearest == LloydInv => DecodedNearest
  <1> SUFFICES ASSUME LloydInv, stage = "packed", converged \/ Exporters[exporter].final,
                      NEW n \in DOMAIN matrix, NEW j \in DOMAIN centroids
               PROVE  Distance(matrix[n], centroids[ReadIndex(packed, n, width)])
                         <= Distance(matrix[n], centroids[j])
    BY DEF DecodedNearest
  <1>1. /\ matrix \in Matrices /\ Coded /\ Assigning
        /\ packed = PackIndices(indices, width)
    BY DEF LloydInv
  <1>2. width \in 1 .. 8 /\ centroids \in Book(2^width)
    BY <1>1, BitsAssumption DEF Coded
  <1>3. n \in 1 .. Len(matrix) /\ Len(matrix) \in Nat
    BY <1>1, WeightsOf
  <1>4. /\ Indexed(indices, Len(matrix), width)
        /\ indices[n] = Nearest(matrix[n], centroids)
        /\ NearestIs(matrix[n], centroids, indices[n])
    BY <1>1, <1>2, <1>3, Assigned DEF Assigning
  <1>5. ReadIndex(packed, n, width) = indices[n]
    BY <1>1, <1>2, <1>3, <1>4, PackedRead
  <1> QED
    BY <1>4, <1>5 DEF NearestIs

(* Whatever the weights, the sample the percentiles come from and the      *)
(* number of bits, once the loop of lloyd_max_quantize has converged, or   *)
(* where the script assigns once more after it, km_vecmat_packed_raw finds *)
(* the nearest centroid of every weight in the packed bytes.               *)
THEOREM WeightsAlwaysNearest == QuantSpec => []DecodedNearest
  BY LloydStarts, LloydSteps, PackedNearest, PTL DEF QuantSpec

(* The mean of its weights is where a centroid costs least: moving it      *)
(* there, from c to a, saves m (a - c)^2 over its m weights.               *)
LEMMA ExactMean ==
    ASSUME NEW H \in Int, NEW U \in Nat, NEW m \in Nat \ {0}, U % m = 0
    PROVE  m * ((H * U) \div m) = H * U
  <1> DEFINE k == U \div m
  <1>1. k \in Int /\ U = k * m
    <2>1. k \in Int /\ k * m <= U /\ U < k * m + m
      BY Division
    <2>2. U % m = U - k * m
      BY <2>1
    <2> QED
      BY <2>1, <2>2
  <1> HIDE DEF k
  <1>2. H * U = (H * k) * m /\ H * k \in Int
    BY <1>1
  <1> DEFINE x == H * k
             q == (x * m) \div m
  <1>3. x * m \in Int
    BY <1>2
  <1>4. q \in Int /\ q * m <= x * m /\ x * m < q * m + m
    BY <1>3, Division
  <1> HIDE DEF x, q
  <1>5. q = x
    <2>1. x \in Int
      BY <1>2 DEF x
    <2>2. CASE q <= x - 1
      <3>1. q * m <= (x - 1) * m
        BY <1>4, <2>1, <2>2
      <3>2. (x - 1) * m = x * m - m
        BY <2>1
      <3> QED
        BY <1>3, <1>4, <3>1, <3>2
    <2>3. CASE q >= x + 1
      <3>1. (x + 1) * m <= q * m
        BY <1>4, <2>1, <2>3
      <3>2. (x + 1) * m = x * m + m
        BY <2>1
      <3> QED
        BY <1>3, <1>4, <3>1, <3>2
    <2> QED
      BY <1>4, <2>1, <2>2, <2>3
  <1>6. (H * U) \div m = x
    BY <1>2, <1>5 DEF x, q
  <1> QED
    BY <1>2, <1>6 DEF x

LEMMA Moved ==
    ASSUME NEW x \in Int, NEW c \in Int, NEW a \in Int
    PROVE  Distance(x, c) = Mix(2 * Unit * (a - c), -((a - c) * (a + c)), Distance(x, a), x, 1)
  <1>1. Unit \in Int
    BY UnitAssumption
  <1> DEFINE y == x * Unit
  <1>2. y \in Int /\ (2 * Unit * (a - c)) * x = 2 * (a - c) * y
    BY <1>1
  <1>3. ((2 * Unit) * (a - c)) * x + (-((a - c) * (a + c))) * 1 = 2 * (a - c) * y - (a - c) * (a + c)
    BY <1>1, <1>2
  <1> HIDE DEF y
  <1>4. (y - c) * (y - c) = (y - a) * (y - a) + (2 * (a - c) * y - (a - c) * (a + c))
    BY <1>2
  <1> QED
    BY <1>3, <1>4 DEF Mix, Distance, Square, y
LEMMA Saved ==
    ASSUME NEW a \in Int, NEW c \in Int, NEW m \in Nat, NEW H \in Int, NEW U \in Int,
           m * a = H * U, NEW T \in Int
    PROVE  T <= Mix(2 * U * (a - c), -((a - c) * (a + c)), T, H, m)
  <1>1. (2 * U * (a - c)) * H = 2 * (a - c) * (m * a)
    BY SMT
  <1>2. 2 * (a - c) * (m * a) + (-((a - c) * (a + c))) * m = m * ((a - c) * (a - c))
    OBVIOUS
  <1>3. m * ((a - c) * (a - c)) >= 0
    <2>1. (a - c) * (a - c) \in Nat
      <3> DEFINE d == a - c
      <3>1. d \in Int
        OBVIOUS
      <3> HIDE DEF d
      <3>2. d * d \in Nat
        BY <3>1
      <3> QED
        BY <3>2 DEF d
    <2> DEFINE e == (a - c) * (a - c)
    <2> HIDE DEF e
    <2>2. m * e >= 0
      BY <2>1 DEF e
    <2> QED
      BY <2>2 DEF e
  <1>4. (2 * U * (a - c)) * H + (-((a - c) * (a + c))) * m >= 0
    BY <1>1, <1>2, <1>3
  <1> DEFINE z == (2 * U * (a - c)) * H + (-((a - c) * (a + c))) * m
  <1>5. z \in Int /\ z >= 0
    BY <1>4
  <1> HIDE DEF z
  <1>6. T <= T + z
    BY <1>5
  <1> QED
    BY <1>6 DEF Mix, z

(* What weights cost whose indices are ix, in a codebook.                  *)
Costs(w, ix, book) == [n \in 1 .. Len(w) |-> Distance(w[n], book[ix[n]])]
Cost(w, ix, book) == SumOf(Costs(w, ix, book))
IndexedIn(w, ix, K) == \A n \in 1 .. Len(w) : ix[n] \in 0 .. K - 1
LEMMA CostsNumbers ==
    ASSUME NEW w \in Matrices, NEW K, NEW book \in Book(K), NEW ix, IndexedIn(w, ix, K)
    PROVE  /\ Costs(w, ix, book) \in Seq(Int) /\ Len(Costs(w, ix, book)) = Len(w)
           /\ Cost(w, ix, book) \in Int
  <1>1. Len(w) \in Nat /\ \A n \in 1 .. Len(w) : w[n] \in Int
    BY WeightsOf DEF Values
  <1>2. ASSUME NEW n \in 1 .. Len(w) PROVE Distance(w[n], book[ix[n]]) \in Int
    <2>1. w[n] \in Int /\ book[ix[n]] \in Int
      BY <1>1 DEF IndexedIn, Book
    <2>2. Distance(w[n], book[ix[n]]) \in Nat
      BY <2>1, DistanceTyped
    <2> QED
      BY <2>2
  <1>3. Costs(w, ix, book) \in [1 .. Len(w) -> Int]
    BY <1>2 DEF Costs
  <1>4. Costs(w, ix, book) \in Seq(Int) /\ Len(Costs(w, ix, book)) = Len(w)
    BY <1>1, <1>3, SequenceOf
  <1> QED
    BY <1>4, SumTyped DEF Cost

(* Two codebooks that differ in one centroid, j.                           *)
MovedAt(b, a, K, j) == \A l \in 0 .. K - 1 : l # j => a[l] = b[l]
LEMMA OneMoved ==
    ASSUME NEW w \in Matrices, NEW K, NEW b \in Book(K), NEW a \in Book(K), NEW ix,
           IndexedIn(w, ix, K), NEW j \in 0 .. K - 1, MovedAt(b, a, K, j),
           a[j] = MeanAt(w, ix, b, j)
    PROVE  Cost(w, ix, a) <= Cost(w, ix, b)
  <1> DEFINE N == Len(w)
             M == Mine(w, ix, j)
             s == Costs(w, ix, b)
             t == Costs(w, ix, a)
             h == Held(w, ix, j)
             o == [n \in 1 .. N |-> IF n \in M THEN 1 ELSE 0]
             p == 2 * Unit * (a[j] - b[j])
             q == -((a[j] - b[j]) * (a[j] + b[j]))
  <1>1. /\ N \in Nat /\ DOMAIN w = 1 .. N /\ \A n \in 1 .. N : w[n] \in Int
    BY WeightsOf DEF Values
  <1>2. M \subseteq 1 .. N /\ Cardinality(M) \in Nat
    BY MineCounted
  <1>3. a[j] \in Int /\ b[j] \in Int /\ Unit \in Nat
    BY UnitAssumption DEF Book
  <1>4. p \in Int /\ q \in Int
    BY <1>3
  <1>5. /\ s \in Seq(Int) /\ Len(s) = N /\ t \in Seq(Int) /\ Len(t) = N
        /\ Cost(w, ix, a) \in Int
    BY CostsNumbers
  <1>6. h \in Seq(Int) /\ Len(h) = N
    BY HeldNumbers
  <1>7. o \in Seq(Int) /\ Len(o) = N
    <2>1. o \in [1 .. N -> Int]
      OBVIOUS
    <2> HIDE DEF o, N
    <2> QED
      BY <1>1, <2>1, SequenceOf
  <1>8. ASSUME NEW n \in 1 .. N PROVE s[n] = Mix(p, q, t[n], h[n], o[n])
    <2>1. s[n] = Distance(w[n], b[ix[n]]) /\ t[n] = Distance(w[n], a[ix[n]])
      BY DEF Costs
    <2>2. n \in M <=> ix[n] = j
      BY <1>1 DEF Mine
    <2>3. CASE ix[n] = j
      <3>1. h[n] = w[n] /\ o[n] = 1
        BY <1>1, <2>2, <2>3 DEF Held
      <3>2. w[n] \in Int
        BY <1>1
      <3>3. Distance(w[n], b[j]) = Mix(p, q, Distance(w[n], a[j]), w[n], 1)
        BY ONLY <1>3, <3>2, Moved
      <3>4. s[n] = Distance(w[n], b[j]) /\ t[n] = Distance(w[n], a[j])
        BY <2>1, <2>3
      <3> HIDE DEF s, t, h, o, p, q
      <3> QED
        BY <3>1, <3>3, <3>4, Zenon
    <2>4. CASE ix[n] # j
      <3>1. h[n] = 0 /\ o[n] = 0
        BY <1>1, <2>2, <2>4 DEF Held
      <3>2. a[ix[n]] = b[ix[n]]
        BY <2>4 DEF MovedAt, IndexedIn
      <3>3. t[n] \in Int
        BY <1>5, NumbersAre
      <3>4. s[n] = t[n]
        BY <2>1, <3>2
      <3> HIDE DEF s, t, h, o, p, q
      <3> QED
        BY <1>4, <3>1, <3>3, <3>4 DEF Mix
    <2> QED
      BY <2>3, <2>4
  <1>9. SumOf(o) = Cardinality(M)
    <2>1. \A n \in 1 .. N : o[n] = IF n \in M THEN 1 ELSE 0
      OBVIOUS
    <2> HIDE DEF o, M, N
    <2> QED
      BY <1>2, <1>7, <2>1, OnesCounted
  <1>10. SumOf(h) \in Int
    BY <1>6, SumTyped
  <1>11. Cost(w, ix, b) = Mix(p, q, Cost(w, ix, a), SumOf(h), Cardinality(M))
    <2>1. SumOf(s) = Mix(p, q, SumOf(t), SumOf(h), SumOf(o))
      <3> HIDE DEF s, t, h, o, p, q, N, M
      <3> QED
        <4>1. Combined(p, q, s, t, h, o)
          BY <1>5, <1>6, <1>7, <1>8 DEF Combined
        <4> QED
          BY ONLY <1>4, <1>5, <1>6, <1>7, <4>1, SumsCombined
    <2> QED
      BY <1>9, <2>1, Zenon DEF Cost
  <1>12. Cardinality(M) * a[j] = SumOf(h) * Unit \/ a[j] = b[j]
    <2>1. CASE M = {}
      BY <2>1 DEF MeanAt
    <2>2. CASE M # {}
      <3>1. Cardinality(M) \in 1 .. N
        BY <2>2, MineCounted
      <3>2. Cardinality(M) \in Nat \ {0} /\ Unit % Cardinality(M) = 0
        BY <1>1, <3>1, MeanAssumption
      <3>3. a[j] = (SumOf(h) * Unit) \div Cardinality(M)
        BY <2>2 DEF MeanAt
      <3> DEFINE H == SumOf(h)
                 m == Cardinality(M)
      <3>4. H \in Int /\ m \in Nat \ {0} /\ Unit % m = 0 /\ a[j] = (H * Unit) \div m
        BY <1>10, <3>2, <3>3
      <3> HIDE DEF H, m
      <3>5. m * ((H * Unit) \div m) = H * Unit
        BY ONLY <1>3, <3>4, ExactMean
      <3>6. m * a[j] = H * Unit
        BY ONLY <3>4, <3>5, Zenon
      <3> QED
        BY <3>6 DEF H, m
    <2> QED
      BY <2>1, <2>2
  <1> DEFINE T == Cost(w, ix, a)
             H == SumOf(h)
             m == Cardinality(M)
  <1>13. T <= Mix(p, q, T, H, m)
    <2>1. T \in Int /\ H \in Int /\ m \in Nat
      BY <1>2, <1>5, <1>10
    <2> HIDE DEF T, H, m
    <2>2. CASE m * a[j] = H * Unit
      <3>1. Unit \in Int
        BY <1>3
      <3> QED
        BY ONLY <1>3, <2>1, <2>2, <3>1, Saved
    <2>3. CASE a[j] = b[j]
      <3>1. p = 0 /\ q = 0
        BY <1>3, <2>3
      <3> HIDE DEF p, q
      <3> QED
        BY <2>1, <3>1 DEF Mix
    <2> QED
      BY <1>12, <2>2, <2>3 DEF T, H, m
  <1> QED
    BY <1>11, <1>13

(* Moving every centroid to its mean, one by one, never costs more.        *)
LEMMA MeansCostLess ==
    ASSUME NEW w \in Matrices, NEW K \in Nat, NEW book \in Book(K), NEW ix,
           IndexedIn(w, ix, K)
    PROVE  Cost(w, ix, Means(w, ix, book)) <= Cost(w, ix, book)
  <1> DEFINE new == Means(w, ix, book)
             H(i) == [j \in 0 .. K - 1 |-> IF j < i THEN new[j] ELSE book[j]]
             S == {i \in 0 .. K : Cost(w, ix, H(i)) <= Cost(w, ix, book)}
  <1>1. new \in Book(K) /\ \A j \in 0 .. K - 1 : new[j] = MeanAt(w, ix, book, j)
    <2>1. new \in Book(K)
      BY MeansTyped
    <2>2. DOMAIN book = 0 .. K - 1
      BY DEF Book
    <2>3. new = [j \in DOMAIN book |-> MeanAt(w, ix, book, j)]
      BY MeansAre
    <2> HIDE DEF new
    <2> QED
      BY <2>1, <2>2, <2>3
  <1> HIDE DEF new
  <1>2. \A i \in 0 .. K : H(i) \in Book(K)
    BY <1>1 DEF Book
  <1>3. H(0) = book /\ H(K) = new
    BY <1>1 DEF Book
  <1>4. Cost(w, ix, book) \in Int /\ \A i \in 0 .. K : Cost(w, ix, H(i)) \in Int
    <2> HIDE DEF H
    <2> QED
      BY <1>2, CostsNumbers
  <1>5. 0 \in S
    BY <1>3, <1>4
  <1>6. ASSUME NEW i \in 1 .. K, i - 1 \in S PROVE i \in S
    <2>1. i - 1 \in 0 .. K - 1 /\ i - 1 \in 0 .. K /\ i \in 0 .. K
      OBVIOUS
    <2>2. MovedAt(H(i - 1), H(i), K, i - 1)
      <3>1. \A l \in 0 .. K - 1 : l # i - 1 => (l < i - 1 <=> l < i)
        OBVIOUS
      <3> QED
        BY <3>1 DEF MovedAt
    <2>3. H(i - 1)[i - 1] = book[i - 1] /\ H(i)[i - 1] = new[i - 1]
      BY <2>1
    <2>4. H(i)[i - 1] = MeanAt(w, ix, H(i - 1), i - 1)
      BY <1>1, <2>1, <2>3 DEF MeanAt
    <2>5. Cost(w, ix, H(i)) <= Cost(w, ix, H(i - 1))
      <3> HIDE DEF H
      <3> QED
        BY <1>2, <2>1, <2>2, <2>4, OneMoved
    <2>6. Cost(w, ix, H(i - 1)) <= Cost(w, ix, book)
      BY <1>6
    <2>7. Cost(w, ix, H(i)) <= Cost(w, ix, book)
      <3> HIDE DEF H
      <3> QED
        BY <1>4, <2>1, <2>5, <2>6
    <2> HIDE DEF H
    <2> QED
      BY <2>1, <2>7
  <1>7. K \in S
    <2> HIDE DEF S
    <2>1. \A i \in 0 .. K : i \in S
      BY <1>5, <1>6, UpTo
    <2> QED
      BY <2>1
  <1> QED
    BY <1>3, <1>7 DEF new

(* A weight costs least with the index Assign gives it.                    *)
LEMMA AssignCostsLess ==
    ASSUME NEW w \in Matrices, NEW bits \in 1 .. 8, NEW book \in Book(2^bits), NEW ix,
           IndexedIn(w, ix, 2^bits)
    PROVE  Cost(w, Assign(w, book), book) <= Cost(w, ix, book)
  <1> DEFINE K == 2^bits
             best == Assign(w, book)
             s == Costs(w, best, book)
             t == Costs(w, ix, book)
  <1>1. /\ IndexedIn(w, best, K)
        /\ \A n \in 1 .. Len(w) : NearestIs(w[n], book, best[n])
    BY Assigned DEF Indexed, IndexedIn
  <1> HIDE DEF best
  <1>2. /\ s \in Seq(Int) /\ Len(s) = Len(w)
        /\ t \in Seq(Int) /\ Len(t) = Len(w)
    BY <1>1, CostsNumbers
  <1>3. ASSUME NEW n \in 1 .. Len(w) PROVE s[n] <= t[n]
    <2>1. ix[n] \in DOMAIN book
      BY DEF IndexedIn, Book
    <2> QED
      BY <1>1, <2>1 DEF Costs, NearestIs
  <1>4. SumOf(s) <= SumOf(t)
    <2> HIDE DEF s, t
    <2> QED
      BY <1>2, <1>3, SumsOrdered
  <1> QED
    BY <1>4 DEF Cost, best

LEMMA DistortionIs ==
    ASSUME matrix \in Matrices, NEW bits \in 1 .. 8, NEW book \in Book(2^bits)
    PROVE  /\ IndexedIn(matrix, Assign(matrix, book), 2^bits)
           /\ Distortion(book) = Cost(matrix, Assign(matrix, book), book)
  <1>1. DOMAIN matrix = 1 .. Len(matrix)
    BY WeightsOf
  <1>2. IndexedIn(matrix, Assign(matrix, book), 2^bits)
    BY Assigned DEF Indexed, IndexedIn
  <1>3. \A n \in 1 .. Len(matrix) : Assign(matrix, book)[n] = Nearest(matrix[n], book)
    BY Assigned
  <1>4. Costs(matrix, Assign(matrix, book), book)
           = [n \in DOMAIN matrix |-> Distance(matrix[n], book[Nearest(matrix[n], book)])]
    BY <1>1, <1>3 DEF Costs
  <1> QED
    BY <1>2, <1>4 DEF Distortion, Cost
LEMMA IterationFalls ==
    ASSUME LloydInv, Iterate
    PROVE  Distortion(centroids') <= Distortion(centroids)
  <1> DEFINE ix == Assign(matrix, centroids)
             new == Means(matrix, ix, centroids)
             K == 2^width
  <1>1. matrix \in Matrices /\ width \in 1 .. 8 /\ centroids \in Book(K)
    BY BitsAssumption DEF LloydInv, Coded, Iterate
  <1>2. centroids' = new
    BY DEF Iterate
  <1>3. K \in Nat
    BY <1>1, WidthIs
  <1>4. new \in Book(K)
    BY <1>1, MeansTyped
  <1>5. IndexedIn(matrix, ix, K) /\ Distortion(centroids) = Cost(matrix, ix, centroids)
    BY <1>1, DistortionIs
  <1>6. /\ IndexedIn(matrix, Assign(matrix, new), K)
        /\ Distortion(new) = Cost(matrix, Assign(matrix, new), new)
    BY <1>1, <1>4, DistortionIs
  <1> HIDE DEF ix
  <1>7. Cost(matrix, Assign(matrix, new), new) <= Cost(matrix, ix, new)
    BY <1>1, <1>4, <1>5, AssignCostsLess
  <1>8. Cost(matrix, ix, new) <= Cost(matrix, ix, centroids)
    <2> HIDE DEF K
    <2> QED
      BY <1>1, <1>3, <1>5, MeansCostLess
  <1>9. /\ Cost(matrix, Assign(matrix, new), new) \in Int /\ Cost(matrix, ix, new) \in Int
        /\ Cost(matrix, ix, centroids) \in Int
    <2> HIDE DEF K, new
    <2> QED
      BY <1>1, <1>4, <1>5, <1>6, CostsNumbers
  <1> HIDE DEF new
  <1> QED
    BY <1>2, <1>5, <1>6, <1>7, <1>8, <1>9

(* No iteration of lloyd_max_quantize makes the codebook worse, whatever   *)
(* the weights, the number of bits and the centroids it began with.        *)
THEOREM DistortionAlwaysFalls == QuantSpec => DistortionFalls
  <1>1. LloydInv /\ [QuantNext]_quantVars
          => [Iterate => Distortion(centroids') <= Distortion(centroids)]_quantVars
    BY IterationFalls
  <1> QED
    BY <1>1, LloydStarts, LloydSteps, PTL DEF QuantSpec, DistortionFalls
----------------------------------------------------------------------------
(* The tokenizer                                                           *)

(* TextComesBack speaks of the bytes alone and of a file's vocabulary that *)
(* begins with them.  Of a text whose encoding began with one of these,    *)
(* each id stands for a piece, and what is decoded is what lies before the *)
(* next.                                                                   *)
Sane(mode) == mode.from \in {"boot", "ramfs"} /\ (mode.bpe => BytesFirst(mode.name))
TokenOf(mode, id) == IF mode.bpe THEN Truncated(Vocabs[mode.name][id + 1]) ELSE <<id>>
Known(mode, id) ==
    id \in Nat /\ IF mode.bpe THEN id + 1 \in DOMAIN Vocabs[mode.name] ELSE id \in Byte
IsJob(e) == DOMAIN e = {"text", "with", "ids", "starts", "shown", "back"}
Stands(e, i) ==
    /\ e.starts[i] < e.starts[i + 1] /\ Known(e.with, e.ids[i])
    /\ TokenOf(e.with, e.ids[i]) = SubSeq(e.text, e.starts[i], e.starts[i + 1] - 1)
Pieced(e) ==
    /\ e.text \in Seq(Byte) /\ e.ids \in Seq(Nat) /\ e.starts \in Seq(1 .. Len(e.text) + 1)
    /\ Len(e.starts) = Len(e.ids) + 1 /\ e.starts[1] = 1
    /\ \A i \in 1 .. Len(e.ids) : Stands(e, i)
Shown(e) ==
    e.shown \in 0 .. Len(e.ids) /\ e.back = SubSeq(e.text, 1, e.starts[e.shown + 1] - 1)

(* The table is that of the vocabulary, and stays it while a text is       *)
(* encoded.                                                                *)
Tables ==
    /\ ramFile # NoVocab => ramFile \in DOMAIN Vocabs
    /\ tokMode.from = "boot" => ~tokMode.bpe /\ table = Bytewise
    /\ tokMode.from = "ramfs" => /\ tokMode.bpe /\ tokMode.name \in DOMAIN Vocabs
                                 /\ table = BuildFjt(tokMode.name)
TokInv ==
    /\ Tables /\ IsJob(encoded)
    /\ ~Prompt => encoded.with = tokMode
    /\ Sane(encoded.with) => /\ Pieced(encoded) /\ Shown(encoded)
                             /\ Encoding => encoded.shown = 0

LEMMA TokStarts == TokInit => TokInv
  <1> SUFFICES ASSUME TokInit PROVE TokInv
    OBVIOUS
  <1>1. Tables
    BY DEF TokInit, Tables, AtBoot
  <1>2. /\ encoded.text = <<>> /\ encoded.with = tokMode /\ encoded.ids = <<>>
        /\ encoded.starts = <<1>> /\ encoded.shown = 0 /\ encoded.back = <<>> /\ IsJob(encoded)
    BY DEF TokInit, NotEncoded, IsJob
  <1>3. Pieced(encoded)
    <2>1. <<>> \in Seq(Byte) /\ <<>> \in Seq(Nat) /\ Len(<<>>) = 0
      BY EmptySeq
    <2>2. <<1>> \in Seq(1 .. 1) /\ Len(<<1>>) = 1 /\ <<1>>[1] = 1
      OBVIOUS
    <2> QED
      BY <1>2, <2>1, <2>2 DEF Pieced
  <1>4. Shown(encoded)
    BY <1>2 DEF Shown
  <1> QED
    BY <1>1, <1>2, <1>3, <1>4 DEF TokInv

(* A token is what the table holds at its id, in the vocabulary the table  *)
(* was loaded from.                                                        *)
LEMMA TruncatedIs ==
    ASSUME NEW t \in Seq(Byte)
    PROVE  Truncated(t) \in Seq(Byte) /\ (Len(t) = 1 => Truncated(t) = t)
  <1>1. MaxTokenBytes \in Nat \ {0} /\ Len(t) \in Nat
    BY TokAssumption, LenProperties
  <1>2. CASE Len(t) > MaxTokenBytes
    <2>1. \A i \in 1 .. MaxTokenBytes : t[i] \in Byte
      BY <1>1, <1>2, ElementOfSeq, LenProperties
    <2>2. SubSeq(t, 1, MaxTokenBytes) \in Seq(Byte)
      BY <1>1, <2>1, SubSeqProperties
    <2>3. Len(t) # 1
      <3>1. \A n \in Nat, m \in Nat \ {0} : n > m => n # 1
        OBVIOUS
      <3> QED
        BY ONLY <1>1, <1>2, <3>1, Zenon
    <2> QED
      BY <1>2, <2>2, <2>3 DEF Truncated
  <1>3. CASE ~ (Len(t) > MaxTokenBytes)
    BY <1>1, <1>3 DEF Truncated
  <1> QED
    BY <1>2, <1>3

LEMMA VocabsAre ==
    ASSUME NEW name \in DOMAIN Vocabs
    PROVE  /\ DOMAIN Vocabs[name] = 1 .. Len(Vocabs[name]) /\ Len(Vocabs[name]) \in Nat
           /\ \A i \in DOMAIN Vocabs[name] : Vocabs[name][i] \in Seq(Byte)
  <1>1. Vocabs[name] \in Seq(Seq(Byte))
    BY TokAssumption
  <1> QED
    BY <1>1, LenProperties, ElementOfSeq

LEMMA BytewiseAt ==
    ASSUME NEW i \in 1 .. NBytes
    PROVE  Bytewise[i] = <<i - 1>>
  BY DEF Bytewise
LEMMA TableHolds ==
    ASSUME Tables, Sane(tokMode), NEW id, Known(tokMode, id)
    PROVE  id + 1 \in DOMAIN table /\ table[id + 1] = TokenOf(tokMode, id)
  <1>1. CASE tokMode.bpe
    <2>1. tokMode.name \in DOMAIN Vocabs /\ table = BuildFjt(tokMode.name)
      BY <1>1 DEF Tables, Sane
    <2> QED
      BY <1>1, <2>1 DEF BuildFjt, Known, TokenOf
  <1>2. CASE ~tokMode.bpe
    <2>1. table = Bytewise
      BY <1>2 DEF Tables, Sane
    <2>2. id \in Byte /\ id \in Nat /\ NBytes \in Nat
      BY <1>2, TokAssumption DEF Known
    <2>3. id + 1 \in 1 .. NBytes /\ (id + 1) - 1 = id
      BY <2>2 DEF Byte
    <2>4. DOMAIN table = 1 .. NBytes /\ table[id + 1] = <<id>>
      <3>1. DOMAIN Bytewise = 1 .. NBytes
        BY DEF Bytewise
      <3>2. Bytewise[id + 1] = <<(id + 1) - 1>>
        <4> DEFINE i == id + 1
        <4>1. i \in 1 .. NBytes
          BY <2>3
        <4> HIDE DEF i
        <4>2. Bytewise[i] = <<i - 1>>
          BY <4>1, BytewiseAt
        <4> QED
          BY <4>2 DEF i
      <3> QED
        BY <2>1, <2>3, <3>1, <3>2
    <2>5. TokenOf(tokMode, id) = <<id>>
      BY <1>2 DEF TokenOf
    <2> QED
      BY <2>3, <2>4, <2>5
  <1> QED
    BY <1>1, <1>2

LEMMA BytesKnown ==
    ASSUME Tables, Sane(tokMode), NEW b \in Byte
    PROVE  Known(tokMode, b) /\ TokenOf(tokMode, b) = <<b>>
  <1>1. b \in Nat /\ b + 1 \in 1 .. NBytes /\ NBytes \in Nat
    BY TokAssumption DEF Byte
  <1>2. CASE tokMode.bpe
    <2>1. tokMode.name \in DOMAIN Vocabs /\ BytesFirst(tokMode.name)
      BY <1>2 DEF Tables, Sane
    <2>2. b + 1 \in DOMAIN Vocabs[tokMode.name]
      BY <1>1, <2>1, VocabsAre DEF BytesFirst
    <2>3. Vocabs[tokMode.name][b + 1] = <<b>>
      BY <1>1, <2>1 DEF BytesFirst, Bytewise
    <2>4. Truncated(<<b>>) = <<b>>
      <3>1. <<b>> \in Seq(Byte) /\ Len(<<b>>) = 1
        OBVIOUS
      <3> QED
        BY <3>1, TruncatedIs
    <2> QED
      BY <1>1, <1>2, <2>2, <2>3, <2>4 DEF Known, TokenOf
  <1>3. CASE ~tokMode.bpe
    BY <1>1, <1>3 DEF Known, TokenOf
  <1> QED
    BY <1>2, <1>3

(* Something that matches has a longest.                                   *)
LEMMA LargestSet ==
    ASSUME NEW M, IsFiniteSet(M), M # {}, NEW f \in [M -> SUBSET M]
    PROVE  \E x \in M : \A y \in M : f[y] \subseteq f[x] => f[y] = f[x]
  BY SmallestSet
LEMMA LongestExists ==
    ASSUME NEW M, IsFiniteSet(M), M # {}, NEW t,
           \A i \in M : i \in Nat /\ Len(t[i]) \in Nat
    PROVE  \E i \in M : \A j \in M : \/ Len(t[j]) < Len(t[i])
                                     \/ Len(t[j]) = Len(t[i]) /\ i <= j
  <1> DEFINE Better(i) == {j \in M : \/ Len(t[j]) > Len(t[i])
                                     \/ Len(t[j]) = Len(t[i]) /\ j < i}
             f == [i \in M |-> Better(i)]
  <1>1. f \in [M -> SUBSET M]
    OBVIOUS
  <1>2. \E i \in M : \A j \in M : f[j] \subseteq f[i] => f[j] = f[i]
    <2> HIDE DEF f
    <2> QED
      BY ONLY <1>1, LargestSet, IsFiniteSet(M), M # {}
  <1>3. PICK i \in M : \A j \in M : f[j] \subseteq f[i] => f[j] = f[i]
    BY ONLY <1>2
  <1>4. ASSUME NEW j \in M
        PROVE  Len(t[j]) < Len(t[i]) \/ (Len(t[j]) = Len(t[i]) /\ i <= j)
    <2> SUFFICES ASSUME j \in f[i] PROVE FALSE
      OBVIOUS
    <2>1. f[j] \subseteq f[i]
      OBVIOUS
    <2>2. j \notin f[j]
      OBVIOUS
    <2> QED
      BY <1>3, <2>1, <2>2
  <1> QED
    BY <1>4
LEMMA LongestMatches ==
    ASSUME \A i \in Matches : i \in Nat /\ Len(table[i]) \in Nat,
           IsFiniteSet(Matches), Matches # {}
    PROVE  Longest \in Matches
  <1>1. \E i \in Matches : \A j \in Matches : \/ Len(table[j]) < Len(table[i])
                                              \/ Len(table[j]) = Len(table[i]) /\ i <= j
    BY LongestExists
  <1> QED
    BY <1>1 DEF Longest

(* One more id for the next piece of the text.                             *)
Taken(e, id, length) ==
    [e EXCEPT !.ids = Append(@, id),
              !.starts = Append(@, e.starts[Len(e.ids) + 1] + length)]
LEMMA TakenFields ==
    ASSUME NEW e, IsJob(e), NEW id, NEW length
    PROVE  /\ IsJob(Taken(e, id, length))
           /\ Taken(e, id, length).text = e.text /\ Taken(e, id, length).with = e.with
           /\ Taken(e, id, length).ids = Append(e.ids, id)
           /\ Taken(e, id, length).starts = Append(e.starts, e.starts[Len(e.ids) + 1] + length)
           /\ Taken(e, id, length).shown = e.shown /\ Taken(e, id, length).back = e.back
  <1>1. DOMAIN e = {"text", "with", "ids", "starts", "shown", "back"}
    BY DEF IsJob
  <1> QED
    BY <1>1 DEF IsJob, Taken

LEMMA Longer ==
    ASSUME NEW S, NEW s \in Seq(S), NEW x \in S
    PROVE  /\ Append(s, x) \in Seq(S) /\ Len(Append(s, x)) = Len(s) + 1
           /\ Append(s, x)[Len(s) + 1] = x
           /\ \A i \in 1 .. Len(s) : Append(s, x)[i] = s[i]
  BY AppendProperties
Fits(e, id, length, p) ==
    /\ p = e.starts[Len(e.ids) + 1] /\ length \in Nat \ {0}
    /\ p + length <= Len(e.text) + 1 /\ Known(e.with, id)
    /\ TokenOf(e.with, id) = SubSeq(e.text, p, (p + length) - 1)
LEMMA CutFurther ==
    ASSUME NEW e, IsJob(e), Pieced(e), Shown(e), NEW id, NEW length, NEW p, Fits(e, id, length, p)
    PROVE  Pieced(Taken(e, id, length)) /\ Shown(Taken(e, id, length))
  <1> DEFINE d == Taken(e, id, length)
             n == Len(e.ids)
             S == 1 .. Len(e.text) + 1
  <1>1. /\ IsJob(d) /\ d.text = e.text /\ d.with = e.with /\ d.ids = Append(e.ids, id)
        /\ d.starts = Append(e.starts, p + length) /\ d.shown = e.shown /\ d.back = e.back
    BY TakenFields DEF Fits
  <1> HIDE DEF d
  <1>2. /\ e.text \in Seq(Byte) /\ e.ids \in Seq(Nat) /\ e.starts \in Seq(S)
        /\ Len(e.starts) = n + 1 /\ e.starts[1] = 1 /\ n \in Nat /\ Len(e.text) \in Nat
        /\ id \in Nat
    BY LenProperties DEF Pieced, Fits, Known
  <1>3. p \in S /\ p + length \in S /\ p < p + length
    <2>1. p \in S
      <3>1. n + 1 \in 1 .. Len(e.starts) /\ p = e.starts[n + 1]
        BY <1>2 DEF Fits
      <3> QED
        BY <1>2, <3>1, ElementOfSeq
    <2>2. length \in Nat \ {0} /\ p + length <= Len(e.text) + 1
      BY DEF Fits
    <2> QED
      BY <1>2, <2>1, <2>2
  <1>4. /\ d.ids \in Seq(Nat) /\ Len(d.ids) = n + 1 /\ d.ids[n + 1] = id
        /\ \A i \in 1 .. n : d.ids[i] = e.ids[i]
    <2>1. e.ids \in Seq(Nat) /\ id \in Nat /\ d.ids = Append(e.ids, id)
      BY <1>1, <1>2
    <2> QED
      BY ONLY <2>1, Longer
  <1>5. /\ d.starts \in Seq(S) /\ Len(d.starts) = n + 2 /\ d.starts[n + 2] = p + length
        /\ \A i \in 1 .. n + 1 : d.starts[i] = e.starts[i]
    <2> DEFINE longer == Append(e.starts, p + length)
               m == Len(e.starts)
    <2>1. /\ longer \in Seq(S) /\ Len(longer) = m + 1 /\ longer[m + 1] = p + length
          /\ \A i \in 1 .. m : longer[i] = e.starts[i]
      <3>1. e.starts \in Seq(S) /\ p + length \in S
        BY <1>2, <1>3
      <3> HIDE DEF S
      <3> QED
        BY ONLY <3>1, Longer DEF longer, m
    <2> HIDE DEF longer, S
    <2>2. m = n + 1 /\ m + 1 = n + 2
      BY <1>2
    <2>3. d.starts = longer
      BY <1>1 DEF longer
    <2> HIDE DEF n, m
    <2> QED
      BY ONLY <2>1, <2>2, <2>3
  <1>6. ASSUME NEW i \in 1 .. n PROVE Stands(d, i)
    <2>1. Stands(e, i)
      BY DEF Pieced
    <2>2. i \in 1 .. n + 1 /\ i + 1 \in 1 .. n + 1
      <3> HIDE DEF n
      <3> QED
        BY <1>2
    <2>3. d.starts[i] = e.starts[i] /\ d.starts[i + 1] = e.starts[i + 1] /\ d.ids[i] = e.ids[i]
      BY <1>4, <1>5, <2>2
    <2> QED
      BY <1>1, <2>1, <2>3 DEF Stands
  <1>7. Stands(d, n + 1)
    <2>1. d.starts[n + 1] = p /\ d.starts[n + 1 + 1] = p + length /\ d.ids[n + 1] = id
      <3>1. n + 1 \in 1 .. n + 1 /\ n + 1 + 1 = n + 2
        BY <1>2
      <3> QED
        BY <1>4, <1>5, <3>1 DEF Fits
    <2>2. Known(e.with, id) /\ TokenOf(e.with, id) = SubSeq(e.text, p, (p + length) - 1)
      BY DEF Fits
    <2>3. d.starts[n + 1] < d.starts[n + 1 + 1]
      BY <1>3, <2>1
    <2>4. /\ Known(d.with, d.ids[n + 1])
          /\ TokenOf(d.with, d.ids[n + 1])
               = SubSeq(d.text, d.starts[n + 1], d.starts[n + 1 + 1] - 1)
      <3>1. d.with = e.with /\ d.text = e.text
        BY <1>1
      <3>2. Known(d.with, d.ids[n + 1])
        BY <2>1, <2>2, <3>1
      <3> QED
        BY <2>1, <2>2, <3>1
    <2> QED
      BY ONLY <2>3, <2>4 DEF Stands
  <1>8. Pieced(d)
    <2>1. \A i \in 1 .. n + 1 : Stands(d, i)
      BY <1>2, <1>6, <1>7
    <2>2. d.starts[1] = 1 /\ Len(d.starts) = Len(d.ids) + 1
      <3>1. 1 \in 1 .. n + 1 /\ n + 2 = n + 1 + 1
        BY <1>2
      <3> QED
        BY <1>2, <1>4, <1>5, <3>1
    <2> QED
      BY <1>1, <1>2, <1>4, <1>5, <2>1, <2>2 DEF Pieced
  <1>9. Shown(d)
    <2>1. e.shown \in 0 .. n /\ e.back = SubSeq(e.text, 1, e.starts[e.shown + 1] - 1)
      BY DEF Shown
    <2>2. e.shown \in 0 .. n + 1 /\ e.shown + 1 \in 1 .. n + 1
      <3> HIDE DEF n
      <3> QED
        BY <1>2, <2>1, SMTT(30)
    <2> QED
      BY <1>1, <1>4, <1>5, <2>1, <2>2 DEF Shown
  <1> QED
    BY <1>8, <1>9 DEF d

(* One more id decoded.                                                    *)
Decoded(e, piece) == [e EXCEPT !.shown = @ + 1, !.back = @ \o piece]
LEMMA DecodedFields ==
    ASSUME NEW e, IsJob(e), NEW piece
    PROVE  /\ IsJob(Decoded(e, piece))
           /\ Decoded(e, piece).text = e.text /\ Decoded(e, piece).with = e.with
           /\ Decoded(e, piece).ids = e.ids /\ Decoded(e, piece).starts = e.starts
           /\ Decoded(e, piece).shown = e.shown + 1 /\ Decoded(e, piece).back = e.back \o piece
  <1>1. DOMAIN e = {"text", "with", "ids", "starts", "shown", "back"}
    BY DEF IsJob
  <1> QED
    BY <1>1 DEF IsJob, Decoded

LEMMA ShownFurther ==
    ASSUME NEW e, IsJob(e), Pieced(e), Shown(e), e.shown < Len(e.ids)
    PROVE  LET d == Decoded(e, TokenOf(e.with, e.ids[e.shown + 1]))
           IN  Pieced(d) /\ Shown(d)
  <1> DEFINE piece == TokenOf(e.with, e.ids[e.shown + 1])
             d == Decoded(e, piece)
             n == Len(e.ids)
             k == e.shown
             S == 1 .. Len(e.text) + 1
  <1>1. /\ d.text = e.text /\ d.with = e.with /\ d.ids = e.ids /\ d.starts = e.starts
        /\ d.shown = k + 1 /\ d.back = e.back \o piece
    BY DecodedFields
  <1>2. /\ e.text \in Seq(Byte) /\ e.starts \in Seq(S) /\ Len(e.starts) = n + 1
        /\ n \in Nat /\ Len(e.text) \in Nat /\ k \in 0 .. n - 1
        /\ e.back = SubSeq(e.text, 1, e.starts[k + 1] - 1)
    BY LenProperties DEF Pieced, Shown
  <1>3. Stands(e, k + 1)
    BY <1>2 DEF Pieced
  <1>4. e.starts[k + 1] \in S /\ e.starts[k + 1 + 1] \in S /\ e.starts[k + 1] < e.starts[k + 1 + 1]
    <2>1. k + 1 \in 1 .. n + 1 /\ k + 1 + 1 \in 1 .. n + 1
      BY <1>2, SMTT(30)
    <2> QED
      BY <1>2, <1>3, <2>1, ElementOfSeq DEF Stands
  <1>5. d.back = SubSeq(e.text, 1, e.starts[k + 1 + 1] - 1)
    <2> DEFINE a == e.starts[k + 1] - 1
               b == e.starts[k + 1 + 1] - 1
    <2>1. a \in 0 .. Len(e.text) /\ b \in a .. Len(e.text) /\ e.starts[k + 1] = a + 1
      <3> DEFINE u == e.starts[k + 1]
                 v == e.starts[k + 1 + 1]
      <3>1. u \in S /\ v \in S /\ u < v /\ a = u - 1 /\ b = v - 1
        BY <1>4
      <3> HIDE DEF a, b, u, v
      <3>2. a \in 0 .. Len(e.text) /\ b \in a .. Len(e.text) /\ u = a + 1
        BY <1>2, <3>1
      <3> QED
        BY <3>2 DEF u
    <2>2. piece = SubSeq(e.text, a + 1, b)
      BY <1>3, <2>1 DEF Stands
    <2> HIDE DEF a, b, piece
    <2>3. SubSeq(e.text, 1, a) \o SubSeq(e.text, a + 1, b) = SubSeq(e.text, 1, b)
      <3>1. 1 \in 1 .. Len(e.text) + 1 /\ a \in 1 - 1 .. Len(e.text)
        BY <1>2, <2>1
      <3> QED
        BY <1>2, <2>1, <3>1, ConcatAdjacentSubSeq
    <2> QED
      BY <1>1, <1>2, <2>2, <2>3, Zenon DEF a, b
  <1> HIDE DEF d, piece
  <1>6. Pieced(d)
    BY <1>1 DEF Pieced, Stands
  <1>7. Shown(d)
    <2>1. k + 1 \in 0 .. n
      BY <1>2, SMTT(30)
    <2> QED
      BY <1>1, <1>5, <2>1 DEF Shown
  <1> QED
    BY <1>6, <1>7 DEF d, piece

(* The steps that leave the text alone.                                    *)
LEMMA TextWaits ==
    ASSUME TokInv, Prompt, UNCHANGED encoded, Tables'
    PROVE  TokInv'
  <1>1. Prompt' /\ IsJob(encoded)'
    BY DEF TokInv, Prompt, Encoding, Decoding, Pos, IsJob
  <1>2. Sane(encoded.with)' => Sane(encoded.with)
    BY DEF Sane
  <1>3. Pieced(encoded) => Pieced(encoded)'
    BY DEF Pieced, Stands
  <1>4. Shown(encoded) => Shown(encoded)'
    BY DEF Shown
  <1>5. (Encoding => encoded.shown = 0) => (Encoding => encoded.shown = 0)'
    BY DEF Encoding, Pos
  <1> QED
    BY <1>1, <1>2, <1>3, <1>4, <1>5 DEF TokInv

LEMMA TablesKept ==
    ASSUME TokInv, UNCHANGED <<ramFile, tokMode, table>>
    PROVE  Tables'
  BY DEF TokInv, Tables

LEMMA LoadSteps ==
    ASSUME TokInv,
           \/ \E name \in DOMAIN Vocabs : SaveFile(name) \/ WriteToDisk(name)
           \/ TokLoadFjt \/ TokLoadNvme \/ TokReset
    PROVE  TokInv'
  <1>1. Prompt /\ UNCHANGED encoded
    BY DEF SaveFile, WriteToDisk, TokLoadFjt, TokLoadNvme, TokReset
  <1>2. Tables
    BY DEF TokInv
  <1>3. ASSUME NEW name \in DOMAIN Vocabs, SaveFile(name) PROVE Tables'
    BY <1>2, <1>3 DEF SaveFile, Tables
  <1>4. ASSUME NEW name \in DOMAIN Vocabs, WriteToDisk(name) PROVE Tables'
    BY <1>4, TablesKept DEF WriteToDisk
  <1>5. ASSUME TokLoadFjt PROVE Tables'
    BY <1>2, <1>5 DEF TokLoadFjt, Tables
  <1>6. ASSUME TokLoadNvme PROVE Tables'
    BY <1>2, <1>6 DEF TokLoadNvme, Tables
  <1>7. ASSUME TokReset PROVE Tables'
    BY <1>2, <1>7 DEF TokReset, Tables, AtBoot
  <1> QED
    BY <1>1, <1>3, <1>4, <1>5, <1>6, <1>7, TextWaits

(* A text that is begun.                                                   *)
LEMMA TokenizeSteps ==
    ASSUME TokInv, NEW text \in Texts, Tokenize(text)
    PROVE  TokInv'
  <1> DEFINE e == encoded'
  <1>1. /\ DOMAIN e = {"text", "with", "ids", "starts", "shown", "back"}
        /\ e.text = text /\ e.with = tokMode /\ e.ids = <<>>
        /\ e.starts = <<1>> /\ e.shown = 0 /\ e.back = <<>>
    BY DEF Tokenize, NotEncoded
  <1>2. Tables' /\ tokMode' = tokMode
    BY TablesKept DEF Tokenize
  <1> HIDE DEF e
  <1>3. Pieced(e)
    <2>1. text \in Seq(Byte) /\ <<>> \in Seq(Nat) /\ Len(<<>>) = 0 /\ Len(text) \in Nat
      BY EmptySeq, TokAssumption, LenProperties
    <2>2. <<1>> \in Seq(1 .. Len(text) + 1) /\ Len(<<1>>) = 1 /\ <<1>>[1] = 1
      BY <2>1
    <2> QED
      BY <1>1, <2>1, <2>2 DEF Pieced
  <1>4. Shown(e)
    <2>1. SubSeq(text, 1, 0) = <<>>
      BY TokAssumption, SubSeqProperties
    <2> QED
      BY <1>1, <2>1 DEF Shown
  <1> QED
    BY <1>1, <1>2, <1>3, <1>4 DEF TokInv, IsJob, e

(* The next id: what it takes from the text fits.                          *)
LEMMA EmitSteps ==
    ASSUME TokInv, Encoding, NEW id, NEW length, EmitId(id, length),
           Sane(tokMode) => Fits(encoded, id, length, Pos)
    PROVE  TokInv'
  <1> DEFINE d == Taken(encoded, id, length)
  <1>1. encoded' = d /\ UNCHANGED <<ramFile, tokMode, table>>
    BY DEF EmitId, Taken, Pos
  <1>2. IsJob(encoded) /\ encoded.with = tokMode
    BY DEF TokInv, Prompt
  <1>3. IsJob(d) /\ d.with = tokMode /\ d.shown = encoded.shown
    BY <1>2, TakenFields
  <1>4. ASSUME Sane(tokMode) PROVE Pieced(d) /\ Shown(d) /\ d.shown = 0
    <2>1. Pieced(encoded) /\ Shown(encoded) /\ encoded.shown = 0
      BY <1>2, <1>4 DEF TokInv
    <2> QED
      BY <1>2, <1>3, <1>4, <2>1, CutFurther
  <1>5. Tables'
    BY <1>1, TablesKept
  <1> HIDE DEF d
  <1> QED
    BY <1>1, <1>3, <1>4, <1>5 DEF TokInv

(* Of a text being encoded.                                                *)
LEMMA PlaceIs ==
    ASSUME TokInv, Encoding, Sane(tokMode)
    PROVE  /\ IsJob(encoded) /\ encoded.with = tokMode /\ encoded.text \in Seq(Byte)
           /\ Len(encoded.text) \in Nat /\ Pos \in 1 .. Len(encoded.text) /\ Tables
  <1>1. IsJob(encoded) /\ encoded.with = tokMode /\ Pieced(encoded) /\ Tables
    BY DEF TokInv, Prompt
  <1>2. /\ encoded.text \in Seq(Byte) /\ encoded.starts \in Seq(1 .. Len(encoded.text) + 1)
        /\ Len(encoded.starts) = Len(encoded.ids) + 1 /\ encoded.ids \in Seq(Nat)
    BY <1>1 DEF Pieced
  <1>3. Len(encoded.text) \in Nat /\ Len(encoded.ids) \in Nat
    BY <1>2, LenProperties
  <1>4. Pos \in 1 .. Len(encoded.text) + 1
    <2>1. Len(encoded.ids) + 1 \in 1 .. Len(encoded.starts)
      BY <1>2, <1>3
    <2> QED
      BY <1>2, <2>1, ElementOfSeq DEF Pos
  <1>5. Pos <= Len(encoded.text)
    BY DEF Encoding
  <1> QED
    BY <1>1, <1>2, <1>3, <1>4, <1>5


(* A byte fits, where nothing matches.                                     *)
LEMMA SinglesEqual ==
    ASSUME NEW u \in Seq(Byte), NEW v \in Seq(Byte), Len(u) = 1, Len(v) = 1, u[1] = v[1]
    PROVE  u = v
  <1>1. \A i \in 1 .. Len(u) : u[i] = v[i]
    OBVIOUS
  <1> QED
    BY <1>1, SeqEqual
LEMMA BytesFit ==
    ASSUME TokInv, Encoding, Sane(tokMode)
    PROVE  Fits(encoded, encoded.text[Pos], 1, Pos)
  <1> DEFINE b == encoded.text[Pos]
  <1>1. /\ encoded.with = tokMode /\ encoded.text \in Seq(Byte) /\ Tables
        /\ Len(encoded.text) \in Nat /\ Pos \in 1 .. Len(encoded.text)
    BY PlaceIs
  <1>2. b \in Byte
    BY <1>1, ElementOfSeq
  <1>3. Known(tokMode, b) /\ TokenOf(tokMode, b) = <<b>>
    BY <1>1, <1>2, BytesKnown
  <1>4. SubSeq(encoded.text, Pos, (Pos + 1) - 1) = <<b>>
    <2>1. (Pos + 1) - 1 = Pos
      BY <1>1
    <2>2. /\ SubSeq(encoded.text, Pos, Pos) \in Seq(Byte)
          /\ Len(SubSeq(encoded.text, Pos, Pos)) = 1
          /\ SubSeq(encoded.text, Pos, Pos)[1] = b
      BY <1>1
    <2>3. <<b>> \in Seq(Byte) /\ Len(<<b>>) = 1 /\ <<b>>[1] = b
      BY <1>2
    <2>4. SubSeq(encoded.text, Pos, Pos) = <<b>>
      BY <2>2, <2>3, SinglesEqual
    <2> QED
      BY <2>1, <2>4
  <1>5. Pos + 1 <= Len(encoded.text) + 1 /\ Pos = encoded.starts[Len(encoded.ids) + 1]
    BY <1>1 DEF Pos
  <1> HIDE DEF b
  <1>6. Fits(encoded, b, 1, Pos)
    <2>1. Known(encoded.with, b) /\ TokenOf(encoded.with, b) = SubSeq(encoded.text, Pos, (Pos + 1) - 1)
      BY <1>1, <1>3, <1>4
    <2> QED
      BY ONLY <1>5, <2>1 DEF Fits
  <1> QED
    BY <1>6 DEF b

(* What matches is what the text goes on with.                             *)
LEMMA MatchFits ==
    ASSUME TokInv, Encoding, Sane(tokMode), tokMode.bpe, NEW i \in Matches
    PROVE  /\ i \in Nat /\ Len(table[i]) \in Nat
           /\ Fits(encoded, i - 1, Len(table[i]), Pos)
  <1> DEFINE text == encoded.text
             w == table[i]
             n == Len(text)
             name == tokMode.name
  <1>1. /\ encoded.with = tokMode /\ text \in Seq(Byte) /\ Tables
        /\ n \in Nat /\ Pos \in 1 .. n
    BY PlaceIs
  <1>2. name \in DOMAIN Vocabs /\ table = BuildFjt(name)
    BY <1>1 DEF Tables, Sane
  <1>3. i \in DOMAIN Vocabs[name] /\ w = Truncated(Vocabs[name][i])
    BY <1>2 DEF Matches, BuildFjt
  <1>4. i \in Nat \ {0} /\ w \in Seq(Byte)
    BY <1>2, <1>3, VocabsAre, TruncatedIs
  <1>5. Len(w) \in Nat \ {0} /\ Len(w) <= Len(Rest) /\ \A k \in DOMAIN w : w[k] = Rest[k]
    BY TokAssumption DEF Matches
  <1> HIDE DEF w, n, text
  <1>6. Len(Rest) = n - Pos + 1 /\ \A k \in 1 .. Len(Rest) : Rest[k] = text[(Pos + k) - 1]
    BY <1>1 DEF Rest, text, n
  <1>7. Pos + Len(w) <= n + 1
    BY <1>1, <1>5, <1>6
  <1>8. w = SubSeq(text, Pos, (Pos + Len(w)) - 1)
    <2> DEFINE u == SubSeq(text, Pos, (Pos + Len(w)) - 1)
    <2>1. /\ u \in Seq(Byte) /\ Len(u) = Len(w)
          /\ \A k \in 1 .. Len(w) : u[k] = text[(Pos + k) - 1]
      BY <1>1, <1>5, <1>7, <1>6 DEF n
    <2> HIDE DEF u
    <2>2. ASSUME NEW k \in 1 .. Len(w) PROVE w[k] = u[k]
      <3>1. k \in DOMAIN w /\ k \in 1 .. Len(Rest)
        <4>1. DOMAIN w = 1 .. Len(w)
          BY <1>4, LenProperties
        <4>2. Len(Rest) \in Nat
          BY <1>1, <1>5, <1>6
        <4> QED
          BY <1>5, <4>1, <4>2
      <3> QED
        BY <1>5, <1>6, <2>1, <3>1
    <2>3. w = u
      BY <1>4, <2>1, <2>2
    <2> QED
      BY <2>3 DEF u
  <1>9. Known(tokMode, i - 1) /\ TokenOf(tokMode, i - 1) = w
    <2>1. i - 1 \in Nat /\ (i - 1) + 1 = i
      BY <1>4
    <2> QED
      BY <1>3, <2>1 DEF Known, TokenOf
  <1>10. Pos = encoded.starts[Len(encoded.ids) + 1]
    BY DEF Pos
  <1>11. Fits(encoded, i - 1, Len(w), Pos)
    BY <1>1, <1>5, <1>7, <1>8, <1>9, <1>10 DEF Fits, text, n
  <1> QED
    BY <1>4, <1>5, <1>11 DEF w
LEMMA LongestFits ==
    ASSUME TokInv, Encoding, Sane(tokMode), tokMode.bpe, Matches # {}
    PROVE  Fits(encoded, Longest - 1, Len(table[Longest]), Pos)
  <1>1. \A i \in Matches : i \in Nat /\ Len(table[i]) \in Nat
    BY MatchFits
  <1>2. IsFiniteSet(Matches)
    <2>1. tokMode.name \in DOMAIN Vocabs /\ table = BuildFjt(tokMode.name)
      BY PlaceIs DEF Tables, Sane
    <2> DEFINE N == Len(Vocabs[tokMode.name])
    <2>2. DOMAIN table = 1 .. N /\ N \in Nat
      BY <2>1, VocabsAre DEF BuildFjt
    <2>3. IsFiniteSet(1 .. N)
      BY <2>2, FS_Interval
    <2>4. Matches \subseteq 1 .. N
      BY <2>2 DEF Matches
    <2> QED
      BY <2>3, <2>4, FS_Subset
  <1>3. Longest \in Matches
    BY <1>1, <1>2, LongestMatches
  <1> QED
    BY <1>3, MatchFits

LEMMA DecodeSteps ==
    ASSUME TokInv, DecodeToken
    PROVE  TokInv'
  <1> DEFINE k == encoded.shown + 1
             d == Decoded(encoded, TokDecode(encoded.ids[k]))
  <1>1. /\ encoded' = d /\ UNCHANGED <<ramFile, tokMode, table>>
        /\ ~Encoding /\ encoded.shown < Len(encoded.ids)
    BY DEF DecodeToken, Decoded, Decoding
  <1>2. IsJob(encoded) /\ encoded.with = tokMode /\ Tables
    BY <1>1 DEF TokInv, Prompt, DecodeToken
  <1>3. IsJob(d) /\ d.with = tokMode /\ d.text = encoded.text /\ d.ids = encoded.ids
        /\ d.starts = encoded.starts
    BY <1>2, DecodedFields
  <1>4. ASSUME Sane(tokMode) PROVE Pieced(d) /\ Shown(d)
    <2>1. Pieced(encoded) /\ Shown(encoded)
      BY <1>2, <1>4 DEF TokInv
    <2>2. Stands(encoded, k)
      <3>1. encoded.shown \in Nat /\ Len(encoded.ids) \in Nat
        BY <2>1, LenProperties DEF Pieced, Shown
      <3>2. k \in 1 .. Len(encoded.ids)
        BY <1>1, <3>1
      <3> QED
        BY <2>1, <3>2 DEF Pieced
    <2>3. TokDecode(encoded.ids[k]) = TokenOf(tokMode, encoded.ids[k])
      BY <1>2, <1>4, <2>2, TableHolds DEF TokDecode, Stands
    <2> QED
      BY <1>1, <1>2, <2>1, <2>3, ShownFurther
  <1>5. Tables'
    BY <1>1, TablesKept
  <1> HIDE DEF d
  <1>6. ~Encoding'
    BY <1>1, <1>3 DEF Encoding, Pos
  <1> QED
    BY <1>1, <1>3, <1>4, <1>5, <1>6 DEF TokInv

(* The steps of TokNext, and what the invariant says when the shell waits. *)
LEMMA TokSteps == TokInv /\ [TokNext]_tokVars => TokInv'
  <1> SUFFICES ASSUME TokInv, [TokNext]_tokVars PROVE TokInv'
    OBVIOUS
  <1>1. CASE EncodeMatch
    <2>1. Encoding /\ Matches # {} /\ tokMode.bpe /\ EmitId(Longest - 1, Len(table[Longest]))
      BY <1>1 DEF EncodeMatch
    <2> QED
      BY <2>1, LongestFits, EmitSteps
  <1>2. CASE EncodeByte
    <2>1. Encoding /\ EmitId(encoded.text[Pos], 1)
      BY <1>2 DEF EncodeByte
    <2> QED
      BY <2>1, BytesFit, EmitSteps
  <1>3. CASE UNCHANGED tokVars
    BY <1>3 DEF tokVars, TokInv, Tables, IsJob, Prompt, Encoding, Decoding, Pos, Sane, Pieced,
                Stands, Shown
  <1> QED
    BY <1>1, <1>2, <1>3, LoadSteps, TokenizeSteps, DecodeSteps DEF TokNext

LEMMA TokIsFaithful == TokInv => TextComesBack
  <1> DEFINE e == encoded
             n == Len(e.ids)
             m == Len(e.text)
  <1>1. ASSUME TokInv, Prompt, Sane(e.with)
        PROVE  /\ e.starts[1] = 1 /\ e.back = SubSeq(e.text, 1, Pos - 1)
               /\ n < MaxOutput => e.back = e.text
               /\ \A i \in 1 .. n :
                    /\ e.starts[i] < e.starts[i + 1]
                    /\ e.with.bpe => Meaning(e.ids[i], e.with.name) = Piece(i)
    <2>1. Pieced(e) /\ Shown(e) /\ ~Encoding /\ ~(e.shown < n)
      BY <1>1 DEF TokInv, Prompt, Decoding
    <2>2. /\ e.text \in Seq(Byte) /\ e.starts \in Seq(1 .. m + 1) /\ m \in Nat /\ n \in Nat
          /\ Len(e.starts) = n + 1
      BY <2>1, LenProperties DEF Pieced
    <2>3. Pos \in 1 .. m + 1
      <3>1. n + 1 \in 1 .. Len(e.starts)
        BY <2>2
      <3> QED
        BY <2>2, <3>1, ElementOfSeq DEF Pos
    <2>4. e.shown = n
      BY <2>1, <2>2 DEF Shown
    <2>5. e.back = SubSeq(e.text, 1, Pos - 1)
      BY <2>1, <2>4 DEF Shown, Pos
    <2>6. ASSUME n < MaxOutput PROVE e.back = e.text
      <3>1. Pos = m + 1
        BY <2>1, <2>2, <2>3, <2>6, SMTT(30) DEF Encoding
      <3>2. SubSeq(e.text, 1, m) = e.text
        BY <2>2
      <3> QED
        BY <2>2, <2>5, <3>1, <3>2
    <2>7. ASSUME NEW i \in 1 .. n
          PROVE  /\ e.starts[i] < e.starts[i + 1]
                 /\ e.with.bpe => Meaning(e.ids[i], e.with.name) = Piece(i)
      <3>1. Stands(e, i)
        BY <2>1 DEF Pieced
      <3> QED
        BY <3>1 DEF Stands, TokenOf, Meaning, Piece
    <2> QED
      BY <2>1, <2>5, <2>6, <2>7 DEF Pieced
  <1> QED
    BY <1>1 DEF TextComesBack, Faithful, Sane

(* Whatever vocabularies are saved and loaded, in whatever order, a text   *)
(* that was encoded and decoded with one from RamFS that begins with the   *)
(* bytes, or with the bytes alone, comes back, up to where the output was  *)
(* full, and each id stands for its piece of the text: export_tokenizer.py *)
(* writes token i at entry i, cut to 15 bytes, and tokenizer.fj compares   *)
(* and emits exactly what the entry holds.                                 *)
THEOREM TextAlwaysComesBack == TokSpec => []TextComesBack
  <1>1. TokInit => TokInv
    BY TokStarts
  <1>2. TokInv /\ [TokNext]_tokVars => TokInv'
    BY TokSteps
  <1> QED
    BY <1>1, <1>2, TokIsFaithful, PTL DEF TokSpec
============================================================================
