----------------------------- MODULE IntllmTiny -----------------------------
(***************************************************************************)
(* scripts/build_intllm_tiny.py writes a .fjm v9 file of the ternary       *)
(* IntLLM kind, kernel/compute/fjm_v9.fj parses its tables after the       *)
(* header was accepted.  Of the file its 4-byte fields are kept, by their  *)
(* position; of the kernel's memory the words at MDL_V9_LAYER_OFFSETS.     *)
(***************************************************************************)
EXTENDS Sequences, FiniteSets, FjmFormat

CONSTANTS
    Shapes,      \* N_LAYERS, D_MODEL and VOCAB of the files
    DmaBytes,    \* bytes of the file in NVME_DMA (512)
    StaleWord,   \* what NVME_DMA holds behind them
    MaxBetas,    \* MDL_V9_MAX_BETAS (145)
    OffsetSlots, \* MDL_V9_MAX_LAYERS_OFFSET_TABLE (32)
    CacheSlot    \* MDL_V9_FORMAT_CACHE, counted from the offset table (13)

VARIABLES
    tiny,        \* the file: its shape, its words, where its sections begin
    loadedBy,    \* "ramfs" or "nvme" once it was loaded, else "none"
    v9Cursor,    \* what mdl_v9_init_after_header has to parse next, and where
    v9Words,     \* the words from MDL_V9_LAYER_OFFSETS on
    betaCount,   \* MDL_V9_BETA_COUNT
    v9Result     \* what mdl_v9_init_after_header returns, 1 while it runs

v9Vars == <<tiny, loadedBy, v9Cursor, v9Words, betaCount, v9Result>>

HeaderV9 == 176
PhaseD == 4
Unsupported == -1
NotBegun == -3
BetaTable == -2      \* what is parsed next, else the number of a layer
GammaTable == -1

(* The sizes of the sections.                                              *)
PackTernary(n) == (n + 3) \div 4
Intermediate(c) == (8 * c.d) \div 3
BuildBetaTable(n) == 8 + 4 * n
BuildEmptyGammaTable == 8
LayerBlock(c) == 24 + PackTernary(4 * c.d * c.d)
                    + PackTernary(2 * Intermediate(c) * c.d + c.d * Intermediate(c)) + 4
BuildEmbedding(c) == 2 * c.vocab * c.d

BuildHeader(c, at) ==
    [version |-> 9, modelType |-> 11, layers |-> c.layers, d |-> c.d, heads |-> 1,
     dHead |-> c.d, vocab |-> c.vocab, bits |-> 2, total |-> at.total,
     embedOff |-> at.embed, layer0Off |-> at.layer0, lmheadOff |-> at.lmhead,
     kv |-> 1, ffnType |-> 0, ffn |-> Intermediate(c), finalNormOff |-> 0,
     embedBits |-> 0, lmheadBits |-> 2, quantFormat |-> 2]

(* build: beta table, gamma table, layers, embedding, LM head.             *)
Build(c) ==
    LET nBetas == 6 * c.layers + 1
        gammaOff == HeaderV9 + BuildBetaTable(nBetas)
        layer0Off == gammaOff + BuildEmptyGammaTable
        LayerAt(i) == layer0Off + i * LayerBlock(c)
        embedOff == LayerAt(c.layers)
        lmheadOff == embedOff + BuildEmbedding(c)
        at == [layer0 |-> layer0Off, embed |-> embedOff, lmhead |-> lmheadOff,
               total |-> lmheadOff + PackTernary(c.vocab * c.d)]
        sizeFields == {LayerAt(i) + 4 : i \in 0 .. c.layers - 1}
        fields == {HeaderV9 + 4, gammaOff + 4} \cup sizeFields
    IN [header |-> BuildHeader(c, at),
        layers |-> [i \in 0 .. c.layers - 1 |-> LayerAt(i)],
        words |-> [w \in fields |-> IF w = HeaderV9 + 4 THEN nBetas
                                    ELSE IF w = gammaOff + 4 THEN 0 ELSE LayerBlock(c)]]

V9Start(S) ==
    /\ tiny \in {Build(c) : c \in S}
    /\ loadedBy = "none" /\ v9Cursor = [next |-> NotBegun, byte |-> 0] /\ v9Result = 1
    /\ v9Words = [i \in 0 .. OffsetSlots - 1 |-> 0] /\ betaCount = 0
V9Init == V9Start(Shapes)
----------------------------------------------------------------------------
(* model-load of the file, from the first sector of NVMe or all of RamFS:  *)
(* the header is accepted, its format is noted, what follows it is parsed  *)
(* if it is that of IntLLM.                                                *)
WordAt(byte) ==
    IF loadedBy = "nvme" /\ byte + 4 > DmaBytes THEN StaleWord
    ELSE IF byte \in DOMAIN tiny.words THEN tiny.words[byte] ELSE 0

DetectFormat(h) == IF h.version = 9 /\ h.modelType = 11 /\ h.quantFormat = 2
                   THEN PhaseD ELSE Unsupported

BeginV9(source) ==
    /\ loadedBy = "none" /\ HeaderAccepted(tiny.header)
    /\ loadedBy' = source
    /\ v9Words' = [v9Words EXCEPT ![CacheSlot] = DetectFormat(tiny.header)]
    /\ v9Cursor' = [next |-> BetaTable, byte |-> HeaderV9]
    /\ v9Result' = IF DetectFormat(tiny.header) = PhaseD THEN 1 ELSE 0
    /\ UNCHANGED <<tiny, betaCount>>

ParseBetaTable ==
    LET n == WordAt(v9Cursor.byte + 4) IN
    /\ v9Result = 1 /\ v9Cursor.next = BetaTable
    /\ IF n \in 1 .. MaxBetas
       THEN /\ betaCount' = n
            /\ v9Cursor' = [next |-> GammaTable, byte |-> v9Cursor.byte + 8 + 4 * n]
            /\ UNCHANGED v9Result
       ELSE v9Result' = -1 /\ UNCHANGED <<betaCount, v9Cursor>>
    /\ UNCHANGED <<tiny, loadedBy, v9Words>>

\* Mutant: the count of the table is passed over, its magic is not.
ParseGammaShort ==
    /\ v9Result = 1 /\ v9Cursor.next = GammaTable
    /\ v9Cursor' = [next |-> 0, byte |-> v9Cursor.byte + 4 + 4 * WordAt(v9Cursor.byte + 4)]
    /\ UNCHANGED <<tiny, loadedBy, v9Words, betaCount, v9Result>>

ParseGammaTable ==
    /\ v9Result = 1 /\ v9Cursor.next = GammaTable
    /\ v9Cursor' = [next |-> 0, byte |-> v9Cursor.byte + 8 + 4 * WordAt(v9Cursor.byte + 4)]
    /\ UNCHANGED <<tiny, loadedBy, v9Words, betaCount, v9Result>>

(* The offset of a layer is recorded, then its size is read to go on.      *)
RecordLayerBlock ==
    LET l == v9Cursor.next
        size == WordAt(v9Cursor.byte + 4)
    IN /\ v9Result = 1 /\ l \in 0 .. tiny.header.layers - 1
       /\ v9Words' = IF l < OffsetSlots THEN [v9Words EXCEPT ![l] = v9Cursor.byte]
                     ELSE v9Words
       /\ IF size <= 0 THEN v9Result' = -1 /\ UNCHANGED v9Cursor
          ELSE /\ v9Cursor' = [next |-> l + 1, byte |-> v9Cursor.byte + size]
               /\ UNCHANGED v9Result
       /\ UNCHANGED <<tiny, loadedBy, betaCount>>

EndV9 ==
    /\ v9Result = 1 /\ v9Cursor.next = tiny.header.layers
    /\ v9Result' = 0
    /\ UNCHANGED <<tiny, loadedBy, v9Cursor, v9Words, betaCount>>

V9Next == \/ \E source \in {"ramfs", "nvme"} : BeginV9(source)
          \/ ParseBetaTable \/ ParseGammaTable \/ RecordLayerBlock \/ EndV9
V9Spec == V9Init /\ [][V9Next]_v9Vars
----------------------------------------------------------------------------
(* The file the script writes is accepted, and the kernel finds its way    *)
(* through it: the tables end where the layers begin, every layer is       *)
(* recorded where it is, the last beta is the LM head's, the layers end at *)
(* the embedding.  This holds from NVMe too as long as the layer headers   *)
(* are in the sector the kernel has read, and the format is kept if the    *)
(* offset table ends below it.                                             *)
InReach == loadedBy = "nvme" =>
              \A i \in DOMAIN tiny.layers : tiny.layers[i] + 8 <= DmaBytes
LayersRecorded ==
    /\ HeaderAccepted(tiny.header)
    /\ v9Result # 1 /\ InReach =>
          /\ v9Result = 0
          /\ betaCount = 6 * tiny.header.layers + 1
          /\ v9Words[0] = tiny.header.layer0Off
          /\ \A i \in DOMAIN tiny.layers : v9Words[i] = tiny.layers[i]
          /\ v9Cursor.byte = tiny.header.embedOff
          /\ tiny.header.layers <= CacheSlot => v9Words[CacheSlot] = PhaseD
=============================================================================
